------------------------- MODULE CaptureLoop_proofs -------------------------
(***************************************************************************)
(* Proofs about CaptureLoop, for every number of buffers, retries, signals *)
(* and frames, and every set of faults.                                    *)
(***************************************************************************)
EXTENDS CaptureLoop, TLAPS

Constants == /\ NbBuffer \in Nat \ {0}
             /\ IoctlRetry \in Nat \ {0}
             /\ MaxFrame \in Nat \ {0}
             /\ MaxSignals \in Nat
             /\ Faults \subseteq FaultKinds

(* The assumptions of the model in one fact.                               *)
LEMMA ConstantsAssumed == Constants
  BY NbBufferAssumption, IoctlRetryAssumption, MaxFrameAssumption,
     MaxSignalsAssumption, FaultsAssumption DEF Constants

(* A failed attempt of an ioctl moves pc to one of three places and never  *)
(* takes the counter below zero.                                           *)
LEMMA FailureTyped ==
  ASSUME TypeOK, NEW res, NEW again \in Points, NEW next \in Points,
         TryAgain(res, again) \/ Panic(res) \/ ReturnError(res, next)
  PROVE  pc' \in Points /\ tries' \in Tries
  BY ConstantsAssumed
  DEF TypeOK, TryAgain, Panic, ReturnError, Again, Tries, Points, Terminal,
      Constants

(* Every variable stays in its set: the counter of an ioctl, the buffer    *)
(* indices and the frame numbers stay in range.                            *)
THEOREM TypeCorrect == Spec => []TypeOK
<1>1. Init => TypeOK
  <2> SUFFICES ASSUME Init PROVE TypeOK
    OBVIOUS
  <2> USE ConstantsAssumed DEF Constants
  <2>1. buf \in DoneEntries /\ incoming \subseteq Buffers
    BY DEF Init, DoneEntries, Buffers, Sizes
  <2>2. /\ framebuffer \in Contents /\ image \in Contents \cup {NoImage}
        /\ mem \in [Buffers -> Frames] /\ captured \in Frames
    BY DEF Init, Contents, Frames, Garbage
  <2>3. pc \in Points /\ tries \in Tries /\ signals \in 0 .. MaxSignals
    BY DEF Init, Points, Tries
  <2>4. done \in Seq(DoneEntries)
    BY DEF Init
  <2>5. is_running \in BOOLEAN
    BY DEF Init
  <2>6. failed \in BOOLEAN /\ kept \subseteq Buffers
    BY DEF Init
  <2>7. QED
    BY <2>1, <2>2, <2>3, <2>4, <2>5, <2>6 DEF TypeOK
<1>2. TypeOK /\ [Next]_vars => TypeOK'
  <2> SUFFICES ASSUME TypeOK, [Next]_vars PROVE TypeOK'
    OBVIOUS
  <2> USE ConstantsAssumed DEF Constants
  <2>1. CASE BeginGrab
    BY <2>1 DEF BeginGrab, EnterIoctl, TypeOK, Points, Tries, Buffers,
       DoneEntries, Sizes, driver
  <2>2. CASE Dequeue
    <3>1. done # <<>> /\ done \in Seq(DoneEntries)
      BY <2>2 DEF Dequeue, TypeOK
    <3>2. Head(done) \in DoneEntries /\ Tail(done) \in Seq(DoneEntries)
      BY <3>1
    <3>3. QED
      BY <2>2, <3>2 DEF Dequeue, TypeOK, Points
  <2>3. CASE Block
    BY <2>3 DEF Block, TypeOK, Points, driver
  <2>4. CASE DequeueFails
    <3>1. pc' \in Points /\ tries' \in Tries
      BY <2>4, FailureTyped DEF DequeueFails, Points
    <3>2. QED
      BY <2>4, <3>1 DEF DequeueFails, TypeOK, driver
  <2>5. CASE Copy
    <3>1. mem[buf.index] \in Frames
      BY DEF TypeOK, DoneEntries
    <3>2. framebuffer' \in Contents
      BY <2>5, <3>1 DEF Copy, Overlay, TypeOK, Contents
    <3>3. pc' \in Points /\ tries' \in Tries
      BY <2>5 DEF Copy, EnterIoctl, TypeOK, Points, Tries
    <3>4. QED
      BY <2>5, <3>2, <3>3 DEF Copy, TypeOK, driver
  <2>6. CASE Publish
    BY <2>6 DEF Publish, EnterIoctl, TypeOK, Points, Tries, driver
  <2>7. CASE PublishFails
    BY <2>7 DEF PublishFails, TypeOK, Points, Terminal, driver
  <2>8. CASE Requeue
    BY <2>8 DEF Requeue, TypeOK, Points, DoneEntries
  <2>9. CASE RequeueRefused \/ RequeueFails
    <3>1. PICK res : AfterQbufFailure(res)
      BY <2>9 DEF RequeueRefused, RequeueFails
    <3>2. pc' \in Points /\ tries' \in Tries
      BY <3>1, FailureTyped DEF AfterQbufFailure, Points
    <3>3. failed' \in BOOLEAN /\ kept' \subseteq Buffers
      BY <2>9 DEF RequeueRefused, RequeueFails, TypeOK, DoneEntries
    <3>4. QED
      BY <3>1, <3>2, <3>3 DEF AfterQbufFailure, TypeOK
  <2>10. CASE SleepEnds
    BY <2>10 DEF SleepEnds, TypeOK, Points, driver
  <2>11. CASE LeaveLoop
    BY <2>11 DEF LeaveLoop, EnterIoctl, TypeOK, Points, Tries, driver
  <2>12. CASE StreamOff
    BY <2>12 DEF StreamOff, TypeOK, Points
  <2>13. CASE StreamOffFails
    <3>1. pc' \in Points /\ tries' \in Tries
      BY <2>13, FailureTyped DEF StreamOffFails, Points
    <3>2. QED
      BY <2>13, <3>1 DEF StreamOffFails, TypeOK, driver
  <2>14. CASE Close
    BY <2>14 DEF Close, TypeOK, Points, Terminal
  <2>15. CASE DriverFill
    <3>1. PICK b \in incoming, size \in Payloads :
            /\ incoming' = incoming \ {b}
            /\ done' = Append(done, [index |-> b, bytesused |-> size])
            /\ IF size = "zero" THEN UNCHANGED <<mem, captured>>
               ELSE /\ captured' = NextFrame
                    /\ mem' = [mem EXCEPT ![b] = NextFrame]
      BY <2>15 DEF DriverFill
    <3>2. [index |-> b, bytesused |-> size] \in DoneEntries
      BY DEF TypeOK, DoneEntries, Payloads
    <3>3. done' \in Seq(DoneEntries)
      BY <3>1, <3>2 DEF TypeOK
    <3>4. NextFrame \in Frames
      BY DEF NextFrame, TypeOK, Frames
    <3>5. captured' \in Frames /\ mem' \in [Buffers -> Frames]
      BY <3>1, <3>4 DEF TypeOK
    <3>6. failed' \in BOOLEAN
      BY <2>15 DEF DriverFill, TypeOK
    <3>7. QED
      BY <2>15, <3>1, <3>3, <3>5, <3>6 DEF DriverFill, TypeOK
  <2>16. CASE Signal
    <3>1. pc' \in Points /\ tries' \in Tries
      BY <2>16, FailureTyped DEF Signal, Points, TypeOK
    <3>2. signals' \in 0 .. MaxSignals /\ is_running' \in BOOLEAN
      BY <2>16 DEF Signal, SignalHandler, TypeOK
    <3>3. QED
      BY <2>16, <3>1, <3>2 DEF Signal, TypeOK, driver
  <2>17. CASE UNCHANGED vars
    BY <2>17 DEF vars, TypeOK
  <2>18. QED
    BY <2>1, <2>2, <2>3, <2>4, <2>5, <2>6, <2>7, <2>8, <2>9, <2>10, <2>11,
       <2>12, <2>13, <2>14, <2>15, <2>16, <2>17
    DEF Next, Process, Steps, FaultySteps, Terminated
<1>3. QED
  BY <1>1, <1>2, PTL DEF Spec

------------------------------------------------------------------------------
(* A step that leaves the driver's queues alone, and starts no copy, keeps *)
(* Ownership.                                                              *)
LEMMA QuietKeepsOwnership ==
  ASSUME Ownership, UNCHANGED <<incoming, done>>,
         pc' = "copy" => pc = "copy" /\ UNCHANGED buf
  PROVE  Ownership'
  BY DEF Ownership, DriverOwned, InDone

(* What DQBUF does to the queues: the buffer it returns was the driver's,  *)
(* is no more, and the others are as they were.                            *)
LEMMA DequeueTakesOne ==
  ASSUME TypeOK, Ownership, Dequeue
  PROVE  /\ buf'.index \in InDone
         /\ InDone' = InDone \ {buf'.index}
         /\ Ownership'
<1>1. /\ done \in Seq(DoneEntries) /\ done # <<>> /\ Len(done) > 0
      /\ done' = Tail(done) /\ buf' = done[1] /\ incoming' = incoming
  BY DEF TypeOK, Dequeue
<1>2. /\ Len(done') = Len(done) - 1
      /\ DOMAIN done = 1 .. Len(done) /\ DOMAIN done' = 1 .. Len(done) - 1
      /\ \A i \in DOMAIN done' : i + 1 \in DOMAIN done /\ done'[i] = done[i + 1]
  BY <1>1
<1>3. 1 \in DOMAIN done
  BY <1>1, <1>2
<1>4. \A i, j \in DOMAIN done : done[i].index = done[j].index => i = j
  BY DEF Ownership
<1>5. \A i, j \in DOMAIN done' : done'[i].index = done'[j].index => i = j
  <2> TAKE i, j \in DOMAIN done'
  <2> HAVE done'[i].index = done'[j].index
  <2>1. i + 1 = j + 1
    BY <1>2, <1>4
  <2>2. QED
    BY <2>1, <1>2
<1>6. InDone' = InDone \ {buf'.index}
  <2>1. ASSUME NEW b \in InDone' PROVE b \in InDone /\ b # buf'.index
    <3>1. PICK i \in DOMAIN done' : b = done'[i].index
      BY <2>1 DEF InDone
    <3>2. b = done[i + 1].index /\ i + 1 \in DOMAIN done /\ i + 1 # 1
      BY <3>1, <1>2
    <3>3. QED
      BY <3>2, <1>1, <1>3, <1>4 DEF InDone
  <2>2. ASSUME NEW b \in InDone, b # buf'.index PROVE b \in InDone'
    <3>1. PICK i \in DOMAIN done : b = done[i].index
      BY <2>2 DEF InDone
    <3>2. i # 1 /\ i - 1 \in DOMAIN done' /\ (i - 1) + 1 = i
      BY <3>1, <2>2, <1>1, <1>2
    <3>3. QED
      BY <3>1, <3>2, <1>2 DEF InDone
  <2>3. QED
    BY <2>1, <2>2
<1>7. buf'.index \in InDone
  BY <1>1, <1>3 DEF InDone
<1>8. QED
  BY <1>1, <1>5, <1>6, <1>7 DEF Ownership, DriverOwned

(* What the camera does to the queues: one buffer moves from incoming to   *)
(* done, so the buffers that are the driver's stay the same.               *)
LEMMA DriverFillMovesOne ==
  ASSUME TypeOK, Ownership, DriverFill
  PROVE  /\ DriverOwned' = DriverOwned
         /\ Ownership'
<1>1. PICK b \in incoming, size \in Payloads :
        /\ incoming' = incoming \ {b}
        /\ done' = Append(done, [index |-> b, bytesused |-> size])
  BY DEF DriverFill
<1>2. done \in Seq(DoneEntries) /\ [index |-> b, bytesused |-> size] \in DoneEntries
  BY DEF TypeOK, DoneEntries, Payloads
<1>3. /\ DOMAIN done = 1 .. Len(done) /\ DOMAIN done' = 1 .. Len(done) + 1
      /\ Len(done) \in Nat
      /\ \A i \in DOMAIN done : done'[i] = done[i]
      /\ done'[Len(done) + 1] = [index |-> b, bytesused |-> size]
  BY <1>1, <1>2
<1>4. b \notin InDone
  BY DEF Ownership
<1>5. \A i \in DOMAIN done : done[i].index # b
  BY <1>4 DEF InDone
<1>6. \A i, j \in DOMAIN done' : done'[i].index = done'[j].index => i = j
  <2> TAKE i, j \in DOMAIN done'
  <2> HAVE done'[i].index = done'[j].index
  <2>1. CASE i \in DOMAIN done /\ j \in DOMAIN done
    BY <2>1, <1>3 DEF Ownership
  <2>2. CASE i = Len(done) + 1 /\ j = Len(done) + 1
    BY <2>2
  <2>3. CASE i \in DOMAIN done /\ j = Len(done) + 1
    BY <2>3, <1>3, <1>5
  <2>4. CASE i = Len(done) + 1 /\ j \in DOMAIN done
    BY <2>4, <1>3, <1>5
  <2>5. QED
    BY <2>1, <2>2, <2>3, <2>4, <1>3
<1>7. InDone' = InDone \cup {b}
  <2>1. \A x \in InDone' : x \in InDone \cup {b}
    BY <1>3 DEF InDone
  <2>2. \A x \in InDone : x \in InDone'
    BY <1>3 DEF InDone
  <2>3. b \in InDone'
    BY <1>3 DEF InDone
  <2>4. QED
    BY <2>1, <2>2, <2>3
<1>8. DriverOwned' = DriverOwned
  BY <1>1, <1>7 DEF DriverOwned
<1>9. pc' = pc /\ buf' = buf
  BY DEF DriverFill
<1>10. QED
  BY <1>1, <1>6, <1>7, <1>8, <1>9 DEF Ownership

(* The process only ever copies out of a buffer it owns, and the driver    *)
(* never has a buffer twice, whatever fails.                               *)
THEOREM OwnershipHolds == Spec => []Ownership
<1>1. Init => Ownership
  BY DEF Init, Ownership, InDone
<1>2. TypeOK /\ Ownership /\ [Next]_vars => Ownership'
  <2> SUFFICES ASSUME TypeOK, Ownership, [Next]_vars PROVE Ownership'
    OBVIOUS
  <2>1. CASE BeginGrab
    BY <2>1, QuietKeepsOwnership DEF BeginGrab, EnterIoctl, driver
  <2>2. CASE Dequeue
    BY <2>2, DequeueTakesOne
  <2>3. CASE Block
    BY <2>3, QuietKeepsOwnership DEF Block, driver
  <2>4. CASE DequeueFails
    <3>1. pc' # "copy" /\ UNCHANGED <<incoming, done>>
      BY <2>4 DEF DequeueFails, TryAgain, Panic, ReturnError, driver
    <3>2. QED
      BY <3>1, QuietKeepsOwnership
  <2>5. CASE Copy
    <3>1. pc' # "copy" /\ UNCHANGED <<incoming, done>>
      BY <2>5 DEF Copy, EnterIoctl, driver
    <3>2. QED
      BY <3>1, QuietKeepsOwnership
  <2>6. CASE Publish
    BY <2>6, QuietKeepsOwnership DEF Publish, EnterIoctl, driver
  <2>7. CASE PublishFails
    BY <2>7, QuietKeepsOwnership DEF PublishFails, driver
  <2>8. CASE Requeue
    <3>1. /\ buf.index \notin DriverOwned /\ done' = done
          /\ incoming' = incoming \cup {buf.index} /\ pc' # "copy"
      BY <2>8 DEF Requeue
    <3>2. InDone' = InDone
      BY <3>1 DEF InDone
    <3>3. QED
      BY <3>1, <3>2 DEF Ownership, DriverOwned
  <2>9. CASE RequeueRefused \/ RequeueFails
    <3>1. pc' # "copy" /\ UNCHANGED <<incoming, done>>
      BY <2>9 DEF RequeueRefused, RequeueFails, AfterQbufFailure, TryAgain,
         Panic, ReturnError, driver
    <3>2. QED
      BY <3>1, QuietKeepsOwnership
  <2>10. CASE SleepEnds
    BY <2>10, QuietKeepsOwnership DEF SleepEnds, driver
  <2>11. CASE LeaveLoop
    BY <2>11, QuietKeepsOwnership DEF LeaveLoop, EnterIoctl, driver
  <2>12. CASE StreamOff \/ Close
    BY <2>12 DEF StreamOff, Close, Ownership, InDone
  <2>13. CASE StreamOffFails
    <3>1. pc' # "copy" /\ UNCHANGED <<incoming, done>>
      BY <2>13 DEF StreamOffFails, TryAgain, Panic, ReturnError, driver
    <3>2. QED
      BY <3>1, QuietKeepsOwnership
  <2>14. CASE DriverFill
    BY <2>14, DriverFillMovesOne
  <2>15. CASE Signal
    <3>1. UNCHANGED <<incoming, done, buf>> /\ (pc' = "copy" => pc = "copy")
      BY <2>15 DEF Signal, TryAgain, Panic, driver
    <3>2. QED
      BY <3>1, QuietKeepsOwnership
  <2>16. CASE UNCHANGED vars
    BY <2>16, QuietKeepsOwnership DEF vars
  <2>17. QED
    BY <2>1, <2>2, <2>3, <2>4, <2>5, <2>6, <2>7, <2>8, <2>9, <2>10, <2>11,
       <2>12, <2>13, <2>14, <2>15, <2>16
    DEF Next, Process, Steps, FaultySteps, Terminated
<1>3. QED
  BY <1>1, <1>2, TypeCorrect, PTL DEF Spec

------------------------------------------------------------------------------
(* The inductive form of NoLeak: what QBUF has refused is not the driver's; *)
(* in the middle of a round the only other buffer the driver may lack is   *)
(* the one vd->buf names.                                                  *)
Returned ==
  /\ kept \cap DriverOwned = {}
  /\ pc \in {"head", "dqbuf", "blocked", "sleep"} =>
       DriverOwned \cup kept = Buffers
  /\ pc \in {"copy", "publish", "qbuf"} =>
       DriverOwned \cup kept \cup {buf.index} = Buffers

(* An ioctl that fails for a passing reason is never reported to its       *)
(* caller: it is tried again, or the process ends.                         *)
LEMMA TransientNotReturned ==
  ASSUME TypeOK, NEW next PROVE ~ReturnError("transient", next)
  BY ConstantsAssumed DEF ReturnError, Refused, Again, TypeOK, Tries, Constants

(* Whenever the process is about to wait for a frame the driver has the    *)
(* whole pool back, but for the buffers it has itself refused for good:    *)
(* nothing else lets the ring run dry.                                     *)
THEOREM NoLeakHolds == Spec => []NoLeak
<1>1. Init => Returned
  BY DEF Init, Returned, DriverOwned, InDone
<1>2. TypeOK /\ Ownership /\ Returned /\ [Next]_vars => Returned'
  <2> SUFFICES ASSUME TypeOK, Ownership, Returned, [Next]_vars
               PROVE  Returned'
    OBVIOUS
  <2>0. buf.index \in Buffers
    BY DEF TypeOK, DoneEntries
  <2>1. CASE BeginGrab
    BY <2>1 DEF BeginGrab, EnterIoctl, Returned, driver, DriverOwned, InDone
  <2>2. CASE Dequeue
    <3>1. /\ buf'.index \in InDone /\ InDone' = InDone \ {buf'.index}
          /\ incoming' = incoming
      BY <2>2, DequeueTakesOne DEF Dequeue
    <3>2. DriverOwned' \cup {buf'.index} = DriverOwned
      BY <3>1 DEF DriverOwned, Ownership
    <3>3. QED
      BY <2>2, <3>2 DEF Dequeue, Returned
  <2>3. CASE Block
    BY <2>3 DEF Block, Returned, driver, DriverOwned, InDone
  <2>4. CASE DequeueFails
    <3>1. /\ DriverOwned' = DriverOwned /\ kept' = kept
          /\ pc \in {"dqbuf", "blocked"} /\ buf' = buf
      BY <2>4 DEF DequeueFails, driver, DriverOwned, InDone
    <3>2. QED
      BY <2>0, <3>1 DEF Returned
  <2>5. CASE Copy
    BY <2>5 DEF Copy, EnterIoctl, Returned, driver, DriverOwned, InDone
  <2>6. CASE Publish
    BY <2>6 DEF Publish, EnterIoctl, Returned, driver, DriverOwned, InDone
  <2>7. CASE PublishFails
    BY <2>7 DEF PublishFails, Returned, driver, DriverOwned, InDone
  <2>8. CASE Requeue
    <3>1. DriverOwned' = DriverOwned \cup {buf.index}
      BY <2>8 DEF Requeue, DriverOwned, InDone
    <3>2. QED
      BY <2>0, <2>8, <3>1 DEF Requeue, Returned
  <2>9. CASE RequeueRefused
    <3>1. DriverOwned \cup kept = Buffers
      BY <2>9 DEF RequeueRefused, Returned
    <3>2. DriverOwned' = DriverOwned /\ kept' = kept /\ buf' = buf
      BY <2>9 DEF RequeueRefused, AfterQbufFailure, DriverOwned, InDone
    <3>3. QED
      BY <2>0, <3>1, <3>2 DEF Returned
  <2>9a. CASE RequeueFails
    <3>1. PICK res \in Failures :
            /\ AfterQbufFailure(res)
            /\ kept' = IF res = "hard" THEN kept \cup ({buf.index} \ DriverOwned)
                                       ELSE kept
      BY <2>9a DEF RequeueFails, IoctlFailures
    <3>2. DriverOwned' = DriverOwned /\ buf' = buf /\ pc = "qbuf"
      BY <2>9a, <3>1 DEF RequeueFails, AfterQbufFailure, DriverOwned, InDone
    <3>3. CASE res = "hard"
      BY <2>0, <3>1, <3>2, <3>3 DEF Returned
    <3>4. CASE res # "hard"
      <4>1. res = "transient"
        BY <3>4 DEF Failures
      <4>2. pc' = "qbuf" \/ pc' = "panic"
        BY <3>1, <3>2, <4>1, TransientNotReturned
        DEF AfterQbufFailure, TryAgain, Panic
      <4>3. QED
        BY <3>1, <3>2, <3>4, <4>2 DEF Returned
    <3>5. QED
      BY <3>3, <3>4
  <2>10. CASE SleepEnds
    BY <2>10 DEF SleepEnds, Returned, driver, DriverOwned, InDone
  <2>11. CASE LeaveLoop
    BY <2>11 DEF LeaveLoop, EnterIoctl, Returned, driver, DriverOwned, InDone
  <2>12. CASE StreamOff \/ Close
    BY <2>12 DEF StreamOff, Close, Returned, DriverOwned, InDone
  <2>13. CASE StreamOffFails
    <3>1. DriverOwned' = DriverOwned /\ kept' = kept
      BY <2>13 DEF StreamOffFails, driver, DriverOwned, InDone
    <3>2. QED
      BY <2>13, <3>1 DEF StreamOffFails, TryAgain, Panic, ReturnError, Returned
  <2>14. CASE DriverFill
    BY <2>14, DriverFillMovesOne DEF DriverFill, Returned
  <2>15. CASE Signal
    <3>1. DriverOwned' = DriverOwned /\ buf' = buf /\ kept' = kept
      BY <2>15 DEF Signal, driver, DriverOwned, InDone
    <3>2. QED
      BY <2>15, <3>1 DEF Signal, TryAgain, Panic, Returned
  <2>16. CASE UNCHANGED vars
    BY <2>16 DEF vars, Returned, DriverOwned, InDone
  <2>17. QED
    BY <2>1, <2>2, <2>3, <2>4, <2>5, <2>6, <2>7, <2>8, <2>9, <2>9a, <2>10, <2>11,
       <2>12, <2>13, <2>14, <2>15, <2>16
    DEF Next, Process, Steps, FaultySteps, Terminated
<1>3. Returned => NoLeak
  BY DEF Returned, NoLeak
<1>4. QED
  BY <1>1, <1>2, <1>3, TypeCorrect, OwnershipHolds, PTL DEF Spec

------------------------------------------------------------------------------
(* The inductive form of PanicNeedsSignals: every try used up in DQBUF is  *)
(* a signal that came, and the buffer given back is the process's own, so  *)
(* nothing else fails.                                                     *)
Patience ==
  ~failed =>
    /\ pc \in {"dqbuf", "blocked"} =>
         MaxSignals - signals >= IoctlRetry - tries
    /\ pc \in {"copy", "publish", "qbuf"} => buf.index \notin DriverOwned
    /\ pc = "panic" => MaxSignals - signals > IoctlRetry

(* As long as no ioctl has failed by itself, nothing but IOCTL_RETRY + 1   *)
(* signals during one DQBUF makes the process panic.                       *)
THEOREM PanicNeedsSignalsHolds == Spec => []PanicNeedsSignals
<1>1. Init => Patience
  BY DEF Init, Patience
<1>2. TypeOK /\ Ownership /\ Patience /\ [Next]_vars => Patience'
  <2> SUFFICES ASSUME TypeOK, Ownership, Patience, [Next]_vars, ~failed'
               PROVE  Patience'
    BY DEF Patience
  <2> USE ConstantsAssumed DEF Constants
  <2>0. ~failed
    BY DEF Next, Process, Steps, FaultySteps, Terminated, vars, BeginGrab,
       Dequeue, Block, DequeueFails, Copy, Publish, PublishFails, Requeue,
       RequeueRefused, RequeueFails, SleepEnds, LeaveLoop, StreamOff,
       StreamOffFails, Close, DriverFill, Signal
  <2>1. CASE BeginGrab
    BY <2>0, <2>1 DEF BeginGrab, EnterIoctl, Patience, TypeOK
  <2>2. CASE Dequeue
    <3>1. /\ buf'.index \in InDone /\ InDone' = InDone \ {buf'.index}
          /\ incoming' = incoming
      BY <2>2, DequeueTakesOne DEF Dequeue
    <3>2. buf'.index \notin DriverOwned'
      BY <3>1 DEF DriverOwned, Ownership
    <3>3. QED
      BY <2>0, <2>2, <3>2 DEF Dequeue, Patience
  <2>3. CASE Block
    BY <2>0, <2>3 DEF Block, Patience
  <2>4. CASE DequeueFails
    BY <2>4 DEF DequeueFails
  <2>5. CASE Copy
    BY <2>0, <2>5 DEF Copy, EnterIoctl, Patience, driver, DriverOwned, InDone
  <2>6. CASE Publish
    BY <2>0, <2>6 DEF Publish, EnterIoctl, Patience, driver, DriverOwned, InDone
  <2>7. CASE PublishFails
    BY <2>7 DEF PublishFails
  <2>8. CASE Requeue
    BY <2>0, <2>8 DEF Requeue, Patience
  <2>9. CASE RequeueRefused \/ RequeueFails
    <3>1. ~RequeueRefused
      BY <2>0 DEF RequeueRefused, Patience
    <3>2. QED
      BY <2>9, <3>1 DEF RequeueFails
  <2>10. CASE SleepEnds
    BY <2>0, <2>10 DEF SleepEnds, Patience
  <2>11. CASE LeaveLoop
    BY <2>0, <2>11 DEF LeaveLoop, EnterIoctl, Patience
  <2>12. CASE StreamOff \/ Close
    BY <2>0, <2>12 DEF StreamOff, Close, Patience
  <2>13. CASE StreamOffFails
    BY <2>13 DEF StreamOffFails
  <2>14. CASE DriverFill
    BY <2>0, <2>14, DriverFillMovesOne DEF DriverFill, Patience
  <2>15. CASE Signal
    <3>1. /\ signals \in Nat /\ signals' = signals - 1 /\ tries \in Nat
          /\ buf' = buf /\ DriverOwned' = DriverOwned
      BY <2>15 DEF Signal, TypeOK, Tries, driver, DriverOwned, InDone
    <3>2. CASE pc = "blocked" /\ TryAgain("transient", "dqbuf")
      BY <2>0, <3>1, <3>2 DEF TryAgain, Patience
    <3>3. CASE pc = "blocked" /\ Panic("transient")
      <4>1. tries = 0
        BY <3>3 DEF Panic, GivesUp, Again
      <4>2. QED
        BY <2>0, <3>1, <3>3, <4>1 DEF Panic, Patience
    <3>4. CASE pc = "sleep" /\ pc' = "head"
      BY <2>0, <3>4 DEF Patience
    <3>5. CASE UNCHANGED <<pc, tries>>
      BY <2>0, <3>1, <3>5 DEF Patience
    <3>6. QED
      BY <2>15, <3>2, <3>3, <3>4, <3>5 DEF Signal
  <2>16. CASE UNCHANGED vars
    BY <2>0, <2>16 DEF vars, Patience, DriverOwned, InDone
  <2>17. QED
    BY <2>0, <2>1, <2>2, <2>3, <2>4, <2>5, <2>6, <2>7, <2>8, <2>9, <2>10, <2>11,
       <2>12, <2>13, <2>14, <2>15, <2>16
    DEF Next, Process, Steps, FaultySteps, Terminated
<1>3. Patience => PanicNeedsSignals
  BY DEF Patience, PanicNeedsSignals
<1>4. QED
  BY <1>1, <1>2, <1>3, TypeCorrect, OwnershipHolds, PTL DEF Spec

------------------------------------------------------------------------------
(* The inductive form of NeverOlder: the image, the framebuffer, the       *)
(* buffer being copied, the filled buffers in the order they will be       *)
(* dequeued, and the camera's count hold ever newer frames.                *)
Stored(entry) == entry.bytesused # "zero"

ImageChain ==
  /\ image.tail <= image.head
  /\ image.head <= framebuffer.head
  /\ image.tail <= framebuffer.tail
  /\ framebuffer.tail <= framebuffer.head
  /\ framebuffer.head <= captured

DoneChain ==
  /\ \A i \in DOMAIN done : Stored(done[i]) =>
       /\ framebuffer.head <= mem[done[i].index]
       /\ mem[done[i].index] <= captured
  /\ \A i, j \in DOMAIN done :
       i < j /\ Stored(done[i]) /\ Stored(done[j])
         => mem[done[i].index] <= mem[done[j].index]

CopyChain ==
  pc = "copy" /\ Stored(buf) =>
    /\ framebuffer.head <= mem[buf.index]
    /\ mem[buf.index] <= captured
    /\ \A i \in DOMAIN done :
         Stored(done[i]) => mem[buf.index] <= mem[done[i].index]

Chain == ImageChain /\ DoneChain /\ CopyChain

(* A step that moves no frame keeps the order of the frames.               *)
LEMMA QuietKeepsChain ==
  ASSUME Chain, UNCHANGED <<framebuffer, image, done, mem, captured>>,
         pc' = "copy" => pc = "copy" /\ UNCHANGED buf
  PROVE  Chain'
  BY DEF Chain, ImageChain, DoneChain, CopyChain, Stored

(* VIDIOC_DQBUF takes the oldest filled buffer: the order holds.           *)
LEMMA DequeueKeepsChain ==
  ASSUME TypeOK, Chain, Dequeue
  PROVE  Chain'
<1>1. /\ done \in Seq(DoneEntries) /\ done # <<>> /\ Len(done) > 0
      /\ done' = Tail(done) /\ buf' = done[1]
      /\ UNCHANGED <<framebuffer, image, mem, captured>>
  BY DEF TypeOK, Dequeue
<1>2. /\ DOMAIN done = 1 .. Len(done) /\ DOMAIN done' = 1 .. Len(done) - 1
      /\ \A i \in DOMAIN done' : i + 1 \in DOMAIN done /\ done'[i] = done[i + 1]
  BY <1>1
<1>3. 1 \in DOMAIN done
  BY <1>1, <1>2
<1>4. ImageChain'
  BY <1>1 DEF Chain, ImageChain
<1>5. DoneChain'
  <2>1. \A i \in DOMAIN done' : Stored(done'[i]) =>
          /\ framebuffer.head <= mem[done'[i].index]
          /\ mem[done'[i].index] <= captured
    BY <1>2 DEF Chain, DoneChain
  <2>2. ASSUME NEW i \in DOMAIN done', NEW j \in DOMAIN done', i < j,
               Stored(done'[i]), Stored(done'[j])
        PROVE  mem[done'[i].index] <= mem[done'[j].index]
    <3>1. i + 1 < j + 1
      BY <2>2, <1>2
    <3>2. QED
      BY <2>2, <3>1, <1>2 DEF Chain, DoneChain
  <2>3. QED
    BY <2>1, <2>2, <1>1 DEF DoneChain, Stored
<1>6. CopyChain'
  <2>1. SUFFICES ASSUME Stored(done[1])
                 PROVE  /\ framebuffer.head <= mem[done[1].index]
                        /\ mem[done[1].index] <= captured
                        /\ \A i \in DOMAIN done' : Stored(done'[i]) =>
                             mem[done[1].index] <= mem[done'[i].index]
    BY <1>1 DEF CopyChain, Stored
  <2>2. ASSUME NEW i \in DOMAIN done', Stored(done'[i])
        PROVE  mem[done[1].index] <= mem[done'[i].index]
    <3>1. 1 < i + 1 /\ i + 1 \in DOMAIN done
      BY <1>2
    <3>2. QED
      BY <2>1, <2>2, <3>1, <1>2, <1>3 DEF Chain, DoneChain
  <2>3. QED
    BY <2>1, <2>2, <1>3 DEF Chain, DoneChain
<1>7. QED
  BY <1>4, <1>5, <1>6 DEF Chain

(* The driver fills a buffer with a newer frame: the order holds.          *)
LEMMA DriverFillKeepsChain ==
  ASSUME TypeOK, Ownership, Chain, DriverFill
  PROVE  Chain'
<1>1. PICK b \in incoming, size \in Payloads :
        /\ incoming' = incoming \ {b}
        /\ done' = Append(done, [index |-> b, bytesused |-> size])
        /\ IF size = "zero" THEN UNCHANGED <<mem, captured>>
           ELSE /\ captured' = NextFrame
                /\ mem' = [mem EXCEPT ![b] = NextFrame]
  BY DEF DriverFill
<1>2. /\ done \in Seq(DoneEntries) /\ [index |-> b, bytesused |-> size] \in DoneEntries
      /\ b \in Buffers /\ captured \in Nat /\ MaxFrame \in Nat
      /\ mem \in [Buffers -> Frames] /\ framebuffer.head \in Nat
  BY ConstantsAssumed
  DEF TypeOK, DoneEntries, Payloads, Frames, Contents, Constants
<1>3. /\ DOMAIN done = 1 .. Len(done) /\ DOMAIN done' = 1 .. Len(done) + 1
      /\ Len(done) \in Nat
      /\ \A i \in DOMAIN done : done'[i] = done[i]
      /\ done'[Len(done) + 1] = [index |-> b, bytesused |-> size]
  BY <1>1, <1>2
<1>4. /\ UNCHANGED <<pc, buf, framebuffer, image>>
      /\ captured <= captured' /\ captured' \in Nat
  BY <1>1, <1>2 DEF DriverFill, NextFrame
<1>5. \A i \in DOMAIN done : done[i].index # b /\ done[i].index \in Buffers
  <2>1. \A i \in DOMAIN done : done[i] \in DoneEntries
    BY <1>2, <1>3
  <2>2. b \notin InDone
    BY DEF Ownership
  <2>3. QED
    BY <2>1, <2>2 DEF InDone, DoneEntries
<1>6. \A i \in DOMAIN done : mem'[done[i].index] = mem[done[i].index]
  BY <1>1, <1>2, <1>5
<1>7. pc = "copy" => mem'[buf.index] = mem[buf.index]
  <2>1. pc = "copy" => buf.index # b
    BY DEF Ownership, DriverOwned
  <2>2. buf.index \in Buffers
    BY DEF TypeOK, DoneEntries
  <2>3. QED
    BY <2>1, <2>2, <1>1, <1>2
<1>8. size # "zero" => mem'[b] = captured'
  BY <1>1, <1>2
<1>9. \A x \in Buffers : mem[x] \in Int
  BY <1>2 DEF Frames
<1>10. ImageChain'
  BY <1>2, <1>4 DEF Chain, ImageChain
<1>11. DoneChain'
  <2>1. ASSUME NEW i \in DOMAIN done', Stored(done'[i])
        PROVE  /\ framebuffer.head <= mem'[done'[i].index]
               /\ mem'[done'[i].index] <= captured'
    <3>1. CASE i \in DOMAIN done
      <4>1. /\ framebuffer.head <= mem[done[i].index]
            /\ mem[done[i].index] <= captured
        BY <2>1, <3>1, <1>3 DEF Chain, DoneChain
      <4>2. mem[done[i].index] \in Int
        BY <3>1, <1>5, <1>9
      <4>3. done'[i] = done[i] /\ mem'[done[i].index] = mem[done[i].index]
        BY <3>1, <1>3, <1>6
      <4>4. QED
        BY <4>1, <4>2, <4>3, <1>2, <1>4
    <3>2. CASE i = Len(done) + 1
      <4>1. size # "zero" /\ done'[i].index = b
        BY <2>1, <3>2, <1>3 DEF Stored
      <4>2. framebuffer.head <= captured
        BY DEF Chain, ImageChain
      <4>3. QED
        BY <4>1, <4>2, <1>2, <1>4, <1>8
    <3>3. QED
      BY <3>1, <3>2, <1>3
  <2>2. ASSUME NEW i \in DOMAIN done', NEW j \in DOMAIN done', i < j,
               Stored(done'[i]), Stored(done'[j])
        PROVE  mem'[done'[i].index] <= mem'[done'[j].index]
    <3>1. i \in DOMAIN done /\ done'[i] = done[i]
      BY <2>2, <1>3
    <3>2. CASE j \in DOMAIN done
      BY <2>2, <3>1, <3>2, <1>3, <1>6 DEF Chain, DoneChain
    <3>3. CASE j = Len(done) + 1
      <4>1. mem'[done'[j].index] = captured'
        BY <2>2, <3>3, <1>3, <1>8 DEF Stored
      <4>2. QED
        BY <2>1, <2>2, <4>1
    <3>4. QED
      BY <3>2, <3>3, <1>3
  <2>3. QED
    BY <2>1, <2>2, <1>4 DEF DoneChain, Stored
<1>12. CopyChain'
  <2> SUFFICES ASSUME pc = "copy", Stored(buf)
               PROVE  /\ framebuffer.head <= mem'[buf.index]
                      /\ mem'[buf.index] <= captured'
                      /\ \A i \in DOMAIN done' : Stored(done'[i]) =>
                           mem'[buf.index] <= mem'[done'[i].index]
    BY <1>4 DEF CopyChain, Stored
  <2>1. /\ framebuffer.head <= mem[buf.index] /\ mem[buf.index] <= captured
        /\ \A i \in DOMAIN done :
             Stored(done[i]) => mem[buf.index] <= mem[done[i].index]
    BY DEF Chain, CopyChain
  <2>2. mem[buf.index] \in Int
    BY <1>9 DEF TypeOK, DoneEntries
  <2>3. mem'[buf.index] <= captured'
    BY <2>1, <2>2, <1>2, <1>4, <1>7
  <2>4. ASSUME NEW i \in DOMAIN done', Stored(done'[i])
        PROVE  mem'[buf.index] <= mem'[done'[i].index]
    <3>1. CASE i \in DOMAIN done
      BY <2>1, <2>4, <3>1, <1>3, <1>6, <1>7
    <3>2. CASE i = Len(done) + 1
      BY <2>3, <2>4, <3>2, <1>3, <1>8 DEF Stored
    <3>3. QED
      BY <3>1, <3>2, <1>3
  <2>5. QED
    BY <2>1, <2>3, <2>4, <1>7
<1>13. QED
  BY <1>10, <1>11, <1>12 DEF Chain

(* The copy puts the dequeued frame into the framebuffer: the order holds. *)
LEMMA CopyKeepsChain ==
  ASSUME TypeOK, Chain, Copy
  PROVE  Chain'
<1>1. /\ pc = "copy" /\ pc' # "copy"
      /\ framebuffer' = Overlay(buf.bytesused, mem[buf.index])
      /\ UNCHANGED <<buf, image, done, mem, captured>>
  BY DEF Copy, EnterIoctl, driver
<1>2. /\ framebuffer.head \in Int /\ framebuffer.tail \in Int
      /\ mem[buf.index] \in Int /\ captured \in Int
      /\ image.head \in Int /\ image.tail \in Int
  BY ConstantsAssumed
  DEF TypeOK, Contents, Frames, DoneEntries, NoImage, NoFile, Constants
<1>3. CASE ~Stored(buf)
  <2>1. framebuffer'.head = framebuffer.head /\ framebuffer'.tail = framebuffer.tail
    BY <1>1, <1>3 DEF Overlay, Stored
  <2>2. QED
    BY <1>1, <2>1 DEF Chain, ImageChain, DoneChain, CopyChain
<1>4. CASE Stored(buf)
  <2>1. /\ framebuffer'.head = mem[buf.index]
        /\ \/ framebuffer'.tail = mem[buf.index]
           \/ framebuffer'.tail = framebuffer.tail
    BY <1>1, <1>4 DEF Overlay, Stored
  <2>2. /\ framebuffer.head <= mem[buf.index] /\ mem[buf.index] <= captured
        /\ \A i \in DOMAIN done :
             Stored(done[i]) => mem[buf.index] <= mem[done[i].index]
    BY <1>1, <1>4 DEF Chain, CopyChain
  <2>3. ImageChain'
    BY <1>1, <1>2, <2>1, <2>2 DEF Chain, ImageChain
  <2>4. DoneChain'
    BY <1>1, <2>1, <2>2 DEF Chain, DoneChain, Stored
  <2>5. QED
    BY <1>1, <2>3, <2>4 DEF Chain, CopyChain
<1>5. QED
  BY <1>3, <1>4

(* Whatever fails, no image is older than the one it replaces, and within  *)
(* an image the part left over from an earlier frame is the last.          *)
THEOREM NeverOlderHolds == Spec => NeverOlder
<1>1. Init => Chain
  <2> SUFFICES ASSUME Init PROVE Chain
    OBVIOUS
  <2>1. DOMAIN done = {}
    BY DEF Init
  <2>2. QED
    BY <2>1 DEF Init, Chain, ImageChain, DoneChain, CopyChain, NoImage,
       NoFile, Garbage
<1>2. TypeOK /\ Ownership /\ Chain /\ [Next]_vars => Chain'
  <2> SUFFICES ASSUME TypeOK, Ownership, Chain, [Next]_vars PROVE Chain'
    OBVIOUS
  <2>1. CASE BeginGrab
    BY <2>1, QuietKeepsChain DEF BeginGrab, EnterIoctl, driver
  <2>2. CASE Dequeue
    BY <2>2, DequeueKeepsChain
  <2>3. CASE Block
    BY <2>3, QuietKeepsChain DEF Block, driver
  <2>4. CASE DequeueFails
    <3>1. pc' # "copy" /\ UNCHANGED <<framebuffer, image, done, mem, captured>>
      BY <2>4 DEF DequeueFails, TryAgain, Panic, ReturnError, driver
    <3>2. QED
      BY <3>1, QuietKeepsChain
  <2>5. CASE Copy
    BY <2>5, CopyKeepsChain
  <2>6. CASE Publish
    <3>1. /\ image' = framebuffer /\ pc' # "copy"
          /\ UNCHANGED <<framebuffer, done, mem, captured>>
      BY <2>6 DEF Publish, EnterIoctl, driver
    <3>2. framebuffer.head \in Int /\ framebuffer.tail \in Int
      BY ConstantsAssumed DEF TypeOK, Contents, Frames, Constants
    <3>3. ImageChain'
      BY <3>1, <3>2 DEF Chain, ImageChain
    <3>4. DoneChain' /\ CopyChain'
      BY <3>1 DEF Chain, DoneChain, CopyChain, Stored
    <3>5. QED
      BY <3>3, <3>4 DEF Chain
  <2>7. CASE PublishFails
    BY <2>7, QuietKeepsChain DEF PublishFails, driver
  <2>8. CASE Requeue
    BY <2>8, QuietKeepsChain DEF Requeue
  <2>9. CASE RequeueRefused \/ RequeueFails
    <3>1. pc' # "copy" /\ UNCHANGED <<framebuffer, image, done, mem, captured>>
      BY <2>9 DEF RequeueRefused, RequeueFails, AfterQbufFailure, TryAgain,
         Panic, ReturnError, driver
    <3>2. QED
      BY <3>1, QuietKeepsChain
  <2>10. CASE SleepEnds
    BY <2>10, QuietKeepsChain DEF SleepEnds, driver
  <2>11. CASE LeaveLoop
    BY <2>11, QuietKeepsChain DEF LeaveLoop, EnterIoctl, driver
  <2>12. CASE StreamOff \/ Close
    <3>1. /\ done' = <<>> /\ pc' # "copy"
          /\ UNCHANGED <<framebuffer, image, mem, captured>>
      BY <2>12 DEF StreamOff, Close
    <3>2. DOMAIN done' = {}
      BY <3>1
    <3>3. QED
      BY <3>1, <3>2 DEF Chain, ImageChain, DoneChain, CopyChain
  <2>13. CASE StreamOffFails
    <3>1. pc' # "copy" /\ UNCHANGED <<framebuffer, image, done, mem, captured>>
      BY <2>13 DEF StreamOffFails, TryAgain, Panic, ReturnError, driver
    <3>2. QED
      BY <3>1, QuietKeepsChain
  <2>14. CASE DriverFill
    BY <2>14, DriverFillKeepsChain
  <2>15. CASE Signal
    <3>1. /\ UNCHANGED <<buf, framebuffer, image, done, mem, captured>>
          /\ pc' = "copy" => pc = "copy"
      BY <2>15 DEF Signal, TryAgain, Panic, driver
    <3>2. QED
      BY <3>1, QuietKeepsChain
  <2>16. CASE UNCHANGED vars
    BY <2>16, QuietKeepsChain DEF vars
  <2>17. QED
    BY <2>1, <2>2, <2>3, <2>4, <2>5, <2>6, <2>7, <2>8, <2>9, <2>10, <2>11,
       <2>12, <2>13, <2>14, <2>15, <2>16
    DEF Next, Process, Steps, FaultySteps, Terminated
<1>3. TypeOK /\ Chain /\ [Next]_vars =>
        [/\ image'.head >= image.head
         /\ image'.tail >= image.tail
         /\ image'.tail <= image'.head]_vars
  <2> SUFFICES ASSUME TypeOK, Chain, [Next]_vars
               PROVE  /\ image'.head >= image.head
                      /\ image'.tail >= image.tail
                      /\ image'.tail <= image'.head
    OBVIOUS
  <2>1. image' = image \/ image' = framebuffer
    BY DEF Next, Process, Steps, FaultySteps, Terminated, vars, BeginGrab, Dequeue, Block,
       DequeueFails, Copy, Publish, PublishFails, Requeue,
       RequeueRefused, RequeueFails, AfterQbufFailure, SleepEnds, LeaveLoop, StreamOff, StreamOffFails, Close, DriverFill,
       Signal
  <2>2. /\ framebuffer.head \in Int /\ framebuffer.tail \in Int
        /\ image.head \in Int /\ image.tail \in Int
    BY ConstantsAssumed
    DEF TypeOK, Contents, Frames, NoImage, NoFile, Constants
  <2>3. QED
    BY <2>1, <2>2 DEF Chain, ImageChain
<1>4. QED
  BY <1>1, <1>2, <1>3, TypeCorrect, OwnershipHolds, PTL DEF Spec, NeverOlder

------------------------------------------------------------------------------
(* The inductive form of EveryFrameOnce: while nothing has failed, the     *)
(* frames on their way from the camera to the image have no gap.  Frame k  *)
(* of the way is that of the k-th filled buffer, frame 0 the one taken     *)
(* last; each is the next of the one before it, the last is the camera's.  *)
Succ(n) == IF n < MaxFrame THEN n + 1 ELSE n

OnTheWay ==
  [k \in 0 .. Len(done) |->
     IF k # 0 THEN mem[done[k].index]
     ELSE IF pc = "copy" THEN mem[buf.index] ELSE framebuffer.head]

NoGap ==
  /\ \A k \in 0 .. Len(done) - 1 : OnTheWay[k + 1] = Succ(OnTheWay[k])
  /\ captured = OnTheWay[Len(done)]

(* Every payload is a whole frame; the framebuffer has the frame of the    *)
(* image, or, between the copy and the publication, the next one.          *)
WholeFrames ==
  /\ \A k \in DOMAIN done : done[k].bytesused = "full"
  /\ pc = "copy" => /\ buf.bytesused = "full"
                    /\ mem[buf.index] = Succ(framebuffer.head)
  /\ framebuffer.tail = framebuffer.head
  /\ image # NoImage => image.tail = image.head

OneAhead ==
  IF pc = "publish"
  THEN framebuffer.head = IF image = NoImage THEN 1 ELSE Succ(image.head)
  ELSE framebuffer.head = IF image = NoImage THEN Garbage ELSE image.head

Gapless ==
  ~failed => /\ WholeFrames /\ OneAhead
             /\ pc \notin {"close", "exit"} => NoGap

(* A step that touches nothing the frames are in, and neither begins nor   *)
(* ends a copy or a publication, leaves them without a gap.                *)
LEMMA QuietKeepsGapless ==
  ASSUME Gapless, UNCHANGED <<framebuffer, image, done, mem, captured, failed>>,
         pc' = "copy" <=> pc = "copy", pc = "copy" => UNCHANGED buf,
         pc' = "publish" <=> pc = "publish",
         pc \in {"close", "exit"} => pc' \in {"close", "exit"}
  PROVE  Gapless'
<1>1. OnTheWay' = OnTheWay
  BY DEF OnTheWay
<1>2. NoGap => NoGap'
  BY <1>1 DEF NoGap, Succ
<1>3. WholeFrames /\ OneAhead => WholeFrames' /\ OneAhead'
  BY DEF WholeFrames, OneAhead, Succ
<1>4. QED
  BY <1>2, <1>3 DEF Gapless

(* What the frames are numbered with. *)
LEMMA FrameNumbers ==
  ASSUME TypeOK
  PROVE  /\ MaxFrame \in Nat \ {0} /\ captured \in 0 .. MaxFrame
         /\ framebuffer.head \in 0 .. MaxFrame /\ framebuffer.tail \in 0 .. MaxFrame
         /\ \A b \in Buffers : mem[b] \in 0 .. MaxFrame
         /\ buf.index \in Buffers
         /\ \A k \in DOMAIN done : done[k].index \in Buffers
         /\ DOMAIN done = 1 .. Len(done) /\ Len(done) \in Nat
<1>1. \A k \in 1 .. Len(done) : done[k] \in DoneEntries
  BY DEF TypeOK
<1>2. DOMAIN done = 1 .. Len(done) /\ Len(done) \in Nat
  BY DEF TypeOK
<1>3. QED
  BY <1>1, <1>2, ConstantsAssumed
  DEF TypeOK, Constants, Contents, Frames, DoneEntries

(* A dequeued frame is whole and the next in line.                         *)
LEMMA DequeueKeepsGapless ==
  ASSUME TypeOK, Gapless, Dequeue
  PROVE  Gapless'
<1> SUFFICES ASSUME ~failed
             PROVE  WholeFrames' /\ OneAhead' /\ NoGap'
  BY DEF Gapless, Dequeue
<1>1. /\ done \in Seq(DoneEntries) /\ done # <<>> /\ Len(done) > 0
      /\ pc \in {"dqbuf", "blocked"} /\ pc' = "copy"
      /\ done' = Tail(done) /\ buf' = done[1]
      /\ UNCHANGED <<framebuffer, image, mem, captured>>
  BY DEF TypeOK, Dequeue
<1>2. /\ DOMAIN done = 1 .. Len(done) /\ DOMAIN done' = 1 .. Len(done) - 1
      /\ Len(done') = Len(done) - 1 /\ Len(done) \in Nat
      /\ \A k \in DOMAIN done' : k + 1 \in DOMAIN done /\ done'[k] = done[k + 1]
  BY <1>1
<1>3. WholeFrames /\ OneAhead /\ NoGap
  BY <1>1 DEF Gapless
<1>4. \A k \in 0 .. Len(done') : OnTheWay'[k] = OnTheWay[k + 1]
  <2>1. OnTheWay'[0] = OnTheWay[1]
    BY <1>1 DEF OnTheWay
  <2>2. \A k \in 1 .. Len(done') : OnTheWay'[k] = OnTheWay[k + 1]
    BY <1>1, <1>2 DEF OnTheWay
  <2>3. QED
    BY <1>2, <2>1, <2>2
<1>5. NoGap'
  <2>1. ASSUME NEW k \in 0 .. Len(done') - 1
        PROVE  OnTheWay'[k + 1] = Succ(OnTheWay'[k])
    BY <1>2, <1>3, <1>4 DEF NoGap
  <2>2. captured' = OnTheWay'[Len(done')]
    BY <1>1, <1>2, <1>3, <1>4 DEF NoGap
  <2>3. QED
    BY <2>1, <2>2 DEF NoGap, Succ
<1>6. WholeFrames'
  <2>1. done[1].bytesused = "full" /\ mem[done[1].index] = Succ(framebuffer.head)
    <3>1. 1 \in DOMAIN done /\ OnTheWay[0 + 1] = Succ(OnTheWay[0])
      BY <1>1, <1>2, <1>3 DEF NoGap
    <3>2. QED
      BY <1>1, <1>3, <3>1 DEF WholeFrames, OnTheWay
  <2>2. QED
    BY <1>1, <1>2, <1>3, <2>1 DEF WholeFrames, Succ
<1>7. OneAhead'
  BY <1>1, <1>3 DEF OneAhead
<1>8. QED
  BY <1>5, <1>6, <1>7

(* The copied frame follows the published one.                             *)
LEMMA CopyKeepsGapless ==
  ASSUME TypeOK, Gapless, Copy
  PROVE  Gapless'
<1> SUFFICES ASSUME ~failed
             PROVE  WholeFrames' /\ OneAhead' /\ NoGap'
  BY DEF Gapless, Copy
<1>1. /\ pc = "copy" /\ WholeFrames /\ OneAhead /\ NoGap
      /\ UNCHANGED <<buf, image, done, mem, captured>>
  BY DEF Copy, Gapless, driver
<1>2. /\ framebuffer' = [head |-> mem[buf.index], tail |-> mem[buf.index]]
      /\ pc' = "publish"
  BY <1>1 DEF Copy, Overlay, WholeFrames
<1>3. OnTheWay' = OnTheWay
  BY <1>1, <1>2 DEF OnTheWay
<1>4. NoGap'
  BY <1>1, <1>3 DEF NoGap, Succ
<1>5. WholeFrames'
  BY <1>1, <1>2 DEF WholeFrames
<1>6. OneAhead'
  BY <1>1, <1>2, FrameNumbers DEF OneAhead, WholeFrames, Succ, Garbage
<1>7. QED
  BY <1>4, <1>5, <1>6

(* The published frame is the one that was copied.                         *)
LEMMA PublishKeepsGapless ==
  ASSUME TypeOK, Gapless, Publish
  PROVE  Gapless'
<1> SUFFICES ASSUME ~failed
             PROVE  WholeFrames' /\ OneAhead' /\ NoGap'
  BY DEF Gapless, Publish
<1>1. /\ pc = "publish" /\ pc' = "qbuf" /\ WholeFrames /\ OneAhead /\ NoGap
      /\ image' = framebuffer
      /\ UNCHANGED <<framebuffer, buf, done, mem, captured>>
  BY DEF Publish, EnterIoctl, Gapless, driver
<1>2. framebuffer # NoImage
  BY FrameNumbers DEF NoImage, NoFile
<1>3. OnTheWay' = OnTheWay
  BY <1>1 DEF OnTheWay
<1>4. NoGap'
  BY <1>1, <1>3 DEF NoGap, Succ
<1>5. WholeFrames' /\ OneAhead'
  BY <1>1, <1>2 DEF WholeFrames, OneAhead
<1>6. QED
  BY <1>4, <1>5

(* The driver fills the buffers in the order it was given them.            *)
LEMMA DriverFillKeepsGapless ==
  ASSUME TypeOK, Ownership, Gapless, DriverFill
  PROVE  Gapless'
<1> SUFFICES ASSUME ~failed'
             PROVE  WholeFrames' /\ OneAhead' /\ (pc \notin {"close", "exit"} => NoGap')
  BY DEF Gapless, DriverFill
<1>1. PICK b \in incoming :
        /\ done' = Append(done, [index |-> b, bytesused |-> "full"])
        /\ captured' = Succ(captured)
        /\ mem' = [mem EXCEPT ![b] = Succ(captured)]
  BY DEF DriverFill, NextFrame, Succ
<1>2. ~failed /\ UNCHANGED <<pc, buf, framebuffer, image>>
  BY DEF DriverFill
<1>3. WholeFrames /\ OneAhead /\ (pc \notin {"close", "exit"} => NoGap)
  BY <1>2 DEF Gapless
<1>4. /\ b \in Buffers /\ mem \in [Buffers -> Frames]
      /\ [index |-> b, bytesused |-> "full"] \in DoneEntries /\ done \in Seq(DoneEntries)
  BY DEF TypeOK, DoneEntries, Sizes
<1>5. /\ Len(done') = Len(done) + 1 /\ DOMAIN done' = 1 .. Len(done) + 1
      /\ DOMAIN done = 1 .. Len(done) /\ Len(done) \in Nat
      /\ \A k \in 1 .. Len(done) : done'[k] = done[k]
      /\ done'[Len(done) + 1] = [index |-> b, bytesused |-> "full"]
  BY <1>1, <1>4
<1>6. /\ \A k \in DOMAIN done : mem'[done[k].index] = mem[done[k].index]
      /\ pc = "copy" => mem'[buf.index] = mem[buf.index]
      /\ mem'[b] = Succ(captured)
  <2>1. /\ b \notin InDone
        /\ pc = "copy" => buf.index # b
    BY DEF Ownership, DriverOwned
  <2>2. \A k \in DOMAIN done : done[k].index # b
    BY <2>1 DEF InDone
  <2>3. QED
    BY <1>1, <1>4, <2>1, <2>2, FrameNumbers
<1>7. WholeFrames' /\ OneAhead'
  BY <1>2, <1>3, <1>5, <1>6 DEF WholeFrames, OneAhead, Succ
<1>8. ASSUME NoGap PROVE NoGap'
  <2>1. \A k \in 0 .. Len(done) : OnTheWay'[k] = OnTheWay[k]
    BY <1>2, <1>5, <1>6 DEF OnTheWay
  <2>2. OnTheWay'[Len(done) + 1] = Succ(OnTheWay[Len(done)])
    BY <1>5, <1>6, <1>8 DEF OnTheWay, NoGap
  <2>3. ASSUME NEW k \in 0 .. Len(done') - 1
        PROVE  OnTheWay'[k + 1] = Succ(OnTheWay'[k])
    <3>1. k \in 0 .. Len(done) /\ Len(done) \in Nat
      BY <1>5
    <3>2. CASE k = Len(done)
      BY <1>5, <2>1, <2>2, <3>2
    <3>3. CASE k \in 0 .. Len(done) - 1
      BY <1>5, <1>8, <2>1, <3>3 DEF NoGap
    <3>4. QED
      BY <3>1, <3>2, <3>3
  <2>4. captured' = OnTheWay'[Len(done')]
    BY <1>1, <1>5, <1>8, <2>2 DEF NoGap
  <2>5. QED
    BY <2>3, <2>4 DEF NoGap, Succ
<1>9. QED
  BY <1>3, <1>7, <1>8

(* As long as nothing has failed, every publication is of one whole frame, *)
(* the next after the one published before it: none is skipped, and none   *)
(* is published a second time.                                             *)
THEOREM EveryFrameOnceHolds == Spec => EveryFrameOnce
<1>1. Init => Gapless
  <2> SUFFICES ASSUME Init PROVE Gapless
    OBVIOUS
  <2>1. Len(done) = 0 /\ DOMAIN done = {}
    BY DEF Init
  <2>2. OnTheWay[0] = Garbage
    BY <2>1 DEF Init, OnTheWay
  <2>3. NoGap
    BY <2>1, <2>2 DEF Init, NoGap, Garbage
  <2>4. WholeFrames /\ OneAhead
    BY <2>1 DEF Init, WholeFrames, OneAhead
  <2>5. QED
    BY <2>3, <2>4 DEF Gapless
<1>2. TypeOK /\ Ownership /\ Gapless /\ [Next]_vars => Gapless'
  <2> SUFFICES ASSUME TypeOK, Ownership, Gapless, [Next]_vars PROVE Gapless'
    OBVIOUS
  <2>1. CASE BeginGrab
    BY <2>1, QuietKeepsGapless DEF BeginGrab, EnterIoctl, driver
  <2>2. CASE Dequeue
    BY <2>2, DequeueKeepsGapless
  <2>3. CASE Block
    BY <2>3, QuietKeepsGapless DEF Block, driver
  <2>4. CASE DequeueFails \/ PublishFails \/ RequeueFails \/ StreamOffFails
    BY <2>4 DEF DequeueFails, PublishFails, RequeueFails, StreamOffFails, Gapless
  <2>5. CASE Copy
    BY <2>5, CopyKeepsGapless
  <2>6. CASE Publish
    BY <2>6, PublishKeepsGapless
  <2>7. CASE Requeue
    BY <2>7, QuietKeepsGapless DEF Requeue
  <2>8. CASE RequeueRefused
    <3>1. /\ pc = "qbuf" /\ pc' \in {"qbuf", "panic", "sleep", "head"}
          /\ UNCHANGED <<framebuffer, image, done, mem, captured, failed>>
      BY <2>8 DEF RequeueRefused, AfterQbufFailure, TryAgain, Panic, ReturnError,
         driver
    <3>2. QED
      BY <3>1, QuietKeepsGapless
  <2>9. CASE SleepEnds
    BY <2>9, QuietKeepsGapless DEF SleepEnds, driver
  <2>10. CASE LeaveLoop
    BY <2>10, QuietKeepsGapless DEF LeaveLoop, EnterIoctl, driver
  <2>11. CASE StreamOff \/ Close
    <3>1. /\ pc \in {"streamoff", "close"} /\ pc' \in {"close", "exit"} /\ done' = <<>>
          /\ UNCHANGED <<framebuffer, image, mem, captured, failed>>
      BY <2>11 DEF StreamOff, Close
    <3>2. DOMAIN done' = {}
      BY <3>1
    <3>3. QED
      BY <3>1, <3>2 DEF Gapless, WholeFrames, OneAhead, Succ
  <2>12. CASE DriverFill
    BY <2>12, DriverFillKeepsGapless
  <2>13. CASE Signal
    <3>1. /\ UNCHANGED <<buf, framebuffer, image, done, mem, captured, failed>>
          /\ \/ pc' = pc
             \/ pc \in {"blocked", "sleep"} /\ pc' \in {"dqbuf", "panic", "head"}
      BY <2>13 DEF Signal, TryAgain, Panic, driver
    <3>2. QED
      BY <3>1, QuietKeepsGapless
  <2>14. CASE UNCHANGED vars
    BY <2>14, QuietKeepsGapless DEF vars
  <2>15. QED
    BY <2>1, <2>2, <2>3, <2>4, <2>5, <2>6, <2>7, <2>8, <2>9, <2>10, <2>11,
       <2>12, <2>13, <2>14
    DEF Next, Process, Steps, FaultySteps, Terminated
<1>3. TypeOK /\ Gapless /\ [Next]_vars =>
        [/\ image' # image => pc = "publish"
         /\ ~failed' /\ pc = "publish" /\ pc' # "publish" =>
              image' = [head |-> NextToPublish, tail |-> NextToPublish]]_vars
  <2> SUFFICES ASSUME TypeOK, Gapless, [Next]_vars
               PROVE  /\ image' # image => pc = "publish"
                      /\ ~failed' /\ pc = "publish" /\ pc' # "publish" =>
                           image' = [head |-> NextToPublish, tail |-> NextToPublish]
    OBVIOUS
  <2>1. image' # image => Publish
    BY DEF Next, Process, Steps, FaultySteps, Terminated, vars, BeginGrab, Dequeue,
       Block, DequeueFails, Copy, PublishFails, Requeue, RequeueRefused,
       RequeueFails, AfterQbufFailure, SleepEnds, LeaveLoop, StreamOff,
       StreamOffFails, Close, DriverFill, Signal
  <2>2. ASSUME ~failed', pc = "publish", pc' # "publish"
        PROVE  image' = [head |-> NextToPublish, tail |-> NextToPublish]
    <3>1. Publish
      BY <2>2 DEF Next, Process, Steps, FaultySteps, Terminated, vars, Terminal,
         BeginGrab, Dequeue, Block, DequeueFails, Copy, PublishFails, Requeue,
         RequeueRefused, RequeueFails, SleepEnds, LeaveLoop, StreamOff,
         StreamOffFails, Close, DriverFill, Signal
    <3>2. image' = framebuffer /\ WholeFrames /\ OneAhead
      BY <2>2, <3>1 DEF Publish, Gapless
    <3>3. framebuffer.head = NextToPublish /\ framebuffer.tail = NextToPublish
      <4>1. image # NoImage => image.head \in 0 .. MaxFrame
        BY DEF TypeOK, Contents, Frames
      <4>2. QED
        BY <2>2, <3>2, <4>1, ConstantsAssumed
        DEF Constants, WholeFrames, OneAhead, NextToPublish, Succ
    <3>4. framebuffer = [head |-> framebuffer.head, tail |-> framebuffer.tail]
      BY DEF TypeOK, Contents
    <3>5. QED
      BY <3>2, <3>3, <3>4
  <2>3. QED
    BY <2>1, <2>2 DEF Publish
<1>4. QED
  BY <1>1, <1>2, <1>3, TypeCorrect, OwnershipHolds, PTL DEF Spec, EveryFrameOnce
==============================================================================
