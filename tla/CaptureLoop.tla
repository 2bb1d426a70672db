----------------------------- MODULE CaptureLoop -----------------------------
(***************************************************************************)
(* The main loop of hawkeye (main.c) and the part of v4l2uvc.c it runs in: *)
(* dequeue a buffer from the camera, copy it, publish it as the image,     *)
(* give the buffer back, sleep; until a signal clears is_running.          *)
(*                                                                         *)
(* Three parties interleave: the process, which has one thread and whose   *)
(* control point is pc; the V4L2 driver, which fills the buffers queued to *)
(* it; and whoever sends the process signals.  A signal handler runs       *)
(* between any two steps of the process.  It makes an ioctl that sleeps    *)
(* return EINTR, because init_signals sets sa_flags = 0.                   *)
(*                                                                         *)
(* A frame is its number: the camera numbers what it stores 1, 2, ... .    *)
(* write_frame is one step here; FrameFile has its steps one by one.       *)
(***************************************************************************)
EXTENDS Xioctl, Sequences, FiniteSets

CONSTANTS
  NbBuffer,     \* NB_BUFFER, 4 in v4l2uvc.h
  MaxFrame,     \* bound: later frames are all numbered MaxFrame
  MaxSignals,   \* bound: signals sent to the process in one behaviour
  Faults        \* what may go wrong, a subset of FaultKinds

FaultKinds == { "transient",   \* an ioctl returns EINTR, EAGAIN or ETIMEDOUT
                "dqerr",       \* DQBUF fails for good (EIO, ENODEV)
                "qerr",        \* QBUF fails for good
                "offerr",      \* STREAMOFF fails for good
                "short",       \* a buffer with fewer bytes than an image
                "empty",       \* a buffer without data
                "fopen" }      \* the temporary image cannot be opened

ASSUME NbBufferAssumption == NbBuffer \in Nat \ {0}
ASSUME MaxFrameAssumption == MaxFrame \in Nat \ {0}
ASSUME MaxSignalsAssumption == MaxSignals \in Nat
ASSUME FaultsAssumption == Faults \subseteq FaultKinds

Buffers == 0 .. NbBuffer - 1

Garbage == 0        \* what malloc left in the framebuffer, a buffer's zeroes
NoFile == -1        \* there is no image yet
Frames == 0 .. MaxFrame

(* What fills an image: the frame its first bytes are from and the frame   *)
(* its last bytes are from.                                                *)
Contents == [head : Frames, tail : Frames]
NoImage == [head |-> NoFile, tail |-> NoFile]

(* bytesused, as capture_frame tells it apart. *)
Sizes == {"zero", "short", "full"}

VARIABLES
  pc,            \* where the process is
  tries,         \* the counter of the xioctl it is in
  is_running,    \* main.c: cleared by the signal handler
  signals,       \* signals that may still be sent
  buf,           \* vd->buf: the index and bytesused of the last ioctl
  framebuffer,   \* vd->framebuffer
  image,         \* what image.jpg holds
  incoming,      \* the driver: buffers queued for the camera to fill
  done,          \* the driver: filled buffers, oldest first
  mem,           \* the mapped buffers, vd->mem
  captured,      \* the number of the last frame the camera stored
  kept,          \* history: the buffers whose last QBUF failed for good
  failed         \* history: a call has failed, or a payload was not full

driver == <<incoming, done, mem, captured, kept>>
vars == <<pc, tries, is_running, signals, buf, framebuffer, image,
          incoming, done, mem, captured, kept, failed>>

Terminal == {"exit", "panic"}
Points == {"head", "dqbuf", "blocked", "copy", "publish", "qbuf", "sleep",
           "streamoff", "close"} \cup Terminal

DoneEntries == [index : Buffers, bytesused : Sizes]

TypeOK ==
  /\ pc \in Points
  /\ tries \in Tries
  /\ is_running \in BOOLEAN
  /\ signals \in 0 .. MaxSignals
  /\ buf \in DoneEntries
  /\ framebuffer \in Contents
  /\ image \in Contents \cup {NoImage}
  /\ incoming \subseteq Buffers
  /\ done \in Seq(DoneEntries)
  /\ mem \in [Buffers -> Frames]
  /\ captured \in Frames
  /\ kept \subseteq Buffers
  /\ failed \in BOOLEAN

InDone == {done[i].index : i \in DOMAIN done}

(* The buffers that are the driver's: the process must not touch them. *)
DriverOwned == incoming \cup InDone

(***************************************************************************)
(* init_v4l2 has queued every buffer and switched the stream on            *)
(* (DeviceSetup); init_signals has installed the handler.                  *)
(***************************************************************************)
Init ==
  /\ pc = "head"
  /\ tries = IoctlRetry
  /\ is_running = TRUE
  /\ signals = MaxSignals
  /\ buf = [index |-> NbBuffer - 1, bytesused |-> "zero"]
  /\ framebuffer = [head |-> Garbage, tail |-> Garbage]
  /\ image = NoImage
  /\ incoming = Buffers
  /\ done = <<>>
  /\ mem = [b \in Buffers |-> Garbage]
  /\ captured = 0
  /\ kept = {}
  /\ failed = FALSE

------------------------------------------------------------------------------
(* xioctl: the attempt at point pc ended with the failure res.  `next' is  *)
(* where its caller goes on when it is told.                               *)
EnterIoctl(point) == pc' = point /\ tries' = IoctlRetry

TryAgain(res, again) ==
  Again(res, tries) /\ pc' = again /\ tries' = tries - 1

Panic(res) ==
  GivesUp(res, tries) /\ pc' = "panic" /\ UNCHANGED tries

ReturnError(res, next) ==
  Refused(res, tries) /\ pc' = next /\ UNCHANGED tries

(* The failures an ioctl may meet here.  refused: the driver has cause to  *)
(* turn this request down for good.                                        *)
IoctlFailures(refused) ==
  {res \in Failures : \/ res = "transient" /\ "transient" \in Faults
                      \/ res = "hard" /\ refused}

------------------------------------------------------------------------------
(* while (is_running), and capture_frame up to its ioctl: vd->buf is       *)
(* cleared, so its index is 0 until DQBUF stores another one.              *)
BeginGrab ==
  /\ pc = "head"
  /\ is_running
  /\ EnterIoctl("dqbuf")
  /\ buf' = [index |-> 0, bytesused |-> "zero"]
  /\ UNCHANGED <<is_running, signals, framebuffer, image, driver, failed>>

(* Mutants of Dequeue: the newest buffer is taken; the buffer is given     *)
(* back to the driver at once, before it is copied.                        *)
DequeueNewest ==
  /\ pc \in {"dqbuf", "blocked"}
  /\ done # <<>>
  /\ buf' = done[Len(done)]
  /\ done' = SubSeq(done, 1, Len(done) - 1)
  /\ pc' = "copy"
  /\ UNCHANGED <<tries, is_running, signals, framebuffer, image, incoming,
                 mem, captured, kept, failed>>

DequeueAndRequeue ==
  /\ pc \in {"dqbuf", "blocked"}
  /\ done # <<>>
  /\ buf' = Head(done)
  /\ done' = Tail(done)
  /\ incoming' = incoming \cup {Head(done).index}
  /\ pc' = "copy"
  /\ UNCHANGED <<tries, is_running, signals, framebuffer, image, mem,
                 captured, kept, failed>>

(* DQBUF succeeds: the oldest filled buffer is the process's.              *)
Dequeue ==
  /\ pc \in {"dqbuf", "blocked"}
  /\ done # <<>>
  /\ buf' = Head(done)
  /\ done' = Tail(done)
  /\ pc' = "copy"
  /\ UNCHANGED <<tries, is_running, signals, framebuffer, image, incoming,
                 mem, captured, kept, failed>>

(* Mutant of Block: as if the device were opened with O_NONBLOCK and the   *)
(* EAGAIN of an empty queue taken for a frame.                             *)
BlockNot ==
  /\ pc = "dqbuf"
  /\ done = <<>>
  /\ pc' = "publish"
  /\ UNCHANGED <<tries, is_running, signals, buf, framebuffer, image, driver,
                 failed>>

(* The device is opened without O_NONBLOCK: DQBUF sleeps while no buffer   *)
(* is filled.                                                              *)
Block ==
  /\ pc = "dqbuf"
  /\ done = <<>>
  /\ pc' = "blocked"
  /\ UNCHANGED <<tries, is_running, signals, buf, framebuffer, image, driver,
                 failed>>

(* DQBUF fails.  capture_frame then returns -1, a size_t: grab_frame takes *)
(* it for a frame (frame_size > 0) and goes on to publish the framebuffer. *)
DequeueFails ==
  /\ pc \in {"dqbuf", "blocked"}
  /\ \E res \in IoctlFailures("dqerr" \in Faults) :
       \/ TryAgain(res, "dqbuf")
       \/ Panic(res)
       \/ ReturnError(res, "publish")
  /\ failed' = TRUE
  /\ UNCHANGED <<is_running, signals, buf, framebuffer, image, driver>>

(* memcpy of the first bytesused bytes, framebuffer_size at most: of a     *)
(* short buffer the framebuffer keeps what it had behind them.             *)
Overlay(size, f) ==
  [head |-> IF size = "zero" THEN framebuffer.head ELSE f,
   tail |-> IF size = "full" THEN f ELSE framebuffer.tail]

(* Mutant of Copy: an empty buffer is not given back, as if grab_frame     *)
(* returned early.                                                         *)
CopyDropsEmpty ==
  /\ pc = "copy"
  /\ framebuffer' = Overlay(buf.bytesused, mem[buf.index])
  /\ pc' = IF buf.bytesused = "zero" THEN "sleep" ELSE "publish"
  /\ UNCHANGED <<tries, is_running, signals, buf, image, driver, failed>>

(* The rest of capture_frame, and the test of frame_size in grab_frame:    *)
(* when the buffer was empty nothing is published.                         *)
Copy ==
  /\ pc = "copy"
  /\ framebuffer' = Overlay(buf.bytesused, mem[buf.index])
  /\ IF buf.bytesused = "zero" THEN EnterIoctl("qbuf")
                               ELSE pc' = "publish" /\ UNCHANGED tries
  /\ UNCHANGED <<is_running, signals, buf, image, driver, failed>>

(* compress_*_to_jpeg and write_frame: the whole framebuffer, whatever     *)
(* frame_size says, becomes the image.                                     *)
Publish ==
  /\ pc = "publish"
  /\ image' = framebuffer
  /\ EnterIoctl("qbuf")
  /\ UNCHANGED <<is_running, signals, buf, framebuffer, driver, failed>>

(* fopen fails in write_frame. *)
PublishFails ==
  /\ pc = "publish"
  /\ "fopen" \in Faults
  /\ pc' = "panic"
  /\ failed' = TRUE
  /\ UNCHANGED <<tries, is_running, signals, buf, framebuffer, image, driver>>

(* Mutant of Requeue: vd->buf is cleared before it is given back, so QBUF  *)
(* names buffer 0.                                                         *)
RequeueClearedBuf ==
  /\ pc = "qbuf"
  /\ incoming' = incoming \cup ({0} \ DriverOwned)
  /\ pc' \in {"sleep", "head"}
  /\ UNCHANGED <<tries, is_running, signals, buf, framebuffer, image, done,
                 mem, captured, kept, failed>>

(* requeue_device_buffer: QBUF of the buffer vd->buf names.  The driver    *)
(* accepts it when the process owns it.                                    *)
Requeue ==
  /\ pc = "qbuf"
  /\ buf.index \notin DriverOwned
  /\ incoming' = incoming \cup {buf.index}
  /\ kept' = kept \ {buf.index}
  /\ pc' \in {"sleep", "head"}      \* no sleep when the clock stood still
  /\ UNCHANGED <<tries, is_running, signals, buf, framebuffer, image, done,
                 mem, captured, failed>>

(* The result of requeue_device_buffer is ignored by grab_frame. *)
AfterQbufFailure(res) ==
  /\ \/ TryAgain(res, "qbuf")
     \/ Panic(res)
     \/ \E next \in {"sleep", "head"} : ReturnError(res, next)
  /\ UNCHANGED <<is_running, signals, buf, framebuffer, image, incoming, done,
                 mem, captured>>

(* The driver refuses a buffer it already has. *)
RequeueRefused ==
  /\ pc = "qbuf"
  /\ buf.index \in DriverOwned
  /\ AfterQbufFailure("hard")
  /\ UNCHANGED <<kept, failed>>

(* It refuses any buffer for good: the buffer is out of the ring, for the  *)
(* next DQBUF overwrites its index.                                        *)
RequeueFails ==
  /\ pc = "qbuf"
  /\ \E res \in IoctlFailures("qerr" \in Faults) :
       /\ AfterQbufFailure(res)
       /\ kept' = IF res = "hard" THEN kept \cup ({buf.index} \ DriverOwned)
                                  ELSE kept
  /\ failed' = TRUE

(* nanosleep returns. *)
SleepEnds ==
  /\ pc = "sleep"
  /\ pc' = "head"
  /\ UNCHANGED <<tries, is_running, signals, buf, framebuffer, image, driver,
                 failed>>

------------------------------------------------------------------------------
(* is_running is 0: destroy_frame_buffers, destroy_video_device.  The      *)
(* stream has been on since init_v4l2, so video_disable is called.         *)
LeaveLoop ==
  /\ pc = "head"
  /\ ~is_running
  /\ EnterIoctl("streamoff")
  /\ UNCHANGED <<is_running, signals, buf, framebuffer, image, driver, failed>>

(* STREAMOFF takes every buffer away from the driver. *)
StreamOff ==
  /\ pc = "streamoff"
  /\ pc' = "close"
  /\ incoming' = {}
  /\ done' = <<>>
  /\ UNCHANGED <<tries, is_running, signals, buf, framebuffer, image, mem,
                 captured, kept, failed>>

StreamOffFails ==
  /\ pc = "streamoff"
  /\ \E res \in IoctlFailures("offerr" \in Faults) :
       \/ TryAgain(res, "streamoff")
       \/ Panic(res)
       \/ ReturnError(res, "close")
  /\ failed' = TRUE
  /\ UNCHANGED <<is_running, signals, buf, framebuffer, image, driver>>

(* The device is closed, memory is freed, main returns 0. *)
Close ==
  /\ pc = "close"
  /\ pc' = "exit"
  /\ incoming' = {}
  /\ done' = <<>>
  /\ UNCHANGED <<tries, is_running, signals, buf, framebuffer, image, mem,
                 captured, kept, failed>>

------------------------------------------------------------------------------
(* signal_handler: SIGINT and SIGTERM ("stop") clear is_running, SIGHUP,   *)
(* SIGUSR1 and SIGUSR2 ("other") do nothing.                               *)
SignalHandler(sig) == is_running' = (is_running /\ sig # "stop")

(* A signal reaches the process.  Where it sleeps, in DQBUF or nanosleep,  *)
(* the call returns EINTR; elsewhere the handler runs and that is all, even *)
(* on the way into DQBUF.                                                  *)
Signal ==
  /\ signals > 0
  /\ pc \notin Terminal
  /\ signals' = signals - 1
  /\ \E sig \in {"stop", "other"} : SignalHandler(sig)
  /\ \/ pc = "blocked" /\ TryAgain("transient", "dqbuf")
     \/ pc = "blocked" /\ Panic("transient")
     \/ pc = "sleep" /\ pc' = "head" /\ UNCHANGED tries
     \/ pc \notin {"blocked", "sleep"} /\ UNCHANGED <<pc, tries>>
  /\ UNCHANGED <<buf, framebuffer, image, driver, failed>>

------------------------------------------------------------------------------
(* The driver stores the camera's next frame, or an empty payload, in a    *)
(* queued buffer.  Frames that find no buffer are not numbered.            *)
NextFrame == IF captured < MaxFrame THEN captured + 1 ELSE captured

Payloads == {size \in Sizes : \/ size = "full"
                              \/ size = "short" /\ "short" \in Faults
                              \/ size = "zero" /\ "empty" \in Faults}

DriverFill ==
  /\ pc \notin Terminal
  /\ \E b \in incoming, size \in Payloads :
       /\ incoming' = incoming \ {b}
       /\ done' = Append(done, [index |-> b, bytesused |-> size])
       /\ failed' = (failed \/ size # "full")
       /\ IF size = "zero" THEN UNCHANGED <<mem, captured>>
          ELSE /\ captured' = NextFrame
               /\ mem' = [mem EXCEPT ![b] = NextFrame]
  /\ UNCHANGED <<pc, tries, is_running, signals, buf, framebuffer, image, kept>>

------------------------------------------------------------------------------
(* What the process does when its calls succeed or are refused with cause. *)
Steps ==
  \/ BeginGrab \/ Dequeue \/ Block \/ Copy \/ Publish \/ Requeue
  \/ RequeueRefused \/ SleepEnds \/ LeaveLoop \/ StreamOff \/ Close

(* What it does when a call fails. *)
FaultySteps ==
  DequeueFails \/ PublishFails \/ RequeueFails \/ StreamOffFails

Process == Steps \/ FaultySteps

(* The process is gone. *)
Terminated == pc \in Terminal /\ UNCHANGED vars

Next == Process \/ DriverFill \/ Signal \/ Terminated

Spec == Init /\ [][Next]_vars

(* The operating system runs a process that can run, and the camera keeps  *)
(* filling the buffers it is given.  No call has to fail, and nobody has   *)
(* to send a signal.                                                       *)
FairSpec == Spec /\ WF_vars(Steps) /\ WF_vars(DriverFill)

------------------------------------------------------------------------------
(* The buffer ring (v4l2uvc.c capture_frame, requeue_device_buffer).  No   *)
(* buffer is queued twice, and the memcpy out of a mapped buffer never     *)
(* runs while the camera may write to it - whatever fails.                 *)
Ownership ==
  /\ \A i, j \in DOMAIN done : done[i].index = done[j].index => i = j
  /\ incoming \cap InDone = {}
  /\ pc = "copy" => buf.index \notin DriverOwned

(* No way through grab_frame keeps a buffer: at the end of every round the *)
(* driver has them all back, after short and empty frames, DQBUF errors    *)
(* and signals too, but for those whose QBUF it has refused for good.      *)
NoLeak ==
  pc \in {"head", "dqbuf", "blocked", "sleep"} => DriverOwned = Buffers \ kept

(* The image never goes back in time, neither its first part nor its last, *)
(* whatever fails; and the older part is the last.                         *)
NeverOlder ==
  [][/\ image'.head >= image.head
     /\ image'.tail >= image.tail
     /\ image'.tail <= image'.head]_vars

(* The number of the frame after the one that is the image. *)
NextToPublish ==
  IF image = NoImage THEN 1
  ELSE IF image.head < MaxFrame THEN image.head + 1 ELSE MaxFrame

(* As long as nothing has failed, whatever signals came in the middle of   *)
(* DQBUF, every time grab_frame publishes it is one whole frame, and the   *)
(* one after the frame published before: none is left out, none is sent a  *)
(* second time.  Nothing but a publication changes the image.              *)
EveryFrameOnce ==
  [][/\ image' # image => pc = "publish"
     /\ ~failed' /\ pc = "publish" /\ pc' # "publish" =>
          image' = [head |-> NextToPublish, tail |-> NextToPublish]]_vars

(* xioctl gives up only after IOCTL_RETRY + 1 attempts: as long as no      *)
(* ioctl has failed by itself, it takes that many signals to make the      *)
(* process panic.                                                          *)
PanicNeedsSignals ==
  ~failed /\ pc = "panic" => MaxSignals - signals > IoctlRetry

(* debian/changelog:3, "No loger sending the same frame multiple times":   *)
(* what is about to be published differs from what is out already.         *)
NoRepeat ==
  pc = "publish" => \/ framebuffer # image
                    \/ framebuffer.head = MaxFrame

(* debian/init.d:83-89: the SIGHUP of do_reload is for a daemon that goes  *)
(* on "without restarting".  Until a stop signal comes, signals alone do   *)
(* not end the process.                                                    *)
ReloadKeepsRunning == ~failed /\ is_running => pc # "panic"

(* A stop signal stops the process, whatever it was doing and whatever     *)
(* fails, as long as the camera fills buffers: unless QBUF has refused     *)
(* every one of them, and none is left to be filled.                       *)
Stops == ~is_running ~> (pc \in Terminal \/ kept = Buffers)

(* Until it is stopped the process comes back to its loop head again and   *)
(* again: no fault of the camera or of an ioctl, other than a QBUF refused *)
(* for every buffer, makes it wait for ever in DQBUF.                      *)
KeepsRunning ==
  []<>(pc = "head") \/ <>(~is_running \/ pc \in Terminal \/ kept = Buffers)
==============================================================================
