--------------------------- MODULE FrameFile_proofs ---------------------------
(***************************************************************************)
(* Proofs about FrameFile.  Its types hold for any number of daemons and   *)
(* under every fault.  What the image file promises holds for one daemon   *)
(* on a disk that is not full, the two hypotheses file_two_daemons and     *)
(* file_disk_full show to be needed; they are hypotheses of the theorems   *)
(* here and no assumptions of the model.                                   *)
(***************************************************************************)
EXTENDS FrameFile, SequenceTheorems, TLAPS

OneDaemon == \A d, e \in Daemons : d = e
DiskNeverFull == "enospc" \notin Faults

(***************************************************************************)
(* The inductive invariant: what lies behind each name.                    *)
(***************************************************************************)

(* While the daemon writes, the temporary name leads to its stream.  This  *)
(* is all TempPrivate needs, and it holds on a full disk too.              *)
StreamIsTemp == \A d \in Daemons : pc[d] = "write" => out[d] = temp

NamesInv == TypeOK /\ TempPrivate /\ StreamIsTemp

(* What has arrived behind the temporary name is the beginning of the      *)
(* daemon's frame; once it has closed the stream, all of it.               *)
TempFollowsWriter ==
  \A d \in Daemons :
    /\ pc[d] = "write" => data[temp] = [k \in 1 .. written[d] |-> frame[d]]
    /\ pc[d] = "rename" =>
         /\ temp # NoInode
         /\ data[temp] = Whole(frame[d])

(* The image is of no frame the daemon has yet to publish.                 *)
ImageBehind ==
  image # NoInode =>
    \E f \in Images :
      /\ data[image] = Whole(f)
      /\ \A d \in Daemons :
           /\ f <= frame[d]
           /\ pc[d] \in {"open", "write", "rename"} => f < frame[d]

(* No reader is past the end of its file.                                  *)
ReadersInside ==
  \A r \in Readers : fd[r] # NoInode => Len(got[r]) <= Len(data[fd[r]])

FileInv ==
  /\ NamesInv
  /\ TempFollowsWriter
  /\ ImageBehind
  /\ ReadersSeeFrames
  /\ ReadersInside

(* The assumptions on the constants, for the steps that compute with them. *)
Constants ==
  /\ NoInode \notin Inodes
  /\ MaxFrame \in Nat \ {0}
  /\ Length \in [Images -> Nat \ {0}]

(* The assumptions of the model in one fact.                               *)
LEMMA ConstantsAssumed == Constants
  BY NoInodeAssumption, MaxFrameAssumption, LengthAssumption DEF Constants

------------------------------------------------------------------------------
(* A file of n equal blocks is a sequence of n blocks. *)
LEMMA BlocksOfOneFrame ==
  ASSUME NEW n \in Nat, NEW f \in Images,
         NEW b, b = [k \in 1 .. n |-> f]
  PROVE  /\ b \in Seq(Blocks) /\ Len(b) = n
         /\ n > 0 => b # <<>> /\ b[1] = f
<1>1. f \in Blocks
  BY DEF Blocks
<1>2. b \in [1 .. n -> Blocks]
  BY <1>1
<1>3. b \in Seq(Blocks)
  BY <1>2, SeqDef
<1>4. DOMAIN b = 1 .. n /\ DOMAIN b = 1 .. Len(b) /\ Len(b) \in Nat
  BY <1>2, <1>3, LenProperties
<1>5. Len(b) = n
  BY <1>4
<1>6. n > 0 => b # <<>> /\ b[1] = f
  BY <1>5, EmptySeq
<1>7. QED
  BY <1>3, <1>5, <1>6

(* The whole file of a frame: its blocks, of which there is at least one.  *)
LEMMA WholeIsAFrame ==
  ASSUME NEW f \in Images
  PROVE  /\ Whole(f) \in Seq(Blocks) /\ Whole(f) \in Files
         /\ Len(Whole(f)) = Length[f]
         /\ Whole(f) # <<>> /\ Whole(f)[1] = f
         /\ FrameOf(Whole(f)) = f
<1>1. Length[f] \in Nat /\ Length[f] > 0
  BY ConstantsAssumed DEF Constants
<1>2. QED
  BY <1>1, BlocksOfOneFrame DEF Whole, Files, FrameOf

(* A write leaves a sequence of blocks, whatever was there. *)
LEMMA WrittenIsASequence ==
  ASSUME NEW b \in Seq(Blocks), NEW w \in Nat, NEW f \in Images
  PROVE  Written(b, w, f) \in Seq(Blocks)
<1> DEFINE n == IF w < Len(b) THEN Len(b) ELSE w + 1
<1>1. Len(b) \in Nat /\ n \in Nat /\ \A k \in 1 .. Len(b) : b[k] \in Blocks
  BY LenProperties, ElementOfSeq
<1>2. f \in Blocks /\ NoFrame \in Blocks
  BY DEF Blocks
<1>3. Written(b, w, f) \in [1 .. n -> Blocks]
  BY <1>1, <1>2 DEF Written
<1>4. QED
  BY <1>1, <1>3, SeqDef

(* A write at the end of a file of one frame makes it one block longer.    *)
LEMMA WrittenAppends ==
  ASSUME NEW w \in Nat, NEW f \in Images
  PROVE  Written([k \in 1 .. w |-> f], w, f) = [k \in 1 .. w + 1 |-> f]
<1> DEFINE b == [k \in 1 .. w |-> f]
<1>1. Len(b) = w
  BY BlocksOfOneFrame
<1>2. Written(b, w, f) = [k \in 1 .. w + 1 |->
                            IF k = w + 1 THEN f ELSE IF k <= w THEN b[k] ELSE NoFrame]
  BY <1>1 DEF Written
<1>3. \A k \in 1 .. w + 1 :
        (IF k = w + 1 THEN f ELSE IF k <= w THEN b[k] ELSE NoFrame) = f
  OBVIOUS
<1>4. QED
  BY <1>2, <1>3

------------------------------------------------------------------------------
(* The steps of the daemons leave the readers alone, and the other way     *)
(* round: the types are proved for each side on its own.                   *)
DaemonTypes ==
  /\ pc \in [Daemons -> {"idle", "open", "write", "rename", "dead"}]
  /\ frame \in [Daemons -> Images \cup {NoFrame}]
  /\ out \in [Daemons -> Inodes \cup {NoInode}]
  /\ written \in [Daemons -> Nat]

StreamTypes ==
  \A d \in Daemons :
    /\ out[d] # NoInode <=> pc[d] = "write"
    /\ pc[d] \in {"open", "write", "rename"} => frame[d] # NoFrame
    /\ pc[d] = "write" => written[d] <= Length[frame[d]]

FileTypes ==
  /\ temp \in Inodes \cup {NoInode}
  /\ image \in Inodes \cup {NoInode}
  /\ data \in [Inodes -> Seq(Blocks)]

ReaderTypes ==
  /\ fd \in [Readers -> Inodes \cup {NoInode}]
  /\ got \in [Readers -> Seq(Blocks)]
  /\ answer \in [Readers -> Seq(Blocks)]

(* A frame being written has a length, and what it is written to is a file. *)
LEMMA BeingWritten ==
  ASSUME TypeOK, NEW d \in Daemons, pc[d] = "write"
  PROVE  /\ frame[d] \in Images /\ Length[frame[d]] \in Nat
         /\ out[d] \in Inodes /\ written[d] \in Nat
  BY ConstantsAssumed DEF TypeOK, Constants

(* fopen keeps the types.                                                  *)
LEMMA OpenTempTypes ==
  ASSUME TypeOK, NEW d \in Daemons, OpenTemp(d)
  PROVE  TypeOK'
<1>1. temp' \in Inodes
  BY DEF TypeOK, OpenTemp, Unused
<1>2. frame[d] \in Images
  BY DEF TypeOK, OpenTemp
<1>3. 0 <= Length[frame[d]]
  BY <1>2, ConstantsAssumed DEF Constants
<1>4. <<>> \in Seq(Blocks)
  BY EmptySeq
<1>5. DaemonTypes' /\ FileTypes' /\ ReaderTypes'
  BY <1>1, <1>4 DEF TypeOK, OpenTemp, Truncate, Goto, reader,
     DaemonTypes, FileTypes, ReaderTypes
<1>6. StreamTypes'
  BY <1>1, <1>3, ConstantsAssumed
  DEF TypeOK, OpenTemp, Truncate, Goto, StreamTypes, Constants
<1>7. QED
  BY <1>5, <1>6 DEF TypeOK, DaemonTypes, FileTypes, ReaderTypes, StreamTypes

(* A block that stdio writes keeps the types.                              *)
LEMMA WriteBlockTypes ==
  ASSUME TypeOK, NEW d \in Daemons, WriteBlock(d)
  PROVE  TypeOK'
<1>1. /\ frame[d] \in Images /\ Length[frame[d]] \in Nat
      /\ out[d] \in Inodes /\ written[d] \in Nat
  BY BeingWritten DEF WriteBlock
<1>2. Written(data[out[d]], written[d], frame[d]) \in Seq(Blocks)
  BY <1>1, WrittenIsASequence DEF TypeOK
<1>3. QED
  BY <1>1, <1>2 DEF TypeOK, WriteBlock, reader

(* What a reader reads keeps the types.                                    *)
LEMMA ReaderReadTypes ==
  ASSUME TypeOK, NEW r \in Readers, ReaderRead(r)
  PROVE  TypeOK'
<1>1. /\ data[fd[r]] \in Seq(Blocks) /\ got[r] \in Seq(Blocks)
      /\ Len(got[r]) < Len(data[fd[r]])
  BY DEF TypeOK, ReaderRead
<1>2. Len(got[r]) + 1 \in 1 .. Len(data[fd[r]])
  BY <1>1, LenProperties
<1>3. data[fd[r]][Len(got[r]) + 1] \in Blocks
  BY <1>1, <1>2, ElementOfSeq
<1>4. Append(got[r], data[fd[r]][Len(got[r]) + 1]) \in Seq(Blocks)
  BY <1>1, <1>3, AppendProperties
<1>5. QED
  BY <1>4 DEF TypeOK, ReaderRead, daemon, file

(* Every step keeps the types.                                             *)
LEMMA TypeStep == TypeOK /\ [Next]_vars => TypeOK'
<1> SUFFICES ASSUME TypeOK, [Next]_vars PROVE TypeOK'
  OBVIOUS
<1>1. ASSUME NEW d \in Daemons, BeginFrame(d) PROVE TypeOK'
  BY <1>1 DEF TypeOK, BeginFrame, Goto, file, reader, Images, NoFrame
<1>2. ASSUME NEW d \in Daemons, OpenTemp(d) PROVE TypeOK'
  BY <1>2, OpenTempTypes
<1>3. ASSUME NEW d \in Daemons, OpenFails(d) PROVE TypeOK'
  BY <1>3 DEF TypeOK, OpenFails, Goto, file, reader
<1>4. ASSUME NEW d \in Daemons, WriteBlock(d) PROVE TypeOK'
  BY <1>4, WriteBlockTypes
<1>5. ASSUME NEW d \in Daemons, Flushed(d) PROVE TypeOK'
  BY <1>5 DEF TypeOK, Flushed, Goto, file, reader
<1>6. ASSUME NEW d \in Daemons, Rename(d) \/ RenameFails(d) PROVE TypeOK'
  BY <1>6 DEF TypeOK, Rename, RenameFails, Goto, file, reader
<1>7. ASSUME NEW d \in Daemons, Kill(d) \/ Restart(d) PROVE TypeOK'
  BY <1>7 DEF TypeOK, Kill, Restart, Goto, file, reader
<1>8. ASSUME NEW r \in Readers, ReaderOpen(r) \/ ReaderClose(r) PROVE TypeOK'
  <2>1. <<>> \in Seq(Blocks)
    BY EmptySeq
  <2>2. CASE ReaderOpen(r)
    BY <2>1, <2>2 DEF TypeOK, ReaderOpen, daemon, file
  <2>3. CASE ReaderClose(r)
    BY <2>1, <2>3 DEF TypeOK, ReaderClose, daemon, file
  <2>4. QED
    BY <1>8, <2>2, <2>3
<1>9. ASSUME NEW r \in Readers, ReaderRead(r) PROVE TypeOK'
  BY <1>9, ReaderReadTypes
<1>10. CASE UNCHANGED vars
  BY <1>10 DEF TypeOK, vars
<1>11. QED
  BY <1>1, <1>2, <1>3, <1>4, <1>5, <1>6, <1>7, <1>8, <1>9, <1>10
  DEF Next, Writer, Reader

(* Every variable of the file system, the daemons and the readers stays in *)
(* its set, for any number of daemons and under every fault.               *)
THEOREM FileTypeCorrect == Spec => []TypeOK
<1>1. Init => TypeOK
  <2>1. <<>> \in Seq(Blocks)
    BY EmptySeq
  <2>2. QED
    BY <2>1 DEF Init, TypeOK
<1>2. QED
  BY <1>1, TypeStep, PTL DEF Spec

------------------------------------------------------------------------------
(* Every step of a single daemon keeps the names apart.                    *)
LEMMA NamesStep ==
  ASSUME OneDaemon
  PROVE  NamesInv /\ [Next]_vars => NamesInv'
<1> SUFFICES ASSUME NamesInv, [Next]_vars PROVE TempPrivate' /\ StreamIsTemp'
  BY TypeStep DEF NamesInv
<1> USE DEF NamesInv, TempPrivate, StreamIsTemp, OneDaemon
<1>1. ASSUME NEW d \in Daemons, BeginFrame(d)
      PROVE  TempPrivate' /\ StreamIsTemp'
  <2>1. /\ \A e \in Daemons : pc'[e] = IF e = d THEN "open" ELSE pc[e]
        /\ UNCHANGED <<out, temp, image, fd>>
    BY <1>1 DEF TypeOK, BeginFrame, Goto, file, reader
  <2>2. TempPrivate'
    BY <2>1
  <2>3. StreamIsTemp'
    BY <2>1
  <2>4. QED
    BY <2>2, <2>3
<1>2. ASSUME NEW d \in Daemons, OpenTemp(d)
      PROVE  TempPrivate' /\ StreamIsTemp'
  <2>1. /\ temp' \in Inodes /\ temp' # image /\ \A r \in Readers : fd[r] # temp'
        /\ out'[d] = temp' /\ UNCHANGED <<image, fd>>
    BY <1>2 DEF TypeOK, OpenTemp, Truncate, Unused, reader
  <2>2. QED
    BY <2>1
<1>3. ASSUME NEW d \in Daemons, WriteBlock(d)
      PROVE  TempPrivate' /\ StreamIsTemp'
  BY <1>3 DEF WriteBlock, reader
<1>4. ASSUME NEW d \in Daemons, Rename(d)
      PROVE  TempPrivate' /\ StreamIsTemp'
  <2>1. out'[d] = NoInode /\ temp' = NoInode /\ pc'[d] = "idle"
    BY <1>4 DEF TypeOK, Rename, Goto
  <2>2. QED
    BY <2>1
<1>5. ASSUME NEW d \in Daemons,
             OpenFails(d) \/ Flushed(d) \/ RenameFails(d) \/ Kill(d) \/ Restart(d)
      PROVE  TempPrivate' /\ StreamIsTemp'
  <2>1. /\ out'[d] \in {out[d], NoInode} /\ pc'[d] # "write"
        /\ UNCHANGED <<temp, image, fd>>
    BY <1>5 DEF TypeOK, OpenFails, Flushed, RenameFails, Kill, Restart, Goto,
       file, reader
  <2>2. QED
    BY <2>1
<1>6. ASSUME NEW r \in Readers, Reader(r)
      PROVE  TempPrivate' /\ StreamIsTemp'
  <2>1. /\ \A q \in Readers : fd'[q] \in {fd[q], image, NoInode}
        /\ UNCHANGED <<pc, out, temp, image>>
    BY <1>6 DEF TypeOK, Reader, ReaderOpen, ReaderRead, ReaderClose, daemon, file
  <2>2. QED
    BY <2>1
<1>7. CASE UNCHANGED vars
  BY <1>7 DEF vars
<1>8. QED
  BY <1>1, <1>2, <1>3, <1>4, <1>5, <1>6, <1>7 DEF Next, Writer

(* With one daemon nothing that is being written, or will be truncated by  *)
(* the next fopen, can be what the image's name leads to or what a reader  *)
(* has open - on a full disk and across kills as well.                     *)
THEOREM TempPrivateHolds ==
  ASSUME OneDaemon
  PROVE  Spec => []TempPrivate
<1>1. Init => TempPrivate /\ StreamIsTemp
  BY DEF Init, TempPrivate, StreamIsTemp
<1>2. NamesInv /\ [Next]_vars => NamesInv'
  BY NamesStep
<1>3. NamesInv <=> TypeOK /\ TempPrivate /\ StreamIsTemp
  BY DEF NamesInv
<1>4. QED
  BY <1>1, <1>2, <1>3, FileTypeCorrect, PTL DEF Spec

------------------------------------------------------------------------------
(* Where files and names stay as they are, so do the readers. *)
LEMMA FilesAsTheyWere ==
  ASSUME FileInv, UNCHANGED <<file, reader>>
  PROVE  ReadersSeeFrames' /\ ReadersInside'
  BY DEF FileInv, ReadersSeeFrames, ReadersInside, file, reader

(* A frame that begins has no file yet.                                    *)
LEMMA BeginFrameKeepsFiles ==
  ASSUME OneDaemon, FileInv, NamesInv', NEW d \in Daemons, BeginFrame(d)
  PROVE  FileInv'
<1>1. PICK f \in Images :
        /\ pc[d] = "idle" /\ frame[d] < f
        /\ frame' = [frame EXCEPT ![d] = f]
        /\ pc' = [pc EXCEPT ![d] = "open"]
        /\ UNCHANGED <<out, written, file, reader>>
  BY DEF BeginFrame, Goto
<1>2. frame[d] \in Int /\ f \in Int /\ frame'[d] = f /\ pc'[d] = "open"
  BY <1>1 DEF FileInv, NamesInv, TypeOK, Images, NoFrame
<1>3. ReadersSeeFrames' /\ ReadersInside'
  BY <1>1, FilesAsTheyWere
<1>4. TempFollowsWriter'
  BY <1>2 DEF OneDaemon, TempFollowsWriter
<1>5. ImageBehind'
  <2>1. image' = image /\ data' = data
    BY <1>1 DEF file
  <2>2. ASSUME NEW g \in Images, g <= frame[d]
        PROVE  \A e \in Daemons : g <= frame'[e] /\ g < frame'[e]
    <3>1. g < f
      BY <1>1, <1>2, <2>2 DEF Images
    <3>2. QED
      BY <1>2, <3>1 DEF OneDaemon, Images
  <2>3. QED
    BY <2>1, <2>2 DEF FileInv, ImageBehind, Whole
<1>6. QED
  BY <1>3, <1>4, <1>5 DEF FileInv

(* The file the daemon truncates or writes to is behind neither the image  *)
(* nor a reader.                                                           *)
LEMMA TempAlone ==
  ASSUME FileInv, UNCHANGED <<image, fd, got, answer>>, NamesInv',
         temp' \in Inodes, NEW b, data' = [data EXCEPT ![temp'] = b]
  PROVE  /\ ReadersSeeFrames' /\ ReadersInside'
         /\ image # NoInode => data'[image] = data[image]
<1>1. temp' # image /\ \A r \in Readers : fd[r] # temp'
  BY ConstantsAssumed DEF NamesInv, TempPrivate, Constants
<1>2. /\ image # NoInode => data'[image] = data[image]
      /\ \A r \in Readers : fd[r] # NoInode => data'[fd[r]] = data[fd[r]]
  BY <1>1 DEF FileInv, NamesInv, TypeOK
<1>3. QED
  BY <1>2 DEF FileInv, ReadersSeeFrames, ReadersInside

(* fopen truncates the temporary file, never the published one.            *)
LEMMA OpenTempKeepsFiles ==
  ASSUME OneDaemon, FileInv, NamesInv', NEW d \in Daemons, OpenTemp(d)
  PROVE  FileInv'
<1>1. /\ pc[d] = "open" /\ pc' = [pc EXCEPT ![d] = "write"]
      /\ out' = [out EXCEPT ![d] = temp']
      /\ written' = [written EXCEPT ![d] = 0]
      /\ data' = [data EXCEPT ![temp'] = <<>>]
      /\ UNCHANGED <<frame, image, fd, got, answer>>
  BY DEF OpenTemp, Truncate, Goto, reader
<1>2. temp' \in Inodes
  BY DEF FileInv, NamesInv, TypeOK, OpenTemp, Unused
<1>3. pc'[d] = "write" /\ written'[d] = 0 /\ data'[temp'] = <<>>
  BY <1>1, <1>2 DEF FileInv, NamesInv, TypeOK
<1>4. /\ ReadersSeeFrames' /\ ReadersInside'
      /\ image # NoInode => data'[image] = data[image]
  BY <1>1, <1>2, TempAlone
<1>5. TempFollowsWriter'
  <2>1. [k \in 1 .. 0 |-> frame'[d]] = <<>>
    OBVIOUS
  <2>2. QED
    BY <1>3, <2>1 DEF OneDaemon, TempFollowsWriter
<1>6. ImageBehind'
  BY <1>1, <1>3, <1>4 DEF OneDaemon, FileInv, ImageBehind
<1>7. QED
  BY <1>4, <1>5, <1>6 DEF FileInv

(* A block extends what the temporary file holds of the frame.             *)
LEMMA WriteBlockKeepsFiles ==
  ASSUME OneDaemon, FileInv, NamesInv', NEW d \in Daemons, WriteBlock(d)
  PROVE  FileInv'
<1>1. /\ pc[d] = "write"
      /\ data' = [data EXCEPT ![out[d]] =
                    Written(data[out[d]], written[d], frame[d])]
      /\ written' = [written EXCEPT ![d] = written[d] + 1]
      /\ UNCHANGED <<pc, frame, out, temp, image, fd, got, answer>>
  BY DEF WriteBlock, reader, FileInv, NamesInv, TypeOK
<1>2. /\ frame[d] \in Images /\ out[d] \in Inodes /\ written[d] \in Nat
  BY <1>1, BeingWritten DEF FileInv, NamesInv
<1>3. out[d] = temp /\ data[temp] = [k \in 1 .. written[d] |-> frame[d]]
  BY <1>1 DEF FileInv, NamesInv, StreamIsTemp, TempFollowsWriter
<1>4. data'[temp] = [k \in 1 .. written'[d] |-> frame[d]]
  <2>1. /\ data'[temp] = Written(data[temp], written[d], frame[d])
        /\ written'[d] = written[d] + 1
    BY <1>1, <1>2, <1>3 DEF FileInv, NamesInv, TypeOK
  <2>2. Written([k \in 1 .. written[d] |-> frame[d]], written[d], frame[d])
          = [k \in 1 .. written[d] + 1 |-> frame[d]]
    BY <1>2, WrittenAppends
  <2>3. QED
    BY <1>3, <2>1, <2>2
<1>5. /\ ReadersSeeFrames' /\ ReadersInside'
      /\ image # NoInode => data'[image] = data[image]
  BY <1>1, <1>2, <1>3, TempAlone
<1>6. TempFollowsWriter'
  BY <1>1, <1>4 DEF OneDaemon, TempFollowsWriter
<1>7. ImageBehind'
  BY <1>1, <1>5 DEF FileInv, ImageBehind
<1>8. QED
  BY <1>5, <1>6, <1>7 DEF FileInv

(* The image stays behind the daemon unless the daemon takes up a frame.   *)
LEMMA ImageStaysBehind ==
  ASSUME ImageBehind, UNCHANGED <<frame, image, data>>,
         \A d \in Daemons : pc'[d] \in {"open", "write", "rename"}
                              => pc[d] \in {"open", "write", "rename"}
  PROVE  ImageBehind'
  BY DEF ImageBehind, Whole

(* After fclose the temporary file is the whole frame.                     *)
LEMMA FlushedKeepsFiles ==
  ASSUME OneDaemon, DiskNeverFull, FileInv, NamesInv',
         NEW d \in Daemons, Flushed(d)
  PROVE  FileInv'
<1>1. /\ pc[d] = "write" /\ pc' = [pc EXCEPT ![d] = "rename"]
      /\ out' = [out EXCEPT ![d] = NoInode]
      /\ UNCHANGED <<frame, written, file, reader>>
      /\ ~(written[d] < Length[frame[d]])
  BY DEF Flushed, Goto, DiskNeverFull
<1>2. pc'[d] = "rename"
  BY <1>1 DEF FileInv, NamesInv, TypeOK
<1>3. ReadersSeeFrames' /\ ReadersInside'
  BY <1>1, FilesAsTheyWere
<1>4. TempFollowsWriter'
  <2>1. /\ out[d] = temp /\ temp # NoInode
        /\ data[temp] = [k \in 1 .. written[d] |-> frame[d]]
    BY <1>1 DEF FileInv, NamesInv, TypeOK, StreamIsTemp, TempFollowsWriter
  <2>2. written[d] = Length[frame[d]]
    BY <1>1, BeingWritten DEF FileInv, NamesInv, TypeOK
  <2>3. data[temp] = Whole(frame[d])
    BY <2>1, <2>2 DEF Whole
  <2>4. UNCHANGED <<frame, temp, data>>
    BY <1>1 DEF file
  <2>5. QED
    BY <1>2, <2>1, <2>3, <2>4 DEF OneDaemon, TempFollowsWriter, Whole
<1>5. ImageBehind'
  <2>1. \A e \in Daemons : e = d
    BY DEF OneDaemon
  <2>2. QED
    BY <1>1, <2>1, ImageStaysBehind DEF FileInv, file
<1>6. QED
  BY <1>3, <1>4, <1>5 DEF FileInv

(* rename publishes a whole frame.                                         *)
LEMMA RenameKeepsFiles ==
  ASSUME OneDaemon, FileInv, NamesInv', NEW d \in Daemons, Rename(d)
  PROVE  FileInv'
<1>1. /\ pc[d] = "rename" /\ pc' = [pc EXCEPT ![d] = "idle"]
      /\ temp # NoInode /\ image' = temp /\ temp' = NoInode
      /\ UNCHANGED <<frame, out, written, data, fd, got, answer>>
  BY DEF Rename, Goto, reader
<1>2. pc'[d] = "idle" /\ out[d] = NoInode /\ frame[d] \in Images
  BY <1>1 DEF FileInv, NamesInv, TypeOK
<1>3. data[temp] = Whole(frame[d])
  BY <1>1 DEF FileInv, TempFollowsWriter
<1>4. TempFollowsWriter'
  BY <1>2 DEF OneDaemon, TempFollowsWriter
<1>5. ImageBehind'
  <2>1. \A e \in Daemons : frame[d] <= frame'[e] /\ pc'[e] = "idle"
    BY <1>1, <1>2 DEF OneDaemon, Images
  <2>2. data'[image'] = Whole(frame[d])
    BY <1>1, <1>3
  <2>3. QED
    BY <1>2, <2>1, <2>2 DEF ImageBehind, Whole
<1>6. ReadersSeeFrames' /\ ReadersInside'
  BY <1>1 DEF FileInv, ReadersSeeFrames, ReadersInside
<1>7. QED
  BY <1>4, <1>5, <1>6 DEF FileInv

(* Where write_frame breaks off, files and names stay as they are.         *)
LEMMA BreakingOffKeepsFiles ==
  ASSUME OneDaemon, FileInv, NamesInv', NEW d \in Daemons,
         OpenFails(d) \/ RenameFails(d) \/ Kill(d) \/ Restart(d)
  PROVE  FileInv'
<1>1. /\ pc'[d] \in {"idle", "dead"}
      /\ UNCHANGED <<frame, file, reader>>
  BY DEF OpenFails, RenameFails, Kill, Restart, Goto, FileInv, NamesInv, TypeOK
<1>2. ReadersSeeFrames' /\ ReadersInside'
  BY <1>1, FilesAsTheyWere
<1>3. TempFollowsWriter'
  BY <1>1 DEF OneDaemon, TempFollowsWriter
<1>4. ImageBehind'
  BY <1>1, ImageStaysBehind DEF OneDaemon, FileInv, file
<1>5. QED
  BY <1>2, <1>3, <1>4 DEF FileInv

------------------------------------------------------------------------------
(* A block more of a sequence, taken from the front. *)
LEMMA PrefixGrows ==
  ASSUME NEW S, NEW s \in Seq(S), NEW n \in Nat, n < Len(s)
  PROVE  /\ Append(SubSeq(s, 1, n), s[n + 1]) = SubSeq(s, 1, n + 1)
         /\ Len(SubSeq(s, 1, n + 1)) = n + 1
<1>1. Len(s) \in Nat /\ n + 1 \in 1 .. Len(s) /\ 1 \in 1 .. Len(s)
  BY LenProperties
<1>2. SubSeq(s, 1, n + 1) = SubSeq(s, 1, (n + 1) - 1) \o <<s[n + 1]>>
  BY <1>1, SubSeqRecursiveSecond
<1>3. s[n + 1] \in S /\ \A k \in 1 .. n + 1 : s[k] \in S
  BY <1>1, ElementOfSeq
<1>4. SubSeq(s, 1, n) \in Seq(S) /\ Len(SubSeq(s, 1, n + 1)) = n + 1
  BY <1>3, SubSeqProperties
<1>5. (n + 1) - 1 = n
  OBVIOUS
<1>6. QED
  BY <1>2, <1>3, <1>4, <1>5, AppendIsConcat

(* Readers change neither names nor files: what has to be shown is theirs. *)
LEMMA ReadersKeepFiles ==
  ASSUME FileInv, NamesInv', UNCHANGED <<daemon, file>>,
         ReadersSeeFrames', ReadersInside'
  PROVE  FileInv'
<1>1. TempFollowsWriter' /\ ImageBehind'
  BY DEF FileInv, TempFollowsWriter, ImageBehind, daemon, file, Whole
<1>2. QED
  BY <1>1 DEF FileInv

(* A reader opens a file that will not be written any more.                *)
LEMMA ReaderOpenKeepsFiles ==
  ASSUME FileInv, NamesInv', NEW r \in Readers, ReaderOpen(r)
  PROVE  FileInv'
<1>1. /\ image # NoInode
      /\ fd' = [fd EXCEPT ![r] = image] /\ got' = [got EXCEPT ![r] = <<>>]
      /\ UNCHANGED <<daemon, file, answer, data>>
  BY DEF ReaderOpen, file
<1>2. fd'[r] = image /\ got'[r] = <<>>
  BY <1>1 DEF FileInv, NamesInv, TypeOK
<1>3. data[image] \in Files /\ data[image] \in Seq(Blocks)
  BY <1>1, WholeIsAFrame DEF FileInv, ImageBehind
<1>4. /\ Len(got'[r]) = 0 /\ Len(got'[r]) <= Len(data[image])
      /\ got'[r] = SubSeq(data[image], 1, Len(got'[r]))
  BY <1>2, <1>3, EmptySeq, LenProperties, SubSeqEmpty
<1>5. ReadersSeeFrames' /\ ReadersInside'
  BY <1>1, <1>2, <1>3, <1>4
  DEF FileInv, NamesInv, TypeOK, ReadersSeeFrames, ReadersInside
<1>6. QED
  BY <1>1, <1>5, ReadersKeepFiles

(* What it reads goes on where it was.                                     *)
LEMMA ReaderReadKeepsFiles ==
  ASSUME FileInv, NamesInv', NEW r \in Readers, ReaderRead(r)
  PROVE  FileInv'
<1> DEFINE n == Len(got[r])
<1>1. /\ fd[r] # NoInode /\ n < Len(data[fd[r]])
      /\ got' = [got EXCEPT ![r] = Append(got[r], data[fd[r]][n + 1])]
      /\ UNCHANGED <<daemon, file, fd, answer, data>>
  BY DEF ReaderRead, file, FileInv, NamesInv, TypeOK
<1>2. /\ data[fd[r]] \in Seq(Blocks) /\ got[r] \in Seq(Blocks)
      /\ n \in Nat /\ Len(data[fd[r]]) \in Nat
      /\ got[r] = SubSeq(data[fd[r]], 1, n)
  BY <1>1, LenProperties DEF FileInv, NamesInv, TypeOK, ReadersSeeFrames
<1>3. got'[r] = Append(SubSeq(data[fd[r]], 1, n), data[fd[r]][n + 1])
  BY <1>1, <1>2 DEF FileInv, NamesInv, TypeOK
<1>4. got'[r] = SubSeq(data[fd[r]], 1, n + 1) /\ Len(got'[r]) = n + 1
  BY <1>1, <1>2, <1>3, PrefixGrows
<1>5. ReadersSeeFrames' /\ ReadersInside'
  BY <1>1, <1>2, <1>3, <1>4
  DEF FileInv, NamesInv, TypeOK, ReadersSeeFrames, ReadersInside
<1>6. QED
  BY <1>1, <1>5, ReadersKeepFiles

(* A reader that has come to the end has read all of its file.             *)
LEMMA AtTheEnd ==
  ASSUME FileInv, NEW r \in Readers, fd[r] # NoInode,
         Len(got[r]) >= Len(data[fd[r]])
  PROVE  got[r] = data[fd[r]]
<1>1. /\ data[fd[r]] \in Seq(Blocks) /\ got[r] \in Seq(Blocks)
      /\ got[r] = SubSeq(data[fd[r]], 1, Len(got[r]))
      /\ Len(got[r]) <= Len(data[fd[r]])
  BY DEF FileInv, NamesInv, TypeOK, ReadersSeeFrames, ReadersInside
<1>2. Len(got[r]) = Len(data[fd[r]])
  BY <1>1, LenProperties
<1>3. QED
  BY <1>1, <1>2, SubSeqFull

(* At the end of the file it has the whole frame.                          *)
LEMMA ReaderCloseKeepsFiles ==
  ASSUME FileInv, NamesInv', NEW r \in Readers, ReaderClose(r)
  PROVE  FileInv'
<1>1. /\ fd[r] # NoInode /\ got[r] = data[fd[r]]
      /\ answer' = [answer EXCEPT ![r] = got[r]]
      /\ fd' = [fd EXCEPT ![r] = NoInode] /\ got' = [got EXCEPT ![r] = <<>>]
      /\ UNCHANGED <<daemon, file, data>>
  BY AtTheEnd DEF ReaderClose, file
<1>2. got[r] \in Files
  BY <1>1 DEF FileInv, ReadersSeeFrames
<1>3. ReadersSeeFrames' /\ ReadersInside'
  BY <1>1, <1>2 DEF FileInv, NamesInv, TypeOK, ReadersSeeFrames, ReadersInside
<1>4. QED
  BY <1>1, <1>3, ReadersKeepFiles

(* Every step of a single daemon keeps the files in order.                 *)
LEMMA FileStep ==
  ASSUME OneDaemon, DiskNeverFull
  PROVE  FileInv /\ [Next]_vars => FileInv'
<1> SUFFICES ASSUME FileInv, [Next]_vars PROVE FileInv'
  OBVIOUS
<1>0. NamesInv'
  BY NamesStep DEF FileInv
<1>1. ASSUME NEW d \in Daemons, Writer(d) PROVE FileInv'
  BY <1>0, <1>1, BeginFrameKeepsFiles, OpenTempKeepsFiles, WriteBlockKeepsFiles,
     FlushedKeepsFiles, RenameKeepsFiles, BreakingOffKeepsFiles DEF Writer
<1>2. ASSUME NEW r \in Readers, Reader(r) PROVE FileInv'
  BY <1>0, <1>2, ReaderOpenKeepsFiles, ReaderReadKeepsFiles, ReaderCloseKeepsFiles
  DEF Reader
<1>3. CASE UNCHANGED vars
  BY <1>0, <1>3
  DEF vars, FileInv, TempFollowsWriter, ImageBehind, ReadersSeeFrames,
      ReadersInside, Whole
<1>4. QED
  BY <1>1, <1>2, <1>3 DEF Next

(* They are in order before the first frame.                               *)
LEMMA FileInvInitially == Init => FileInv
<1>1. Init => TypeOK
  <2>1. <<>> \in Seq(Blocks)
    BY EmptySeq
  <2>2. QED
    BY <2>1 DEF Init, TypeOK
<1>2. QED
  BY <1>1 DEF Init, FileInv, NamesInv, TempPrivate, StreamIsTemp,
     TempFollowsWriter, ImageBehind, ReadersSeeFrames, ReadersInside

(* They are always in order.                                               *)
LEMMA FileInvHolds ==
  ASSUME OneDaemon, DiskNeverFull
  PROVE  Spec => []FileInv
<1>1. FileInv /\ [Next]_vars => FileInv'
  BY FileStep
<1>2. QED
  BY <1>1, FileInvInitially, PTL DEF Spec

(* As long as writes succeed, what the name image.jpg leads to is at every *)
(* moment one whole frame.                                                 *)
THEOREM ImageWholeHolds ==
  ASSUME OneDaemon, DiskNeverFull
  PROVE  Spec => []ImageWhole
<1>1. FileInv => ImageWhole
  BY WholeIsAFrame DEF FileInv, ImageBehind, ImageWhole
<1>2. QED
  BY <1>1, FileInvHolds, PTL

(* As long as writes succeed, a reader has in hand the beginning of one    *)
(* whole frame, whatever is done to the names meanwhile, and what it has   *)
(* read to the end was one.                                                *)
THEOREM ReadersSeeFramesHolds ==
  ASSUME OneDaemon, DiskNeverFull
  PROVE  Spec => []ReadersSeeFrames
<1>1. FileInv => ReadersSeeFrames
  BY DEF FileInv
<1>2. QED
  BY <1>1, FileInvHolds, PTL

------------------------------------------------------------------------------
(* The image file is a register: every step of write_frame and of a reader *)
(* is a step of AtomicImage or a stutter.                                  *)

ImageFrame == FrameOfInode(image)
ReadingFrames == [r \in Readers |-> FrameOfInode(fd[r])]
AnswerFrames == [r \in Readers |-> FrameOf(answer[r])]

(* A file of a whole frame stands for that frame. *)
LEMMA FilesAreFrames ==
  ASSUME NEW b \in Files
  PROVE  FrameOf(b) \in Images /\ b = Whole(FrameOf(b))
  BY WholeIsAFrame DEF Files

(* A step that renames nothing, closes nothing and opens nothing to read   *)
(* changes nothing a reader could notice.                                  *)
LEMMA StutterOfTheRegister ==
  ASSUME FileInv, UNCHANGED <<image, fd, answer>>,
         image # NoInode => data'[image] = data[image],
         \A r \in Readers : fd[r] # NoInode => data'[fd[r]] = data[fd[r]]
  PROVE  UNCHANGED <<ImageFrame, ReadingFrames, AnswerFrames>>
<1>1. ImageFrame' = ImageFrame
  BY DEF ImageFrame, FrameOfInode, FrameOf
<1>2. ReadingFrames' = ReadingFrames
  BY DEF ReadingFrames, FrameOfInode, FrameOf
<1>3. AnswerFrames' = AnswerFrames
  BY DEF AnswerFrames, FrameOf
<1>4. QED
  BY <1>1, <1>2, <1>3

(* rename is the step that publishes, and it publishes a newer frame.      *)
LEMMA RenamePublishes ==
  ASSUME FileInv, NEW d \in Daemons, Rename(d)
  PROVE  /\ ImageFrame' \in Images /\ ImageFrame' > ImageFrame
         /\ UNCHANGED <<ReadingFrames, AnswerFrames>>
<1>1. /\ pc[d] = "rename" /\ temp # NoInode /\ image' = temp
      /\ UNCHANGED <<data, fd, answer>>
  BY DEF Rename, reader
<1>2. frame[d] \in Images /\ data[temp] = Whole(frame[d])
  BY <1>1 DEF FileInv, NamesInv, TypeOK, TempFollowsWriter
<1>3. ImageFrame' = frame[d]
  BY <1>1, <1>2, WholeIsAFrame DEF ImageFrame, FrameOfInode, FrameOf
<1>4. ImageFrame < frame[d]
  <2>1. CASE image = NoInode
    BY <1>2, <2>1 DEF ImageFrame, FrameOfInode, NoFrame, Images
  <2>2. CASE image # NoInode
    <3>1. PICK f \in Images : data[image] = Whole(f) /\ f < frame[d]
      BY <1>1, <2>2 DEF FileInv, ImageBehind
    <3>2. ImageFrame = f
      BY <2>2, <3>1, WholeIsAFrame DEF ImageFrame, FrameOfInode
    <3>3. QED
      BY <3>1, <3>2
  <2>3. QED
    BY <2>1, <2>2
<1>5. ImageFrame \in Int
  <2>1. image # NoInode => ImageFrame \in Images
    BY FilesAreFrames, WholeIsAFrame DEF FileInv, ImageBehind, ImageFrame, FrameOfInode
  <2>2. QED
    BY <2>1 DEF ImageFrame, FrameOfInode, NoFrame, Images
<1>6. UNCHANGED <<ReadingFrames, AnswerFrames>>
  BY <1>1 DEF ReadingFrames, AnswerFrames, FrameOfInode, FrameOf
<1>7. QED
  BY <1>2, <1>3, <1>4, <1>5, <1>6 DEF Images

(* A reader's open takes the current frame. *)
LEMMA ReaderOpenTakesFrame ==
  ASSUME FileInv, NEW r \in Readers, ReaderOpen(r)
  PROVE  /\ ReadingFrames[r] = NoFrame /\ ImageFrame # NoFrame
         /\ ReadingFrames' = [ReadingFrames EXCEPT ![r] = ImageFrame]
         /\ UNCHANGED <<ImageFrame, AnswerFrames>>
<1>1. /\ fd[r] = NoInode /\ image # NoInode
      /\ fd' = [fd EXCEPT ![r] = image]
      /\ UNCHANGED <<image, data, answer>>
  BY DEF ReaderOpen, file
<1>2. ImageFrame \in Images
  BY <1>1, WholeIsAFrame DEF FileInv, ImageBehind, ImageFrame, FrameOfInode
<1>3. \A q \in Readers : fd'[q] = IF q = r THEN image ELSE fd[q]
  BY <1>1 DEF FileInv, NamesInv, TypeOK
<1>4. ReadingFrames' = [ReadingFrames EXCEPT ![r] = ImageFrame]
  <2>1. \A q \in Readers :
          ReadingFrames'[q] = IF q = r THEN ImageFrame ELSE ReadingFrames[q]
    BY <1>1, <1>3 DEF ReadingFrames, ImageFrame, FrameOfInode, FrameOf
  <2>2. QED
    BY <2>1 DEF ReadingFrames
<1>5. UNCHANGED <<ImageFrame, AnswerFrames>>
  BY <1>1 DEF ImageFrame, AnswerFrames, FrameOfInode, FrameOf
<1>6. QED
  BY <1>1, <1>2, <1>4, <1>5 DEF ReadingFrames, FrameOfInode, NoFrame, Images

(* A reader's close answers with the frame it took when it opened.         *)
LEMMA ReaderCloseAnswers ==
  ASSUME FileInv, NEW r \in Readers, ReaderClose(r)
  PROVE  /\ ReadingFrames[r] # NoFrame
         /\ AnswerFrames' = [AnswerFrames EXCEPT ![r] = ReadingFrames[r]]
         /\ ReadingFrames' = [ReadingFrames EXCEPT ![r] = NoFrame]
         /\ UNCHANGED ImageFrame
<1>1. /\ fd[r] # NoInode /\ got[r] = data[fd[r]]
      /\ answer' = [answer EXCEPT ![r] = got[r]]
      /\ fd' = [fd EXCEPT ![r] = NoInode]
      /\ UNCHANGED <<image, data>>
  BY AtTheEnd DEF ReaderClose, file
<1>2. /\ \A q \in Readers : fd'[q] = IF q = r THEN NoInode ELSE fd[q]
      /\ \A q \in Readers : answer'[q] = IF q = r THEN data[fd[r]] ELSE answer[q]
  BY <1>1 DEF FileInv, NamesInv, TypeOK
<1>3. ReadingFrames[r] = FrameOf(data[fd[r]]) /\ ReadingFrames[r] \in Images
  BY <1>1, FilesAreFrames DEF FileInv, ReadersSeeFrames, ReadingFrames, FrameOfInode
<1>4. AnswerFrames' = [AnswerFrames EXCEPT ![r] = ReadingFrames[r]]
  <2>1. \A b : FrameOf(b)' = FrameOf(b)
    BY DEF FrameOf
  <2>2. \A q \in Readers : FrameOf(answer'[q]) =
          IF q = r THEN ReadingFrames[r] ELSE FrameOf(answer[q])
    BY <1>2, <1>3
  <2>3. QED
    BY <2>1, <2>2 DEF AnswerFrames
<1>5. ReadingFrames' = [ReadingFrames EXCEPT ![r] = NoFrame]
  <2>1. \A q \in Readers :
          ReadingFrames'[q] = IF q = r THEN NoFrame ELSE ReadingFrames[q]
    BY <1>1, <1>2 DEF ReadingFrames, FrameOfInode, FrameOf
  <2>2. QED
    BY <2>1 DEF ReadingFrames
<1>6. UNCHANGED ImageFrame
  BY <1>1 DEF ImageFrame, FrameOfInode, FrameOf
<1>7. QED
  BY <1>3, <1>4, <1>5, <1>6 DEF NoFrame, Images

(* Every step is one of the register or leaves it alone.                   *)
LEMMA RegisterStep == FileInv /\ [Next]_vars => [Abstract!Next]_(Abstract!vars)
<1> SUFFICES ASSUME FileInv, [Next]_vars
             PROVE  \/ Abstract!Next
                    \/ UNCHANGED <<ImageFrame, ReadingFrames, AnswerFrames>>
  BY DEF Abstract!vars, ImageFrame, ReadingFrames, AnswerFrames
<1> USE DEF FileInv, NamesInv
<1>1. ASSUME NEW d \in Daemons, BeginFrame(d) \/ OpenFails(d) \/ Flushed(d)
                                \/ RenameFails(d) \/ Kill(d) \/ Restart(d)
      PROVE  UNCHANGED <<ImageFrame, ReadingFrames, AnswerFrames>>
  <2>1. UNCHANGED <<image, data, fd, answer>>
    BY <1>1 DEF BeginFrame, OpenFails, Flushed, RenameFails, Kill, Restart,
       file, reader
  <2>2. QED
    BY <2>1, StutterOfTheRegister
<1>2. ASSUME NEW d \in Daemons, OpenTemp(d)
      PROVE  UNCHANGED <<ImageFrame, ReadingFrames, AnswerFrames>>
  <2>1. /\ temp' \in Inodes /\ temp' # image /\ \A r \in Readers : fd[r] # temp'
        /\ data' = [data EXCEPT ![temp'] = <<>>]
        /\ UNCHANGED <<image, fd, answer>>
    BY <1>2 DEF TypeOK, TempPrivate, OpenTemp, Truncate, Unused, reader
  <2>2. /\ image # NoInode => data'[image] = data[image]
        /\ \A r \in Readers : fd[r] # NoInode => data'[fd[r]] = data[fd[r]]
    BY <2>1 DEF TypeOK
  <2>3. QED
    BY <2>1, <2>2, StutterOfTheRegister
<1>3. ASSUME NEW d \in Daemons, WriteBlock(d)
      PROVE  UNCHANGED <<ImageFrame, ReadingFrames, AnswerFrames>>
  <2>1. /\ out[d] \in Inodes /\ out[d] # image /\ \A r \in Readers : fd[r] # out[d]
        /\ UNCHANGED <<image, fd, answer>>
    BY <1>3, BeingWritten, ConstantsAssumed
    DEF TempPrivate, WriteBlock, reader, Constants
  <2>2. \A i \in Inodes : i # out[d] => data'[i] = data[i]
    BY <1>3 DEF WriteBlock, TypeOK
  <2>3. /\ image # NoInode => data'[image] = data[image]
        /\ \A r \in Readers : fd[r] # NoInode => data'[fd[r]] = data[fd[r]]
    BY <2>1, <2>2 DEF TypeOK
  <2>4. QED
    BY <2>1, <2>3, StutterOfTheRegister
<1>4. ASSUME NEW d \in Daemons, Rename(d)
      PROVE  Abstract!Next
  BY <1>4, RenamePublishes
  DEF Abstract!Next, Abstract!Publish, Abstract!Images, Images, ImageFrame,
      ReadingFrames, AnswerFrames
<1>5. ASSUME NEW r \in Readers, ReaderOpen(r)
      PROVE  Abstract!Next
  BY <1>5, ReaderOpenTakesFrame
  DEF Abstract!Next, Abstract!Open, Abstract!NoFrame, NoFrame, ImageFrame,
      ReadingFrames, AnswerFrames
<1>6. ASSUME NEW r \in Readers, ReaderRead(r)
      PROVE  UNCHANGED <<ImageFrame, ReadingFrames, AnswerFrames>>
  <2>1. UNCHANGED <<image, data, fd, answer>>
    BY <1>6 DEF ReaderRead, file
  <2>2. QED
    BY <2>1, StutterOfTheRegister
<1>7. ASSUME NEW r \in Readers, ReaderClose(r)
      PROVE  Abstract!Next
  BY <1>7, ReaderCloseAnswers
  DEF Abstract!Next, Abstract!Finish, Abstract!NoFrame, NoFrame, ImageFrame,
      ReadingFrames, AnswerFrames
<1>8. CASE UNCHANGED vars
  BY <1>8, StutterOfTheRegister DEF vars
<1>9. QED
  BY <1>1, <1>2, <1>3, <1>4, <1>5, <1>6, <1>7, <1>8 DEF Next, Writer, Reader

(* With the blocks abstracted away the image file is a register that only  *)
(* moves to newer frames: FrameFile implements AtomicImage, whatever fails *)
(* but a write, for any number of readers, frames and files, and any       *)
(* lengths of the images.                                                  *)
THEOREM AtomicHolds ==
  ASSUME OneDaemon, DiskNeverFull
  PROVE  Spec => Atomic
<1>1. Init => Abstract!Init
  BY DEF Init, Abstract!Init, Abstract!NoFrame, NoFrame, FrameOfInode, FrameOf
<1>2. FileInv /\ [Next]_vars => [Abstract!Next]_(Abstract!vars)
  BY RegisterStep
<1>3. QED
  BY <1>1, <1>2, FileInvHolds, PTL DEF Spec, Atomic, Abstract!Spec
===============================================================================
