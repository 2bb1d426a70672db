------------------------------ MODULE FrameFile ------------------------------
(***************************************************************************)
(* write_frame of main.c, step by step, against the file system and those  *)
(* who read the image file meanwhile (the web server in front of hawkeye). *)
(*                                                                         *)
(*   fopen("image.jpg~", "w+"), fwrite, fflush, fclose,                    *)
(*   rename("image.jpg~", "image.jpg")                                     *)
(*                                                                         *)
(* An image is a sequence of blocks, each block the number of the frame it *)
(* is from; images differ in length as JPEGs do.  A name is a directory    *)
(* entry for an inode; a reader that has opened the image keeps the inode, *)
(* whatever becomes of the name, and so does a daemon that writes.  A      *)
(* daemon may be killed between any two system calls and started again by  *)
(* init.d.  The results of fwrite, fflush, fclose and rename are ignored   *)
(* by the code.                                                            *)
(*                                                                         *)
(* Daemons with the same file-root and base-file-name write the same two   *)
(* names.  Nothing in the code keeps a second one from starting, so their  *)
(* number is a parameter; the file is a register for one of them only.     *)
(*                                                                         *)
(* Not modelled: loss of power.  The code never syncs, so what the disk    *)
(* holds after one is up to the file system.                               *)
(***************************************************************************)
EXTENDS Integers, Sequences

CONSTANTS
  Daemons,    \* the processes that write the image
  Readers,    \* the readers of the image
  Inodes,     \* bound: files that exist at one time, linked or open
  NoInode,    \* what a name or a stream without a file refers to
  MaxFrame,   \* bound: frames captured in one behaviour
  Length,     \* for each frame: the number of blocks of its JPEG
  Faults      \* what may go wrong, a subset of FaultKinds

FaultKinds == { "fopen",    \* fopen fails: panic
                "enospc",   \* a write fails, the disk is full
                "rename",   \* rename fails
                "kill" }    \* the process is killed

NoFrame == 0                \* also a block that was never written
Images == 1 .. MaxFrame

ASSUME NoInodeAssumption == NoInode \notin Inodes
ASSUME MaxFrameAssumption == MaxFrame \in Nat \ {0}
ASSUME LengthAssumption == Length \in [Images -> Nat \ {0}]
ASSUME FaultsAssumption == Faults \subseteq FaultKinds

VARIABLES
  pc,         \* for each daemon: where its write_frame is
  frame,      \* for each daemon: the frame it writes, or the last it wrote
  out,        \* for each daemon: the inode its stream has open
  written,    \* for each daemon: the blocks passed to write(2)
  temp,       \* the inode "image.jpg~" names
  image,      \* the inode "image.jpg" names
  data,       \* the blocks of each inode
  fd,         \* for each reader: the inode it has open
  got,        \* for each reader: the blocks it has read from it
  answer      \* for each reader: what it read the last time

daemon == <<pc, frame, out, written>>
file == <<temp, image, data>>
reader == <<fd, got, answer>>
vars == <<pc, frame, out, written, temp, image, data, fd, got, answer>>

(* The file that holds frame f, whole. *)
Whole(f) == [k \in 1 .. Length[f] |-> f]

Files == {Whole(f) : f \in Images}
Blocks == Images \cup {NoFrame}

TypeOK ==
  /\ pc \in [Daemons -> {"idle", "open", "write", "rename", "dead"}]
  /\ frame \in [Daemons -> Images \cup {NoFrame}]
  /\ out \in [Daemons -> Inodes \cup {NoInode}]
  /\ written \in [Daemons -> Nat]
  /\ \A d \in Daemons :
       /\ out[d] # NoInode <=> pc[d] = "write"
       /\ pc[d] \in {"open", "write", "rename"} => frame[d] # NoFrame
       /\ pc[d] = "write" => written[d] <= Length[frame[d]]
  /\ temp \in Inodes \cup {NoInode}
  /\ image \in Inodes \cup {NoInode}
  /\ data \in [Inodes -> Seq(Blocks)]
  /\ fd \in [Readers -> Inodes \cup {NoInode}]
  /\ got \in [Readers -> Seq(Blocks)]
  /\ answer \in [Readers -> Seq(Blocks)]

Init ==
  /\ pc = [d \in Daemons |-> "idle"]
  /\ frame = [d \in Daemons |-> NoFrame]
  /\ out = [d \in Daemons |-> NoInode]
  /\ written = [d \in Daemons |-> 0]
  /\ temp = NoInode
  /\ image = NoInode
  /\ data = [i \in Inodes |-> <<>>]
  /\ fd = [r \in Readers |-> NoInode]
  /\ got = [r \in Readers |-> <<>>]
  /\ answer = [r \in Readers |-> <<>>]

(* Inodes that neither a name nor an open file refers to. *)
Unused == Inodes \ ({temp, image} \cup {fd[r] : r \in Readers}
                                  \cup {out[d] : d \in Daemons})

Goto(d, point) == pc' = [pc EXCEPT ![d] = point]

------------------------------------------------------------------------------
(* The main loop of d has compressed a frame newer than all before and     *)
(* calls write_frame.                                                      *)
BeginFrame(d) ==
  /\ pc[d] = "idle"
  /\ \E f \in Images :
       /\ \A e \in Daemons : frame[e] < f
       /\ frame' = [frame EXCEPT ![d] = f]
  /\ Goto(d, "open")
  /\ UNCHANGED <<out, written, file, reader>>

(* The stream of d is at the beginning of the file i, which is empty.      *)
Truncate(d, i) ==
  /\ out' = [out EXCEPT ![d] = i]
  /\ written' = [written EXCEPT ![d] = 0]
  /\ data' = [data EXCEPT ![i] = <<>>]

(* Mutant of OpenTemp: the image is opened in place. *)
OpenImage(d) ==
  /\ pc[d] = "open"
  /\ \/ image # NoInode /\ temp' = image
     \/ image = NoInode /\ temp' \in Unused
  /\ Truncate(d, temp')
  /\ Goto(d, "write")
  /\ UNCHANGED <<frame, image, reader>>

(* Mutant of OpenTemp: the file is not truncated (mode "r+"). *)
OpenNoTruncate(d) ==
  /\ pc[d] = "open"
  /\ \/ /\ temp # NoInode
        /\ out' = [out EXCEPT ![d] = temp]
        /\ written' = [written EXCEPT ![d] = 0]
        /\ UNCHANGED <<temp, data>>
     \/ temp = NoInode /\ temp' \in Unused /\ Truncate(d, temp')
  /\ Goto(d, "write")
  /\ UNCHANGED <<frame, image, reader>>

(* fopen(temp_out_file_path, "w+") creates the file, or truncates one that *)
(* was left behind by a process that was killed or whose rename failed, or *)
(* that another daemon is writing.                                         *)
OpenTemp(d) ==
  /\ pc[d] = "open"
  /\ \/ temp # NoInode /\ UNCHANGED temp
     \/ temp = NoInode /\ temp' \in Unused
  /\ Truncate(d, temp')
  /\ Goto(d, "write")
  /\ UNCHANGED <<frame, image, reader>>

OpenFails(d) ==
  /\ pc[d] = "open"
  /\ "fopen" \in Faults
  /\ Goto(d, "dead")
  /\ UNCHANGED <<frame, out, written, file, reader>>

(* The blocks b after a write of frame f at offset w: what lies between    *)
(* the end of the file and the offset reads as zeroes.                     *)
Written(b, w, f) ==
  [k \in 1 .. (IF w < Len(b) THEN Len(b) ELSE w + 1) |->
     IF k = w + 1 THEN f ELSE IF k <= Len(b) THEN b[k] ELSE NoFrame]

(* Mutant of WriteBlock: one block too many. *)
WriteTooMuch(d) ==
  /\ pc[d] = "write"
  /\ written[d] <= Length[frame[d]]
  /\ data' = [data EXCEPT ![out[d]] = Written(@, written[d], frame[d])]
  /\ written' = [written EXCEPT ![d] = @ + 1]
  /\ UNCHANGED <<pc, frame, out, temp, image, reader>>

(* One write(2) of fwrite or fflush, to the file the stream has open and   *)
(* at the stream's own offset.                                             *)
WriteBlock(d) ==
  /\ pc[d] = "write"
  /\ written[d] < Length[frame[d]]
  /\ data' = [data EXCEPT ![out[d]] = Written(@, written[d], frame[d])]
  /\ written' = [written EXCEPT ![d] = @ + 1]
  /\ UNCHANGED <<pc, frame, out, temp, image, reader>>

(* Mutant of Flushed: the file is renamed while stdio still holds blocks.  *)
CloseEarly(d) ==
  /\ pc[d] = "write"
  /\ out' = [out EXCEPT ![d] = NoInode]
  /\ Goto(d, "rename")
  /\ UNCHANGED <<frame, written, file, reader>>

(* fwrite and fflush have written everything, or a write has failed and    *)
(* the rest is dropped: both are followed by fclose.                       *)
Flushed(d) ==
  /\ pc[d] = "write"
  /\ written[d] < Length[frame[d]] => "enospc" \in Faults
  /\ out' = [out EXCEPT ![d] = NoInode]
  /\ Goto(d, "rename")
  /\ UNCHANGED <<frame, written, file, reader>>

(* rename(temp_out_file_path, out_file_path): the name of the image moves  *)
(* to the file the temporary name leads to now, in one step.               *)
Rename(d) ==
  /\ pc[d] = "rename"
  /\ temp # NoInode
  /\ image' = temp
  /\ temp' = NoInode
  /\ Goto(d, "idle")
  /\ UNCHANGED <<frame, out, written, data, reader>>

(* It fails, or another daemon has moved the temporary name away already.  *)
RenameFails(d) ==
  /\ pc[d] = "rename"
  /\ temp # NoInode => "rename" \in Faults
  /\ Goto(d, "idle")
  /\ UNCHANGED <<frame, out, written, file, reader>>

------------------------------------------------------------------------------
(* SIGKILL, or any panic: blocks not yet written are lost with the         *)
(* process, the files stay as they are.                                    *)
Kill(d) ==
  /\ "kill" \in Faults
  /\ pc[d] # "dead"
  /\ out' = [out EXCEPT ![d] = NoInode]
  /\ Goto(d, "dead")
  /\ UNCHANGED <<frame, written, file, reader>>

Restart(d) ==
  /\ pc[d] = "dead"
  /\ Goto(d, "idle")
  /\ UNCHANGED <<frame, out, written, file, reader>>

------------------------------------------------------------------------------
(* A reader opens image.jpg, reads it block by block to its end, closes.   *)
ReaderOpen(r) ==
  /\ fd[r] = NoInode
  /\ image # NoInode
  /\ fd' = [fd EXCEPT ![r] = image]
  /\ got' = [got EXCEPT ![r] = <<>>]
  /\ UNCHANGED <<daemon, file, answer>>

ReaderRead(r) ==
  /\ fd[r] # NoInode
  /\ Len(got[r]) < Len(data[fd[r]])
  /\ got' = [got EXCEPT ![r] = Append(@, data[fd[r]][Len(@) + 1])]
  /\ UNCHANGED <<daemon, file, fd, answer>>

ReaderClose(r) ==
  /\ fd[r] # NoInode
  /\ Len(got[r]) >= Len(data[fd[r]])
  /\ answer' = [answer EXCEPT ![r] = got[r]]
  /\ fd' = [fd EXCEPT ![r] = NoInode]
  /\ got' = [got EXCEPT ![r] = <<>>]
  /\ UNCHANGED <<daemon, file>>

Writer(d) == BeginFrame(d) \/ OpenTemp(d) \/ OpenFails(d) \/ WriteBlock(d)
             \/ Flushed(d) \/ Rename(d) \/ RenameFails(d) \/ Kill(d)
             \/ Restart(d)

Reader(r) == ReaderOpen(r) \/ ReaderRead(r) \/ ReaderClose(r)

Next == \/ \E d \in Daemons : Writer(d)
        \/ \E r \in Readers : Reader(r)

Spec == Init /\ [][Next]_vars

------------------------------------------------------------------------------
(* main.c:121, "Now that write is complete, rename the file": what the     *)
(* name image.jpg leads to is one whole frame, at all times.               *)
ImageWhole == image # NoInode => data[image] \in Files

(* Nothing a process writes to, or will truncate, is open for reading: a   *)
(* reader's file does not change under it.                                 *)
TempPrivate ==
  \A i \in ({temp} \cup {out[d] : d \in Daemons}) \ {NoInode} :
    i # image /\ \A r \in Readers : fd[r] # i

(* What a reader has in hand is the beginning of one whole frame, the one  *)
(* its open file holds, and the last answer it got was a whole frame.      *)
ReadersSeeFrames ==
  \A r \in Readers :
    /\ fd[r] # NoInode =>
         /\ data[fd[r]] \in Files
         /\ got[r] = SubSeq(data[fd[r]], 1, Len(got[r]))
    /\ answer[r] \in Files \cup {<<>>}

------------------------------------------------------------------------------
(* The frame a file of whole frames stands for. *)
FrameOf(blocks) == IF blocks = <<>> THEN NoFrame ELSE blocks[1]
FrameOfInode(i) == IF i = NoInode THEN NoFrame ELSE FrameOf(data[i])

Abstract ==
  INSTANCE AtomicImage WITH
    image <- FrameOfInode(image),
    reading <- [r \in Readers |-> FrameOfInode(fd[r])],
    answer <- [r \in Readers |-> FrameOf(answer[r])]

(* With the blocks abstracted away the image file is a register: readers   *)
(* get the frame that was current when they opened it, and the image only  *)
(* ever moves to a newer frame - across kills, restarts and failed renames.*)
Atomic == Abstract!Spec
==============================================================================
