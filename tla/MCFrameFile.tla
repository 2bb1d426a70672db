----------------------------- MODULE MCFrameFile -----------------------------
(***************************************************************************)
(* A small instance of FrameFile: frames of one, two and three blocks.     *)
(***************************************************************************)
EXTENDS FrameFile

MCLength == [f \in Images |-> 1 + ((f + 1) % 3)]

ToleratedFaults == {"fopen", "rename", "kill"}
DiskFull == {"enospc"}
NoFaults == {}
=============================================================================
