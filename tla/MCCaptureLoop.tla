---------------------------- MODULE MCCaptureLoop ----------------------------
(***************************************************************************)
(* Small instances of CaptureLoop: which faults may happen in each run.    *)
(***************************************************************************)
EXTENDS CaptureLoop

NoFaults == {}
AllFaults == FaultKinds
OnlyDequeueErrors == {"dqerr"}
==============================================================================
