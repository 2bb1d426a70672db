------------------------------- MODULE Xioctl -------------------------------
(***************************************************************************)
(* xioctl() of v4l2uvc.c: an ioctl tried again while it fails for a        *)
(* passing reason.                                                         *)
(*                                                                         *)
(*     int tries = IOCTL_RETRY;                                            *)
(*     do { ret = ioctl(...); }                                            *)
(*     while (ret && tries-- && (EINTR or EAGAIN or ETIMEDOUT));           *)
(*     if (ret && tries <= 0) user_panic(...);                             *)
(*                                                                         *)
(* One attempt ends "ok", "transient" (one of the three errno values) or   *)
(* "hard" (any other errno).  `tries' is the counter as it stands when     *)
(* the attempt returns; the test of the loop decrements it whatever the    *)
(* errno is, so the test after the loop sees tries - 1.                    *)
(***************************************************************************)
EXTENDS Integers

CONSTANT IoctlRetry          \* IOCTL_RETRY, 4 in v4l2uvc.h

ASSUME IoctlRetryAssumption == IoctlRetry \in Nat \ {0}

Failures == {"transient", "hard"}

Tries == 0 .. IoctlRetry

(* Mutants of Again: the counter is tested after it is decremented; the    *)
(* counter is not consulted.                                               *)
AgainPreDecrement(res, tries) == res = "transient" /\ tries - 1 # 0
AgainForever(res, tries) == res = "transient" /\ tries \in Tries

(* The loop goes round again. *)
Again(res, tries) == res = "transient" /\ tries # 0

(* The loop is left with a failure and the counter is used up: the process *)
(* exits in user_panic, even when the last errno was a plain refusal and   *)
(* none of the transient ones.                                             *)
GivesUp(res, tries) == res \in Failures /\ ~Again(res, tries) /\ tries - 1 <= 0

(* The loop is left with a failure that the caller gets to see. *)
Refused(res, tries) == res \in Failures /\ ~Again(res, tries) /\ tries - 1 > 0
=============================================================================
