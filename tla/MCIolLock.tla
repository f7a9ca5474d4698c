----------------------------- MODULE MCIolLock -----------------------------
(* Instances for TLC. *)
EXTENDS IolLockCalls
=============================================================================
