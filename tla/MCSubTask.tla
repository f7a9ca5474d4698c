------------------------------ MODULE MCSubTask ------------------------------
(* SubTask for TLC: two marks tell a thread's words from stale ones.         *)
EXTENDS SubTask
=============================================================================
