---------------------------- MODULE MCFraminator ----------------------------
(* Instances for TLC. *)
EXTENDS FraminatorFaults
=============================================================================
