------------------------------ MODULE MCSched ------------------------------
(* An instance of Sched for TLC. *)
EXTENDS Sched
=============================================================================
