----------------------------- MODULE MCSpinLock -----------------------------
(* An instance of SpinLock for TLC. *)
EXTENDS SpinLock
=============================================================================
