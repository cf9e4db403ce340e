----------------------------- MODULE MCSpinSmp ------------------------------
(* CPUs for SpinSmp. *)
EXTENDS SpinSmp
=============================================================================
