------------------------------- MODULE MCKlog -------------------------------
(* Klog under the timer, with bounds for TLC. *)
EXTENDS Timer

\* With and without the keyboard's line masked.
KeyboardMasks == {{}, {1}}
=============================================================================
