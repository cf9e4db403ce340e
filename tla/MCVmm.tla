------------------------------- MODULE MCVmm --------------------------------
(* Pages for Vmm: tables of two entries.  3 and 4 differ in every index but the  *)
(* first, so that a call crosses from one table to the next at two levels and a  *)
(* table is kept for its other child; 4 and 5 share all their tables.            *)
EXTENDS Vmm

SiblingVaddrs == 3..5
\* All of the device's memory is one value.
SameFrame(f) == f

FrameSymmetry == Permutations(Frames)
=============================================================================
