------------------------------ MODULE MCStage2 ------------------------------
(* Small BIOS maps for TLC. *)
EXTENDS Stage2

Entries == {m \in [base : 0..5, len : {1, 2, 4}, type : {1, 2, 3}] : m.base + m.len < 10}
SmallMaps == UNION {[1..n -> Entries] : n \in 1..3}
=============================================================================
