---------------------------- MODULE MCMemoryMap ----------------------------
(* Firmware entries and load addresses for MemoryMap, over pages 0 to 8. *)
EXTENDS MemoryMap

E(s, e, t) == [start |-> s, end |-> e, type |-> t]
P(s, e, t) == E(4 * s, 4 * e, t)

MCPages == 0..9

\* Entries of whole pages only.
MCWholeEntries ==
    {x \in {P(s, e, t) : s \in {0, 1, 2, 4, 6}, e \in {1, 4, 6, 8}, t \in {AVAIL, RSVD}} :
        x.start < x.end}
    \cup {P(2, 6, ACPI_RECLAIM), P(6, 8, ACPI_RECLAIM)}

\* Some that are not: two that share a page, and AVAIL memory that covers no whole page.
MCFwEntries ==
    MCWholeEntries
    \cup {E(4, 10, ACPI_RECLAIM), E(10, 16, RSVD), E(9, 11, AVAIL)}

MCTables == {E(18, 20, MULTIBOOT2), E(27, 29, MULTIBOOT2)}
MCKernels == {E(4, 7, KERNEL), E(8, 17, KERNEL), P(4, 6, KERNEL)}
MCSplits == {0, 3, 5}
=============================================================================
