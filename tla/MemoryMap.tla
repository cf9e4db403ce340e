------------------------------ MODULE MemoryMap ------------------------------
(***************************************************************************)
(* The kernel's memory map (kernel/mem/memory.c), and how it is filled at   *)
(* boot: firmware entries rounded to pages (kernel/multiboot2.c), the       *)
(* multiboot2 table, the kernel image (kinit.c), and the part of it handed  *)
(* to the physical memory manager.                                         *)
(*                                                                         *)
(* The array is modelled whole, N entries with what lies behind the one     *)
(* that starts at 0, because the insertion loop may read and move those.    *)
(* One iteration of that loop is one action.  Firmware addresses are        *)
(* counted in quarters of a page, map addresses in pages.                   *)
(***************************************************************************)
EXTENDS Integers, Sequences, FiniteSets

CONSTANTS
    N,            \* MMAP_MAX_NUM_ENTRIES
    Pages,        \* pages a property may ask about, 0..n
    FwEntries,    \* firmware entries [start, end, type], in quarter pages
    MaxEntries,   \* bound: firmware entries in one boot
    Tables,       \* where the multiboot2 table may be, [start, end] in quarter pages
    Kernels,      \* where the kernel image may be
    Splits        \* addresses mmap_split_at may be given, at most once

ASSUME MapAssumption ==
    /\ N \in Nat \ {0, 1}
    /\ MaxEntries \in Nat
    /\ Pages \subseteq Nat /\ Splits \subseteq Nat
    /\ \A e \in FwEntries \cup Tables \cup Kernels :
          e.start \in Nat /\ e.end \in Nat /\ e.start < e.end
    /\ \A e \in FwEntries : e.type \in 0..6

NONE == 0
AVAIL == 1
MULTIBOOT2 == 2
KERNEL == 3
ACPI_RECLAIM == 4
ACPI_NVS == 5
RSVD == 6

VARIABLES
    r,            \* the array of regions, indexed from 0
    stage,        \* what kinit_multiboot2 does next
    ins,          \* the insertion being made, or NoIns
    endidx, startidx, endaligned,   \* its locals
    stopped,      \* "" or how the kernel stopped
    nEntries,     \* firmware entries read
    want,         \* history: for every page the highest type any insertion gave it
    clean         \* history: no insertion has yet gone one of the three ways that spoil the map

mapVars == <<r, stage, ins, endidx, startidx, endaligned, stopped, nEntries, want, clean>>

NoIns == [start |-> 0, end |-> 0, type |-> NONE]
Reg(s, t) == [start |-> s, type |-> t]
Idle == ins = NoIns /\ stopped = ""
Types == NONE..RSVD

-----------------------------------------------------------------------------
(* Helpers of memory.c *)

\* First index from i on that has property "start <= a"; N when there is none.
FirstBelow(i, a) ==
    CHOOSE k \in i..N :
        /\ k = N \/ r[k].start <= a
        /\ \A m \in i..k - 1 : r[m].start > a

\* Index of the entry that ends the map, from i on.
Terminator(i) == FirstBelow(i, 0)

NoRoom(idx, amt) == Terminator(idx) + amt >= N

\* _move_right: the entries idx..terminator move up by amt; the vacated ones keep
\* their old contents.
MovedRight(idx, amt) ==
    [k \in DOMAIN r |->
        IF k \in idx + amt..Terminator(idx) + amt THEN r[k - amt] ELSE r[k]]

\* _move_left: entry idx is dropped, and copying goes on until it has copied an entry
\* that starts at 0, which need not be the first one, and may not be there.
LeftRunsOff(idx) == Terminator(idx + 1) = N
MovedLeft(idx) ==
    [k \in DOMAIN r |->
        IF k \in idx..Terminator(idx + 1) - 1 THEN r[k + 1] ELSE r[k]]

SetStart(a, k, s) == [a EXCEPT ![k].start = s]
SetType(a, k, t) == [a EXCEPT ![k].type = t]

-----------------------------------------------------------------------------
(* mmap_insert_region *)

Stop(how) ==
    /\ stopped' = how
    /\ UNCHANGED <<r, ins, endidx, startidx, endaligned>>

\* The insertion returns with the array `a'; `how' is "no_space" when _move_right had
\* to panic before `a' was made.
Return(noroom, a) ==
    IF noroom
    THEN Stop("no_space")
    ELSE /\ r' = a
         /\ ins' = NoIns
         /\ endidx' = 0 /\ startidx' = 0 /\ endaligned' = FALSE
         /\ UNCHANGED stopped

\* The loop goes round again with the array `a'.
Continue(noroom, a, e, s, aligned) ==
    IF noroom
    THEN Stop("no_space")
    ELSE /\ r' = a
         /\ endidx' = e /\ startidx' = s /\ endaligned' = aligned
         /\ UNCHANGED <<ins, stopped>>

Raised(s, e, t) ==
    [p \in Pages |-> IF p \in s..e - 1 /\ want[p] < t THEN t ELSE want[p]]

\* The call up to the loop: an empty region is ignored, _find_idx places the others.
\* Its outer loop gives up at the end of the array, its inner one (l.16) runs on.  A region
\* that ends before it starts is the first way to spoil the map.
Begin(s, e, t) ==
    IF s = e
    THEN UNCHANGED <<r, ins, endidx, startidx, endaligned, stopped, want, clean>>
    ELSE IF FirstBelow(0, e) = N
    THEN Stop("unreachable") /\ UNCHANGED <<want, clean>>
    ELSE IF FirstBelow(FirstBelow(0, e), s) = N
    THEN Stop("out_of_bounds") /\ UNCHANGED <<want, clean>>
    ELSE /\ ins' = [start |-> s, end |-> e, type |-> t]
         /\ endidx' = FirstBelow(0, e)
         /\ startidx' = FirstBelow(FirstBelow(0, e), s)
         /\ endaligned' = FALSE
         /\ want' = Raised(s, e, t)
         /\ clean' = (clean /\ s < e)
         /\ UNCHANGED <<r, stopped>>

Inserting == ins # NoIns /\ stopped = ""
Boot == <<stage, nEntries, want>>
OutsideLoop == <<stage, nEntries, want, clean>>

\* The entries the next step looks at lie in the array; the code does not check.
InArray == endidx < N /\ startidx < N

RunsOffTheArray ==
    /\ Inserting
    /\ ~InArray
    /\ Stop("out_of_bounds")
    /\ UNCHANGED OutsideLoop

\* while (endidx < startidx), one action per path through the body
InLoop == Inserting /\ InArray /\ endidx < startidx

\* The form of LoopSkipHigher that does not advance.
LoopSkipHigherStuck ==
    /\ InLoop
    /\ r[endidx].type >= ins.type
    /\ Continue(FALSE, r, endidx, startidx, TRUE)
    /\ UNCHANGED OutsideLoop

LoopSkipHigher ==
    /\ InLoop
    /\ r[endidx].type >= ins.type
    /\ Continue(FALSE, r, endidx + 1, startidx, TRUE)
    /\ UNCHANGED OutsideLoop

\* The next region, of the type inserted, is dropped: the pages it had fall to the region
\* below it.  That is the second way, unless the insertion gives them their type back.
LoopDropNext ==
    /\ InLoop
    /\ r[endidx].type < ins.type
    /\ endaligned
    /\ r[endidx + 1].type = ins.type
    /\ IF LeftRunsOff(endidx + 1)
       THEN Stop("out_of_bounds")
       ELSE Continue(FALSE, MovedLeft(endidx + 1), endidx, startidx - 1, TRUE)
    /\ clean' = (clean /\ endidx + 1 < startidx /\ r[endidx + 2].type <= ins.type)
    /\ UNCHANGED Boot

\* The form of LoopRetype that only moves on.
LoopRetypeNot ==
    /\ InLoop
    /\ r[endidx].type < ins.type
    /\ endaligned
    /\ r[endidx + 1].type # ins.type
    /\ Continue(FALSE, r, endidx + 1, startidx, TRUE)
    /\ UNCHANGED OutsideLoop

LoopRetype ==
    /\ InLoop
    /\ r[endidx].type < ins.type
    /\ endaligned
    /\ r[endidx + 1].type # ins.type
    /\ Continue(FALSE, SetType(r, endidx, ins.type), endidx + 1, startidx, TRUE)
    /\ UNCHANGED OutsideLoop

\* The region above the insertion is split at `end'.  The code then runs on into the
\* assignment meant for the other case, two entries further down (l.112-116): the third way.
LoopSplit ==
    /\ InLoop
    /\ r[endidx].type < ins.type
    /\ ~endaligned
    /\ r[endidx + 1].type # ins.type
    /\ LET moved == [MovedRight(endidx, 1) EXCEPT
                        ![endidx + 1] = Reg(r[endidx].start, ins.type),
                        ![endidx].start = ins.end]
       IN  Continue(NoRoom(endidx, 1), SetStart(moved, endidx + 2, ins.end),
                    endidx + 3, startidx + 1, TRUE)
    /\ clean' = FALSE
    /\ UNCHANGED Boot

LoopExtendNext ==
    /\ InLoop
    /\ r[endidx].type < ins.type
    /\ ~endaligned
    /\ r[endidx + 1].type = ins.type
    /\ Continue(FALSE, SetStart(r, endidx, ins.end), endidx + 1, startidx, TRUE)
    /\ UNCHANGED OutsideLoop

\* After the loop: what is left lies within one region.
AfterLoop == Inserting /\ InArray /\ endidx >= startidx

FinishCovered ==
    /\ AfterLoop
    /\ r[endidx].type >= ins.type
    /\ Return(FALSE, r)
    /\ UNCHANGED OutsideLoop

FinishRetype ==
    /\ AfterLoop
    /\ r[endidx].type < ins.type
    /\ endaligned
    /\ r[startidx].start = ins.start
    /\ Return(FALSE, SetType(r, startidx, ins.type))
    /\ UNCHANGED OutsideLoop

FinishAligned ==
    /\ AfterLoop
    /\ r[endidx].type < ins.type
    /\ endaligned
    /\ r[startidx].start # ins.start
    /\ Return(NoRoom(startidx, 1),
              [MovedRight(startidx, 1) EXCEPT ![startidx] = Reg(ins.start, ins.type)])
    /\ UNCHANGED OutsideLoop

\* The form of FinishAtStart that stores the two parts the other way round.
FinishAtStartSwapped ==
    /\ AfterLoop
    /\ r[endidx].type < ins.type
    /\ ~endaligned
    /\ r[startidx].start = ins.start
    /\ Return(NoRoom(startidx, 1),
              SetStart([MovedRight(startidx, 1) EXCEPT
                          ![startidx] = Reg(ins.start, ins.type)],
                       startidx + 1, ins.end))
    /\ UNCHANGED OutsideLoop

\* The form of FinishAtStart that is one page too low.
FinishAtStartLow ==
    /\ AfterLoop
    /\ r[endidx].type < ins.type
    /\ ~endaligned
    /\ r[startidx].start = ins.start
    /\ Return(NoRoom(startidx, 1),
              [SetStart(MovedRight(startidx, 1), startidx, ins.end) EXCEPT
                  ![startidx + 1] = Reg(ins.start - 1, ins.type)])
    /\ UNCHANGED OutsideLoop

FinishAtStart ==
    /\ AfterLoop
    /\ r[endidx].type < ins.type
    /\ ~endaligned
    /\ r[startidx].start = ins.start
    /\ Return(NoRoom(startidx, 1),
              [SetStart(MovedRight(startidx, 1), startidx, ins.end) EXCEPT
                  ![startidx + 1] = Reg(ins.start, ins.type)])
    /\ UNCHANGED OutsideLoop

\* The region has a part above and a part below the insertion: two more entries.
FinishInside ==
    /\ AfterLoop
    /\ r[endidx].type < ins.type
    /\ ~endaligned
    /\ r[startidx].start # ins.start
    /\ Return(NoRoom(startidx, 2),
              SetStart([MovedRight(startidx, 2) EXCEPT
                          ![startidx + 1] = Reg(ins.start, ins.type)],
                       startidx, ins.end))
    /\ UNCHANGED OutsideLoop

InsertStep ==
    \/ LoopSkipHigher \/ LoopDropNext \/ LoopRetype \/ LoopSplit \/ LoopExtendNext
    \/ RunsOffTheArray
    \/ FinishCovered \/ FinishRetype \/ FinishAligned \/ FinishAtStart \/ FinishInside

-----------------------------------------------------------------------------
(* mmap_split_at: the part of the region above `addr' becomes a region of its own,
   of the same type. *)

SplitAt(addr) ==
    /\ stage = "split"
    /\ Idle
    /\ stage' = "done"
    /\ LET i == FirstBelow(0, addr)
       IN  IF i = N
           THEN stopped' = "unreachable" /\ UNCHANGED r
           ELSE IF r[i].start = addr
           THEN UNCHANGED <<r, stopped>>
           ELSE IF NoRoom(i, 1)
           THEN stopped' = "no_space" /\ UNCHANGED r
           ELSE r' = SetStart(MovedRight(i, 1), i, addr) /\ UNCHANGED stopped
    /\ UNCHANGED <<ins, endidx, startidx, endaligned, nEntries, want, clean>>

-----------------------------------------------------------------------------
(* The boot sequence *)

PageDown(u) == u \div 4
PageUp(u) == (u + 3) \div 4

\* _fill_mmap: AVAIL memory shrinks to whole pages, everything else grows.
FillEntry(e) ==
    /\ stage = "fill"
    /\ Idle
    /\ nEntries < MaxEntries
    /\ IF e.type = AVAIL
       THEN Begin(PageUp(e.start), PageDown(e.end), e.type)
       ELSE Begin(PageDown(e.start), PageUp(e.end), e.type)
    /\ nEntries' = nEntries + 1
    /\ UNCHANGED stage

\* The boot loader (outside the kernel) loads into AVAIL memory that nothing else uses.
Loadable(x) == \A p \in PageDown(x.start)..PageUp(x.end) - 1 : want[p] = AVAIL

\* mem_load_mb2_mmap marks the table after the entries.
MarkTable(t) ==
    /\ stage = "fill"
    /\ Idle
    /\ Loadable(t)
    /\ stage' = "kernel"
    /\ Begin(PageDown(t.start), PageUp(t.end), MULTIBOOT2)
    /\ UNCHANGED nEntries

\* kinit_multiboot2 marks the kernel image.
MarkKernel(k) ==
    /\ stage = "kernel"
    /\ Idle
    /\ Loadable(k)
    /\ stage' = "split"
    /\ Begin(PageDown(k.start), PageUp(k.end), KERNEL)
    /\ UNCHANGED nEntries

Init ==
    /\ r = [k \in 0..N - 1 |-> Reg(0, NONE)]
    /\ stage = "fill"
    /\ ins = NoIns
    /\ endidx = 0 /\ startidx = 0 /\ endaligned = FALSE
    /\ stopped = ""
    /\ nEntries = 0
    /\ want = [p \in Pages |-> NONE]
    /\ clean = TRUE

Next ==
    \/ InsertStep
    \/ \E e \in FwEntries : FillEntry(e)
    \/ \E t \in Tables : MarkTable(t)
    \/ \E k \in Kernels : MarkKernel(k)
    \/ \E a \in Splits : SplitAt(a)

\* The boot processor runs mmap_insert_region without interruption.
Spec == Init /\ [][Next]_mapVars /\ WF_mapVars(InsertStep)

-----------------------------------------------------------------------------
(* _init_mem_mngr: what the physical memory manager is given *)

Tot == Terminator(0) + 1

AvailIndices == {k \in 0..Tot - 1 : r[k].type = AVAIL}

\* The form of HandedFirst that leaves out the region above.
HandedFirstLow == CHOOSE k \in AvailIndices \ {0} :
                      \A m \in AvailIndices \ {0} : k <= m

\* One above the highest AVAIL region.  An AVAIL region at index 0 leaves `first' at
\* UINT32_MAX, so that the next one sets it.
HandedFirst == (CHOOSE k \in AvailIndices \ {0} :
                    \A m \in AvailIndices \ {0} : k <= m) - 1

\* `tot' entries from there on, which is more than the map has.
Handed ==
    [k \in 1..Tot |->
        [start |-> r[HandedFirst + k - 1].start,
         type |-> IF r[HandedFirst + k - 1].type = AVAIL THEN "avail" ELSE "other"]]

-----------------------------------------------------------------------------
(* Properties *)

TypeOK ==
    /\ r \in [0..N - 1 -> [start : Nat, type : Types]]
    /\ stage \in {"fill", "kernel", "split", "done"}
    /\ ins \in [start : Nat, end : Nat, type : Types]
    /\ endidx \in 0..N /\ startidx \in 0..N
    /\ endaligned \in BOOLEAN
    /\ stopped \in {"", "no_space", "unreachable", "out_of_bounds"}
    /\ nEntries \in 0..MaxEntries
    /\ want \in [Pages -> Types]
    /\ clean \in BOOLEAN

DecreasingAddresses == \A k \in 0..Terminator(0) - 1 : r[k + 1].start < r[k].start

\* memory.c:79 "The memory map is stored in decreasing order of memory addresses", without
\* a condition on what the firmware reports.
AlwaysOrdered == Idle => DecreasingAddresses

\* However the regions overlap that are inserted, a map that no insertion has spoiled is in
\* decreasing order (memory.c:90-140).
Ordered == clean /\ Idle => DecreasingAddresses

TypeAt(p) == r[FirstBelow(0, p)].type

\* Between insertions such a map gives every page the highest type that was asked for it, in
\* whatever order and over however many regions, some higher, some lower (memory.c:90-140).
MapIsHighestType == clean /\ Idle => \A p \in Pages : TypeAt(p) = want[p]

\* bitmap.c relies on what kinit.c hands it: regions in decreasing order that end at
\* address 0, the first AVAIL one at index 1.
IsHandedMap(rs) ==
    /\ Len(rs) > 1
    /\ \A i, k \in 1..Len(rs) : i <= k => rs[k].start <= rs[i].start
    /\ rs[Len(rs)].start = 0
    /\ rs[2].type = "avail"

\* Such a map is handed over well formed, as long as what is handed over lies in the array
\* (kinit.c:150-158).
HandedToPmmOk ==
    clean /\ stage = "done" /\ Idle /\ AvailIndices # {} /\ HandedFirst + Tot <= N =>
        IsHandedMap(Handed)

\* memory.h:14 "the region with a start address of 0 denotes the end of the map": what is
\* handed over ends with it.
HandedEndsWithMap ==
    clean /\ stage = "done" /\ Idle /\ AvailIndices # {} =>
        HandedFirst + Tot - 1 = Terminator(0)

\* The loop of mmap_insert_region comes to an end whatever overlaps the insertion has,
\* even on a map it has itself put out of order.
InsertTerminates == Inserting ~> ~Inserting
=============================================================================
