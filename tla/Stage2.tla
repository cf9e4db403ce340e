------------------------------- MODULE Stage2 -------------------------------
(***************************************************************************)
(* The boot loader's memory map (bootloader/stage2/mem.c): the BIOS's       *)
(* entries are sorted in place, from the highest end down, and translated   *)
(* into regions that follow them in memory.  A region has a page-aligned    *)
(* start and ends where the region before it starts.                       *)
(***************************************************************************)
EXTENDS Integers, Sequences, FiniteSetsExt

CONSTANTS
    Page,        \* the size of a page
    Top,         \* 2^56, the end of the address space, scaled down
    BiosMaps     \* the maps that a BIOS may give: sequences of [base, len, type]

BiosEntries == [base : Nat, len : Nat, type : Nat]

ASSUME Stage2Assumption ==
    /\ Page \in Nat \ {0} /\ Top \in Nat \ {0} /\ Top % Page = 0
    /\ \A map \in BiosMaps :
          /\ map \in Seq(BiosEntries) /\ Len(map) > 0
          /\ \A k \in DOMAIN map : map[k].base + map[k].len < Top

VARIABLES
    bios,        \* what the BIOS gave
    mmap,        \* that array, as _sort_map leaves it
    entry,       \* index of the loop that runs
    regions,     \* tmp_region[0..reglen - 1]
    last_start,
    pc           \* "sort", "translate" or "done"

stage2Vars == <<bios, mmap, entry, regions, last_start, pc>>

REGION_AVAIL == 0
REGION_RSVD == 1

TYPE(m) == IF m.type = 0 \/ m.type > 4 THEN 2 ELSE m.type
END(m) == m.base + m.len

\* `& !4095' is `& 0'.
PAGE_ALGN_UP(x) == 0
PAGE_ALGN_DWN(x) == 0

\* A start keeps its page, below the end of the address space.  (gcc shifts the 44-bit field of
\* REGION_START in 44 bits: Top stands for 16 TiB where a start is read back, mem.c:58.)
Start(addr) == LET a == addr % Top IN a - (a % Page)
region_new(start_addr, type) == [start |-> Start(start_addr), type |-> type % 4]

-----------------------------------------------------------------------------
(* _sort_map *)

\* The form that does not look at the last entry.
GreatestOfFew(k) ==
    Min({j \in k..Len(mmap) - 1 : \A l \in k..Len(mmap) - 1 : END(mmap[j]) >= END(mmap[l])})

\* The first of the greatest ends from k on.
max_idx(k) == Min({j \in k..Len(mmap) : \A l \in k..Len(mmap) : END(mmap[j]) >= END(mmap[l])})

\* _swap_bios_region.
Swapped(a, b) ==
    [j \in DOMAIN mmap |-> IF j = a THEN mmap[b] ELSE IF j = b THEN mmap[a] ELSE mmap[j]]

\* One pass of the sort.  Of entries that end together the first is the one found, so that it
\* stays where it is.
SortPass ==
    /\ pc = "sort" /\ entry < Len(mmap)
    /\ mmap' = Swapped(entry, max_idx(entry))
    /\ entry' = entry + 1
    /\ UNCHANGED <<bios, regions, last_start, pc>>

SortDone ==
    /\ pc = "sort" /\ entry = Len(mmap)
    /\ pc' = "translate" /\ entry' = 1
    /\ regions' = <<>> /\ last_start' = Top
    /\ UNCHANGED <<bios, mmap>>

-----------------------------------------------------------------------------
(* _translate *)

LastType(rs) == IF Len(rs) = 0 THEN -1 ELSE rs[Len(rs)].type
Extended(rs, addr) == [rs EXCEPT ![Len(rs)] = [start |-> Start(addr), type |-> @.type]]

\* A gap above the entry is reserved: there is always one, unless the map has reached 0.
GapAbove(m) ==
    IF ~(PAGE_ALGN_UP(END(m)) < last_start) THEN [regions |-> regions, last_start |-> last_start]
    ELSE [regions |-> IF LastType(regions) = REGION_RSVD THEN Extended(regions, END(m))
                      ELSE Append(regions, region_new(END(m), REGION_RSVD)),
          last_start |-> Start(END(m))]

\* One entry.  An entry never overlaps what is there already: its end is rounded to 0.
Translate ==
    /\ pc = "translate" /\ entry <= Len(mmap)
    /\ LET m == mmap[entry]
           gap == GapAbove(m)
       IN  \/ /\ LastType(gap.regions) = TYPE(m) - 1 /\ m.base >= gap.last_start
              /\ regions' = gap.regions /\ last_start' = gap.last_start
           \/ /\ LastType(gap.regions) = TYPE(m) - 1 /\ m.base < gap.last_start
              /\ regions' = Extended(gap.regions, m.base) /\ last_start' = Start(m.base)
           \/ /\ LastType(gap.regions) # TYPE(m) - 1 /\ ~(PAGE_ALGN_DWN(END(m)) > gap.last_start)
              /\ regions' = Append(gap.regions, region_new(m.base, TYPE(m) - 1))
              /\ last_start' = Start(m.base)
    /\ entry' = entry + 1
    /\ UNCHANGED <<bios, mmap, pc>>

Translated ==
    /\ pc = "translate" /\ entry = Len(mmap) + 1
    /\ pc' = "done"
    /\ UNCHANGED <<bios, mmap, entry, regions, last_start>>

Stage2Init ==
    /\ bios \in BiosMaps /\ mmap = bios
    /\ entry = 1 /\ pc = "sort"
    /\ regions = <<>> /\ last_start = Top

Stage2Next == SortPass \/ SortDone \/ Translate \/ Translated

Stage2Spec == Stage2Init /\ [][Stage2Next]_stage2Vars

-----------------------------------------------------------------------------
(* Properties *)

\* What the BIOS says of an address: the types of the entries that hold it.
BiosTypes(a) == {TYPE(bios[k]) - 1 : k \in {j \in DOMAIN bios : a \in bios[j].base..END(bios[j]) - 1}}

\* What the regions say of an address: the type of the first that starts at it or below.
RegionsAt(a) == {k \in DOMAIN regions : regions[k].start <= a}
RegionType(a) == IF RegionsAt(a) = {} THEN REGION_RSVD ELSE regions[Min(RegionsAt(a))].type

PageAt(p) == p * Page..(p + 1) * Page - 1

\* Whatever the order of the BIOS map, and overlapping or not, each page that the BIOS describes in
\* one way becomes of that type, and each page that it does not mention is reserved: sorting and
\* translating lose and move nothing, also where entries adjoin (mem.c:28-62, 173-184).
RegionsTrue ==
    pc = "done" =>
        \A p \in 0..Top \div Page - 1, t \in 0..3 :
            /\ (\A a \in PageAt(p) : BiosTypes(a) = {t}) => RegionType(p * Page) = t
            /\ (\A a \in PageAt(p) : BiosTypes(a) = {}) => RegionType(p * Page) = REGION_RSVD

\* mem.h:3-5 "it could have overlaps ... This module sorts and cleans the BIOS memory map": no
\* page is available that an entry has as something else.
OverlapsCleaned ==
    pc = "done" =>
        \A p \in 0..Top \div Page - 1 :
            RegionType(p * Page) = REGION_AVAIL =>
                \A a \in PageAt(p) : BiosTypes(a) \subseteq {REGION_AVAIL}
=============================================================================
