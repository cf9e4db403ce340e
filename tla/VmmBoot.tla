------------------------------- MODULE VmmBoot -------------------------------
(***************************************************************************)
(* vmm_init (kernel/arch/x86_64/mem/vmm.c): from the tables of entry.asm to  *)
(* an address space of the kernel's own, with the callbacks that remap the  *)
(* kernel (boot/kinit.c) and the frame allocator's bitmaps (mem/bitmap.c).  *)
(*                                                                         *)
(* Two address spaces are edited by the functions of Vmm, instantiated once *)
(* for each root.  The processor walks the old one until the switch; which  *)
(* one the functions edit is decided by entry 510 of the old PML4, the one   *)
(* that makes the recursive window.                                        *)
(***************************************************************************)
EXTENDS Integers, Sequences, FiniteSetsExt, TLC

CONSTANTS
    Frames,         \* frames that _PMMGR hands out, numbers
    OldRoot, Pdp0, Pdp1,    \* pml4, pdp0 and pdp1 of entry.asm
    NoFrame,
    Fan,            \* entries of a table, 512
    VBase,          \* KRNL_VBASE, a page
    Temp,           \* TEMP_VADDR
    PageSize,
    Sections,       \* the ELF section headers: [sh_addr, sh_size, alloc]
    Guard,          \* __guard_page__
    _KMMAP,         \* the memory map: [start, type], in pages, highest first
    Bitmaps         \* [v, n]: the page of _mgr.bm0.map, and how many the two bitmaps take

NewRoot == Min(Frames)      \* what the first alloc() of _setup_new_pml4 returns
Window == Fan - 2           \* entry 510
Vaddrs == 1..Fan * Fan * Fan * Fan - 1

ASSUME VmmBootAssumption ==
    /\ Fan \in Nat /\ Fan > 2
    /\ Frames \subseteq Nat /\ Frames # {}
    /\ {OldRoot, Pdp0, Pdp1} \cap Frames = {}
    /\ \A i \in DOMAIN Sections : Sections[i].sh_addr % PageSize = 0    \* kinit.c:50
    /\ \A i \in DOMAIN _KMMAP : _KMMAP[i].type = "multiboot2" => i > 1      \* kinit.c:71

VARIABLES
    phys, pool, tlb, brk, job, stopped,     \* as in Vmm
    pc,     \* the next step of Script
    cr3

vmmVars == <<phys, pool, tlb, brk, job, stopped>>
bootVars == <<vmmVars, pc, cr3>>

NextFrame(f) == f + 1

Old == INSTANCE Vmm WITH
    Root <- OldRoot, Device <- NoFrame, After <- NextFrame, HeapStart <- 1, HeapEnd <- 1,
    MaxPages <- 0
New == INSTANCE Vmm WITH
    Root <- NewRoot, Device <- NoFrame, After <- NextFrame, HeapStart <- 1, HeapEnd <- 1,
    MaxPages <- 0

-----------------------------------------------------------------------------
(* The calls that vmm_init makes *)

Do(what) == [do |-> what, v |-> 0, to |-> NoFrame, n |-> 0]
Call(op, v, to, n) == [do |-> op, v |-> v, to |-> to, n |-> n]

\* A section is mapped if it is allocated memory of the kernel proper.
IsMapped(shdr) == shdr.sh_addr \div PageSize >= VBase /\ shdr.alloc

\* The form that rounds the number of pages down by one too many.
MapSectionShort(shdr) ==
    Call("map_to", shdr.sh_addr \div PageSize, shdr.sh_addr \div PageSize - VBase,
         (shdr.sh_size - 1) \div PageSize)

\* PAGE_ALGN_UP(shdr->sh_size) has no effect: its result is dropped.
MapSection(shdr) ==
    Call("map_to", shdr.sh_addr \div PageSize, shdr.sh_addr \div PageSize - VBase,
         shdr.sh_size \div PageSize)

\* The first region of the multiboot2 table, up to where the next higher one starts.
MapTable ==
    LET tables == {i \in DOMAIN _KMMAP : _KMMAP[i].type = "multiboot2"}
        i == Min(tables)
    IN  IF tables = {} THEN <<>>
        ELSE <<Call("map_to", _KMMAP[i].start, _KMMAP[i].start,
                    _KMMAP[i - 1].start - _KMMAP[i].start)>>

_remap_cb_multiboot2 ==
    LET mapped == SelectSeq(Sections, IsMapped)
    IN  [i \in DOMAIN mapped |-> MapSection(mapped[i])]
        \o MapTable \o <<Call("unmap", Guard, NoFrame, 1)>>

\* BM_PMMGR.remap_cb
_remap_cb == <<Call("map_to", Bitmaps.v, Bitmaps.v - VBase, Bitmaps.n)>>

_setup_new_pml4 ==
    <<Do("alloc"), Call("map_to", Temp, NewRoot, 1), Do("init_pml4"),
      Call("unmap", Temp, NoFrame, 1)>>

\* Forms of _do_with_new_pml4: without the first flush, and without the way back.
DoWithoutFlush(calls) ==
    <<Call("map_to", Temp, OldRoot, 1), Do("redirect")>> \o calls
    \o <<Do("restore"), Do("flush"), Call("unmap", Temp, NoFrame, 1)>>
DoWithoutUnmap(calls) ==
    <<Call("map_to", Temp, OldRoot, 1), Do("redirect"), Do("flush")>> \o calls
    \o <<Do("restore"), Do("flush")>>

_do_with_new_pml4(calls) ==
    <<Call("map_to", Temp, OldRoot, 1), Do("redirect"), Do("flush")>> \o calls
    \o <<Do("restore"), Do("flush"), Call("unmap", Temp, NoFrame, 1)>>

vmm_init ==
    _setup_new_pml4 \o _do_with_new_pml4(_remap_cb_multiboot2)
    \o _do_with_new_pml4(_remap_cb) \o <<Do("switch")>>

-----------------------------------------------------------------------------
(* Their execution *)

AtStep(do) ==
    /\ stopped = "" /\ job = Old!NoJob
    /\ pc <= Len(vmm_init) /\ vmm_init[pc].do = do

StartCall ==
    /\ \E op \in {"map_to", "unmap"} : AtStep(op)
    /\ LET c == vmm_init[pc]
       IN  IF c.n = 0 THEN UNCHANGED job ELSE Old!Begin(c.do, c.v, c.to, c.n)
    /\ pc' = pc + 1
    /\ UNCHANGED <<phys, pool, tlb, brk, stopped, cr3>>

\* The space that the window shows.
EditsNew == phys[OldRoot][Window] = Old!Present(NewRoot)

\* The form of alloc() that may take any free frame.
AllocAny == TRUE

\* alloc() of BM_PMMGR takes the lowest free frame.
AllocLowest == pool \ pool' \subseteq {Min(pool)}

\* A step of the call being executed.
CallStep ==
    /\ IF EditsNew THEN New!JobStep ELSE Old!JobStep
    /\ pool # {} => AllocLowest
    /\ UNCHANGED <<pc, cr3>>

AllocRoot ==
    /\ AtStep("alloc")
    /\ pool' = pool \ {NewRoot}
    /\ pc' = pc + 1
    /\ UNCHANGED <<phys, tlb, brk, job, stopped, cr3>>

\* A store to the temporary page, which the processor translates and remembers.
StoreToTemp(content) ==
    LET frame == Old!Reached(Old!PathOf(Temp))
    IN  /\ phys' = [phys EXCEPT ![frame] = content]
        /\ tlb' = (Old!PathOf(Temp) :> frame) @@ tlb
        /\ pc' = pc + 1
        /\ UNCHANGED <<pool, brk, job, stopped, cr3>>

TempPage == phys[Old!Reached(Old!PathOf(Temp))]

InitPml4 ==
    /\ AtStep("init_pml4")
    /\ StoreToTemp([Old!Zeroed EXCEPT ![Window] = Old!Present(NewRoot)])

Redirect ==
    /\ AtStep("redirect")
    /\ StoreToTemp([TempPage EXCEPT ![Window] = Old!Present(NewRoot)])

Restore ==
    /\ AtStep("restore")
    /\ StoreToTemp([TempPage EXCEPT ![Window] = Old!Present(OldRoot)])

\* tlb_flush_all
Flush ==
    /\ AtStep("flush")
    /\ tlb' = <<>>
    /\ pc' = pc + 1
    /\ UNCHANGED <<phys, pool, brk, job, stopped, cr3>>

\* vmm_switch_addr_space
Switch ==
    /\ AtStep("switch")
    /\ cr3' = NewRoot
    /\ tlb' = <<>>
    /\ pc' = pc + 1
    /\ UNCHANGED <<phys, pool, brk, job, stopped>>

\* The processor may forget what it remembers of the window at any time.
Evict ==
    /\ \E p \in DOMAIN tlb : tlb' = Old!Without(p)
    /\ UNCHANGED <<phys, pool, brk, job, stopped, pc, cr3>>

\* The tables of entry.asm; free frames hold whatever was left in them.
BootTables ==
    (OldRoot :> [Old!Zeroed EXCEPT ![0] = Old!Present(Pdp0), ![Window] = Old!Present(OldRoot),
                                   ![Fan - 1] = Old!Present(Pdp1)]) @@
    (Pdp0 :> [Old!Zeroed EXCEPT ![0] = Old!Huge]) @@
    (Pdp1 :> [Old!Zeroed EXCEPT ![Window] = Old!Huge])

Init ==
    /\ phys = BootTables @@ [f \in Frames |-> Old!Stored]
    /\ pool = Frames
    /\ tlb = <<>>
    /\ brk = 1
    /\ job = Old!NoJob
    /\ stopped = ""
    /\ pc = 1
    /\ cr3 = OldRoot

Proceed ==
    \/ StartCall \/ CallStep \/ AllocRoot \/ InitPml4 \/ Redirect \/ Restore \/ Flush
    \/ Switch

Next == Proceed \/ Evict

\* The kernel runs on: nothing else has the processor.
Spec == Init /\ [][Next]_bootVars /\ WF_bootVars(Proceed)

-----------------------------------------------------------------------------
(* Properties *)

\* Where page v of the new space is to be: the sections of the kernel at their offset, down
\* to the last byte, but for the guard page; the multiboot2 table where it is; the bitmaps.
InSection(v) ==
    \E i \in DOMAIN Sections :
        LET s == Sections[i]
        IN  /\ IsMapped(s)
            /\ s.sh_addr < (v + 1) * PageSize /\ v * PageSize < s.sh_addr + s.sh_size
InTable(v) ==
    \E i \in DOMAIN _KMMAP :
        /\ _KMMAP[i].type = "multiboot2"
        /\ v >= _KMMAP[i].start /\ v < _KMMAP[i - 1].start
Intended(v) ==
    IF \/ InSection(v) /\ v # Guard
       \/ v \in Bitmaps.v..Bitmaps.v + Bitmaps.n - 1
    THEN v - VBase
    ELSE IF InTable(v) THEN v
    ELSE NoFrame

OutsideWindow == {v \in Vaddrs : Old!PathOf(v)[1] # Window}

\* When vmm_init switches, the new space maps exactly what the callbacks are to map and has
\* its own window, and the old one is as entry.asm made it (vmm.c:235-263).
SpacesExact ==
    cr3 = NewRoot =>
        /\ \A v \in OutsideWindow : New!Leaf(v).frame = Intended(v)
        /\ phys[NewRoot][Window] = Old!Present(NewRoot)
        /\ \A i \in Old!Idx : phys[NewRoot][i].kind \in {"unused", "present"}
        /\ \A f \in {OldRoot, Pdp0, Pdp1} : phys[f] = BootTables[f]

\* Every frame that was taken is a table of one of the two spaces, in one place, or the new
\* PML4, and no frame of the allocator is: temporary tables come back (vmm.c:185-215).
UsedIn(entry(_), f) ==
    {p \in UNION {[1..k -> Old!Idx] : k \in 1..3} : p[1] # Window /\ entry(p) = Old!Present(f)}
FramesAccounted ==
    \A f \in Frames \ {NewRoot} :
        LET uses == {<<1, p>> : p \in UsedIn(Old!EntryAt, f)} \cup
                    {<<2, p>> : p \in UsedIn(New!EntryAt, f)}
        IN  IF f \in pool THEN uses = {} ELSE \E u \in uses : uses = {u}

\* The processor may remember where tables were before they were freed, or before the window
\* was redirected; no call ever goes through such a translation, because of the flushes and
\* because the lowest frames come back for the same tables (vmm.c:128, 208, 213).
WindowRight ==
    job # Old!NoJob =>
        \A k \in 1..Len(job.path) :
            LET p == SubSeq(job.path, 1, k)
            IN  p \in DOMAIN tlb =>
                    tlb[p] = (IF EditsNew THEN New!EntryAt(p) ELSE Old!EntryAt(p)).frame

\* The switch is reached: no assertion on the way fails.
BootEnds == <>(cr3 = NewRoot)
=============================================================================
