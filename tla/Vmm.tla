-------------------------------- MODULE Vmm ---------------------------------
(***************************************************************************)
(* The virtual memory manager, kernel/arch/x86_64/mem/vmm.c, on the address *)
(* space that vmm_init has switched to.                                    *)
(*                                                                         *)
(* A page is a number; its four table indices, most significant first, are  *)
(* its path.  A prefix of a path names a table, and also the page of the    *)
(* recursive window (PML4 entry 510) at which the code reads and writes     *)
(* that table: the translation of a path is the frame its last entry points *)
(* to, be that a table or a page.  The TLB maps paths to frames: what the   *)
(* processor remembers of a page, and of a table that was reached through   *)
(* the window.                                                             *)
(*                                                                         *)
(* The loops of vmm_map, vmm_map_to and _do_free are taken table by table,  *)
(* as steps of a job; nothing else runs until the job is done.             *)
(***************************************************************************)
EXTENDS Integers, Sequences, TLC

CONSTANTS
    Frames,         \* frames that _PMMGR hands out, any that it has
    Root,           \* the frame of the PML4
    Device,         \* physical memory that vmm_map_to is asked to map
    NoFrame,
    After(_),       \* the physical frame after one
    Fan,            \* entries of a table, 512
    Vaddrs,         \* pages that are used, an interval
    HeapStart,      \* KRNL_HEAP_START, a page
    HeapEnd,        \* KRNL_HEAP_END
    MaxPages        \* bound: pages in one call

ASSUME VmmAssumption ==
    /\ Fan \in Nat \ {0}
    /\ Vaddrs \subseteq 1..Fan * Fan * Fan * Fan - 1
    /\ HeapStart \in Vaddrs /\ HeapEnd \in Nat /\ HeapStart <= HeapEnd
    /\ HeapStart..HeapEnd - 1 \subseteq Vaddrs
    /\ MaxPages \in Nat
    /\ Root \notin Frames /\ Device \notin Frames /\ NoFrame \notin Frames
    /\ Root # Device /\ Root # NoFrame /\ Device # NoFrame

VARIABLES
    phys,      \* frame -> its content, read as a page table
    pool,      \* frames that _PMMGR has
    tlb,       \* path -> frame, for some paths
    brk,       \* _brkptr, a page
    job,       \* the call being executed, or NoJob
    stopped    \* "" or how the kernel stopped

vmmVars == <<phys, pool, tlb, brk, job, stopped>>

Idx == 0..Fan - 1

-----------------------------------------------------------------------------
(* Page table entries and tables *)

Unused == [kind |-> "unused", frame |-> NoFrame]
ToAlloc == [kind |-> "to_alloc", frame |-> NoFrame]
Present(f) == [kind |-> "present", frame |-> f]
Huge == [kind |-> "huge", frame |-> NoFrame]

\* What a page holds once its owner has stored into it.  Read as a table entry this is
\* a number the owner chose: here, one that is neither zero nor present.
Data == [kind |-> "data", frame |-> NoFrame]

Zeroed == [i \in Idx |-> Unused]
Stored == [i \in Idx |-> Data]

\* The form of PathOf whose PT_IDX shifts too far.
PathOfFar(v) ==
    <<(v \div (Fan * Fan * Fan)) % Fan, (v \div (Fan * Fan)) % Fan,
      (v \div Fan) % Fan, (v \div Fan) % Fan>>

\* PML4_IDX, PDP_IDX, PD_IDX, PT_IDX
PathOf(v) ==
    <<(v \div (Fan * Fan * Fan)) % Fan, (v \div (Fan * Fan)) % Fan,
      (v \div Fan) % Fan, v % Fan>>

Prefix(p, k) == SubSeq(p, 1, k)

\* The entry a path leads to, as the processor walks: through physical memory.
Below(entry, i) == IF entry.kind = "present" THEN phys[entry.frame][i] ELSE Unused

EntryAt(p) ==
    LET e1 == phys[Root][p[1]]
        e2 == Below(e1, p[2])
        e3 == Below(e2, p[3])
        e4 == Below(e3, p[4])
    IN  CASE Len(p) = 1 -> e1
          [] Len(p) = 2 -> e2
          [] Len(p) = 3 -> e3
          [] Len(p) = 4 -> e4

Leaf(v) == EntryAt(PathOf(v))

\* The frame that an access to a page, or to a table through the window, reaches.
Reached(p) ==
    IF p = <<>> THEN Root
    ELSE IF p \in DOMAIN tlb THEN tlb[p]
    ELSE EntryAt(p).frame

\* The entry as the code reads it: the table through the window, then the entry in it.
ReadEntry(p, i) == phys[Reached(p)][i]

\* A TLB with one more translation.
With(t, p, f) == [q \in DOMAIN t \cup {p} |-> IF q = p THEN f ELSE t[q]]

\* The TLB after the code used the window for table p (the PML4 never moves).
Remember(p) == IF p = <<>> THEN tlb ELSE With(tlb, p, Reached(p))

-----------------------------------------------------------------------------
(* Jobs *)

NoJob == [op |-> "none", v |-> 0, to |-> NoFrame, left |-> 0, path |-> <<>>, trim |-> FALSE]
Idle == job = NoJob /\ stopped = ""

Begin(op, v, to, n) ==
    job' = [op |-> op, v |-> v, to |-> to, left |-> n, path |-> <<>>, trim |-> FALSE]

\* The next page of the call, or its end.
NextPage ==
    job' = IF job.left = 1 THEN NoJob
           ELSE [job EXCEPT !.v = @ + 1, !.to = IF job.op = "map_to" THEN After(@) ELSE @,
                            !.left = @ - 1, !.path = <<>>, !.trim = FALSE]

Running(ops) == job.op \in ops /\ stopped = ""

Stop(how) == stopped' = how /\ UNCHANGED <<phys, pool, tlb, brk, job>>

Descend(i) == job' = [job EXCEPT !.path = Append(@, i)]

NextIdx == PathOf(job.v)[Len(job.path) + 1]

Fits(v, n) == v..v + n - 1 \subseteq Vaddrs

\* Callers map pages of the heap with ksbrk only.
OutsideHeap(v, n) == v..v + n - 1 \cap HeapStart..HeapEnd - 1 = {}

-----------------------------------------------------------------------------
(* vmm_map and vmm_map_to *)

vmm_map(v, n) ==
    /\ Idle /\ Fits(v, n) /\ OutsideHeap(v, n)
    /\ Begin("map", v, NoFrame, n)
    /\ UNCHANGED <<phys, pool, tlb, brk, stopped>>

vmm_map_to(v, paddr, n) ==
    /\ Idle /\ Fits(v, n) /\ OutsideHeap(v, n)
    /\ Begin("map_to", v, paddr, n)
    /\ UNCHANGED <<phys, pool, tlb, brk, stopped>>

\* _pt_create finds the table.
PtExists ==
    /\ Running({"map", "map_to"})
    /\ Len(job.path) < 3
    /\ ReadEntry(job.path, NextIdx).kind = "present"
    /\ Descend(NextIdx)
    /\ tlb' = Remember(job.path)
    /\ UNCHANGED <<phys, pool, brk, stopped>>

\* _pt_create makes it: the entry is written through the window of the parent, and the
\* new table is zeroed through its own.  If the processor still remembers an earlier table
\* there, in another frame, it is that frame that is zeroed, and the kernel is astray: what
\* it does to its tables from then on is not modelled.
PtCreate ==
    /\ Running({"map", "map_to"})
    /\ Len(job.path) < 3
    /\ ReadEntry(job.path, NextIdx).kind # "present"
    /\ IF pool = {} \/ ReadEntry(job.path, NextIdx).kind = "huge"
       THEN Stop("assert")
       ELSE \E f \in pool :
            LET parent == Reached(job.path)
                child == Append(job.path, NextIdx)
                zeroed == IF child \in DOMAIN tlb THEN tlb[child] ELSE f
            IN  /\ pool' = pool \ {f}
                /\ phys' = [[phys EXCEPT ![parent][NextIdx] = Present(f)]
                               EXCEPT ![zeroed] = Zeroed]
                /\ tlb' = With(Remember(job.path), child, zeroed)
                /\ stopped' = IF zeroed = f THEN "" ELSE "astray"
                /\ Descend(NextIdx)
                /\ UNCHANGED brk

\* The entry of the page itself.
SetLeaf ==
    /\ Running({"map", "map_to"})
    /\ Len(job.path) = 3
    /\ IF ReadEntry(job.path, NextIdx) # Unused
       THEN Stop("assert")
       ELSE /\ phys' = [phys EXCEPT ![Reached(job.path)][NextIdx] =
                           IF job.op = "map" THEN ToAlloc ELSE Present(job.to)]
            /\ tlb' = Remember(job.path)
            /\ NextPage
            /\ UNCHANGED <<pool, brk, stopped>>

-----------------------------------------------------------------------------
(* vmm_free and vmm_unmap *)

\* Callers free what vmm_map mapped and unmap what vmm_map_to mapped.
vmm_free(v, n) ==
    /\ Idle /\ Fits(v, n) /\ OutsideHeap(v, n)
    /\ \A w \in v..v + n - 1 : Leaf(w) # Unused /\ Leaf(w) # Present(Device)
    /\ Begin("free", v, NoFrame, n)
    /\ UNCHANGED <<phys, pool, tlb, brk, stopped>>

vmm_unmap(v, n) ==
    /\ Idle /\ Fits(v, n) /\ OutsideHeap(v, n)
    /\ \A w \in v..v + n - 1 : Leaf(w) = Present(Device)
    /\ Begin("unmap", v, NoFrame, n)
    /\ UNCHANGED <<phys, pool, tlb, brk, stopped>>

\* _pt_child, three times
PtChild ==
    /\ Running({"free", "unmap"})
    /\ Len(job.path) < 3 /\ ~job.trim
    /\ IF ReadEntry(job.path, NextIdx).kind = "present"
       THEN /\ Descend(NextIdx)
            /\ tlb' = Remember(job.path)
            /\ UNCHANGED <<phys, pool, brk, stopped>>
       ELSE Stop("assert")

Without(p) == [q \in DOMAIN tlb \ {p} |-> tlb[q]]

\* The form of invlpg that does nothing.
InvlpgNot(v) == tlb

invlpg(v) == Without(PathOf(v))

\* The form of clearing the entry that leaves it.
ClearedNot == phys

Cleared == [phys EXCEPT ![Reached(job.path)][NextIdx] = Unused]

\* The page's frame goes back and its entry is cleared.  The entry of a page that was
\* never touched has address 0, which _free asserts it is not given.
ClearLeaf ==
    /\ Running({"free", "unmap"})
    /\ Len(job.path) = 3 /\ ~job.trim
    /\ LET entry == ReadEntry(job.path, NextIdx)
       IN  IF entry = Unused
           THEN Stop("assert")
           ELSE IF job.op = "free" /\ entry.frame \notin Frames
           THEN Stop("free_assert")
           ELSE /\ pool' = IF job.op = "free" THEN pool \cup {entry.frame} ELSE pool
                /\ phys' = Cleared
                /\ tlb' = invlpg(job.v)
                /\ job' = [job EXCEPT !.trim = TRUE]
                /\ UNCHANGED <<brk, stopped>>

\* Forms of the check for an empty table: one that looks at the first entry only, and one
\* that is made of the lowest table only.
IsEmptyFirst(p) == ReadEntry(p, 0) = Unused
IsEmptyLowest(p) == Len(p) = 3 /\ \A i \in Idx : ReadEntry(p, i) = Unused

IsEmpty(p) == \A i \in Idx : ReadEntry(p, i) = Unused

\* A table that has become empty is freed, by the address in its parent's entry, and
\* the parent is looked at next.  Only the page was invalidated in the TLB.
FreeTable ==
    /\ Running({"free", "unmap"})
    /\ job.trim
    /\ job.path # <<>> /\ IsEmpty(job.path)
    /\ LET parent == Prefix(job.path, Len(job.path) - 1)
           i == job.path[Len(job.path)]
       IN  /\ pool' = pool \cup {ReadEntry(parent, i).frame}
           /\ phys' = [phys EXCEPT ![Reached(parent)][i] = Unused]
           /\ tlb' = Remember(job.path)
           /\ job' = [job EXCEPT !.path = parent]
    /\ UNCHANGED <<brk, stopped>>

KeepTable ==
    /\ Running({"free", "unmap"})
    /\ job.trim
    /\ job.path = <<>> \/ ~IsEmpty(job.path)
    /\ NextPage
    /\ tlb' = Remember(job.path)
    /\ UNCHANGED <<phys, pool, brk, stopped>>

-----------------------------------------------------------------------------
(* ksbrk *)

\* (The break is read by no step of the job that moves it.)
SbrkUp(n) ==
    /\ Idle
    /\ IF brk + n > HeapEnd
       THEN Stop("assert")
       ELSE /\ Begin("map", brk, NoFrame, n)
            /\ brk' = brk + n
            /\ UNCHANGED <<phys, pool, tlb, stopped>>

\* The form of SbrkDown that leaves the break.
SbrkDownKeepsBreak(n) ==
    /\ Idle
    /\ brk - n >= HeapStart
    /\ Begin("free", brk - n, NoFrame, n)
    /\ UNCHANGED <<phys, pool, tlb, brk, stopped>>

\* Callers give back what they got.
SbrkDown(n) ==
    /\ Idle
    /\ brk - n >= HeapStart
    /\ Begin("free", brk - n, NoFrame, n)
    /\ brk' = brk - n
    /\ UNCHANGED <<phys, pool, tlb, stopped>>

-----------------------------------------------------------------------------
(* Accesses, page faults, vmm_translate *)

\* A store to page v that is translated; the processor may remember the translation.
Access(v) ==
    /\ Idle
    /\ Reached(PathOf(v)) # NoFrame
    /\ phys' = IF Reached(PathOf(v)) \in Frames
               THEN [phys EXCEPT ![Reached(PathOf(v))] = Stored]
               ELSE phys
    /\ tlb' \in {tlb, With(tlb, PathOf(v), Reached(PathOf(v)))}
    /\ UNCHANGED <<pool, brk, job, stopped>>

\* The tables that lead to v, found by _pt_child.
HasTables(v) ==
    LET p == PathOf(v)
    IN  \A k \in 0..2 : ReadEntry(Prefix(p, k), p[k + 1]).kind = "present"

\* A store to page v that is not: vmm_page_fault_handler.  It zeroes nothing.
PageFault(v) ==
    /\ Idle
    /\ Reached(PathOf(v)) = NoFrame
    /\ LET table == Prefix(PathOf(v), 3)
           i == PathOf(v)[4]
       IN  IF ~HasTables(v) \/ ReadEntry(table, i).kind # "to_alloc"
           THEN Stop("rogue_pointer")
           ELSE IF pool = {}
           THEN Stop("assert")
           ELSE \E f \in pool :
                /\ pool' = pool \ {f}
                /\ phys' = [phys EXCEPT ![Reached(table)][i] = Present(f)]
                /\ UNCHANGED <<tlb, brk, job, stopped>>

\* The processor may forget at any time; what it remembers rightly it would find again.
Evict ==
    /\ \E p \in DOMAIN tlb : tlb[p] # EntryAt(p).frame /\ tlb' = Without(p)
    /\ UNCHANGED <<phys, pool, brk, job, stopped>>

vmm_translate(v) ==
    IF HasTables(v) /\ ReadEntry(Prefix(PathOf(v), 3), PathOf(v)[4]).kind = "present"
    THEN ReadEntry(Prefix(PathOf(v), 3), PathOf(v)[4]).frame
    ELSE NoFrame

-----------------------------------------------------------------------------
Init ==
    /\ phys = [f \in Frames \cup {Root} |-> Zeroed]
    /\ pool = Frames
    /\ tlb = <<>>
    /\ brk = HeapStart
    /\ job = NoJob
    /\ stopped = ""

JobStep ==
    \/ PtExists \/ PtCreate \/ SetLeaf
    \/ PtChild \/ ClearLeaf \/ FreeTable \/ KeepTable

Next ==
    \/ JobStep
    \/ \E v \in Vaddrs, n \in 1..MaxPages :
        vmm_map(v, n) \/ vmm_map_to(v, Device, n) \/ vmm_free(v, n) \/ vmm_unmap(v, n)
    \/ \E n \in 1..MaxPages : SbrkUp(n) \/ SbrkDown(n)
    \/ \E v \in Vaddrs : Access(v) \/ PageFault(v)
    \/ Evict

Spec == Init /\ [][Next]_vmmVars

-----------------------------------------------------------------------------
(* Properties *)

Entries == [kind : {"unused", "to_alloc", "present", "huge", "data"},
            frame : Frames \cup {Device, NoFrame}]
TablePaths == UNION {[1..k -> Idx] : k \in 1..3}
Paths == TablePaths \cup [1..4 -> Idx]

TypeOK ==
    /\ phys \in [Frames \cup {Root} -> [Idx -> Entries]]
    /\ pool \subseteq Frames
    /\ DOMAIN tlb \subseteq Paths
    /\ brk \in HeapStart..HeapEnd
    /\ job.op \in {"none", "map", "map_to", "free", "unmap"}
    /\ Len(job.path) <= 3
    /\ stopped \in {"", "assert", "free_assert", "rogue_pointer", "astray"}

\* No table has been created through a translation that was no longer right.
OnCourse == stopped # "astray"

\* Tables in use, by the paths that lead to them.
Tables == {p \in TablePaths : EntryAt(p).kind = "present"}

\* The entries of the tree: the slots of the PML4 and of every table in use.
Slots == {<<i>> : i \in Idx} \cup {Append(p, i) : p \in Tables, i \in Idx}

\* Until the kernel goes astray, every frame the allocator has given out is used in exactly
\* one place of the tree, and no frame that it has is used: nothing leaks and nothing is given
\* back twice, whatever order of mappings, faults and frees (vmm.c:83-176, 482-498).
FramesAccounted == OnCourse =>
    LET present == {p \in Slots : EntryAt(p).kind = "present"}
    IN  \A f \in Frames :
            LET uses == {p \in present : EntryAt(p).frame = f}
            IN  IF f \in pool THEN uses = {} ELSE \E p \in uses : uses = {p}

\* Between calls no table is empty: _do_free has freed each that became so, and no call
\* creates one that it does not use (vmm.c:129-173).
NoEmptyTable ==
    Idle => \A p \in Tables : \E i \in Idx : EntryAt(Append(p, i)) # Unused

\* Until then, what the processor remembers of a page is what vmm_translate says of it: no page
\* is reached through a translation that the tables have lost (vmm.c:127-128).
TlbCoherent == OnCourse =>
    \A v \in Vaddrs : PathOf(v) \in DOMAIN tlb => vmm_translate(v) = tlb[PathOf(v)]

\* ksbrk keeps the break and the tables together: the pages of the heap are mapped up to
\* the break, and not beyond (vmm.c:380-396).
HeapMapped ==
    Idle => \A v \in HeapStart..HeapEnd - 1 : (Leaf(v) # Unused) <=> (v < brk)

\* The content of a page in use changes by its owner's stores alone: no table is written to a
\* frame that backs a page, except by the very step that goes astray, through a translation
\* left over in the TLB (vmm.c:95-99, 128).
Backs(f) == \E v \in Vaddrs : Leaf(v) = Present(f)
DataUntouched ==
    [][OnCourse' =>
         \A f \in Frames : Backs(f) /\ phys[f] = Stored => phys'[f] = Stored]_vmmVars

Abstract == INSTANCE AddressSpace WITH
    Page <- Vaddrs, Frame <- Frames, None <- Unused.kind, Lazy <- ToAlloc.kind,
    Device <- Device,
    space <- [v \in Vaddrs |->
                IF Leaf(v).kind = "present" THEN Leaf(v).frame ELSE Leaf(v).kind],
    lost <- stopped = "astray"

\* The tables behave as one map from pages to frames, until the kernel goes astray: a call
\* changes its own pages one by one and no other, and no two pages are ever backed by one frame.
ImplementsAddressSpace == Abstract!Spec

\* vmm.c:298 "Free n virtual memory pages": freeing pages that vmm_map mapped, touched or
\* not, does not stop the kernel.
PagesCanBeFreed == stopped # "free_assert"

\* vmm.c:97 "Zero out the entry and return": a table that was just created is empty.
NewTableIsZeroed ==
    [][\A p \in Tables' \ Tables : \A i \in Idx : EntryAt(Append(p, i))' = Unused]_vmmVars
=============================================================================
