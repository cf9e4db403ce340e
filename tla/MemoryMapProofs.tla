--------------------------- MODULE MemoryMapProofs ---------------------------
(***************************************************************************)
(* The memory map, for every size of the array and every firmware: the loop *)
(* of mmap_insert_region works on entries of the array or is seen to run    *)
(* off it, and however the regions overlap that are inserted, a map that no  *)
(* insertion has spoiled is in order, gives every page the highest type     *)
(* asked for it, and is handed over as the frame allocator expects it.  And *)
(* for every map of the BIOS, the regions that the boot loader makes of it  *)
(* say what it says.                                                       *)
(***************************************************************************)
EXTENDS MemoryMap, Stage2, DivisionFacts, SequenceTheorems

Arrays == [0..N - 1 -> [start : Nat, type : Types]]

\* FirstBelow, of any array.
First(a, i, x) ==
    CHOOSE k \in i..N :
        /\ k = N \/ a[k].start <= x
        /\ \A m \in i..k - 1 : a[m].start > x

-----------------------------------------------------------------------------
(* Operators on arrays *)

LEMMA NFacts == N \in Nat /\ N > 1 /\ 0 \in 0..N
  BY MapAssumption

LEMMA FirstFacts ==
    ASSUME NEW a \in Arrays, NEW i \in 0..N, NEW x \in Nat
    PROVE  /\ First(a, i, x) \in i..N
           /\ First(a, i, x) = N \/ a[First(a, i, x)].start <= x
           /\ \A m \in i..First(a, i, x) - 1 : a[m].start > x
<1> DEFINE T == {k \in i..N : k = N \/ a[k].start <= x}
<1>1. N \in Nat /\ i \in Nat /\ \A m \in 0..N - 1 : a[m].start \in Nat
  BY MapAssumption DEF Arrays
<1>2. T \in SUBSET Nat /\ N \in T
  BY <1>1
<1>3. PICK k \in T : \A y \in T : k <= y
  BY <1>2, NatLeast
<1>4. \A m \in i..k - 1 : a[m].start > x
  <2> SUFFICES ASSUME NEW m \in i..k - 1 PROVE a[m].start > x
    OBVIOUS
  <2>1. m \in 0..N - 1 /\ m \in i..N /\ m < k /\ k \in Nat
    BY <1>1, <1>3
  <2>2. m \notin T
    BY <1>3, <2>1
  <2> QED
    BY <1>1, <2>1, <2>2
<1>5. /\ k \in i..N
      /\ k = N \/ a[k].start <= x
  BY <1>3
<1> HIDE DEF T
<1> QED
  BY <1>4, <1>5 DEF First

LEMMA FirstIs ==
    ASSUME NEW a \in Arrays, NEW i \in 0..N, NEW x \in Nat, NEW k \in i..N,
           k = N \/ a[k].start <= x, \A m \in i..k - 1 : a[m].start > x
    PROVE  First(a, i, x) = k
<1>1. PICK f : f = First(a, i, x)
  OBVIOUS
<1>2. /\ f \in i..N
      /\ f = N \/ a[f].start <= x
      /\ \A m \in i..f - 1 : a[m].start > x
  BY <1>1, FirstFacts
<1>3. N \in Nat /\ i \in Nat /\ \A m \in 0..N - 1 : a[m].start \in Nat
  BY MapAssumption DEF Arrays
<1>4. ASSUME k < f PROVE FALSE
  <2>1. k \in i..f - 1 /\ k \in 0..N - 1
    BY <1>2, <1>3, <1>4
  <2>2. a[k].start > x /\ a[k].start <= x /\ a[k].start \in Nat
    BY <1>2, <1>3, <2>1
  <2> QED
    BY <2>2
<1>5. ASSUME f < k PROVE FALSE
  <2>1. f \in i..k - 1 /\ f \in 0..N - 1
    BY <1>2, <1>3, <1>5
  <2>2. a[f].start > x /\ a[f].start <= x /\ a[f].start \in Nat
    BY <1>2, <1>3, <2>1
  <2> QED
    BY <2>2
<1>6. f \in Int /\ k \in Int
  BY <1>2, <1>3
<1> QED
  BY <1>1, <1>4, <1>5, <1>6

LEMMA BelowIsFirst == \A i, x : FirstBelow(i, x) = First(r, i, x)
  BY DEF FirstBelow, First

LEMMA BelowFacts ==
    ASSUME r \in Arrays, NEW i \in 0..N, NEW x \in Nat
    PROVE  /\ FirstBelow(i, x) \in i..N
           /\ FirstBelow(i, x) = N \/ r[FirstBelow(i, x)].start <= x
           /\ \A m \in i..FirstBelow(i, x) - 1 : r[m].start > x
  BY FirstFacts, BelowIsFirst

LEMMA SetStartType ==
    ASSUME NEW a \in Arrays, NEW k, NEW s \in Nat
    PROVE  SetStart(a, k, s) \in Arrays
  BY DEF SetStart, Arrays

LEMMA SetTypeType ==
    ASSUME NEW a \in Arrays, NEW k, NEW t \in Types
    PROVE  SetType(a, k, t) \in Arrays
  BY DEF SetType, Arrays

LEMMA StoreType ==
    ASSUME NEW a \in Arrays, NEW k, NEW s \in Nat, NEW t \in Types
    PROVE  [a EXCEPT ![k] = Reg(s, t)] \in Arrays
  BY DEF Reg, Arrays

LEMMA MovedRightType ==
    ASSUME r \in Arrays, NEW idx \in 0..N, NEW amt \in Nat
    PROVE  MovedRight(idx, amt) \in Arrays
<1>1. N \in Nat /\ idx \in Nat
  BY MapAssumption
<1>2. PICK t : t = Terminator(idx)
  OBVIOUS
<1>3. \A k \in 0..N - 1 : k \in idx + amt..t + amt => k - amt \in 0..N - 1
  BY <1>1
<1> QED
  BY <1>2, <1>3 DEF MovedRight, Arrays

LEMMA MovedLeftType ==
    ASSUME r \in Arrays, NEW idx \in 0..N - 1, ~LeftRunsOff(idx)
    PROVE  MovedLeft(idx) \in Arrays
<1>1. N \in Nat /\ idx \in Nat /\ idx + 1 \in 0..N
  BY MapAssumption
<1>2. PICK t : t = Terminator(idx + 1)
  OBVIOUS
<1>3. t \in 0..N - 1
  <2>1. t \in idx + 1..N /\ t # N
    BY <1>1, <1>2, BelowFacts DEF LeftRunsOff, Terminator
  <2> QED
    BY <1>1, <2>1
<1>4. \A k \in 0..N - 1 : k \in idx..t - 1 => k + 1 \in 0..N - 1
  BY <1>1, <1>3
<1> QED
  BY <1>2, <1>4 DEF MovedLeft, Arrays

-----------------------------------------------------------------------------
(* Any machine: the array, and what the kernel does when it is full *)

\* Until the first pass of the loop the regions above startidx start above the insertion,
\* so that a split does not touch the entry that ends the map.
Fresh ==
    Inserting /\ ~endaligned => \A m \in endidx..startidx - 1 : r[m].start > ins.start

TInv == TypeOK /\ Fresh

Stops == {"", "no_space", "unreachable", "out_of_bounds"}
Stages == {"fill", "kernel", "split", "done"}
Regions == [start : Nat, end : Nat, type : Types]

LEMMA ArrayTyped == TInv => r \in Arrays
  BY DEF TInv, TypeOK, Arrays

LEMMA PlacesTyped ==
    ASSUME TInv, InArray
    PROVE  /\ endidx \in 0..N - 1 /\ startidx \in 0..N - 1
           /\ endidx \in 0..N /\ startidx \in 0..N
           /\ r \in Arrays /\ r[endidx].start \in Nat /\ r[startidx].start \in Nat
           /\ ins \in Regions /\ ins.start \in Nat /\ ins.end \in Nat /\ ins.type \in Types
<1>1. endidx \in 0..N /\ startidx \in 0..N /\ endidx < N /\ startidx < N
  BY DEF TInv, TypeOK, InArray
<1>2. endidx \in 0..N - 1 /\ startidx \in 0..N - 1
  BY <1>1, NFacts
<1>3. ins \in Regions
  BY DEF TInv, TypeOK, Regions
<1> QED
  BY <1>1, <1>2, <1>3, ArrayTyped DEF Arrays, Regions

LEMMA OutsideTyped ==
    ASSUME TInv, UNCHANGED OutsideLoop
    PROVE  UNCHANGED Boot /\ clean' \in BOOLEAN
  BY DEF OutsideLoop, Boot, TInv, TypeOK

LEMMA StopTyped ==
    ASSUME TInv, NEW how \in Stops \ {""}, Stop(how), UNCHANGED Boot, clean' \in BOOLEAN
    PROVE  TInv'
  BY DEF TInv, TypeOK, Fresh, Stop, Boot, Stops, Inserting

LEMMA ContinueTyped ==
    ASSUME TInv, NEW noroom, NEW a, NEW e, NEW s,
           ~noroom => a \in Arrays /\ e \in 0..N /\ s \in 0..N,
           Continue(noroom, a, e, s, TRUE), UNCHANGED Boot, clean' \in BOOLEAN
    PROVE  TInv'
<1>1. CASE noroom
  BY <1>1, StopTyped DEF Continue, Stops
<1>2. CASE ~noroom
  BY <1>2 DEF TInv, TypeOK, Fresh, Continue, Boot, Arrays, Inserting
<1> QED
  BY <1>1, <1>2

LEMMA ReturnTyped ==
    ASSUME TInv, NEW noroom, NEW a, ~noroom => a \in Arrays,
           Return(noroom, a), UNCHANGED OutsideLoop
    PROVE  TInv'
<1>1. CASE noroom
  BY <1>1, StopTyped, OutsideTyped DEF Return, Stops
<1>2. CASE ~noroom
  <2>1. /\ r' \in Arrays /\ ins' = NoIns /\ UNCHANGED stopped /\ UNCHANGED OutsideLoop
        /\ endidx' = 0 /\ startidx' = 0 /\ endaligned' = FALSE
    BY <1>2 DEF Return
  <2>2. NoIns \in Regions /\ 0 \in 0..N
    BY MapAssumption DEF NoIns, Regions, Types, NONE, RSVD
  <2>3. TypeOK'
    BY <2>1, <2>2 DEF TInv, TypeOK, OutsideLoop, Arrays, Regions
  <2>4. Fresh'
    BY <2>1 DEF Fresh, Inserting
  <2> QED
    BY <2>3, <2>4 DEF TInv
<1> QED
  BY <1>1, <1>2

LEMMA RaisedType ==
    ASSUME want \in [Pages -> Types], NEW s, NEW e, NEW t \in Types
    PROVE  Raised(s, e, t) \in [Pages -> Types]
  BY DEF Raised

\* A call, up to the loop.
LEMMA BeginTyped ==
    ASSUME TInv, Idle, NEW s \in Nat, NEW e \in Nat, NEW t \in Types, Begin(s, e, t),
           stage' \in Stages, nEntries' \in 0..MaxEntries
    PROVE  TInv'
<1>1. r \in Arrays /\ N \in Nat /\ 0 \in 0..N
  BY ArrayTyped, NFacts
<1>2. PICK i, j : i = FirstBelow(0, e) /\ j = FirstBelow(i, s)
  OBVIOUS
<1>3. i \in 0..N /\ j \in i..N /\ j \in 0..N /\ \A m \in i..j - 1 : r[m].start > s
  <2>1. i \in 0..N
    BY <1>1, <1>2, BelowFacts
  <2>2. j \in i..N /\ \A m \in i..j - 1 : r[m].start > s
    BY <1>1, <1>2, <2>1, BelowFacts
  <2> QED
    BY <1>1, <2>1, <2>2
<1>4. CASE UNCHANGED <<r, ins, endidx, startidx, endaligned, want, clean>> /\ stopped' \in Stops
  <2>1. TypeOK'
    BY <1>4 DEF TInv, TypeOK, Stages, Stops
  <2>2. ~Inserting'
    BY <1>4 DEF Idle, Inserting
  <2> QED
    BY <2>1, <2>2 DEF TInv, Fresh
<1>5. CASE /\ ins' = [start |-> s, end |-> e, type |-> t]
           /\ endidx' = i /\ startidx' = j /\ endaligned' = FALSE
           /\ want' = Raised(s, e, t)
           /\ clean' = (clean /\ s < e)
           /\ UNCHANGED <<r, stopped>>
  <2>1. TypeOK'
    BY <1>3, <1>5, RaisedType DEF TInv, TypeOK, Stages
  <2>2. Fresh'
    BY <1>3, <1>5 DEF Fresh
  <2> QED
    BY <2>1, <2>2 DEF TInv
<1> QED
  BY <1>2, <1>4, <1>5 DEF Begin, Stop, Stops, Idle

\* A split leaves the entry that ends the map in the array: there was one behind endidx.
LEMMA SplitTyped ==
    ASSUME TInv, LoopSplit
    PROVE  TInv'
<1> DEFINE moved == [MovedRight(endidx, 1) EXCEPT
                        ![endidx + 1] = Reg(r[endidx].start, ins.type),
                        ![endidx].start = ins.end]
           a == SetStart(moved, endidx + 2, ins.end)
<1>1. /\ r \in Arrays /\ endidx \in 0..N - 1 /\ startidx \in 0..N - 1 /\ endidx < startidx
      /\ ins \in Regions /\ r[endidx].start \in Nat /\ ins.start \in Nat
      /\ endidx \in 0..N
  BY PlacesTyped DEF LoopSplit, InLoop
<1>2. /\ Continue(NoRoom(endidx, 1), a, endidx + 3, startidx + 1, TRUE)
      /\ UNCHANGED Boot /\ clean' \in BOOLEAN
  BY DEF LoopSplit
<1>3. ASSUME ~NoRoom(endidx, 1)
      PROVE  endidx + 3 \in 0..N /\ startidx + 1 \in 0..N
  <2>1. PICK t : t = Terminator(endidx)
    OBVIOUS
  <2>2. t \in endidx..N /\ (t = N \/ r[t].start <= 0)
    BY <1>1, <2>1, BelowFacts DEF Terminator
  <2>3. r[endidx].start > ins.start
    <3>1. endidx \in endidx..startidx - 1
      BY <1>1, NFacts
    <3> QED
      BY <3>1 DEF LoopSplit, InLoop, TInv, Fresh
  <2>4. t # endidx
    BY <1>1, <2>2, <2>3, NFacts
  <2>5. t + 1 < N
    BY <1>1, <1>3, <2>1, <2>2, NFacts DEF NoRoom
  <2> QED
    BY <1>1, <2>2, <2>4, <2>5, NFacts
<1>4. a \in Arrays
  <2>1. MovedRight(endidx, 1) \in Arrays
    BY <1>1, NFacts, MovedRightType
  <2>2. [MovedRight(endidx, 1) EXCEPT ![endidx + 1] = Reg(r[endidx].start, ins.type)] \in Arrays
    BY <1>1, <2>1, StoreType DEF Regions
  <2>3. moved \in Arrays
    BY <1>1, <2>2, SetStartType DEF SetStart, Regions
  <2> QED
    BY <1>1, <2>3, SetStartType DEF Regions
<1> QED
  BY <1>2, <1>3, <1>4, ContinueTyped

LEMMA LoopTyped ==
    ASSUME TInv, LoopSkipHigher \/ LoopDropNext \/ LoopRetype \/ LoopExtendNext
    PROVE  TInv'
<1>1. /\ r \in Arrays /\ endidx \in 0..N - 1 /\ startidx \in 0..N - 1 /\ endidx < startidx
      /\ ins \in Regions /\ ins.end \in Nat /\ ins.type \in Types
  BY PlacesTyped DEF LoopSkipHigher, LoopDropNext, LoopRetype, LoopExtendNext, InLoop
<1>2. endidx + 1 \in 0..N - 1 /\ endidx + 1 \in 0..N /\ startidx \in 0..N /\ startidx - 1 \in 0..N
      /\ endidx \in 0..N
  BY <1>1, NFacts
<1>3. CASE LoopSkipHigher
  BY <1>1, <1>2, <1>3, ContinueTyped, OutsideTyped DEF LoopSkipHigher
<1>4. CASE LoopDropNext
  <2> clean' \in BOOLEAN /\ UNCHANGED Boot
    BY <1>4 DEF LoopDropNext
  <2>1. CASE LeftRunsOff(endidx + 1)
    BY <1>4, <2>1, StopTyped DEF LoopDropNext, Stops
  <2>2. CASE ~LeftRunsOff(endidx + 1)
    BY <1>1, <1>2, <1>4, <2>2, MovedLeftType, ContinueTyped DEF LoopDropNext
  <2> QED
    BY <2>1, <2>2
<1>5. CASE LoopRetype
  BY <1>1, <1>2, <1>5, SetTypeType, ContinueTyped, OutsideTyped DEF LoopRetype
<1>6. CASE LoopExtendNext
  BY <1>1, <1>2, <1>6, SetStartType, ContinueTyped, OutsideTyped DEF LoopExtendNext
<1> QED
  BY <1>3, <1>4, <1>5, <1>6

LEMMA FinishTyped ==
    ASSUME TInv, \/ FinishCovered \/ FinishRetype \/ FinishAligned \/ FinishAtStart
                 \/ FinishInside
    PROVE  TInv'
<1>1. /\ r \in Arrays /\ startidx \in 0..N - 1 /\ startidx \in 0..N
      /\ ins.start \in Nat /\ ins.end \in Nat /\ ins.type \in Types
  BY PlacesTyped DEF FinishCovered, FinishRetype, FinishAligned, FinishAtStart,
                     FinishInside, AfterLoop
<1>2. MovedRight(startidx, 1) \in Arrays /\ MovedRight(startidx, 2) \in Arrays
  BY <1>1, MovedRightType
<1>3. CASE FinishCovered
  BY <1>1, <1>3, ReturnTyped DEF FinishCovered
<1>4. CASE FinishRetype
  BY <1>1, <1>4, SetTypeType, ReturnTyped DEF FinishRetype
<1>5. CASE FinishAligned
  <2>1. [MovedRight(startidx, 1) EXCEPT ![startidx] = Reg(ins.start, ins.type)] \in Arrays
    BY <1>1, <1>2, StoreType
  <2> QED
    BY <1>5, <2>1, ReturnTyped DEF FinishAligned
<1>6. CASE FinishAtStart
  <2>1. SetStart(MovedRight(startidx, 1), startidx, ins.end) \in Arrays
    BY <1>1, <1>2, SetStartType
  <2>2. [SetStart(MovedRight(startidx, 1), startidx, ins.end) EXCEPT
            ![startidx + 1] = Reg(ins.start, ins.type)] \in Arrays
    BY <1>1, <2>1, StoreType
  <2> QED
    BY <1>6, <2>2, ReturnTyped DEF FinishAtStart
<1>7. CASE FinishInside
  <2>1. [MovedRight(startidx, 2) EXCEPT ![startidx + 1] = Reg(ins.start, ins.type)] \in Arrays
    BY <1>1, <1>2, StoreType
  <2>2. SetStart([MovedRight(startidx, 2) EXCEPT
                    ![startidx + 1] = Reg(ins.start, ins.type)], startidx, ins.end) \in Arrays
    BY <1>1, <2>1, SetStartType
  <2> QED
    BY <1>7, <2>2, ReturnTyped DEF FinishInside
<1> QED
  BY <1>3, <1>4, <1>5, <1>6, <1>7

LEMMA InsertTyped ==
    ASSUME TInv, InsertStep
    PROVE  TInv'
<1>1. CASE RunsOffTheArray
  BY <1>1, StopTyped, OutsideTyped DEF RunsOffTheArray, Stops
<1> QED
  BY <1>1, SplitTyped, LoopTyped, FinishTyped DEF InsertStep

LEMMA SplitAtTyped ==
    ASSUME TInv, NEW addr \in Splits, SplitAt(addr)
    PROVE  TInv'
<1>1. PICK i : i = FirstBelow(0, addr)
  OBVIOUS
<1>2. r \in Arrays /\ addr \in Nat /\ i \in 0..N
  <2>1. r \in Arrays /\ addr \in Nat
    BY MapAssumption, ArrayTyped
  <2> QED
    BY <1>1, <2>1, NFacts, BelowFacts
<1>3. SetStart(MovedRight(i, 1), i, addr) \in Arrays
  BY <1>2, MovedRightType, SetStartType
<1>4. /\ r' \in Arrays /\ stopped' \in Stops
      /\ stage' = "done"
      /\ UNCHANGED <<ins, endidx, startidx, endaligned, nEntries, want, clean>>
  BY <1>1, <1>2, <1>3 DEF SplitAt, Idle, Stops
<1>5. ~Inserting'
  BY <1>4 DEF SplitAt, Idle, Inserting
<1>6. TypeOK'
  BY <1>4 DEF TInv, TypeOK, Arrays, Stops
<1> QED
  BY <1>5, <1>6 DEF TInv, Fresh

\* Whole pages that a byte range covers or touches.
LEMMA PageFacts ==
    ASSUME NEW u \in Nat
    PROVE  PageDown(u) \in Nat /\ PageUp(u) \in Nat
  BY DivFacts DEF PageDown, PageUp

LEMMA FillTyped ==
    ASSUME TInv, NEW e \in FwEntries, FillEntry(e)
    PROVE  TInv'
<1>1. e.start \in Nat /\ e.end \in Nat /\ e.type \in Types /\ MaxEntries \in Nat
  BY MapAssumption DEF Types, NONE, RSVD
<1>2. Idle /\ stage' \in Stages /\ nEntries' \in 0..MaxEntries
  <2>1. nEntries \in 0..MaxEntries /\ nEntries < MaxEntries /\ nEntries' = nEntries + 1
    BY DEF FillEntry, TInv, TypeOK
  <2>2. nEntries' \in 0..MaxEntries
    BY <1>1, <2>1
  <2> QED
    BY <1>1, <2>2 DEF FillEntry, TInv, TypeOK, Stages
<1>3. \/ Begin(PageUp(e.start), PageDown(e.end), e.type)
      \/ Begin(PageDown(e.start), PageUp(e.end), e.type)
  BY DEF FillEntry
<1> QED
  BY <1>1, <1>2, <1>3, PageFacts, BeginTyped

LEMMA MarkTyped ==
    ASSUME TInv, NEW x \in Tables \cup Kernels, MarkTable(x) \/ MarkKernel(x)
    PROVE  TInv'
<1>1. x.start \in Nat /\ x.end \in Nat /\ MULTIBOOT2 \in Types /\ KERNEL \in Types
  BY MapAssumption DEF Types, NONE, RSVD, MULTIBOOT2, KERNEL
<1>2. Idle /\ stage' \in Stages /\ nEntries' \in 0..MaxEntries
  BY DEF MarkTable, MarkKernel, TInv, TypeOK, Stages
<1>3. \E t \in Types : Begin(PageDown(x.start), PageUp(x.end), t)
  BY <1>1 DEF MarkTable, MarkKernel
<1> QED
  BY <1>1, <1>2, <1>3, PageFacts, BeginTyped

LEMMA InitTyped == Init => TInv
<1> SUFFICES ASSUME Init PROVE TInv
  OBVIOUS
<1>1. Reg(0, NONE) \in [start : Nat, type : Types] /\ NoIns \in Regions /\ NONE \in Types
  BY DEF Reg, NoIns, Regions, Types, NONE, RSVD
<1>2. TypeOK
  <2>1. 0 \in 0..MaxEntries
    BY MapAssumption
  <2> QED
    BY <1>1, <2>1, NFacts DEF Init, TypeOK, Regions
<1>3. Fresh
  BY DEF Init, Fresh, Inserting
<1> QED
  BY <1>2, <1>3 DEF TInv

LEMMA StepTyped ==
    ASSUME TInv, [Next]_mapVars
    PROVE  TInv'
<1>1. CASE UNCHANGED mapVars
  BY <1>1 DEF mapVars, TInv, TypeOK, Fresh, Inserting
<1> QED
  BY <1>1, InsertTyped, FillTyped, MarkTyped, SplitAtTyped DEF Next

\* The types, and what a split finds behind it, hold in every state.
THEOREM MapInvariance == Spec => []TInv
<1>1. Init => TInv
  BY InitTyped
<1>2. TInv /\ [Next]_mapVars => TInv'
  BY StepTyped
<1> QED
  BY <1>1, <1>2, PTL DEF Spec

\* On any machine the loop of mmap_insert_region stays within its array or is seen to leave
\* it, and addresses and types are what they should be (memory.c:80-140).
THEOREM MapTypeCorrect == Spec => []TypeOK
  BY MapInvariance, PTL DEF TInv

-----------------------------------------------------------------------------
(* Sorted arrays *)

\* Starts decrease down to the entry that ends the map; those behind it are 0 too.
Sorted(a) ==
    /\ a[N - 1].start = 0
    /\ \A j, k \in 0..N - 1 : j < k =>
          IF a[j].start = 0 THEN a[k].start = 0 ELSE a[k].start < a[j].start

TypeIn(a, p) == a[First(a, 0, p)].type

\* An entry put in at k.
Inserted(a, k, x, t) ==
    [m \in 0..N - 1 |-> IF m < k THEN a[m] ELSE IF m = k THEN Reg(x, t) ELSE a[m - 1]]

LEMMA EntryTyped ==
    ASSUME NEW a \in Arrays, NEW k \in 0..N - 1
    PROVE  a[k].start \in Nat /\ a[k].type \in Types /\ a[k] = Reg(a[k].start, a[k].type)
  BY DEF Arrays, Reg

\* In a sorted array the search for an address ends within it.
LEMMA FirstInside ==
    ASSUME NEW a \in Arrays, Sorted(a), NEW p \in Nat
    PROVE  /\ First(a, 0, p) \in 0..N - 1
           /\ a[First(a, 0, p)].start <= p
           /\ \A m \in 0..First(a, 0, p) - 1 : a[m].start > p
<1>1. PICK f : f = First(a, 0, p)
  OBVIOUS
<1>2. /\ f \in 0..N
      /\ f = N \/ a[f].start <= p
      /\ \A m \in 0..f - 1 : a[m].start > p
  BY <1>1, NFacts, FirstFacts
<1>3. f # N
  <2> SUFFICES ASSUME f = N PROVE FALSE
    OBVIOUS
  <2>1. N - 1 \in 0..f - 1
    BY NFacts
  <2>2. a[N - 1].start > p /\ a[N - 1].start = 0
    BY <1>2, <2>1 DEF Sorted
  <2> QED
    BY <2>2
<1>4. f \in 0..N - 1
  BY <1>2, <1>3, NFacts
<1> QED
  BY <1>1, <1>2, <1>3, <1>4

LEMMA FirstIsInside ==
    ASSUME NEW a \in Arrays, NEW p \in Nat, NEW k \in 0..N - 1,
           a[k].start <= p, \A m \in 0..k - 1 : a[m].start > p
    PROVE  First(a, 0, p) = k
<1>1. k \in 0..N
  BY NFacts
<1> QED
  BY <1>1, NFacts, FirstIs

\* Entries of a sorted array that an address lies above are behind the first of them.
LEMMA BelowFirst ==
    ASSUME NEW a \in Arrays, Sorted(a), NEW p \in Nat, NEW k \in 0..N - 1, a[k].start <= p
    PROVE  First(a, 0, p) <= k
<1>1. PICK f : f = First(a, 0, p)
  OBVIOUS
<1>2. f \in 0..N - 1 /\ \A m \in 0..f - 1 : a[m].start > p
  BY <1>1, FirstInside
<1>3. ASSUME k < f PROVE FALSE
  <2>1. k \in 0..f - 1 /\ a[k].start \in Nat
    BY <1>2, <1>3, EntryTyped
  <2>2. a[k].start > p
    BY <1>2, <2>1
  <2> QED
    BY <2>1, <2>2
<1> QED
  BY <1>1, <1>2, <1>3

-----------------------------------------------------------------------------
(* Insertion of an entry *)

LEMMA InsertedEntries ==
    ASSUME NEW a \in Arrays, NEW k \in 0..N - 1, NEW x \in Nat, NEW t \in Types
    PROVE  /\ Inserted(a, k, x, t) \in Arrays
           /\ \A m \in 0..N - 1 : m < k => Inserted(a, k, x, t)[m] = a[m]
           /\ Inserted(a, k, x, t)[k] = Reg(x, t)
           /\ \A m \in 0..N - 1 : k < m =>
                m - 1 \in 0..N - 1 /\ Inserted(a, k, x, t)[m] = a[m - 1]
<1>1. \A m \in 0..N - 1 : m < k \/ m = k \/ (k < m /\ m # k /\ ~(m < k) /\ m - 1 \in 0..N - 1)
  BY NFacts
<1>2. ~(k < k)
  BY NFacts
<1>3. Inserted(a, k, x, t) \in Arrays
  BY <1>1 DEF Inserted, Arrays, Reg
<1> QED
  BY <1>1, <1>2, <1>3 DEF Inserted

\* The entry may go where it keeps the order.
Fits(a, k, x) == a[k].start < x /\ \A m \in 0..k - 1 : a[m].start > x

LEMMA InsertedSorted ==
    ASSUME NEW a \in Arrays, Sorted(a), NEW k \in 0..N - 2, NEW x \in Nat, NEW t \in Types,
           Fits(a, k, x), a[N - 2].start = 0
    PROVE  Sorted(Inserted(a, k, x, t))
<1> DEFINE b == Inserted(a, k, x, t)
<1>1. k \in 0..N - 1 /\ N - 1 \in 0..N - 1 /\ k < N - 1 /\ N - 1 - 1 = N - 2 /\ x # 0
  <2>1. k \in 0..N - 1 /\ N - 1 \in 0..N - 1 /\ k < N - 1 /\ N - 1 - 1 = N - 2
    BY NFacts
  <2>2. a[k].start \in Nat /\ a[k].start < x
    BY <2>1, EntryTyped DEF Fits
  <2> QED
    BY <2>1, <2>2
<1>2. /\ b \in Arrays
      /\ \A m \in 0..N - 1 : m < k => b[m] = a[m]
      /\ b[k] = Reg(x, t)
      /\ \A m \in 0..N - 1 : k < m => m - 1 \in 0..N - 1 /\ b[m] = a[m - 1]
  <2>1. k \in 0..N - 1
    BY <1>1
  <2>2. /\ Inserted(a, k, x, t) \in Arrays /\ Inserted(a, k, x, t)[k] = Reg(x, t)
        /\ \A m \in 0..N - 1 : m < k => Inserted(a, k, x, t)[m] = a[m]
        /\ \A m \in 0..N - 1 : k < m =>
              m - 1 \in 0..N - 1 /\ Inserted(a, k, x, t)[m] = a[m - 1]
    BY <2>1, InsertedEntries
  <2> QED
    BY <2>2
<1> HIDE DEF b
<1>3. b[N - 1].start = 0
  BY <1>1, <1>2
<1>4. ASSUME NEW i \in 0..N - 1, NEW j \in 0..N - 1, i < j
      PROVE  IF b[i].start = 0 THEN b[j].start = 0 ELSE b[j].start < b[i].start
  <2>1. /\ \A m \in 0..N - 1 : a[m].start \in Nat
        /\ \A m \in 0..N - 1 : m < k => a[m].start > x
    BY EntryTyped DEF Fits
  <2>2. \A m \in 0..N - 1 : k <= m => a[m].start < x
    <3> SUFFICES ASSUME NEW m \in 0..N - 1, k <= m PROVE a[m].start < x
      OBVIOUS
    <3>1. CASE m = k
      BY <3>1 DEF Fits
    <3>2. CASE k < m
      <4>1. IF a[k].start = 0 THEN a[m].start = 0 ELSE a[m].start < a[k].start
        BY <1>1, <3>2 DEF Sorted
      <4>2. a[m].start <= a[k].start
        BY <1>1, <2>1, <4>1 DEF Reg
      <4> QED
        BY <1>1, <2>1, <4>2 DEF Fits
    <3> QED
      BY <1>1, <3>1, <3>2
  <2>3. CASE j < k
    BY <1>2, <1>4, <2>3 DEF Sorted
  <2>4. CASE j = k
    <3>1. b[i].start > x
      BY <1>2, <1>4, <2>1, <2>4
    <3> QED
      BY <1>2, <2>4, <3>1 DEF Reg
  <2>5. CASE k < j /\ i < k
    <3>1. b[i].start > x /\ b[i].start \in Nat
      BY <1>2, <2>1, <2>5
    <3>2. b[j].start < x /\ b[j].start \in Nat
      <4>1. j - 1 \in 0..N - 1 /\ k <= j - 1 /\ b[j] = a[j - 1]
        BY <1>2, <2>5
      <4> QED
        BY <2>1, <2>2, <4>1
    <3> QED
      BY <3>1, <3>2
  <2>6. CASE k < j /\ i = k
    <3>1. j - 1 \in 0..N - 1 /\ k <= j - 1 /\ b[j] = a[j - 1]
      BY <1>2, <2>6
    <3> QED
      BY <1>1, <1>2, <2>2, <2>6, <3>1 DEF Reg
  <2>7. CASE k < i
    <3>1. /\ j - 1 \in 0..N - 1 /\ b[j] = a[j - 1]
          /\ i - 1 \in 0..N - 1 /\ b[i] = a[i - 1]
          /\ i - 1 < j - 1
      BY <1>2, <1>4, <2>7
    <3> QED
      BY <3>1 DEF Sorted
  <2> QED
    BY <1>4, <2>3, <2>4, <2>5, <2>6, <2>7
<1> QED
  BY <1>3, <1>4 DEF Sorted, b

\* What addresses the new entry is the first one for, and what entry the others get.
LEMMA InsertedFirst ==
    ASSUME NEW a \in Arrays, Sorted(a), NEW k \in 0..N - 2, NEW x \in Nat, NEW t \in Types,
           Fits(a, k, x), a[N - 2].start = 0, NEW p \in Nat
    PROVE  First(Inserted(a, k, x, t), 0, p) =
              IF x <= p THEN First(a, 0, p) ELSE First(a, 0, p) + 1
<1> DEFINE b == Inserted(a, k, x, t)
<1>1. k \in 0..N - 1 /\ N - 2 \in 0..N - 1 /\ \A m \in 0..N - 1 : a[m].start \in Nat
  BY NFacts, EntryTyped
<1>2. /\ b \in Arrays
      /\ \A m \in 0..N - 1 : m < k => b[m] = a[m]
      /\ b[k] = Reg(x, t)
      /\ \A m \in 0..N - 1 : k < m => m - 1 \in 0..N - 1 /\ b[m] = a[m - 1]
  BY <1>1, InsertedEntries, SMTT(20)
<1> HIDE DEF b
<1>3. PICK f : f = First(a, 0, p)
  OBVIOUS
<1>4. f \in 0..N - 1 /\ a[f].start <= p /\ \A m \in 0..f - 1 : a[m].start > p
  BY <1>3, FirstInside
<1>5. CASE x <= p
  <2>1. f <= k
    BY <1>1, <1>3, <1>5, BelowFirst DEF Fits
  <2>2. \A m \in 0..f - 1 : b[m].start > p
    <3> SUFFICES ASSUME NEW m \in 0..f - 1 PROVE b[m].start > p
      OBVIOUS
    <3>1. m \in 0..N - 1 /\ m < k /\ m \in Int
      BY <1>4, <2>1, NFacts
    <3>2. b[m] = a[m]
      BY <1>2, <3>1
    <3> QED
      BY <1>4, <3>2
  <2>3. b[f].start <= p
    <3>1. CASE f < k
      BY <1>2, <1>4, <3>1
    <3>2. CASE f = k
      BY <1>2, <1>5, <3>2 DEF Reg
    <3> QED
      BY <1>4, <2>1, <3>1, <3>2
  <2>4. First(b, 0, p) = f
    BY <1>2, <1>4, <2>2, <2>3, FirstIsInside
  <2> QED
    BY <1>3, <1>5, <2>4 DEF b
<1>6. CASE p < x
  <2>1. f <= N - 2
    BY <1>1, <1>3, BelowFirst
  <2>2. ~(f < k)
    <3> SUFFICES ASSUME f < k PROVE FALSE
      OBVIOUS
    <3>1. a[f].start > x /\ a[f].start \in Nat
      BY <1>1, <1>4 DEF Fits
    <3> QED
      BY <1>4, <1>6, <3>1
  <2>3. f + 1 \in 0..N - 1 /\ k < f + 1 /\ b[f + 1] = a[f]
    <3>1. f + 1 \in 0..N - 1 /\ k < f + 1 /\ (f + 1) - 1 = f
      BY <1>4, <2>1, <2>2, NFacts
    <3> QED
      BY <1>2, <3>1
  <2>4. ASSUME NEW m \in 0..f PROVE b[m].start > p
    <3>1. m \in 0..N - 1 /\ m \in Int
      BY <1>4, NFacts
    <3>2. CASE m < k
      <4>1. m \in 0..k - 1
        BY <1>1, <3>1, <3>2
      <4>2. a[m].start > x /\ a[m].start \in Nat /\ b[m] = a[m]
        BY <1>1, <1>2, <3>1, <3>2, <4>1 DEF Fits
      <4> QED
        BY <1>6, <4>2
    <3>3. CASE m = k
      BY <1>2, <1>6, <3>3 DEF Reg
    <3>4. CASE k < m
      <4>1. m - 1 \in 0..f - 1 /\ b[m] = a[m - 1]
        BY <1>2, <1>4, <3>1, <3>4
      <4> QED
        BY <1>4, <4>1
    <3> QED
      BY <3>1, <3>2, <3>3, <3>4
  <2>5. First(b, 0, p) = f + 1
    <3>1. (f + 1) - 1 = f
      BY <1>4
    <3> QED
      BY <1>2, <1>4, <2>3, <2>4, <3>1, FirstIsInside
  <2> QED
    BY <1>3, <1>6, <2>5 DEF b
<1> QED
  BY <1>5, <1>6

\* The entry put in takes over the addresses from x up of the one it is put before.
LEMMA InsertedTypes ==
    ASSUME NEW a \in Arrays, Sorted(a), NEW k \in 0..N - 2, NEW x \in Nat, NEW t \in Types,
           Fits(a, k, x), a[N - 2].start = 0, NEW p \in Nat
    PROVE  TypeIn(Inserted(a, k, x, t), p) =
              IF x <= p /\ First(a, 0, p) = k THEN t ELSE TypeIn(a, p)
<1> DEFINE b == Inserted(a, k, x, t)
<1>1. PICK f : f = First(a, 0, p)
  OBVIOUS
<1>2. f \in 0..N - 1 /\ a[f].start <= p /\ \A m \in 0..f - 1 : a[m].start > p
  BY <1>1, FirstInside
<1>3. k \in 0..N - 1 /\ k \in Int /\ \A m \in 0..N - 1 : a[m].start \in Nat
  BY NFacts, EntryTyped
<1>4. First(b, 0, p) = IF x <= p THEN f ELSE f + 1
  BY <1>1, InsertedFirst
<1>5. /\ \A m \in 0..N - 1 : m < k => b[m] = a[m]
      /\ b[k] = Reg(x, t)
      /\ \A m \in 0..N - 1 : k < m => b[m] = a[m - 1]
  BY <1>3, InsertedEntries
<1> HIDE DEF b
<1>6. CASE x <= p
  <2>1. f <= k
    BY <1>1, <1>3, <1>6, BelowFirst DEF Fits
  <2>2. CASE f = k
    BY <1>1, <1>4, <1>5, <1>6, <2>2 DEF TypeIn, Reg, b
  <2>3. CASE f < k
    BY <1>1, <1>2, <1>3, <1>4, <1>5, <1>6, <2>3 DEF TypeIn, b
  <2> QED
    BY <1>2, <1>3, <2>1, <2>2, <2>3
<1>7. CASE p < x
  <2>1. N - 2 \in 0..N - 1 /\ N - 2 \in Int
    BY <1>3, NFacts
  <2>2. f <= N - 2
    BY <1>1, <2>1, BelowFirst
  <2>3. ~(f < k)
    <3> SUFFICES ASSUME f < k PROVE FALSE
      OBVIOUS
    <3>1. f \in 0..k - 1
      BY <1>2, <1>3
    <3>2. a[f].start > x /\ a[f].start \in Nat
      BY <1>2, <1>3, <3>1 DEF Fits
    <3> QED
      BY <1>2, <1>7, <3>2
  <2>4. f + 1 \in 0..N - 1 /\ k < f + 1 /\ (f + 1) - 1 = f
    BY <1>2, <1>3, <2>2, <2>3, NFacts
  <2>5. First(b, 0, p) = f + 1
    BY <1>4, <1>7
  <2>6. b[f + 1] = a[f]
    BY <1>5, <2>4
  <2> QED
    BY <1>1, <1>7, <2>5, <2>6 DEF TypeIn, b
<1> QED
  BY <1>6, <1>7

-----------------------------------------------------------------------------
(* Arrays that differ only behind the entry that ends the map *)

SameMap(a, b) ==
    \A m \in 0..N - 1 :
        /\ a[m].start = b[m].start
        /\ a[m] = b[m] \/ \E j \in 0..m - 1 : b[j].start = 0

LEMMA SameMapKeeps ==
    ASSUME NEW a \in Arrays, NEW b \in Arrays, Sorted(b), SameMap(a, b)
    PROVE  /\ Sorted(a)
           /\ \A p \in Nat : TypeIn(a, p) = TypeIn(b, p)
           /\ a[0] = b[0]
<1>1. Sorted(a)
  BY NFacts DEF Sorted, SameMap
<1>2. ASSUME NEW p \in Nat
      PROVE  TypeIn(a, p) = TypeIn(b, p)
  <2>1. PICK f : f = First(b, 0, p)
    OBVIOUS
  <2>2. f \in 0..N - 1 /\ b[f].start <= p /\ \A m \in 0..f - 1 : b[m].start > p
    BY <2>1, FirstInside
  <2>3. \A m \in 0..f - 1 : m \in 0..N - 1 /\ ~(b[m].start = 0)
    <3> SUFFICES ASSUME NEW m \in 0..f - 1 PROVE m \in 0..N - 1 /\ ~(b[m].start = 0)
      OBVIOUS
    <3>1. b[m].start > p
      BY <2>2
    <3> QED
      BY <2>2, <3>1, NFacts
  <2>4. a[f].start <= p /\ \A m \in 0..f - 1 : a[m].start > p
    BY <2>2, <2>3 DEF SameMap
  <2>5. First(a, 0, p) = f
    BY <2>2, <2>4, FirstIsInside
  <2>6. a[f] = b[f]
    BY <2>2, <2>3 DEF SameMap
  <2> QED
    BY <2>1, <2>5, <2>6 DEF TypeIn
<1>3. a[0] = b[0]
  <2>1. 0 \in 0..N - 1 /\ ~(\E j \in 0..0 - 1 : b[j].start = 0)
    BY NFacts
  <2> QED
    BY <2>1 DEF SameMap
<1> QED
  BY <1>1, <1>2, <1>3

-----------------------------------------------------------------------------
(* Making room in a sorted map *)

LEMMA Room ==
    ASSUME r \in Arrays, Sorted(r), NEW k \in 0..N - 1, NEW amt \in {1, 2}, ~NoRoom(k, amt)
    PROVE  \E t \in k..(N - 1) - amt :
              /\ r[t].start = 0
              /\ \A m \in 0..N - 1 : t < m => r[m].start = 0
              /\ \A m \in 0..N - 1 :
                    /\ m < k + amt => MovedRight(k, amt)[m] = r[m]
                    /\ k + amt <= m /\ m <= t + amt => MovedRight(k, amt)[m] = r[m - amt]
                    /\ t + amt < m => MovedRight(k, amt)[m] = r[m]
<1>1. PICK t : t = Terminator(k)
  OBVIOUS
<1>2. k \in 0..N /\ amt \in Nat /\ amt > 0
  BY NFacts
<1>3. t \in k..N /\ (t = N \/ r[t].start <= 0)
  BY <1>1, <1>2, BelowFacts DEF Terminator
<1>4. t + amt < N
  BY <1>1, <1>2, <1>3, NFacts DEF NoRoom
<1>5. t \in 0..N - 1 /\ t # N /\ t \in k..(N - 1) - amt
  BY <1>2, <1>3, <1>4, NFacts
<1>6. r[t].start = 0
  <2>1. r[t].start \in Nat /\ r[t].start <= 0
    BY <1>3, <1>5, EntryTyped
  <2> QED
    BY <2>1
<1>7. \A m \in 0..N - 1 : t < m => r[m].start = 0
  BY <1>5, <1>6 DEF Sorted
<1>8. ASSUME NEW m \in 0..N - 1
      PROVE  /\ m < k + amt => MovedRight(k, amt)[m] = r[m]
             /\ k + amt <= m /\ m <= t + amt => MovedRight(k, amt)[m] = r[m - amt]
             /\ t + amt < m => MovedRight(k, amt)[m] = r[m]
  <2>1. MovedRight(k, amt)[m] = IF m \in k + amt..t + amt THEN r[m - amt] ELSE r[m]
    BY <1>1 DEF MovedRight, Arrays
  <2>2. m \in k + amt..t + amt <=> k + amt <= m /\ m <= t + amt
    BY <1>2, <1>5, NFacts
  <2>3. m < k + amt \/ t + amt < m => ~(k + amt <= m /\ m <= t + amt)
    BY <1>2, <1>5, NFacts
  <2> QED
    BY <2>1, <2>2, <2>3
<1> QED
  BY <1>5, <1>6, <1>7, <1>8

\* One entry of room, and the entry stored there.
LEMMA OneInserted ==
    ASSUME r \in Arrays, Sorted(r), NEW k \in 0..N - 1, NEW x \in Nat, NEW w \in Types,
           ~NoRoom(k, 1)
    PROVE  /\ SameMap([MovedRight(k, 1) EXCEPT ![k] = Reg(x, w)], Inserted(r, k, x, w))
           /\ k \in 0..N - 2 /\ r[N - 2].start = 0
<1>1. PICK a, b : a = [MovedRight(k, 1) EXCEPT ![k] = Reg(x, w)] /\ b = Inserted(r, k, x, w)
  OBVIOUS
<1>2. PICK t \in k..(N - 1) - 1 :
              /\ r[t].start = 0
              /\ \A m \in 0..N - 1 : t < m => r[m].start = 0
              /\ \A m \in 0..N - 1 :
                    /\ m < k + 1 => MovedRight(k, 1)[m] = r[m]
                    /\ k + 1 <= m /\ m <= t + 1 => MovedRight(k, 1)[m] = r[m - 1]
                    /\ t + 1 < m => MovedRight(k, 1)[m] = r[m]
  BY Room
<1>3. /\ k \in 0..N /\ k \in Int /\ t \in Int /\ k <= t /\ t \in 0..N - 1
      /\ k \in 0..N - 2 /\ N - 2 \in 0..N - 1 /\ t <= N - 2 /\ t + 1 \in 0..N - 1
  BY NFacts
<1>4. r[N - 2].start = 0
  BY <1>2, <1>3
<1>5. MovedRight(k, 1) \in Arrays
  BY <1>3, MovedRightType
<1>6. a[k] = Reg(x, w) /\ \A m \in 0..N - 1 : m # k => a[m] = MovedRight(k, 1)[m]
  BY <1>1, <1>5 DEF Arrays
<1>7. /\ b[k] = Reg(x, w)
      /\ \A m \in 0..N - 1 : m < k => b[m] = r[m]
      /\ \A m \in 0..N - 1 : k < m => b[m] = r[m - 1]
  BY <1>1, InsertedEntries
<1>8. ASSUME NEW m \in 0..N - 1
      PROVE  a[m].start = b[m].start /\ (a[m] = b[m] \/ \E j \in 0..m - 1 : b[j].start = 0)
  <2>1. m < k \/ m = k \/ (k + 1 <= m /\ m <= t + 1) \/ t + 1 < m
    BY <1>3, NFacts
  <2>2. CASE m < k
    <3>1. m # k /\ m < k + 1
      BY <1>3, <2>2, NFacts
    <3> QED
      BY <1>2, <1>6, <1>7, <2>2, <3>1
  <2>3. CASE m = k
    BY <1>6, <1>7, <2>3
  <2>4. CASE k + 1 <= m /\ m <= t + 1
    <3>1. m # k /\ k < m
      BY <1>3, <2>4, NFacts
    <3> QED
      BY <1>2, <1>6, <1>7, <2>4, <3>1
  <2>5. CASE t + 1 < m
    <3>1. /\ m # k /\ k < m /\ t < m /\ m - 1 \in 0..N - 1 /\ t < m - 1
          /\ t + 1 \in 0..m - 1 /\ k < t + 1 /\ (t + 1) - 1 = t
      BY <1>3, <2>5, NFacts
    <3>2. a[m].start = 0 /\ b[m].start = 0 /\ b[t + 1].start = 0
      BY <1>2, <1>3, <1>6, <1>7, <2>5, <3>1
    <3> QED
      BY <3>1, <3>2
  <2> QED
    BY <2>1, <2>2, <2>3, <2>4, <2>5
<1> QED
  BY <1>1, <1>3, <1>4, <1>8 DEF SameMap

\* Setting the start of the entry that was moved away stores its type again.
LEMMA StartKept ==
    ASSUME r \in Arrays, Sorted(r), NEW k \in 0..N - 1, NEW x \in Nat, ~NoRoom(k, 1)
    PROVE  SetStart(MovedRight(k, 1), k, x) = [MovedRight(k, 1) EXCEPT ![k] = Reg(x, r[k].type)]
<1>1. MovedRight(k, 1) \in Arrays
  BY NFacts, MovedRightType
<1>2. MovedRight(k, 1)[k] = Reg(r[k].start, r[k].type)
  <2>1. MovedRight(k, 1)[k] = r[k]
    <3>1. k < k + 1
      BY NFacts
    <3> QED
      BY <3>1, Room
  <2> QED
    BY <2>1, EntryTyped
<1> QED
  BY <1>1, <1>2 DEF SetStart, Arrays, Reg

\* Two entries of room, one for the new region and one for what is below it.
LEMMA TwoInserted ==
    ASSUME r \in Arrays, Sorted(r), NEW k \in 0..N - 1, ~NoRoom(k, 2),
           NEW lo \in Nat, NEW hi \in Nat, NEW t \in Types
    PROVE  /\ SameMap(SetStart([MovedRight(k, 2) EXCEPT ![k + 1] = Reg(lo, t)], k, hi),
                      Inserted(Inserted(r, k, lo, t), k, hi, r[k].type))
           /\ k \in 0..N - 2 /\ r[N - 2].start = 0
           /\ Inserted(r, k, lo, t)[N - 2].start = 0
<1> DEFINE c == [MovedRight(k, 2) EXCEPT ![k + 1] = Reg(lo, t)]
           a == SetStart(c, k, hi)
           b == Inserted(r, k, lo, t)
           d == Inserted(b, k, hi, r[k].type)
<1>1. PICK z \in k..(N - 1) - 2 :
              /\ r[z].start = 0
              /\ \A m \in 0..N - 1 : z < m => r[m].start = 0
              /\ \A m \in 0..N - 1 :
                    /\ m < k + 2 => MovedRight(k, 2)[m] = r[m]
                    /\ k + 2 <= m /\ m <= z + 2 => MovedRight(k, 2)[m] = r[m - 2]
                    /\ z + 2 < m => MovedRight(k, 2)[m] = r[m]
  BY Room
<1>2. /\ k \in 0..N /\ k \in Int /\ r[k].type \in Types /\ k # k + 1
      /\ k + 1 \in 0..N - 1 /\ k \in 0..N - 2 /\ N - 2 \in 0..N - 1 /\ k < N - 2
      /\ (N - 2) - 1 \in 0..N - 1 /\ k < k + 2 /\ z \in Int /\ k <= z /\ z <= (N - 2) - 1
      /\ z < N - 2
  <2>1. r[k].type \in Types
    BY EntryTyped
  <2> QED
    BY <1>1, <2>1, NFacts
<1>3. MovedRight(k, 2) \in Arrays /\ c \in Arrays
  <2>1. MovedRight(k, 2) \in Arrays
    BY <1>2, MovedRightType
  <2> QED
    BY <2>1, StoreType
<1>4. b \in Arrays
  BY <1>2, InsertedEntries
<1>5. /\ b[k] = Reg(lo, t)
      /\ \A m \in 0..N - 1 : m < k => b[m] = r[m]
      /\ \A m \in 0..N - 1 : k < m => b[m] = r[m - 1]
  BY InsertedEntries
<1>6. /\ d[k] = Reg(hi, r[k].type)
      /\ \A m \in 0..N - 1 : m < k => d[m] = b[m]
      /\ \A m \in 0..N - 1 : k < m => m - 1 \in 0..N - 1 /\ d[m] = b[m - 1]
  <2>1. PICK w \in Types : w = r[k].type
    BY EntryTyped
  <2>2. b \in Arrays
    BY <1>4
  <2> HIDE DEF b
  <2>3. /\ Inserted(b, k, hi, w)[k] = Reg(hi, w)
        /\ \A m \in 0..N - 1 : m < k => Inserted(b, k, hi, w)[m] = b[m]
        /\ \A m \in 0..N - 1 : k < m =>
              m - 1 \in 0..N - 1 /\ Inserted(b, k, hi, w)[m] = b[m - 1]
    BY <2>2, InsertedEntries, SMTT(20)
  <2> QED
    BY <2>1, <2>3
<1>7. c[k] = r[k] /\ c[k + 1] = Reg(lo, t)
      /\ \A m \in 0..N - 1 : m # k + 1 => c[m] = MovedRight(k, 2)[m]
  BY <1>1, <1>2, <1>3 DEF Arrays
<1>8. a[k] = Reg(hi, r[k].type) /\ \A m \in 0..N - 1 : m # k => a[m] = c[m]
  <2>1. c[k] = Reg(r[k].start, r[k].type)
    BY <1>7, EntryTyped
  <2> HIDE DEF c
  <2>2. a[k] = Reg(hi, r[k].type)
    BY <1>3, <2>1 DEF SetStart, Arrays, Reg
  <2> QED
    BY <1>3, <2>2 DEF SetStart, Arrays
<1> HIDE DEF a, b, c, d
<1>10. ASSUME NEW m \in 0..N - 1
       PROVE  a[m].start = d[m].start /\ (a[m] = d[m] \/ \E j \in 0..m - 1 : d[j].start = 0)
  <2>1. m \in Int /\ (m < k \/ m = k \/ m = k + 1 \/ (k + 2 <= m /\ m <= z + 2) \/ z + 2 < m)
    BY <1>2, NFacts
  <2>2. CASE m < k
    <3>1. m # k /\ m # k + 1 /\ m < k + 2
      BY <1>2, <2>1, <2>2
    <3> QED
      BY <1>1, <1>5, <1>6, <1>7, <1>8, <2>2, <3>1
  <2>3. CASE m = k
    BY <1>6, <1>8, <2>3
  <2>4. CASE m = k + 1
    <3>1. k < m /\ m # k /\ m - 1 = k
      BY <1>2, <2>4
    <3> QED
      BY <1>5, <1>6, <1>7, <1>8, <2>4, <3>1
  <2>5. CASE k + 2 <= m /\ m <= z + 2
    <3>1. k < m /\ m # k /\ m # k + 1 /\ k < m - 1 /\ (m - 1) - 1 = m - 2
      BY <1>2, <2>1, <2>5
    <3> QED
      BY <1>1, <1>5, <1>6, <1>7, <1>8, <2>5, <3>1
  <2>6. CASE z + 2 < m
    <3>1. /\ k < m /\ m # k /\ m # k + 1 /\ k < m - 1 /\ (m - 1) - 1 \in 0..N - 1
          /\ z < (m - 1) - 1 /\ z < m
      BY <1>2, <2>1, <2>6, NFacts
    <3>2. a[m].start = 0 /\ d[m].start = 0
      BY <1>1, <1>5, <1>6, <1>7, <1>8, <2>6, <3>1
    <3>3. PICK y \in 0..N - 1 : /\ y = z + 2 /\ y \in 0..m - 1 /\ k < y /\ k < y - 1
                                /\ (y - 1) - 1 = z
      BY <1>2, <2>6, NFacts
    <3>4. d[y].start = 0
      BY <1>1, <1>5, <1>6, <3>3
    <3> QED
      BY <3>2, <3>3, <3>4
  <2> QED
    BY <2>1, <2>2, <2>3, <2>4, <2>5, <2>6
<1>11. SameMap(a, d)
  BY <1>10 DEF SameMap
<1>12. r[N - 2].start = 0
  BY <1>1, <1>2
<1>13. b[N - 2].start = 0
  <2>1. r[(N - 2) - 1].start = 0
    <3>1. CASE z = (N - 2) - 1
      BY <1>1, <3>1
    <3>2. CASE z < (N - 2) - 1
      BY <1>1, <1>2, <3>2
    <3> QED
      BY <1>2, <3>1, <3>2, NFacts
  <2> QED
    BY <1>2, <1>5, <2>1
<1> QED
  BY <1>2, <1>11, <1>12, <1>13 DEF a, b, c, d

\* One entry of room, and the new region starts where the one below it did.
LEMMA StartInserted ==
    ASSUME r \in Arrays, Sorted(r), NEW k \in 0..N - 1, ~NoRoom(k, 1),
           NEW hi \in Nat, NEW t \in Types
    PROVE  /\ SameMap([SetStart(MovedRight(k, 1), k, hi) EXCEPT ![k + 1] = Reg(r[k].start, t)],
                      [Inserted(r, k, hi, r[k].type) EXCEPT ![k + 1] = Reg(r[k].start, t)])
           /\ k \in 0..N - 2 /\ r[N - 2].start = 0
<1>1. PICK w, x : w = r[k].type /\ x = r[k].start
  OBVIOUS
<1>2. w \in Types /\ x \in Nat
  BY <1>1, EntryTyped
<1>3. PICK a, b : a = SetStart(MovedRight(k, 1), k, hi) /\ b = Inserted(r, k, hi, w)
  OBVIOUS
<1>4. SameMap(a, b) /\ k \in 0..N - 2 /\ r[N - 2].start = 0
  BY <1>1, <1>2, <1>3, OneInserted, StartKept
<1>5. a \in Arrays /\ b \in Arrays
  BY <1>2, <1>3, <1>4, NFacts, MovedRightType, SetStartType, InsertedEntries
<1>6. PICK n \in 0..N - 1 : n = k + 1 /\ k < n /\ n - 1 = k
  BY <1>4, NFacts
<1>7. b[n].start = x
  <2>1. \A m \in 0..N - 1 : k < m => Inserted(r, k, hi, w)[m] = r[m - 1]
    BY <1>2, InsertedEntries
  <2> QED
    BY <1>1, <1>3, <1>6, <2>1
<1>8. PICK c, d : c = [a EXCEPT ![n] = Reg(x, t)] /\ d = [b EXCEPT ![n] = Reg(x, t)]
  OBVIOUS
<1>9. /\ c[n] = Reg(x, t) /\ d[n] = Reg(x, t)
      /\ \A m \in 0..N - 1 : m # n => c[m] = a[m] /\ d[m] = b[m]
  BY <1>5, <1>8 DEF Arrays
<1>10. \A m \in 0..N - 1 : d[m].start = b[m].start
  BY <1>7, <1>9 DEF Reg
<1>11. SameMap(c, d)
  <2> SUFFICES ASSUME NEW m \in 0..N - 1
               PROVE  /\ c[m].start = d[m].start
                      /\ c[m] = d[m] \/ \E j \in 0..m - 1 : d[j].start = 0
    BY DEF SameMap
  <2>1. CASE m = n
    BY <1>9, <2>1
  <2>2. CASE m # n
    <3>1. a[m].start = b[m].start /\ (a[m] = b[m] \/ \E j \in 0..m - 1 : b[j].start = 0)
      BY <1>4 DEF SameMap
    <3>2. \A j \in 0..m - 1 : j \in 0..N - 1
      BY NFacts
    <3> QED
      BY <1>9, <1>10, <2>2, <3>1, <3>2
  <2> QED
    BY <2>1, <2>2
<1> QED
  BY <1>1, <1>3, <1>4, <1>6, <1>8, <1>11

\* A region other than the lowest changes its type.
LEMMA Retyped ==
    ASSUME NEW a \in Arrays, Sorted(a), NEW k \in 0..N - 1, NEW t \in Types,
           \A m \in 0..k - 1 : a[m].start > a[k].start,
           NEW b \in Arrays, b[k] = Reg(a[k].start, t),
           \A m \in 0..N - 1 : m # k => b[m] = a[m]
    PROVE  /\ Sorted(b)
           /\ \A p \in Nat : TypeIn(b, p) = IF First(a, 0, p) = k THEN t ELSE TypeIn(a, p)
<1>1. \A m \in 0..N - 1 : a[m].start \in Nat
  BY EntryTyped
<1>2. \A m \in 0..N - 1 : b[m].start = a[m].start
  BY DEF Reg
<1>3. Sorted(b)
  <2>1. b[N - 1].start = 0
    BY <1>2, NFacts DEF Sorted
  <2>2. ASSUME NEW i \in 0..N - 1, NEW j \in 0..N - 1, i < j
        PROVE  IF b[i].start = 0 THEN b[j].start = 0 ELSE b[j].start < b[i].start
    <3>1. IF a[i].start = 0 THEN a[j].start = 0 ELSE a[j].start < a[i].start
      BY <2>2 DEF Sorted
    <3>2. CASE j = k
      <4>1. i \in 0..k - 1
        BY <2>2, <3>2, NFacts
      <4>2. a[i].start > a[k].start
        BY <4>1
      <4>3. a[i].start # 0
        BY <1>1, <4>2
      <4> QED
        BY <1>2, <3>1, <4>3
    <3>3. CASE j # k
      BY <1>2, <3>1, <3>3
    <3> QED
      BY <3>2, <3>3
  <2> QED
    BY <2>1, <2>2 DEF Sorted
<1>4. ASSUME NEW p \in Nat
      PROVE  TypeIn(b, p) = IF First(a, 0, p) = k THEN t ELSE TypeIn(a, p)
  <2>1. PICK f : f = First(a, 0, p)
    OBVIOUS
  <2>2. f \in 0..N - 1 /\ a[f].start <= p /\ \A m \in 0..f - 1 : a[m].start > p
    BY <2>1, FirstInside
  <2>3. b[f].start <= p /\ \A m \in 0..f - 1 : b[m].start > p
    <3>1. \A m \in 0..f - 1 : m \in 0..N - 1
      BY <2>2, NFacts
    <3> QED
      BY <1>2, <2>2, <3>1
  <2>4. First(b, 0, p) = f
    BY <2>2, <2>3, FirstIsInside
  <2> QED
    BY <2>1, <2>2, <2>4 DEF TypeIn, Reg
<1> QED
  BY <1>3, <1>4

-----------------------------------------------------------------------------
(* A region laid over part of an entry *)

\* The array gives the pages from lo to hi the type t, and the others what they had.
Overlaid(a, b, lo, hi, t) ==
    /\ b \in Arrays /\ Sorted(b)
    /\ b[0].type = a[0].type
    /\ \A p \in Nat : TypeIn(b, p) = IF lo <= p /\ p < hi THEN t ELSE TypeIn(a, p)

LEMMA OverlaidFromStart ==
    ASSUME NEW a \in Arrays, Sorted(a), NEW k \in 0..N - 2, a[N - 2].start = 0,
           NEW hi \in Nat, NEW t \in Types, Fits(a, k, hi)
    PROVE  Overlaid(a, [Inserted(a, k, hi, a[k].type) EXCEPT ![k + 1] = Reg(a[k].start, t)],
                    a[k].start, hi, t)
<1>1. PICK lo, w : lo = a[k].start /\ w = a[k].type
  OBVIOUS
<1>2. k \in 0..N - 1 /\ k + 1 \in 0..N - 1 /\ k \in Int /\ k < k + 1 /\ 0 \in 0..N - 1
      /\ (k + 1) - 1 = k
  BY NFacts
<1>3. lo \in Nat /\ w \in Types /\ lo < hi
  BY <1>1, <1>2, EntryTyped DEF Fits
<1>4. PICK b : b = Inserted(a, k, hi, w)
  OBVIOUS
<1>5. /\ b \in Arrays /\ b[k] = Reg(hi, w)
      /\ \A m \in 0..N - 1 : m < k => b[m] = a[m]
      /\ \A m \in 0..N - 1 : k < m => b[m] = a[m - 1]
  <2>1. k \in 0..N - 1
    BY <1>2
  <2>2. /\ Inserted(a, k, hi, w) \in Arrays /\ Inserted(a, k, hi, w)[k] = Reg(hi, w)
        /\ \A m \in 0..N - 1 : m < k => Inserted(a, k, hi, w)[m] = a[m]
        /\ \A m \in 0..N - 1 : k < m => Inserted(a, k, hi, w)[m] = a[m - 1]
    BY <1>3, <2>1, InsertedEntries
  <2> QED
    BY <1>4, <2>2
<1>6. Sorted(b)
  BY <1>1, <1>3, <1>4, InsertedSorted
<1>7. b[k + 1].start = lo
  BY <1>1, <1>2, <1>5
<1>8. \A m \in 0..(k + 1) - 1 : b[m].start > b[k + 1].start
  <2> SUFFICES ASSUME NEW m \in 0..k PROVE b[m].start > lo
    BY <1>2, <1>7
  <2>1. m \in 0..N - 1 /\ (m < k \/ m = k)
    BY <1>2, NFacts
  <2>2. CASE m < k
    <3>1. m \in 0..k - 1 /\ b[m] = a[m]
      BY <1>2, <1>5, <2>1, <2>2
    <3>2. a[m].start > hi /\ a[m].start \in Nat
      BY <2>1, <3>1, EntryTyped DEF Fits
    <3> QED
      BY <1>3, <3>1, <3>2
  <2>3. CASE m = k
    BY <1>3, <1>5, <2>3 DEF Reg
  <2> QED
    BY <2>1, <2>2, <2>3
<1>9. PICK c : c = [b EXCEPT ![k + 1] = Reg(b[k + 1].start, t)]
  OBVIOUS
<1>10. /\ c \in Arrays /\ Sorted(c)
       /\ \A p \in Nat : TypeIn(c, p) = IF First(b, 0, p) = k + 1 THEN t ELSE TypeIn(b, p)
  <2>1. PICK n \in 0..N - 1 : n = k + 1
    BY <1>2
  <2>2. b \in Arrays /\ \A m \in 0..n - 1 : b[m].start > b[n].start
    BY <1>5, <1>8, <2>1
  <2>3. c = [b EXCEPT ![n] = Reg(b[n].start, t)] /\ b[n].start \in Nat
    BY <1>9, <2>1, <2>2, EntryTyped
  <2>4. c \in Arrays
    BY <2>2, <2>3, StoreType
  <2>5. c[n] = Reg(b[n].start, t) /\ \A m \in 0..N - 1 : m # n => c[m] = b[m]
    BY <2>2, <2>3 DEF Arrays
  <2>6. /\ Sorted(c)
        /\ \A p \in Nat : TypeIn(c, p) = IF First(b, 0, p) = n THEN t ELSE TypeIn(b, p)
    BY <1>6, <2>2, <2>4, <2>5, Retyped
  <2> QED
    BY <2>1, <2>4, <2>6
<1>11. c[0].type = a[0].type
  <2>1. c[0] = b[0]
    <3>1. 0 # k + 1
      BY <1>2
    <3> QED
      BY <1>2, <1>5, <1>9, <3>1 DEF Arrays
  <2>2. CASE k = 0
    BY <1>1, <1>5, <2>1, <2>2 DEF Reg
  <2>3. CASE 0 < k
    BY <1>2, <1>5, <2>1, <2>3
  <2> QED
    BY <1>2, <2>2, <2>3
<1>12. ASSUME NEW p \in Nat
       PROVE  TypeIn(c, p) = IF lo <= p /\ p < hi THEN t ELSE TypeIn(a, p)
  <2>1. PICK f : f = First(a, 0, p)
    OBVIOUS
  <2>2. f \in 0..N - 1 /\ f \in Int /\ a[f].start <= p /\ \A m \in 0..f - 1 : a[m].start > p
    BY <2>1, FirstInside
  <2>3. First(b, 0, p) = IF hi <= p THEN f ELSE f + 1
    BY <1>1, <1>3, <1>4, <2>1, InsertedFirst
  <2>4. TypeIn(b, p) = TypeIn(a, p)
    <3>1. TypeIn(b, p) = IF hi <= p /\ f = k THEN w ELSE TypeIn(a, p)
      BY <1>1, <1>3, <1>4, <2>1, InsertedTypes
    <3> QED
      BY <1>1, <2>1, <3>1 DEF TypeIn
  <2>5. TypeIn(c, p) = IF First(b, 0, p) = k + 1 THEN t ELSE TypeIn(a, p)
    BY <1>10, <2>4
  <2>6. CASE hi <= p
    <3>1. f <= k
      BY <1>1, <1>2, <1>3, <2>1, <2>6, BelowFirst
    <3>2. First(b, 0, p) # k + 1
      BY <1>2, <2>2, <2>3, <2>6, <3>1
    <3> QED
      BY <1>3, <2>5, <2>6, <3>2
  <2>7. CASE lo <= p /\ p < hi
    <3>1. \A m \in 0..k - 1 : a[m].start > p
      <4> SUFFICES ASSUME NEW m \in 0..k - 1 PROVE a[m].start > p
        OBVIOUS
      <4>1. m \in 0..N - 1
        BY <1>2, NFacts
      <4>2. a[m].start > hi /\ a[m].start \in Nat
        BY <4>1, EntryTyped DEF Fits
      <4> QED
        BY <2>7, <4>2
    <3>2. f = k
      BY <1>1, <1>2, <2>1, <2>7, <3>1, FirstIsInside
    <3> QED
      BY <1>3, <2>3, <2>5, <2>7, <3>2
  <2>8. CASE p < lo
    <3>1. f # k
      BY <1>1, <1>3, <2>2, <2>8
    <3>2. First(b, 0, p) # k + 1
      BY <1>2, <1>3, <2>2, <2>3, <2>8, <3>1
    <3> QED
      BY <1>3, <2>5, <2>8, <3>2
  <2> QED
    BY <1>3, <2>6, <2>7, <2>8
<1>13. c = [Inserted(a, k, hi, a[k].type) EXCEPT ![k + 1] = Reg(a[k].start, t)]
  BY <1>1, <1>4, <1>7, <1>9
<1> QED
  BY <1>1, <1>10, <1>11, <1>12, <1>13 DEF Overlaid

LEMMA OverlaidInside ==
    ASSUME NEW a \in Arrays, Sorted(a), NEW k \in 0..N - 2, a[N - 2].start = 0,
           NEW lo \in Nat, NEW hi \in Nat, NEW t \in Types, lo < hi,
           a[k].start < lo, \A m \in 0..k - 1 : a[m].start > hi,
           Inserted(a, k, lo, t)[N - 2].start = 0
    PROVE  Overlaid(a, Inserted(Inserted(a, k, lo, t), k, hi, a[k].type), lo, hi, t)
<1>1. PICK w : w = a[k].type
  OBVIOUS
<1>2. k \in 0..N - 1 /\ k \in Int /\ 0 \in 0..N - 1
  BY NFacts
<1>3. w \in Types
  BY <1>1, <1>2, EntryTyped
<1>4. PICK b : b = Inserted(a, k, lo, t)
  OBVIOUS
<1>5. /\ b \in Arrays /\ b[k] = Reg(lo, t)
      /\ \A m \in 0..N - 1 : m < k => b[m] = a[m]
  <2>1. k \in 0..N - 1
    BY <1>2
  <2>2. /\ Inserted(a, k, lo, t) \in Arrays /\ Inserted(a, k, lo, t)[k] = Reg(lo, t)
        /\ \A m \in 0..N - 1 : m < k => Inserted(a, k, lo, t)[m] = a[m]
    BY <2>1, InsertedEntries
  <2> QED
    BY <1>4, <2>2
<1>6. ASSUME NEW m \in 0..k - 1
      PROVE  m \in 0..N - 1 /\ m < k /\ a[m].start > hi /\ a[m].start > lo
  <2>1. m \in 0..N - 1 /\ m < k
    BY <1>2, NFacts
  <2>2. a[m].start \in Nat /\ a[m].start > hi
    BY <2>1, EntryTyped
  <2> QED
    BY <2>1, <2>2
<1>7. Fits(a, k, lo)
  BY <1>6 DEF Fits
<1>8. Sorted(b)
  BY <1>4, <1>7, InsertedSorted
<1>9. Fits(b, k, hi)
  BY <1>5, <1>6 DEF Fits, Reg
<1>10. b[N - 2].start = 0
  BY <1>4
<1>11. PICK c : c = Inserted(b, k, hi, w)
  OBVIOUS
<1>12. c \in Arrays /\ c[k] = Reg(hi, w) /\ \A m \in 0..N - 1 : m < k => c[m] = b[m]
  <2>1. k \in 0..N - 1
    BY <1>2
  <2>2. /\ Inserted(b, k, hi, w) \in Arrays /\ Inserted(b, k, hi, w)[k] = Reg(hi, w)
        /\ \A m \in 0..N - 1 : m < k => Inserted(b, k, hi, w)[m] = b[m]
    BY <1>3, <1>5, <2>1, InsertedEntries, SMTT(20)
  <2> QED
    BY <1>11, <2>2
<1>13. Sorted(c)
  BY <1>3, <1>5, <1>8, <1>9, <1>10, <1>11, InsertedSorted
<1>14. c[0].type = a[0].type
  <2>1. CASE k = 0
    BY <1>1, <1>12, <2>1 DEF Reg
  <2>2. CASE 0 < k
    BY <1>2, <1>5, <1>12, <2>2
  <2> QED
    BY <1>2, <2>1, <2>2
<1>15. ASSUME NEW p \in Nat
       PROVE  TypeIn(c, p) = IF lo <= p /\ p < hi THEN t ELSE TypeIn(a, p)
  <2>1. PICK f : f = First(a, 0, p)
    OBVIOUS
  <2>2. TypeIn(b, p) = IF lo <= p /\ f = k THEN t ELSE TypeIn(a, p)
    BY <1>4, <1>7, <2>1, InsertedTypes
  <2>3. First(b, 0, p) = IF lo <= p THEN f ELSE f + 1
    BY <1>4, <1>7, <2>1, InsertedFirst
  <2>4. TypeIn(c, p) = IF hi <= p /\ First(b, 0, p) = k THEN w ELSE TypeIn(b, p)
    BY <1>3, <1>5, <1>8, <1>9, <1>10, <1>11, InsertedTypes
  <2>5. CASE hi <= p
    <3>1. f = k => TypeIn(a, p) = w
      BY <1>1, <2>1 DEF TypeIn
    <3> QED
      BY <2>2, <2>3, <2>4, <2>5, <3>1
  <2>6. CASE lo <= p /\ p < hi
    <3>1. \A m \in 0..k - 1 : a[m].start > p
      <4> SUFFICES ASSUME NEW m \in 0..k - 1 PROVE a[m].start > p
        OBVIOUS
      <4>1. a[m].start > hi /\ a[m].start \in Nat
        BY <1>6, EntryTyped
      <4> QED
        BY <2>6, <4>1
    <3>2. a[k].start \in Nat
      BY <1>2, EntryTyped
    <3>3. f = k
      BY <1>2, <2>1, <2>6, <3>1, <3>2, FirstIsInside
    <3> QED
      BY <2>2, <2>4, <2>6, <3>3
  <2>7. CASE p < lo
    BY <2>2, <2>4, <2>7
  <2> QED
    BY <2>5, <2>6, <2>7
<1> QED
  BY <1>1, <1>4, <1>11, <1>12, <1>13, <1>14, <1>15 DEF Overlaid

-----------------------------------------------------------------------------

LEMMA SameOverlaid ==
    ASSUME NEW a \in Arrays, NEW b \in Arrays, NEW c \in Arrays, SameMap(b, c),
           NEW lo, NEW hi, NEW t, Overlaid(a, c, lo, hi, t)
    PROVE  Overlaid(a, b, lo, hi, t)
<1>1. Sorted(b) /\ (\A p \in Nat : TypeIn(b, p) = TypeIn(c, p)) /\ b[0] = c[0]
  BY SameMapKeeps DEF Overlaid
<1> QED
  BY <1>1 DEF Overlaid

-----------------------------------------------------------------------------
(* An entry that starts higher, and one that is dropped *)

\* The region at k gives up its lower part to the one below it.
LEMMA StartRaised ==
    ASSUME NEW a \in Arrays, Sorted(a), NEW k \in 0..N - 2, NEW x \in Nat,
           a[k].start # 0, a[k].start <= x, \A m \in 0..k - 1 : a[m].start > x
    PROVE  /\ Sorted(SetStart(a, k, x))
           /\ \A p \in Nat : TypeIn(SetStart(a, k, x), p) =
                 IF First(a, 0, p) = k /\ p < x THEN a[k + 1].type ELSE TypeIn(a, p)
<1>1. PICK b : b = SetStart(a, k, x)
  OBVIOUS
<1>2. /\ k \in 0..N - 1 /\ k \in Int /\ k + 1 \in 0..N - 1 /\ k < k + 1 /\ (k + 1) - 1 = k
      /\ \A m \in 0..N - 1 : a[m].start \in Nat
  BY NFacts, EntryTyped
<1>3. /\ b \in Arrays /\ b[k] = Reg(x, a[k].type)
      /\ \A m \in 0..N - 1 : m # k => b[m] = a[m]
  <2>1. b \in Arrays
    BY <1>1, SetStartType
  <2>2. a[k] = Reg(a[k].start, a[k].type)
    BY <1>2, EntryTyped
  <2>3. b[k] = Reg(x, a[k].type)
    BY <1>1, <1>2, <2>2 DEF SetStart, Arrays, Reg
  <2> QED
    BY <1>1, <2>1, <2>3 DEF SetStart, Arrays
<1>4. b[k].start = x /\ b[k].type = a[k].type
  BY <1>3 DEF Reg
<1>5. Sorted(b)
  <2>1. b[N - 1].start = 0
    <3>1. N - 1 \in 0..N - 1 /\ N - 1 # k
      BY NFacts
    <3> QED
      BY <1>3, <3>1 DEF Sorted
  <2>2. ASSUME NEW i \in 0..N - 1, NEW j \in 0..N - 1, i < j
        PROVE  IF b[i].start = 0 THEN b[j].start = 0 ELSE b[j].start < b[i].start
    <3>1. IF a[i].start = 0 THEN a[j].start = 0 ELSE a[j].start < a[i].start
      BY <2>2 DEF Sorted
    <3>2. CASE i = k
      <4>1. j # k /\ b[j] = a[j] /\ a[j].start < a[k].start
        BY <1>2, <1>3, <2>2, <3>1, <3>2
      <4> QED
        BY <1>2, <1>4, <3>2, <4>1
    <3>3. CASE j = k
      <4>1. i # k /\ b[i] = a[i] /\ i \in 0..k - 1
        BY <1>2, <1>3, <2>2, <3>3
      <4>2. a[i].start > x /\ a[i].start \in Nat
        BY <1>2, <4>1
      <4> QED
        BY <1>4, <3>3, <4>1, <4>2
    <3>4. CASE i # k /\ j # k
      BY <1>3, <3>1, <3>4
    <3> QED
      BY <3>2, <3>3, <3>4
  <2> QED
    BY <2>1, <2>2 DEF Sorted
<1>6. ASSUME NEW p \in Nat
      PROVE  TypeIn(b, p) = IF First(a, 0, p) = k /\ p < x THEN a[k + 1].type ELSE TypeIn(a, p)
  <2>1. PICK f : f = First(a, 0, p)
    OBVIOUS
  <2>2. f \in 0..N - 1 /\ f \in Int /\ a[f].start <= p /\ \A m \in 0..f - 1 : a[m].start > p
    BY <2>1, FirstInside
  <2>3. CASE f = k /\ p < x
    <3>1. ASSUME NEW m \in 0..(k + 1) - 1
          PROVE  b[m].start > p
      <4>1. CASE m = k
        BY <1>4, <2>3, <4>1
      <4>2. CASE m # k
        <5>1. m \in 0..k - 1 /\ m \in 0..N - 1
          BY <1>2, <4>2, NFacts
        <5> QED
          BY <1>3, <2>2, <2>3, <4>2, <5>1
      <4> QED
        BY <4>1, <4>2
    <3>2. b[k + 1] = a[k + 1] /\ a[k + 1].start < a[k].start
      BY <1>2, <1>3 DEF Sorted
    <3>3. b[k + 1].start <= p
      BY <1>2, <2>2, <2>3, <3>2
    <3>4. First(b, 0, p) = k + 1
      BY <1>2, <1>3, <3>1, <3>3, FirstIsInside
    <3> QED
      BY <2>1, <2>3, <3>2, <3>4 DEF TypeIn
  <2>4. CASE ~(f = k /\ p < x)
    <3>1. b[f].start <= p /\ b[f].type = a[f].type
      <4>1. CASE f = k
        BY <1>2, <1>4, <2>4, <4>1
      <4>2. CASE f # k
        BY <1>3, <2>2, <4>2
      <4> QED
        BY <4>1, <4>2
    <3>2. ASSUME NEW m \in 0..f - 1
          PROVE  b[m].start > p
      <4>1. m \in 0..N - 1 /\ a[m].start > p /\ a[m].start \in Nat
        BY <1>2, <2>2, NFacts
      <4>2. CASE m = k
        BY <1>2, <1>4, <4>1, <4>2
      <4>3. CASE m # k
        BY <1>3, <4>1, <4>3
      <4> QED
        BY <4>2, <4>3
    <3>3. First(b, 0, p) = f
      BY <1>3, <2>2, <3>1, <3>2, FirstIsInside
    <3> QED
      BY <2>1, <2>4, <3>1, <3>3 DEF TypeIn
  <2> QED
    BY <2>3, <2>4, <2>1
<1> QED
  BY <1>1, <1>5, <1>6

\* Where the entries of a map go when the one at k is dropped.
LEMMA LeftFacts ==
    ASSUME r \in Arrays, Sorted(r), NEW k \in 0..N - 2, r[k].start # 0
    PROVE  /\ ~LeftRunsOff(k)
           /\ \E t \in k + 1..N - 1 :
                 /\ r[t].start = 0 /\ \A m \in 0..t - 1 : r[m].start # 0
                 /\ \A m \in 0..N - 1 :
                       /\ m < k => MovedLeft(k)[m] = r[m]
                       /\ k <= m /\ m < t => MovedLeft(k)[m] = r[m + 1]
                       /\ t <= m => MovedLeft(k)[m].start = 0
<1>1. k \in 0..N - 1 /\ k \in Int /\ k + 1 \in 0..N - 1 /\ k + 1 \in 0..N /\ N - 1 \in 0..N - 1
  BY NFacts
<1>2. PICK t : t = Terminator(k + 1)
  OBVIOUS
<1>3. t \in k + 1..N /\ (t = N \/ r[t].start <= 0) /\ \A m \in k + 1..t - 1 : r[m].start > 0
  BY <1>1, <1>2, BelowFacts DEF Terminator
<1>4. t # N
  <2> SUFFICES ASSUME t = N PROVE FALSE
    OBVIOUS
  <2>1. N - 1 \in k + 1..t - 1
    BY <1>1, NFacts
  <2>2. r[N - 1].start > 0 /\ r[N - 1].start = 0
    BY <1>3, <2>1 DEF Sorted
  <2> QED
    BY <2>2
<1>5. t \in k + 1..N - 1 /\ t \in 0..N - 1 /\ t \in Int
  BY <1>1, <1>3, <1>4, NFacts
<1>6. r[t].start = 0
  <2>1. r[t].start \in Nat /\ r[t].start <= 0
    BY <1>3, <1>4, <1>5, EntryTyped
  <2> QED
    BY <2>1
<1>7. ASSUME NEW m \in 0..t - 1
      PROVE  r[m].start # 0
  <2>1. m \in 0..N - 1 /\ m \in Int /\ (m < k \/ m = k \/ m \in k + 1..t - 1)
    BY <1>1, <1>5, NFacts
  <2>2. CASE m < k
    BY <1>1, <2>1, <2>2 DEF Sorted
  <2>3. CASE m \in k + 1..t - 1
    <3>1. r[m].start > 0
      BY <1>3, <2>3
    <3> QED
      BY <3>1
  <2> QED
    BY <2>1, <2>2, <2>3
<1>8. ASSUME NEW m \in 0..N - 1
      PROVE  /\ m < k => MovedLeft(k)[m] = r[m]
             /\ k <= m /\ m < t => MovedLeft(k)[m] = r[m + 1]
             /\ t <= m => MovedLeft(k)[m].start = 0
  <2>1. MovedLeft(k)[m] = IF m \in k..t - 1 THEN r[m + 1] ELSE r[m]
    BY <1>2 DEF MovedLeft, Arrays
  <2>2. m \in k..t - 1 <=> k <= m /\ m < t
    BY <1>1, <1>5
  <2>3. t <= m => r[m].start = 0
    <3>1. CASE t = m
      BY <1>6, <3>1
    <3>2. CASE t < m
      BY <1>5, <1>6, <3>2 DEF Sorted
    <3> QED
      BY <1>5, <3>1, <3>2
  <2>4. /\ m < k => ~(k <= m /\ m < t)
        /\ t <= m => ~(k <= m /\ m < t)
    BY <1>1, <1>5
  <2> QED
    BY <2>1, <2>2, <2>3, <2>4
<1> QED
  BY <1>2, <1>4, <1>5, <1>6, <1>7, <1>8 DEF LeftRunsOff

\* The pages of the entry that is dropped fall to the one below it.
LEMMA Removed ==
    ASSUME r \in Arrays, Sorted(r), NEW k \in 0..N - 2, r[k].start # 0
    PROVE  /\ Sorted(MovedLeft(k))
           /\ \A p \in Nat : TypeIn(MovedLeft(k), p) =
                 IF First(r, 0, p) = k THEN r[k + 1].type ELSE TypeIn(r, p)
<1>1. PICK b : b = MovedLeft(k)
  OBVIOUS
<1>2. /\ k \in 0..N - 1 /\ k \in Int /\ k + 1 \in 0..N - 1
      /\ \A m \in 0..N - 1 : r[m].start \in Nat
  BY NFacts, EntryTyped
<1>3. b \in Arrays /\ ~LeftRunsOff(k)
  BY <1>1, <1>2, LeftFacts, MovedLeftType
<1>4. PICK t \in k + 1..N - 1 :
                 /\ r[t].start = 0 /\ \A m \in 0..t - 1 : r[m].start # 0
                 /\ \A m \in 0..N - 1 :
                       /\ m < k => b[m] = r[m]
                       /\ k <= m /\ m < t => b[m] = r[m + 1]
                       /\ t <= m => b[m].start = 0
  BY <1>1, LeftFacts
<1>5. t \in 0..N - 1 /\ t \in Int /\ k < t
  BY <1>2, NFacts
<1>6. Sorted(b)
  <2>1. b[N - 1].start = 0
    <3>1. N - 1 \in 0..N - 1 /\ t <= N - 1
      BY <1>5, NFacts
    <3> QED
      BY <1>4, <3>1
  <2>2. ASSUME NEW i \in 0..N - 1, NEW j \in 0..N - 1, i < j
        PROVE  IF b[i].start = 0 THEN b[j].start = 0 ELSE b[j].start < b[i].start
    <3>1. i \in Int /\ j \in Int
      BY NFacts
    <3>2. CASE t <= i
      <4>1. t <= j
        BY <1>5, <2>2, <3>1, <3>2
      <4> QED
        BY <1>4, <3>2, <4>1
    <3>3. CASE i < t /\ t <= j
      <4>1. b[i].start \in Nat /\ b[j].start = 0
        BY <1>3, <1>4, <3>3, EntryTyped
      <4> QED
        BY <4>1
    <3>4. CASE j < t
      <4>1. PICK x \in 0..N - 1 : b[i] = r[x] /\ x <= i + 1 /\ (x = i \/ x = i + 1)
                                  /\ (i < k <=> x = i)
        <5>1. i + 1 \in 0..N - 1 /\ (i < k \/ k <= i) /\ i < t
          BY <1>2, <1>5, <2>2, <3>1, <3>4, NFacts
        <5> QED
          BY <1>2, <1>4, <3>1, <5>1
      <4>2. PICK y \in 0..N - 1 : b[j] = r[y] /\ (y = j \/ y = j + 1) /\ (j < k <=> y = j)
        <5>1. j + 1 \in 0..N - 1 /\ (j < k \/ k <= j)
          BY <1>2, <1>5, <3>1, <3>4, NFacts
        <5> QED
          BY <1>2, <1>4, <3>1, <3>4, <5>1
      <4>3. x < y
        BY <1>2, <2>2, <3>1, <4>1, <4>2
      <4> QED
        BY <4>1, <4>2, <4>3 DEF Sorted
    <3> QED
      BY <1>5, <3>1, <3>2, <3>3, <3>4
  <2> QED
    BY <2>1, <2>2 DEF Sorted
<1>7. ASSUME NEW p \in Nat
      PROVE  TypeIn(b, p) = IF First(r, 0, p) = k THEN r[k + 1].type ELSE TypeIn(r, p)
  <2>1. PICK f : f = First(r, 0, p)
    OBVIOUS
  <2>2. f \in 0..N - 1 /\ f \in Int /\ r[f].start <= p /\ \A m \in 0..f - 1 : r[m].start > p
    BY <2>1, FirstInside
  <2>3. f <= t
    BY <1>4, <1>5, <2>1, BelowFirst
  <2>4. \A m \in 0..N - 1 : m < k /\ m < f => b[m].start > p
    BY <1>2, <1>4, <2>2
  <2>5. CASE f < k
    <3>1. b[f] = r[f]
      BY <1>4, <2>2, <2>5
    <3>2. \A m \in 0..f - 1 : b[m].start > p
      <4>1. \A m \in 0..f - 1 : m \in 0..N - 1 /\ m < k /\ m < f
        BY <1>2, <2>2, <2>5, NFacts
      <4> QED
        BY <2>4, <4>1
    <3>3. First(b, 0, p) = f
      BY <1>3, <2>2, <3>1, <3>2, FirstIsInside
    <3>4. f # k
      BY <1>2, <2>2, <2>5
    <3> QED
      BY <2>1, <3>1, <3>3, <3>4 DEF TypeIn
  <2>6. CASE f = k
    <3>1. b[k] = r[k + 1]
      BY <1>2, <1>4, <1>5
    <3>2. r[k + 1].start < r[k].start
      <4>1. k < k + 1
        BY <1>2
      <4> QED
        BY <1>2, <4>1 DEF Sorted
    <3>3. b[k].start <= p
      BY <1>2, <2>2, <2>6, <3>1, <3>2
    <3>4. \A m \in 0..k - 1 : b[m].start > p
      <4>1. \A m \in 0..k - 1 : m \in 0..N - 1 /\ m < k /\ m < f
        BY <1>2, <2>6, NFacts
      <4> QED
        BY <2>4, <4>1
    <3>5. First(b, 0, p) = k
      BY <1>2, <1>3, <3>3, <3>4, FirstIsInside
    <3> QED
      BY <2>1, <2>6, <3>1, <3>5 DEF TypeIn
  <2>7. CASE k < f
    <3>1. PICK g \in 0..N - 1 : g = f - 1
      BY <1>2, <2>2, <2>7, NFacts
    <3>2. k <= g /\ g < t /\ g + 1 = f /\ g \in Int
      BY <1>2, <1>5, <2>2, <2>3, <2>7, <3>1
    <3>3. b[g] = r[f]
      BY <1>4, <3>2
    <3>4. ASSUME NEW m \in 0..g - 1
          PROVE  b[m].start > p
      <4>1. /\ m \in 0..N - 1 /\ m + 1 \in 0..f - 1 /\ m \in 0..f - 1
            /\ m < t /\ (m < k \/ k <= m)
        BY <1>2, <1>5, <2>2, <3>1, <3>2, NFacts
      <4>2. b[m] = r[m] \/ b[m] = r[m + 1]
        BY <1>4, <4>1
      <4>3. r[m].start > p /\ r[m + 1].start > p
        BY <2>2, <4>1
      <4> QED
        BY <4>2, <4>3
    <3>5. First(b, 0, p) = g
      BY <1>3, <2>2, <3>1, <3>3, <3>4, FirstIsInside
    <3>6. f # k
      BY <1>2, <2>2, <2>7
    <3> QED
      BY <2>1, <3>3, <3>5, <3>6 DEF TypeIn
  <2> QED
    BY <1>2, <2>2, <2>5, <2>6, <2>7
<1> QED
  BY <1>1, <1>6, <1>7

-----------------------------------------------------------------------------
(* A map that no insertion has spoiled *)

\* Where the pages end that the insertion still has to see to.
Limit == IF endaligned THEN r[endidx - 1].start ELSE ins.end

Covers(p) == ins.start <= p /\ p < Limit

\* What the loop has placed: startidx is the region that the insertion starts in, and from
\* the second pass on endidx is the first region below the pages that are done.
Placed ==
    Inserting =>
        /\ ins.start < ins.end
        /\ endidx \in 0..startidx /\ startidx \in 0..N - 1
        /\ r[startidx].start <= ins.start
        /\ \A m \in 0..startidx - 1 : r[m].start > ins.start
        /\ IF endaligned
           THEN endidx # 0
           ELSE r[endidx].start <= ins.end /\ \A m \in 0..endidx - 1 : r[m].start > ins.end

\* The map has the highest types, up to the pages that the insertion has not seen to.
Right ==
    stopped = "" => \A p \in Pages :
        want[p] = IF Inserting /\ Covers(p) /\ TypeIn(r, p) < ins.type
                  THEN ins.type ELSE TypeIn(r, p)

CleanInv == clean => Sorted(r) /\ Placed /\ Right /\ r[0].type = NONE

LEMMA TypeInType ==
    ASSUME NEW a \in Arrays, Sorted(a), NEW p \in Nat
    PROVE  TypeIn(a, p) \in Types /\ TypeIn(a, p) \in Int
<1>1. TypeIn(a, p) \in Types
  BY FirstInside, EntryTyped DEF TypeIn
<1> QED
  BY <1>1 DEF Types, NONE, RSVD

LEMMA PlacesFacts ==
    ASSUME TInv, CleanInv, clean, Inserting
    PROVE  /\ r \in Arrays /\ Sorted(r) /\ Placed /\ Right /\ r[0].type = NONE
           /\ ins.start \in Nat /\ ins.end \in Nat /\ ins.type \in Types /\ ins.type \in Int
           /\ ins.start < ins.end /\ InArray
           /\ endidx \in 0..N - 1 /\ startidx \in 0..N - 1 /\ endidx \in Int /\ startidx \in Int
           /\ endidx <= startidx /\ r[startidx].start <= ins.start
           /\ \A m \in 0..startidx - 1 : r[m].start > ins.start
           /\ \A m \in 0..N - 1 : r[m].start \in Nat /\ r[m].type \in Int
<1>1. r \in Arrays /\ Sorted(r) /\ Placed /\ Right /\ r[0].type = NONE
  BY ArrayTyped DEF CleanInv
<1>2. ins.start \in Nat /\ ins.end \in Nat /\ ins.type \in Types
  BY DEF TInv, TypeOK
<1>3. /\ ins.start < ins.end /\ endidx \in 0..startidx /\ startidx \in 0..N - 1
      /\ r[startidx].start <= ins.start /\ \A m \in 0..startidx - 1 : r[m].start > ins.start
  BY <1>1 DEF Placed
<1>4. /\ endidx \in 0..N - 1 /\ endidx \in Int /\ startidx \in Int /\ endidx <= startidx
      /\ endidx < N /\ startidx < N
  BY <1>3, NFacts
<1>5. ins.type \in Int
  BY <1>2 DEF Types, NONE, RSVD
<1>6. \A m \in 0..N - 1 : r[m].start \in Nat /\ r[m].type \in Int
  BY <1>1, EntryTyped DEF Types, NONE, RSVD
<1> QED
  BY <1>1, <1>2, <1>3, <1>4, <1>5, <1>6 DEF InArray

\* The regions above endidx start where the pages end that are left, or above.
LEMMA AboveLimit ==
    ASSUME TInv, CleanInv, clean, Inserting
    PROVE  /\ Limit \in Nat
           /\ \A m \in 0..endidx - 1 : r[m].start >= Limit
           /\ r[endidx].start <= Limit
           /\ endaligned => endidx - 1 \in 0..N - 1 /\ r[endidx].start < Limit
           /\ ins.start < Limit
<1> USE PlacesFacts
<1>1. CASE ~endaligned
  <2>1. r[endidx].start <= ins.end /\ \A m \in 0..endidx - 1 : r[m].start > ins.end
    BY <1>1 DEF Placed
  <2>2. Limit = ins.end
    BY <1>1 DEF Limit
  <2>3. \A m \in 0..endidx - 1 : r[m].start >= ins.end
    <3> SUFFICES ASSUME NEW m \in 0..endidx - 1 PROVE r[m].start >= ins.end
      OBVIOUS
    <3>1. m \in 0..N - 1
      BY NFacts
    <3>2. r[m].start \in Nat /\ r[m].start > ins.end /\ ins.end \in Nat
      BY <2>1, <3>1
    <3> QED
      BY <3>2
  <2> QED
    BY <1>1, <2>1, <2>2, <2>3
<1>2. CASE endaligned
  <2>1. endidx # 0
    BY <1>2 DEF Placed
  <2>2. PICK n \in 0..N - 1 : n = endidx - 1 /\ n < endidx /\ n \in 0..startidx - 1
    BY <2>1, NFacts
  <2>3. Limit = r[n].start
    BY <1>2, <2>2 DEF Limit
  <2>4. r[n].start > ins.start /\ r[n].start \in Nat /\ r[n].start # 0
    BY <2>2
  <2>5. r[endidx].start < r[n].start
    BY <2>2, <2>4 DEF Sorted
  <2>6. ASSUME NEW m \in 0..endidx - 1
        PROVE  r[m].start >= r[n].start
    <3>1. m \in 0..N - 1 /\ m \in 0..startidx - 1 /\ (m = n \/ m < n)
      BY <2>2, NFacts
    <3>2. r[m].start > ins.start /\ r[m].start \in Nat
      BY <3>1
    <3>3. m < n => r[n].start < r[m].start
      BY <2>2, <3>1, <3>2 DEF Sorted
    <3> QED
      BY <2>4, <3>1, <3>2, <3>3
  <2> QED
    BY <1>2, <2>2, <2>3, <2>4, <2>5, <2>6
<1> QED
  BY <1>1, <1>2

\* The pages that are left in the region at endidx.
LEMMA FirstLeft ==
    ASSUME TInv, CleanInv, clean, Inserting, NEW p \in Nat
    PROVE  /\ r[endidx].start <= p /\ p < Limit => First(r, 0, p) = endidx
           /\ endaligned /\ First(r, 0, p) = endidx => r[endidx].start <= p /\ p < Limit
<1>1. /\ r \in Arrays /\ Sorted(r) /\ endidx \in 0..N - 1 /\ Limit \in Nat
      /\ \A m \in 0..N - 1 : r[m].start \in Nat
      /\ \A m \in 0..endidx - 1 : r[m].start >= Limit
      /\ endaligned => endidx - 1 \in 0..N - 1
  BY PlacesFacts, AboveLimit
<1>2. ASSUME r[endidx].start <= p, p < Limit
      PROVE  First(r, 0, p) = endidx
  <2>1. \A m \in 0..endidx - 1 : r[m].start > p
    <3> SUFFICES ASSUME NEW m \in 0..endidx - 1 PROVE r[m].start > p
      OBVIOUS
    <3>1. m \in 0..N - 1
      BY <1>1, NFacts
    <3>2. r[m].start \in Nat /\ r[m].start >= Limit
      BY <1>1, <3>1
    <3> QED
      BY <1>1, <1>2, <3>2
  <2> QED
    BY <1>1, <1>2, <2>1, FirstIsInside
<1>3. ASSUME endaligned, First(r, 0, p) = endidx
      PROVE  r[endidx].start <= p /\ p < Limit
  <2>1. r[endidx].start <= p /\ \A m \in 0..endidx - 1 : r[m].start > p
    BY <1>1, <1>3, FirstInside
  <2>2. endidx - 1 \in 0..endidx - 1 /\ Limit = r[endidx - 1].start
    BY <1>1, <1>3, NFacts DEF Limit
  <2> QED
    BY <1>1, <2>1, <2>2
<1> QED
  BY <1>2, <1>3

\* The kernel stops.
LEMMA StopClean ==
    ASSUME TInv, CleanInv, NEW how, how # "", Stop(how), clean' => clean
    PROVE  CleanInv'
  BY DEF CleanInv, Placed, Right, Stop, Inserting

\* The next pass of the loop, with the array it leaves: what it has to show.
LEMMA PassClean ==
    ASSUME TInv, CleanInv, clean, Inserting, NEW e, NEW s,
           e \in 1..s, s \in 0..N - 1, endidx' = e, startidx' = s, endaligned' = TRUE,
           UNCHANGED <<ins, stopped>>, UNCHANGED Boot,
           Sorted(r'), r'[0].type = NONE, r'[s].start <= ins.start,
           \A m \in 0..s - 1 : r'[m].start > ins.start,
           \A p \in Pages :
              want[p] = IF ins.start <= p /\ p < r'[e - 1].start /\ TypeIn(r', p) < ins.type
                        THEN ins.type ELSE TypeIn(r', p)
    PROVE  CleanInv'
<1>1. Inserting'
  BY DEF Inserting
<1>2. Placed'
  <2>1. ins.start < ins.end
    BY PlacesFacts
  <2>2. e \in 0..s /\ e # 0
    BY NFacts
  <2> QED
    BY <2>1, <2>2 DEF Placed
<1>3. Right'
  <2>1. Limit' = r'[e - 1].start
    BY DEF Limit
  <2> QED
    BY <1>1, <2>1 DEF Right, Covers, Boot
<1> QED
  BY <1>2, <1>3 DEF CleanInv

LEMMA SkipClean ==
    ASSUME TInv, CleanInv, clean, LoopSkipHigher
    PROVE  CleanInv'
<1>1. /\ Inserting /\ endidx < startidx /\ r[endidx].type >= ins.type
      /\ r' = r /\ endidx' = endidx + 1 /\ startidx' = startidx /\ endaligned' = TRUE
      /\ UNCHANGED <<ins, stopped>> /\ UNCHANGED Boot /\ stopped = ""
  BY DEF LoopSkipHigher, InLoop, Continue, OutsideLoop, Boot, Inserting
<1>2. /\ endidx + 1 \in 1..startidx /\ startidx \in 0..N - 1 /\ (endidx + 1) - 1 = endidx
      /\ endidx \in 0..startidx - 1
  <2>1. endidx \in 0..N - 1 /\ startidx \in 0..N - 1 /\ endidx < startidx
    BY <1>1, PlacesFacts
  <2> QED
    BY <2>1, NFacts
<1>3. ASSUME NEW p \in Pages
      PROVE  want[p] = IF ins.start <= p /\ p < r[endidx].start /\ TypeIn(r, p) < ins.type
                       THEN ins.type ELSE TypeIn(r, p)
  <2>1. p \in Nat /\ TypeIn(r, p) \in Int
    BY <1>1, PlacesFacts, MapAssumption, TypeInType
  <2>2. want[p] = IF Covers(p) /\ TypeIn(r, p) < ins.type THEN ins.type ELSE TypeIn(r, p)
    BY <1>1, PlacesFacts DEF Right
  <2>3. /\ r[endidx].start <= Limit /\ Limit \in Nat /\ r[endidx].start \in Nat
        /\ r[endidx].type \in Int /\ ins.type \in Int
    BY <1>1, PlacesFacts, AboveLimit
  <2>4. r[endidx].start <= p /\ p < Limit => TypeIn(r, p) = r[endidx].type
    BY <1>1, <2>1, FirstLeft DEF TypeIn
  <2>5. ins.start < r[endidx].start /\ ins.start \in Nat
    <3>1. r[endidx].start > ins.start /\ r[endidx].start \in Nat /\ ins.start \in Nat
      BY <1>1, <1>2, PlacesFacts
    <3> QED
      BY <3>1
  <2>6. CASE r[endidx].start <= p /\ p < Limit
    <3>1. TypeIn(r, p) = r[endidx].type /\ r[endidx].type >= ins.type
      BY <1>1, <2>4, <2>6
    <3>2. ~(TypeIn(r, p) < ins.type)
      BY <2>3, <3>1
    <3> QED
      BY <2>2, <3>2
  <2>7. CASE ~(r[endidx].start <= p /\ p < Limit)
    <3>1. Covers(p) <=> ins.start <= p /\ p < r[endidx].start
      BY <2>1, <2>3, <2>5, <2>7 DEF Covers
    <3> QED
      BY <2>2, <3>1
  <2> QED
    BY <2>6, <2>7
<1> QED
  BY <1>1, <1>2, <1>3, PlacesFacts, PassClean

LEMMA RetypeClean ==
    ASSUME TInv, CleanInv, clean, LoopRetype
    PROVE  CleanInv'
<1>1. /\ Inserting /\ endidx < startidx /\ r[endidx].type < ins.type /\ endaligned
      /\ r' = SetType(r, endidx, ins.type)
      /\ endidx' = endidx + 1 /\ startidx' = startidx /\ endaligned' = TRUE
      /\ UNCHANGED <<ins, stopped>> /\ UNCHANGED Boot /\ stopped = ""
  BY DEF LoopRetype, InLoop, Continue, OutsideLoop, Boot, Inserting
<1>2. /\ endidx + 1 \in 1..startidx /\ startidx \in 0..N - 1 /\ (endidx + 1) - 1 = endidx
      /\ endidx \in 0..N - 1 /\ startidx # endidx /\ endidx # 0 /\ endidx \in 0..startidx - 1
      /\ r \in Arrays /\ Sorted(r) /\ ins.type \in Types
  <2>1. endidx # 0
    BY <1>1, PlacesFacts DEF Placed
  <2>2. /\ endidx \in 0..N - 1 /\ startidx \in 0..N - 1
        /\ r \in Arrays /\ Sorted(r) /\ ins.type \in Types /\ endidx < startidx
    BY <1>1, PlacesFacts
  <2> QED
    BY <2>1, <2>2, NFacts
<1>3. /\ r' \in Arrays /\ r'[endidx] = Reg(r[endidx].start, ins.type)
      /\ \A m \in 0..N - 1 : m # endidx => r'[m] = r[m]
  <2>1. r[endidx] = Reg(r[endidx].start, r[endidx].type)
    BY <1>2, EntryTyped
  <2>2. r'[endidx] = Reg(r[endidx].start, ins.type)
    BY <1>1, <1>2, <2>1 DEF SetType, Arrays, Reg
  <2> QED
    BY <1>1, <1>2, <2>2, SetTypeType DEF SetType, Arrays
<1>4. \A m \in 0..endidx - 1 : r[m].start > r[endidx].start
  <2> SUFFICES ASSUME NEW m \in 0..endidx - 1 PROVE r[m].start > r[endidx].start
    OBVIOUS
  <2>1. m \in 0..N - 1
    BY <1>2, NFacts
  <2>2. r[m].start \in Nat /\ r[m].start >= Limit /\ Limit \in Nat /\ r[endidx].start < Limit
        /\ r[endidx].start \in Nat
    BY <1>1, <1>2, <2>1, PlacesFacts, AboveLimit
  <2> QED
    BY <2>2
<1>5. /\ Sorted(r')
      /\ \A p \in Nat : TypeIn(r', p) = IF First(r, 0, p) = endidx THEN ins.type
                                        ELSE TypeIn(r, p)
  BY <1>2, <1>3, <1>4, Retyped
<1>6. \A m \in 0..N - 1 : r'[m].start = r[m].start
  BY <1>3 DEF Reg
<1>7. /\ r'[0].type = NONE /\ r'[startidx].start <= ins.start
      /\ \A m \in 0..startidx - 1 : r'[m].start > ins.start
  <2>1. \A m \in 0..startidx - 1 : m \in 0..N - 1
    BY <1>2, NFacts
  <2>2. 0 \in 0..N - 1
    BY NFacts
  <2> QED
    BY <1>1, <1>2, <1>3, <1>6, <2>1, <2>2, PlacesFacts
<1>8. ASSUME NEW p \in Pages
      PROVE  want[p] = IF ins.start <= p /\ p < r'[endidx].start /\ TypeIn(r', p) < ins.type
                       THEN ins.type ELSE TypeIn(r', p)
  <2>1. p \in Nat /\ TypeIn(r, p) \in Int
    BY <1>2, MapAssumption, TypeInType
  <2>2. want[p] = IF Covers(p) /\ TypeIn(r, p) < ins.type THEN ins.type ELSE TypeIn(r, p)
    BY <1>1, PlacesFacts DEF Right
  <2>3. /\ r[endidx].start < Limit /\ Limit \in Nat /\ r[endidx].start \in Nat
        /\ r[endidx].type \in Int /\ ins.type \in Int
        /\ ins.start \in Nat /\ ins.start < r[endidx].start
    <3>1. /\ r[endidx].start > ins.start /\ r[endidx].start \in Nat /\ ins.start \in Nat
          /\ r[endidx].type \in Int /\ ins.type \in Int
      BY <1>1, <1>2, PlacesFacts
    <3>2. r[endidx].start < Limit /\ Limit \in Nat
      BY <1>1, AboveLimit
    <3> QED
      BY <3>1, <3>2
  <2>4. r'[endidx].start = r[endidx].start
    BY <1>2, <1>6
  <2>5. First(r, 0, p) = endidx <=> r[endidx].start <= p /\ p < Limit
    BY <1>1, <2>1, FirstLeft
  <2>6. CASE First(r, 0, p) = endidx
    <3>1. TypeIn(r, p) = r[endidx].type /\ TypeIn(r', p) = ins.type
      BY <1>5, <2>1, <2>6 DEF TypeIn
    <3>2. Covers(p)
      BY <2>1, <2>3, <2>5, <2>6 DEF Covers
    <3> QED
      BY <1>1, <2>2, <2>3, <3>1, <3>2
  <2>7. CASE First(r, 0, p) # endidx
    <3>1. TypeIn(r', p) = TypeIn(r, p)
      BY <1>5, <2>1, <2>7
    <3>2. Covers(p) <=> ins.start <= p /\ p < r[endidx].start
      BY <2>1, <2>3, <2>5, <2>7 DEF Covers
    <3> QED
      BY <2>2, <2>4, <3>1, <3>2
  <2> QED
    BY <2>6, <2>7
<1> QED
  BY <1>1, <1>2, <1>5, <1>7, <1>8, PassClean

LEMMA ExtendClean ==
    ASSUME TInv, CleanInv, clean, LoopExtendNext
    PROVE  CleanInv'
<1>1. /\ Inserting /\ endidx < startidx /\ r[endidx].type < ins.type /\ ~endaligned
      /\ r[endidx + 1].type = ins.type /\ r' = SetStart(r, endidx, ins.end)
      /\ endidx' = endidx + 1 /\ startidx' = startidx /\ endaligned' = TRUE
      /\ UNCHANGED <<ins, stopped>> /\ UNCHANGED Boot /\ stopped = ""
  BY DEF LoopExtendNext, InLoop, Continue, OutsideLoop, Boot, Inserting
<1>2. /\ endidx + 1 \in 1..startidx /\ startidx \in 0..N - 1 /\ (endidx + 1) - 1 = endidx
      /\ endidx \in 0..N - 1 /\ endidx \in 0..N - 2 /\ startidx # endidx
      /\ endidx \in 0..startidx - 1
      /\ r \in Arrays /\ Sorted(r) /\ ins.end \in Nat /\ ins.start \in Nat /\ ins.start < ins.end
  <2>1. /\ endidx \in 0..N - 1 /\ startidx \in 0..N - 1
        /\ r \in Arrays /\ Sorted(r) /\ endidx < startidx
        /\ ins.end \in Nat /\ ins.start \in Nat /\ ins.start < ins.end
    BY <1>1, PlacesFacts
  <2> QED
    BY <2>1, NFacts
<1>3. r[endidx].start # 0 /\ r[endidx].start \in Nat /\ ins.start < r[endidx].start
      /\ r[endidx].type \in Int /\ ins.type \in Int
  <2>1. /\ r[endidx].start > ins.start /\ r[endidx].start \in Nat /\ ins.start \in Nat
        /\ r[endidx].type \in Int /\ ins.type \in Int
    BY <1>1, <1>2, PlacesFacts
  <2> QED
    BY <2>1
<1>4. r[endidx].start <= ins.end /\ \A m \in 0..endidx - 1 : r[m].start > ins.end
  BY <1>1, PlacesFacts DEF Placed
<1>5. /\ Sorted(r')
      /\ \A p \in Nat : TypeIn(r', p) =
            IF First(r, 0, p) = endidx /\ p < ins.end THEN ins.type ELSE TypeIn(r, p)
  <2>1. /\ Sorted(SetStart(r, endidx, ins.end))
        /\ \A p \in Nat : TypeIn(SetStart(r, endidx, ins.end), p) =
              IF First(r, 0, p) = endidx /\ p < ins.end
              THEN r[endidx + 1].type ELSE TypeIn(r, p)
    BY <1>2, <1>3, <1>4, StartRaised
  <2> QED
    BY <1>1, <2>1
<1>6. /\ r'[endidx].start = ins.end /\ r'[endidx].type = r[endidx].type
      /\ \A m \in 0..N - 1 : m # endidx => r'[m] = r[m]
  <2>1. r[endidx] = Reg(r[endidx].start, r[endidx].type)
    BY <1>2, EntryTyped
  <2>2. r'[endidx] = Reg(ins.end, r[endidx].type)
    BY <1>1, <1>2, <2>1 DEF SetStart, Arrays, Reg
  <2> QED
    BY <1>1, <1>2, <2>2 DEF SetStart, Arrays, Reg
<1>7. /\ r'[0].type = NONE /\ r'[startidx].start <= ins.start
      /\ \A m \in 0..startidx - 1 : r'[m].start > ins.start
  <2>1. \A m \in 0..startidx - 1 : m \in 0..N - 1
    BY <1>2, NFacts
  <2>2. 0 \in 0..N - 1
    BY NFacts
  <2>3. /\ r[0].type = NONE /\ r[startidx].start <= ins.start
        /\ \A m \in 0..startidx - 1 : r[m].start > ins.start
    BY <1>1, PlacesFacts
  <2>4. r'[endidx].start > ins.start
    BY <1>2, <1>6
  <2> QED
    BY <1>2, <1>6, <2>1, <2>2, <2>3, <2>4
<1>8. ASSUME NEW p \in Pages
      PROVE  want[p] = IF ins.start <= p /\ p < r'[endidx].start /\ TypeIn(r', p) < ins.type
                       THEN ins.type ELSE TypeIn(r', p)
  <2>1. p \in Nat /\ TypeIn(r, p) \in Int
    BY <1>2, MapAssumption, TypeInType
  <2>2. Limit = ins.end
    BY <1>1 DEF Limit
  <2>3. want[p] = IF ins.start <= p /\ p < ins.end /\ TypeIn(r, p) < ins.type
                  THEN ins.type ELSE TypeIn(r, p)
    BY <1>1, <2>2, PlacesFacts DEF Right, Covers
  <2>4. CASE First(r, 0, p) = endidx /\ p < ins.end
    <3>1. TypeIn(r, p) < ins.type /\ TypeIn(r', p) = ins.type
      BY <1>1, <1>5, <2>1, <2>4 DEF TypeIn
    <3>2. r[endidx].start <= p
      BY <1>2, <2>1, <2>4, FirstInside
    <3>3. ins.start <= p
      BY <1>2, <1>3, <2>1, <3>2
    <3> QED
      BY <1>3, <2>3, <2>4, <3>1, <3>3
  <2>5. CASE ~(First(r, 0, p) = endidx /\ p < ins.end)
    BY <1>5, <1>6, <2>1, <2>3, <2>5
  <2> QED
    BY <2>4, <2>5
<1> QED
  BY <1>1, <1>2, <1>5, <1>7, <1>8, PassClean

\* The pages of the region that is dropped get back the type inserted when the loop comes to
\* the region that they have fallen to.
LEMMA DropClean ==
    ASSUME TInv, CleanInv, clean, LoopDropNext
    PROVE  CleanInv'
<1>1. /\ Inserting /\ endidx < startidx /\ r[endidx].type < ins.type /\ endaligned
      /\ r[endidx + 1].type = ins.type /\ stopped = "" /\ UNCHANGED Boot
      /\ clean' = (clean /\ endidx + 1 < startidx /\ r[endidx + 2].type <= ins.type)
      /\ \/ Stop("out_of_bounds")
         \/ Continue(FALSE, MovedLeft(endidx + 1), endidx, startidx - 1, TRUE)
  BY DEF LoopDropNext, InLoop, Inserting
<1>2. CASE ~clean'
  BY <1>2 DEF CleanInv
<1>3. CASE Stop("out_of_bounds")
  BY <1>1, <1>3, StopClean
<1>4. CASE Continue(FALSE, MovedLeft(endidx + 1), endidx, startidx - 1, TRUE) /\ clean'
  <2>1. /\ r' = MovedLeft(endidx + 1) /\ endidx' = endidx /\ startidx' = startidx - 1
        /\ endaligned' = TRUE /\ UNCHANGED <<ins, stopped>>
        /\ endidx + 1 < startidx /\ r[endidx + 2].type <= ins.type
    BY <1>1, <1>4 DEF Continue
  <2>2. /\ endidx \in 0..N - 1 /\ startidx \in 0..N - 1 /\ endidx \in Int /\ startidx \in Int
        /\ r \in Arrays /\ Sorted(r) /\ ins.start \in Nat /\ ins.type \in Int
        /\ r[0].type = NONE /\ r[startidx].start <= ins.start
        /\ \A m \in 0..startidx - 1 : r[m].start > ins.start
        /\ \A m \in 0..N - 1 : r[m].start \in Nat /\ r[m].type \in Int
        /\ endidx # 0
    BY <1>1, PlacesFacts DEF Placed
  <2>3. PICK k \in 0..N - 2 : /\ k = endidx + 1 /\ k \in 0..startidx - 1 /\ k + 1 = endidx + 2
                              /\ k \in 0..N - 1 /\ k + 1 \in 0..N - 1 /\ k < startidx
                              /\ endidx < k /\ 0 < endidx
    BY <2>1, <2>2, NFacts
  <2>4. r[k].start > ins.start /\ r[k].start # 0
    BY <2>2, <2>3
  <2>5. /\ Sorted(r')
        /\ \A p \in Nat : TypeIn(r', p) =
              IF First(r, 0, p) = k THEN r[k + 1].type ELSE TypeIn(r, p)
    BY <2>1, <2>2, <2>3, <2>4, Removed
  <2>6. PICK t \in k + 1..N - 1 :
                 /\ r[t].start = 0 /\ \A m \in 0..t - 1 : r[m].start # 0
                 /\ \A m \in 0..N - 1 :
                       /\ m < k => r'[m] = r[m]
                       /\ k <= m /\ m < t => r'[m] = r[m + 1]
                       /\ t <= m => r'[m].start = 0
    BY <2>1, <2>2, <2>3, <2>4, LeftFacts
  <2>7. startidx <= t /\ t \in Int
    <3> SUFFICES ASSUME t < startidx PROVE FALSE
      BY <2>2, <2>3, NFacts
    <3>1. t \in 0..startidx - 1
      BY <2>2, <2>3, NFacts
    <3>2. r[t].start > ins.start /\ r[t].start = 0
      BY <2>2, <2>6, <3>1
    <3> QED
      BY <2>2, <3>2
  <2>8. PICK s \in 0..N - 1 : s = startidx - 1 /\ k <= s /\ s < t /\ s + 1 = startidx
    BY <2>2, <2>3, <2>7, NFacts
  <2>9. r'[s].start <= ins.start
    BY <2>2, <2>6, <2>8
  <2>10. ASSUME NEW m \in 0..s - 1
         PROVE  r'[m].start > ins.start
    <3>1. /\ m \in 0..N - 1 /\ m \in 0..startidx - 1 /\ m + 1 \in 0..startidx - 1 /\ m < t
          /\ (m < k \/ k <= m)
      BY <2>2, <2>3, <2>7, <2>8, NFacts
    <3>2. r'[m] = r[m] \/ r'[m] = r[m + 1]
      BY <2>6, <3>1
    <3> QED
      BY <2>2, <3>1, <3>2
  <2>11. r'[0].type = NONE
    <3>1. 0 \in 0..N - 1 /\ 0 < k
      BY <2>2, <2>3, NFacts
    <3> QED
      BY <2>2, <2>6, <3>1
  <2>12. PICK u \in 0..N - 1 : u = endidx - 1 /\ u < k
    BY <2>2, <2>3, NFacts
  <2>13. r'[u].start = Limit
    BY <1>1, <2>6, <2>12 DEF Limit
  <2>14. ASSUME NEW p \in Pages
         PROVE  want[p] = IF ins.start <= p /\ p < r'[u].start /\ TypeIn(r', p) < ins.type
                          THEN ins.type ELSE TypeIn(r', p)
    <3>1. p \in Nat /\ TypeIn(r, p) \in Int
      BY <2>2, MapAssumption, TypeInType
    <3>2. want[p] = IF Covers(p) /\ TypeIn(r, p) < ins.type THEN ins.type ELSE TypeIn(r, p)
      BY <1>1, PlacesFacts DEF Right
    <3>3. CASE First(r, 0, p) = k
      <4>1. TypeIn(r, p) = ins.type /\ TypeIn(r', p) = r[k + 1].type
        BY <1>1, <2>3, <2>5, <3>1, <3>3 DEF TypeIn
      <4>2. want[p] = ins.type
        BY <2>2, <3>2, <4>1
      <4>3. r[k].start <= p /\ \A m \in 0..k - 1 : r[m].start > p
        BY <2>2, <3>1, <3>3, FirstInside
      <4>4. ins.start <= p
        BY <2>2, <2>3, <2>4, <3>1, <4>3
      <4>5. p < Limit
        <5>1. u \in 0..k - 1
          BY <2>2, <2>3, <2>12
        <5>2. r[u].start > p /\ r[u].start = Limit /\ r[u].start \in Nat
          BY <1>1, <2>2, <2>12, <4>3, <5>1 DEF Limit
        <5> QED
          BY <3>1, <5>2
      <4>6. r[k + 1].type \in Int /\ r[k + 1].type <= ins.type
        BY <2>1, <2>2, <2>3
      <4> QED
        BY <2>2, <2>13, <4>1, <4>2, <4>4, <4>5, <4>6
    <3>4. CASE First(r, 0, p) # k
      BY <2>5, <2>13, <3>1, <3>2, <3>4 DEF Covers
    <3> QED
      BY <3>3, <3>4
  <2>15. PICK e : e = endidx
    OBVIOUS
  <2>16. e \in 1..s
    BY <2>2, <2>3, <2>8, <2>15
  <2>17. u = e - 1
    BY <2>12, <2>15
  <2> QED
    BY <1>1, <2>1, <2>5, <2>8, <2>9, <2>10, <2>11, <2>14, <2>15, <2>16, <2>17, PassClean
<1> QED
  BY <1>1, <1>2, <1>3, <1>4

-----------------------------------------------------------------------------
(* After the loop *)

\* The insertion returns, with the pages that were left overlaid.
LEMMA OverlayClean ==
    ASSUME TInv, CleanInv, clean, AfterLoop, r[endidx].type < ins.type,
           Overlaid(r, r', ins.start, Limit, ins.type), ins' = NoIns,
           UNCHANGED stopped, UNCHANGED OutsideLoop
    PROVE  CleanInv'
<1>1. Inserting /\ stopped = "" /\ ~Inserting'
  BY DEF AfterLoop, Inserting
<1>2. Right'
  <2> SUFFICES ASSUME NEW p \in Pages
               PROVE  want'[p] = TypeIn(r', p)
    BY <1>1 DEF Right
  <2>1. p \in Nat /\ ins.start \in Nat
    BY <1>1, MapAssumption, PlacesFacts
  <2>2. want[p] = IF Covers(p) /\ TypeIn(r, p) < ins.type THEN ins.type ELSE TypeIn(r, p)
    BY <1>1, PlacesFacts DEF Right
  <2>3. TypeIn(r', p) = IF Covers(p) THEN ins.type ELSE TypeIn(r, p)
    BY <2>1 DEF Overlaid, Covers
  <2>4. ASSUME Covers(p) PROVE TypeIn(r, p) < ins.type
    <3>1. /\ endidx = startidx /\ r[endidx].start <= ins.start /\ r[endidx].start \in Nat
      <4>1. endidx \in Int /\ startidx \in Int /\ endidx <= startidx
        BY <1>1, PlacesFacts
      <4>2. endidx >= startidx
        BY DEF AfterLoop
      <4>3. endidx = startidx
        BY <4>1, <4>2
      <4> QED
        BY <1>1, <4>3, PlacesFacts
    <3>2. r[endidx].start <= p /\ p < Limit
      BY <2>1, <2>4, <3>1 DEF Covers
    <3>3. First(r, 0, p) = endidx
      BY <1>1, <2>1, <3>2, FirstLeft
    <3> QED
      BY <3>3 DEF TypeIn
  <2> QED
    BY <2>2, <2>3, <2>4 DEF OutsideLoop
<1>3. Sorted(r') /\ Placed' /\ r'[0].type = NONE
  BY <1>1, PlacesFacts DEF Overlaid, Placed
<1> QED
  BY <1>2, <1>3 DEF CleanInv

LEMMA FinishFacts ==
    ASSUME TInv, CleanInv, clean, AfterLoop
    PROVE  /\ Inserting /\ stopped = "" /\ endidx = startidx
           /\ r[startidx].start <= ins.start /\ r[startidx].start < Limit
           /\ Limit \in Nat /\ ins.start < Limit
           /\ \A m \in 0..startidx - 1 : r[m].start >= Limit
<1>1. Inserting /\ stopped = ""
  BY DEF AfterLoop, Inserting
<1>2. endidx \in Int /\ startidx \in Int /\ endidx <= startidx
  BY <1>1, PlacesFacts
<1>3. endidx >= startidx
  BY DEF AfterLoop
<1>4. endidx = startidx
  BY <1>2, <1>3
<1>5. /\ r[startidx].start <= ins.start /\ r[startidx].start \in Nat /\ ins.start \in Nat
      /\ Limit \in Nat /\ ins.start < Limit
      /\ \A m \in 0..startidx - 1 : r[m].start >= Limit
  BY <1>1, <1>4, PlacesFacts, AboveLimit
<1>6. r[startidx].start < Limit
  BY <1>5
<1> QED
  BY <1>1, <1>4, <1>5, <1>6

LEMMA CoveredClean ==
    ASSUME TInv, CleanInv, clean, FinishCovered
    PROVE  CleanInv'
<1>1. /\ AfterLoop /\ r' = r /\ ins' = NoIns /\ UNCHANGED stopped /\ UNCHANGED OutsideLoop
      /\ r[endidx].type >= ins.type
  BY DEF FinishCovered, Return
<1>2. Inserting /\ ~Inserting' /\ endidx = startidx
  BY <1>1, FinishFacts DEF Inserting
<1>3. /\ r \in Arrays /\ Sorted(r) /\ r[0].type = NONE /\ ins.type \in Int
      /\ r[endidx].type \in Int /\ r[endidx].start \in Nat /\ ins.start \in Nat
      /\ r[endidx].start <= ins.start
  BY <1>2, PlacesFacts
<1>4. ASSUME NEW p \in Pages
      PROVE  want[p] = TypeIn(r, p)
  <2>1. p \in Nat /\ TypeIn(r, p) \in Int
    BY <1>3, MapAssumption, TypeInType
  <2>2. want[p] = IF Covers(p) /\ TypeIn(r, p) < ins.type THEN ins.type ELSE TypeIn(r, p)
    BY <1>1, <1>2, FinishFacts, PlacesFacts DEF Right
  <2>3. ASSUME Covers(p) PROVE ~(TypeIn(r, p) < ins.type)
    <3>1. r[endidx].start <= p /\ p < Limit
      BY <1>3, <2>1, <2>3 DEF Covers
    <3>2. TypeIn(r, p) = r[endidx].type
      BY <1>2, <2>1, <3>1, FirstLeft DEF TypeIn
    <3>3. r[endidx].type >= ins.type
      BY <1>1
    <3> QED
      BY <1>3, <3>2, <3>3
  <2> QED
    BY <2>2, <2>3
<1>5. Right'
  BY <1>1, <1>2, <1>4 DEF Right, OutsideLoop
<1> QED
  BY <1>1, <1>2, <1>3, <1>5 DEF CleanInv, Placed

LEMMA FinishRetypeClean ==
    ASSUME TInv, CleanInv, clean, FinishRetype
    PROVE  CleanInv'
<1>1. /\ AfterLoop /\ r' = SetType(r, startidx, ins.type) /\ ins' = NoIns
      /\ UNCHANGED stopped /\ UNCHANGED OutsideLoop
      /\ r[endidx].type < ins.type /\ endaligned /\ r[startidx].start = ins.start
  BY DEF FinishRetype, Return
<1>2. /\ Inserting /\ endidx = startidx /\ Limit \in Nat /\ r[startidx].start < Limit
      /\ \A m \in 0..startidx - 1 : r[m].start >= Limit
  BY <1>1, FinishFacts
<1>3. /\ r \in Arrays /\ Sorted(r) /\ startidx \in 0..N - 1 /\ ins.type \in Types
      /\ startidx # 0 /\ r[startidx].start \in Nat
  BY <1>1, <1>2, PlacesFacts DEF Placed
<1>4. /\ r' \in Arrays /\ r'[startidx] = Reg(r[startidx].start, ins.type)
      /\ \A m \in 0..N - 1 : m # startidx => r'[m] = r[m]
  <2>1. r[startidx] = Reg(r[startidx].start, r[startidx].type)
    BY <1>3, EntryTyped
  <2>2. r'[startidx] = Reg(r[startidx].start, ins.type)
    BY <1>1, <1>3, <2>1 DEF SetType, Arrays, Reg
  <2> QED
    BY <1>1, <1>3, <2>2, SetTypeType DEF SetType, Arrays
<1>5. \A m \in 0..startidx - 1 : r[m].start > r[startidx].start
  <2> SUFFICES ASSUME NEW m \in 0..startidx - 1 PROVE r[m].start > r[startidx].start
    OBVIOUS
  <2>1. m \in 0..N - 1
    BY <1>3, NFacts
  <2>2. r[m].start \in Nat /\ r[m].start >= Limit
    BY <1>2, <1>3, <2>1, EntryTyped
  <2> QED
    BY <1>2, <1>3, <2>2
<1>6. /\ Sorted(r')
      /\ \A p \in Nat : TypeIn(r', p) = IF First(r, 0, p) = startidx THEN ins.type
                                        ELSE TypeIn(r, p)
  BY <1>3, <1>4, <1>5, Retyped
<1>7. \A p \in Nat : First(r, 0, p) = startidx <=> ins.start <= p /\ p < Limit
  BY <1>1, <1>2, FirstLeft
<1>8. r'[0].type = r[0].type
  BY <1>3, <1>4, NFacts
<1>9. Overlaid(r, r', ins.start, Limit, ins.type)
  BY <1>4, <1>6, <1>7, <1>8 DEF Overlaid
<1> QED
  BY <1>1, <1>9, OverlayClean

LEMMA FinishAlignedClean ==
    ASSUME TInv, CleanInv, clean, FinishAligned
    PROVE  CleanInv'
<1>1. /\ AfterLoop /\ UNCHANGED OutsideLoop
      /\ r[endidx].type < ins.type /\ endaligned /\ r[startidx].start # ins.start
  BY DEF FinishAligned
<1>2. CASE NoRoom(startidx, 1)
  BY <1>1, <1>2, StopClean DEF FinishAligned, Return, OutsideLoop
<1>3. CASE ~NoRoom(startidx, 1)
  <2>1. /\ r' = [MovedRight(startidx, 1) EXCEPT ![startidx] = Reg(ins.start, ins.type)]
        /\ ins' = NoIns /\ UNCHANGED stopped
    BY <1>3 DEF FinishAligned, Return
  <2>2. /\ Inserting /\ endidx = startidx /\ Limit \in Nat /\ ins.start < Limit
        /\ \A m \in 0..startidx - 1 : r[m].start >= Limit
    BY <1>1, FinishFacts
  <2>3. /\ r \in Arrays /\ Sorted(r) /\ startidx \in 0..N - 1
        /\ ins.start \in Nat /\ ins.type \in Types /\ startidx # 0
        /\ r[startidx].start < ins.start
        /\ \A m \in 0..startidx - 1 : r[m].start > ins.start
    <3>1. startidx # 0
      BY <1>1, <2>2, PlacesFacts DEF Placed
    <3>2. /\ r \in Arrays /\ Sorted(r) /\ startidx \in 0..N - 1
          /\ ins.start \in Nat /\ ins.type \in Types
          /\ r[startidx].start <= ins.start /\ r[startidx].start \in Nat
          /\ \A m \in 0..startidx - 1 : r[m].start > ins.start
      BY <2>2, PlacesFacts
    <3> QED
      BY <1>1, <3>1, <3>2
  <2>4. PICK b : b = Inserted(r, startidx, ins.start, ins.type)
    OBVIOUS
  <2>5. SameMap(r', b) /\ startidx \in 0..N - 2 /\ r[N - 2].start = 0
    BY <1>3, <2>1, <2>3, <2>4, OneInserted
  <2>6. Fits(r, startidx, ins.start)
    BY <2>3 DEF Fits
  <2>7. b \in Arrays /\ b[0] = r[0] /\ r' \in Arrays
    <3>1. 0 \in 0..N - 1 /\ 0 < startidx /\ startidx \in 0..N
      BY <2>3, NFacts
    <3>2. b \in Arrays /\ \A m \in 0..N - 1 : m < startidx => b[m] = r[m]
      BY <2>3, <2>4, InsertedEntries
    <3>3. MovedRight(startidx, 1) \in Arrays
      BY <2>3, <3>1, MovedRightType
    <3> QED
      BY <2>1, <2>3, <3>1, <3>2, <3>3, StoreType
  <2>8. Sorted(b)
    BY <2>3, <2>4, <2>5, <2>6, InsertedSorted
  <2>9. ASSUME NEW p \in Nat
        PROVE  TypeIn(b, p) = IF ins.start <= p /\ p < Limit THEN ins.type ELSE TypeIn(r, p)
    <3>1. TypeIn(b, p) = IF ins.start <= p /\ First(r, 0, p) = startidx
                         THEN ins.type ELSE TypeIn(r, p)
      BY <2>3, <2>4, <2>5, <2>6, InsertedTypes
    <3>2. /\ r[startidx].start <= p /\ p < Limit => First(r, 0, p) = startidx
          /\ First(r, 0, p) = startidx => p < Limit
      BY <1>1, <2>2, FirstLeft
    <3>3. ins.start <= p => r[startidx].start <= p
      <4>1. r[startidx].start \in Nat
        BY <2>3, EntryTyped
      <4> QED
        BY <2>3, <4>1
    <3> QED
      BY <3>1, <3>2, <3>3
  <2>10. Overlaid(r, b, ins.start, Limit, ins.type)
    BY <2>7, <2>8, <2>9 DEF Overlaid
  <2>11. Overlaid(r, r', ins.start, Limit, ins.type)
    BY <2>3, <2>5, <2>7, <2>10, SameOverlaid
  <2> QED
    BY <1>1, <2>1, <2>11, OverlayClean
<1> QED
  BY <1>2, <1>3

\* In the first pass the insertion lies within one region, with a part of it above.
LEMMA FinishAtStartClean ==
    ASSUME TInv, CleanInv, clean, FinishAtStart
    PROVE  CleanInv'
<1>1. /\ AfterLoop /\ UNCHANGED OutsideLoop
      /\ r[endidx].type < ins.type /\ ~endaligned /\ r[startidx].start = ins.start
  BY DEF FinishAtStart
<1>2. CASE NoRoom(startidx, 1)
  BY <1>1, <1>2, StopClean DEF FinishAtStart, Return, OutsideLoop
<1>3. CASE ~NoRoom(startidx, 1)
  <2>1. /\ r' = [SetStart(MovedRight(startidx, 1), startidx, ins.end) EXCEPT
                   ![startidx + 1] = Reg(r[startidx].start, ins.type)]
        /\ ins' = NoIns /\ UNCHANGED stopped
    BY <1>1, <1>3 DEF FinishAtStart, Return
  <2>2. /\ Inserting /\ endidx = startidx /\ r[startidx].start < Limit
        /\ Limit = ins.end
    BY <1>1, FinishFacts DEF Limit
  <2>3. /\ r \in Arrays /\ Sorted(r) /\ startidx \in 0..N - 1
        /\ ins.end \in Nat /\ ins.type \in Types
        /\ \A m \in 0..startidx - 1 : r[m].start > ins.end
    BY <1>1, <2>2, PlacesFacts DEF Placed
  <2>4. PICK b : b = [Inserted(r, startidx, ins.end, r[startidx].type) EXCEPT
                        ![startidx + 1] = Reg(r[startidx].start, ins.type)]
    OBVIOUS
  <2>5. SameMap(r', b) /\ startidx \in 0..N - 2 /\ r[N - 2].start = 0
    BY <1>3, <2>1, <2>3, <2>4, StartInserted
  <2>6. Fits(r, startidx, ins.end)
    BY <2>2, <2>3 DEF Fits
  <2>7. Overlaid(r, b, r[startidx].start, ins.end, ins.type)
    BY <2>3, <2>4, <2>5, <2>6, OverlaidFromStart
  <2>8. b \in Arrays
    BY <2>7 DEF Overlaid
  <2>9. r' \in Arrays
    <3>1. MovedRight(startidx, 1) \in Arrays /\ r[startidx].start \in Nat
      BY <2>3, NFacts, MovedRightType, EntryTyped
    <3>2. SetStart(MovedRight(startidx, 1), startidx, ins.end) \in Arrays
      BY <2>3, <3>1, SetStartType
    <3> QED
      BY <2>1, <2>3, <3>1, <3>2, StoreType
  <2>10. Overlaid(r, r', ins.start, Limit, ins.type)
    BY <1>1, <2>2, <2>3, <2>5, <2>7, <2>8, <2>9, SameOverlaid
  <2> QED
    BY <1>1, <2>1, <2>10, OverlayClean
<1> QED
  BY <1>2, <1>3

LEMMA FinishInsideClean ==
    ASSUME TInv, CleanInv, clean, FinishInside
    PROVE  CleanInv'
<1>1. /\ AfterLoop /\ UNCHANGED OutsideLoop
      /\ r[endidx].type < ins.type /\ ~endaligned /\ r[startidx].start # ins.start
  BY DEF FinishInside
<1>2. CASE NoRoom(startidx, 2)
  BY <1>1, <1>2, StopClean DEF FinishInside, Return, OutsideLoop
<1>3. CASE ~NoRoom(startidx, 2)
  <2>1. /\ r' = SetStart([MovedRight(startidx, 2) EXCEPT
                            ![startidx + 1] = Reg(ins.start, ins.type)], startidx, ins.end)
        /\ ins' = NoIns /\ UNCHANGED stopped
    BY <1>1, <1>3 DEF FinishInside, Return
  <2>2. Inserting /\ endidx = startidx /\ Limit = ins.end
    BY <1>1, FinishFacts DEF Limit
  <2>3. /\ r \in Arrays /\ Sorted(r) /\ startidx \in 0..N - 1
        /\ ins.start \in Nat /\ ins.end \in Nat /\ ins.type \in Types /\ ins.start < ins.end
        /\ \A m \in 0..startidx - 1 : r[m].start > ins.end
    BY <1>1, <2>2, PlacesFacts DEF Placed
  <2>4. r[startidx].start < ins.start
    <3>1. r[startidx].start \in Nat /\ r[startidx].start <= ins.start
      BY <2>2, PlacesFacts
    <3> QED
      BY <1>1, <2>3, <3>1
  <2>5. PICK b : b = Inserted(Inserted(r, startidx, ins.start, ins.type), startidx, ins.end,
                              r[startidx].type)
    OBVIOUS
  <2>6. /\ SameMap(r', b) /\ startidx \in 0..N - 2 /\ r[N - 2].start = 0
        /\ Inserted(r, startidx, ins.start, ins.type)[N - 2].start = 0
    BY <1>3, <2>1, <2>3, <2>5, TwoInserted
  <2>7. Overlaid(r, b, ins.start, ins.end, ins.type)
    BY <2>3, <2>4, <2>5, <2>6, OverlaidInside
  <2>8. b \in Arrays
    BY <2>7 DEF Overlaid
  <2>9. r' \in Arrays
    <3>1. MovedRight(startidx, 2) \in Arrays
      BY <2>3, NFacts, MovedRightType
    <3>2. [MovedRight(startidx, 2) EXCEPT ![startidx + 1] = Reg(ins.start, ins.type)] \in Arrays
      BY <2>3, <3>1, StoreType
    <3> QED
      BY <2>1, <2>3, <3>2, SetStartType
  <2>10. Overlaid(r, r', ins.start, Limit, ins.type)
    BY <2>2, <2>3, <2>6, <2>7, <2>8, <2>9, SameOverlaid
  <2> QED
    BY <1>1, <2>1, <2>10, OverlayClean
<1> QED
  BY <1>2, <1>3

LEMMA InsertClean ==
    ASSUME TInv, CleanInv, clean, InsertStep
    PROVE  CleanInv'
<1>1. ~RunsOffTheArray
  BY PlacesFacts DEF RunsOffTheArray
<1>2. CASE LoopSplit
  BY <1>2 DEF LoopSplit, CleanInv
<1> QED
  BY <1>1, <1>2, SkipClean, RetypeClean, ExtendClean, DropClean, CoveredClean,
     FinishRetypeClean, FinishAlignedClean, FinishAtStartClean, FinishInsideClean
     DEF InsertStep

-----------------------------------------------------------------------------
(* Calls, and the boot *)

\* A call, up to the loop.
LEMMA BeginClean ==
    ASSUME TInv, CleanInv, clean, Idle, NEW s \in Nat, NEW e \in Nat, NEW t \in Types,
           Begin(s, e, t)
    PROVE  CleanInv'
<1>1. r \in Arrays /\ Sorted(r) /\ Right /\ r[0].type = NONE /\ ~Inserting /\ stopped = ""
  BY ArrayTyped DEF CleanInv, Idle, Inserting
<1>2. CASE UNCHANGED <<r, ins, endidx, startidx, endaligned, stopped, want, clean>>
  BY <1>2 DEF CleanInv, Placed, Right, Covers, Limit, Inserting
<1>3. CASE \E how : how # "" /\ Stop(how) /\ UNCHANGED <<want, clean>>
  BY <1>3, StopClean
<1>4. CASE ~clean'
  BY <1>4 DEF CleanInv
<1>5. PICK i, j : i = FirstBelow(0, e) /\ j = FirstBelow(i, s)
  OBVIOUS
<1>6. CASE /\ s < e /\ i # N /\ j # N
           /\ ins' = [start |-> s, end |-> e, type |-> t]
           /\ endidx' = i /\ startidx' = j /\ endaligned' = FALSE
           /\ want' = Raised(s, e, t)
           /\ UNCHANGED <<r, stopped>>
  <2>1. i \in 0..N /\ r[i].start <= e /\ \A m \in 0..i - 1 : r[m].start > e
    BY <1>1, <1>5, <1>6, NFacts, BelowFacts
  <2>2. j \in i..N /\ r[j].start <= s /\ \A m \in i..j - 1 : r[m].start > s
    BY <1>1, <1>5, <1>6, <2>1, BelowFacts
  <2>3. i \in 0..N - 1 /\ j \in 0..N - 1 /\ i \in 0..j
    BY <1>6, <2>1, <2>2, NFacts
  <2>4. ASSUME NEW m \in 0..j - 1
        PROVE  r[m].start > s
    <3>1. m \in 0..N - 1 /\ (m \in 0..i - 1 \/ m \in i..j - 1)
      BY <2>3, NFacts
    <3>2. r[m].start \in Nat
      BY <1>1, <3>1, EntryTyped
    <3>3. r[m].start > e \/ r[m].start > s
      BY <2>1, <2>2, <3>1
    <3> QED
      BY <1>6, <3>2, <3>3
  <2>5. Placed'
    BY <1>6, <2>1, <2>2, <2>3, <2>4 DEF Placed
  <2>6. ASSUME NEW p \in Pages
        PROVE  want'[p] = IF s <= p /\ p < e /\ TypeIn(r, p) < t THEN t ELSE TypeIn(r, p)
    <3>1. p \in Nat
      BY MapAssumption
    <3>2. want[p] = TypeIn(r, p)
      BY <1>1 DEF Right
    <3>3. want'[p] = IF p \in s..e - 1 /\ want[p] < t THEN t ELSE want[p]
      BY <1>6 DEF Raised
    <3>4. p \in s..e - 1 <=> s <= p /\ p < e
      BY <3>1
    <3> QED
      BY <3>2, <3>3, <3>4
  <2>7. Limit' = e /\ Inserting'
    <3>1. [start |-> s, end |-> e, type |-> t] # NoIns
      BY <1>6 DEF NoIns
    <3> QED
      BY <1>1, <1>6, <3>1 DEF Limit, Inserting
  <2>8. Right'
    BY <1>6, <2>6, <2>7 DEF Right, Covers
  <2> QED
    BY <1>1, <1>6, <2>5, <2>8 DEF CleanInv
<1>7. s # e /\ ~(s < e) /\ clean' = (clean /\ s < e) => ~clean'
  OBVIOUS
<1> QED
  BY <1>2, <1>3, <1>4, <1>5, <1>6, <1>7 DEF Begin

LEMMA FillClean ==
    ASSUME TInv, CleanInv, clean, NEW x \in FwEntries, FillEntry(x)
    PROVE  CleanInv'
<1>1. x.start \in Nat /\ x.end \in Nat /\ x.type \in Types /\ Idle
  BY MapAssumption DEF FillEntry, Types, NONE, RSVD
<1>2. \/ Begin(PageUp(x.start), PageDown(x.end), x.type)
      \/ Begin(PageDown(x.start), PageUp(x.end), x.type)
  BY DEF FillEntry
<1> QED
  BY <1>1, <1>2, PageFacts, BeginClean

LEMMA MarkClean ==
    ASSUME TInv, CleanInv, clean, NEW x \in Tables \cup Kernels, MarkTable(x) \/ MarkKernel(x)
    PROVE  CleanInv'
<1>1. x.start \in Nat /\ x.end \in Nat /\ Idle /\ MULTIBOOT2 \in Types /\ KERNEL \in Types
  BY MapAssumption DEF MarkTable, MarkKernel, Types, NONE, RSVD, MULTIBOOT2, KERNEL
<1>2. \E t \in Types : Begin(PageDown(x.start), PageUp(x.end), t)
  BY <1>1 DEF MarkTable, MarkKernel
<1> QED
  BY <1>1, <1>2, PageFacts, BeginClean

\* Splitting puts in an entry of the type that is there already.
LEMMA SplitAtClean ==
    ASSUME TInv, CleanInv, clean, NEW addr \in Splits, SplitAt(addr)
    PROVE  CleanInv'
<1>1. /\ addr \in Nat /\ r \in Arrays /\ Sorted(r) /\ Right /\ r[0].type = NONE
      /\ stopped = "" /\ ins = NoIns /\ ~Inserting /\ ~Inserting'
      /\ UNCHANGED <<ins, want, clean>>
  BY MapAssumption, ArrayTyped DEF CleanInv, SplitAt, Idle, Inserting
<1>2. Placed'
  BY <1>1 DEF Placed
<1>3. CASE UNCHANGED <<r, stopped>>
  <2>1. Right'
    BY <1>1, <1>3 DEF Right
  <2> QED
    BY <1>1, <1>2, <1>3, <2>1 DEF CleanInv
<1>4. CASE stopped' # "" /\ UNCHANGED r
  BY <1>1, <1>2, <1>4 DEF CleanInv, Right
<1>5. PICK k : k = First(r, 0, addr)
  OBVIOUS
<1>6. k \in 0..N - 1 /\ k # N /\ r[k].start <= addr /\ \A m \in 0..k - 1 : r[m].start > addr
  <2>1. k \in 0..N - 1 /\ r[k].start <= addr /\ \A m \in 0..k - 1 : r[m].start > addr
    BY <1>1, <1>5, FirstInside
  <2> QED
    BY <2>1, NFacts
<1>7. CASE r[k].start # addr /\ ~NoRoom(k, 1)
  <2>1. r' = SetStart(MovedRight(k, 1), k, addr) /\ UNCHANGED stopped
    BY <1>5, <1>6, <1>7, BelowIsFirst DEF SplitAt
  <2>2. PICK w \in Types : w = r[k].type
    BY <1>1, <1>6, EntryTyped
  <2>3. PICK b : b = Inserted(r, k, addr, w)
    OBVIOUS
  <2>4. SameMap(r', b) /\ k \in 0..N - 2 /\ r[N - 2].start = 0
    <3>1. r' = [MovedRight(k, 1) EXCEPT ![k] = Reg(addr, w)]
      BY <1>1, <1>6, <1>7, <2>1, <2>2, StartKept
    <3> QED
      BY <1>1, <1>6, <1>7, <2>3, <3>1, OneInserted
  <2>5. Fits(r, k, addr)
    <3>1. r[k].start \in Nat /\ addr \in Nat
      BY <1>1, <1>6, EntryTyped
    <3>2. r[k].start < addr
      <4>1. r[k].start <= addr /\ r[k].start # addr
        BY <1>6, <1>7
      <4> QED
        BY <3>1, <4>1
    <3> QED
      BY <1>6, <3>2 DEF Fits
  <2>6. /\ b \in Arrays /\ Sorted(b) /\ b[k] = Reg(addr, w)
        /\ \A m \in 0..N - 1 : m < k => b[m] = r[m]
    <3>1. addr \in Nat /\ r \in Arrays /\ Sorted(r)
      BY <1>1
    <3>2. /\ Inserted(r, k, addr, w) \in Arrays /\ Inserted(r, k, addr, w)[k] = Reg(addr, w)
          /\ \A m \in 0..N - 1 : m < k => Inserted(r, k, addr, w)[m] = r[m]
      BY <1>6, <3>1, InsertedEntries
    <3>3. Sorted(Inserted(r, k, addr, w))
      BY <2>4, <2>5, <3>1, InsertedSorted
    <3> QED
      BY <2>3, <3>2, <3>3
  <2>7. r' \in Arrays
    <3>1. k \in 0..N /\ addr \in Nat /\ r \in Arrays
      <4>1. k \in 0..N
        BY <1>6, NFacts
      <4> QED
        BY <1>1, <4>1
    <3>2. MovedRight(k, 1) \in Arrays
      BY <3>1, MovedRightType
    <3> QED
      BY <2>1, <3>1, <3>2, SetStartType
  <2>8. Sorted(r') /\ (\A p \in Nat : TypeIn(r', p) = TypeIn(b, p)) /\ r'[0] = b[0]
    BY <2>4, <2>6, <2>7, SameMapKeeps
  <2>9. ASSUME NEW p \in Pages
        PROVE  TypeIn(r', p) = TypeIn(r, p)
    <3>1. p \in Nat /\ addr \in Nat /\ r \in Arrays /\ Sorted(r)
      BY <1>1, MapAssumption
    <3>2. TypeIn(Inserted(r, k, addr, w), p)
            = IF addr <= p /\ First(r, 0, p) = k THEN w ELSE TypeIn(r, p)
      BY <2>4, <2>5, <3>1, InsertedTypes
    <3> QED
      BY <2>2, <2>3, <2>8, <3>1, <3>2 DEF TypeIn
  <2>10. r'[0].type = NONE
    <3>1. 0 \in 0..N - 1 /\ (k = 0 \/ 0 < k)
      BY <1>6, NFacts
    <3>2. b[0].type = r[0].type
      <4>1. CASE k = 0
        BY <2>2, <2>6, <4>1 DEF Reg
      <4>2. CASE 0 < k
        BY <2>6, <3>1, <4>2
      <4> QED
        BY <3>1, <4>1, <4>2
    <3> QED
      BY <1>1, <2>8, <3>2
  <2>11. Right'
    BY <1>1, <2>1, <2>9 DEF Right
  <2> QED
    BY <1>2, <2>8, <2>10, <2>11 DEF CleanInv
<1>8. \/ UNCHANGED <<r, stopped>>
      \/ stopped' # "" /\ UNCHANGED r
      \/ r[k].start # addr /\ ~NoRoom(k, 1)
  BY <1>5, <1>6, BelowIsFirst DEF SplitAt
<1> QED
  BY <1>3, <1>4, <1>7, <1>8

LEMMA InitClean == Init => CleanInv
<1> SUFFICES ASSUME Init PROVE CleanInv
  OBVIOUS
<1>1. /\ \A k \in 0..N - 1 : r[k] = Reg(0, NONE)
      /\ ins = NoIns /\ \A p \in Pages : want[p] = NONE
      /\ r \in Arrays
  BY InitTyped, ArrayTyped DEF Init
<1>2. N - 1 \in 0..N - 1 /\ 0 \in 0..N - 1
  BY NFacts
<1>3. \A k \in 0..N - 1 : r[k].start = 0 /\ r[k].type = NONE
  <2> SUFFICES ASSUME NEW k \in 0..N - 1 PROVE r[k].start = 0 /\ r[k].type = NONE
    OBVIOUS
  <2>1. r[k] = [start |-> 0, type |-> NONE]
    BY <1>1 DEF Reg
  <2> QED
    BY <2>1
<1>4. Sorted(r)
  BY <1>2, <1>3 DEF Sorted
<1>5. Placed /\ ~Inserting
  BY <1>1 DEF Placed, Inserting
<1>6. ASSUME NEW p \in Pages
      PROVE  want[p] = TypeIn(r, p)
  <2>1. p \in Nat
    BY MapAssumption
  <2>2. TypeIn(r, p) = NONE
    BY <1>1, <1>3, <1>4, <2>1, FirstInside DEF TypeIn
  <2> QED
    BY <1>1, <2>2
<1> QED
  BY <1>2, <1>3, <1>4, <1>5, <1>6 DEF CleanInv, Right

LEMMA StepClean ==
    ASSUME TInv, CleanInv, [Next]_mapVars
    PROVE  CleanInv'
<1>1. CASE UNCHANGED mapVars
  BY <1>1 DEF mapVars, CleanInv, Placed, Right, Inserting, Covers, Limit
<1>2. CASE Next /\ ~clean
  <2>1. clean' => clean
    BY <1>2 DEF Next, InsertStep, FillEntry, MarkTable, MarkKernel, SplitAt, OutsideLoop, Begin,
          LoopSkipHigher, LoopDropNext, LoopRetype, LoopSplit, LoopExtendNext, RunsOffTheArray,
          FinishCovered, FinishRetype, FinishAligned, FinishAtStart, FinishInside
  <2> QED
    BY <1>2, <2>1 DEF CleanInv
<1>3. CASE Next /\ clean
  BY <1>3, InsertClean, FillClean, MarkClean, SplitAtClean DEF Next
<1> QED
  BY <1>1, <1>2, <1>3

\* What makes a map right that no insertion has spoiled, during every pass of the loop too,
\* holds in every state.
THEOREM CleanInvariance == Spec => []CleanInv
<1>1. Init => CleanInv
  BY InitClean
<1>2. TInv /\ CleanInv /\ [Next]_mapVars => CleanInv'
  BY StepClean
<1>3. Spec => []TInv
  BY MapInvariance
<1> QED
  BY <1>1, <1>2, <1>3, PTL DEF Spec

-----------------------------------------------------------------------------
(* What follows for the map *)

\* Where a sorted map ends.
LEMMA TerminatorSorted ==
    ASSUME r \in Arrays, Sorted(r)
    PROVE  /\ Terminator(0) \in 0..N - 1
           /\ r[Terminator(0)].start = 0
           /\ \A m \in 0..Terminator(0) - 1 : r[m].start > 0
<1>1. /\ First(r, 0, 0) \in 0..N - 1
      /\ r[First(r, 0, 0)].start <= 0
      /\ \A m \in 0..First(r, 0, 0) - 1 : r[m].start > 0
  BY FirstInside
<1>2. r[First(r, 0, 0)].start \in Nat
  BY <1>1, EntryTyped
<1>3. r[First(r, 0, 0)].start = 0
  BY <1>1, <1>2
<1>4. Terminator(0) = First(r, 0, 0)
  BY BelowIsFirst DEF Terminator
<1> QED
  BY <1>1, <1>3, <1>4

LEMMA SortedIsOrdered ==
    ASSUME r \in Arrays, Sorted(r)
    PROVE  DecreasingAddresses
<1>1. PICK t : t = Terminator(0)
  OBVIOUS
<1>2. t \in 0..N - 1 /\ \A m \in 0..t - 1 : r[m].start > 0
  BY <1>1, TerminatorSorted
<1>3. ASSUME NEW k \in 0..t - 1
      PROVE  r[k + 1].start < r[k].start
  <2>1. k \in 0..N - 1 /\ k + 1 \in 0..N - 1 /\ k < k + 1
    BY <1>2, NFacts
  <2>2. r[k].start # 0
    <3>1. r[k].start > 0
      BY <1>2
    <3> QED
      BY <3>1
  <2> QED
    BY <2>1, <2>2 DEF Sorted
<1> QED
  BY <1>1, <1>3 DEF DecreasingAddresses

\* However the regions overlap that are inserted, a map that no insertion has spoiled is in
\* decreasing order of addresses whenever no insertion is being made (memory.c:79, 90-140).
THEOREM MapStaysOrdered == Spec => []Ordered
<1>1. TInv /\ CleanInv => Ordered
  BY ArrayTyped, SortedIsOrdered DEF CleanInv, Ordered
<1> QED
  BY <1>1, MapInvariance, CleanInvariance, PTL

\* In such a map every page has the highest type an insertion asked for it, over however many
\* regions the insertions reach, whatever was inserted, split or loaded before and after
\* (mmap_insert_region, mmap_split_at).
THEOREM MapGivesHighestType == Spec => []MapIsHighestType
<1>1. ASSUME TInv, CleanInv, clean, Idle, NEW p \in Pages
      PROVE  TypeAt(p) = want[p]
  <2>1. want[p] = TypeIn(r, p)
    BY <1>1 DEF CleanInv, Right, Idle, Inserting
  <2> QED
    BY <2>1, BelowIsFirst DEF TypeAt, TypeIn
<1>2. TInv /\ CleanInv => MapIsHighestType
  BY <1>1 DEF MapIsHighestType
<1> QED
  BY <1>2, MapInvariance, CleanInvariance, PTL

\* What kinit.c hands to bitmap.c of such a map, when it lies in the array: regions in
\* decreasing order down to address 0, with an AVAIL one at index 1.
THEOREM HandedMapOk == Spec => []HandedToPmmOk
<1>1. ASSUME TInv, CleanInv, clean, AvailIndices # {}, HandedFirst + Tot <= N
      PROVE  IsHandedMap(Handed)
  <2>1. r \in Arrays /\ Sorted(r)
    BY <1>1, ArrayTyped DEF CleanInv
  <2>2. PICK t : t = Terminator(0)
    OBVIOUS
  <2>3. t \in 0..N - 1 /\ r[t].start = 0
    BY <2>1, <2>2, TerminatorSorted
  <2>4. Tot = t + 1 /\ t + 1 \in Nat
    BY <2>2, <2>3, NFacts DEF Tot
  <2>5. PICK T : T = AvailIndices \ {0}
    OBVIOUS
  <2>6. T \in SUBSET Nat /\ T # {} /\ \A k \in T : k # 0 /\ k \in 0..t /\ r[k].type = AVAIL
    <3>1. (t + 1) - 1 = t
      BY <2>3
    <3>2. 0 \notin AvailIndices
      BY <1>1 DEF CleanInv, AvailIndices, AVAIL, NONE
    <3> QED
      BY <1>1, <2>3, <2>4, <2>5, <3>1, <3>2 DEF AvailIndices
  <2>7. PICK h : h = CHOOSE k \in T : \A m \in T : k <= m
    OBVIOUS
  <2>8. h \in T
    <3>1. \E k \in T : \A m \in T : k <= m
      BY <2>6, NatLeast
    <3> QED
      BY <2>7, <3>1
  <2>9. HandedFirst = h - 1
    BY <2>5, <2>7 DEF HandedFirst
  <2>10. /\ h \in Nat /\ h > 0 /\ h <= t /\ r[h].type = AVAIL
         /\ (h - 1) + (t + 1) <= N
    <3>1. h # 0 /\ h \in 0..t /\ r[h].type = AVAIL
      BY <2>6, <2>8
    <3> QED
      BY <1>1, <2>3, <2>4, <2>9, <3>1
  <2>11. /\ Handed = [i \in 1..t + 1 |->
              [start |-> r[(h - 1) + i - 1].start,
               type |-> IF r[(h - 1) + i - 1].type = AVAIL THEN "avail" ELSE "other"]]
    BY <2>4, <2>9 DEF Handed
  <2>12. Len(Handed) = t + 1
    BY <2>4, <2>11
  <2>13. \A i \in 1..t + 1 : (h - 1) + i - 1 \in 0..N - 1
    BY <2>3, <2>10, NFacts
  <2>14. ASSUME NEW i \in 1..t + 1, NEW k \in 1..t + 1, i <= k
         PROVE  Handed[k].start <= Handed[i].start
    <3>1. PICK x, y : x = (h - 1) + i - 1 /\ y = (h - 1) + k - 1
      OBVIOUS
    <3>2. x \in 0..N - 1 /\ y \in 0..N - 1 /\ (x = y \/ x < y)
      <4>1. x \in 0..N - 1 /\ y \in 0..N - 1
        BY <2>13, <3>1
      <4>2. x = y \/ x < y
        <5>1. h \in Int /\ i \in Int /\ k \in Int /\ i <= k
          BY <2>3, <2>10, <2>14
        <5> QED
          BY <3>1, <5>1
      <4> QED
        BY <4>1, <4>2
    <3>3. Handed[i].start = r[x].start /\ Handed[k].start = r[y].start
      BY <2>11, <3>1
    <3>4. r[x].start \in Nat /\ r[y].start \in Nat
      BY <2>1, <3>2, EntryTyped
    <3>5. r[y].start <= r[x].start
      <4>1. CASE x = y
        BY <3>4, <4>1
      <4>2. CASE x < y
        <5>1. IF r[x].start = 0 THEN r[y].start = 0 ELSE r[y].start < r[x].start
          BY <2>1, <3>2, <4>2 DEF Sorted
        <5> QED
          BY <3>4, <5>1
      <4> QED
        BY <3>2, <4>1, <4>2
    <3> QED
      BY <3>3, <3>5
  <2>15. Handed[t + 1].start = 0
    <3>1. PICK y : y = (h - 1) + (t + 1) - 1
      OBVIOUS
    <3>2. t + 1 \in 1..t + 1 /\ y \in 0..N - 1 /\ (y = t \/ t < y)
      BY <2>3, <2>10, <2>13, <3>1
    <3>3. r[y].start = 0
      <4>1. CASE t < y
        BY <2>1, <2>3, <3>2, <4>1 DEF Sorted
      <4> QED
        BY <2>3, <3>2, <4>1
    <3> QED
      BY <2>11, <3>1, <3>2, <3>3
  <2>16. Handed[2].type = "avail"
    <3>1. 2 \in 1..t + 1 /\ (h - 1) + 2 - 1 = h
      BY <2>3, <2>10
    <3> QED
      BY <2>10, <2>11, <3>1
  <2>17. t + 1 > 1
    BY <2>3, <2>10
  <2> QED
    BY <2>12, <2>14, <2>15, <2>16, <2>17 DEF IsHandedMap
<1>2. TInv /\ CleanInv => HandedToPmmOk
  BY <1>1 DEF HandedToPmmOk
<1> QED
  BY <1>2, MapInvariance, CleanInvariance, PTL
-----------------------------------------------------------------------------
(* The boot loader's map *)

BootRegions == [start : {Page * q : q \in Nat}, type : 0..3]

\* The entry holds the address.
Holds(m, a) == m.base <= a /\ a < END(m)

\* The last byte of a page.
LastByte(p) == p * Page + Page - 1

\* What the sorted map says of a page: every entry that holds its last byte is of type t, and
\* there is one unless t is that of the pages nobody mentions.
PageWants(p, t) ==
    /\ \A k \in 1..Len(mmap) : Holds(mmap[k], LastByte(p)) => TYPE(mmap[k]) - 1 = t
    /\ t # REGION_RSVD => \E k \in 1..Len(mmap) : Holds(mmap[k], LastByte(p))

\* Some region starts at the address or below, and the first that does has the type.
Below(rs, x) == \E k \in 1..Len(rs) : rs[k].start <= x
FirstType(rs, x, t) ==
    \A k \in 1..Len(rs) :
        rs[k].start <= x /\ (\A j \in 1..k - 1 : rs[j].start > x) => rs[k].type = t

LastStart(rs) == IF Len(rs) = 0 THEN Top ELSE rs[Len(rs)].start

\* The first n entries do not end below an entry that follows them.
SortedTo(n) == \A j, k \in 1..Len(mmap) : j <= n /\ j < k => END(mmap[k]) <= END(mmap[j])

Stage2Type ==
    /\ bios \in Seq(BiosEntries) /\ mmap \in Seq(BiosEntries)
    /\ Len(mmap) > 0
    /\ \A k \in 1..Len(mmap) : END(mmap[k]) < Top
    /\ pc \in {"sort", "translate", "done"}
    /\ entry \in Nat \ {0}
    /\ regions \in Seq(BootRegions)
    /\ last_start = LastStart(regions)

SameEntries ==
    /\ \A k \in 1..Len(mmap) : \E j \in 1..Len(bios) : mmap[k] = bios[j]
    /\ \A k \in 1..Len(bios) : \E j \in 1..Len(mmap) : bios[k] = mmap[j]

EntriesSorted ==
    /\ pc = "sort" => entry <= Len(mmap) /\ SortedTo(entry - 1)
    /\ pc # "sort" => entry <= Len(mmap) + 1 /\ SortedTo(Len(mmap))
    /\ pc = "done" => entry = Len(mmap) + 1

\* Of the pages translated so far: the regions have the type that the map wants, and a page that
\* it wants other than reserved has one.
PagesRight ==
    pc # "sort" =>
        \A p \in 0..Top \div Page - 1, t \in 0..3 :
            PageWants(p, t) =>
                /\ FirstType(regions, p * Page, t)
                /\ t # REGION_RSVD =>
                      \A k \in 1..Len(mmap) :
                          k < entry /\ Holds(mmap[k], LastByte(p)) => Below(regions, p * Page)

Stage2Inv == Stage2Type /\ SameEntries /\ EntriesSorted /\ PagesRight

-----------------------------------------------------------------------------
(* Starts, and lists of regions *)

LEMMA LeastRegionFacts ==
    ASSUME NEW S \in SUBSET Nat, S # {}
    PROVE  Min(S) \in S /\ \A y \in S : Min(S) <= y
<1>1. \E x \in S : \A y \in S : x <= y
  BY NatLeast
<1> QED
  BY <1>1 DEF Min

LEMMA EndFacts ==
    ASSUME NEW m \in BiosEntries
    PROVE  /\ m.base \in Nat /\ m.len \in Nat /\ m.type \in Nat
           /\ END(m) \in Nat /\ m.base <= END(m)
           /\ TYPE(m) \in 1..4
  BY DEF BiosEntries, END, TYPE

\* A start is that of a page, and it is at or below another page exactly when the address is
\* below the end of that page.
LEMMA StartFacts ==
    ASSUME NEW y \in Nat, y < Top, NEW p \in Nat
    PROVE  /\ Start(y) \in {Page * q : q \in Nat} /\ Start(y) \in Nat
           /\ Start(y) <= p * Page <=> y <= LastByte(p)
<1>1. Page \in Nat \ {0} /\ Top \in Nat \ {0}
  BY Stage2Assumption
<1>2. y % Top = y
  BY <1>1
<1> DEFINE q == y \div Page
           o == y % Page
<1>3. q \in Nat /\ o \in 0..Page - 1 /\ y = Page * q + o
  BY <1>1, DivFacts, ModFacts
<1>4. Start(y) = y - o
  BY <1>2 DEF Start
<1> HIDE DEF q, o
<1>5. Start(y) = Page * q /\ Page * q \in Nat
  BY <1>1, <1>3, <1>4
<1>6. p * Page \in Nat /\ p * Page = Page * p
  BY <1>1
<1>7. CASE q <= p
  <2>1. Page * q <= Page * p
    BY <1>1, <1>3, <1>7
  <2> QED
    BY <1>1, <1>3, <1>5, <1>6, <2>1 DEF LastByte
<1>8. CASE p < q
  <2>1. Page * p + Page <= Page * q
    BY <1>1, <1>3, <1>8, WordBelow
  <2>2. Page * p + Page <= y
    BY <1>1, <1>3, <1>5, <1>6, <2>1
  <2>3. ~(Start(y) <= p * Page) /\ ~(y <= LastByte(p))
    BY <1>1, <1>5, <1>6, <2>1, <2>2 DEF LastByte
  <2> QED
    BY <1>3, <1>5, <2>3
<1> QED
  BY <1>3, <1>7, <1>8

\* A page's start above another's is a page above.
LEMMA PageAbove ==
    ASSUME NEW s \in {Page * q : q \in Nat}, NEW p \in Nat, s > p * Page
    PROVE  s > LastByte(p)
<1>1. Page \in Nat \ {0}
  BY Stage2Assumption
<1>2. PICK q \in Nat : s = Page * q
  OBVIOUS
<1>3. p * Page \in Nat /\ p * Page = Page * p
  BY <1>1
<1>4. p < q
  <2>1. q <= p => Page * q <= Page * p
    BY <1>1
  <2> QED
    BY <1>2, <1>3, <2>1
<1>5. Page * p + Page <= Page * q
  BY <1>1, <1>4, WordBelow
<1> QED
  BY <1>1, <1>2, <1>3, <1>5 DEF LastByte

LEMMA RegionFacts ==
    ASSUME NEW rs \in Seq(BootRegions)
    PROVE  /\ Len(rs) \in Nat /\ DOMAIN rs = 1..Len(rs)
           /\ \A k \in 1..Len(rs) : rs[k] \in BootRegions /\ rs[k].start \in Nat /\ rs[k].type \in 0..3
<1>1. Page \in Nat \ {0}
  BY Stage2Assumption
<1>2. \A q \in Nat : Page * q \in Nat
  BY <1>1
<1>3. \A g \in BootRegions : g.start \in Nat /\ g.type \in 0..3
  BY <1>2 DEF BootRegions
<1> QED
  BY <1>3

\* A region is appended.
LEMMA AppendedType ==
    ASSUME NEW rs \in Seq(BootRegions), NEW g \in BootRegions, NEW x \in Nat, NEW t,
           FirstType(rs, x, t), ~Below(rs, x) /\ g.start <= x => g.type = t
    PROVE  /\ FirstType(Append(rs, g), x, t)
           /\ Below(rs, x) \/ g.start <= x => Below(Append(rs, g), x)
           /\ Below(Append(rs, g), x) => Below(rs, x) \/ g.start <= x
<1> DEFINE as == Append(rs, g)
           n == Len(rs)
<1>0. n \in Nat /\ n + 1 \in 1..n + 1
  BY RegionFacts
<1>1. /\ Len(as) = n + 1
      /\ as[n + 1] = g /\ \A k \in 1..n : as[k] = rs[k]
  BY RegionFacts
<1>11. \A k \in 1..n : rs[k].start \in Nat
  BY RegionFacts
<1> HIDE DEF as, n
<1>12. \A k \in 1..n + 1 : k \in 1..n \/ k = n + 1
  BY <1>0
<1>13. \A k \in 1..n : k \in 1..n + 1
  BY <1>0
<1>2. /\ Below(rs, x) \/ g.start <= x => Below(as, x)
      /\ Below(as, x) => Below(rs, x) \/ g.start <= x
  BY <1>0, <1>1, <1>12, <1>13 DEF Below, n
<1>3. ASSUME NEW k \in 1..n + 1, as[k].start <= x, \A j \in 1..k - 1 : as[j].start > x
      PROVE  as[k].type = t
  <2>1. CASE k \in 1..n
    <3>0. \A j \in 1..k - 1 : j \in 1..n
      BY <1>0, <2>1
    <3>1. \A j \in 1..k - 1 : rs[j].start > x
      BY <1>1, <1>3, <3>0
    <3> QED
      BY <1>1, <1>3, <2>1, <3>1 DEF FirstType, n
  <2>2. CASE k = n + 1
    <3>0. \A j \in 1..n : j \in 1..k - 1
      BY <1>0, <2>2
    <3>1. \A j \in 1..n : rs[j].start > x
      BY <1>1, <1>3, <3>0
    <3>3. ~Below(rs, x)
      BY <1>11, <3>1 DEF Below, n
    <3> QED
      BY <1>1, <1>3, <2>2, <3>3
  <2> QED
    BY <1>12, <2>1, <2>2
<1>4. FirstType(as, x, t)
  BY <1>1, <1>3 DEF FirstType
<1> QED
  BY <1>2, <1>4 DEF as

\* The last region is given another start.
LEMMA ExtendedIs ==
    ASSUME NEW rs \in Seq(BootRegions), Len(rs) # 0, NEW y \in Nat, y < Top
    PROVE  /\ Extended(rs, y) \in Seq(BootRegions) /\ Len(Extended(rs, y)) = Len(rs)
           /\ Extended(rs, y)[Len(rs)].start = Start(y)
           /\ Extended(rs, y)[Len(rs)].type = rs[Len(rs)].type
           /\ \A k \in 1..Len(rs) - 1 : Extended(rs, y)[k] = rs[k]
<1> DEFINE n == Len(rs)
           s == Start(y)
<1>1. n \in Nat \ {0} /\ rs[n] \in BootRegions /\ rs[n].type \in 0..3
  BY RegionFacts
<1>2. s \in {Page * q : q \in Nat}
  BY 0 \in Nat, StartFacts
<1>3. [start |-> s, type |-> rs[n].type] \in BootRegions
  BY <1>1, <1>2 DEF BootRegions
<1>4. Extended(rs, y) = [rs EXCEPT ![n] = [start |-> s, type |-> rs[n].type]]
  BY DEF Extended
<1> HIDE DEF n, s
<1>5. /\ Extended(rs, y) \in Seq(BootRegions) /\ Len(Extended(rs, y)) = n
      /\ Extended(rs, y)[n] = [start |-> s, type |-> rs[n].type]
      /\ \A k \in 1..n - 1 : Extended(rs, y)[k] = rs[k]
  BY <1>1, <1>3, <1>4 DEF n
<1> QED
  BY <1>5 DEF n, s

LEMMA ExtendedType ==
    ASSUME NEW rs \in Seq(BootRegions), Len(rs) # 0, NEW y \in Nat, y < Top, NEW x \in Nat, NEW t,
           FirstType(rs, x, t),
           ~Below(rs, x) /\ Start(y) <= x => rs[Len(rs)].type = t
    PROVE  /\ FirstType(Extended(rs, y), x, t)
           /\ Start(y) <= x => Below(Extended(rs, y), x)
           /\ Below(rs, x) /\ rs[Len(rs)].type # t => Below(Extended(rs, y), x)
<1> DEFINE es == Extended(rs, y)
           n == Len(rs)
           s == Start(y)
<1>1. n \in Nat \ {0} /\ \A k \in 1..n : rs[k].start \in Nat
  BY RegionFacts
<1>2. s \in Nat
  BY 0 \in Nat, StartFacts
<1>5. /\ Len(es) = n /\ es[n].start = s /\ es[n].type = rs[n].type
      /\ \A k \in 1..n - 1 : es[k] = rs[k]
  BY ExtendedIs
<1> HIDE DEF es, n, s
<1>7. s <= x => Below(es, x)
  BY <1>1, <1>5 DEF Below
<1>8. ASSUME NEW k \in 1..n, es[k].start <= x, \A j \in 1..k - 1 : es[j].start > x
      PROVE  es[k].type = t
  <2>1. \A j \in 1..k - 1 : rs[j].start > x
    BY <1>1, <1>5, <1>8
  <2>2. CASE k # n
    BY <1>1, <1>5, <1>8, <2>1, <2>2 DEF FirstType, n
  <2>3. CASE k = n /\ Below(rs, x)
    <3>1. PICK j \in 1..n : rs[j].start <= x
      BY <2>3 DEF Below, n
    <3>2. j = n
      BY <1>1, <2>1, <2>3, <3>1
    <3> QED
      BY <1>5, <2>1, <2>3, <3>1, <3>2 DEF FirstType, n
  <2>4. CASE k = n /\ ~Below(rs, x)
    BY <1>5, <1>8, <2>4 DEF n, s
  <2> QED
    BY <2>2, <2>3, <2>4
<1>9. FirstType(es, x, t)
  BY <1>5, <1>8 DEF FirstType
<1>10. ASSUME Below(rs, x), rs[n].type # t
       PROVE  Below(es, x)
  <2> DEFINE S == {k \in 1..n : rs[k].start <= x}
  <2>1. S \in SUBSET Nat /\ S # {}
    BY <1>1, <1>10 DEF Below, n
  <2>2. PICK k \in S : \A j \in S : k <= j
    BY <2>1, NatLeast
  <2>3. k \in 1..n /\ rs[k].start <= x
    BY <2>2
  <2>4. \A j \in 1..k - 1 : rs[j].start > x
    <3> SUFFICES ASSUME NEW j \in 1..k - 1
                 PROVE  rs[j].start > x
      OBVIOUS
    <3>1. j \in 1..n /\ ~(k <= j)
      BY <1>1, <2>3
    <3>2. j \notin S
      BY <2>2, <3>1
    <3> QED
      BY <1>1, <3>1, <3>2
  <2>5. rs[k].type = t
    BY <2>3, <2>4 DEF FirstType, n
  <2>6. k \in 1..n - 1
    BY <1>1, <1>10, <2>3, <2>5
  <2> HIDE DEF S
  <2> QED
    BY <1>1, <1>5, <2>3, <2>6 DEF Below
<1> QED
  BY <1>7, <1>9, <1>10 DEF es, n, s

-----------------------------------------------------------------------------
(* Sorting *)

LEMMA Stage2Starts == Stage2Init => Stage2Inv
<1> SUFFICES ASSUME Stage2Init
             PROVE  Stage2Inv
  OBVIOUS
<1> USE DEF Stage2Init
<1>1. /\ bios \in Seq(BiosEntries) /\ mmap \in Seq(BiosEntries) /\ Len(mmap) > 0
      /\ \A k \in 1..Len(mmap) : mmap[k].base + mmap[k].len < Top
  BY Stage2Assumption
<1>2. regions \in Seq(BootRegions) /\ Len(regions) = 0
  OBVIOUS
<1>3. Stage2Type
  BY <1>1, <1>2 DEF Stage2Type, LastStart, END
<1>4. SameEntries
  BY DEF SameEntries
<1>5. EntriesSorted
  BY <1>1 DEF EntriesSorted, SortedTo
<1>6. PagesRight
  BY DEF PagesRight
<1> QED
  BY <1>3, <1>4, <1>5, <1>6 DEF Stage2Inv

LEMMA MmapFacts ==
    ASSUME Stage2Type
    PROVE  /\ Len(mmap) \in Nat \ {0} /\ DOMAIN mmap = 1..Len(mmap)
           /\ \A k \in 1..Len(mmap) :
                 mmap[k] \in BiosEntries /\ END(mmap[k]) \in Nat /\ END(mmap[k]) < Top
  BY EndFacts DEF Stage2Type

LEMMA MaxIdxFacts ==
    ASSUME Stage2Type, NEW k \in 1..Len(mmap)
    PROVE  /\ max_idx(k) \in k..Len(mmap)
           /\ \A l \in k..Len(mmap) : END(mmap[l]) <= END(mmap[max_idx(k)])
<1> DEFINE n == Len(mmap)
           S == {j \in k..n : \A l \in k..n : END(mmap[j]) >= END(mmap[l])}
           T == {Top - END(mmap[j]) : j \in k..n}
<1>1. /\ n \in Nat \ {0} /\ Top \in Nat
      /\ \A j \in 1..n : END(mmap[j]) \in Nat /\ END(mmap[j]) < Top
  BY MmapFacts, Stage2Assumption
<1>2. \A j \in k..n : j \in 1..n
  BY <1>1
<1>3. T \in SUBSET Nat /\ T # {}
  <2>1. k \in k..n
    BY <1>1
  <2>2. \A j \in k..n : Top - END(mmap[j]) \in Nat
    BY <1>1, <1>2
  <2> QED
    BY <2>1, <2>2
<1>4. PICK x \in T : \A y \in T : x <= y
  BY <1>3, NatLeast
<1>5. PICK j \in k..n : x = Top - END(mmap[j])
  BY <1>4
<1>6. \A l \in k..n : END(mmap[j]) >= END(mmap[l])
  <2> SUFFICES ASSUME NEW l \in k..n
               PROVE  END(mmap[j]) >= END(mmap[l])
    OBVIOUS
  <2>1. Top - END(mmap[j]) <= Top - END(mmap[l])
    BY <1>4, <1>5
  <2> QED
    BY <1>1, <1>2, <2>1
<1>7. S \in SUBSET Nat /\ S # {}
  <2>1. j \in S
    BY <1>6
  <2>2. \A y \in k..n : y \in Nat
    BY <1>1
  <2>3. \A y \in S : y \in k..n
    OBVIOUS
  <2> QED
    BY <2>1, <2>2, <2>3
<1>8. max_idx(k) = Min(S)
  BY DEF max_idx
<1> HIDE DEF S
<1>9. Min(S) \in S
  BY <1>7, LeastRegionFacts
<1> QED
  BY <1>8, <1>9 DEF S

LEMMA SortPassKeeps == Stage2Inv /\ SortPass => Stage2Inv'
<1> SUFFICES ASSUME Stage2Inv, SortPass
             PROVE  Stage2Inv'
  OBVIOUS
<1> USE DEF Stage2Inv
<1> DEFINE n == Len(mmap)
           b == max_idx(entry)
<1>1. /\ pc = "sort" /\ entry < n /\ mmap' = Swapped(entry, b) /\ entry' = entry + 1
      /\ bios' = bios /\ regions' = regions /\ last_start' = last_start /\ pc' = pc
  BY DEF SortPass
<1>2. /\ n \in Nat \ {0} /\ DOMAIN mmap = 1..n
      /\ \A k \in 1..n : mmap[k] \in BiosEntries /\ END(mmap[k]) \in Nat /\ END(mmap[k]) < Top
  BY MmapFacts
<1>3. entry \in 1..n
  BY <1>1, <1>2 DEF Stage2Type
<1>4. b \in entry..n /\ \A l \in entry..n : END(mmap[l]) <= END(mmap[b])
  BY <1>3, MaxIdxFacts
<1>5. b \in 1..n
  BY <1>2, <1>3, <1>4
<1> HIDE DEF n, b
<1>6. mmap' = [j \in 1..n |-> IF j = entry THEN mmap[b] ELSE IF j = b THEN mmap[entry] ELSE mmap[j]]
  BY <1>1, <1>2 DEF Swapped
<1>7. /\ mmap' \in Seq(BiosEntries) /\ Len(mmap') = n
  <2>1. \A j \in 1..n : (IF j = entry THEN mmap[b] ELSE IF j = b THEN mmap[entry] ELSE mmap[j])
                           \in BiosEntries
    BY <1>2, <1>3, <1>5
  <2>2. mmap' \in [1..n -> BiosEntries]
    BY <1>6, <2>1
  <2> QED
    BY <1>2, <2>2
\* Where each entry comes from: from further on, unless it is sorted already.
<1>8. \A k \in 1..n : \E l \in 1..n :
          mmap'[k] = mmap[l] /\ (k < entry => l = k) /\ (entry <= k => entry <= l)
  <2> SUFFICES ASSUME NEW k \in 1..n
               PROVE  \E l \in 1..n :
                         mmap'[k] = mmap[l] /\ (k < entry => l = k) /\ (entry <= k => entry <= l)
    OBVIOUS
  <2>1. mmap'[k] = IF k = entry THEN mmap[b] ELSE IF k = b THEN mmap[entry] ELSE mmap[k]
    BY <1>6
  <2>2. CASE k = entry
    <3>1. mmap'[k] = mmap[b] /\ entry <= b
      BY <1>3, <1>4, <2>1, <2>2
    <3> QED
      BY <1>3, <1>5, <2>2, <3>1
  <2>3. CASE k # entry /\ k = b
    <3>1. mmap'[k] = mmap[entry] /\ entry < k
      BY <1>3, <1>4, <2>1, <2>3
    <3> QED
      BY <1>3, <3>1
  <2>4. CASE k # entry /\ k # b
    BY <2>1, <2>4
  <2> QED
    BY <2>2, <2>3, <2>4
<1>9. \A k \in 1..n : \E l \in 1..n : mmap[k] = mmap'[l]
  <2> SUFFICES ASSUME NEW k \in 1..n
               PROVE  \E l \in 1..n : mmap[k] = mmap'[l]
    OBVIOUS
  <2>1. mmap'[entry] = mmap[b]
    BY <1>3, <1>6
  <2>2. b # entry => mmap'[b] = mmap[entry]
    BY <1>5, <1>6
  <2>3. k # entry /\ k # b => mmap'[k] = mmap[k]
    BY <1>6
  <2> QED
    BY <1>3, <1>5, <2>1, <2>2, <2>3
<1>10. Stage2Type'
  <2>1. \A k \in 1..n : END(mmap'[k]) < Top
    BY <1>2, <1>8
  <2>2. entry' \in Nat \ {0}
    BY <1>1, <1>3
  <2> QED
    BY <1>1, <1>2, <1>7, <2>1, <2>2 DEF Stage2Type, LastStart
<1>11. SameEntries'
  <2>1. \A k \in 1..n : \E j \in 1..Len(bios) : mmap'[k] = bios[j]
    BY <1>8 DEF SameEntries, n
  <2>2. ASSUME NEW k \in 1..Len(bios)
        PROVE  \E j \in 1..n : bios[k] = mmap'[j]
    <3>1. SameEntries
      OBVIOUS
    <3>2. PICK j \in 1..n : bios[k] = mmap[j]
      BY <3>1 DEF SameEntries, n
    <3> QED
      BY <1>9, <3>2
  <2> QED
    BY <1>1, <1>7, <2>1, <2>2 DEF SameEntries
<1>12. EntriesSorted'
  <2>1. ASSUME NEW j \in 1..n, NEW k \in 1..n, j <= entry, j < k
        PROVE  END(mmap'[k]) <= END(mmap'[j])
    <3>1. PICK l \in 1..n : mmap'[k] = mmap[l] /\ (k < entry => l = k) /\ (entry <= k => entry <= l)
      BY <1>8
    <3>2. CASE j = entry
      <4>1. mmap'[j] = mmap[b]
        BY <1>3, <1>6, <3>2
      <4>2. l \in entry..n
        BY <1>2, <1>3, <2>1, <3>1, <3>2
      <4> QED
        BY <1>4, <3>1, <4>1, <4>2
    <3>3. CASE j < entry
      <4>1. mmap'[j] = mmap[j]
        BY <1>8, <3>3
      <4>2. j <= entry - 1 /\ j < l
        BY <1>2, <1>3, <2>1, <3>1, <3>3
      <4>3. SortedTo(entry - 1)
        BY <1>1 DEF EntriesSorted
      <4> QED
        BY <3>1, <4>1, <4>2, <4>3 DEF SortedTo, n
    <3> QED
      BY <1>2, <1>3, <2>1, <3>2, <3>3
  <2>2. entry' - 1 = entry /\ entry' <= n
    BY <1>1, <1>2, <1>3
  <2>3. SortedTo(entry - 1)' 
    BY <1>1, <1>7, <2>1, <2>2 DEF SortedTo
  <2> QED
    BY <1>1, <1>7, <2>2, <2>3 DEF EntriesSorted
<1>13. PagesRight'
  BY <1>1 DEF PagesRight
<1> QED
  BY <1>10, <1>11, <1>12, <1>13

LEMMA SortDoneKeeps == Stage2Inv /\ SortDone => Stage2Inv'
<1> SUFFICES ASSUME Stage2Inv, SortDone
             PROVE  Stage2Inv'
  OBVIOUS
<1> USE DEF Stage2Inv
<1>1. /\ pc = "sort" /\ entry = Len(mmap) /\ pc' = "translate" /\ entry' = 1
      /\ regions' = <<>> /\ last_start' = Top /\ bios' = bios /\ mmap' = mmap
  BY DEF SortDone
<1>2. Len(mmap) \in Nat \ {0}
  BY MmapFacts
<1>3. regions' \in Seq(BootRegions) /\ Len(regions') = 0
  BY <1>1
<1>4. Stage2Type'
  BY <1>1, <1>3 DEF Stage2Type, LastStart
<1>5. SameEntries'
  BY <1>1 DEF SameEntries
<1>6. EntriesSorted'
  BY <1>1, <1>2 DEF EntriesSorted, SortedTo
<1>7. PagesRight'
  <2>1. \A x, t : FirstType(regions, x, t)'
    BY <1>3 DEF FirstType
  <2>2. \A k \in 1..Len(mmap) : ~(k < entry')
    BY <1>1, <1>2
  <2> QED
    BY <1>1, <2>1, <2>2 DEF PagesRight
<1> QED
  BY <1>4, <1>5, <1>6, <1>7
-----------------------------------------------------------------------------
(* Translating *)

\* The regions with the gap above an entry: a page without a region yet is one that the entry
\* reaches beyond.
LEMMA GapIs ==
    ASSUME Stage2Type, NEW m \in BiosEntries, END(m) < Top
    PROVE  /\ GapAbove(m).regions \in Seq(BootRegions)
           /\ GapAbove(m).last_start = LastStart(GapAbove(m).regions)
<1>1. regions \in Seq(BootRegions) /\ last_start = LastStart(regions) /\ Len(regions) \in Nat
  BY RegionFacts DEF Stage2Type
<1>2. END(m) \in Nat /\ Start(END(m)) \in {Page * q : q \in Nat}
  BY 0 \in Nat, EndFacts, StartFacts
<1>3. CASE ~(0 < last_start)
  BY <1>1, <1>3 DEF GapAbove, PAGE_ALGN_UP
<1>4. CASE 0 < last_start /\ LastType(regions) = REGION_RSVD
  <2>1. Len(regions) # 0
    BY <1>4 DEF LastType, REGION_RSVD
  <2>2. /\ GapAbove(m).regions = Extended(regions, END(m))
        /\ GapAbove(m).last_start = Start(END(m))
    BY <1>4 DEF GapAbove, PAGE_ALGN_UP
  <2>3. /\ Extended(regions, END(m)) \in Seq(BootRegions)
        /\ Len(Extended(regions, END(m))) = Len(regions)
        /\ Extended(regions, END(m))[Len(regions)].start = Start(END(m))
    BY <1>1, <1>2, <2>1, ExtendedIs
  <2> QED
    BY <2>1, <2>2, <2>3 DEF LastStart
<1>5. CASE 0 < last_start /\ LastType(regions) # REGION_RSVD
  <2>1. /\ GapAbove(m).regions = Append(regions, region_new(END(m), REGION_RSVD))
        /\ GapAbove(m).last_start = Start(END(m))
    BY <1>5 DEF GapAbove, PAGE_ALGN_UP
  <2>2. /\ region_new(END(m), REGION_RSVD) \in BootRegions
        /\ region_new(END(m), REGION_RSVD).start = Start(END(m))
    BY <1>2 DEF region_new, REGION_RSVD, BootRegions
  <2> DEFINE g == region_new(END(m), REGION_RSVD)
  <2> HIDE DEF g
  <2>3. g \in BootRegions /\ g.start = Start(END(m))
    BY <2>2 DEF g
  <2>4. /\ Append(regions, g) \in Seq(BootRegions) /\ Len(Append(regions, g)) = Len(regions) + 1
        /\ Append(regions, g)[Len(regions) + 1] = g
    BY <1>1, <2>3
  <2> QED
    BY <1>1, <2>1, <2>3, <2>4 DEF LastStart, g
<1> QED
  BY <1>3, <1>4, <1>5

LEMMA GapType ==
    ASSUME Stage2Type, NEW m \in BiosEntries, END(m) < Top, NEW p \in Nat, NEW t,
           p * Page < Top,
           FirstType(regions, p * Page, t),
           ~Below(regions, p * Page) /\ END(m) <= LastByte(p) => t = REGION_RSVD
    PROVE  /\ FirstType(GapAbove(m).regions, p * Page, t)
           /\ t # REGION_RSVD /\ Below(regions, p * Page) => Below(GapAbove(m).regions, p * Page)
           /\ ~Below(GapAbove(m).regions, p * Page) => LastByte(p) < END(m)
<1> DEFINE x == p * Page
<1>0. Page \in Nat \ {0} /\ x \in Nat /\ LastByte(p) \in Nat
  BY Stage2Assumption DEF LastByte
<1>1. regions \in Seq(BootRegions) /\ last_start = LastStart(regions) /\ Len(regions) \in Nat
  BY RegionFacts DEF Stage2Type
<1>2. END(m) \in Nat /\ Start(END(m)) \in {Page * q : q \in Nat} /\ Start(END(m)) \in Nat
  BY 0 \in Nat, EndFacts, StartFacts
<1>3. Start(END(m)) <= x <=> END(m) <= LastByte(p)
  BY <1>2, StartFacts
<1> HIDE DEF x
<1>4. CASE ~(0 < last_start)
  <2>1. GapAbove(m).regions = regions
    BY <1>4 DEF GapAbove, PAGE_ALGN_UP
  <2>2. Top \in Nat \ {0}
    BY Stage2Assumption
  <2>3. Len(regions) # 0 /\ ~(0 < regions[Len(regions)].start)
    BY <1>1, <1>4, <2>2 DEF LastStart
  <2>4. Len(regions) \in 1..Len(regions) /\ regions[Len(regions)].start \in Nat
    BY <1>1, <2>3, RegionFacts
  <2>5. regions[Len(regions)].start <= x
    BY <1>0, <2>3, <2>4
  <2>6. Below(regions, x)
    BY <2>4, <2>5 DEF Below
  <2> QED
    BY <2>1, <2>6 DEF x
<1>5. CASE 0 < last_start /\ LastType(regions) = REGION_RSVD
  <2>1. Len(regions) # 0 /\ regions[Len(regions)].type = REGION_RSVD
    BY <1>5 DEF LastType, REGION_RSVD
  <2>2. GapAbove(m).regions = Extended(regions, END(m))
    BY <1>5 DEF GapAbove, PAGE_ALGN_UP
  <2>3. ~Below(regions, x) /\ Start(END(m)) <= x => regions[Len(regions)].type = t
    BY <1>3, <2>1 DEF x
  <2>4. FirstType(regions, x, t)
    BY DEF x
  <2>5. /\ FirstType(Extended(regions, END(m)), x, t)
        /\ Start(END(m)) <= x => Below(Extended(regions, END(m)), x)
        /\ Below(regions, x) /\ regions[Len(regions)].type # t => Below(Extended(regions, END(m)), x)
    BY <1>0, <1>1, <1>2, <2>1, <2>3, <2>4, ExtendedType
  <2> QED
    BY <1>0, <1>2, <1>3, <2>1, <2>2, <2>5 DEF x
<1>6. CASE 0 < last_start /\ LastType(regions) # REGION_RSVD
  <2> DEFINE g == region_new(END(m), REGION_RSVD)
  <2>1. GapAbove(m).regions = Append(regions, g)
    BY <1>6 DEF GapAbove, PAGE_ALGN_UP
  <2>2. g \in BootRegions /\ g.start = Start(END(m)) /\ g.type = REGION_RSVD
    BY <1>2 DEF region_new, REGION_RSVD, BootRegions
  <2> HIDE DEF g
  <2>3. ~Below(regions, x) /\ g.start <= x => g.type = t
    BY <1>3, <2>2 DEF x
  <2>4. FirstType(regions, x, t)
    BY DEF x
  <2>5. /\ FirstType(Append(regions, g), x, t)
        /\ Below(regions, x) \/ g.start <= x => Below(Append(regions, g), x)
    BY <1>0, <1>1, <2>2, <2>3, <2>4, AppendedType
  <2> QED
    BY <1>0, <1>2, <1>3, <2>1, <2>2, <2>5 DEF x
<1> QED
  BY <1>4, <1>5, <1>6

LEMMA TranslateCases ==
    ASSUME Stage2Type, Translate
    PROVE  LET m == mmap[entry]
               gs == GapAbove(m).regions
               gl == GapAbove(m).last_start
           IN  \/ /\ LastType(gs) = TYPE(m) - 1 /\ m.base >= gl
                  /\ regions' = gs /\ last_start' = gl
               \/ /\ LastType(gs) = TYPE(m) - 1 /\ m.base < gl
                  /\ regions' = Extended(gs, m.base) /\ last_start' = Start(m.base)
               \/ /\ regions' = Append(gs, region_new(m.base, TYPE(m) - 1))
                  /\ last_start' = Start(m.base)
  BY DEF Translate

LEMMA TranslateType ==
    ASSUME Stage2Type, Translate
    PROVE  regions' \in Seq(BootRegions) /\ last_start' = LastStart(regions')
<1> DEFINE m == mmap[entry]
           gs == GapAbove(m).regions
           gl == GapAbove(m).last_start
           g == region_new(m.base, TYPE(m) - 1)
<1>1. entry \in 1..Len(mmap)
  BY MmapFacts DEF Translate, Stage2Type
<1>2. m \in BiosEntries /\ END(m) < Top
  BY <1>1, MmapFacts
<1>3. /\ gs \in Seq(BootRegions) /\ gl = LastStart(gs) /\ Len(gs) \in Nat
  BY <1>2, GapIs, RegionFacts
<1>4. m.base \in Nat /\ m.base < Top /\ TYPE(m) - 1 \in 0..3
  <2>1. m.base \in Nat /\ END(m) \in Nat /\ m.base <= END(m) /\ TYPE(m) \in 1..4 /\ Top \in Nat
    BY <1>2, EndFacts, Stage2Assumption
  <2> HIDE DEF m
  <2> QED
    BY <1>2, <2>1
<1>5. \/ regions' = gs /\ last_start' = gl
      \/ /\ LastType(gs) = TYPE(m) - 1
         /\ regions' = Extended(gs, m.base) /\ last_start' = Start(m.base)
      \/ regions' = Append(gs, g) /\ last_start' = Start(m.base)
  BY TranslateCases
<1>6. g \in BootRegions /\ g.start = Start(m.base)
  <2>1. Start(m.base) \in {Page * q : q \in Nat}
    BY <1>4, 0 \in Nat, StartFacts
  <2> HIDE DEF m
  <2>2. g = [start |-> Start(m.base), type |-> (TYPE(m) - 1) % 4]
    BY DEF region_new
  <2>3. (TYPE(m) - 1) % 4 \in 0..3
    BY <1>4
  <2> QED
    BY <2>1, <2>2, <2>3 DEF BootRegions
<1> HIDE DEF m, gs, gl, g
<1>7. CASE LastType(gs) = TYPE(m) - 1 /\ regions' = Extended(gs, m.base) /\ last_start' = Start(m.base)
  <2>1. Len(gs) # 0
    BY <1>4, <1>7 DEF LastType
  <2>2. /\ Extended(gs, m.base) \in Seq(BootRegions) /\ Len(Extended(gs, m.base)) = Len(gs)
        /\ Extended(gs, m.base)[Len(gs)].start = Start(m.base)
    BY <1>3, <1>4, <2>1, ExtendedIs
  <2> QED
    BY <1>7, <2>1, <2>2 DEF LastStart
<1>8. CASE regions' = Append(gs, g) /\ last_start' = Start(m.base)
  <2>1. /\ Append(gs, g) \in Seq(BootRegions) /\ Len(Append(gs, g)) = Len(gs) + 1
        /\ Append(gs, g)[Len(gs) + 1] = g
    BY <1>3, <1>6
  <2> QED
    BY <1>3, <1>6, <1>8, <2>1 DEF LastStart
<1> QED
  BY <1>3, <1>5, <1>7, <1>8

\* What an entry does to a page: a page that has a region keeps it, and one that has none gets
\* one of the entry's type when the entry holds its last byte.
LEMMA TranslatePage ==
    ASSUME Stage2Type, Translate, NEW p \in Nat, p * Page < Top, NEW t,
           Holds(mmap[entry], LastByte(p)) => TYPE(mmap[entry]) - 1 = t,
           FirstType(regions, p * Page, t),
           ~Below(regions, p * Page) /\ END(mmap[entry]) <= LastByte(p) => t = REGION_RSVD
    PROVE  /\ FirstType(regions', p * Page, t)
           /\ t # REGION_RSVD /\ (Below(regions, p * Page) \/ Holds(mmap[entry], LastByte(p)))
                 => Below(regions', p * Page)
<1> DEFINE m == mmap[entry]
           gs == GapAbove(m).regions
           gl == GapAbove(m).last_start
           g == region_new(m.base, TYPE(m) - 1)
           x == p * Page
<1>0. Page \in Nat \ {0} /\ x \in Nat /\ LastByte(p) \in Nat
  BY Stage2Assumption DEF LastByte
<1>1. entry \in 1..Len(mmap)
  BY MmapFacts DEF Translate, Stage2Type
<1>2. m \in BiosEntries /\ END(m) < Top
  BY <1>1, MmapFacts
<1>3. /\ gs \in Seq(BootRegions) /\ gl = LastStart(gs) /\ Len(gs) \in Nat
  BY <1>2, GapIs, RegionFacts
<1>4. m.base \in Nat /\ m.base < Top /\ TYPE(m) - 1 \in 0..3 /\ END(m) \in Nat
  <2>1. m.base \in Nat /\ END(m) \in Nat /\ m.base <= END(m) /\ TYPE(m) \in 1..4 /\ Top \in Nat
    BY <1>2, EndFacts, Stage2Assumption
  <2> HIDE DEF m
  <2> QED
    BY <1>2, <2>1
<1>5. \/ /\ LastType(gs) = TYPE(m) - 1 /\ m.base >= gl
         /\ regions' = gs /\ last_start' = gl
      \/ /\ LastType(gs) = TYPE(m) - 1 /\ m.base < gl
         /\ regions' = Extended(gs, m.base) /\ last_start' = Start(m.base)
      \/ regions' = Append(gs, g) /\ last_start' = Start(m.base)
  BY TranslateCases
<1>6. Start(m.base) \in Nat /\ (Start(m.base) <= x <=> m.base <= LastByte(p))
  BY <1>4, StartFacts
<1>7. g \in BootRegions /\ g.start = Start(m.base) /\ g.type = TYPE(m) - 1
  <2>1. Start(m.base) \in {Page * q : q \in Nat}
    BY <1>4, 0 \in Nat, StartFacts
  <2> HIDE DEF m
  <2>2. g = [start |-> Start(m.base), type |-> (TYPE(m) - 1) % 4]
    BY DEF region_new
  <2>3. (TYPE(m) - 1) % 4 = TYPE(m) - 1
    BY <1>4
  <2> QED
    BY <1>4, <2>1, <2>2, <2>3 DEF BootRegions
<1>8. /\ FirstType(gs, x, t)
      /\ t # REGION_RSVD /\ Below(regions, x) => Below(gs, x)
      /\ ~Below(gs, x) => LastByte(p) < END(m)
  BY <1>2, GapType
<1>9. Holds(m, LastByte(p)) => TYPE(m) - 1 = t
  OBVIOUS
<1> SUFFICES /\ FirstType(regions', x, t)
             /\ t # REGION_RSVD /\ (Below(gs, x) \/ Holds(m, LastByte(p))) => Below(regions', x)
  BY <1>8
<1> HIDE DEF m, gs, gl, g, x
<1>10. ~Below(gs, x) /\ Start(m.base) <= x => TYPE(m) - 1 = t
  BY <1>6, <1>8, <1>9 DEF Holds
<1>11. Holds(m, LastByte(p)) => Start(m.base) <= x
  BY <1>6 DEF Holds
<1>12. CASE LastType(gs) = TYPE(m) - 1 /\ m.base >= gl /\ regions' = gs
  <2>1. Len(gs) # 0
    BY <1>4, <1>12 DEF LastType
  <2>2. gl = gs[Len(gs)].start /\ Len(gs) \in 1..Len(gs) /\ gs[Len(gs)] \in BootRegions
    BY <1>3, <2>1, RegionFacts DEF LastStart
  <2>3. gl \in {Page * q : q \in Nat} /\ gl \in Nat
    BY <1>3, <2>2, RegionFacts DEF BootRegions
  <2>4. ASSUME Holds(m, LastByte(p)), ~Below(gs, x)
        PROVE  FALSE
    <3>1. gl > x
      BY <1>0, <2>2, <2>3, <2>4 DEF Below
    <3>2. gl > LastByte(p)
      BY <2>3, <3>1, PageAbove DEF x
    <3> QED
      BY <1>0, <1>4, <1>12, <2>3, <2>4, <3>2 DEF Holds
  <2> QED
    BY <1>8, <1>12, <2>4
<1>13. CASE LastType(gs) = TYPE(m) - 1 /\ m.base < gl /\ regions' = Extended(gs, m.base)
  <2>1. Len(gs) # 0 /\ gs[Len(gs)].type = TYPE(m) - 1
    BY <1>4, <1>13 DEF LastType
  <2>2. ~Below(gs, x) /\ Start(m.base) <= x => gs[Len(gs)].type = t
    BY <1>10, <2>1
  <2>3. /\ FirstType(Extended(gs, m.base), x, t)
        /\ Start(m.base) <= x => Below(Extended(gs, m.base), x)
    BY <1>0, <1>3, <1>4, <1>8, <2>1, <2>2, ExtendedType
  <2>4. ASSUME Below(gs, x), ~(Start(m.base) <= x)
        PROVE  Below(Extended(gs, m.base), x)
    <3>1. PICK k \in 1..Len(gs) : gs[k].start <= x
      BY <2>4 DEF Below
    <3>2. gl = gs[Len(gs)].start /\ gl \in Nat
      BY <1>3, <2>1, RegionFacts DEF LastStart
    <3>3. LastByte(p) < m.base
      BY <1>0, <1>4, <1>6, <2>4
    <3>4. x <= LastByte(p)
      BY <1>0 DEF LastByte, x
    <3>5. x < gl
      BY <1>0, <1>4, <1>13, <3>2, <3>3, <3>4
    <3>6. k \in 1..Len(gs) - 1
      BY <1>0, <1>3, <3>1, <3>2, <3>5
    <3>7. /\ Len(Extended(gs, m.base)) = Len(gs)
          /\ \A j \in 1..Len(gs) - 1 : Extended(gs, m.base)[j] = gs[j]
      BY <1>3, <1>4, <2>1, ExtendedIs
    <3> QED
      BY <3>1, <3>6, <3>7 DEF Below
  <2> QED
    BY <1>11, <1>13, <2>3, <2>4
<1>14. CASE regions' = Append(gs, g)
  <2>1. ~Below(gs, x) /\ g.start <= x => g.type = t
    BY <1>7, <1>10
  <2>2. /\ FirstType(Append(gs, g), x, t)
        /\ Below(gs, x) \/ g.start <= x => Below(Append(gs, g), x)
    BY <1>0, <1>3, <1>7, <1>8, <2>1, AppendedType
  <2> QED
    BY <1>7, <1>11, <1>14, <2>2
<1> QED
  BY <1>5, <1>12, <1>13, <1>14
LEMMA TranslateKeeps == Stage2Inv /\ Translate => Stage2Inv'
<1> SUFFICES ASSUME Stage2Inv, Translate
             PROVE  Stage2Inv'
  OBVIOUS
<1> USE DEF Stage2Inv
<1> DEFINE n == Len(mmap)
           m == mmap[entry]
<1>1. /\ pc = "translate" /\ entry <= n /\ entry' = entry + 1
      /\ bios' = bios /\ mmap' = mmap /\ pc' = pc
  BY DEF Translate
<1>2. /\ n \in Nat \ {0}
      /\ \A k \in 1..n : mmap[k] \in BiosEntries /\ END(mmap[k]) \in Nat /\ END(mmap[k]) < Top
  BY MmapFacts
<1>3. entry \in 1..n
  BY <1>1, <1>2 DEF Stage2Type
<1>4. Stage2Type'
  BY <1>1, <1>3, TranslateType DEF Stage2Type
<1>5. SameEntries'
  BY <1>1 DEF SameEntries
<1>6. EntriesSorted'
  BY <1>1, <1>2, <1>3 DEF EntriesSorted, SortedTo
<1>7. PagesRight'
  <2>1. ASSUME NEW p \in 0..Top \div Page - 1, NEW t \in 0..3, PageWants(p, t)
        PROVE  /\ FirstType(regions', p * Page, t)
               /\ t # REGION_RSVD =>
                     \A k \in 1..n :
                         k < entry + 1 /\ Holds(mmap[k], LastByte(p)) => Below(regions', p * Page)
    <3>1. p \in Nat /\ p * Page < Top
      <4>1. Page \in Nat \ {0} /\ Top \in Nat \ {0}
        BY Stage2Assumption
      <4>2. Top \div Page \in Nat /\ Page * (Top \div Page) <= Top
        BY <4>1, DivFacts
      <4>3. p \in Nat /\ p < Top \div Page
        BY <4>2
      <4>4. Page * p + Page <= Page * (Top \div Page)
        BY <4>1, <4>2, <4>3, WordBelow
      <4>5. p * Page = Page * p /\ Page * p \in Nat /\ Page * (Top \div Page) \in Nat
        BY <4>1, <4>2, <4>3
      <4> QED
        BY <4>1, <4>2, <4>3, <4>4, <4>5
    <3>2. /\ FirstType(regions, p * Page, t)
          /\ t # REGION_RSVD =>
                \A k \in 1..n :
                    k < entry /\ Holds(mmap[k], LastByte(p)) => Below(regions, p * Page)
      BY <1>1, <2>1 DEF PagesRight
    <3>3. Holds(m, LastByte(p)) => TYPE(m) - 1 = t
      BY <1>3, <2>1 DEF PageWants
    <3>4. ASSUME ~Below(regions, p * Page), END(m) <= LastByte(p), t # REGION_RSVD
          PROVE  FALSE
      <4>1. PICK k \in 1..n : Holds(mmap[k], LastByte(p))
        BY <2>1, <3>4 DEF PageWants
      <4>2. ~(k < entry)
        BY <3>2, <3>4, <4>1
      <4>3. LastByte(p) < END(mmap[k]) /\ LastByte(p) \in Nat
        BY <3>1, <4>1, Stage2Assumption DEF Holds, LastByte
      <4>4. END(mmap[k]) <= END(m)
        <5>1. CASE k = entry
          BY <1>2, <1>3, <5>1
        <5>2. CASE entry < k
          BY <1>1, <1>3, <5>2 DEF EntriesSorted, SortedTo
        <5> QED
          BY <1>3, <4>2, <5>1, <5>2
      <4> QED
        BY <1>2, <1>3, <3>4, <4>3, <4>4
    <3>5. /\ FirstType(regions', p * Page, t)
          /\ t # REGION_RSVD /\ (Below(regions, p * Page) \/ Holds(m, LastByte(p)))
                => Below(regions', p * Page)
      BY <3>1, <3>2, <3>3, <3>4, TranslatePage
    <3>6. ASSUME NEW k \in 1..n, t # REGION_RSVD, k < entry + 1, Holds(mmap[k], LastByte(p))
          PROVE  Below(regions', p * Page)
      <4>1. CASE k < entry
        BY <3>2, <3>5, <3>6, <4>1
      <4>2. CASE k = entry
        BY <3>5, <3>6, <4>2
      <4> QED
        BY <1>3, <3>6, <4>1, <4>2
    <3> QED
      BY <3>5, <3>6
  <2>2. \A p, t : PageWants(p, t)' <=> PageWants(p, t)
    BY <1>1 DEF PageWants
  <2> QED
    BY <1>1, <2>1, <2>2 DEF PagesRight
<1> QED
  BY <1>4, <1>5, <1>6, <1>7

LEMMA TranslatedKeeps == Stage2Inv /\ Translated => Stage2Inv'
<1> SUFFICES ASSUME Stage2Inv, Translated
             PROVE  Stage2Inv'
  OBVIOUS
<1> USE DEF Stage2Inv
<1>1. /\ pc = "translate" /\ entry = Len(mmap) + 1 /\ pc' = "done"
      /\ bios' = bios /\ mmap' = mmap /\ entry' = entry
      /\ regions' = regions /\ last_start' = last_start
  BY DEF Translated
<1>2. Stage2Type' /\ SameEntries' /\ EntriesSorted'
  BY <1>1 DEF Stage2Type, LastStart, SameEntries, EntriesSorted, SortedTo
<1>3. \A p, t : PageWants(p, t)' <=> PageWants(p, t)
  BY <1>1 DEF PageWants
<1>4. PagesRight'
  BY <1>1, <1>3 DEF PagesRight
<1> QED
  BY <1>2, <1>4

LEMMA Stage2Stutters == Stage2Inv /\ UNCHANGED stage2Vars => Stage2Inv'
<1> SUFFICES ASSUME Stage2Inv, UNCHANGED stage2Vars
             PROVE  Stage2Inv'
  OBVIOUS
<1>1. /\ bios' = bios /\ mmap' = mmap /\ entry' = entry /\ pc' = pc
      /\ regions' = regions /\ last_start' = last_start
  BY DEF stage2Vars
<1>2. Stage2Type' /\ SameEntries' /\ EntriesSorted'
  BY <1>1 DEF Stage2Inv, Stage2Type, LastStart, SameEntries, EntriesSorted, SortedTo
<1>3. \A p, t : PageWants(p, t)' <=> PageWants(p, t)
  BY <1>1 DEF PageWants
<1>4. PagesRight'
  BY <1>1, <1>3 DEF PagesRight, Stage2Inv
<1> QED
  BY <1>2, <1>4 DEF Stage2Inv

\* The inductive invariant of the boot loader's map.
LEMMA Stage2Always == Stage2Spec => []Stage2Inv
<1>1. Stage2Inv /\ [Stage2Next]_stage2Vars => Stage2Inv'
  BY SortPassKeeps, SortDoneKeeps, TranslateKeeps, TranslatedKeeps, Stage2Stutters DEF Stage2Next
<1> QED
  BY <1>1, Stage2Starts, PTL DEF Stage2Spec

-----------------------------------------------------------------------------
(* What the regions say in the end *)

\* What the BIOS says of a whole page is what the sorted map wants of it.
LEMMA BiosWants ==
    ASSUME Stage2Type, SameEntries, NEW p \in Nat, NEW t \in 0..3,
           \/ \A a \in PageAt(p) : BiosTypes(a) = {t}
           \/ t = REGION_RSVD /\ \A a \in PageAt(p) : BiosTypes(a) = {}
    PROVE  PageWants(p, t)
<1> DEFINE e == LastByte(p)
<1>1. Page \in Nat \ {0}
  BY Stage2Assumption
<1>2. e \in Nat /\ e \in PageAt(p)
  <2>1. p * Page \in Nat /\ (p + 1) * Page = p * Page + Page
    BY <1>1
  <2> QED
    BY <1>1, <2>1 DEF LastByte, PageAt
<1> HIDE DEF e
<1>3. BiosTypes(e) = {t} \/ (t = REGION_RSVD /\ BiosTypes(e) = {})
  BY <1>2
<1>4. \A j \in 1..Len(bios) : bios[j] \in BiosEntries /\ bios[j].base \in Nat /\ END(bios[j]) \in Nat
  BY EndFacts DEF Stage2Type
<1>5. DOMAIN bios = 1..Len(bios)
  BY DEF Stage2Type
<1>6. \A j \in 1..Len(bios) : Holds(bios[j], e) <=> e \in bios[j].base..END(bios[j]) - 1
  BY <1>2, <1>4 DEF Holds
<1>7. ASSUME NEW k \in 1..Len(mmap), Holds(mmap[k], e)
      PROVE  TYPE(mmap[k]) - 1 = t
  <2>1. PICK j \in 1..Len(bios) : mmap[k] = bios[j]
    BY DEF SameEntries
  <2>2. j \in {l \in DOMAIN bios : e \in bios[l].base..END(bios[l]) - 1}
    BY <1>5, <1>6, <1>7, <2>1
  <2>3. TYPE(bios[j]) - 1 \in BiosTypes(e)
    BY <2>2 DEF BiosTypes
  <2> QED
    BY <1>3, <2>1, <2>3
<1>8. ASSUME t # REGION_RSVD
      PROVE  \E k \in 1..Len(mmap) : Holds(mmap[k], e)
  <2>1. t \in BiosTypes(e)
    BY <1>3, <1>8
  <2>2. PICK j \in DOMAIN bios : e \in bios[j].base..END(bios[j]) - 1
    BY <2>1 DEF BiosTypes
  <2>3. j \in 1..Len(bios) /\ Holds(bios[j], e)
    BY <1>5, <1>6, <2>2
  <2> QED
    BY <2>3 DEF SameEntries
<1> QED
  BY <1>7, <1>8 DEF PageWants, e

LEMMA RegionTypeIs ==
    ASSUME regions \in Seq(BootRegions), NEW x \in Nat, NEW t, FirstType(regions, x, t)
    PROVE  /\ Below(regions, x) => RegionType(x) = t
           /\ ~Below(regions, x) => RegionType(x) = REGION_RSVD
<1> DEFINE S == RegionsAt(x)
<1>1. DOMAIN regions = 1..Len(regions) /\ \A k \in 1..Len(regions) : regions[k].start \in Nat
  BY RegionFacts
<1>2. S \in SUBSET Nat /\ (S = {} <=> ~Below(regions, x))
  BY <1>1 DEF RegionsAt, Below
<1>3. CASE S = {}
  BY <1>2, <1>3 DEF RegionType
<1>4. CASE S # {}
  <2> DEFINE k == Min(S)
  <2>1. k \in S /\ \A y \in S : k <= y
    BY <1>2, <1>4, LeastRegionFacts
  <2>2. RegionType(x) = regions[k].type
    BY <1>4 DEF RegionType
  <2> HIDE DEF k
  <2>3. k \in 1..Len(regions) /\ regions[k].start <= x
    BY <1>1, <2>1 DEF RegionsAt
  <2>4. \A j \in 1..k - 1 : regions[j].start > x
    <3> SUFFICES ASSUME NEW j \in 1..k - 1
                 PROVE  regions[j].start > x
      OBVIOUS
    <3>1. j \in 1..Len(regions) /\ ~(k <= j)
      BY <1>1, <2>3
    <3>2. j \notin S
      BY <2>1, <3>1
    <3> QED
      BY <1>1, <3>1, <3>2 DEF RegionsAt
  <2>5. regions[k].type = t
    BY <2>3, <2>4 DEF FirstType
  <2> QED
    BY <1>2, <1>4, <2>2, <2>5
<1> QED
  BY <1>3, <1>4

\* For every map that a BIOS gives, the regions that the boot loader hands on have each page that
\* the BIOS describes in one way with that type, and each page it does not mention as reserved.
THEOREM RegionsTellTheMap == Stage2Spec => []RegionsTrue
<1>1. Stage2Inv => RegionsTrue
  <2> SUFFICES ASSUME Stage2Inv, pc = "done",
                      NEW p \in 0..Top \div Page - 1
               PROVE  \A t \in 0..3 :
                          /\ (\A a \in PageAt(p) : BiosTypes(a) = {t}) => RegionType(p * Page) = t
                          /\ (\A a \in PageAt(p) : BiosTypes(a) = {})
                                => RegionType(p * Page) = REGION_RSVD
    BY DEF RegionsTrue
  <2> USE DEF Stage2Inv
  <2>1. Page \in Nat \ {0} /\ Top \in Nat \ {0} /\ p \in Nat /\ p * Page \in Nat
    <3>1. Page \in Nat \ {0} /\ Top \in Nat \ {0}
      BY Stage2Assumption
    <3>2. Top \div Page \in Nat
      BY <3>1, DivFacts
    <3>3. p \in Nat
      BY <3>2
    <3> QED
      BY <3>1, <3>3
  <2>2. ASSUME NEW t \in 0..3, PageWants(p, t)
        PROVE  RegionType(p * Page) = t
    <3>1. /\ FirstType(regions, p * Page, t)
          /\ t # REGION_RSVD =>
                \A k \in 1..Len(mmap) :
                    k < entry /\ Holds(mmap[k], LastByte(p)) => Below(regions, p * Page)
      BY <2>2 DEF PagesRight
    <3>2. t # REGION_RSVD => Below(regions, p * Page)
      <4> SUFFICES ASSUME t # REGION_RSVD
                   PROVE  Below(regions, p * Page)
        OBVIOUS
      <4>1. PICK k \in 1..Len(mmap) : Holds(mmap[k], LastByte(p))
        BY <2>2 DEF PageWants
      <4>2. k < entry
        BY MmapFacts DEF EntriesSorted
      <4> QED
        BY <3>1, <4>1, <4>2
    <3>3. regions \in Seq(BootRegions)
      BY DEF Stage2Type
    <3> QED
      BY <2>1, <3>1, <3>2, <3>3, RegionTypeIs
  <2>3. REGION_RSVD \in 0..3
    BY DEF REGION_RSVD
  <2> QED
    BY <2>1, <2>2, <2>3, BiosWants
<1> QED
  BY <1>1, Stage2Always, PTL
=============================================================================
