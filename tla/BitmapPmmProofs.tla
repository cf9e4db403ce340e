--------------------------- MODULE BitmapPmmProofs ---------------------------
(***************************************************************************)
(* Proofs about the bitmap frame allocator, for every memory map, word      *)
(* size and fast range that PmmAssumption allows.                           *)
(*                                                                         *)
(* The inductive invariant is IInv: the bitmap holds exactly the reserved   *)
(* frames and those that are out, what is out is usable, and a clear        *)
(* summary bit stands over a word with a clear bit.                         *)
(***************************************************************************)
EXTENDS BitmapPmm, DivisionFacts, FiniteSetTheorems, SequenceTheorems

-----------------------------------------------------------------------------
(* Geometry of a memory map *)

LEMMA CeilDivFacts ==
    ASSUME NEW a \in Nat, NEW b \in Nat \ {0}
    PROVE  CeilDiv(a, b) \in Nat /\ a <= b * CeilDiv(a, b)
  <1>1. a + b - 1 \in Nat
    OBVIOUS
  <1>2. /\ (a + b - 1) \div b \in Nat
        /\ a + b - 1 < b * ((a + b - 1) \div b) + b
    BY <1>1, DivFacts
  <1> QED
    BY <1>2, SMT DEF CeilDiv

LEMMA MapFacts ==
    ASSUME regions \in RegionMaps
    PROVE  /\ tot_blk \in Nat
           /\ Len(regions) \in Nat
           /\ \A i \in 1..Len(regions) : regions[i].start \in 0..tot_blk
           /\ tot_blk <= FastEnd
  <1>1. IsRegionMap(regions) /\ regions[1].start <= FastEnd
    BY PmmAssumption
  <1>2. /\ regions \in Seq([start : Nat, type : {"avail", "other"}])
        /\ Len(regions) > 1
        /\ \A i, k \in 1..Len(regions) : i <= k => regions[k].start <= regions[i].start
    BY <1>1 DEF IsRegionMap
  <1>3. Len(regions) \in Nat
    BY <1>2
  <1>4. \A i \in 1..Len(regions) : regions[i].start \in Nat
    <2> SUFFICES ASSUME NEW i \in 1..Len(regions) PROVE regions[i].start \in Nat
      OBVIOUS
    <2>1. regions[i] \in [start : Nat, type : {"avail", "other"}]
      BY <1>2, ElementOfSeq
    <2> QED
      BY <2>1
  <1>5. 1 \in 1..Len(regions)
    BY <1>2, <1>3
  <1> QED
    BY <1>1, <1>2, <1>3, <1>4, <1>5 DEF tot_blk

LEMMA SizeFacts ==
    ASSUME regions \in RegionMaps
    PROVE  /\ bm0_nw \in Nat /\ tot_blk <= W * bm0_nw
           /\ bm1_nw \in Nat /\ bm0_nw <= W * bm1_nw
           /\ bm_sz \in Nat
  <1>1. tot_blk \in Nat /\ W \in Nat \ {0} /\ PageBits \in Nat \ {0}
    BY MapFacts, PmmAssumption
  <1>2. bm0_nw \in Nat /\ tot_blk <= W * bm0_nw
    BY <1>1, CeilDivFacts DEF bm0_nw
  <1>3. bm1_nw \in Nat /\ bm0_nw <= W * bm1_nw
    BY <1>1, <1>2, CeilDivFacts DEF bm1_nw
  <1>4. W * bm0_nw + W * bm1_nw \in Nat
    BY <1>1, <1>2, <1>3, SMT
  <1>5. bm_sz \in Nat
    BY <1>1, <1>4, CeilDivFacts DEF bm_sz
  <1> QED
    BY <1>2, <1>3, <1>5

\* AVAIL memory ends where memory ends.
LEMMA AvailInMemory ==
    ASSUME regions \in RegionMaps
    PROVE  AvailFrames \subseteq 0..tot_blk - 1
  <1> SUFFICES ASSUME NEW i \in 2..Len(regions), NEW f \in RegionFrames(i)
               PROVE  f \in 0..tot_blk - 1
    BY DEF AvailFrames
  <1>1. i \in 1..Len(regions) /\ i - 1 \in 1..Len(regions)
    BY MapFacts
  <1> QED
    BY <1>1, MapFacts, SMTT(60) DEF RegionFrames

\* If some region is big enough, the one _init takes is.
LEMMA BmregBigEnough ==
    ASSUME regions \in RegionMaps, BigEnough # {}
    PROVE  bmreg \in BigEnough
  <1> DEFINE Down == {Len(regions) - i : i \in BigEnough}
  <1>1. BigEnough \subseteq 2..Len(regions) /\ Len(regions) \in Nat
    BY MapFacts DEF BigEnough
  <1>2. Down \in SUBSET Nat /\ Down # {}
    BY <1>1
  <1>3. PICK x \in Down : \A y \in Down : x <= y
    BY <1>2, NatLeast
  <1>4. PICK i \in BigEnough : x = Len(regions) - i
    BY <1>3
  <1>5. \A k \in BigEnough : k <= i
    <2> SUFFICES ASSUME NEW k \in BigEnough PROVE k <= i
      OBVIOUS
    <2>1. x <= Len(regions) - k
      BY <1>3
    <2> QED
      BY <2>1, <1>1, <1>4
  <1> QED
    BY <1>4, <1>5 DEF bmreg

LEMMA BitmapsInMemory ==
    ASSUME regions \in RegionMaps, BigEnough # {}
    PROVE  BmFrames \subseteq 0..tot_blk - 1
  <1>1. /\ bmreg \in 2..Len(regions)
        /\ regions[bmreg - 1].start - regions[bmreg].start >= bm_sz
    BY BmregBigEnough DEF BigEnough
  <1>2. bmreg \in 1..Len(regions) /\ bmreg - 1 \in 1..Len(regions)
    BY <1>1, MapFacts
  <1> QED
    BY <1>1, <1>2, MapFacts, SizeFacts, SMTT(60) DEF BmFrames

LEMMA ReservedInBits ==
    ASSUME regions \in RegionMaps, BigEnough # {}
    PROVE  Reserved \subseteq Bits0 /\ InitialBits = Reserved
  BY BitmapsInMemory, SizeFacts, MapFacts, PmmAssumption DEF Reserved, Bits0, InitialBits

LEMMA BitsAreWords ==
    ASSUME regions \in RegionMaps
    PROVE  /\ \A w \in 0..bm0_nw - 1 : WordBits(w) \subseteq Bits0
           /\ 0..bm0_nw - 1 \subseteq Bits1
           /\ 0..tot_blk - 1 \subseteq Bits0
  <1>1. \A w \in 0..bm0_nw - 1 : WordBits(w) \subseteq Bits0
    <2> SUFFICES ASSUME NEW w \in 0..bm0_nw - 1, NEW b \in WordBits(w)
                 PROVE  b \in Bits0
      OBVIOUS
    <2>1. W * w + W <= W * bm0_nw
      BY WordBelow, SizeFacts, PmmAssumption
    <2>2. W * w \in Nat /\ W * bm0_nw \in Nat
      BY SizeFacts, PmmAssumption
    <2> QED
      BY <2>1, <2>2, PmmAssumption DEF WordBits, Bits0
  <1> QED
    BY <1>1, SizeFacts, MapFacts, PmmAssumption, SMTT(60) DEF Bits0, Bits1

\* Nothing that depends on the memory map changes while the map does not.
LEMMA MapFixed ==
    ASSUME regions' = regions
    PROVE  /\ tot_blk' = tot_blk /\ bm0_nw' = bm0_nw
           /\ Bits0' = Bits0 /\ Bits1' = Bits1
           /\ Reserved' = Reserved /\ Usable' = Usable
  <1>1. tot_blk' = tot_blk
    BY DEF tot_blk
  <1>2. bm0_nw' = bm0_nw
    BY <1>1 DEF bm0_nw
  <1>3. bm1_nw' = bm1_nw
    BY <1>2 DEF bm1_nw
  <1>4. bm_sz' = bm_sz
    BY <1>2, <1>3 DEF bm_sz
  <1>5. BigEnough' = BigEnough
    BY <1>4 DEF BigEnough
  <1>6. bmreg' = bmreg
    BY <1>5 DEF bmreg
  <1>7. BmFrames' = BmFrames
    BY <1>4, <1>6 DEF BmFrames
  <1>8. AvailFrames' = AvailFrames
    BY DEF AvailFrames, RegionFrames
  <1>9. Bits0' = Bits0 /\ Bits1' = Bits1
    BY <1>2, <1>3 DEF Bits0, Bits1
  <1> QED
    BY <1>1, <1>2, <1>7, <1>8, <1>9 DEF Reserved, Usable

-----------------------------------------------------------------------------
(* The search *)

\* A search ends at a clear bit of the word, or past its last bit.
LEMMA SearchFacts ==
    ASSUME NEW clear \in SUBSET (0..W - 1)
    PROVE  FirstClear(clear) \subseteq clear \cup {W}
  BY PmmAssumption DEF FirstClear, Firsts

LEMMA CandidatesInRange ==
    ASSUME regions \in RegionMaps, NEW w \in CandidateWords
    PROVE  w \in Nat /\ FastStart <= W * w
  <1>1. PICK i \in NotFull1 : \E j \in FirstClear(Clear(bm1, i)) : w = W * i + j
    BY DEF CandidateWords, Firsts
  <1>2. PICK j \in 0..W : w = W * i + j
    BY <1>1, SearchFacts, PmmAssumption DEF Clear
  <1>3. W \in Nat \ {0} /\ FastStart \in Nat
    BY PmmAssumption
  <1> DEFINE s == CeilDiv(FastStart, W)
  <1>4. s \in Nat /\ FastStart <= W * s
    BY <1>3, CeilDivFacts
  <1>5. bm1_startw \in Nat /\ s <= W * bm1_startw
    BY <1>3, <1>4, CeilDivFacts DEF bm1_startw
  <1> HIDE DEF s
  <1>6. i \in Nat /\ bm1_startw <= i
    BY <1>5, SizeFacts DEF NotFull1
  <1>7. W * bm1_startw <= W * i
    BY <1>3, <1>5, <1>6, SMT
  <1>8. W * i \in Nat /\ W * bm1_startw \in Nat
    BY <1>3, <1>5, <1>6, SMT
  <1>9. w \in Nat /\ s <= w
    BY <1>2, <1>3, <1>4, <1>5, <1>7, <1>8
  <1>10. W * s <= W * w
    BY <1>3, <1>4, <1>9, SMT
  <1>11. W * s \in Nat /\ W * w \in Nat
    BY <1>3, <1>4, <1>9, SMT
  <1> QED
    BY <1>3, <1>4, <1>9, <1>10, <1>11

-----------------------------------------------------------------------------
(* The inductive invariant *)

SetUp == phase \notin {"boot", "no_space"}

IInv ==
    /\ TypeOK
    /\ BitmapExact
    /\ SummarySound
    /\ IF SetUp THEN held \subseteq Usable /\ BigEnough # {} ELSE held = {}

\* The frame that _alloc hands out is usable and was not out.
LEMMA FoundFrame ==
    ASSUME IInv, NEW w \in CandidateWords, AllocFrame(w)
    PROVE  \E f \in Usable \ held :
              /\ f \in WordBits(w) /\ f \div W = w /\ w \in 0..bm0_nw - 1
              /\ Set(f) /\ held' = held \cup {f} /\ ret' = f
  <1>1. PICK j \in FirstClear(Clear(bm0, w)) \ {W} :
            Set(W * w + j) /\ held' = held \cup {W * w + j} /\ ret' = W * w + j
    BY DEF AllocFrame
  <1> DEFINE f == W * w + j
  <1>2. regions \in RegionMaps
    BY DEF IInv, TypeOK
  <1>3. w \in Nat /\ w < bm0_nw /\ FastStart <= W * w /\ bm0_nw \in Nat
    BY <1>2, CandidatesInRange, SizeFacts DEF AllocFrame
  <1>4. j \in 0..W - 1 /\ f \notin bm0
    BY SearchFacts DEF Clear
  <1>5. W \in Nat \ {0} /\ W * w \in Nat
    BY <1>3, PmmAssumption, SMT
  <1>6. f \in WordBits(w)
    BY <1>4, <1>5 DEF WordBits
  <1>7. f \in Bits0
    BY <1>2, <1>3, <1>6, BitsAreWords
  <1>8. bm0 = Reserved \cup held
    BY DEF IInv, BitmapExact, AllocFrame, Searching
  <1>9. f \in AvailFrames \ BmFrames /\ f \notin held
    BY <1>4, <1>7, <1>8 DEF Reserved
  <1>10. FastStart <= f
    BY <1>3, <1>4, <1>5, PmmAssumption
  <1>11. f \div W = w
    BY <1>3, <1>4, <1>5, DivUnique
  <1>12. f \in Usable \ held
    BY <1>9, <1>10 DEF Usable
  <1> QED
    BY <1>1, <1>3, <1>6, <1>11, <1>12

LEMMA InitInvariant == Init => IInv
  <1> SUFFICES ASSUME Init PROVE IInv
    OBVIOUS
  <1>1. tot_blk \in Nat
    BY MapFacts DEF Init
  <1> QED
    BY <1>1 DEF Init, IInv, TypeOK, BitmapExact, SummarySound, SetUp, PADDR_INVALID

\* _init: the closed form of its three passes establishes the invariant.
LEMMA PmmInitPreserves ==
    ASSUME IInv, PmmInit
    PROVE  IInv'
  <1>1. regions \in RegionMaps /\ regions' = regions /\ phase = "boot" /\ held' = {}
        /\ ret' = ret /\ bm0 \subseteq Bits0 /\ bm1 \subseteq Bits1
        /\ used_blk \in 0..tot_blk /\ ret \in 0..tot_blk - 1 \cup {PADDR_INVALID}
    BY DEF IInv, TypeOK, PmmInit, SetUp
  <1>2. BigEnough' = BigEnough
    BY <1>1 DEF BigEnough, bm_sz, bm1_nw, bm0_nw, tot_blk
  <1>3. CASE BigEnough = {}
    <2>1. phase' = "no_space" /\ managed' = 2..Len(regions)
          /\ bm0' = bm0 /\ bm1' = bm1 /\ used_blk' = used_blk
      BY <1>3 DEF PmmInit, UsedAfterInit
    <2>2. TypeOK'
      BY <1>1, <2>1, MapFixed DEF TypeOK, Stopped, PADDR_INVALID
    <2> QED
      BY <1>1, <2>1, <2>2 DEF IInv, BitmapExact, SummarySound, SetUp
  <1>4. CASE BigEnough # {}
    <2>1. /\ phase' = "ready" /\ managed' = bmreg..Len(regions)
          /\ bm0' = Reserved
          /\ bm1' = (Bits1 \ EmptiedWords) \cup FilledWords
          /\ used_blk' = tot_blk - Cardinality(AvailFrames)
                         + Cardinality(BmFrames \cap AvailFrames)
      BY <1>1, <1>4, ReservedInBits DEF PmmInit, UsedAfterInit
    <2>2. managed' \subseteq 2..Len(regions)
      <3>1. bmreg \in 2..Len(regions) /\ Len(regions) \in Nat
        BY <1>1, <1>4, BmregBigEnough, MapFacts DEF BigEnough
      <3> QED
        BY <2>1, <3>1
    <2>3. bm1' \subseteq Bits1
      BY <2>1, <1>1, BitsAreWords DEF FilledWords
    <2>4. used_blk' \in 0..tot_blk
      <3>1. tot_blk \in Nat
        BY <1>1, MapFacts
      <3>2. IsFiniteSet(0..tot_blk - 1) /\ Cardinality(0..tot_blk - 1) = tot_blk
        BY <3>1, FS_Interval
      <3>3. IsFiniteSet(AvailFrames) /\ Cardinality(AvailFrames) <= tot_blk
        BY <1>1, <3>2, AvailInMemory, FS_Subset, ZenonT(60)
      <3>4. /\ IsFiniteSet(BmFrames \cap AvailFrames)
            /\ Cardinality(BmFrames \cap AvailFrames) <= Cardinality(AvailFrames)
        BY <3>3, FS_Intersection
      <3>5. Cardinality(AvailFrames) \in Nat /\ Cardinality(BmFrames \cap AvailFrames) \in Nat
        BY <3>3, <3>4, FS_CardinalityType
      <3> QED
        BY <2>1, <3>1, <3>3, <3>4, <3>5
    <2>5. TypeOK'
      BY <1>1, <1>4, <2>1, <2>2, <2>3, <2>4, MapFixed, ReservedInBits
         DEF TypeOK, PADDR_INVALID
    <2>6. BitmapExact'
      BY <1>1, <2>1, MapFixed DEF BitmapExact
    <2>7. SummarySound'
      <3> SUFFICES ASSUME NEW w \in Bits1 \ bm1'
                   PROVE  w < bm0_nw /\ ~(WordBits(w) \subseteq bm0')
        BY <1>1, MapFixed DEF SummarySound, WordBits
      <3>1. w \in EmptiedWords /\ w \notin FilledWords
        BY <2>1
      <3>2. w \in 0..bm0_nw - 1 /\ WordBits(w) \subseteq AvailFrames
        BY <3>1 DEF EmptiedWords
      <3>3. W * w \in WordBits(w)
        BY <3>2, PmmAssumption, SizeFacts, <1>1 DEF WordBits
      <3>4. CASE WordBits(w) \cap BmFrames = {}
        BY <3>2, <3>3, <3>4, <2>1, <1>1, SizeFacts, BitsAreWords DEF Reserved
      <3>5. CASE WordBits(w) \cap BmFrames # {}
        BY <3>1, <3>2, <3>5, <2>1, <1>1, <1>4, SizeFacts, ReservedInBits DEF FilledWords
      <3> QED
        BY <3>4, <3>5
    <2> QED
      BY <1>1, <1>2, <1>4, <2>1, <2>5, <2>6, <2>7 DEF IInv, SetUp
  <1> QED
    BY <1>3, <1>4

\* A step that leaves the bitmaps, what is out and the map alone keeps the invariant.
LEMMA QuietStep ==
    ASSUME IInv, UNCHANGED <<regions, managed, bm0, bm1, used_blk, held>>,
           phase = "ready", phase' \in {"ready"} \cup (Stopped \ {"no_space"}),
           ret' = ret \/ ret' = PADDR_INVALID
    PROVE  IInv'
  <1>1. TypeOK'
    BY MapFixed DEF IInv, TypeOK, Stopped
  <1>2. BitmapExact'
    BY MapFixed DEF IInv, BitmapExact, Stopped
  <1>3. SummarySound'
    BY MapFixed DEF IInv, SummarySound, WordBits, Stopped
  <1>4. BigEnough' = BigEnough
    BY DEF BigEnough, bm_sz, bm1_nw, bm0_nw, tot_blk
  <1> QED
    BY <1>1, <1>2, <1>3, <1>4, MapFixed DEF IInv, SetUp, Stopped

LEMMA AllocFramePreserves ==
    ASSUME IInv, NEW w \in CandidateWords, AllocFrame(w)
    PROVE  IInv'
  <1>1. PICK f \in Usable \ held :
            /\ f \in WordBits(w) /\ f \div W = w /\ w \in 0..bm0_nw - 1
            /\ Set(f) /\ held' = held \cup {f} /\ ret' = f
    BY FoundFrame
  <1>2. /\ phase = "ready" /\ phase' = "ready" /\ regions \in RegionMaps
        /\ UNCHANGED <<regions, managed, used_blk>>
    BY DEF AllocFrame, Searching, IInv, TypeOK
  <1>3. /\ bm0 = Reserved \cup held /\ Reserved \cap held = {} /\ TypeOK
        /\ SummarySound /\ held \subseteq Usable /\ BigEnough # {}
    BY <1>2 DEF IInv, BitmapExact, SetUp
  <1>4. f \in 0..tot_blk - 1 /\ f \in Bits0
    BY <1>1, <1>2, AvailInMemory, BitsAreWords DEF Usable
  <1>5. f \notin Reserved
    BY <1>1, <1>4 DEF Usable, Reserved
  <1>6. bm0' = bm0 \cup {f} /\ bm1' \subseteq bm1 \cup {w}
        /\ (WordBits(w) \subseteq bm0' => w \in bm1')
        /\ bm1 \subseteq bm1'
    BY <1>1 DEF Set
  <1>7. TypeOK'
    BY <1>1, <1>2, <1>3, <1>4, <1>6, MapFixed, BitsAreWords DEF TypeOK
  <1>8. BitmapExact'
    BY <1>1, <1>2, <1>3, <1>5, <1>6, MapFixed DEF BitmapExact
  <1>9. SummarySound'
    <2> SUFFICES ASSUME NEW v \in Bits1 \ bm1'
                 PROVE  v < bm0_nw /\ ~(WordBits(v) \subseteq bm0')
      BY <1>2, MapFixed DEF SummarySound, WordBits
    <2>1. v < bm0_nw /\ ~(WordBits(v) \subseteq bm0) /\ v \in Nat
      BY <1>2, <1>3, <1>6, SizeFacts, PmmAssumption DEF SummarySound, Bits1
    <2>2. CASE v = w
      BY <1>6, <2>1, <2>2
    <2>3. CASE v # w
      <3>1. f \notin WordBits(v)
        <4> SUFFICES ASSUME f \in WordBits(v) PROVE FALSE
          OBVIOUS
        <4>1. W * v \in Nat /\ W \in Nat \ {0}
          BY <2>1, PmmAssumption, SMT
        <4>2. f - W * v \in 0..W - 1 /\ f = W * v + (f - W * v)
          BY <4>1 DEF WordBits
        <4>3. f \div W = v
          BY <2>1, <4>1, <4>2, DivUnique
        <4> QED
          BY <1>1, <2>3, <4>3
      <3> QED
        BY <1>6, <2>1, <3>1
    <2> QED
      BY <2>2, <2>3
  <1>10. BigEnough' = BigEnough
    BY <1>2 DEF BigEnough, bm_sz, bm1_nw, bm0_nw, tot_blk
  <1> QED
    BY <1>1, <1>2, <1>3, <1>7, <1>8, <1>9, <1>10, MapFixed DEF IInv, SetUp

\* What is out passes the ASSERTs of _free.
LEMMA HeldPassesAsserts ==
    ASSUME IInv, phase = "ready", NEW f \in held
    PROVE  FreeAsserts(f)
  <1>1. f \in Usable /\ f \in bm0 /\ regions \in RegionMaps
    BY DEF IInv, SetUp, BitmapExact, TypeOK
  <1>2. f \in 0..tot_blk - 1 /\ FastStart <= f
    BY <1>1, AvailInMemory DEF Usable
  <1> QED
    BY <1>1, <1>2, MapFacts, PmmAssumption DEF FreeAsserts

LEMMA FreePreserves ==
    ASSUME IInv, NEW f \in held \cup {0}, Free(f)
    PROVE  IInv'
  <1>1. /\ phase = "ready" /\ regions \in RegionMaps
        /\ UNCHANGED <<regions, managed, used_blk, ret>>
    BY DEF Free, IInv, TypeOK
  <1>2. CASE ~FreeAsserts(f)
    <2>1. phase' = "assert" /\ UNCHANGED <<bm0, bm1, held>>
      BY <1>2 DEF Free
    <2> QED
      BY <1>1, <2>1, QuietStep DEF Stopped
  <1>3. CASE FreeAsserts(f)
    <2>1. /\ bm0 = Reserved \cup held /\ Reserved \cap held = {} /\ TypeOK
          /\ SummarySound /\ held \subseteq Usable /\ BigEnough # {}
      BY <1>1 DEF IInv, BitmapExact, SetUp
    <2>2. f \in held
      BY <1>3, PmmAssumption DEF FreeAsserts
    <2>3. /\ bm0' = bm0 \ {f} /\ held' = held \ {f} /\ phase' = "ready"
          /\ bm1' \subseteq bm1
          /\ \A v \in bm1 \ bm1' : v = f \div W /\ WordBits(v) \cap bm0' = {}
      BY <1>1, <1>3 DEF Free, Unset
    <2>4. TypeOK'
      BY <1>1, <2>1, <2>3, MapFixed DEF TypeOK
    <2>5. BitmapExact'
      BY <1>1, <2>1, <2>2, <2>3, MapFixed DEF BitmapExact
    <2>6. SummarySound'
      <3> SUFFICES ASSUME NEW v \in Bits1 \ bm1'
                   PROVE  v < bm0_nw /\ ~(WordBits(v) \subseteq bm0')
        BY <1>1, MapFixed DEF SummarySound, WordBits
      <3>1. CASE v \notin bm1
        BY <1>1, <2>1, <2>3, <3>1 DEF SummarySound
      <3>2. CASE v \in bm1
        <4>1. v = f \div W /\ WordBits(v) \cap bm0' = {}
          BY <2>3, <3>2
        <4>2. f \in 0..tot_blk - 1 /\ tot_blk \in Nat /\ bm0_nw \in Nat
              /\ tot_blk <= W * bm0_nw /\ W \in Nat \ {0}
          BY <1>1, <2>1, <2>2, AvailInMemory, MapFacts, SizeFacts, PmmAssumption
             DEF Usable
        <4>3. f \in Nat /\ v \in Nat /\ W * v <= f
          BY <4>1, <4>2, DivFacts
        <4>4. v < bm0_nw
          <5> SUFFICES ASSUME bm0_nw <= v PROVE FALSE
            BY <4>2, <4>3
          <5>1. W * bm0_nw <= W * v
            BY <4>2, <4>3, SMT
          <5>2. W * bm0_nw \in Nat /\ W * v \in Nat
            BY <4>2, <4>3, SMT
          <5> QED
            BY <4>2, <4>3, <5>1, <5>2
        <4>5. W * v \in WordBits(v)
          BY <4>2, <4>3, SMT DEF WordBits
        <4> QED
          BY <4>1, <4>4, <4>5
      <3> QED
        BY <3>1, <3>2
    <2>7. BigEnough' = BigEnough
      BY <1>1 DEF BigEnough, bm_sz, bm1_nw, bm0_nw, tot_blk
    <2> QED
      BY <1>1, <2>1, <2>3, <2>4, <2>5, <2>6, <2>7, MapFixed DEF IInv, SetUp
  <1> QED
    BY <1>2, <1>3

LEMMA NextPreserves == IInv /\ [Next]_pmmVars => IInv'
  <1> SUFFICES ASSUME IInv, [Next]_pmmVars PROVE IInv'
    OBVIOUS
  <1>1. CASE PmmInit
    BY <1>1, PmmInitPreserves
  <1>2. CASE AllocInvalid
    BY <1>2, QuietStep DEF AllocInvalid, Stopped
  <1>3. ASSUME NEW w \in CandidateWords, AllocFrame(w) PROVE IInv'
    BY <1>3, AllocFramePreserves
  <1>4. ASSUME NEW w \in CandidateWords, AllocUnreachable(w) PROVE IInv'
    BY <1>4, QuietStep DEF AllocUnreachable, Searching, Stopped
  <1>5. ASSUME NEW w \in CandidateWords, AllocWild(w) PROVE IInv'
    BY <1>5, QuietStep DEF AllocWild, Searching, Stopped
  <1>6. ASSUME NEW f \in held \cup {0}, Free(f) PROVE IInv'
    BY <1>6, FreePreserves
  <1>7. CASE UNCHANGED pmmVars
    <2>1. UNCHANGED <<regions, phase, managed, bm0, bm1, used_blk, held, ret>>
      BY <1>7 DEF pmmVars
    <2>2. TypeOK'
      BY <2>1, MapFixed DEF IInv, TypeOK
    <2>3. BitmapExact'
      BY <2>1, MapFixed DEF IInv, BitmapExact
    <2>4. SummarySound'
      BY <2>1, MapFixed DEF IInv, SummarySound, WordBits
    <2>5. BigEnough' = BigEnough
      BY <2>1 DEF BigEnough, bm_sz, bm1_nw, bm0_nw, tot_blk
    <2> QED
      BY <2>1, <2>2, <2>3, <2>4, <2>5, MapFixed DEF IInv, SetUp
  <1> QED
    BY <1>1, <1>2, <1>3, <1>4, <1>5, <1>6, <1>7 DEF Next, Alloc

-----------------------------------------------------------------------------
(* The theorems *)

\* The inductive invariant holds in every reachable state of bitmap.c.
THEOREM Invariance == Spec => []IInv
  <1>1. Init => IInv
    BY InitInvariant
  <1>2. IInv /\ [Next]_pmmVars => IInv'
    BY NextPreserves
  <1> QED
    BY <1>1, <1>2, PTL DEF Spec

\* bitmap.c keeps its variables within their ranges.
THEOREM TypeCorrect == Spec => []TypeOK
  <1>1. IInv => TypeOK
    BY DEF IInv
  <1> QED
    BY <1>1, Invariance, PTL

\* After any history the bitmap marks exactly the reserved frames and those that are
\* out, as _init, _set and _unset leave it.
THEOREM BitmapIsExact == Spec => []BitmapExact
  <1>1. IInv => BitmapExact
    BY DEF IInv
  <1> QED
    BY <1>1, Invariance, PTL

\* A clear summary bit always stands over a word with a clear bit (_set, _unset).
THEOREM SummaryIsSound == Spec => []SummarySound
  <1>1. IInv => SummarySound
    BY DEF IInv
  <1> QED
    BY <1>1, Invariance, PTL

\* _free accepts every frame that _alloc has handed out and that is still out.
THEOREM HeldIsFreeable == Spec => []HeldFreeable
  <1>1. IInv => HeldFreeable
    BY HeldPassesAsserts DEF HeldFreeable
  <1> QED
    BY <1>1, Invariance, PTL

\* bitmap.c implements the abstract allocator: it lends only usable frames, each to
\* one holder at a time.
THEOREM Refinement == Spec => ImplementsFrameAllocator
  <1>1. Init => Abstract!Init
    BY DEF Init, Abstract!Init
  <1>2. IInv /\ IInv' /\ [Next]_pmmVars => [Abstract!Next]_Abstract!vars
    <2> SUFFICES ASSUME IInv, IInv', [Next]_pmmVars
                 PROVE  [Abstract!Next]_Abstract!vars
      OBVIOUS
    <2> USE DEF Abstract!vars, Abstract!Next
    <2>1. CASE PmmInit
      <3>1. /\ phase = "boot" /\ phase' \in {"ready", "no_space"} /\ held' = held
            /\ regions' = regions /\ regions \in RegionMaps
        BY <2>1 DEF PmmInit, IInv, TypeOK
      <3>2. Usable \subseteq Nat /\ Usable' = Usable
        BY <3>1, AvailInMemory, MapFixed, MapFacts DEF Usable
      <3> QED
        BY <3>1, <3>2 DEF Abstract!Open
    <2>2. CASE AllocInvalid
      BY <2>2, MapFixed DEF AllocInvalid
    <2>3. ASSUME NEW w \in CandidateWords, AllocFrame(w)
          PROVE  Abstract!Next
      <3>1. PICK f \in Usable \ held : held' = held \cup {f}
        BY <2>3, FoundFrame
      <3>2. phase = "ready" /\ phase' = "ready" /\ Usable' = Usable
        BY <2>3, MapFixed DEF AllocFrame, Searching
      <3> QED
        BY <3>1, <3>2 DEF Abstract!Lend
    <2>4. ASSUME NEW w \in CandidateWords, AllocUnreachable(w) \/ AllocWild(w)
          PROVE  UNCHANGED Abstract!vars
      BY <2>4, MapFixed DEF AllocUnreachable, AllocWild, Searching
    <2>5. ASSUME NEW f \in held \cup {0}, Free(f)
          PROVE  [Abstract!Next]_Abstract!vars
      <3>1. phase = "ready" /\ Usable' = Usable
        BY <2>5, MapFixed DEF Free
      <3>2. CASE FreeAsserts(f)
        <4>1. f \in held
          BY <3>2, PmmAssumption DEF FreeAsserts
        <4>2. phase' = "ready" /\ held' = held \ {f}
          BY <2>5, <3>1, <3>2 DEF Free
        <4> QED
          BY <3>1, <4>1, <4>2 DEF Abstract!TakeBack
      <3>3. CASE ~FreeAsserts(f)
        BY <2>5, <3>1, <3>3 DEF Free
      <3> QED
        BY <3>2, <3>3
    <2>6. CASE UNCHANGED pmmVars
      BY <2>6, MapFixed DEF pmmVars
    <2> QED
      BY <2>1, <2>2, <2>3, <2>4, <2>5, <2>6 DEF Next, Alloc
  <1> QED
    BY <1>1, <1>2, Invariance, PTL DEF Spec, ImplementsFrameAllocator, Abstract!Spec
=============================================================================
