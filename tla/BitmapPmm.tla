------------------------------ MODULE BitmapPmm ------------------------------
(***************************************************************************)
(* The bitmap physical memory manager, kernel/mem/bitmap.c: a bitmap bm0    *)
(* with one bit per frame and a summary bitmap bm1 with one bit per word of *)
(* bm0, both searched a word at a time.                                     *)
(*                                                                         *)
(* A bitmap is the set of its set bits.  Addresses are frame numbers.  The  *)
(* memory map handed to _init is a sequence of regions in decreasing order  *)
(* whose first element only marks the end of memory; its last region starts *)
(* at 0 (kinit.c always includes it), so `base' is 0 and does not appear.   *)
(*                                                                         *)
(* W and IntWidth stand for the 64 bits of a word and the 32 bits of the    *)
(* int in which `1 << j' is computed.                                       *)
(***************************************************************************)
EXTENDS Integers, FiniteSets, Sequences

CONSTANTS
    W,           \* WORD_SIZE, bits of a bitmap word
    IntWidth,    \* bits of an int
    PageBits,    \* bits of bitmap that one frame stores
    FastStart,   \* first frame of the fast allocator's range
    FastEnd,     \* end of that range
    RegionMaps   \* the memory maps the manager may be given

\* A map of frame-numbered regions in decreasing order, down to frame 0.  kinit.c
\* passes more entries than the map has, so the last region may be repeated.
IsRegionMap(rs) ==
    /\ rs \in Seq([start : Nat, type : {"avail", "other"}])
    /\ Len(rs) > 1
    /\ \A i, k \in 1..Len(rs) : i <= k => rs[k].start <= rs[i].start
    /\ rs[Len(rs)].start = 0

ASSUME PmmAssumption ==
    /\ W \in Nat /\ IntWidth \in Nat /\ 1 < IntWidth /\ IntWidth < W
    /\ PageBits \in Nat \ {0}
    /\ FastStart \in Nat /\ FastEnd \in Nat
    /\ 0 < FastStart   \* 0x1000000, kinit.c:159
    /\ \A rs \in RegionMaps : IsRegionMap(rs) /\ rs[1].start <= FastEnd

VARIABLES
    regions,   \* the map given to _init
    phase,     \* before _init, in use, or the way the kernel stopped
    managed,   \* indices of the regions flagged REGION_FLAG_MANAGED
    bm0, bm1,  \* the bitmaps
    used_blk,
    held,      \* frames returned by _alloc and not yet given back
    ret        \* what the last _alloc returned

pmmVars == <<regions, phase, managed, bm0, bm1, used_blk, held, ret>>

PADDR_INVALID == -1

\* _init ran out of room; PANIC("unreachable"); a failed ASSERT; a read past bm0
Stopped == {"no_space", "unreachable", "assert", "wild"}

-----------------------------------------------------------------------------
(* Geometry *)

CeilDiv(a, b) == (a + b - 1) \div b

tot_blk == regions[1].start
bm0_nw == CeilDiv(tot_blk, W)
bm1_nw == CeilDiv(bm0_nw, W)
bm_sz == CeilDiv(W * bm0_nw + W * bm1_nw, PageBits)

Bits0 == 0..W * bm0_nw - 1
Bits1 == 0..W * bm1_nw - 1

\* The bits that a word of either bitmap holds.
WordBits(w) == W * w..W * w + W - 1

RegionFrames(i) == regions[i].start..regions[i - 1].start - 1

AvailFrames ==
    UNION {RegionFrames(i) : i \in {k \in 2..Len(regions) : regions[k].type = "avail"}}

\* Regions that could store the bitmaps: size is asked, the type is not.
BigEnough ==
    {i \in 2..Len(regions) : regions[i - 1].start - regions[i].start >= bm_sz}

\* The search starts at the lowest address, the end of the sequence.
bmreg == CHOOSE i \in BigEnough : \A k \in BigEnough : k <= i

BmFrames == regions[bmreg].start..regions[bmreg].start + bm_sz - 1

\* Bits that stay set for ever: no AVAIL memory behind them, or the bitmaps.
Reserved == {b \in Bits0 : b \notin AvailFrames \/ b \in BmFrames}

-----------------------------------------------------------------------------
(* _set and _unset: the bit, and the summary bit if required *)

\* The form of _set that leaves the summary alone.
SetBitOnly(bit) ==
    /\ bm0' = bm0 \cup {bit}
    /\ bm1' = bm1

Set(bit) ==
    /\ bm0' = bm0 \cup {bit}
    /\ bm1' = IF WordBits(bit \div W) \subseteq bm0'
              THEN bm1 \cup {bit \div W}
              ELSE bm1

Unset(bit) ==
    /\ bm0' = bm0 \ {bit}
    /\ bm1' = IF WordBits(bit \div W) \cap bm0' = {}
              THEN bm1 \ {bit \div W}
              ELSE bm1

-----------------------------------------------------------------------------
(* _init *)

\* The form of _init without its last call, _mark_used of the bitmaps.
InitialBitsNoMarkUsed == Bits0 \ AvailFrames

\* bm0 after memset(0xff), _mark_free of each AVAIL region, _mark_used of the bitmaps.
InitialBits ==
    LET afterMemset == Bits0
        afterMarkFree == afterMemset \ AvailFrames
    IN  afterMarkFree \cup BmFrames

\* Words whose last set bit _mark_free cleared: _unset clears their summary bit.
EmptiedWords == {w \in 0..bm0_nw - 1 : WordBits(w) \subseteq AvailFrames}

\* Words to which _mark_used added the last missing bit.
FilledWords ==
    {w \in 0..bm0_nw - 1 :
        /\ WordBits(w) \subseteq InitialBits
        /\ WordBits(w) \cap BmFrames \cap AvailFrames # {}}

\* The form of the count that starts at zero.
UsedFromZero == Cardinality(BmFrames \cap AvailFrames) - Cardinality(AvailFrames)

\* used_blk after _init: it starts at tot_blk and the markings adjust it.
UsedAfterInit ==
    tot_blk - Cardinality(AvailFrames) + Cardinality(BmFrames \cap AvailFrames)

PmmInit ==
    /\ phase = "boot"
    /\ IF BigEnough = {}
       THEN /\ phase' = "no_space"
            /\ managed' = 2..Len(regions)
            /\ UNCHANGED <<bm0, bm1, used_blk>>
       ELSE /\ phase' = "ready"
            /\ managed' = bmreg..Len(regions)
            /\ bm0' = InitialBits
            /\ bm1' = (Bits1 \ EmptiedWords) \cup FilledWords
            /\ used_blk' = UsedAfterInit
    /\ UNCHANGED <<regions, held, ret>>

-----------------------------------------------------------------------------
(* _alloc *)

bm1_startw == CeilDiv(CeilDiv(FastStart, W), W)
bm1_endw == (FastEnd \div W) \div W

NotFull1 ==
    {i \in bm1_startw..bm1_nw - 1 : i < bm1_endw /\ ~(WordBits(i) \subseteq bm1)}

\* Positions of the clear bits of word w of bitmap m.
Clear(m, w) == {j \in 0..W - 1 : W * w + j \notin m}

\* The least element of a set of numbers, as a set: empty when the set is.
Firsts(S) == {i \in S : \A k \in S : i <= k}

\* The form of the search that takes bit 0 unseen.
FirstClearBlind(clear) == {0}

\* Where `for (j = 0; j < WORD_SIZE; j++) if ((word & (1 << j)) == 0) break;' may stop;
\* W is a loop that ran to its end.  Below IntWidth - 1 a bit is tested as meant.
\* 1 << (IntWidth - 1) is negative and sign-extends: it tests every higher bit at
\* once.  Larger shifts are undefined: with the shift count masked, as x86 does, they
\* test bits already seen; done in 64 bits they test the bit that is meant.
FirstClear(clear) ==
    LET low == {j \in clear : j < IntWidth - 1}
        high == {j \in clear : j >= IntWidth}
    IN  IF low # {} THEN Firsts(low)
        ELSE IF IntWidth - 1..W - 1 \subseteq clear THEN {IntWidth - 1}
        ELSE {W} \cup Firsts(high)

\* The bm0 words the search may look into.  A search of the summary word that finds
\* no bit leaves j = WORD_SIZE, which is the first word under the next summary word.
CandidateWords ==
    UNION {{W * i + j : j \in FirstClear(Clear(bm1, i))} : i \in Firsts(NotFull1)}

AllocInvalid ==
    /\ phase = "ready"
    /\ used_blk = tot_blk \/ NotFull1 = {}
    /\ ret' = PADDR_INVALID
    /\ UNCHANGED <<regions, phase, managed, bm0, bm1, used_blk, held>>

\* _alloc looks into word w of bm0.
Searching(w) ==
    /\ phase = "ready"
    /\ used_blk # tot_blk
    /\ NotFull1 # {}
    /\ w \in CandidateWords

AllocFrame(w) ==
    /\ Searching(w)
    /\ w < bm0_nw
    /\ \E j \in FirstClear(Clear(bm0, w)) \ {W} :
        /\ Set(W * w + j)
        /\ held' = held \cup {W * w + j}
        /\ ret' = W * w + j
    /\ UNCHANGED <<regions, phase, managed, used_blk>>

\* PANIC("unreachable")
AllocUnreachable(w) ==
    /\ Searching(w)
    /\ w < bm0_nw
    /\ W \in FirstClear(Clear(bm0, w))
    /\ phase' = "unreachable"
    /\ UNCHANGED <<regions, managed, bm0, bm1, used_blk, held, ret>>

\* bm0.map is read past its end; nothing is said of what follows.
AllocWild(w) ==
    /\ Searching(w)
    /\ w >= bm0_nw
    /\ phase' = "wild"
    /\ UNCHANGED <<regions, managed, bm0, bm1, used_blk, held, ret>>

Alloc ==
    \/ AllocInvalid
    \/ \E w \in CandidateWords : AllocFrame(w) \/ AllocUnreachable(w) \/ AllocWild(w)

-----------------------------------------------------------------------------
(* _free *)

\* The form of _free's ASSERTs with the lower bound shifted by one.
FreeAssertsStrict(f) == FastStart < f /\ f < FastEnd /\ f \in bm0

\* The conjunction of _free's ASSERTs (an address here is always page aligned).
FreeAsserts(f) == FastStart <= f /\ f < FastEnd /\ f \in bm0

\* Callers (vmm.c) give back a frame they hold, or frame 0: the address stored in the
\* entry of a lazily mapped page that was never touched.
Free(f) ==
    /\ phase = "ready"
    /\ f \in held \cup {0}
    /\ IF FreeAsserts(f)
       THEN /\ Unset(f)
            /\ held' = held \ {f}
            /\ UNCHANGED phase
       ELSE /\ phase' = "assert"
            /\ UNCHANGED <<bm0, bm1, held>>
    /\ UNCHANGED <<regions, managed, used_blk, ret>>

-----------------------------------------------------------------------------
Init ==
    /\ regions \in RegionMaps
    /\ phase = "boot"
    /\ managed = {}
    /\ bm0 = {} /\ bm1 = {}
    /\ used_blk = 0
    /\ held = {}
    /\ ret = PADDR_INVALID

Next == PmmInit \/ Alloc \/ \E f \in held \cup {0} : Free(f)

Spec == Init /\ [][Next]_pmmVars

-----------------------------------------------------------------------------
(* Properties *)

TypeOK ==
    /\ regions \in RegionMaps
    /\ phase \in {"boot", "ready"} \cup Stopped
    /\ managed \subseteq 2..Len(regions)
    /\ bm0 \subseteq Bits0
    /\ bm1 \subseteq Bits1
    /\ used_blk \in 0..tot_blk
    /\ held \subseteq 0..tot_blk - 1
    /\ ret \in 0..tot_blk - 1 \cup {PADDR_INVALID}

\* After any history of allocations and frees the bitmap says exactly which frames are
\* taken: the reserved ones and the ones that are out (_set, _unset, _init).
BitmapExact ==
    phase \notin {"boot", "no_space"} =>
        /\ bm0 = Reserved \cup held
        /\ Reserved \cap held = {}

\* "We know j < WORD_SIZE" (bitmap.c:140) as far as it is true: a summary bit is clear
\* only over a word that still has a clear bit, and never beyond the last word.
SummarySound ==
    phase \notin {"boot", "no_space"} =>
        \A w \in Bits1 \ bm1 : w < bm0_nw /\ ~(WordBits(w) \subseteq bm0)

\* Giving back a frame that is held never trips the ASSERTs of _free, whatever was
\* allocated or freed in between.
HeldFreeable == phase = "ready" => \A f \in held : FreeAsserts(f)

\* Frames the fast allocator may lend.
Usable == {f \in AvailFrames \ BmFrames : FastStart <= f}

Abstract ==
    INSTANCE FrameAllocator WITH
        Frame <- Nat,
        open <- phase # "boot",
        pool <- IF phase = "boot" THEN {} ELSE IF phase = "no_space" THEN {} ELSE Usable

\* A frame is lent to at most one holder at a time, and only frames of AVAIL memory in
\* the fast range that do not store the bitmaps themselves are lent.
ImplementsFrameAllocator == Abstract!Spec

\* bitmap.c:140 "We know j < WORD_SIZE" and the PANIC it justifies.
NeverUnreachable == phase # "unreachable"
=============================================================================
