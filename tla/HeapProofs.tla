----------------------------- MODULE HeapProofs -----------------------------
(***************************************************************************)
(* For every set of requests and every number of chunks the chunks tile    *)
(* the heap, the last one can be split, and blocks of two callers do not    *)
(* overlap, whatever becomes of the lists of free chunks.  Every block fits, *)
(* because of what the lists still keep, until one is given out twice.      *)
(***************************************************************************)
EXTENDS Heap, TLAPS

-----------------------------------------------------------------------------
(* The inductive invariant *)

\* Chunks that exist, and the heads of the bins.
Live == BinHeads \cup {Chunk(c) : c \in 0..last}

\* No list leads to a chunk that has not been split off yet.
LinksLive ==
    \A n \in Live : /\ link[n].prev \in Live \cup {NULL, DATA}
                    /\ link[n].next \in Live \cup {NULL, DATA}

\* Only chunks that exist are given out.
OwnedExist == \A c \in Chunks : owners[c] > 0 => c <= last

\* Tiled says it of neighbours, this of any two chunks.
ChunksApart ==
    \A c, d \in 0..last : c < d => addr[c] + WORD + memsz[c] <= addr[d]

\* The smallest chunk has room for a list node, and so a bin.
RealSizes == \A c \in 0..last : memsz[c] >= 16

IInv ==
    /\ TypeOK
    /\ Tiled
    /\ LastHasRoom
    /\ LinksLive
    /\ OwnedExist
    /\ ChunksApart
    /\ RealSizes

-----------------------------------------------------------------------------
(* Size classes *)

\* The smallest class has room for a list node, the largest is below a page.
IsBlockSize(b) == b \in Nat /\ 16 <= b /\ b <= 3840

\* The table of classes.
LEMMA ClassSizes == \A i \in 0..HEAP_NUM_BINS - 1 : IsBlockSize(BinMemsz[i + 1])
  BY SMTT(60) DEF BinMemsz, HEAP_NUM_BINS, IsBlockSize

\* A request has a class, and rounding it up keeps it positive.
LEMMA GetSizeBounds ==
    ASSUME NEW req \in Nat, Servable(req)
    PROVE  GetSize(req) \in Nat /\ GetSize(req) >= 24
  BY SMT DEF GetSize, RoundUp, Servable, INC256_END

LEMMA GetBinIdxBounds ==
    ASSUME NEW size \in Nat, size >= 16
    PROVE  GetBinIdx(size) \in Nat
  BY SMT DEF GetBinIdx

\* A request that kmalloc serves gets a block of a size from the table.
LEMMA BlockSize ==
    ASSUME NEW req \in Nat, Serving(req)
    PROVE  IsBlockSize(BinMemsz[BinIdxOf(req) + 1]) /\ BinIdxOf(req) \in 0..HEAP_NUM_BINS - 1
<1>1. BinIdxOf(req) \in Nat
  BY GetSizeBounds, GetBinIdxBounds DEF Serving, BinIdxOf
<1>2. BinIdxOf(req) \in 0..HEAP_NUM_BINS - 1
  BY <1>1 DEF Serving, HEAP_NUM_BINS
<1> DEFINE i == BinIdxOf(req)
<1> HIDE DEF i
<1>3. i \in 0..HEAP_NUM_BINS - 1 => IsBlockSize(BinMemsz[i + 1])
  BY ClassSizes
<1> QED
  BY <1>2, <1>3 DEF i

\* The largest size that GetBinIdx puts into bin i.
LargestIn(i) ==
    CASE i <= 15 -> 8 * (i + 1)
      [] 15 < i /\ i <= 23 -> 128 + 16 * (i - 15)
      [] 23 < i /\ i <= 31 -> 256 + 32 * (i - 23)
      [] 31 < i /\ i <= 39 -> 512 + 64 * (i - 31)
      [] 39 < i /\ i <= 47 -> 1024 + 128 * (i - 39)
      [] OTHER -> 2048 + 256 * (i - 47)

\* The class of a request is no smaller than the request, for every request that is
\* served: _get_size, _get_bin_idx and the table of bins agree (heap.c:155-225, 235-315).
THEOREM ClassFits ==
    ASSUME NEW req \in Nat, Serving(req)
    PROVE  BinMemsz[BinIdxOf(req) + 1] >= req
<1> DEFINE size == GetSize(req)
           i == BinIdxOf(req)
<1>1. size \in Nat /\ size >= req /\ size >= 24 /\ size % 8 = 0
      /\ (128 < size => size % 16 = 0) /\ (256 < size => size % 32 = 0)
      /\ (512 < size => size % 64 = 0) /\ (1024 < size => size % 128 = 0)
      /\ (2048 < size => size % 256 = 0)
  BY SMTT(60) DEF GetSize, RoundUp, Serving, Servable, INC256_END
<1>2. i = GetBinIdx(size)
  BY DEF BinIdxOf
<1> HIDE DEF size
<1>3. LargestIn(GetBinIdx(size)) = size
  BY <1>1, SMTT(60) DEF LargestIn, GetBinIdx
<1>4. i \in 0..HEAP_NUM_BINS - 1
  BY BlockSize
<1> HIDE DEF i
<1>5. BinMemsz[i + 1] >= LargestIn(i)
  BY <1>4, SMTT(60) DEF LargestIn, BinMemsz, HEAP_NUM_BINS
<1>6. BinMemsz[i + 1] >= req
  <2>1. IsBlockSize(BinMemsz[i + 1])
    BY <1>4, ClassSizes
  <2>2. LargestIn(i) = size
    BY <1>2, <1>3
  <2>3. BinMemsz[i + 1] >= size
    BY <1>5, <2>2
  <2> QED
    <3> DEFINE m == BinMemsz[i + 1]
    <3> HIDE DEF m
    <3>1. IsBlockSize(m) /\ m >= size => m >= req
      BY <1>1 DEF IsBlockSize
    <3> QED
      BY <2>1, <2>3, <3>1 DEF m
<1> QED
  BY <1>6 DEF i

-----------------------------------------------------------------------------
(* List nodes *)

LEMMA NodeFacts ==
    /\ \A c \in Chunks : Chunk(c) \in Nodes
    /\ \A i \in 0..HEAP_NUM_BINS - 1 : Bin(i) \in Nodes /\ Bin(i) \in BinHeads
    /\ \A c, d \in Chunks : Chunk(c) = Chunk(d) => c = d
  BY DEF Nodes, BinHeads, Chunk, Bin

\* The nodes that exist, while `last' is one of Chunks.
LEMMA LiveFacts ==
    ASSUME last \in Chunks
    PROVE  /\ Live \subseteq Nodes
           /\ \A i \in 0..HEAP_NUM_BINS - 1 : Bin(i) \in Live
           /\ \A c \in Chunks : Chunk(c) \in Live <=> c <= last
           /\ \A c \in Chunks : Chunk(c) \notin {NULL, DATA}
<1> 0..last \subseteq Chunks
  BY HeapAssumption DEF Chunks
<1>1. Live \subseteq Nodes /\ \A i \in 0..HEAP_NUM_BINS - 1 : Bin(i) \in Live
  <2>1. BinHeads \subseteq Nodes /\ BinHeads \subseteq Live
    BY DEF Live, Nodes
  <2>2. \A c \in 0..last : Chunk(c) \in Nodes
    BY NodeFacts, Zenon
  <2> QED
    BY <2>1, <2>2, NodeFacts, Zenon DEF Live
<1>2. ASSUME NEW c \in Chunks
      PROVE  (Chunk(c) \in Live <=> c <= last) /\ Chunk(c) \notin {NULL, DATA}
  <2>1. Chunk(c) \notin BinHeads \cup {NULL, DATA}
    BY DEF BinHeads, Bin, Chunk, NULL, DATA
  <2>2. Chunk(c) \in {Chunk(d) : d \in 0..last} <=> c \in 0..last
    BY NodeFacts, Zenon
  <2> QED
    BY <2>1, <2>2 DEF Live, Chunks
<1> QED
  BY <1>1, <1>2

\* A word that names a chunk names one of Chunks.
LEMMA ChunkWord ==
    ASSUME NEW w \in Words, w[1] = "chunk"
    PROVE  w[2] \in Chunks /\ w = Chunk(w[2])
  BY DEF Words, Nodes, BinHeads, Bin, Chunk, NULL, DATA

LinkType == [Nodes -> [prev : Words, next : Words]]

\* Linking a node in, or out, stores nothing but addresses it was given or has read.
LEMMA AddBetweenLinks ==
    ASSUME NEW l \in LinkType, NEW node \in Nodes, NEW prev \in Nodes, NEW next \in Nodes
    PROVE  /\ AddBetween(l, node, prev, next) \in LinkType
           /\ \A n \in Nodes :
                LET new == AddBetween(l, node, prev, next)[n]
                IN  /\ new.prev \in {l[n].prev, node, prev}
                    /\ new.next \in {l[n].next, node, prev}
           /\ AddBetween(l, node, prev, next)[node].prev = prev
           /\ AddBetween(l, node, prev, next)[node].next \in {node, prev}
  BY DEF AddBetween, LinkType, Node, Words

LEMMA DelLinks ==
    ASSUME link \in LinkType, NEW node \in Nodes, CanDel(node)
    PROVE  /\ Del(node) \in LinkType
           /\ \A n \in Nodes :
                /\ Del(node)[n].prev \in {link[n].prev, link[node].prev, NULL}
                /\ Del(node)[n].next \in {link[n].next, link[node].next, NULL}
  BY DEF Del, CanDel, LinkType, Node, Words

-----------------------------------------------------------------------------
(* Steps *)

LEMMA InitIInv ==
    ASSUME HeapAssumption, Init
    PROVE  IInv
<1> USE DEF Init, HeapAssumption, Chunks, WORD, PAGE_SIZE
<1>1. TypeOK
  <2>1. link \in LinkType
    BY DEF LinkType, Node, Words
  <2> QED
    BY <2>1 DEF TypeOK, LinkType, Statuses
<1>2. Tiled /\ LastHasRoom /\ OwnedExist /\ ChunksApart /\ RealSizes
  BY DEF Tiled, LastHasRoom, OwnedExist, ChunksApart, RealSizes
<1>3. LinksLive
  BY LiveFacts DEF LinksLive, Node
<1> QED
  BY <1>1, <1>2, <1>3 DEF IInv

\* The chunks and the break stay where they are when nothing is split off.
LEMMA LayoutKept ==
    ASSUME IInv, UNCHANGED <<last, addr, memsz, brk>>
    PROVE  Tiled' /\ LastHasRoom' /\ ChunksApart' /\ RealSizes'
  BY DEF IInv, Tiled, LastHasRoom, ChunksApart, RealSizes

\* A step that only stops the kernel.
LEMMA FailStep ==
    ASSUME IInv, NEW how \in Statuses, Fail(how)
    PROVE  IInv'
  BY LayoutKept DEF IInv, Fail, TypeOK, LinksLive, Live, OwnedExist

LEMMA BinStep ==
    ASSUME IInv, NEW size \in Nat, MallocFromBin(size)
    PROVE  IInv'
<1> DEFINE head == Bin(BinIdxOf(size))
           first == link[head].next
<1>1. head \in Nodes /\ head \in Live
  BY BlockSize, NodeFacts, LiveFacts DEF MallocFromBin, IInv, TypeOK
<1>2. first \in Words /\ first \in Live \cup {NULL, DATA}
  BY <1>1 DEF IInv, TypeOK, LinksLive
<1>3. CASE first[1] = "chunk" /\ CanDel(first)
  <2>1. /\ GiveOut(first[2], size)
        /\ link' = Del(first)
        /\ UNCHANGED <<last, addr, memsz, brk>>
    BY <1>3 DEF MallocFromBin
  <2>2. first[2] \in Chunks /\ first = Chunk(first[2]) /\ first \in Nodes
    BY <1>2, <1>3, ChunkWord, NodeFacts
  <2>3. first[2] <= last
    BY <1>2, <2>2, LiveFacts DEF IInv, TypeOK
  <2>4. TypeOK' /\ OwnedExist'
    BY <2>1, <2>2, <2>3, <1>3, DelLinks
    DEF IInv, TypeOK, GiveOut, LinkType, OwnedExist, Statuses
  <2>5. LinksLive'
    <3>1. first \in Live
      BY <2>2, <2>3, LiveFacts DEF IInv, TypeOK
    <3>2. Live' = Live
      BY <2>1 DEF Live
    <3>3. \A n \in Live : n \in Nodes
      BY LiveFacts DEF IInv, TypeOK
    <3>4. \A n \in Live :
             /\ link'[n].prev \in {link[n].prev, link[first].prev, NULL}
             /\ link'[n].next \in {link[n].next, link[first].next, NULL}
      BY <1>3, <2>1, <2>2, <3>3, DelLinks DEF IInv, TypeOK, LinkType
    <3>5. \A n \in Live : /\ link[n].prev \in Live \cup {NULL, DATA}
                          /\ link[n].next \in Live \cup {NULL, DATA}
      BY DEF IInv, LinksLive
    <3> QED
      BY <3>1, <3>2, <3>4, <3>5 DEF LinksLive
  <2> QED
    BY <2>1, <2>4, <2>5, LayoutKept DEF IInv
<1>4. CASE ~(first[1] = "chunk" /\ CanDel(first))
  BY <1>4, FailStep DEF MallocFromBin, Statuses
<1> QED
  BY <1>3, <1>4

\* A block is split off: where the chunks are afterwards.
LEMMA SplitLayout ==
    ASSUME IInv, NEW size \in Nat, NEW zeroed \in BOOLEAN,
           MallocFromLast(size, zeroed), CanAddFront(Chunk(last))
    PROVE  /\ addr' \in [Chunks -> Nat] /\ memsz' \in [Chunks -> Nat] /\ brk' \in Nat
           /\ Tiled' /\ LastHasRoom' /\ ChunksApart' /\ RealSizes'
<1> DEFINE b == BinMemsz[BinIdxOf(size) + 1]
<1>1. /\ last' = last + 1 /\ last + 1 \in Chunks
      /\ brk' = brk + Grown(b)
      /\ memsz' = SplitSizes(b)
      /\ addr' = [addr EXCEPT ![last + 1] = RightAddr(b)]
  BY HeapAssumption DEF MallocFromLast, IInv, TypeOK, Chunks
<1>2. IsBlockSize(b)
  <2>1. Serving(size)
    BY DEF MallocFromLast
  <2> QED
    BY <2>1, BlockSize
<1> HIDE DEF b
<1>3. Grown(b) \in Nat /\ memsz[last] + Grown(b) - b - WORD >= PAGE_SIZE - WORD
  BY <1>2 DEF IsBlockSize, Grown, IInv, TypeOK, LastHasRoom, WORD, PAGE_SIZE
<1>4. /\ last \in Nat /\ last \in Chunks /\ last + 1 # last
      /\ \A c \in 0..last - 1 : c \in Chunks /\ c # last /\ c # last + 1
  BY HeapAssumption DEF IInv, TypeOK, Chunks
<1>5. /\ memsz'[last] = b
      /\ memsz'[last + 1] = memsz[last] + Grown(b) - b - WORD
      /\ \A c \in 0..last - 1 : memsz'[c] = memsz[c]
  BY <1>1, <1>4 DEF SplitSizes, IInv, TypeOK
<1>6. /\ addr'[last + 1] = addr[last] + b + WORD
      /\ addr'[last] = addr[last]
      /\ \A c \in 0..last - 1 : addr'[c] = addr[c]
  BY <1>1, <1>4 DEF RightAddr, IInv, TypeOK
<1>7. addr' \in [Chunks -> Nat] /\ memsz' \in [Chunks -> Nat] /\ brk' \in Nat
  <2>1. RightAddr(b) \in Nat /\ memsz[last] + Grown(b) - b - WORD \in Nat /\ b \in Nat
    BY <1>2, <1>3 DEF IsBlockSize, RightAddr, IInv, TypeOK, WORD, PAGE_SIZE
  <2> QED
    BY <1>1, <1>3, <2>1 DEF SplitSizes, IInv, TypeOK
<1>8. /\ \A c \in 0..last - 1 : /\ addr[c] \in Nat /\ memsz[c] \in Nat
      /\ addr[last] \in Nat /\ memsz[last] \in Nat
  BY <1>4 DEF IInv, TypeOK
<1>9. Tiled'
  <2>1. addr'[0] = 0
    BY <1>4, <1>6 DEF IInv, Tiled
  <2>2. ASSUME NEW c \in 0..last
        PROVE  addr'[c] + WORD + memsz'[c] = addr'[c + 1]
    <3>1. CASE c = last
      BY <1>2, <1>5, <1>6, <1>8, <3>1 DEF IsBlockSize, WORD
    <3>2. CASE c # last
      <4>1. c \in 0..last - 1 /\ (c + 1 \in 0..last - 1 \/ c + 1 = last)
        BY <1>4, <3>2
      <4>2. addr'[c + 1] = addr[c + 1]
        BY <1>6, <4>1
      <4> QED
        BY <1>5, <1>6, <4>1, <4>2 DEF IInv, Tiled
    <3> QED
      BY <3>1, <3>2
  <2>3. addr'[last + 1] + WORD + memsz'[last + 1] = brk'
    <3>1. addr[last] + WORD + memsz[last] = brk
      BY DEF IInv, Tiled
    <3> QED
      BY <1>1, <1>2, <1>3, <1>5, <1>6, <1>8, <3>1 DEF IsBlockSize, WORD
  <2> QED
    BY <1>1, <1>4, <2>1, <2>2, <2>3 DEF Tiled
<1>10. ChunksApart'
  <2> SUFFICES ASSUME NEW c \in 0..last + 1, NEW d \in 0..last + 1, c < d
               PROVE  addr'[c] + WORD + memsz'[c] <= addr'[d]
    BY <1>1 DEF ChunksApart
  <2>1. c \in 0..last - 1 \/ c = last
    BY <1>4
  <2>2. addr'[last] + WORD + memsz'[last] <= addr'[last + 1]
    BY <1>2, <1>5, <1>6, <1>8 DEF IsBlockSize, WORD
  <2>3. CASE d = last + 1
    <3>1. CASE c = last
      BY <2>2, <2>3, <3>1
    <3>2. CASE c \in 0..last - 1
      <4>1. addr[c] + WORD + memsz[c] <= addr[last]
        BY <1>4, <3>2 DEF IInv, ChunksApart
      <4>2. addr[c] + WORD + memsz[c] <= addr[last] + b + WORD
        <5>1. addr[c] \in Nat /\ memsz[c] \in Nat
          BY <1>8, <3>2
        <5>2. addr[c] + WORD + memsz[c] \in Nat /\ addr[last] \in Nat
          BY <1>8, <5>1 DEF WORD
        <5>3. \A x, y \in Nat : x <= y => x <= y + b + WORD
          BY <1>2 DEF IsBlockSize, WORD
        <5> QED
          BY <4>1, <5>2, <5>3
      <4> QED
        BY <1>5, <1>6, <2>3, <3>2, <4>2
    <3> QED
      BY <2>1, <3>1, <3>2
  <2>4. CASE d # last + 1
    <3>1. c \in 0..last - 1 /\ (d \in 0..last - 1 \/ d = last)
      BY <1>4, <2>4
    <3>2. addr[c] + WORD + memsz[c] <= addr[d]
      BY <1>4, <3>1 DEF IInv, ChunksApart
    <3> QED
      BY <1>5, <1>6, <3>1, <3>2
  <2> QED
    BY <2>3, <2>4
<1>11. LastHasRoom'
  BY <1>1, <1>3, <1>5 DEF LastHasRoom
<1>12. RealSizes'
  <2> SUFFICES ASSUME NEW c \in 0..last + 1
               PROVE  memsz'[c] >= 16
    BY <1>1 DEF RealSizes
  <2>1. c \in 0..last - 1 \/ c = last \/ c = last + 1
    BY <1>4
  <2>2. memsz'[last] >= 16
    BY <1>2, <1>5 DEF IsBlockSize
  <2>3. memsz'[last + 1] >= 16
    BY <1>2, <1>3, <1>5, <1>8 DEF IsBlockSize, WORD, PAGE_SIZE
  <2>4. ASSUME c \in 0..last - 1
        PROVE  memsz'[c] >= 16
    BY <1>4, <1>5, <2>4 DEF IInv, RealSizes
  <2> QED
    BY <2>1, <2>2, <2>3, <2>4
<1> QED
  BY <1>7, <1>9, <1>10, <1>11, <1>12

\* A block is split off: the rest of the invariant.
LEMMA SplitStep ==
    ASSUME IInv, NEW size \in Nat, NEW zeroed \in BOOLEAN, MallocFromLast(size, zeroed)
    PROVE  IInv'
<1> DEFINE l == Chunk(last)
           new == AddFront(l, Chunk(last + 1))
<1>1. CASE CanAddFront(l)
  <2>1. /\ GiveOut(last, size)
        /\ link' = IF zeroed THEN [new EXCEPT ![l] = Node(NULL, NULL)] ELSE new
        /\ last' = last + 1
        /\ last < MaxChunks
    BY <1>1 DEF MallocFromLast
  <2>2. last \in Chunks /\ last + 1 \in Chunks /\ last \in Nat
    BY <2>1, HeapAssumption DEF IInv, TypeOK, Chunks
  <2>3. /\ addr' \in [Chunks -> Nat] /\ memsz' \in [Chunks -> Nat] /\ brk' \in Nat
        /\ Tiled' /\ LastHasRoom' /\ ChunksApart' /\ RealSizes'
    BY <1>1, SplitLayout
  <2>4. /\ l \in Nodes /\ Chunk(last + 1) \in Nodes /\ link[l].next \in Nodes
        /\ link \in LinkType
    BY <1>1, <2>2, NodeFacts DEF CanAddFront, IInv, TypeOK, LinkType
  <2>5. /\ new \in LinkType
        /\ \A n \in Nodes : /\ new[n].prev \in {link[n].prev, Chunk(last + 1), l}
                            /\ new[n].next \in {link[n].next, Chunk(last + 1), l}
        /\ new[Chunk(last + 1)].prev = l
        /\ new[Chunk(last + 1)].next \in {Chunk(last + 1), l}
    BY <2>4, AddBetweenLinks DEF AddFront
  <2> HIDE DEF new
  <2>6. /\ link' \in LinkType
        /\ \A n \in Nodes : /\ link'[n].prev \in {link[n].prev, Chunk(last + 1), l, NULL}
                            /\ link'[n].next \in {link[n].next, Chunk(last + 1), l, NULL}
        /\ link'[Chunk(last + 1)].prev \in {l, NULL}
        /\ link'[Chunk(last + 1)].next \in {Chunk(last + 1), l, NULL}
    <3>1. CASE zeroed
      BY <2>1, <2>4, <2>5, <3>1 DEF LinkType, Node, Words
    <3>2. CASE ~zeroed
      BY <2>1, <2>5, <3>2
    <3> QED
      BY <3>1, <3>2
  <2>7. TypeOK'
    <3>1. /\ last' \in Chunks
          /\ used' \subseteq Chunks
          /\ owners' \in [Chunks -> Nat]
          /\ asked' \in [Chunks -> Nat]
          /\ status' \in Statuses
      BY <2>1, <2>2 DEF IInv, TypeOK, GiveOut, Statuses
    <3> QED
      BY <2>3, <2>6, <3>1 DEF TypeOK, LinkType
  <2>8. OwnedExist'
    BY <2>1, <2>2, HeapAssumption DEF IInv, TypeOK, GiveOut, OwnedExist, Chunks
  <2>9. LinksLive'
    <3>1. Live' = Live \cup {Chunk(last + 1)}
      <4>1. 0..last + 1 = 0..last \cup {last + 1}
        BY <2>2
      <4> QED
        BY <2>1, <4>1, Zenon DEF Live
    <3>2. l \in Live /\ Live \subseteq Nodes
      BY <2>2, LiveFacts
    <3>3. \A n \in Live : /\ link[n].prev \in Live \cup {NULL, DATA}
                          /\ link[n].next \in Live \cup {NULL, DATA}
      BY DEF IInv, LinksLive
    <3>4. ASSUME NEW n \in Live'
          PROVE  /\ link'[n].prev \in Live' \cup {NULL, DATA}
                 /\ link'[n].next \in Live' \cup {NULL, DATA}
      <4>1. CASE n \in Live
        BY <2>6, <3>1, <3>2, <3>3, <4>1
      <4>2. CASE n = Chunk(last + 1)
        BY <2>6, <3>1, <3>2, <4>2
      <4> QED
        BY <3>1, <4>1, <4>2
    <3> QED
      BY <3>4 DEF LinksLive
  <2> QED
    BY <2>3, <2>7, <2>8, <2>9 DEF IInv
<1>2. CASE ~CanAddFront(l)
  BY <1>2, FailStep DEF MallocFromLast, Statuses
<1> QED
  BY <1>1, <1>2

LEMMA FreeStep ==
    ASSUME IInv, NEW c \in Chunks, kfree(c)
    PROVE  IInv'
<1> DEFINE bin == Bin(GetBinIdx(memsz[c]))
           new == AddFront(bin, Chunk(c))
<1>1. ASSUME NEW how \in Statuses, Fail(how)
      PROVE  IInv'
  BY <1>1, FailStep
<1>2. CASE /\ c < last
           /\ owners[c] > 0
           /\ ~(GetBinIdx(memsz[c]) >= HEAP_NUM_BINS)
           /\ CanAddFront(bin)
           /\ used' = used \ {c}
           /\ owners' = [owners EXCEPT ![c] = @ - 1]
           /\ asked' = [asked EXCEPT ![c] = 0]
           /\ link' = new
           /\ UNCHANGED <<last, addr, memsz, brk, status>>
  <2>1. bin \in Nodes /\ bin \in Live
    <3>1. c \in 0..last /\ memsz[c] \in Nat
      BY <1>2 DEF IInv, TypeOK, Chunks
    <3>2. memsz[c] >= 16
      BY <3>1 DEF IInv, RealSizes
    <3>3. GetBinIdx(memsz[c]) \in 0..HEAP_NUM_BINS - 1
      BY <1>2, <3>1, <3>2, GetBinIdxBounds DEF HEAP_NUM_BINS
    <3> QED
      BY <3>3, NodeFacts, LiveFacts DEF IInv, TypeOK
  <2>2. Chunk(c) \in Nodes /\ Chunk(c) \in Live /\ link[bin].next \in Nodes
        /\ link \in LinkType
    BY <1>2, NodeFacts, LiveFacts DEF CanAddFront, IInv, TypeOK, Chunks, LinkType
  <2>3. /\ link' \in LinkType
        /\ \A n \in Nodes : /\ link'[n].prev \in {link[n].prev, Chunk(c), bin}
                            /\ link'[n].next \in {link[n].next, Chunk(c), bin}
    BY <1>2, <2>1, <2>2, AddBetweenLinks DEF AddFront
  <2>4. TypeOK' /\ OwnedExist'
    BY <1>2, <2>3 DEF IInv, TypeOK, OwnedExist, LinkType
  <2>5. LinksLive'
    <3>1. Live' = Live /\ Live \subseteq Nodes
      BY <1>2, LiveFacts DEF Live, IInv, TypeOK
    <3>2. \A n \in Live : /\ link[n].prev \in Live \cup {NULL, DATA}
                          /\ link[n].next \in Live \cup {NULL, DATA}
      BY DEF IInv, LinksLive
    <3> QED
      BY <2>1, <2>2, <2>3, <3>1, <3>2 DEF LinksLive
  <2> QED
    BY <1>2, <2>4, <2>5, LayoutKept DEF IInv
<1>3. CASE c \notin used
  BY <1>1, <1>3 DEF kfree, Statuses
<1>4. CASE c \in used /\ GetBinIdx(memsz[c]) >= HEAP_NUM_BINS
  BY <1>1, <1>4 DEF kfree, Statuses
<1>5. CASE c \in used /\ ~(GetBinIdx(memsz[c]) >= HEAP_NUM_BINS) /\ ~CanAddFront(bin)
  BY <1>1, <1>5 DEF kfree, Statuses
<1>6. CASE c \in used /\ ~(GetBinIdx(memsz[c]) >= HEAP_NUM_BINS) /\ CanAddFront(bin)
  BY <1>2, <1>6 DEF kfree
<1> QED
  BY <1>3, <1>4, <1>5, <1>6

LEMMA WriteStep ==
    ASSUME IInv, NEW c \in Chunks, Write(c)
    PROVE  IInv'
<1>1. PICK p \in Storable, n \in Storable : link' = [link EXCEPT ![Chunk(c)] = Node(p, n)]
  BY DEF Write
<1>2. Storable \subseteq Live \cup {DATA} /\ Storable \subseteq Words
  <2>1. \A d \in Pointers : d < last => d \in Chunks /\ d <= last
    BY HeapAssumption DEF Chunks, IInv, TypeOK
  <2> QED
    BY <2>1, LiveFacts, NodeFacts DEF Storable, Words, IInv, TypeOK
<1>3. TypeOK' /\ OwnedExist'
  BY <1>1, <1>2 DEF IInv, Write, TypeOK, OwnedExist, Node
<1>4. \A m \in Live : /\ m \in Nodes
                      /\ link'[m].prev \in {link[m].prev, p}
                      /\ link'[m].next \in {link[m].next, n}
  BY <1>1, LiveFacts DEF IInv, TypeOK, Node
<1>5. LinksLive'
  <2>1. Live' = Live
    BY DEF Write, Live
  <2> QED
    BY <1>2, <1>4, <2>1 DEF IInv, LinksLive
<1> QED
  BY <1>3, <1>5, LayoutKept DEF IInv, Write

-----------------------------------------------------------------------------
(* Theorems *)

LEMMA StepIInv ==
    ASSUME IInv, [Next]_heapVars
    PROVE  IInv'
<1>1. ASSUME NEW s \in Requests
      PROVE  s \in Nat /\ (Servable(s) => GetSize(s) \in Nat)
  BY HeapAssumption, GetSizeBounds
<1>2. ASSUME NEW s \in Requests, MallocRefused(s)
      PROVE  IInv'
  BY <1>2, FailStep DEF MallocRefused, Statuses
<1>3. ASSUME NEW s \in Requests, kmalloc(s)
      PROVE  IInv'
  BY <1>1, <1>3, BinStep, SplitStep DEF kmalloc
<1>4. ASSUME NEW s \in Requests, Servable(s), kcalloc(s)
      PROVE  IInv'
  BY <1>1, <1>4, BinStep, SplitStep DEF kcalloc
<1>5. ASSUME NEW c \in Chunks, kfree(c) \/ Write(c)
      PROVE  IInv'
  BY <1>5, FreeStep, WriteStep
<1>6. CASE UNCHANGED heapVars
  <2>1. TypeOK' /\ OwnedExist' /\ LinksLive'
    BY <1>6 DEF heapVars, IInv, TypeOK, OwnedExist, LinksLive, Live
  <2> QED
    BY <1>6, <2>1, LayoutKept DEF heapVars, IInv
<1> QED
  BY <1>2, <1>3, <1>4, <1>5, <1>6 DEF Next

\* The invariant holds in every state, for every set of requests and number of chunks.
THEOREM HeapInvariance == Spec => []IInv
<1>1. Init => IInv
  BY InitIInv, HeapAssumption
<1>2. IInv /\ [Next]_heapVars => IInv'
  BY StepIInv
<1> QED
  BY <1>1, <1>2, PTL DEF Spec

\* Type correctness: no size or address ever wraps below zero.
THEOREM HeapTypeCorrect == Spec => []TypeOK
  BY HeapInvariance, PTL DEF IInv

\* The chunks tile the heap up to the break (heap.c:122-133, 334-340).
THEOREM HeapIsTiled == Spec => []Tiled
  BY HeapInvariance, PTL DEF IInv

\* The last chunk has room for the largest block, so that no size is computed by a
\* subtraction that wraps (heap.c:126, 334).
THEOREM LastChunkHasRoom == Spec => []LastHasRoom
  BY HeapInvariance, PTL DEF IInv

\* Blocks of two callers do not overlap, whatever is done with the lists of free chunks
\* (heap.c:323-340).
THEOREM BlocksAreDisjoint == Spec => []BlocksDisjoint
<1>1. IInv => BlocksDisjoint
  <2> SUFFICES ASSUME IInv, NEW c \in Chunks, NEW d \in Chunks,
                      owners[c] > 0, owners[d] > 0, c < d
               PROVE  addr[c] + WORD + memsz[c] <= addr[d]
    BY DEF BlocksDisjoint
  <2>1. c \in 0..last /\ d \in 0..last
    BY HeapAssumption DEF IInv, OwnedExist, Chunks, TypeOK
  <2> QED
    BY <2>1 DEF IInv, ChunksApart
<1> QED
  BY <1>1, HeapInvariance, PTL

-----------------------------------------------------------------------------
(* Owners, classes and bins *)

Bins == 0..HEAP_NUM_BINS - 1

\* A chunk in use is not the last, and has one owner until the model ends.
OwnedOnce ==
    /\ \A c \in used : c < last
    /\ \A c \in Chunks : owners[c] > 0 <=> c \in used
    /\ status = "ok" => \A c \in Chunks : owners[c] <= 1

\* A size that GetBinIdx gives a bin of its own.
IsClass(m) ==
    /\ m % 8 = 0
    /\ (128 < m => m % 16 = 0) /\ (256 < m => m % 32 = 0) /\ (512 < m => m % 64 = 0)
    /\ (1024 < m => m % 128 = 0) /\ (2048 < m => m % 256 = 0)

Classes ==
    \A c \in Chunks : c < last =>
        IsClass(memsz[c]) /\ (c \in used => asked[c] <= memsz[c])

\* A bin leads to a chunk of its class.  When that chunk is in use the bin should not
\* have led to it, and nothing is known of its words; when it is free they have been left
\* alone but for a split, which breaks the node of the last chunk but one.
Leads(i, c) ==
    /\ c < last /\ GetBinIdx(memsz[c]) = i
    /\ c \in used => c + 2 <= last
    /\ c \notin used => /\ link[Chunk(c)].next \in BinHeads
                        /\ link[Chunk(c)].prev = Bin(i) \/ c + 2 <= last
BinsLead == \A i \in Bins, c \in Chunks : link[Bin(i)].next = Chunk(c) => Leads(i, c)

\* The next chunk of the last one is itself, the one before it or the head of a bin.
LastLink ==
    \/ link[Chunk(last)].next \in BinHeads
    \/ \E d \in Chunks : last <= d + 1 /\ link[Chunk(last)].next = Chunk(d)

OInv == OwnedOnce /\ Classes /\ (status = "ok" => BinsLead /\ LastLink)

LEMMA NodesApart ==
    /\ \A i \in Bins, c \in Chunks : Bin(i) # Chunk(c)
    /\ \A i, j \in Bins : Bin(i) = Bin(j) => i = j
    /\ \A i \in Bins : Bin(i) \in BinHeads /\ Bin(i) \in Nodes
    /\ \A c \in Chunks : Chunk(c) \notin BinHeads /\ Chunk(c) \in Nodes
    /\ \A c, d \in Chunks : Chunk(c) = Chunk(d) => c = d
    /\ NULL \notin Nodes /\ DATA \notin Nodes
  BY NodeFacts DEF Bins, Bin, Chunk, BinHeads, Nodes, NULL, DATA

\* Unlinking a node, word by word.
LEMMA DelWords ==
    ASSUME link \in LinkType, NEW node \in Nodes, CanDel(node)
    PROVE  /\ Del(node)[node].prev = NULL /\ Del(node)[node].next = NULL
           /\ \A n \in Nodes : n # node =>
                /\ Del(node)[n].prev = IF n = link[node].next THEN link[node].prev
                                       ELSE link[n].prev
                /\ Del(node)[n].next = IF n = link[node].prev THEN link[node].next
                                       ELSE link[n].next
  BY DEF Del, CanDel, LinkType, Node

\* Linking a node in behind a head, word by word.
LEMMA AddWords ==
    ASSUME link \in LinkType, NEW node \in Nodes, NEW head \in Nodes, node # head,
           CanAddFront(head)
    PROVE  /\ AddFront(head, node)[node].prev = head
           /\ AddFront(head, node)[node].next = head
           /\ AddFront(head, node)[head].next = node
           /\ \A n \in Nodes : n # node /\ n # head =>
                /\ AddFront(head, node)[n].next = link[n].next
                /\ AddFront(head, node)[n].prev = IF n = link[head].next THEN node
                                                  ELSE link[n].prev
  BY DEF AddFront, AddBetween, CanAddFront, LinkType, Node

\* Every class of the table has a bin of its own, and a request gets from a bin a chunk that
\* is large enough.
LEMMA TableClasses == \A i \in Bins : IsClass(BinMemsz[i + 1])
  BY SMTT(60) DEF BinMemsz, HEAP_NUM_BINS, IsClass, Bins

LEMMA ClassBin ==
    ASSUME NEW m \in Nat, IsClass(m)
    PROVE  LargestIn(GetBinIdx(m)) = m
  BY SMTT(60) DEF LargestIn, GetBinIdx, IsClass

LEMMA SizeClass ==
    ASSUME NEW req \in Nat, Serving(req)
    PROVE  GetSize(req) \in Nat /\ GetSize(req) >= req /\ IsClass(GetSize(req))
  BY SMTT(60) DEF GetSize, RoundUp, Serving, Servable, INC256_END, IsClass

LEMMA ReusedFits ==
    ASSUME NEW req \in Nat, Serving(req), NEW m \in Nat, IsClass(m),
           GetBinIdx(m) = BinIdxOf(req)
    PROVE  req <= m
<1>1. LargestIn(GetBinIdx(m)) = m
  BY ClassBin
<1>2. LargestIn(GetBinIdx(GetSize(req))) = GetSize(req) /\ GetSize(req) >= req
  BY SizeClass, ClassBin
<1>3. m = GetSize(req)
  BY <1>1, <1>2 DEF BinIdxOf
<1> QED
  BY <1>2, <1>3

-----------------------------------------------------------------------------
(* Steps that give out, free or write a block *)

LEMMA FailOwned ==
    ASSUME OInv, UNCHANGED <<last, memsz, used, link, owners, asked>>,
           status' = "ok" => status = "ok"
    PROVE  OInv'
  BY DEF OInv, OwnedOnce, Classes, BinsLead, Leads, LastLink

LEMMA BinOwned ==
    ASSUME IInv, OInv, NEW size \in Nat, MallocFromBin(size)
    PROVE  OInv'
<1>1. PICK b \in Bins : b = BinIdxOf(size)
  BY BlockSize DEF MallocFromBin, Bins
<1>2. PICK first : first = link[Bin(b)].next
  OBVIOUS
<1>3. CASE ~(first[1] = "chunk" /\ CanDel(first))
  BY <1>1, <1>2, <1>3, FailOwned DEF MallocFromBin, Fail
<1>4. CASE first[1] = "chunk" /\ CanDel(first)
  <2>1. /\ Serving(size) /\ GiveOut(first[2], size) /\ link' = Del(first)
        /\ UNCHANGED <<last, addr, memsz, brk>>
    BY <1>1, <1>2, <1>4 DEF MallocFromBin
  <2>2. link \in LinkType /\ memsz \in [Chunks -> Nat] /\ last \in Chunks
    BY DEF IInv, TypeOK, LinkType
  <2>3. PICK f \in Chunks : f = first[2] /\ first = Chunk(f)
    <3>1. first \in Words
      BY <1>2, <2>2, NodesApart DEF LinkType
    <3> QED
      BY <1>4, <3>1, ChunkWord
  <2>4. status = "ok" /\ BinsLead /\ LastLink /\ Leads(b, f)
    BY <1>2, <2>1, <2>3 DEF OInv, BinsLead, Serving
  <2>5. PICK p, x : p = link[first].prev /\ x = link[first].next
    OBVIOUS
  <2>6. f < last /\ GetBinIdx(memsz[f]) = b /\ (f \notin used => x \in BinHeads)
    BY <2>3, <2>4, <2>5, NodesApart DEF Leads
  <2>7. /\ link'[Chunk(f)].prev = NULL
        /\ \A n \in Nodes : n # Chunk(f) =>
             /\ link'[n].prev = IF n = x THEN p ELSE link[n].prev
             /\ link'[n].next = IF n = p THEN x ELSE link[n].next
    BY <1>4, <2>1, <2>2, <2>3, <2>5, NodesApart, DelWords
  <2>8. /\ used' = used \cup {f} /\ owners' = [owners EXCEPT ![f] = @ + 1]
        /\ asked' = [asked EXCEPT ![f] = size]
        /\ status' = "ok" => owners[f] = 0
    BY <2>1, <2>3 DEF GiveOut, IInv, TypeOK
  <2>9. OwnedOnce'
    BY <2>1, <2>4, <2>6, <2>8 DEF OInv, OwnedOnce, IInv, TypeOK
  <2>10. Classes'
    <3>1. size <= memsz[f]
      BY <1>1, <2>1, <2>2, <2>6, ReusedFits DEF OInv, Classes
    <3> QED
      BY <2>1, <2>6, <2>8, <3>1 DEF OInv, Classes, IInv, TypeOK
  <2> SUFFICES ASSUME status' = "ok"
               PROVE  BinsLead' /\ LastLink'
    BY <2>9, <2>10 DEF OInv
  <2>a. f \notin used /\ x \in BinHeads
    BY <2>6, <2>8 DEF OInv, OwnedOnce
  <2>11. BinsLead'
    <3>1. SUFFICES ASSUME NEW i \in Bins, NEW c \in Chunks, link'[Bin(i)].next = Chunk(c)
                   PROVE  Leads(i, c)'
      BY DEF BinsLead
    <3>2. Bin(i) # p /\ link[Bin(i)].next = Chunk(c)
      <4>1. Bin(i) \in Nodes /\ Bin(i) # Chunk(f)
        BY NodesApart
      <4>2. x # Chunk(c)
        BY <2>a, NodesApart
      <4> QED
        BY <2>7, <3>1, <4>1, <4>2
    <3>3. Leads(i, c)
      BY <2>4, <3>2 DEF BinsLead
    <3>4. CASE c = f
      <4>1. c + 2 <= last
        BY <2>3, <2>5, <2>a, <3>2, <3>3, <3>4 DEF Leads
      <4> QED
        BY <2>1, <2>7, <2>8, <3>3, <3>4, <4>1 DEF Leads
    <3>5. CASE c # f
      <4>1. Chunk(c) # Chunk(f) /\ Chunk(c) # x /\ Chunk(c) \in Nodes
        BY <2>a, <3>5, NodesApart
      <4>2. /\ link'[Chunk(c)].prev = link[Chunk(c)].prev
            /\ link'[Chunk(c)].next \in {x, link[Chunk(c)].next}
        BY <2>7, <4>1
      <4>3. c \in used' <=> c \in used
        BY <2>8, <3>5
      <4> QED
        BY <2>1, <2>a, <3>3, <4>2, <4>3 DEF Leads
    <3> QED
      BY <3>4, <3>5
  <2>12. LastLink'
    <3>1. Chunk(last) # Chunk(f) /\ Chunk(last) \in Nodes
      <4>1. last # f
        BY <2>2, <2>6 DEF Chunks
      <4> QED
        BY <2>2, <4>1, NodesApart
    <3>2. link'[Chunk(last)].next \in {x, link[Chunk(last)].next}
      BY <2>7, <3>1
    <3> QED
      BY <2>1, <2>4, <2>a, <3>2 DEF LastLink
  <2> QED
    BY <2>11, <2>12
<1> QED
  BY <1>3, <1>4

LEMMA SplitOwned ==
    ASSUME IInv, OInv, NEW size \in Nat, NEW zeroed \in BOOLEAN, MallocFromLast(size, zeroed)
    PROVE  OInv'
<1> DEFINE l == Chunk(last)
           m == Chunk(last + 1)
           new == AddFront(l, m)
<1>1. CASE ~CanAddFront(l)
  BY <1>1, FailOwned DEF MallocFromLast, Fail
<1>2. CASE CanAddFront(l)
  <2>1. PICK b : b = BinMemsz[BinIdxOf(size) + 1]
    OBVIOUS
  <2>2. /\ Serving(size) /\ GiveOut(last, size) /\ memsz' = SplitSizes(b)
        /\ link' = IF zeroed THEN [new EXCEPT ![l] = Node(NULL, NULL)] ELSE new
        /\ last' = last + 1 /\ last < MaxChunks
        /\ status = "ok" /\ BinsLead /\ LastLink
    BY <1>2, <2>1 DEF MallocFromLast, Serving, OInv
  <2>3. /\ last \in Chunks /\ last + 1 \in Chunks /\ last \in Nat /\ last # last + 1
        /\ link \in LinkType /\ memsz \in [Chunks -> Nat]
        /\ owners \in [Chunks -> Nat] /\ asked \in [Chunks -> Nat]
    <3>1. last \in Chunks /\ last + 1 \in Chunks /\ last \in Nat
      BY <2>2, HeapAssumption DEF IInv, TypeOK, Chunks
    <3>2. last # last + 1
      BY <3>1
    <3>3. /\ link \in LinkType /\ memsz \in [Chunks -> Nat]
          /\ owners \in [Chunks -> Nat] /\ asked \in [Chunks -> Nat]
      BY DEF IInv, TypeOK, LinkType
    <3> QED
      BY <3>1, <3>2, <3>3
  <2>4. l \in Nodes /\ m \in Nodes /\ l # m
    BY <2>3, NodesApart
  <2>5. /\ new[m].next = l
        /\ \A n \in Nodes : n # m /\ n # l =>
              /\ new[n].next = link[n].next
              /\ new[n].prev = IF n = link[l].next THEN m ELSE link[n].prev
    BY <1>2, <2>3, <2>4, AddWords
  <2> HIDE DEF new
  <2>6. /\ link'[m].next = l
        /\ \A n \in Nodes : n # m /\ n # l =>
              /\ link'[n].next = link[n].next
              /\ link'[n].prev = IF n = link[l].next THEN m ELSE link[n].prev
    <3>1. CASE zeroed
      <4>1. \A n : n # l => [new EXCEPT ![l] = Node(NULL, NULL)][n] = new[n]
        OBVIOUS
      <4> QED
        BY <2>2, <2>4, <2>5, <3>1, <4>1
    <3>2. CASE ~zeroed
      BY <2>2, <2>5, <3>2
    <3> QED
      BY <3>1, <3>2
  <2>7. /\ used' = used \cup {last} /\ owners' = [owners EXCEPT ![last] = @ + 1]
        /\ asked' = [asked EXCEPT ![last] = size]
    BY <2>2 DEF GiveOut
  <2>8. memsz'[last] = b /\ \A c \in Chunks : c < last => memsz'[c] = memsz[c]
    BY <2>2, <2>3 DEF SplitSizes
  <2>9. last \notin used
    BY <2>3 DEF OInv, OwnedOnce
  <2>10. OwnedOnce'
    <3>1. \A c \in used : c < last + 1
      BY <2>3 DEF OInv, OwnedOnce, IInv, TypeOK, Chunks
    <3>2. \A c \in Chunks : owners'[c] = IF c = last THEN owners[c] + 1 ELSE owners[c]
      BY <2>3, <2>7
    <3>3. owners[last] = 0
      BY <2>3, <2>9 DEF OInv, OwnedOnce
    <3> QED
      BY <2>2, <2>3, <2>7, <3>1, <3>2, <3>3 DEF OInv, OwnedOnce
  <2>11. Classes'
    <3>1. IsClass(b) /\ size <= b
      <4>1. BinIdxOf(size) \in Bins /\ IsBlockSize(b)
        BY <2>1, <2>2, BlockSize DEF Bins
      <4>2. IsClass(b)
        BY <2>1, <4>1, TableClasses
      <4>3. b >= size
        BY <2>1, <2>2, ClassFits
      <4> QED
        BY <4>1, <4>2, <4>3 DEF IsBlockSize
    <3>2. SUFFICES ASSUME NEW c \in Chunks, c < last + 1
                   PROVE  IsClass(memsz'[c]) /\ (c \in used' => asked'[c] <= memsz'[c])
      BY <2>2 DEF Classes
    <3>3. CASE c = last
      BY <2>3, <2>7, <2>8, <3>1, <3>3
    <3>4. CASE c # last
      <4>1. c < last
        BY <2>3, <3>2, <3>4 DEF Chunks
      <4> QED
        BY <2>3, <2>7, <2>8, <3>4, <4>1 DEF OInv, Classes
    <3> QED
      BY <3>3, <3>4
  <2>12. BinsLead'
    <3>1. SUFFICES ASSUME NEW i \in Bins, NEW c \in Chunks, link'[Bin(i)].next = Chunk(c)
                   PROVE  Leads(i, c)'
      BY DEF BinsLead
    <3>2. link[Bin(i)].next = Chunk(c)
      BY <2>3, <2>6, <3>1, NodesApart
    <3>3. Leads(i, c)
      BY <2>2, <3>2 DEF BinsLead
    <3>4. c < last /\ c # last /\ c # last + 1 /\ memsz'[c] = memsz[c] /\ c \in Nat
      BY <2>3, <2>8, <3>3 DEF Leads, Chunks
    <3>5. /\ Chunk(c) \in Nodes /\ Chunk(c) # l /\ Chunk(c) # m
          /\ c \in used' <=> c \in used
      BY <2>3, <2>7, <3>4, NodesApart
    <3>6. /\ link'[Chunk(c)].next = link[Chunk(c)].next
          /\ link'[Chunk(c)].prev = IF Chunk(c) = link[l].next THEN m
                                    ELSE link[Chunk(c)].prev
      BY <2>6, <3>5
    <3>7. CASE Chunk(c) = link[l].next
      <4>1. last <= c + 1
        BY <2>2, <3>7, NodesApart DEF LastLink
      <4>2. c \notin used /\ c + 2 <= last + 1
        BY <2>3, <3>3, <3>4, <4>1 DEF Leads
      <4> QED
        BY <2>2, <2>3, <3>3, <3>4, <3>5, <3>6, <4>2 DEF Leads
    <3>8. CASE Chunk(c) # link[l].next
      <4>1. c + 2 <= last => c + 2 <= last + 1
        BY <2>3, <3>4
      <4> QED
        BY <2>2, <2>3, <3>3, <3>4, <3>5, <3>6, <3>8, <4>1 DEF Leads
    <3> QED
      BY <3>7, <3>8
  <2>13. LastLink'
    <3>1. last' = last + 1 /\ link'[Chunk(last')].next = Chunk(last)
      BY <2>2, <2>6
    <3>2. last' <= last + 1
      BY <2>3, <3>1
    <3> QED
      BY <2>3, <3>1, <3>2 DEF LastLink
  <2> QED
    BY <2>10, <2>11, <2>12, <2>13 DEF OInv
<1> QED
  BY <1>1, <1>2

LEMMA FreeOwned ==
    ASSUME IInv, OInv, NEW f \in Chunks, kfree(f)
    PROVE  OInv'
<1> DEFINE b == GetBinIdx(memsz[f])
<1>1. CASE UNCHANGED <<last, memsz, used, link, owners, asked>>
  BY <1>1, FailOwned DEF kfree
<1>2. CASE ~UNCHANGED <<last, memsz, used, link, owners, asked>>
  <2>1. /\ f < last /\ f \in used /\ ~(b >= HEAP_NUM_BINS) /\ CanAddFront(Bin(b))
        /\ used' = used \ {f}
        /\ owners' = [owners EXCEPT ![f] = @ - 1]
        /\ asked' = [asked EXCEPT ![f] = 0]
        /\ link' = AddFront(Bin(b), Chunk(f))
        /\ UNCHANGED <<last, addr, memsz, brk, status>>
        /\ status = "ok" /\ BinsLead /\ LastLink
    BY <1>2 DEF kfree, Fail, OInv
  <2>2. /\ link \in LinkType /\ last \in Chunks /\ memsz \in [Chunks -> Nat]
        /\ owners \in [Chunks -> Nat] /\ asked \in [Chunks -> Nat]
    BY DEF IInv, TypeOK, LinkType
  <2>3. b \in Bins
    <3>1. f \in 0..last /\ memsz[f] \in Nat
      BY <2>1, <2>2 DEF Chunks
    <3>2. memsz[f] >= 16
      BY <3>1 DEF IInv, RealSizes
    <3>3. b \in Nat
      BY <3>1, <3>2, GetBinIdxBounds
    <3> HIDE DEF b
    <3>4. ~(b >= HEAP_NUM_BINS)
      BY <2>1
    <3> QED
      BY <3>3, <3>4 DEF HEAP_NUM_BINS, Bins
  <2> HIDE DEF b
  <2>4. PICK h, g : h = Bin(b) /\ g = Chunk(f)
    OBVIOUS
  <2>5. h \in Nodes /\ h \in BinHeads /\ g \in Nodes /\ h # g
    BY <2>3, <2>4, NodesApart
  <2>6. /\ link'[g].prev = h /\ link'[g].next = h /\ link'[h].next = g
        /\ \A n \in Nodes : n # g /\ n # h =>
              /\ link'[n].next = link[n].next
              /\ link'[n].prev = IF n = link[h].next THEN g ELSE link[n].prev
    BY <2>1, <2>2, <2>4, <2>5, AddWords
  <2>7. OwnedOnce'
    <3>1. owners[f] = 1
      BY <2>1, <2>2 DEF OInv, OwnedOnce
    <3>2. \A c \in Chunks : owners'[c] = IF c = f THEN 0 ELSE owners[c]
      BY <2>1, <2>2, <3>1
    <3> QED
      BY <2>1, <2>2, <3>2 DEF OInv, OwnedOnce
  <2>8. Classes'
    BY <2>1, <2>2 DEF OInv, Classes
  <2>9. BinsLead'
    <3>1. SUFFICES ASSUME NEW i \in Bins, NEW c \in Chunks, link'[Bin(i)].next = Chunk(c)
                   PROVE  Leads(i, c)'
      BY DEF BinsLead
    <3>2. CASE i = b
      <4>1. c = f
        BY <2>4, <2>6, <3>1, <3>2, NodesApart
      <4> QED
        BY <2>1, <2>4, <2>5, <2>6, <3>2, <4>1 DEF Leads, b
    <3>3. CASE i # b
      <4>1. Bin(i) # h /\ Bin(i) # g /\ Bin(i) \in Nodes
        BY <2>3, <2>4, <3>3, NodesApart
      <4>2. link[Bin(i)].next = Chunk(c)
        BY <2>6, <3>1, <4>1
      <4>3. Leads(i, c)
        BY <2>1, <4>2 DEF BinsLead
      <4>4. c # f
        BY <3>3, <4>3 DEF Leads, b
      <4>5. Chunk(c) # link[h].next
        <5>1. link[h].next = Chunk(c) => Leads(b, c)
          BY <2>1, <2>3, <2>4 DEF BinsLead
        <5> QED
          BY <3>3, <4>3, <5>1 DEF Leads
      <4>6. Chunk(c) # h /\ Chunk(c) # g /\ Chunk(c) \in Nodes
        BY <2>3, <2>4, <4>4, NodesApart
      <4>7. /\ link'[Chunk(c)].next = link[Chunk(c)].next
            /\ link'[Chunk(c)].prev = link[Chunk(c)].prev
        BY <2>6, <4>5, <4>6
      <4>8. c \in used' <=> c \in used
        BY <2>1, <4>4
      <4> QED
        BY <2>1, <4>3, <4>7, <4>8 DEF Leads
    <3> QED
      BY <3>2, <3>3
  <2>10. LastLink'
    <3>1. last \in Chunks /\ last # f
      BY <2>1, <2>2 DEF Chunks, IInv, TypeOK, OInv, OwnedOnce
    <3>2. Chunk(last) # h /\ Chunk(last) # g /\ Chunk(last) \in Nodes
      BY <2>1, <2>3, <2>4, <3>1, NodesApart
    <3> QED
      BY <2>1, <2>6, <3>2 DEF LastLink
  <2> QED
    BY <2>7, <2>8, <2>9, <2>10 DEF OInv
<1> QED
  BY <1>1, <1>2

LEMMA WriteOwned ==
    ASSUME IInv, OInv, NEW f \in Chunks, Write(f)
    PROVE  OInv'
<1>1. PICK p, q : link' = [link EXCEPT ![Chunk(f)] = Node(p, q)]
  BY DEF Write
<1>0. /\ UNCHANGED <<last, addr, memsz, used, brk, owners, asked, status>>
      /\ status = "ok" /\ BinsLead /\ LastLink
  BY DEF Write, OInv
<1>2. link \in LinkType /\ last \in Chunks
  BY DEF IInv, TypeOK, LinkType
<1>3. f \in used /\ f < last
  BY DEF Write, OInv, OwnedOnce
<1>4. \A n \in Nodes : n # Chunk(f) => link'[n] = link[n]
  BY <1>1, <1>2, NodesApart DEF LinkType
<1>5. BinsLead'
  <2>1. SUFFICES ASSUME NEW i \in Bins, NEW c \in Chunks, link'[Bin(i)].next = Chunk(c)
                 PROVE  Leads(i, c)'
    BY DEF BinsLead
  <2>2. Leads(i, c)
    BY <1>0, <1>4, <2>1, NodesApart DEF BinsLead
  <2>3. CASE c = f
    BY <1>0, <1>3, <2>2, <2>3 DEF Leads
  <2>4. CASE c # f
    BY <1>0, <1>4, <2>2, <2>4, NodesApart DEF Leads
  <2> QED
    BY <2>3, <2>4
<1>6. LastLink'
  <2>1. Chunk(last) # Chunk(f) /\ Chunk(last) \in Nodes
    <3>1. last # f
      BY <1>2, <1>3 DEF Chunks
    <3> QED
      BY <1>2, <3>1, NodesApart
  <2> QED
    BY <1>0, <1>4, <2>1 DEF LastLink
<1>7. OwnedOnce' /\ Classes'
  BY <1>0 DEF OInv, OwnedOnce, Classes
<1> QED
  BY <1>5, <1>6, <1>7 DEF OInv

LEMMA InitOwned == Init => OInv
<1> SUFFICES ASSUME Init PROVE OInv
  OBVIOUS
<1>1. 0 \in Chunks
  BY HeapAssumption DEF Chunks
<1>2. OwnedOnce /\ Classes
  BY <1>1 DEF Init, OwnedOnce, Classes, Chunks
<1>3. \A n \in Nodes : link[n].next = n
  BY DEF Init, Node
<1>4. BinsLead
  BY <1>3, NodesApart DEF BinsLead
<1>5. LastLink
  BY <1>1, <1>3, NodesApart DEF LastLink, Init
<1> QED
  BY <1>2, <1>4, <1>5 DEF OInv

LEMMA StepOwned ==
    ASSUME IInv, OInv, [Next]_heapVars
    PROVE  OInv'
<1>1. ASSUME NEW s \in Requests
      PROVE  s \in Nat /\ (Servable(s) => GetSize(s) \in Nat)
  BY HeapAssumption, GetSizeBounds
<1>2. ASSUME NEW s \in Requests, MallocRefused(s)
      PROVE  OInv'
  BY <1>2, FailOwned DEF MallocRefused, Fail
<1>3. ASSUME NEW s \in Requests, kmalloc(s)
      PROVE  OInv'
  BY <1>1, <1>3, BinOwned, SplitOwned DEF kmalloc
<1>4. ASSUME NEW s \in Requests, Servable(s), kcalloc(s)
      PROVE  OInv'
  BY <1>1, <1>4, BinOwned, SplitOwned DEF kcalloc
<1>5. ASSUME NEW c \in Chunks, kfree(c) \/ Write(c)
      PROVE  OInv'
  BY <1>5, FreeOwned, WriteOwned
<1>6. CASE UNCHANGED heapVars
  BY <1>6, FailOwned DEF heapVars
<1> QED
  BY <1>2, <1>3, <1>4, <1>5, <1>6 DEF Next

\* Owners and classes in every state, and what is left of the lists until the model ends.
THEOREM OwnersInvariance == Spec => []OInv
<1>1. Init => OInv
  BY InitOwned
<1>2. IInv /\ OInv /\ [Next]_heapVars => OInv'
  BY StepOwned
<1> QED
  BY <1>1, <1>2, HeapInvariance, PTL DEF Spec

\* A block is as large as its caller asked, be it split off or taken from a bin
\* (heap.c:155-225, 235-340).
THEOREM EveryBlockFits == Spec => []BlockFits
<1>1. IInv /\ OInv => BlockFits
  <2> SUFFICES ASSUME IInv, OInv, NEW c \in Chunks, owners[c] > 0
               PROVE  memsz[c] >= asked[c]
    BY DEF BlockFits
  <2>1. c \in used /\ c < last
    BY DEF OInv, OwnedOnce
  <2>2. asked[c] <= memsz[c] /\ asked[c] \in Nat /\ memsz[c] \in Nat
    BY <2>1 DEF OInv, Classes, IInv, TypeOK
  <2> QED
    BY <2>2
<1> QED
  BY <1>1, HeapInvariance, OwnersInvariance, PTL

=============================================================================
