-------------------------------- MODULE Heap --------------------------------
(***************************************************************************)
(* The kernel heap, kernel/mem/heap.c, on the circular lists of             *)
(* include/tmos/ds/list.h.                                                  *)
(*                                                                         *)
(* Chunks are numbered in address order, the last one being `_heap.last',   *)
(* from which requests are split off.  A chunk's list node lies in the      *)
(* first two words of the memory that its user gets, so `link' gives for    *)
(* every chunk what those two words hold: the address of a node, NULL, or   *)
(* data of the user.  Sizes are the real ones, in bytes.  The               *)
(* previous-chunk-in-use bit of a header and the footers are written by     *)
(* the code and read by none of its operations; they are left out.          *)
(***************************************************************************)
EXTENDS Integers, Sequences

CONSTANTS
    Requests,    \* sizes that kmalloc is asked for
    Pointers,    \* chunks whose addresses, once returned by kmalloc, owners may store
    MaxChunks    \* bound: chunks the heap is ever split into

PAGE_SIZE == 4096
WORD == 8

ASSUME HeapAssumption ==
    /\ Requests \subseteq Nat
    /\ Pointers \subseteq Nat
    /\ MaxChunks \in Nat

VARIABLES
    last,      \* index of _heap.last
    addr,      \* chunk -> address of its header, from the start of the heap
    memsz,     \* chunk -> size of its memory
    used,      \* chunks whose header says they are in use
    link,      \* chunk or bin head -> its list node
    brk,       \* current end of the heap
    owners,    \* chunk -> how many callers hold it
    asked,     \* chunk -> size asked for by its last caller
    status     \* "ok", how the kernel stopped, or how its next step left this model

heapVars == <<last, addr, memsz, used, link, brk, owners, asked, status>>

Chunks == 0..MaxChunks

-----------------------------------------------------------------------------
(* Size classes *)

\* _bins[i].memsz is BinMemsz[i + 1].
BinMemsz ==
    <<16, 24, 32, 40, 48, 56, 64, 72, 80, 88, 96, 104, 112, 120,
      128, 144, 160, 176, 192, 208, 224, 240,
      256, 288, 320, 352, 384, 416, 448, 480,
      512, 576, 640, 704, 768, 832, 896, 960,
      1024, 1152, 1280, 1408, 1536, 1664, 1792, 1920,
      2048, 2304, 2560, 2816, 3072, 3328, 3584, 3840>>

HEAP_NUM_BINS == 54
INC256_END == 3840

\* _get_size asserts that the request is at most INC256_END.
Servable(req) == req <= INC256_END

RoundUp(x, g) == ((x + g - 1) \div g) * g

GetSize(req) ==
    CASE req <= 24 -> 24
      [] 24 < req /\ req <= 128 -> RoundUp(req, 8)
      [] 128 < req /\ req <= 256 -> RoundUp(req, 16)
      [] 256 < req /\ req <= 512 -> RoundUp(req, 32)
      [] 512 < req /\ req <= 1024 -> RoundUp(req, 64)
      [] 1024 < req /\ req <= 2048 -> RoundUp(req, 128)
      [] OTHER -> RoundUp(req, 256)

GetBinIdx(binsz) ==
    CASE binsz <= 128 -> binsz \div 8 - 1
      [] 128 < binsz /\ binsz <= 256 -> 15 + (binsz - 128) \div 16
      [] 256 < binsz /\ binsz <= 512 -> 23 + (binsz - 256) \div 32
      [] 512 < binsz /\ binsz <= 1024 -> 31 + (binsz - 512) \div 64
      [] 1024 < binsz /\ binsz <= 2048 -> 39 + (binsz - 1024) \div 128
      [] OTHER -> 47 + (binsz - 2048) \div 256

\* The form that looks one class too low.
BinIdxOfLow(req) == GetBinIdx(GetSize(req) - WORD)

BinIdxOf(req) == GetBinIdx(GetSize(req))

-----------------------------------------------------------------------------
(* List nodes *)

NULL == <<"null">>
DATA == <<"data">>
Bin(i) == <<"bin", i>>
Chunk(c) == <<"chunk", c>>

BinHeads == {Bin(i) : i \in 0..HEAP_NUM_BINS - 1}
Nodes == BinHeads \cup {Chunk(c) : c \in Chunks}
Words == Nodes \cup {NULL, DATA}

Node(p, n) == [prev |-> p, next |-> n]

\* __list_add_between(node, prev, next).  node->next is assigned `prev'.
AddBetween(l, node, prev, next) ==
    [[[l EXCEPT ![next].prev = node] EXCEPT ![node] = Node(prev, prev)]
        EXCEPT ![prev].next = node]

\* Can the list operation follow the pointers it is given?
CanAddFront(head) == link[head].next \in Nodes
AddFront(head, node) == AddBetween(link, node, head, link[head].next)

CanDel(node) == link[node].prev \in Nodes /\ link[node].next \in Nodes

Del(node) ==
    [[[link EXCEPT ![link[node].next].prev = link[node].prev]
        EXCEPT ![link[node].prev].next = link[node].next]
        EXCEPT ![node] = Node(NULL, NULL)]

\* Bins the requests can reach have a list; the others stay empty.
ListIsEmpty(head) == link[head].next = head

-----------------------------------------------------------------------------
(* kmalloc *)

Fail(how) ==
    /\ status' = how
    /\ UNCHANGED <<last, addr, memsz, used, link, brk, owners, asked>>

\* A chunk c is returned to a caller who asked for `size' bytes.
GiveOut(c, size) ==
    /\ used' = used \cup {c}
    /\ owners' = [owners EXCEPT ![c] = @ + 1]
    /\ asked' = [asked EXCEPT ![c] = size]
    /\ status' = IF owners[c] > 0 THEN "given_twice" ELSE status

\* The requests the code cannot serve: an ASSERT, or an index past _bins.
MallocRefused(size) ==
    /\ status = "ok"
    /\ size > 0
    /\ IF ~Servable(size)
       THEN Fail("assert")
       ELSE BinIdxOf(size) >= HEAP_NUM_BINS /\ Fail("bin_out_of_bounds")

Serving(size) ==
    /\ status = "ok"
    /\ size > 0
    /\ Servable(size)
    /\ BinIdxOf(size) < HEAP_NUM_BINS

\* The bin's first chunk is taken.  A damaged bin may lead to a chunk in use: what is
\* followed then are words that its owner stored, and the block is given out once more.
\* With two owners who store at will, and stores through what they stored, the model ends.
MallocFromBin(size) ==
    LET head == Bin(BinIdxOf(size))
        first == link[head].next
    IN  /\ Serving(size)
        /\ ~ListIsEmpty(head)
        /\ IF first[1] = "chunk" /\ CanDel(first)
           THEN /\ GiveOut(first[2], size)
                /\ link' = Del(first)
                /\ UNCHANGED <<last, addr, memsz, brk>>
           ELSE Fail("wild_pointer")

\* Extending the heap, in the form that never does.
GrownNever(b) == 0

\* The form that asks only whether the request fits.
GrownLate(b) == IF memsz[last] < b THEN PAGE_SIZE ELSE 0

\* What _heap.last holds once ksbrk has been called if it had to be.
Grown(b) == IF memsz[last] - b < PAGE_SIZE THEN PAGE_SIZE ELSE 0

\* _chunk_split_front, in the form that forgets the header of the right chunk.
SplitSizesNoHeader(b) ==
    [memsz EXCEPT ![last] = b, ![last + 1] = memsz[last] + Grown(b) - b]

SplitSizes(b) ==
    [memsz EXCEPT ![last] = b, ![last + 1] = memsz[last] + Grown(b) - b - WORD]

\* The address of the right chunk, in the form that forgets the header of the left one.
RightAddrNoHeader(b) == addr[last] + b

RightAddr(b) == addr[last] + b + WORD

\* A block is split off the front of the last chunk.  Linking the rest behind it
\* follows the `next' word of the chunk that is split.  kcalloc then zeroes the block;
\* one that comes from a bin has NULL links already.
MallocFromLast(size, zeroed) ==
    LET b == BinMemsz[BinIdxOf(size) + 1]
    IN  /\ Serving(size)
        /\ ListIsEmpty(Bin(BinIdxOf(size)))
        /\ last < MaxChunks
        /\ IF CanAddFront(Chunk(last))
           THEN /\ GiveOut(last, size)
                /\ brk' = brk + Grown(b)
                /\ memsz' = SplitSizes(b)
                /\ addr' = [addr EXCEPT ![last + 1] = RightAddr(b)]
                /\ link' = IF zeroed
                           THEN [AddFront(Chunk(last), Chunk(last + 1))
                                    EXCEPT ![Chunk(last)] = Node(NULL, NULL)]
                           ELSE AddFront(Chunk(last), Chunk(last + 1))
                /\ last' = last + 1
           ELSE Fail("wild_pointer")

kmalloc(size) == MallocFromBin(size) \/ MallocFromLast(size, FALSE)

\* kcalloc asks kmalloc for the rounded size and zeroes all of it.
kcalloc(size) == MallocFromBin(GetSize(size)) \/ MallocFromLast(GetSize(size), TRUE)

-----------------------------------------------------------------------------
(* kfree, and what the owner of a block does with it *)

\* A block is given back by its owner, or once more by a late caller: of a block that is
\* not in use the kernel panics.
kfree(c) ==
    /\ status = "ok"
    /\ c < last
    /\ owners[c] > 0 \/ c \notin used
    /\ IF c \notin used
       THEN Fail("double_free")
       ELSE IF GetBinIdx(memsz[c]) >= HEAP_NUM_BINS
       THEN Fail("bin_out_of_bounds")
       ELSE IF ~CanAddFront(Bin(GetBinIdx(memsz[c])))
       THEN Fail("wild_pointer")
       ELSE /\ used' = used \ {c}
            /\ owners' = [owners EXCEPT ![c] = @ - 1]
            /\ asked' = [asked EXCEPT ![c] = 0]
            /\ link' = AddFront(Bin(GetBinIdx(memsz[c])), Chunk(c))
            /\ UNCHANGED <<last, addr, memsz, brk, status>>

\* What an owner stores: data, or pointers that kmalloc has returned.
Storable == {DATA} \cup {Chunk(d) : d \in {e \in Pointers : e < last}}

\* The owner of a block stores into its first words.
Write(c) ==
    /\ status = "ok"
    /\ owners[c] > 0
    /\ \E p, n \in Storable : link' = [link EXCEPT ![Chunk(c)] = Node(p, n)]
    /\ UNCHANGED <<last, addr, memsz, used, brk, owners, asked, status>>

\* heap_init: two pages, one free chunk, linked to itself; the bins are empty.
Init ==
    /\ last = 0
    /\ addr = [c \in Chunks |-> 0]
    /\ memsz = [c \in Chunks |-> IF c = 0 THEN 2 * PAGE_SIZE - WORD ELSE 0]
    /\ used = {}
    /\ link = [n \in Nodes |-> Node(n, n)]
    /\ brk = 2 * PAGE_SIZE
    /\ owners = [c \in Chunks |-> 0]
    /\ asked = [c \in Chunks |-> 0]
    /\ status = "ok"

Next ==
    \/ \E s \in Requests : MallocRefused(s) \/ kmalloc(s) \/ (Servable(s) /\ kcalloc(s))
    \/ \E c \in Chunks : kfree(c) \/ Write(c)

Spec == Init /\ [][Next]_heapVars

-----------------------------------------------------------------------------
(* Properties *)

Statuses ==
    {"ok", "assert", "bin_out_of_bounds", "wild_pointer", "double_free", "given_twice"}

TypeOK ==
    /\ last \in Chunks
    /\ addr \in [Chunks -> Nat]
    /\ memsz \in [Chunks -> Nat]
    /\ used \subseteq Chunks
    /\ link \in [Nodes -> [prev : Words, next : Words]]
    /\ brk \in Nat
    /\ owners \in [Chunks -> Nat]
    /\ asked \in [Chunks -> Nat]
    /\ status \in Statuses

\* The chunks tile the heap: each ends where the next begins and the last one ends at
\* the break, through any sequence of splits and extensions (heap.c:122-133, 334-340).
Tiled ==
    /\ addr[0] = 0
    /\ \A c \in 0..last - 1 : addr[c] + WORD + memsz[c] = addr[c + 1]
    /\ addr[last] + WORD + memsz[last] = brk

\* The subtractions of kmalloc never wrap: the last chunk always has room for the
\* largest block and its header (heap.c:126, 334).
LastHasRoom == memsz[last] >= PAGE_SIZE - WORD

\* Blocks of two callers never overlap, header included.
BlocksDisjoint ==
    \A c, d \in Chunks : owners[c] > 0 /\ owners[d] > 0 /\ c < d =>
        addr[c] + WORD + memsz[c] <= addr[d]

\* A block is at least as large as what was asked for, whether split off or reused
\* from a bin (_get_size, _get_bin_idx and the table of bins agree).
BlockFits == \A c \in Chunks : owners[c] > 0 => memsz[c] >= asked[c]

\* heap.c:322 "Check if bin has free nodes": a bin's nodes are free, so that a block
\* taken from it has no owner yet (heap.c:323-332).
OneOwner == \A c \in Chunks : owners[c] <= 1

\* heap.c:23 "In case of used chunk, it stores just the size": allocating another block
\* leaves the memory of a block in use alone.
UsedMemoryUntouched ==
    [][last' = last + 1 =>
          \A c \in used : link'[Chunk(c)] = link[Chunk(c)]]_heapVars

\* list.h:31 "Add an entry to the list after the head node": the other entries stay on
\* the list, so a free block can be allocated again.
\* (The last chunk is free and on no list.)
OnList(c) ==
    \E i \in 0..HEAP_NUM_BINS - 1 :
        \/ link[Bin(i)].next = Chunk(c)
        \/ \E d \in Chunks : /\ link[Bin(i)].next = Chunk(d)
                             /\ link[Chunk(d)].next = Chunk(c)
NoFreeBlockLost ==
    status = "ok" => \A c \in 0..last - 1 : c \notin used => OnList(c)

\* heap.c:239 "TODO: Handle requests larger than 3840 bytes": smaller requests are handled,
\* with an index into the table of bins that is one of its HEAP_NUM_BINS.
BinsInBounds == status # "bin_out_of_bounds"
=============================================================================
