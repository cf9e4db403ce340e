------------------------------- MODULE MCHeap -------------------------------
(* Requests for Heap: neighbouring small classes, so that a freed block can be  *)
(* reused by the next class, one that makes the heap grow, and two that are     *)
(* refused.  A pointer to the first block is enough for owners to make both     *)
(* words of a block addresses, of their own block or of another.                *)
EXTENDS Heap

SmallRequests == {20, 32, 3000, 3585, 3841}

\* Sizes that kmalloc serves without an assertion, up to the largest class.
LargeRequests == {3328, 3329, 3584}
=============================================================================
