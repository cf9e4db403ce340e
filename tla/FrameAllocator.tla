--------------------------- MODULE FrameAllocator ---------------------------
(***************************************************************************)
(* What the rest of the kernel expects of a physical memory manager        *)
(* (struct pmmgr, include/tmos/memory.h): once it is set up it owns a pool  *)
(* of frames, lends a frame of the pool that nobody holds, and takes a      *)
(* frame back only from its holder.  BitmapPmm is shown to implement it.    *)
(***************************************************************************)
CONSTANT Frame

VARIABLES
    open,   \* has the manager been set up?
    pool,   \* the frames it may lend
    held    \* the frames that are lent

vars == <<open, pool, held>>

Init ==
    /\ open = FALSE
    /\ pool = {}
    /\ held = {}

\* The pool is fixed once, when the memory map is handed over.
Open ==
    /\ ~open
    /\ open' = TRUE
    /\ pool' \in SUBSET Frame
    /\ UNCHANGED held

Lend(f) ==
    /\ open
    /\ f \in pool \ held
    /\ held' = held \cup {f}
    /\ UNCHANGED <<open, pool>>

TakeBack(f) ==
    /\ f \in held
    /\ held' = held \ {f}
    /\ UNCHANGED <<open, pool>>

Next == Open \/ (\E f \in pool : Lend(f)) \/ (\E f \in held : TakeBack(f))

Spec == Init /\ [][Next]_vars
=============================================================================
