---------------------------- MODULE AddressSpace ----------------------------
(***************************************************************************)
(* What the virtual memory manager promises (include/tmos/arch/x86_64/     *)
(* memory.h): a page is not mapped, mapped but not yet backed, backed by a  *)
(* frame of its own, or mapped to a given physical address.  An operation   *)
(* changes one page at a time and no other page.  A manager that is lost    *)
(* promises nothing any more.                                              *)
(***************************************************************************)
CONSTANTS Page, Frame, None, Lazy, Device

VARIABLES space, lost

Init == space = [v \in Page |-> None] /\ lost = FALSE

\* vmm_map: memory is reserved, not allocated.
Map(v) == space[v] = None /\ space' = [space EXCEPT ![v] = Lazy]

\* The first access: a frame that backs no other page.
Back(v) ==
    /\ space[v] = Lazy
    /\ \E f \in Frame :
        /\ \A w \in Page : space[w] # f
        /\ space' = [space EXCEPT ![v] = f]

\* vmm_free
Free(v) == space[v] \in Frame /\ space' = [space EXCEPT ![v] = None]

\* vmm_map_to and vmm_unmap
MapTo(v) == space[v] = None /\ space' = [space EXCEPT ![v] = Device]
Unmap(v) == space[v] = Device /\ space' = [space EXCEPT ![v] = None]

Operation == \E v \in Page : Map(v) \/ Back(v) \/ Free(v) \/ MapTo(v) \/ Unmap(v)

Next == ~lost /\ (lost' \/ (Operation /\ UNCHANGED lost))

Spec == Init /\ [][Next]_<<space, lost>>
=============================================================================
