------------------------------ MODULE MCVmmBoot ------------------------------
(* Tables of four entries: entry 2 is the window, entry 3 the kernel's half.   *)
(* The kernel starts at <<3, 2, 0, 1>>; its sections reach into a second table. *)
EXTENDS VmmBoot

Section(page, n, isAlloc) == [sh_addr |-> 2 * page, sh_size |-> 2 * n, alloc |-> isAlloc]

\* .bootstrap, .text, .rodata, .bss (which begins with the guard page), .symtab
KernelSections ==
    <<Section(1, 1, TRUE), Section(225, 2, TRUE), Section(227, 1, TRUE), Section(228, 2, TRUE),
      Section(0, 1, FALSE)>>

MemMap == <<[start |-> 64, type |-> "none"], [start |-> 17, type |-> "available"],
            [start |-> 15, type |-> "multiboot2"], [start |-> 7, type |-> "available"]>>

KernelBitmaps == [v |-> 231, n |-> 1]
=============================================================================
