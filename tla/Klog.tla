-------------------------------- MODULE Klog --------------------------------
(***************************************************************************)
(* Logging and panics on one CPU (kernel/klog.c) with the lock they use     *)
(* there (the uniprocessor half of include/tmos/arch/x86_64/spin.h), and    *)
(* the exception handlers that log: the page fault handler (vmm.c) and the  *)
(* common handler of the other exceptions (cpu/idt.c).                      *)
(*                                                                         *)
(* A call stack of activations, the last one executing.  All of them share  *)
(* the message buffer, the lock word and the CPU's interrupt flag.          *)
(***************************************************************************)
EXTENDS Integers, Sequences

CONSTANTS
    FaultsIn,      \* where page faults strike: "task" code, the "arguments" of a message
    Panics,        \* does running code panic?
    MaxDepth       \* bound on nested activations

ASSUME KlogAssumption ==
    /\ FaultsIn \subseteq {"task", "arguments"}
    /\ Panics \in BOOLEAN
    /\ MaxDepth \in Nat \ {0}

VARIABLES
    stack,     \* the activations, oldest first
    _log_buf,  \* who wrote the first and the second part of the buffer's message
    _lock,     \* is the lock word 1?
    intr       \* the interrupt flag

klogVars == <<stack, _log_buf, _lock, intr>>

\* An activation: the function, where it is in it, and the interrupt flag at the call.
Frame(fn, at, was) == [fn |-> fn, at |-> at, was |-> was]

Depth == Len(stack)
Top == stack[Depth]
Below == SubSeq(stack, 1, Depth - 1)

TopIs(fns, at) == Depth > 0 /\ Top.fn \in fns /\ Top.at = at
MovedTo(at) == [stack EXCEPT ![Depth].at = at]

Printers == {"klog", "panic"}
Handlers == {"fault", "trap"}

-----------------------------------------------------------------------------
(* klog and __panic *)

\* Code that is no part of this module logs or panics.
Call(fn) ==
    /\ stack = <<>>
    /\ fn = "panic" => Panics
    /\ stack' = <<Frame(fn, "lock", intr)>>
    /\ UNCHANGED <<_log_buf, _lock, intr>>

\* kinit_multiboot2 enables interrupts once the memory managers are up.
EnableInterrupts ==
    /\ stack = <<>> /\ ~intr
    /\ intr' = TRUE
    /\ UNCHANGED <<stack, _log_buf, _lock>>

AfterLock(fn) == IF fn = "panic" THEN "nest" ELSE "head"

\* spin_lock_intsafe: it reads the flags into a register, and goes by what it read.
ReadFlags ==
    /\ TopIs(Printers, "lock")
    /\ stack' = MovedTo(IF intr THEN "take" ELSE "leave")
    /\ UNCHANGED <<_log_buf, _lock, intr>>

\* The form of the lock that does not disable interrupts.
LockOnly ==
    /\ TopIs(Printers, "take")
    /\ _lock' = TRUE
    /\ stack' = MovedTo(AfterLock(Top.fn))
    /\ UNCHANGED <<_log_buf, intr>>

\* Interrupts were enabled.  (One step: once they are disabled nothing but a trap, which
\* never returns, comes before the store.)
Lock ==
    /\ TopIs(Printers, "take")
    /\ _lock' = TRUE
    /\ intr' = FALSE
    /\ stack' = MovedTo(AfterLock(Top.fn))
    /\ UNCHANGED _log_buf

\* They were disabled: the lock word is left alone.
LeaveLock ==
    /\ TopIs(Printers, "leave")
    /\ stack' = MovedTo(AfterLock(Top.fn))
    /\ UNCHANGED <<_log_buf, _lock, intr>>

\* __panic has its first line written by klog, with the lock taken.
Nest ==
    /\ TopIs({"panic"}, "nest") /\ Depth < MaxDepth
    /\ stack' = Append(MovedTo("head"), Frame("klog", "lock", intr))
    /\ UNCHANGED <<_log_buf, _lock, intr>>

\* vsnprintf, in two parts between which it reads an argument.
FormatHead ==
    /\ TopIs(Printers, "head")
    /\ _log_buf' = [_log_buf EXCEPT !.head = Depth]
    /\ stack' = MovedTo("tail")
    /\ UNCHANGED <<_lock, intr>>

FormatTail ==
    /\ TopIs(Printers, "tail")
    /\ _log_buf' = [_log_buf EXCEPT !.tail = Depth]
    /\ stack' = MovedTo("write")
    /\ UNCHANGED <<_lock, intr>>

\* serial_write_str
Write ==
    /\ TopIs(Printers, "write")
    /\ stack' = MovedTo("unlock")
    /\ UNCHANGED <<_log_buf, _lock, intr>>

\* klog returns; __panic goes on to crash_and_burn.
Returned == IF Top.fn = "klog" THEN Below ELSE MovedTo("crash")

\* The form of the unlock that tests the interrupt flag, not the lock word.
UnlockByFlag ==
    /\ TopIs(Printers, "unlock")
    /\ _lock' = (_lock /\ ~intr)
    /\ intr' = TRUE
    /\ stack' = Returned
    /\ UNCHANGED _log_buf

\* spin_unlock
Unlock ==
    /\ TopIs(Printers, "unlock")
    /\ _lock' = FALSE
    /\ intr' = (intr \/ _lock)
    /\ stack' = Returned
    /\ UNCHANGED _log_buf

-----------------------------------------------------------------------------
(* Exceptions *)

\* An interrupt gate saves the flag and clears it.
Enter(fn) ==
    /\ Depth < MaxDepth
    /\ stack' = Append(stack, Frame(fn, "log", intr))
    /\ intr' = FALSE
    /\ UNCHANGED <<_log_buf, _lock>>

\* A page that is still to be allocated is touched by running code, or by a message's
\* arguments in the middle of its formatting.
PageFault ==
    /\ \/ "task" \in FaultsIn /\ stack = <<>>
       \/ "arguments" \in FaultsIn /\ Depth = 1 /\ TopIs(Printers, "tail")
    /\ Enter("fault")

\* Another exception, or an NMI.
Trap ==
    /\ Depth > 0 => Top.at # "crash" /\ \A i \in 1..Depth : stack[i].fn # "trap"
    /\ Enter("trap")

AfterLog(fn) == IF fn = "fault" THEN "handle" ELSE "crash"

HandlerLogs ==
    /\ TopIs(Handlers, "log") /\ Depth < MaxDepth
    /\ stack' = Append(MovedTo(AfterLog(Top.fn)), Frame("klog", "lock", intr))
    /\ UNCHANGED <<_log_buf, _lock, intr>>

\* The page is allocated, or need not be: iret.
FaultReturns ==
    /\ TopIs({"fault"}, "handle")
    /\ stack' = Below
    /\ intr' = Top.was
    /\ UNCHANGED <<_log_buf, _lock>>

\* A fault that cannot be served is logged; no frame left is a failed assertion.
FaultAborts ==
    /\ TopIs({"fault"}, "handle") /\ Depth < MaxDepth
    /\ \E fn \in Printers :
          stack' = Append(MovedTo("crash"), Frame(fn, "lock", intr))
    /\ UNCHANGED <<_log_buf, _lock, intr>>

\* cli; hlt
CrashAndBurn ==
    /\ Depth > 0 /\ Top.at = "crash" /\ intr
    /\ intr' = FALSE
    /\ UNCHANGED <<stack, _log_buf, _lock>>

Init ==
    /\ stack = <<>>
    /\ _log_buf = [head |-> 0, tail |-> 0]
    /\ _lock = FALSE
    /\ intr = FALSE

Next ==
    \/ \E fn \in Printers : Call(fn)
    \/ EnableInterrupts
    \/ ReadFlags \/ Lock \/ LeaveLock \/ Nest \/ FormatHead \/ FormatTail \/ Write \/ Unlock
    \/ PageFault \/ Trap \/ HandlerLogs \/ FaultReturns \/ FaultAborts
    \/ CrashAndBurn

Spec == Init /\ [][Next]_klogVars

-----------------------------------------------------------------------------
(* Properties *)

Printing == {"lock", "take", "leave", "head", "tail", "write", "unlock"}

Frames ==
    [fn : {"klog"}, at : Printing, was : BOOLEAN] \cup
    [fn : {"panic"}, at : Printing \cup {"nest", "crash"}, was : BOOLEAN] \cup
    [fn : {"fault"}, at : {"log", "handle", "crash"}, was : BOOLEAN] \cup
    [fn : {"trap"}, at : {"log", "crash"}, was : BOOLEAN]

TypeOK ==
    /\ stack \in Seq(Frames) /\ Depth <= MaxDepth
    /\ _log_buf \in [head : 0..MaxDepth, tail : 0..MaxDepth]
    /\ _lock \in BOOLEAN
    /\ intr \in BOOLEAN

\* While the lock word is set interrupts are disabled, however calls and exceptions nest:
\* what spin_lock and spin_unlock do to the two keeps them in step (spin.h:18-36).
LockMeansOff == _lock => ~intr

\* klog.h:7 "Write a log message": what reaches the serial line is the message that was
\* formatted, no other call having used the buffer in between.
MessagesIntact ==
    [][Write => _log_buf.head = Depth /\ _log_buf.tail = Depth]_klogVars

\* spin.h:30 "Release a spinlock. If interrupts were enabled before locking, enable
\* interrupts": after the release the flag is what it was at the printer's call.
UnlockRestores == [][Unlock => intr' = Top.was]_klogVars

\* spin.h:25 "Acquire a spinlock, disabling interrupts when it has been acquired": who is
\* past the lock, and not yet at the end of its section, has interrupts disabled.
InSection == Depth > 0 /\ Top.fn \in Printers /\ Top.at \in {"nest", "head", "tail", "write", "unlock"}
SectionIsQuiet == InSection => ~intr
=============================================================================
