------------------------------ MODULE SpinSmp -------------------------------
(***************************************************************************)
(* The spinlock for SMP systems, kernel/arch/x86_64/spin.asm.              *)
(*                                                                         *)
(* Every CPU runs a task, which an interrupt handler may interrupt while    *)
(* the CPU's interrupt flag is set; both may use the lock.  An action is    *)
(* one access to the lock word with the instructions that only touch the    *)
(* CPU itself.  (sti takes effect after the instruction that follows it.)   *)
(***************************************************************************)
EXTENDS Integers

CONSTANTS
    Cpus,
    Handlers     \* do interrupt handlers use the lock (by spin_lock_intsafe)?

ASSUME SmpAssumption == Handlers \in BOOLEAN

Threads == Cpus \X {"task", "handler"}

VARIABLES
    lock,       \* bits that are set in the lock word: 0 is held, 1 is restore interrupts
    pc,         \* thread -> where it is
    flags,      \* thread -> the interrupt flag that pushf saved in rax
    restore,    \* thread -> what spin_unlock's test found
    intr,       \* CPU -> its interrupt flag
    handling    \* CPUs that execute their handler

smpVars == <<lock, pc, flags, restore, intr, handling>>

Cpu(t) == t[1]
IsHandler(t) == t[2] = "handler"

\* A task does not run while its CPU handles an interrupt.
Runs(t) == IsHandler(t) <=> Cpu(t) \in handling

At(t, where) == Runs(t) /\ pc[t] = where
Goto(t, where) == pc' = [pc EXCEPT ![t] = where]
SetIntr(t, on) == intr' = [intr EXCEPT ![Cpu(t)] = on]

-----------------------------------------------------------------------------
(* spin_lock *)

\* A task that shares the lock with handlers takes it this way with interrupts off only.
CallPlain(t) ==
    /\ At(t, "out") /\ ~IsHandler(t)
    /\ Handlers => ~intr[Cpu(t)]
    /\ Goto(t, "bts")
    /\ UNCHANGED <<lock, flags, restore, intr, handling>>

\* lock bts: the bit is set, and what it was decides.
Bts(t) ==
    /\ At(t, "bts")
    /\ lock' = lock \cup {0}
    /\ Goto(t, IF 0 \in lock THEN "poll" ELSE "in")
    /\ UNCHANGED <<flags, restore, intr, handling>>

\* pause; bt, again while the bit is set.
Poll(t) ==
    /\ At(t, "poll")
    /\ Goto(t, IF 0 \in lock THEN "poll" ELSE "bts")
    /\ UNCHANGED <<lock, flags, restore, intr, handling>>

-----------------------------------------------------------------------------
(* spin_lock_intsafe *)

\* pushf; pop rax; cli: of tasks with interrupts on, as kinit.c:130-132, or off.
CallIntsafe(t) ==
    /\ At(t, "out")
    /\ flags' = [flags EXCEPT ![t] = intr[Cpu(t)]]
    /\ SetIntr(t, FALSE)
    /\ Goto(t, "int_bts")
    /\ UNCHANGED <<lock, restore, handling>>

\* The form of IntsafeBts without the cli before it.
IntsafeBtsNoCli(t) ==
    /\ At(t, "int_bts")
    /\ lock' = lock \cup {0}
    /\ IF 0 \in lock
       THEN Goto(t, "int_poll") /\ SetIntr(t, TRUE)
       ELSE Goto(t, "mark") /\ UNCHANGED intr
    /\ UNCHANGED <<flags, restore, handling>>

\* cli; lock bts; a failure enables interrupts whatever they were (sti, l.37).
IntsafeBts(t) ==
    /\ At(t, "int_bts")
    /\ lock' = lock \cup {0}
    /\ IF 0 \in lock
       THEN Goto(t, "int_poll") /\ SetIntr(t, TRUE)
       ELSE Goto(t, "mark") /\ SetIntr(t, FALSE)
    /\ UNCHANGED <<flags, restore, handling>>

\* pause; bt, as Poll, with interrupts enabled.
IntsafePoll(t) ==
    /\ At(t, "int_poll")
    /\ Goto(t, IF 0 \in lock THEN "int_poll" ELSE "int_bts")
    /\ UNCHANGED <<lock, flags, restore, intr, handling>>

\* test ah, 2; and dword [rdi], 2
Mark(t) ==
    /\ At(t, "mark")
    /\ lock' = IF flags[t] THEN lock \cap {1} ELSE lock
    /\ Goto(t, "in")
    /\ UNCHANGED <<flags, restore, intr, handling>>

-----------------------------------------------------------------------------
(* spin_unlock *)

UnlockTest(t) ==
    /\ At(t, "in")
    /\ restore' = [restore EXCEPT ![t] = 1 \in lock]
    /\ Goto(t, "release")
    /\ UNCHANGED <<lock, flags, intr, handling>>

\* The form of Release that clears the bit for interrupts only.
ReleaseKeeps(t) ==
    /\ At(t, "release")
    /\ lock' = lock \ {1}
    /\ IF restore[t] THEN SetIntr(t, TRUE) ELSE UNCHANGED intr
    /\ Goto(t, "out")
    /\ UNCHANGED <<flags, restore, handling>>

\* sti if so; mov dword [rdi], 0
Release(t) ==
    /\ At(t, "release")
    /\ lock' = {}
    /\ IF restore[t] THEN SetIntr(t, TRUE) ELSE UNCHANGED intr
    /\ Goto(t, "out")
    /\ UNCHANGED <<flags, restore, handling>>

-----------------------------------------------------------------------------
\* A task that is in no call enables or disables its interrupts.
TaskFlag(t) ==
    /\ At(t, "out") /\ ~IsHandler(t)
    /\ SetIntr(t, ~intr[Cpu(t)])
    /\ UNCHANGED <<lock, pc, flags, restore, handling>>

(* Interrupts: an interrupt gate clears the flag, iret restores it.  One handler at a
   time on a CPU: a handler that polls is not interrupted in its turn. *)

Interrupt(c) ==
    /\ Handlers
    /\ c \notin handling /\ intr[c]
    /\ handling' = handling \cup {c}
    /\ intr' = [intr EXCEPT ![c] = FALSE]
    /\ UNCHANGED <<lock, pc, flags, restore>>

Iret(c) ==
    /\ c \in handling /\ pc[<<c, "handler">>] = "out"
    /\ handling' = handling \ {c}
    /\ intr' = [intr EXCEPT ![c] = TRUE]
    /\ UNCHANGED <<lock, pc, flags, restore>>

Init ==
    /\ lock = {}
    /\ pc = [t \in Threads |-> "out"]
    /\ flags = [t \in Threads |-> FALSE]
    /\ restore = [t \in Threads |-> FALSE]
    /\ intr \in [Cpus -> BOOLEAN]
    /\ handling = {}

\* What a thread does once it has called a lock operation, up to its return.
LockStep(t) ==
    \/ Bts(t) \/ Poll(t)
    \/ IntsafeBts(t) \/ IntsafePoll(t) \/ Mark(t)
    \/ UnlockTest(t) \/ Release(t)

Next ==
    \/ \E t \in Threads : CallPlain(t) \/ CallIntsafe(t) \/ TaskFlag(t) \/ LockStep(t)
    \/ \E c \in Cpus : Interrupt(c) \/ Iret(c)

\* Every CPU goes on executing; whoever holds the lock releases it; handlers end.  A task
\* that is interrupted again and again executes in between, which takes strong fairness.
Spec ==
    /\ Init /\ [][Next]_smpVars
    /\ \A t \in Threads : SF_smpVars(LockStep(t))
    /\ \A c \in Cpus : WF_smpVars(Iret(c))

-----------------------------------------------------------------------------
(* Properties *)

Pcs == {"out", "bts", "poll", "int_bts", "int_poll", "mark", "in", "release"}

TypeOK ==
    /\ lock \subseteq {0, 1}
    /\ pc \in [Threads -> Pcs]
    /\ flags \in [Threads -> BOOLEAN]
    /\ restore \in [Threads -> BOOLEAN]
    /\ intr \in [Cpus -> BOOLEAN]
    /\ handling \subseteq Cpus

\* Between acquisition and release.
Owning == {"mark", "in", "release"}
Owns(t) == pc[t] \in Owning

\* At most one thread is between the acquisition of the lock and its release.  That is
\* what spin.asm:48 leaves true by its comment, "Set bit 1 to denote that interrupts were
\* enabled"; its `and' clears bit 0.
MutualExclusion == \A t, u \in Threads : Owns(t) /\ Owns(u) => t = u

\* A handler never interrupts a task that is between acquisition and release, for which
\* it could wait for ever: acquiring leaves interrupts off up to the release, however the
\* task was called and polled, and whatever becomes of the lock word (spin.asm:33-43, 55-59).
NoSelfDeadlock ==
    \A c \in handling : ~Owns(<<c, "task">>)

\* A lock that is free does not stay so while someone wants it: polling threads do not
\* keep each other out, nor handlers the tasks they interrupt (spin.asm:16-22, 35-45).
Waiting(t) == pc[t] \in {"bts", "poll", "int_bts", "int_poll"}
LockIsTaken == (\E t \in Threads : Waiting(t)) ~> (\E t \in Threads : Owns(t))

\* A thread that had interrupts enabled has them enabled after spin_unlock, which is
\* spin.asm:55 "Check if interrupts were enabled before locking".
InterruptsComeBack ==
    [][\A t \in Threads : Release(t) /\ flags[t] => intr'[Cpu(t)]]_smpVars
=============================================================================
