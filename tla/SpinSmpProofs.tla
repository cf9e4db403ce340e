---------------------------- MODULE SpinSmpProofs ---------------------------
(***************************************************************************)
(* What the interrupt-safe half of spin.asm is for holds for any number of  *)
(* CPUs, with tasks that run with interrupts on or off, although the lock   *)
(* word does not keep threads apart: no handler interrupts a holder.        *)
(***************************************************************************)
EXTENDS SpinSmp, TLAPS

-----------------------------------------------------------------------------
(* The inductive invariant *)

\* Where a task may be interrupted: in no call, or between two attempts of an intsafe one.
Interruptible == {"out", "int_poll", "int_bts"}

\* A handler found its task there; one that does not run is in no call.
HandlersInterruptPolls ==
    /\ \A c \in handling : Handlers /\ pc[<<c, "task">>] \in Interruptible
    /\ \A c \in Cpus \ handling : pc[<<c, "handler">>] = "out"

\* Anywhere else a task runs with interrupts off, if handlers use the lock.
OffOutsidePolls ==
    Handlers => \A c \in Cpus \ handling :
        pc[<<c, "task">>] \notin Interruptible => ~intr[c]

IInv == TypeOK /\ HandlersInterruptPolls /\ OffOutsidePolls

-----------------------------------------------------------------------------

\* A thread is the task or the handler of its CPU, and runs or not accordingly.
LEMMA ThreadOfCpu ==
    ASSUME NEW t \in Threads
    PROVE  /\ Cpu(t) \in Cpus
           /\ t = <<Cpu(t), "task">> \/ t = <<Cpu(t), "handler">>
           /\ IsHandler(t) <=> t = <<Cpu(t), "handler">>
  BY DEF Threads, Cpu, IsHandler

LEMMA CpuHasThreads ==
    ASSUME NEW c \in Cpus
    PROVE  /\ <<c, "task">> \in Threads /\ <<c, "handler">> \in Threads
           /\ Cpu(<<c, "task">>) = c /\ Cpu(<<c, "handler">>) = c
           /\ ~IsHandler(<<c, "task">>) /\ IsHandler(<<c, "handler">>)
  BY DEF Threads, Cpu, IsHandler

LEMMA InitIInv ==
    ASSUME Init, SmpAssumption
    PROVE  IInv
<1>1. TypeOK
  BY DEF Init, TypeOK, Pcs
<1>2. HandlersInterruptPolls /\ OffOutsidePolls
  BY CpuHasThreads DEF Init, HandlersInterruptPolls, OffOutsidePolls, Interruptible
<1> QED
  BY <1>1, <1>2 DEF IInv

-----------------------------------------------------------------------------
(* Steps *)

\* A step preserves the types.
LEMMA TypeStep ==
    ASSUME SmpAssumption, TypeOK, [Next]_smpVars
    PROVE  TypeOK'
<1> USE DEF TypeOK, Pcs, Goto, SetIntr
<1>1. ASSUME NEW t \in Threads, CallPlain(t) \/ CallIntsafe(t) \/ TaskFlag(t)
      PROVE  TypeOK'
  BY <1>1, ThreadOfCpu DEF CallPlain, CallIntsafe, TaskFlag
<1>2. ASSUME NEW t \in Threads, Bts(t) \/ Poll(t)
      PROVE  TypeOK'
  BY <1>2 DEF Bts, Poll
<1>3. ASSUME NEW t \in Threads, IntsafeBts(t) \/ IntsafePoll(t) \/ Mark(t)
      PROVE  TypeOK'
  BY <1>3 DEF IntsafeBts, IntsafePoll, Mark
<1>4. ASSUME NEW t \in Threads, UnlockTest(t) \/ Release(t)
      PROVE  TypeOK'
  <2>1. CASE UnlockTest(t)
    <3>1. (1 \in lock) \in BOOLEAN
      OBVIOUS
    <3>2. restore' \in [Threads -> BOOLEAN]
      BY <2>1, <3>1 DEF UnlockTest
    <3> QED
      BY <2>1, <3>2 DEF UnlockTest
  <2>2. CASE Release(t)
    <3>1. lock' \subseteq {0, 1} /\ pc' \in [Threads -> Pcs]
      BY <2>2 DEF Release
    <3>2. intr' \in [Cpus -> BOOLEAN]
      BY <2>2, ThreadOfCpu DEF Release
    <3> QED
      BY <2>2, <3>1, <3>2 DEF Release
  <2> QED
    BY <1>4, <2>1, <2>2
<1>5. ASSUME NEW c \in Cpus, Interrupt(c) \/ Iret(c)
      PROVE  TypeOK'
  BY <1>5 DEF Interrupt, Iret
<1>6. CASE UNCHANGED smpVars
  BY <1>6 DEF smpVars
<1> QED
  BY <1>1, <1>2, <1>3, <1>4, <1>5, <1>6 DEF Next, LockStep

\* A step of a running thread that leaves who handles alone keeps the rest, if a task that
\* goes where it may not be interrupted has interrupts off there.
LEMMA ThreadStep ==
    ASSUME IInv, NEW t \in Threads, Runs(t), NEW where \in Pcs, Goto(t, where),
           UNCHANGED handling,
           NEW on \in BOOLEAN, SetIntr(t, on),
           Handlers /\ ~IsHandler(t) /\ where \notin Interruptible => ~on
    PROVE  HandlersInterruptPolls' /\ OffOutsidePolls'
<1> USE DEF IInv, TypeOK
<1>1. pc' \in [Threads -> Pcs] /\ pc'[t] = where
      /\ \A u \in Threads \ {t} : pc'[u] = pc[u]
  BY DEF Goto
<1>2. HandlersInterruptPolls'
  <2>1. \A c \in handling : <<c, "task">> # t
    BY CpuHasThreads DEF Runs
  <2>2. \A c \in Cpus \ handling : <<c, "handler">> # t
    BY CpuHasThreads DEF Runs
  <2> QED
    BY <1>1, <2>1, <2>2, CpuHasThreads DEF HandlersInterruptPolls
<1>3. OffOutsidePolls'
  <2> SUFFICES ASSUME Handlers, NEW c \in Cpus \ handling,
                      pc'[<<c, "task">>] \notin Interruptible
               PROVE  ~intr'[c]
    BY DEF OffOutsidePolls
  <2>1. CASE Cpu(t) # c
    <3>1. pc'[<<c, "task">>] = pc[<<c, "task">>] /\ intr'[c] = intr[c]
      BY <1>1, <2>1, CpuHasThreads, ThreadOfCpu DEF SetIntr
    <3> QED
      BY <3>1 DEF OffOutsidePolls
  <2>2. CASE Cpu(t) = c
    <3>1. t = <<c, "task">> /\ ~IsHandler(t)
      BY <2>2, ThreadOfCpu DEF Runs
    <3>2. intr'[c] = on
      BY <2>2 DEF SetIntr
    <3> QED
      BY <1>1, <3>1, <3>2
  <2> QED
    BY <2>1, <2>2
<1> QED
  BY <1>2, <1>3

\* The same where the step leaves the flag alone, too.
LEMMA QuietStep ==
    ASSUME IInv, NEW t \in Threads, Runs(t), NEW where \in Pcs, Goto(t, where),
           UNCHANGED <<handling, intr>>,
           \/ IsHandler(t) \/ where \in Interruptible
           \/ pc[t] \notin Interruptible
           \/ Handlers => ~intr[Cpu(t)]
    PROVE  HandlersInterruptPolls' /\ OffOutsidePolls'
<1>1. intr[Cpu(t)] \in BOOLEAN /\ SetIntr(t, intr[Cpu(t)])
  BY ThreadOfCpu DEF IInv, TypeOK, SetIntr
<1>2. Handlers /\ ~IsHandler(t) /\ pc[t] \notin Interruptible => ~intr[Cpu(t)]
  BY ThreadOfCpu DEF IInv, OffOutsidePolls, Runs
<1>3. Handlers /\ ~IsHandler(t) /\ where \notin Interruptible => ~intr[Cpu(t)]
  BY <1>2
<1> QED
  BY <1>1, <1>3, ThreadStep

\* Calls, and what a task does between them.
LEMMA CallStep ==
    ASSUME IInv, NEW t \in Threads, CallPlain(t) \/ CallIntsafe(t) \/ TaskFlag(t)
    PROVE  HandlersInterruptPolls' /\ OffOutsidePolls'
<1> USE DEF Pcs, Interruptible, At
<1>1. CASE CallPlain(t)
  BY <1>1, QuietStep DEF CallPlain
<1>2. CASE CallIntsafe(t)
  BY <1>2, ThreadStep DEF CallIntsafe
<1>3. CASE TaskFlag(t)
  <2>1. Goto(t, "out")
    BY <1>3 DEF TaskFlag, Goto, IInv, TypeOK
  <2>2. (~intr[Cpu(t)]) \in BOOLEAN
    BY ThreadOfCpu DEF IInv, TypeOK
  <2> QED
    BY <1>3, <2>1, <2>2, ThreadStep DEF TaskFlag
<1> QED
  BY <1>1, <1>2, <1>3

\* What follows in a call.
LEMMA CalledStep ==
    ASSUME IInv, NEW t \in Threads, LockStep(t)
    PROVE  HandlersInterruptPolls' /\ OffOutsidePolls'
<1> USE DEF Pcs, Interruptible, At
<1>1. CASE Bts(t)
  <2> DEFINE where == IF 0 \in lock THEN "poll" ELSE "in"
  <2>1. where \in Pcs /\ Goto(t, where)
    BY <1>1 DEF Bts
  <2> QED
    BY <1>1, <2>1, QuietStep DEF Bts
<1>2. CASE Poll(t)
  <2> DEFINE where == IF 0 \in lock THEN "poll" ELSE "bts"
  <2>1. where \in Pcs /\ Goto(t, where)
    BY <1>2 DEF Poll
  <2> QED
    BY <1>2, <2>1, QuietStep DEF Poll
<1>3. CASE IntsafeBts(t)
  <2>1. CASE 0 \in lock
    BY <1>3, <2>1, ThreadStep DEF IntsafeBts
  <2>2. CASE 0 \notin lock
    BY <1>3, <2>2, ThreadStep DEF IntsafeBts
  <2> QED
    BY <2>1, <2>2
<1>4. CASE IntsafePoll(t)
  <2> DEFINE where == IF 0 \in lock THEN "int_poll" ELSE "int_bts"
  <2>1. where \in Pcs /\ Goto(t, where)
    BY <1>4 DEF IntsafePoll
  <2> QED
    BY <1>4, <2>1, QuietStep DEF IntsafePoll
<1>5. CASE Mark(t)
  BY <1>5, QuietStep DEF Mark
<1>6. CASE UnlockTest(t)
  BY <1>6, QuietStep DEF UnlockTest
<1>7. CASE Release(t)
  <2>1. CASE restore[t]
    BY <1>7, <2>1, ThreadStep DEF Release
  <2>2. CASE ~restore[t]
    BY <1>7, <2>2, QuietStep DEF Release
  <2> QED
    BY <2>1, <2>2
<1> QED
  BY <1>1, <1>2, <1>3, <1>4, <1>5, <1>6, <1>7 DEF LockStep

\* An interrupt, or its end.
LEMMA HandlerStep ==
    ASSUME IInv, NEW c \in Cpus, Interrupt(c) \/ Iret(c)
    PROVE  HandlersInterruptPolls' /\ OffOutsidePolls'
<1> USE DEF IInv, TypeOK
<1>1. CASE Interrupt(c)
  BY <1>1 DEF Interrupt, HandlersInterruptPolls, OffOutsidePolls
<1>2. CASE Iret(c)
  BY <1>2 DEF Iret, HandlersInterruptPolls, OffOutsidePolls
<1> QED
  BY <1>1, <1>2

-----------------------------------------------------------------------------
(* Theorems *)

\* The invariant holds in every state: types, who is interrupted where, and the flag of
\* every task that is in a call.
THEOREM LockInvariance ==
    ASSUME SmpAssumption
    PROVE  Spec => []IInv
<1>1. Init => IInv
  BY InitIInv
<1>2. IInv /\ [Next]_smpVars => IInv'
  <2> SUFFICES ASSUME IInv, [Next]_smpVars
               PROVE  IInv'
    OBVIOUS
  <2>1. TypeOK'
    BY TypeStep DEF IInv
  <2> DEFINE Rest == HandlersInterruptPolls /\ OffOutsidePolls
  <2>2. ASSUME NEW t \in Threads, CallPlain(t) \/ CallIntsafe(t) \/ TaskFlag(t) \/ LockStep(t)
        PROVE  Rest'
    BY <2>2, CallStep, CalledStep
  <2>3. ASSUME NEW c \in Cpus, Interrupt(c) \/ Iret(c)
        PROVE  Rest'
    BY <2>3, HandlerStep
  <2>4. ASSUME UNCHANGED smpVars
        PROVE  Rest'
    BY <2>4 DEF smpVars, IInv, HandlersInterruptPolls, OffOutsidePolls
  <2> QED
    BY <2>1, <2>2, <2>3, <2>4 DEF Next, IInv
<1> QED
  BY <1>1, <1>2, PTL DEF Spec

\* No handler interrupts a task between acquisition and release, for any set of CPUs and
\* whether tasks run with interrupts on or off (spin.asm:33-43, 55-59).
THEOREM HandlersDoNotDeadlock ==
    ASSUME SmpAssumption
    PROVE  Spec => []NoSelfDeadlock
<1>1. IInv => NoSelfDeadlock
  BY DEF IInv, HandlersInterruptPolls, NoSelfDeadlock, Owns, Interruptible, Owning
<1> QED
  BY <1>1, LockInvariance, PTL
=============================================================================
