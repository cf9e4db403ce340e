---------------------------- MODULE TimerProofs -----------------------------
(***************************************************************************)
(* Logging, alone (Klog) and under the timer (Timer), for any nesting, any  *)
(* lines and any number of ticks: the lock word and the interrupt flag stay *)
(* in step, klog gives its caller the interrupt flag back, and interrupts   *)
(* are served through controllers that were set up.                         *)
(***************************************************************************)
EXTENDS Timer, SequenceTheorems, TLAPS

-----------------------------------------------------------------------------
(* Who holds the lock of Klog *)

Section == {"nest", "head", "tail", "write", "unlock"}

\* An activation that has called spin_lock and not yet spin_unlock.
Locking(f) == f.fn \in Printers /\ f.at \in Section

-----------------------------------------------------------------------------
(* The inductive invariant of Klog *)

\* Somebody on the stack is to unlock.
Held(s) == \E i \in 1..Len(s) : Locking(s[i])

\* A fault that will enable interrupts on its return does so after the unlock: whoever
\* locked since is above it on the stack.
Since(s) ==
    \A i \in 1..Len(s) : s[i].fn = "fault" /\ s[i].was =>
        \E j \in 1..Len(s) : j > i /\ Locking(s[j])

StackAnswersForLock == _lock => Held(stack) /\ Since(stack)

IInv == TypeOK /\ LockMeansOff /\ StackAnswersForLock

-----------------------------------------------------------------------------
(* Stacks *)

\* The activation that executes moves on.
LEMMA Moved ==
    ASSUME stack \in Seq(Frames), Depth > 0, NEW at,
           [Top EXCEPT !.at = at] \in Frames
    PROVE  /\ MovedTo(at) \in Seq(Frames)
           /\ Len(MovedTo(at)) = Depth
           /\ MovedTo(at)[Depth] = [Top EXCEPT !.at = at]
           /\ \A i \in 1..(Depth - 1) : MovedTo(at)[i] = stack[i]
  BY DEF MovedTo, Depth, Top

\* An activation is added on top.
LEMMA Pushed ==
    ASSUME NEW s \in Seq(Frames), NEW f \in Frames
    PROVE  /\ Append(s, f) \in Seq(Frames)
           /\ Len(Append(s, f)) = Len(s) + 1
           /\ Append(s, f)[Len(s) + 1] = f
           /\ \A i \in 1..Len(s) : Append(s, f)[i] = s[i]
  OBVIOUS

\* The activation on top is removed.
LEMMA Popped ==
    ASSUME stack \in Seq(Frames), Depth > 0
    PROVE  /\ Below \in Seq(Frames)
           /\ Len(Below) = Depth - 1
           /\ \A i \in 1..(Depth - 1) : Below[i] = stack[i]
<1>1. Depth \in Nat \ {0} /\ \A i \in 1..(Depth - 1) : stack[i] \in Frames
  BY DEF Depth
<1>2. \A i \in 1..(Depth - 1) : 1 + i - 1 = i
  BY <1>1
<1> QED
  BY <1>1, <1>2, SubSeqProperties DEF Below

\* An activation that goes on, and does not unlock, holds as before.
LEMMA MovedHolds ==
    ASSUME stack \in Seq(Frames), Depth > 0, NEW at,
           [Top EXCEPT !.at = at] \in Frames,
           Locking(Top) => at \in Section
    PROVE  /\ Held(stack) => Held(MovedTo(at))
           /\ Since(stack) => Since(MovedTo(at))
<1> DEFINE s == MovedTo(at)
           f == [Top EXCEPT !.at = at]
<1>1. /\ Len(s) = Depth /\ s[Depth] = f /\ Depth \in Nat
      /\ \A i \in 1..(Depth - 1) : s[i] = stack[i]
  BY Moved DEF Depth
<1>2. Top \in Frames
  BY DEF Top, Depth
<1>3. f.fn = Top.fn /\ f.at = at /\ f.was = Top.was
  BY <1>2 DEF Frames
<1>4. \A i \in 1..Depth : /\ Locking(stack[i]) => Locking(s[i])
                          /\ s[i].fn = stack[i].fn /\ s[i].was = stack[i].was
  <2> SUFFICES ASSUME NEW i \in 1..Depth
               PROVE  /\ Locking(stack[i]) => Locking(s[i])
                      /\ s[i].fn = stack[i].fn /\ s[i].was = stack[i].was
    OBVIOUS
  <2>1. CASE i = Depth
    BY <1>1, <1>3, <2>1 DEF Locking, Top
  <2>2. CASE i < Depth
    BY <1>1, <2>2
  <2> QED
    BY <1>1, <2>1, <2>2
<1> HIDE DEF s, f
<1>5. Held(stack) => Held(s)
  BY <1>1, <1>4 DEF Held, Depth
<1>6. Since(stack) => Since(s)
  BY <1>1, <1>4 DEF Since, Depth
<1> QED
  BY <1>5, <1>6 DEF s

\* So does a stack on which an activation is pushed that is no fault to come back from
\* with interrupts enabled.
LEMMA PushedHolds ==
    ASSUME NEW s \in Seq(Frames), NEW f \in Frames,
           ~(f.fn = "fault" /\ f.was)
    PROVE  /\ Held(s) => Held(Append(s, f))
           /\ Since(s) => Since(Append(s, f))
<1> DEFINE t == Append(s, f)
<1>1. /\ Len(t) = Len(s) + 1 /\ t[Len(s) + 1] = f /\ Len(s) \in Nat
      /\ \A i \in 1..Len(s) : t[i] = s[i]
  BY Pushed
<1> HIDE DEF t
<1>2. Held(s) => Held(t)
  BY <1>1 DEF Held
<1>3. Since(s) => Since(t)
  <2> SUFFICES ASSUME Since(s), NEW i \in 1..Len(t), t[i].fn = "fault", t[i].was
               PROVE  \E j \in 1..Len(t) : j > i /\ Locking(t[j])
    BY DEF Since
  <2>1. i \in 1..Len(s) /\ s[i].fn = "fault" /\ s[i].was
    BY <1>1
  <2>2. PICK j \in 1..Len(s) : j > i /\ Locking(s[j])
    BY <2>1 DEF Since
  <2> QED
    BY <1>1, <2>2
<1> QED
  BY <1>2, <1>3 DEF t

\* And one from which an activation is removed that did not hold the lock.
LEMMA PoppedHolds ==
    ASSUME stack \in Seq(Frames), Depth > 0, ~Locking(Top)
    PROVE  /\ Held(stack) => Held(Below)
           /\ Since(stack) => Since(Below)
<1>1. /\ Len(Below) = Depth - 1 /\ Depth \in Nat
      /\ \A i \in 1..(Depth - 1) : Below[i] = stack[i]
  BY Popped DEF Depth
<1>2. \A j \in 1..Depth : Locking(stack[j]) => j \in 1..(Depth - 1)
  BY <1>1 DEF Top
<1>3. Held(stack) => Held(Below)
  BY <1>1, <1>2 DEF Held, Depth
<1>4. Since(stack) => Since(Below)
  <2> SUFFICES ASSUME Since(stack), NEW i \in 1..(Depth - 1),
                      stack[i].fn = "fault", stack[i].was
               PROVE  \E j \in 1..(Depth - 1) : j > i /\ Locking(Below[j])
    BY <1>1 DEF Since
  <2>1. PICK j \in 1..Depth : j > i /\ Locking(stack[j])
    BY <1>1 DEF Since, Depth
  <2> QED
    BY <1>1, <1>2, <2>1
<1> QED
  BY <1>3, <1>4

-----------------------------------------------------------------------------
(* Steps of Klog *)

LEMMA InitIInv ==
    ASSUME Init
    PROVE  IInv
<1>1. stack \in Seq(Frames) /\ Depth = 0
  BY DEF Init, Depth
<1>2. 0 \in 0..MaxDepth /\ 0 <= MaxDepth
  BY KlogAssumption DEF KlogAssumption
<1>3. TypeOK
  BY <1>1, <1>2 DEF Init, TypeOK
<1> QED
  BY <1>3 DEF Init, IInv, LockMeansOff, StackAnswersForLock

\* The executing activation moves on without touching the lock word or the flag.
LEMMA MoveStep ==
    ASSUME IInv, Depth > 0, NEW at, [Top EXCEPT !.at = at] \in Frames,
           Locking(Top) => at \in Section,
           stack' = MovedTo(at), UNCHANGED <<_lock, intr>>,
           _log_buf' \in [head : 0..MaxDepth, tail : 0..MaxDepth]
    PROVE  IInv'
<1>1. stack' \in Seq(Frames) /\ Depth' = Depth
  BY Moved DEF IInv, TypeOK, Depth
<1>2. _lock' => Held(stack') /\ Since(stack')
  BY MovedHolds DEF IInv, TypeOK, StackAnswersForLock
<1> QED
  BY <1>1, <1>2 DEF IInv, TypeOK, LockMeansOff, StackAnswersForLock

\* It moves on and calls klog or __panic.
LEMMA CallStep ==
    ASSUME IInv, Depth > 0, Depth < MaxDepth, NEW at, [Top EXCEPT !.at = at] \in Frames,
           Locking(Top) => at \in Section, NEW fn \in Printers,
           stack' = Append(MovedTo(at), Frame(fn, "lock", intr)),
           UNCHANGED <<_log_buf, _lock, intr>>
    PROVE  IInv'
<1>1. Frame(fn, "lock", intr) \in Frames /\ fn # "fault"
  BY DEF IInv, TypeOK, Frame, Frames, Printers, Printing
<1>2. Frame(fn, "lock", intr).fn # "fault"
  BY <1>1 DEF Frame
<1>3. MovedTo(at) \in Seq(Frames) /\ Len(MovedTo(at)) = Depth
  BY Moved DEF IInv, TypeOK
<1>4. stack' \in Seq(Frames) /\ Depth' = Depth + 1
  BY <1>1, <1>3, Pushed DEF Depth
<1>5. _lock' => Held(stack') /\ Since(stack')
  BY <1>1, <1>2, <1>3, MovedHolds, PushedHolds DEF IInv, TypeOK, StackAnswersForLock
<1>6. Depth \in Nat /\ (MaxDepth \in Nat => Depth + 1 <= MaxDepth)
  BY DEF Depth, IInv, TypeOK
<1> QED
  BY <1>4, <1>5, <1>6, KlogAssumption DEF IInv, TypeOK, LockMeansOff, StackAnswersForLock, KlogAssumption

\* A handler is entered by an interrupt gate.
LEMMA EnterStep ==
    ASSUME IInv, NEW fn \in Handlers, Enter(fn)
    PROVE  IInv'
<1> DEFINE f == Frame(fn, "log", intr)
<1>1. f \in Frames /\ f.was = intr
  BY DEF IInv, TypeOK, Frame, Frames, Handlers
<1>2. stack \in Seq(Frames) /\ stack' = Append(stack, f)
  BY DEF Enter, IInv, TypeOK
<1> HIDE DEF f
<1>3. stack' \in Seq(Frames) /\ Depth' = Depth + 1
  BY <1>1, <1>2, Pushed DEF Depth
<1>4. _lock' => Held(stack') /\ Since(stack')
  <2> SUFFICES ASSUME _lock'
               PROVE  Held(stack') /\ Since(stack')
    OBVIOUS
  <2>1. _lock /\ ~intr
    BY DEF Enter, IInv, LockMeansOff
  <2>2. Held(stack) /\ Since(stack)
    BY <2>1 DEF IInv, StackAnswersForLock
  <2> QED
    BY <1>1, <1>2, <2>1, <2>2, PushedHolds
<1>5. Depth + 1 <= MaxDepth
  BY KlogAssumption DEF Enter, Depth, IInv, TypeOK, KlogAssumption
<1>6. _lock' \in BOOLEAN /\ intr' = FALSE
      /\ _log_buf' \in [head : 0..MaxDepth, tail : 0..MaxDepth]
  BY DEF Enter, IInv, TypeOK
<1> QED
  BY <1>3, <1>4, <1>5, <1>6 DEF IInv, TypeOK, LockMeansOff, StackAnswersForLock

\* spin_lock takes the lock: whoever locks is on top, above every fault.
LEMMA LockStep ==
    ASSUME IInv, Lock
    PROVE  IInv'
<1> DEFINE at == AfterLock(Top.fn)
<1>1. Depth > 0 /\ Depth \in Nat /\ Top \in Frames /\ Top.at = "take" /\ Top.fn \in Printers
  BY DEF Lock, TopIs, Depth, Top, IInv, TypeOK
<1>2. [Top EXCEPT !.at = at] \in Frames
  BY <1>1 DEF Frames, Printers, Printing, AfterLock
<1>3. /\ stack' \in Seq(Frames) /\ Depth' = Depth
      /\ stack'[Depth] = [Top EXCEPT !.at = at]
      /\ \A i \in 1..(Depth - 1) : stack'[i] = stack[i]
  BY <1>1, <1>2, Moved DEF Lock, Depth, IInv, TypeOK
<1>4. Locking(stack'[Depth]) /\ stack'[Depth].fn # "fault"
  BY <1>1, <1>2, <1>3 DEF Locking, Section, AfterLock, Printers, Frames
<1>5. Held(stack')
  BY <1>1, <1>3, <1>4 DEF Held, Depth
<1>6. Since(stack')
  <2>1. Len(stack') = Depth
    BY <1>3 DEF Depth
  <2> SUFFICES ASSUME NEW i \in 1..Len(stack'), stack'[i].fn = "fault"
               PROVE  \E j \in 1..Len(stack') : j > i /\ Locking(stack'[j])
    BY DEF Since
  <2>2. Depth \in 1..Len(stack') /\ Depth > i
    BY <1>1, <1>4, <2>1
  <2> QED
    BY <1>4, <2>2
<1>7. intr' = FALSE /\ _lock' \in BOOLEAN /\ _log_buf' = _log_buf
  BY DEF Lock, IInv, TypeOK
<1> QED
  BY <1>3, <1>5, <1>6, <1>7 DEF IInv, TypeOK, LockMeansOff, StackAnswersForLock

\* spin_unlock, as Unlock: nothing is left locked.
LEMMA UnlockStep ==
    ASSUME IInv, Unlock
    PROVE  IInv'
<1>1. Depth > 0 /\ Depth \in Nat /\ Top \in Frames /\ Top.at = "unlock" /\ Top.fn \in Printers
  BY DEF Unlock, TopIs, Depth, Top, IInv, TypeOK
<1>2. stack' \in Seq(Frames) /\ Depth' <= Depth
  <2>1. CASE Top.fn = "klog"
    BY <1>1, <2>1, Popped DEF Unlock, Returned, Depth, IInv, TypeOK
  <2>2. CASE Top.fn = "panic"
    <3>1. [Top EXCEPT !.at = "crash"] \in Frames
      BY <1>1, <2>2 DEF Frames, Printing
    <3> QED
      BY <1>1, <2>2, <3>1, Moved DEF Unlock, Returned, Depth, IInv, TypeOK
  <2> QED
    BY <1>1, <2>1, <2>2 DEF Printers
<1>3. Depth' <= MaxDepth
  BY <1>1, <1>2, KlogAssumption DEF IInv, TypeOK, KlogAssumption, Depth
<1>4. _lock' = FALSE /\ intr' \in BOOLEAN /\ _log_buf' = _log_buf
  BY DEF Unlock, IInv, TypeOK
<1> QED
  BY <1>2, <1>3, <1>4 DEF IInv, TypeOK, LockMeansOff, StackAnswersForLock

\* A fault returns: if that enables interrupts, nobody below had the lock word set.
LEMMA FaultReturnStep ==
    ASSUME IInv, FaultReturns
    PROVE  IInv'
<1>1. Depth > 0 /\ Depth \in Nat /\ Top \in Frames /\ Top.fn = "fault" /\ stack \in Seq(Frames)
  BY DEF FaultReturns, TopIs, Depth, Top, IInv, TypeOK
<1>2. ~Locking(Top)
  BY <1>1 DEF Locking, Printers
<1>3. stack' \in Seq(Frames) /\ Depth' = Depth - 1
  BY <1>1, Popped DEF FaultReturns, Depth
<1>4. _lock' => Held(stack') /\ Since(stack')
  BY <1>1, <1>2, PoppedHolds DEF FaultReturns, IInv, StackAnswersForLock
<1>5. _lock => ~Top.was
  <2> SUFFICES ASSUME _lock, Top.was
               PROVE  FALSE
    OBVIOUS
  <2>1. \E j \in 1..Depth : j > Depth /\ Locking(stack[j])
    BY <1>1 DEF IInv, StackAnswersForLock, Since, Top, Depth
  <2> QED
    BY <1>1, <2>1
<1>6. Depth' <= MaxDepth
  BY <1>1, <1>3, KlogAssumption DEF IInv, TypeOK, KlogAssumption
<1>7. Top.was \in BOOLEAN
  BY <1>1 DEF Frames
<1>8. _lock' = _lock /\ intr' = Top.was /\ _log_buf' = _log_buf
  BY DEF FaultReturns
<1> QED
  BY <1>3, <1>4, <1>5, <1>6, <1>7, <1>8 DEF IInv, TypeOK, LockMeansOff, StackAnswersForLock

\* Code that is no part of the module calls klog or __panic: nothing is locked then.
LEMMA FirstCallStep ==
    ASSUME IInv, NEW fn \in Printers, Call(fn)
    PROVE  IInv'
<1> DEFINE f == Frame(fn, "lock", intr)
<1>1. f \in Frames
  BY DEF IInv, TypeOK, Frame, Frames, Printers, Printing
<1>2. ~_lock
  BY DEF Call, IInv, StackAnswersForLock, Held
<1>3. stack' = <<f>> /\ _lock' = _lock /\ intr' = intr /\ _log_buf' = _log_buf
  BY DEF Call
<1> HIDE DEF f
<1>4. stack' \in Seq(Frames) /\ Depth' = 1
  BY <1>1, <1>3 DEF Depth
<1>5. 1 <= MaxDepth
  BY KlogAssumption DEF KlogAssumption
<1> QED
  BY <1>2, <1>3, <1>4, <1>5 DEF IInv, TypeOK, LockMeansOff, StackAnswersForLock

\* Steps that change the flag and nothing else.
LEMMA FlagStep ==
    ASSUME IInv, EnableInterrupts \/ CrashAndBurn
    PROVE  IInv'
<1>1. EnableInterrupts => ~_lock
  BY DEF EnableInterrupts, IInv, StackAnswersForLock, Held
<1>2. UNCHANGED <<stack, _log_buf, _lock>> /\ intr' \in BOOLEAN /\ (_lock => ~intr')
  BY <1>1 DEF EnableInterrupts, CrashAndBurn
<1>3. Depth' = Depth
  BY <1>2 DEF Depth
<1> QED
  BY <1>2, <1>3 DEF IInv, TypeOK, LockMeansOff, StackAnswersForLock

\* The steps of printing up to spin_unlock that change neither the lock word nor the flag.
LEMMA PrintStep ==
    ASSUME IInv, ReadFlags \/ LeaveLock \/ Nest \/ FormatHead \/ FormatTail \/ Write
    PROVE  IInv'
<1>1. /\ Depth > 0 /\ Depth \in Nat /\ Depth <= MaxDepth /\ Top \in Frames
      /\ MaxDepth \in Nat /\ Top.fn \in Printers
      /\ _log_buf \in [head : 0..MaxDepth, tail : 0..MaxDepth]
  BY KlogAssumption DEF ReadFlags, LeaveLock, Nest, FormatHead, FormatTail, Write, TopIs,
                        Depth, Top, IInv, TypeOK, KlogAssumption, Printers
<1>2. \A at \in {"head", "tail", "write", "unlock"} :
         [Top EXCEPT !.at = at] \in Frames /\ at \in Section
  BY <1>1 DEF Frames, Printers, Printing, Section
<1>3. CASE Nest
  BY <1>1, <1>2, <1>3, CallStep DEF Nest, Printers
<1>4. CASE FormatHead
  BY <1>1, <1>2, <1>4, MoveStep DEF FormatHead
<1>5. CASE FormatTail
  BY <1>1, <1>2, <1>5, MoveStep DEF FormatTail
<1>6. CASE Write
  BY <1>1, <1>2, <1>6, MoveStep DEF Write
<1>7. CASE ReadFlags \/ LeaveLock
  <2>1. PICK at : stack' = MovedTo(at) /\ [Top EXCEPT !.at = at] \in Frames
    BY <1>1, <1>7 DEF ReadFlags, LeaveLock, AfterLock, Frames, Printers, Printing
  <2>2. ~Locking(Top) /\ UNCHANGED <<_log_buf, _lock, intr>>
    BY <1>7 DEF ReadFlags, LeaveLock, TopIs, Locking, Section
  <2> QED
    BY <1>1, <2>1, <2>2, MoveStep
<1> QED
  BY <1>3, <1>4, <1>5, <1>6, <1>7

\* A handler calls klog or __panic.
LEMMA HandlerStep ==
    ASSUME IInv, HandlerLogs \/ FaultAborts
    PROVE  IInv'
<1>1. Depth > 0 /\ Depth \in Nat /\ Top \in Frames /\ Depth < MaxDepth
  BY DEF HandlerLogs, FaultAborts, TopIs, Depth, Top, IInv, TypeOK
<1>2. Top.fn \in Handlers /\ ~Locking(Top)
  BY DEF HandlerLogs, FaultAborts, TopIs, Handlers, Locking, Printers
<1>3. CASE HandlerLogs
  <2>1. [Top EXCEPT !.at = AfterLog(Top.fn)] \in Frames
    BY <1>1, <1>2 DEF Frames, Handlers, AfterLog
  <2> QED
    BY <1>1, <1>2, <1>3, <2>1, CallStep DEF HandlerLogs, Printers
<1>4. CASE FaultAborts
  <2>1. [Top EXCEPT !.at = "crash"] \in Frames
    BY <1>1, <1>2 DEF Frames, Handlers
  <2> QED
    BY <1>1, <1>2, <1>4, <2>1, CallStep DEF FaultAborts
<1> QED
  BY <1>3, <1>4

\* Every step of Klog.
LEMMA IInvStep ==
    ASSUME IInv, [Next]_klogVars
    PROVE  IInv'
<1>1. ASSUME NEW fn \in Printers, Call(fn)
      PROVE  IInv'
  BY <1>1, FirstCallStep
<1>2. CASE EnableInterrupts \/ CrashAndBurn
  BY <1>2, FlagStep
<1>3. CASE Lock
  BY <1>3, LockStep
<1>4. CASE Unlock
  BY <1>4, UnlockStep
<1>5. CASE ReadFlags \/ LeaveLock \/ Nest \/ FormatHead \/ FormatTail \/ Write
  BY <1>5, PrintStep
<1>6. CASE PageFault \/ Trap
  BY <1>6, EnterStep DEF PageFault, Trap, Handlers
<1>7. CASE HandlerLogs \/ FaultAborts
  BY <1>7, HandlerStep
<1>8. CASE FaultReturns
  BY <1>8, FaultReturnStep
<1>9. CASE UNCHANGED klogVars
  <2>1. UNCHANGED <<stack, _log_buf, _lock, intr>>
    BY <1>9 DEF klogVars
  <2>2. Depth' = Depth
    BY <2>1 DEF Depth
  <2> QED
    BY <2>1, <2>2 DEF IInv, TypeOK, LockMeansOff, StackAnswersForLock
<1> QED
  BY <1>1, <1>2, <1>3, <1>4, <1>5, <1>6, <1>7, <1>8, <1>9 DEF Next

-----------------------------------------------------------------------------
(* Klog without the timer *)

\* The invariant holds in every state.
THEOREM KlogInvariance == Spec => []IInv
<1>1. Init => IInv
  BY InitIInv
<1>2. IInv /\ [Next]_klogVars => IInv'
  BY IInvStep
<1> QED
  BY <1>1, <1>2, PTL DEF Spec

\* Types, for every bound on the nesting.
THEOREM KlogTypeCorrect == Spec => []TypeOK
<1>1. IInv => TypeOK
  BY DEF IInv
<1> QED
  BY <1>1, KlogInvariance, PTL

\* However deep calls, faults and traps nest, interrupts are off while the lock word is
\* set (spin.h:18-36).
THEOREM LockWordMeansOff == Spec => []LockMeansOff
<1>1. IInv => LockMeansOff
  BY DEF IInv
<1> QED
  BY <1>1, KlogInvariance, PTL

-----------------------------------------------------------------------------
(* Klog under the timer *)

\* What the flag needs: no argument of a message lies on a page that is still to be
\* allocated.
ArgumentsMapped == "arguments" \notin FaultsIn

\* An activation below one of a trap never executes again.
Ended(s, i) == \E j \in 1..Len(s) : j > i /\ s[j].fn = "trap"

-----------------------------------------------------------------------------
(* The inductive invariant under the timer *)

\* klog as called by running code or by the page fault handler.
Returns(s, i) == s[i].fn = "klog" /\ (i = 1 \/ s[i - 1].fn = "fault")

\* Such a klog executes, or never will again.
EndedOrTop(s) == \A i \in 1..Len(s) : Returns(s, i) => Ended(s, i) \/ i = Len(s)

\* What the lock word and the flag are while it executes.  (A tick that has changed the flags
\* that it read has it run with interrupts enabled, and the lock word clear.)
KeepsFlag(f) ==
    /\ f.at \in Called => ~_lock
    /\ f.at = "take" => f.was
    /\ IF _lock THEN f.was /\ ~intr /\ ~inTick ELSE (intr \/ inTick) <=> f.was

FaultUnlocked(f) == f.fn = "fault" /\ f.at \in {"log", "handle"} => ~_lock

FlagsAnswer ==
    lost = "nothing" =>
        /\ EndedOrTop(stack)
        /\ Depth > 0 /\ Returns(stack, Depth) => KeepsFlag(Top)
        /\ Depth > 0 => FaultUnlocked(Top)

TickInv ==
    /\ inTick \in BOOLEAN
    /\ lost \in {"nothing", "arguments", "work"}
    /\ inTick => ~_lock

TInv == IInv /\ TickInv

RInv == TInv /\ FlagsAnswer

-----------------------------------------------------------------------------
(* What is above an activation *)

\* The executing activation moves on: what ends below it stays ended.
LEMMA EndedMoved ==
    ASSUME stack \in Seq(Frames), Depth > 0, NEW at, [Top EXCEPT !.at = at] \in Frames,
           NEW i \in Nat, Ended(stack, i)
    PROVE  Ended(MovedTo(at), i)
<1>1. /\ Len(MovedTo(at)) = Depth /\ Depth \in Nat
      /\ MovedTo(at)[Depth] = [Top EXCEPT !.at = at]
      /\ \A j \in 1..(Depth - 1) : MovedTo(at)[j] = stack[j]
  BY Moved DEF Depth
<1>2. Top \in Frames
  BY DEF Top, Depth
<1>3. PICK j \in 1..Depth : j > i /\ stack[j].fn = "trap"
  BY DEF Ended, Depth
<1>4. MovedTo(at)[j].fn = "trap"
  <2>1. CASE j = Depth
    BY <1>1, <1>2, <1>3, <2>1 DEF Top, Frames
  <2>2. CASE j < Depth
    BY <1>1, <1>3, <2>2
  <2> QED
    BY <1>1, <2>1, <2>2
<1> QED
  BY <1>1, <1>3, <1>4 DEF Ended

\* So does what ends below one that is added.
LEMMA EndedPushed ==
    ASSUME NEW s \in Seq(Frames), NEW f \in Frames, NEW i \in Nat, Ended(s, i)
    PROVE  Ended(Append(s, f), i)
<1>1. /\ Len(Append(s, f)) = Len(s) + 1 /\ Len(s) \in Nat
      /\ \A j \in 1..Len(s) : Append(s, f)[j] = s[j]
  BY Pushed
<1>2. PICK j \in 1..Len(s) : j > i /\ s[j].fn = "trap"
  BY DEF Ended
<1> QED
  BY <1>1, <1>2 DEF Ended

\* And below one that is removed, unless that is the trap.
LEMMA EndedPopped ==
    ASSUME stack \in Seq(Frames), Depth > 0, Top.fn # "trap", NEW i \in Nat,
           Ended(stack, i)
    PROVE  i < Depth - 1 /\ Ended(Below, i)
<1>1. /\ Len(Below) = Depth - 1 /\ Depth \in Nat
      /\ \A j \in 1..(Depth - 1) : Below[j] = stack[j]
  BY Popped DEF Depth
<1>2. PICK j \in 1..Depth : j > i /\ stack[j].fn = "trap"
  BY DEF Ended, Depth
<1>3. j \in 1..(Depth - 1)
  BY <1>1, <1>2 DEF Top
<1> QED
  BY <1>1, <1>2, <1>3 DEF Ended

-----------------------------------------------------------------------------
(* The flag *)

\* What Klog does under the timer.
KlogStep ==
    \/ ReadFlags \/ Lock \/ LeaveLock \/ Nest \/ FormatHead \/ FormatTail \/ Write \/ Unlock
    \/ HandlerLogs \/ FaultAborts \/ FaultReturns \/ CrashAndBurn \/ EnableInterrupts
    \/ Enter("trap") \/ PageFault \/ \E fn \in Printers : Call(fn)


LEMMA ReturnsMoved ==
    ASSUME stack \in Seq(Frames), Depth > 0, NEW at, [Top EXCEPT !.at = at] \in Frames,
           EndedOrTop(stack)
    PROVE  /\ EndedOrTop(MovedTo(at))
           /\ Returns(MovedTo(at), Depth) <=> Returns(stack, Depth)
<1> DEFINE s == MovedTo(at)
<1>1. /\ Len(s) = Depth /\ Depth \in Nat /\ s[Depth] = [Top EXCEPT !.at = at]
      /\ \A j \in 1..(Depth - 1) : s[j] = stack[j]
  BY Moved DEF Depth
<1>2. Top \in Frames
  BY DEF Top, Depth
<1>3. \A j \in 1..Depth : s[j].fn = stack[j].fn
  <2> SUFFICES ASSUME NEW j \in 1..Depth PROVE s[j].fn = stack[j].fn
    OBVIOUS
  <2>1. CASE j = Depth
    BY <1>1, <1>2, <2>1 DEF Frames, Top
  <2> QED
    BY <1>1, <2>1
<1> HIDE DEF s
<1>4. \A j \in 1..Depth : Returns(s, j) <=> Returns(stack, j)
  BY <1>1, <1>3 DEF Returns
<1>5. \A j \in 1..Depth : Ended(stack, j) => Ended(s, j)
  BY <1>1, EndedMoved DEF s
<1> QED
  BY <1>1, <1>4, <1>5 DEF EndedOrTop, s, Depth

LEMMA ReturnsPushed ==
    ASSUME NEW s \in Seq(Frames), NEW f \in Frames, EndedOrTop(s),
           f.fn = "trap" \/ s = <<>> \/ ~Returns(s, Len(s))
    PROVE  /\ EndedOrTop(Append(s, f))
           /\ Returns(Append(s, f), Len(s) + 1) => s = <<>> \/ s[Len(s)].fn = "fault"
<1> DEFINE t == Append(s, f)
<1>1. /\ Len(t) = Len(s) + 1 /\ Len(s) \in Nat /\ t[Len(s) + 1] = f
      /\ \A j \in 1..Len(s) : t[j] = s[j]
  BY Pushed
<1>2. \A j \in 1..Len(s) : Ended(s, j) => Ended(t, j)
  BY <1>1, EndedPushed
<1> HIDE DEF t
<1>3. \A j \in 1..Len(s) : Returns(t, j) <=> Returns(s, j)
  BY <1>1 DEF Returns
<1>4. f.fn = "trap" => \A j \in 1..Len(s) : Ended(t, j)
  BY <1>1 DEF Ended
<1>5. EndedOrTop(t)
  BY <1>1, <1>2, <1>3, <1>4 DEF EndedOrTop
<1>6. Returns(t, Len(s) + 1) => s = <<>> \/ s[Len(s)].fn = "fault"
  BY <1>1 DEF Returns
<1> QED
  BY <1>5, <1>6 DEF t

LEMMA ReturnsPopped ==
    ASSUME stack \in Seq(Frames), Depth > 0, Top.fn # "trap", EndedOrTop(stack)
    PROVE  EndedOrTop(Below) /\ (Depth > 1 => ~Returns(Below, Depth - 1))
<1>1. /\ Len(Below) = Depth - 1 /\ Depth \in Nat
      /\ \A j \in 1..(Depth - 1) : Below[j] = stack[j]
  BY Popped DEF Depth
<1>2. \A j \in 1..(Depth - 1) : Returns(Below, j) <=> Returns(stack, j)
  BY <1>1 DEF Returns
<1>3. \A j \in 1..(Depth - 1) : Returns(stack, j) => j < Depth - 1 /\ Ended(Below, j)
  <2> SUFFICES ASSUME NEW j \in 1..(Depth - 1), Returns(stack, j)
               PROVE  j < Depth - 1 /\ Ended(Below, j)
    OBVIOUS
  <2>1. j \in Nat /\ Ended(stack, j)
    BY <1>1 DEF EndedOrTop, Depth
  <2> QED
    BY <2>1, EndedPopped
<1> QED
  BY <1>1, <1>2, <1>3 DEF EndedOrTop


LEMMA TopMoved ==
    ASSUME stack \in Seq(Frames), Depth > 0, NEW at, [Top EXCEPT !.at = at] \in Frames,
           EndedOrTop(stack), stack' = MovedTo(at)
    PROVE  /\ Depth' = Depth /\ Top' = [Top EXCEPT !.at = at]
           /\ EndedOrTop(stack')
           /\ Returns(stack', Depth') <=> Returns(stack, Depth)
<1>1. Len(stack') = Depth /\ stack'[Depth] = [Top EXCEPT !.at = at]
  BY Moved
<1>2. Depth' = Depth
  BY <1>1 DEF Depth
<1>3. Top' = stack'[Depth']
  BY DEF Top
<1> QED
  BY <1>1, <1>2, <1>3, ReturnsMoved

\* The executing activation calls, as it moves on.
LEMMA TopCalls ==
    ASSUME stack \in Seq(Frames), Depth > 0, NEW at, [Top EXCEPT !.at = at] \in Frames,
           EndedOrTop(stack), ~Returns(stack, Depth),
           NEW f \in Frames, stack' = Append(MovedTo(at), f)
    PROVE  /\ Depth' = Depth + 1 /\ Top' = f
           /\ EndedOrTop(stack')
           /\ Returns(stack', Depth') => Top.fn = "fault"
<1> DEFINE s == MovedTo(at)
<1>1. s \in Seq(Frames) /\ Len(s) = Depth /\ s[Depth] = [Top EXCEPT !.at = at] /\ Depth \in Nat
  BY Moved DEF Depth
<1>2. EndedOrTop(s) /\ ~Returns(s, Len(s))
  BY <1>1, ReturnsMoved
<1>3. s[Len(s)].fn = Top.fn /\ s # <<>>
  <2>1. Top \in Frames
    BY DEF Top, Depth
  <2> QED
    BY <1>1, <2>1 DEF Frames
<1> HIDE DEF s
<1>4. stack' = Append(s, f)
  BY DEF s
<1>5. Len(stack') = Depth + 1 /\ stack'[Depth + 1] = f
  BY <1>1, <1>4, Pushed
<1>6. EndedOrTop(stack') /\ (Returns(stack', Depth + 1) => Top.fn = "fault")
  BY <1>1, <1>2, <1>3, <1>4, ReturnsPushed
<1>7. Depth' = Depth + 1
  BY <1>5 DEF Depth
<1>8. Top' = stack'[Depth']
  BY DEF Top
<1> QED
  BY <1>5, <1>6, <1>7, <1>8

\* The executing activation returns.
LEMMA TopReturns ==
    ASSUME stack \in Seq(Frames), Depth > 0, Top.fn # "trap", EndedOrTop(stack),
           stack' = Below
    PROVE  EndedOrTop(stack') /\ (Depth' > 0 => ~Returns(stack', Depth'))
<1>1. Depth' = Depth - 1 /\ Depth \in Nat
  BY Popped DEF Depth
<1> QED
  BY <1>1, ReturnsPopped

\* klog and __panic, between their call and their return.
LEMMA FlagsPrinting ==
    ASSUME TInv, FlagsAnswer, lost = "nothing", UNCHANGED inTick, ~inTick,
           \/ ReadFlags \/ Lock \/ LeaveLock \/ Nest \/ FormatHead \/ FormatTail \/ Write
           \/ Unlock
    PROVE  FlagsAnswer'
<1>1. /\ stack \in Seq(Frames) /\ Depth \in Nat /\ Depth > 0 /\ intr \in BOOLEAN
      /\ _lock \in BOOLEAN /\ EndedOrTop(stack) /\ Top.fn \in Printers
      /\ (Returns(stack, Depth) => KeepsFlag(Top)) /\ ~inTick'
  BY DEF TInv, IInv, TypeOK, Depth, FlagsAnswer, ReadFlags, Lock, LeaveLock, Nest, FormatHead,
         FormatTail, Write, Unlock, TopIs, Printers
<1>2. Top \in Frames
  BY <1>1 DEF Top, Depth
<1>3. CASE Lock
  <2> DEFINE at == AfterLock(Top.fn)
  <2>1. [Top EXCEPT !.at = at] \in Frames /\ at \notin Called /\ Top.at = "take"
    BY <1>1, <1>2, <1>3 DEF Frames, Printers, Printing, AfterLock, Lock, TopIs, Called
  <2>2. /\ Depth' = Depth /\ Top' = [Top EXCEPT !.at = at] /\ EndedOrTop(stack')
        /\ Returns(stack', Depth') <=> Returns(stack, Depth)
    BY <1>1, <1>3, <2>1, TopMoved DEF Lock
  <2>3. Top'.fn = Top.fn /\ Top'.at = at /\ Top'.was = Top.was
    BY <1>2, <2>2 DEF Frames
  <2>4. _lock' /\ ~intr'
    BY <1>3 DEF Lock
  <2>5. Returns(stack', Depth') => KeepsFlag(Top)'
    BY <1>1, <2>1, <2>2, <2>3, <2>4 DEF KeepsFlag, Called
  <2> QED
    BY <1>1, <2>2, <2>3, <2>5 DEF FlagsAnswer, FaultUnlocked, Printers
<1>8. CASE ReadFlags \/ LeaveLock
  <2>1. PICK at \in {"take", "leave", "nest", "head"} :
            /\ stack' = MovedTo(at) /\ [Top EXCEPT !.at = at] \in Frames
            /\ Top.at \in Called /\ UNCHANGED <<_lock, intr>> /\ (at = "take" => intr)
    <3>1. CASE ReadFlags
      <4>1. PICK at \in {"take", "leave"} : at = IF intr THEN "take" ELSE "leave"
        BY <1>1
      <4> QED
        BY <1>1, <1>2, <3>1, <4>1 DEF ReadFlags, TopIs, Called, Frames, Printers, Printing
    <3>2. CASE LeaveLock
      <4>1. PICK at \in {"nest", "head"} : at = AfterLock(Top.fn)
        BY DEF AfterLock
      <4>2. Top.fn = "klog" => at = "head"
        BY <4>1 DEF AfterLock
      <4> QED
        BY <1>1, <1>2, <3>2, <4>1, <4>2 DEF LeaveLock, TopIs, Called, Frames, Printers, Printing
    <3> QED
      BY <1>8, <3>1, <3>2
  <2>3. /\ Depth' = Depth /\ Top' = [Top EXCEPT !.at = at] /\ EndedOrTop(stack')
        /\ Returns(stack', Depth') <=> Returns(stack, Depth)
    BY <1>1, <2>1, TopMoved
  <2>4. Top'.fn = Top.fn /\ Top'.at = at /\ Top'.was = Top.was
    BY <1>2, <2>3 DEF Frames
  <2>5. Returns(stack', Depth') => KeepsFlag(Top)'
    BY <1>1, <2>1, <2>3, <2>4 DEF KeepsFlag
  <2> QED
    BY <1>1, <2>3, <2>4, <2>5 DEF FlagsAnswer, FaultUnlocked, Printers
<1>4. CASE FormatHead \/ FormatTail \/ Write
  <2>1. PICK at \in {"tail", "write", "unlock"} :
            stack' = MovedTo(at) /\ UNCHANGED <<_lock, intr>>
    BY <1>4 DEF FormatHead, FormatTail, Write, TopIs
  <2>2. [Top EXCEPT !.at = at] \in Frames
    BY <1>1, <1>2 DEF Frames, Printers, Printing
  <2>3. /\ Depth' = Depth /\ Top' = [Top EXCEPT !.at = at] /\ EndedOrTop(stack')
        /\ Returns(stack', Depth') <=> Returns(stack, Depth)
    BY <1>1, <2>1, <2>2, TopMoved
  <2>4. Top'.fn = Top.fn /\ Top'.at = at /\ Top'.was = Top.was
    BY <1>2, <2>3 DEF Frames
  <2>5. Returns(stack', Depth') => KeepsFlag(Top)'
    BY <1>1, <2>1, <2>3, <2>4 DEF KeepsFlag, Called
  <2> QED
    BY <1>1, <2>3, <2>4, <2>5 DEF FlagsAnswer, FaultUnlocked, Printers
<1>5. CASE Nest
  <2>1. Top.fn = "panic" /\ ~Returns(stack, Depth) /\ [Top EXCEPT !.at = "head"] \in Frames
    BY <1>2, <1>5 DEF Nest, TopIs, Returns, Top, Frames, Printing
  <2> DEFINE f == Frame("klog", "lock", intr)
  <2>2. f \in Frames /\ f.fn = "klog" /\ stack' = Append(MovedTo("head"), f)
    BY <1>1, <1>5 DEF Frame, Frames, Printing, Nest
  <2> HIDE DEF f
  <2>3. Depth' = Depth + 1 /\ Top' = f /\ EndedOrTop(stack') /\ ~Returns(stack', Depth')
    BY <1>1, <2>1, <2>2, TopCalls
  <2> QED
    BY <2>2, <2>3 DEF FlagsAnswer, FaultUnlocked
<1>6. CASE Unlock /\ Top.fn = "klog"
  <2>1. stack' = Below /\ ~_lock'
    BY <1>6 DEF Unlock, Returned
  <2>2. EndedOrTop(stack') /\ (Depth' > 0 => ~Returns(stack', Depth'))
    BY <1>1, <1>6, <2>1, TopReturns
  <2> QED
    BY <2>1, <2>2 DEF FlagsAnswer, FaultUnlocked
<1>7. CASE Unlock /\ Top.fn = "panic"
  <2>1. [Top EXCEPT !.at = "crash"] \in Frames /\ stack' = MovedTo("crash")
    BY <1>2, <1>7 DEF Unlock, Returned, Frames, Printing
  <2>2. /\ Top' = [Top EXCEPT !.at = "crash"] /\ EndedOrTop(stack')
        /\ Returns(stack', Depth') <=> Returns(stack, Depth)
    BY <1>1, <2>1, TopMoved
  <2>3. ~Returns(stack, Depth) /\ Top'.fn = "panic"
    BY <1>2, <1>7, <2>2 DEF Returns, Top, Frames
  <2> QED
    BY <2>2, <2>3 DEF FlagsAnswer, FaultUnlocked
<1> QED
  BY <1>1, <1>3, <1>4, <1>5, <1>6, <1>7, <1>8 DEF Printers

\* Exceptions, and calls from running code.
LEMMA FlagsHandling ==
    ASSUME TInv, FlagsAnswer, lost = "nothing", UNCHANGED inTick, ArgumentsMapped,
           \/ ~inTick /\ (HandlerLogs \/ FaultAborts \/ FaultReturns \/ CrashAndBurn)
           \/ EnableInterrupts \/ Enter("trap") \/ PageFault
           \/ ~inTick /\ \E fn \in Printers : Call(fn)
    PROVE  FlagsAnswer'
<1>1. /\ stack \in Seq(Frames) /\ Depth \in Nat /\ intr \in BOOLEAN
      /\ EndedOrTop(stack) /\ _lock \in BOOLEAN
      /\ (Depth > 0 /\ Returns(stack, Depth) => KeepsFlag(Top))
      /\ (Depth > 0 => FaultUnlocked(Top))
  BY DEF TInv, IInv, TypeOK, Depth, FlagsAnswer
<1>2. Depth > 0 => Top \in Frames
  BY <1>1 DEF Top, Depth
<1>3. stack = <<>> => ~_lock /\ Depth = 0
  BY DEF TInv, IInv, StackAnswersForLock, Held, Depth
<1>4. CASE ~inTick /\ (HandlerLogs \/ FaultAborts)
  <2>1. Depth > 0 /\ Top.fn \in Handlers /\ Top.at \in {"log", "handle"}
    BY <1>4 DEF HandlerLogs, FaultAborts, TopIs, Handlers
  <2>2. PICK at \in {"handle", "crash"}, fn \in Printers :
            /\ [Top EXCEPT !.at = at] \in Frames
            /\ stack' = Append(MovedTo(at), Frame(fn, "lock", intr))
            /\ UNCHANGED <<_lock, intr>>
    <3>1. CASE HandlerLogs
      BY <1>2, <2>1, <3>1 DEF HandlerLogs, AfterLog, Handlers, Printers, Frames
    <3>2. CASE FaultAborts
      BY <1>2, <2>1, <3>2 DEF FaultAborts, Handlers, Frames
    <3> QED
      BY <1>4, <3>1, <3>2
  <2> DEFINE f == Frame(fn, "lock", intr)
  <2>3. f \in Frames /\ f.fn = fn /\ f.at = "lock" /\ f.was = intr
    BY <1>1 DEF Frame, Frames, Printers, Printing
  <2>4. ~Returns(stack, Depth)
    BY <2>1 DEF Returns, Top, Handlers
  <2> HIDE DEF f
  <2>5. /\ Depth' = Depth + 1 /\ Top' = f /\ EndedOrTop(stack')
        /\ Returns(stack', Depth') => Top.fn = "fault"
    BY <1>1, <2>1, <2>2, <2>3, <2>4, TopCalls DEF f
  <2>6. Returns(stack', Depth') => KeepsFlag(Top)'
    BY <1>1, <1>4, <2>1, <2>2, <2>3, <2>5 DEF KeepsFlag, FaultUnlocked, Called
  <2> QED
    BY <2>3, <2>5, <2>6 DEF FlagsAnswer, FaultUnlocked, Printers
<1>5. CASE FaultReturns
  <2>1. Depth > 0 /\ Top.fn = "fault" /\ Top.at = "handle" /\ stack' = Below /\ _lock' = _lock
    BY <1>5 DEF FaultReturns, TopIs
  <2>2. EndedOrTop(stack') /\ (Depth' > 0 => ~Returns(stack', Depth'))
    BY <1>1, <2>1, TopReturns
  <2>3. ~_lock'
    BY <1>1, <2>1 DEF FaultUnlocked
  <2> QED
    BY <2>2, <2>3 DEF FlagsAnswer, FaultUnlocked
<1>6. CASE CrashAndBurn
  <2>1. stack' = stack /\ Top.at = "crash" /\ Depth > 0
    BY <1>6 DEF CrashAndBurn
  <2>2. Top.fn # "klog"
    BY <1>2, <2>1 DEF Frames, Printing
  <2>3. Depth' = Depth /\ Top' = Top
    BY <2>1 DEF Depth, Top
  <2> QED
    BY <1>1, <2>1, <2>2, <2>3 DEF FlagsAnswer, FaultUnlocked, Returns, Top
<1>7. CASE EnableInterrupts
  <2>1. stack' = <<>>
    BY <1>7 DEF EnableInterrupts
  <2>2. Depth' = 0
    BY <2>1 DEF Depth
  <2> QED
    BY <1>1, <1>7, <2>1, <2>2 DEF FlagsAnswer, EnableInterrupts
<1>8. CASE Enter("trap") \/ PageFault
  <2>1. PICK fn \in Handlers : Enter(fn) /\ (fn = "trap" \/ stack = <<>>)
    BY <1>8 DEF PageFault, ArgumentsMapped, Handlers
  <2> DEFINE f == Frame(fn, "log", intr)
  <2>2. f \in Frames /\ f.fn = fn /\ stack' = Append(stack, f) /\ _lock' = _lock
    BY <1>1, <2>1 DEF Frame, Frames, Handlers, Enter
  <2> HIDE DEF f
  <2>3. Len(stack') = Len(stack) + 1 /\ stack'[Len(stack) + 1] = f /\ EndedOrTop(stack')
    BY <1>1, <2>1, <2>2, Pushed, ReturnsPushed
  <2>4. Top' = f /\ stack'[Depth'] = f
    BY <2>3 DEF Top, Depth
  <2>5. ~Returns(stack', Depth')
    BY <2>2, <2>4 DEF Returns, Handlers
  <2>6. FaultUnlocked(Top)'
    BY <1>3, <2>1, <2>2, <2>4 DEF FaultUnlocked
  <2> QED
    BY <2>3, <2>5, <2>6 DEF FlagsAnswer
<1>9. CASE ~inTick /\ \E fn \in Printers : Call(fn)
  <2>1. PICK fn \in Printers : Call(fn)
    BY <1>9
  <2> DEFINE f == Frame(fn, "lock", intr)
  <2>2. /\ f \in Frames /\ f.fn = fn /\ f.at = "lock" /\ f.was = intr
        /\ stack = <<>> /\ stack' = <<f>> /\ UNCHANGED <<_lock, intr, inTick>>
    BY <1>1, <2>1 DEF Frame, Frames, Printers, Printing, Call
  <2> HIDE DEF f
  <2>3. Depth' = 1 /\ Top' = f /\ EndedOrTop(stack')
    BY <2>2 DEF Depth, Top, EndedOrTop
  <2>4. KeepsFlag(Top)'
    BY <1>3, <1>9, <2>2, <2>3 DEF KeepsFlag, Called
  <2> QED
    BY <2>2, <2>3, <2>4 DEF FlagsAnswer, FaultUnlocked, Printers
<1> QED
  BY <1>4, <1>5, <1>6, <1>7, <1>8, <1>9

\* What was lost is forgotten with the last activation.
Recovers == lost' = lost \/ (stack' = <<>> /\ lost' = "nothing")

LEMMA FlagsStep ==
    ASSUME TInv, FlagsAnswer, ArgumentsMapped, KlogStep, UNCHANGED inTick, Recovers,
           ~inTick \/ EnableInterrupts \/ Enter("trap")
    PROVE  FlagsAnswer'
<1>1. CASE lost # "nothing"
  <2>1. lost' # "nothing" \/ stack' = <<>>
    BY <1>1 DEF Recovers
  <2>2. stack' = <<>> => Depth' = 0 /\ EndedOrTop(stack')
    BY DEF Depth, EndedOrTop
  <2> QED
    BY <2>1, <2>2 DEF FlagsAnswer
<1>2. CASE lost = "nothing"
  <2>1. EnableInterrupts \/ Enter("trap") \/ (~inTick /\ KlogStep)
    OBVIOUS
  <2> QED
    BY <1>2, <2>1, FlagsPrinting, FlagsHandling DEF KlogStep
<1> QED
  BY <1>1, <1>2

-----------------------------------------------------------------------------
(* Steps *)

Still == UNCHANGED <<stack, _log_buf, _lock, intr, inTick, lost>>

\* klog that has lost what it works with faults.
Misread == Enter("fault") /\ lost # "nothing" /\ UNCHANGED <<inTick, lost>>

\* What a step does to Klog's state and to the tick in it.
Kinds ==
    \/ Still
    \/ TakeTick
    \/ IsrPit
    \/ Misread
    \/ /\ KlogStep /\ UNCHANGED inTick /\ Recovers
       /\ ~inTick \/ EnableInterrupts \/ Enter("trap")

LEMMA StepKinds ==
    ASSUME [TimerNext]_vars
    PROVE  Kinds
<1>1. CASE InitDevices \/ ReadTicks \/ Halt \/ (\E line \in Lines : Raise(line)) \/ UNCHANGED vars
  <2>1. Still
    BY <1>1 DEF InitDevices, ReadTicks, Halt, Raise, vars, klogVars, timerVars, Instruction, Still
  <2> QED
    BY <2>1 DEF Kinds
<1>2. CASE SetUp \/ CallKlog \/ WriteTicks
  BY <1>2 DEF SetUp, CallKlog, WriteTicks, Instruction, Kinds, KlogStep, Printers, Recovers
<1>3. CASE FormatFaults
  BY <1>3 DEF FormatFaults, Instruction, Kinds, Misread
<1>4. CASE KlogGoesOn
  BY <1>4 DEF KlogGoesOn, Instruction, Kinds, KlogStep, Recovers
<1>5. CASE KlogStarts
  BY <1>5 DEF KlogStarts, Instruction, Kinds, KlogStep, Trap, Recovers
<1>6. CASE \E line \in Lines : TakeOther(line)
  BY <1>6 DEF TakeOther, Kinds, KlogStep, Recovers
<1>7. CASE Tick
  BY <1>7 DEF Tick, Kinds
<1> QED
  BY <1>1, <1>2, <1>3, <1>4, <1>5, <1>6, <1>7 DEF TimerNext, Progress, Idle

LEMMA RInvInit ==
    ASSUME TimerInit
    PROVE  RInv
<1>1. IInv
  BY InitIInv DEF TimerInit
<1>2. stack = <<>> /\ Depth = 0 /\ inTick = FALSE
  BY DEF TimerInit, Init, Depth
<1>3. TInv
  BY <1>1, <1>2 DEF TInv, TickInv, TimerInit, Init
<1>4. EndedOrTop(stack)
  BY <1>2 DEF EndedOrTop
<1> QED
  BY <1>2, <1>3, <1>4 DEF RInv, FlagsAnswer

\* Of the stack a tick changes at most which way spin_lock goes.
LEMMA TickStack ==
    ASSUME IInv, TakeTick \/ IsrPit
    PROVE  /\ stack' \in Seq(Frames) /\ Depth' = Depth
           /\ \/ stack' = stack
              \/ /\ TopIs(Printers, "take") /\ stack' = MovedTo("leave")
                 /\ [Top EXCEPT !.at = "leave"] \in Frames
<1>1. stack \in Seq(Frames)
  BY DEF IInv, TypeOK
<1>2. CASE stack' = stack
  BY <1>1, <1>2 DEF Depth
<1>3. CASE TopIs(Printers, "take") /\ stack' = MovedTo("leave")
  <2>1. Depth > 0 /\ Top \in Frames /\ Top.fn \in Printers
    BY <1>1, <1>3 DEF TopIs, Top, Depth
  <2>2. [Top EXCEPT !.at = "leave"] \in Frames
    BY <2>1 DEF Frames, Printers, Printing
  <2>3. stack' \in Seq(Frames) /\ Len(stack') = Depth
    BY <1>1, <1>3, <2>1, <2>2, Moved
  <2> QED
    BY <1>3, <2>2, <2>3 DEF Depth
<1> QED
  BY <1>2, <1>3 DEF TakeTick, IsrPit, FlagsRead

\* The tick comes, and its handler returns, only where the lock word is clear.
LEMMA TickTInv ==
    ASSUME TInv, TakeTick \/ IsrPit
    PROVE  TInv'
<1>1. UNCHANGED <<_log_buf, _lock>> /\ intr' \in BOOLEAN /\ ~_lock
  BY DEF TInv, TickInv, IInv, LockMeansOff, TakeTick, IsrPit
<1>2. stack' \in Seq(Frames) /\ Depth' = Depth
  BY TickStack DEF TInv
<1>3. IInv'
  BY <1>1, <1>2 DEF TInv, IInv, TypeOK, LockMeansOff, StackAnswersForLock
<1>4. inTick' \in BOOLEAN /\ lost' \in {"nothing", "arguments", "work"}
  BY DEF TInv, TickInv, TakeTick, AtRisk, IsrPit
<1> QED
  BY <1>1, <1>3, <1>4 DEF TInv, TickInv

LEMMA TInvStep ==
    ASSUME TInv, Kinds
    PROVE  TInv'
<1>1. CASE Still
  <2>1. Depth' = Depth
    BY <1>1 DEF Still, Depth
  <2> QED
    BY <1>1, <2>1 DEF Still, TInv, TickInv, IInv, TypeOK, LockMeansOff, StackAnswersForLock
<1>2. CASE TakeTick \/ IsrPit
  BY <1>2, TickTInv
<1>3. CASE Misread
  <2>1. IInv'
    BY <1>3, EnterStep DEF Misread, TInv, Handlers
  <2> QED
    BY <1>3, <2>1 DEF Misread, Enter, TInv, TickInv
<1>4. CASE KlogStep /\ UNCHANGED inTick /\ Recovers /\ (~inTick \/ EnableInterrupts \/ Enter("trap"))
  <2>1. IInv'
    <3>1. CASE Enter("trap")
      BY <3>1, EnterStep DEF TInv, Handlers
    <3>2. CASE ~Enter("trap")
      BY <1>4, <3>2, IInvStep DEF TInv, KlogStep, Next
    <3> QED
      BY <3>1, <3>2
  <2> QED
    BY <1>4, <2>1 DEF EnableInterrupts, Enter, TInv, TickInv, Recovers, IInv, LockMeansOff
<1> QED
  BY <1>1, <1>2, <1>3, <1>4 DEF Kinds

\* A klog that is interrupted at its call gets the flag back with the tick's return.
LEMMA TickFlags ==
    ASSUME TInv, FlagsAnswer, TakeTick \/ IsrPit
    PROVE  FlagsAnswer'
<1>1. _lock' = _lock /\ (lost' = "nothing" => lost = "nothing")
  BY DEF TakeTick, IsrPit
<1>2. \/ intr /\ ~intr' /\ inTick'
      \/ inTick /\ intr' /\ ~inTick'
  BY DEF TakeTick, IsrPit
<1>3. ~_lock
  BY <1>2 DEF TInv, TickInv, IInv, LockMeansOff
<1>4. CASE stack' = stack
  <2>1. Depth' = Depth /\ Top' = Top
    BY <1>4 DEF Depth, Top
  <2>2. KeepsFlag(Top) => KeepsFlag(Top)'
    BY <1>1, <1>2, <1>3, <2>1 DEF KeepsFlag
  <2> QED
    BY <1>1, <1>4, <2>1, <2>2 DEF FlagsAnswer, FaultUnlocked, Returns
<1>5. CASE /\ TopIs(Printers, "take") /\ stack' = MovedTo("leave")
           /\ [Top EXCEPT !.at = "leave"] \in Frames
  <2>1. stack \in Seq(Frames) /\ Depth > 0 /\ Top \in Frames /\ Top.fn \in Printers
    BY <1>5 DEF TInv, IInv, TypeOK, TopIs, Top, Depth
  <2> SUFFICES ASSUME lost' = "nothing"
               PROVE  /\ EndedOrTop(stack')
                      /\ Returns(stack', Depth') => KeepsFlag(Top)'
                      /\ FaultUnlocked(Top)'
    BY DEF FlagsAnswer
  <2>2. EndedOrTop(stack) /\ (Returns(stack, Depth) => KeepsFlag(Top))
    BY <1>1, <2>1 DEF FlagsAnswer
  <2>3. /\ Depth' = Depth /\ Top' = [Top EXCEPT !.at = "leave"] /\ EndedOrTop(stack')
        /\ Returns(stack', Depth') <=> Returns(stack, Depth)
    BY <1>5, <2>1, <2>2, TopMoved
  <2>4. Top'.fn = Top.fn /\ Top'.at = "leave" /\ Top'.was = Top.was
    BY <2>1, <2>3 DEF Frames
  <2>5. KeepsFlag(Top) => KeepsFlag(Top)'
    BY <1>1, <1>2, <1>3, <2>4 DEF KeepsFlag
  <2> QED
    BY <2>1, <2>2, <2>3, <2>4, <2>5 DEF FaultUnlocked, Printers
<1> QED
  BY <1>4, <1>5, TickStack DEF TInv

LEMMA RInvStep ==
    ASSUME RInv, ArgumentsMapped, [TimerNext]_vars
    PROVE  RInv'
<1>1. Kinds /\ TInv /\ TInv' /\ FlagsAnswer
  BY StepKinds, TInvStep DEF RInv
<1>2. CASE Still
  <2>1. Depth' = Depth /\ Top' = Top
    BY <1>2 DEF Still, Depth, Top
  <2> QED
    BY <1>1, <1>2, <2>1 DEF RInv, Still, FlagsAnswer, FaultUnlocked, KeepsFlag, Returns
<1>3. CASE TakeTick \/ IsrPit
  BY <1>1, <1>3, TickFlags DEF RInv
<1>4. CASE Misread
  BY <1>1, <1>4 DEF Misread, RInv, FlagsAnswer
<1>5. CASE KlogStep /\ UNCHANGED inTick /\ Recovers /\ (~inTick \/ EnableInterrupts \/ Enter("trap"))
  BY <1>1, <1>5, FlagsStep DEF RInv
<1> QED
  BY <1>1, <1>2, <1>3, <1>4, <1>5 DEF Kinds

-----------------------------------------------------------------------------
(* Theorems *)

\* Ticks may come at every instruction, and the code may lose its arguments to them: types
\* and the lock word's meaning are kept.
THEOREM TimerInvariance == TimerSpec => []TInv
<1>1. TimerInit => TInv
  BY RInvInit DEF RInv
<1>2. TInv /\ [TimerNext]_vars => TInv'
  BY StepKinds, TInvStep
<1> QED
  BY <1>1, <1>2, PTL DEF TimerSpec

\* So the tick never finds the lock word set (spin.h:18-36, pit.c:44-53).
THEOREM TickFindsLockFree == TimerSpec => []LockMeansOff
<1>1. TInv => LockMeansOff
  BY DEF TInv, IInv
<1> QED
  BY <1>1, TimerInvariance, PTL

\* The invariant of the flag, where no argument is on a page still to be
\* allocated.
THEOREM LoggingInvariance ==
    ASSUME ArgumentsMapped
    PROVE  TimerSpec => []RInv
<1>1. TimerInit => RInv
  BY RInvInit
<1>2. RInv /\ [TimerNext]_vars => RInv'
  BY RInvStep
<1> QED
  BY <1>1, <1>2, PTL DEF TimerSpec

\* klog gives running code, or the page fault handler, the interrupt flag back that it was
\* called with, unless a tick has changed registers that it works with (spin.h:18-36,
\* pit.c:50-53).
THEOREM TickReturnsFlag ==
    ASSUME ArgumentsMapped
    PROVE  TimerSpec => TickKeepsInterrupts
<1>1. RInv /\ [TimerNext]_vars =>
         [/\ lost = "nothing" /\ TopIs({"klog"}, "unlock") /\ Caller \in {"task", "fault"}
          /\ Unlock
          => intr' = Top.was]_vars
  <2> SUFFICES ASSUME RInv, [TimerNext]_vars, lost = "nothing", TopIs({"klog"}, "unlock"),
                      Caller \in {"task", "fault"}, Unlock
               PROVE  intr' = Top.was
    OBVIOUS
  <2>1. Depth \in Nat /\ Depth > 0 /\ Top.fn = "klog" /\ Top.at = "unlock" /\ Top \in Frames
        /\ intr \in BOOLEAN /\ _lock \in BOOLEAN /\ stack \in Seq(Frames)
    BY DEF TopIs, Top, Depth, RInv, TInv, IInv, TypeOK
  <2>2. Depth = 1 \/ stack[Depth - 1].fn = "fault"
    <3>1. CASE Depth > 1 /\ stack[Depth - 1].fn # "fault"
      <4>1. stack[Depth - 1] \in Frames
        BY <2>1, <3>1 DEF Depth
      <4>2. stack[Depth - 1].fn # "task"
        BY <4>1 DEF Frames
      <4> QED
        BY <3>1, <4>2 DEF Caller
    <3> QED
      BY <2>1, <3>1
  <2>3. KeepsFlag(Top)
    BY <2>1, <2>2 DEF RInv, FlagsAnswer, Returns, Top
  <2>4. Top.was \in BOOLEAN
    BY <2>1 DEF Frames
  <2>5. intr' = (intr \/ _lock)
    BY DEF Unlock
  <2>6. ~inTick
    <3>1. Len(stack') = Depth - 1
      BY <2>1, Popped DEF Unlock, Returned
    <3>2. Len(stack') # Len(stack) /\ \A f : stack' # Append(stack, f)
      BY <2>1, <3>1 DEF Depth
    <3>3. ~Still /\ ~EnableInterrupts /\ ~Misread /\ ~Enter("trap")
      BY <3>2 DEF Still, EnableInterrupts, Misread, Enter
    <3>4. ~TakeTick /\ ~IsrPit
      BY <3>2, TickStack DEF RInv, TInv, Depth
    <3> QED
      BY <3>3, <3>4, StepKinds DEF Kinds
  <2> QED
    BY <2>1, <2>3, <2>4, <2>5, <2>6 DEF KeepsFlag
<1> QED
  BY <1>1, LoggingInvariance, PTL DEF TickKeepsInterrupts, TimerSpec

-----------------------------------------------------------------------------
(* The controllers *)

Chips == [expects : 0..3, base : Nat, imr : SUBSET Lines, irr : SUBSET Lines,
          isr : SUBSET Lines]

\* Called with interrupts off, and not about to take the lock.
Calm(f) == f.was = FALSE /\ f.at # "take"

\* Until start-up enables interrupts they are off: nothing that runs then turns them on.
QuietBoot ==
    task \in {"boot", "set_up"} =>
        /\ ~intr /\ ~_lock /\ ~inTick
        /\ \A i \in 1..Depth : Calm(stack[i])
        /\ pic["master"].isr = {} /\ pic["master"].imr = masked

\* From then on the master is ready, at its base, and masks what the firmware had masked.
Programmed ==
    task # "boot" => /\ pic["master"].expects = 0 /\ pic["master"].base = IRQ_TIMER
                     /\ pic["master"].imr = masked

\* The tick's line is in service while its handler runs, with interrupts off.
Serving ==
    /\ pic["master"].isr \cap masked = {}
    /\ 0 \in pic["master"].isr <=> inTick
    /\ inTick => ~intr

PicInv ==
    /\ pic \in [master : Chips, slave : Chips]
    /\ masked \in SUBSET Lines
    /\ QuietBoot /\ Programmed /\ Serving

LEMMA MinZero ==
    ASSUME NEW S \in SUBSET Nat, 0 \in S
    PROVE  Min(S) = 0
<1>1. 0 \in S /\ \A y \in S : 0 <= y
  OBVIOUS
<1>2. \A x \in S : (\A y \in S : x <= y) => x = 0
  OBVIOUS
<1> QED
  BY <1>1, <1>2 DEF Min

\* What the words do to a controller.
LEMMA WordWritten ==
    ASSUME NEW p \in Chips
    PROVE  /\ PicWrite(p, "cmd", Icw1) = [p EXCEPT !.expects = 3, !.imr = {}, !.isr = {}]
           /\ p.isr # {} => PicWrite(p, "cmd", Eoi) = [p EXCEPT !.isr = p.isr \ {Min(p.isr)}]
<1>1. PicWrite(p, "cmd", Icw1) = [p EXCEPT !.expects = 3, !.imr = {}, !.isr = {}]
  BY DEF PicWrite, Commanded, Icw1, Chips
<1>2. p.isr # {} => PicWrite(p, "cmd", Eoi) = [p EXCEPT !.isr = p.isr \ {Min(p.isr)}]
  BY DEF PicWrite, Commanded, Eoi, Chips
<1> QED
  BY <1>1, <1>2

LEMMA ByteWritten ==
    ASSUME NEW p \in Chips, NEW n \in Nat
    PROVE  /\ PicWrite(p, "cmd", Byte(n)) = p
           /\ p.expects = 3 =>
                PicWrite(p, "data", Byte(n)) = [p EXCEPT !.expects = 2, !.base = n]
           /\ p.expects \in 1..2 =>
                PicWrite(p, "data", Byte(n)) = [p EXCEPT !.expects = p.expects - 1]
<1>1. PicWrite(p, "cmd", Byte(n)) = p
  BY DEF PicWrite, Commanded, Byte, Chips
<1>2. p.expects = 3 => PicWrite(p, "data", Byte(n)) = [p EXCEPT !.expects = 2, !.base = n]
  BY DEF PicWrite, Loaded, Byte, Chips
<1>3. p.expects \in 1..2 =>
         PicWrite(p, "data", Byte(n)) = [p EXCEPT !.expects = p.expects - 1]
  BY DEF PicWrite, Loaded, Byte, Chips
<1> QED
  BY <1>1, <1>2, <1>3

LEMMA MaskWritten ==
    ASSUME NEW p \in Chips, NEW S \in SUBSET Lines
    PROVE  /\ PicWrite(p, "cmd", Mask(S)) = p
           /\ p.expects = 0 => PicWrite(p, "data", Mask(S)) = [p EXCEPT !.imr = S]
<1>1. PicWrite(p, "cmd", Mask(S)) = p
  BY DEF PicWrite, Commanded, Mask, Chips
<1>2. p.expects = 0 => PicWrite(p, "data", Mask(S)) = [p EXCEPT !.imr = S]
  BY DEF PicWrite, Loaded, Mask, Chips
<1> QED
  BY <1>1, <1>2

\* A controller with other contents of its registers.
LEMMA ChipReset ==
    ASSUME NEW p \in Chips, NEW a, a = [p EXCEPT !.expects = 3, !.imr = {}, !.isr = {}]
    PROVE  a \in Chips /\ a.expects = 3 /\ a.imr = {} /\ a.isr = {}
<1>1. /\ p.expects \in 0..3 /\ p.base \in Nat /\ p.imr \in SUBSET Lines
      /\ p.irr \in SUBSET Lines /\ p.isr \in SUBSET Lines
      /\ p = [expects |-> p.expects, base |-> p.base, imr |-> p.imr, irr |-> p.irr,
              isr |-> p.isr]
  BY DEF Chips
<1>2. a = [expects |-> 3, base |-> p.base, imr |-> {}, irr |-> p.irr, isr |-> {}]
  BY <1>1
<1>3. 3 \in 0..3 /\ {} \in SUBSET Lines
  OBVIOUS
<1>4. a \in Chips
  BY <1>1, <1>2, <1>3 DEF Chips
<1> QED
  BY <1>2, <1>4

LEMMA ChipBased ==
    ASSUME NEW p \in Chips, NEW n \in Nat, NEW a, a = [p EXCEPT !.base = n]
    PROVE  /\ a \in Chips /\ a.expects = p.expects /\ a.base = n
           /\ a.imr = p.imr /\ a.isr = p.isr
  BY DEF Chips

LEMMA ChipExpects ==
    ASSUME NEW p \in Chips, NEW x \in 0..3, NEW a, a = [p EXCEPT !.expects = x]
    PROVE  a \in Chips /\ a.expects = x /\ a.base = p.base /\ a.imr = p.imr /\ a.isr = p.isr
  BY DEF Chips

LEMMA ChipMasked ==
    ASSUME NEW p \in Chips, NEW m \in SUBSET Lines, NEW a, a = [p EXCEPT !.imr = m]
    PROVE  /\ a \in Chips /\ a.expects = p.expects /\ a.base = p.base
           /\ a.imr = m /\ a.isr = p.isr
  BY DEF Chips

LEMMA ChipServes ==
    ASSUME NEW p \in Chips, NEW i \in SUBSET Lines, NEW a, a = [p EXCEPT !.isr = i]
    PROVE  /\ a \in Chips /\ a.expects = p.expects /\ a.base = p.base
           /\ a.imr = p.imr /\ a.isr = i
  BY DEF Chips

\* What pic_init makes of the master: it takes four bytes for its initialisation, and the
\* fifth as its mask.
LEMMA MasterInitialised ==
    ASSUME NEW p \in Chips, NEW base \in Nat, NEW mask \in SUBSET Lines
    PROVE  /\ Initialised(p, "data", base, mask) \in Chips
           /\ Initialised(p, "data", base, mask).expects = 0
           /\ Initialised(p, "data", base, mask).base = base
           /\ Initialised(p, "data", base, mask).imr = mask
           /\ Initialised(p, "data", base, mask).isr = {}
<1>1. PICK a : a = PicWrite(p, "cmd", Icw1)
  OBVIOUS
<1>2. a \in Chips /\ a.expects = 3 /\ a.isr = {}
  <2>1. a = [p EXCEPT !.expects = 3, !.imr = {}, !.isr = {}]
    BY <1>1, WordWritten
  <2> QED
    BY <2>1, ChipReset
<1>3. PICK b : b = PicWrite(a, "data", Byte(base))
  OBVIOUS
<1>4. b \in Chips /\ b.expects = 2 /\ b.isr = {} /\ b.base = base
  <2>1. b = [a EXCEPT !.expects = 2, !.base = base]
    BY <1>2, <1>3, ByteWritten
  <2>2. PICK x : x = [a EXCEPT !.expects = 2]
    OBVIOUS
  <2>3. b = [x EXCEPT !.base = base]
    BY <2>1, <2>2
  <2>4. x \in Chips /\ x.expects = 2 /\ x.isr = {}
    BY <1>2, <2>2, 2 \in 0..3, ChipExpects
  <2> QED
    BY <2>3, <2>4, ChipBased
<1>5. PICK c : c = PicWrite(b, "data", Byte(4))
  OBVIOUS
<1>6. c \in Chips /\ c.expects = 1 /\ c.isr = {} /\ c.base = base
  <2>1. PicWrite(b, "data", Byte(4)) = [b EXCEPT !.expects = 2 - 1]
    BY <1>4, 4 \in Nat, 2 \in 1..2, ByteWritten
  <2>2. c = [b EXCEPT !.expects = 1] /\ 1 \in 0..3
    BY <1>5, <2>1
  <2> QED
    BY <1>4, <2>2, ChipExpects
<1>7. PICK d : d = PicWrite(c, "data", Byte(1))
  OBVIOUS
<1>8. d \in Chips /\ d.expects = 0 /\ d.isr = {} /\ d.base = base
  <2>1. PicWrite(c, "data", Byte(1)) = [c EXCEPT !.expects = 1 - 1]
    BY <1>6, 1 \in Nat, 1 \in 1..2, ByteWritten
  <2>2. d = [c EXCEPT !.expects = 0] /\ 0 \in 0..3
    BY <1>7, <2>1
  <2> QED
    BY <1>6, <2>2, ChipExpects
<1>9. PICK e : e = PicWrite(d, "data", Mask(mask))
  OBVIOUS
<1>10. e \in Chips /\ e.expects = 0 /\ e.isr = {} /\ e.base = base /\ e.imr = mask
  <2>1. e = [d EXCEPT !.imr = mask]
    BY <1>8, <1>9, MaskWritten
  <2> QED
    BY <1>8, <2>1, ChipMasked
<1>11. Initialised(p, "data", base, mask) = e
  BY <1>1, <1>3, <1>5, <1>7, <1>9 DEF Initialised
<1> QED
  BY <1>10, <1>11

\* Of the slave only that it stays a controller is needed: it takes nothing for its mask.
LEMMA SlaveInitialised ==
    ASSUME NEW p \in Chips, NEW base \in Nat, NEW mask \in SUBSET Lines
    PROVE  Initialised(p, "cmd", base, mask) \in Chips
<1>1. PICK a : a = PicWrite(p, "cmd", Icw1)
  OBVIOUS
<1>2. a \in Chips
  <2>1. a = [p EXCEPT !.expects = 3, !.imr = {}, !.isr = {}]
    BY <1>1, WordWritten
  <2> QED
    BY <2>1, ChipReset
<1>3. \A n \in Nat : PicWrite(a, "cmd", Byte(n)) = a
  BY <1>2, ByteWritten
<1>4. PicWrite(a, "cmd", Mask(mask)) = a
  BY <1>2, MaskWritten
<1>5. Initialised(p, "cmd", base, mask) = a
  <2>1. 4 \in Nat /\ 1 \in Nat
    OBVIOUS
  <2>2. /\ PicWrite(a, "cmd", Byte(base)) = a
        /\ PicWrite(a, "cmd", Byte(4)) = a
        /\ PicWrite(a, "cmd", Byte(1)) = a
    BY <1>3, <2>1
  <2> QED
    BY <1>1, <1>4, <2>2 DEF Initialised
<1> QED
  BY <1>2, <1>5

LEMMA DevicesPicInv ==
    ASSUME PicInv, InitDevices
    PROVE  PicInv'
<1>1. /\ pic["master"] \in Chips /\ pic["slave"] \in Chips
      /\ pic["master"].imr = masked /\ masked \in SUBSET Lines
      /\ task = "boot" /\ ~intr /\ ~inTick
  BY DEF PicInv, QuietBoot, InitDevices
<1>2. PICK m, s : /\ m = Initialised(pic["master"], "data", IRQ_TIMER, masked)
                  /\ s = Initialised(pic["slave"], "cmd", IRQ_RTC, pic["slave"].irr)
  OBVIOUS
<1>3. /\ m \in Chips /\ m.expects = 0 /\ m.base = IRQ_TIMER /\ m.imr = masked /\ m.isr = {}
      /\ s \in Chips
  <2>1. IRQ_TIMER \in Nat /\ IRQ_RTC \in Nat
    BY DEF IRQ_TIMER, IRQ_RTC
  <2>2. pic["slave"].irr \in SUBSET Lines
    BY <1>1 DEF Chips
  <2>3. /\ m \in Chips /\ m.expects = 0 /\ m.base = IRQ_TIMER /\ m.imr = masked
        /\ m.isr = {}
    BY <1>1, <1>2, <2>1, MasterInitialised
  <2>4. s \in Chips
    BY <1>1, <1>2, <2>1, <2>2, SlaveInitialised
  <2> QED
    BY <2>3, <2>4
<1>4. pic' = [master |-> m, slave |-> s]
  BY <1>1, <1>2 DEF InitDevices, pic_init, PIC_MASTER_DATA, PIC_SLAVE_DATA
<1>5. task' = "set_up" /\ UNCHANGED <<intr, inTick, masked, stack, _lock>>
  BY DEF InitDevices, klogVars
<1>6. Depth' = Depth
  BY <1>5 DEF Depth
<1> QED
  BY <1>6, <1>1, <1>3, <1>4, <1>5 DEF PicInv, QuietBoot, Programmed, Serving

LEMMA RaisePicInv ==
    ASSUME PicInv, NEW line \in Lines, Raise(line)
    PROVE  PicInv'
<1>1. UNCHANGED <<task, masked, intr, inTick, stack, _lock>>
  BY DEF Raise, klogVars
<1>2. /\ pic' \in [master : Chips, slave : Chips]
      /\ pic'["master"].isr = pic["master"].isr /\ pic'["master"].imr = pic["master"].imr
      /\ pic'["master"].expects = pic["master"].expects
      /\ pic'["master"].base = pic["master"].base
  BY DEF PicInv, Raise, Chips
<1>3. Depth' = Depth
  BY <1>1 DEF Depth
<1> QED
  BY <1>1, <1>2, <1>3 DEF PicInv, QuietBoot, Programmed, Serving

\* An interrupt that is taken is in service then.
LEMMA AcknowledgedPic ==
    ASSUME PicInv, NEW line \in Lines, pic' = Acknowledged(line)
    PROVE  /\ pic' \in [master : Chips, slave : Chips]
           /\ pic'["master"].isr = pic["master"].isr \cup {line}
           /\ pic'["master"].imr = pic["master"].imr
           /\ pic'["master"].expects = pic["master"].expects
           /\ pic'["master"].base = pic["master"].base
  BY DEF PicInv, Acknowledged, Chips

LEMMA TakePicInv ==
    ASSUME PicInv, TakeTick \/ \E line \in Lines : TakeOther(line)
    PROVE  PicInv'
<1>1. PICK line \in Lines : /\ intr /\ Asks(line) /\ pic' = Acknowledged(line)
                            /\ intr' = FALSE /\ UNCHANGED <<task, masked>>
                            /\ inTick' = IF line = 0 THEN TRUE ELSE inTick
  BY TimerAssumption DEF TakeTick, TakeOther, Enter
<1>2. task \notin {"boot", "set_up"} /\ ~inTick
  BY <1>1 DEF PicInv, QuietBoot, Serving
<1>3. line \notin masked
  BY <1>1, <1>2 DEF PicInv, Programmed, Asks
<1> QED
  BY <1>1, <1>2, <1>3, AcknowledgedPic DEF PicInv, QuietBoot, Programmed, Serving

LEMMA IsrPicInv ==
    ASSUME PicInv, IsrPit
    PROVE  PicInv'
<1>1. inTick /\ ~inTick' /\ intr' /\ masked' = masked
  BY DEF IsrPit
<1>2. task \notin {"boot", "set_up"} /\ task' \notin {"boot", "set_up"}
  BY DEF PicInv, QuietBoot, IsrPit
<1>3. PICK m : m = pic["master"]
  OBVIOUS
<1>4. m \in Chips /\ 0 \in m.isr /\ m.isr \in SUBSET Nat
  <2>1. m \in Chips /\ 0 \in m.isr
    BY <1>1, <1>3 DEF PicInv, Serving
  <2>2. m.isr \subseteq Lines
    BY <2>1 DEF Chips
  <2>3. Lines \subseteq Nat
    BY TimerAssumption
  <2> QED
    BY <2>1, <2>2, <2>3
<1>5. Min(m.isr) = 0
  BY <1>4, MinZero
<1>6. PicWrite(m, "cmd", Eoi) = [m EXCEPT !.isr = m.isr \ {0}]
  BY <1>4, <1>5, WordWritten
<1>7. pic' = [pic EXCEPT !["master"] = [m EXCEPT !.isr = m.isr \ {0}]]
  <2>1. pic' = pic_send_eoi(pic, 32)
    BY DEF IsrPit, IRQ_TIMER
  <2>2. ~(32 >= IRQ_RTC \/ 32 < IRQ_TIMER)
    BY DEF IRQ_TIMER, IRQ_RTC
  <2>3. pic' = [pic EXCEPT !["master"] = PicWrite(pic["master"], "cmd", Eoi)]
    BY <2>1, <2>2 DEF pic_send_eoi
  <2> QED
    BY <1>3, <1>6, <2>3
<1>8. /\ pic' \in [master : Chips, slave : Chips]
      /\ pic'["master"].isr = m.isr \ {0} /\ pic'["master"].imr = m.imr
      /\ pic'["master"].expects = m.expects /\ pic'["master"].base = m.base
  <2>1. PICK a : a = [m EXCEPT !.isr = m.isr \ {0}]
    OBVIOUS
  <2>2. m.isr \ {0} \in SUBSET Lines
    BY <1>4 DEF Chips
  <2>3. /\ a \in Chips /\ a.expects = m.expects /\ a.base = m.base /\ a.imr = m.imr
        /\ a.isr = m.isr \ {0}
    BY <1>4, <2>1, <2>2, ChipServes
  <2>4. pic' = [pic EXCEPT !["master"] = a] /\ pic \in [master : Chips, slave : Chips]
    BY <1>7, <2>1 DEF PicInv
  <2> QED
    BY <2>3, <2>4
<1> QED
  BY <1>1, <1>2, <1>3, <1>8 DEF PicInv, QuietBoot, Programmed, Serving

\* Logging, faults and panics before the devices are set up leave interrupts off.
LEMMA QuietStep ==
    ASSUME TInv, QuietBoot, task \in {"boot", "set_up"},
           KlogGoesOn \/ KlogStarts \/ WriteTicks \/ FormatFaults
    PROVE  ~intr' /\ ~_lock' /\ \A i \in 1..Depth' : Calm(stack'[i])
<1>1. /\ stack \in Seq(Frames) /\ Depth \in Nat /\ intr = FALSE /\ ~_lock
      /\ \A i \in 1..Depth : Calm(stack[i])
  BY DEF TInv, IInv, TypeOK, QuietBoot, Depth
<1>2. ASSUME Depth > 0 PROVE Top \in Frames /\ Calm(Top)
  BY <1>1, <1>2 DEF Top, Depth
<1>3. ASSUME Depth > 0, NEW at, [Top EXCEPT !.at = at] \in Frames, at # "take"
      PROVE  /\ MovedTo(at) \in Seq(Frames) /\ Len(MovedTo(at)) = Depth
             /\ \A i \in 1..Depth : Calm(MovedTo(at)[i])
  <2>1. /\ MovedTo(at) \in Seq(Frames) /\ Len(MovedTo(at)) = Depth
        /\ MovedTo(at)[Depth] = [Top EXCEPT !.at = at]
        /\ \A i \in 1..(Depth - 1) : MovedTo(at)[i] = stack[i]
    BY <1>1, <1>3, Moved
  <2>2. Calm(MovedTo(at)[Depth])
    BY <1>2, <1>3, <2>1 DEF Frames, Calm
  <2>3. ASSUME NEW i \in 1..Depth PROVE Calm(MovedTo(at)[i])
    <3>1. CASE i = Depth
      BY <2>2, <3>1
    <3>2. CASE i # Depth
      <4>1. i \in 1..(Depth - 1)
        BY <1>1, <3>2
      <4> QED
        BY <1>1, <2>1, <4>1
    <3> QED
      BY <3>1, <3>2
  <2> QED
    BY <2>1, <2>3
<1>4. ASSUME NEW s \in Seq(Frames), \A i \in 1..Len(s) : Calm(s[i]),
             NEW f \in Frames, Calm(f)
      PROVE  \A i \in 1..Len(Append(s, f)) : Calm(Append(s, f)[i])
  <2>1. /\ Len(Append(s, f)) = Len(s) + 1 /\ Len(s) \in Nat
        /\ Append(s, f)[Len(s) + 1] = f
        /\ \A i \in 1..Len(s) : Append(s, f)[i] = s[i]
    BY Pushed
  <2> QED
    BY <1>4, <2>1
<1>5. ASSUME Depth > 0
      PROVE  \A i \in 1..Len(Below) : Calm(Below[i])
  BY <1>1, <1>5, Popped
<1>6. \A fn \in Printers : /\ Frame(fn, "lock", intr) \in Frames
                           /\ Calm(Frame(fn, "lock", intr))
  BY <1>1 DEF Frame, Frames, Printers, Printing, Calm
<1>7. CASE ReadFlags \/ LeaveLock \/ FormatHead \/ FormatTail \/ Write
  <2>1. PICK at \in {"leave", "nest", "head", "tail", "write", "unlock"} :
            Depth > 0 /\ [Top EXCEPT !.at = at] \in Frames /\ stack' = MovedTo(at)
    <3>1. CASE ReadFlags
      BY <1>1, <1>2, <3>1 DEF ReadFlags, TopIs, Printers, Frames, Printing
    <3>2. CASE LeaveLock
      BY <1>2, <3>2 DEF LeaveLock, TopIs, Printers, AfterLock, Frames, Printing
    <3>3. CASE FormatHead \/ FormatTail \/ Write
      BY <1>2, <3>3 DEF FormatHead, FormatTail, Write, TopIs, Printers, Frames, Printing
    <3> QED
      BY <1>7, <3>1, <3>2, <3>3
  <2>2. intr' = intr /\ _lock' = _lock
    BY <1>7 DEF ReadFlags, LeaveLock, FormatHead, FormatTail, Write
  <2> QED
    BY <1>1, <1>3, <2>1, <2>2 DEF Depth
<1>15. ~Lock
  BY <1>1, <1>2 DEF Lock, TopIs, Calm
<1>8. CASE Nest \/ HandlerLogs \/ FaultAborts
  <2>1. PICK at \in {"head", "handle", "crash"}, fn \in Printers :
            /\ Depth > 0 /\ [Top EXCEPT !.at = at] \in Frames
            /\ stack' = Append(MovedTo(at), Frame(fn, "lock", intr))
    <3>1. CASE Nest
      BY <1>2, <3>1 DEF Nest, TopIs, Printers, Frames, Printing
    <3>2. CASE HandlerLogs
      BY <1>2, <3>2 DEF HandlerLogs, TopIs, Printers, Handlers, AfterLog, Frames
    <3>3. CASE FaultAborts
      BY <1>2, <3>3 DEF FaultAborts, TopIs, Frames
    <3> QED
      BY <1>8, <3>1, <3>2, <3>3
  <2>2. UNCHANGED <<intr, _lock>>
    BY <1>8 DEF Nest, HandlerLogs, FaultAborts
  <2>3. PICK s : s = MovedTo(at)
    OBVIOUS
  <2>4. s \in Seq(Frames) /\ \A i \in 1..Len(s) : Calm(s[i])
    BY <1>3, <2>1, <2>3
  <2>5. \A i \in 1..Len(stack') : Calm(stack'[i])
    BY <1>4, <1>6, <2>1, <2>3, <2>4
  <2> QED
    BY <1>1, <2>2, <2>5 DEF Depth
<1>9. CASE Unlock
  <2>1. Depth > 0 /\ Top.fn \in Printers /\ ~intr' /\ ~_lock'
    BY <1>1, <1>9 DEF Unlock, TopIs
  <2>2. CASE Top.fn = "klog"
    <3>1. stack' = Below
      BY <1>9, <2>2 DEF Unlock, Returned
    <3> QED
      BY <1>5, <2>1, <3>1 DEF Depth
  <2>3. CASE Top.fn = "panic"
    <3>1. stack' = MovedTo("crash") /\ [Top EXCEPT !.at = "crash"] \in Frames
      BY <1>2, <1>9, <2>1, <2>3 DEF Unlock, Returned, Frames, Printing
    <3> QED
      BY <1>3, <2>1, <3>1 DEF Depth
  <2> QED
    BY <2>1, <2>2, <2>3 DEF Printers
<1>10. CASE FaultReturns
  <2>1. Depth > 0 /\ stack' = Below /\ intr' = Top.was /\ _lock' = _lock
    BY <1>10 DEF FaultReturns, TopIs
  <2> QED
    BY <1>1, <1>2, <1>5, <2>1 DEF Depth, Calm
<1>11. CASE CrashAndBurn
  BY <1>1, <1>11 DEF CrashAndBurn
<1>12. CASE \E fn \in Handlers : Enter(fn)
  <2>1. PICK fn \in Handlers : Enter(fn)
    BY <1>12
  <2>2. Frame(fn, "log", intr) \in Frames /\ Calm(Frame(fn, "log", intr))
    BY <1>1 DEF Frame, Frames, Handlers, Calm
  <2>3. stack' = Append(stack, Frame(fn, "log", intr)) /\ intr' = FALSE /\ _lock' = _lock
    BY <2>1 DEF Enter
  <2>4. \A i \in 1..Len(stack') : Calm(stack'[i])
    BY <1>1, <1>4, <2>2, <2>3 DEF Depth
  <2> QED
    BY <1>1, <2>3, <2>4 DEF Depth
<1>13. CASE \E fn \in Printers : Call(fn)
  <2>1. PICK fn \in Printers : stack' = <<Frame(fn, "lock", intr)>> /\ UNCHANGED <<intr, _lock>>
    BY <1>13 DEF Call
  <2> QED
    BY <1>1, <1>6, <2>1 DEF Depth
<1>14. \/ ReadFlags \/ LeaveLock \/ FormatHead \/ FormatTail \/ Write \/ Nest \/ HandlerLogs \/ FaultAborts
       \/ Unlock \/ FaultReturns \/ CrashAndBurn
       \/ (\E fn \in Handlers : Enter(fn)) \/ \E fn \in Printers : Call(fn)
  BY <1>15 DEF KlogGoesOn, KlogStarts, WriteTicks, FormatFaults, Trap, PageFault, Handlers
<1> QED
  BY <1>7, <1>8, <1>9, <1>10, <1>11, <1>12, <1>13, <1>14

\* The instructions of the kernel change no device.
LEMMA InstructionPicInv ==
    ASSUME TInv, PicInv, Instruction,
           \/ ReadTicks \/ CallKlog \/ Halt \/ FormatFaults \/ WriteTicks \/ KlogGoesOn
           \/ KlogStarts
    PROVE  PicInv'
<1>1. UNCHANGED <<pic, masked, inTick>> /\ ~inTick
  BY DEF Instruction
<1>2. CASE task \notin {"boot", "set_up"}
  <2>1. task' \notin {"boot", "set_up"}
    BY <1>2 DEF ReadTicks, CallKlog, Halt, FormatFaults, WriteTicks, KlogGoesOn, KlogStarts
  <2> QED
    BY <1>1, <1>2, <2>1 DEF PicInv, QuietBoot, Programmed, Serving
<1>3. CASE task \in {"boot", "set_up"}
  <2>1. WriteTicks \/ KlogGoesOn \/ KlogStarts \/ FormatFaults
    BY <1>3 DEF ReadTicks, CallKlog, Halt
  <2>2. task' = task
    BY <1>3, <2>1 DEF FormatFaults, WriteTicks, KlogGoesOn, KlogStarts
  <2>3. ~intr' /\ ~_lock' /\ \A i \in 1..Depth' : Calm(stack'[i])
    BY <1>3, <2>1, QuietStep DEF PicInv
  <2> QED
    BY <1>1, <1>3, <2>2, <2>3 DEF PicInv, QuietBoot, Programmed, Serving
<1> QED
  BY <1>2, <1>3

LEMMA PicInvInit ==
    ASSUME TimerInit
    PROVE  PicInv
<1>1. /\ stack = <<>> /\ intr = FALSE /\ _lock = FALSE /\ inTick = FALSE /\ task = "boot"
      /\ masked \in SUBSET Lines
  BY TimerAssumption DEF TimerInit, Init
<1>2. Depth = 0
  BY <1>1 DEF Depth
<1>3. pic = [master |-> [expects |-> 0, base |-> 8, imr |-> masked, irr |-> {}, isr |-> {}],
             slave |-> [expects |-> 0, base |-> 112, imr |-> {}, irr |-> {}, isr |-> {}]]
  BY DEF TimerInit
<1>4. /\ [expects |-> 0, base |-> 8, imr |-> masked, irr |-> {}, isr |-> {}] \in Chips
      /\ [expects |-> 0, base |-> 112, imr |-> {}, irr |-> {}, isr |-> {}] \in Chips
  BY <1>1 DEF Chips
<1>5. pic \in [master : Chips, slave : Chips]
  BY <1>3, <1>4
<1>6. pic["master"].isr = {} /\ pic["master"].imr = masked
  BY <1>3
<1> QED
  BY <1>1, <1>2, <1>5, <1>6 DEF PicInv, QuietBoot, Programmed, Serving

LEMMA PicInvStep ==
    ASSUME TInv, PicInv, [TimerNext]_vars
    PROVE  PicInv'
<1>1. CASE InitDevices
  BY <1>1, DevicesPicInv
<1>2. CASE SetUp
  <2>1. /\ task = "set_up" /\ task' \notin {"boot", "set_up"}
        /\ UNCHANGED <<pic, masked, inTick>>
    BY <1>2 DEF SetUp
  <2>2. ~inTick
    BY <2>1 DEF PicInv, QuietBoot
  <2> QED
    BY <2>1, <2>2 DEF PicInv, QuietBoot, Programmed, Serving
<1>3. CASE Idle \/ FormatFaults \/ WriteTicks \/ KlogGoesOn \/ KlogStarts
  <2>1. Instruction
    BY <1>3 DEF Idle, ReadTicks, CallKlog, Halt, FormatFaults, WriteTicks, KlogGoesOn, KlogStarts
  <2> QED
    BY <1>3, <2>1, InstructionPicInv DEF Idle
<1>4. CASE TakeTick \/ \E line \in Lines : TakeOther(line)
  BY <1>4, TakePicInv
<1>5. CASE IsrPit
  BY <1>5, IsrPicInv
<1>6. CASE \E line \in Lines : Raise(line)
  BY <1>6, RaisePicInv
<1>7. CASE UNCHANGED vars
  <2>1. UNCHANGED <<task, masked, intr, inTick, stack, _lock, pic>>
    BY <1>7 DEF vars, klogVars, timerVars
  <2>2. Depth' = Depth
    BY <2>1 DEF Depth
  <2> QED
    BY <2>1, <2>2 DEF PicInv, QuietBoot, Programmed, Serving
<1> QED
  BY <1>1, <1>2, <1>3, <1>4, <1>5, <1>6, <1>7 DEF TimerNext, Progress, Tick

\* Whatever the firmware has masked and whatever lines are raised: no interrupt is taken
\* before the devices are set up, and the master has its base and the firmware's mask then.
THEOREM ControllerInvariance == TimerSpec => []PicInv
<1>1. TimerInit => PicInv
  BY PicInvInit
<1>2. TInv /\ TInv' /\ PicInv /\ [TimerNext]_vars => PicInv'
  BY PicInvStep
<1> QED
  BY <1>1, <1>2, TimerInvariance, PTL DEF TimerSpec

\* Interrupts are served through a master that is set up, never on a line that the firmware
\* had masked, and the tick's line is in service exactly while its handler runs
\* (pic.c:28-73, pit.c:44-53).
THEOREM InterruptsAreServed == TimerSpec => []InterruptsServed
<1>1. PicInv => InterruptsServed
  BY DEF PicInv, QuietBoot, Programmed, Serving, InterruptsServed
<1> QED
  BY <1>1, ControllerInvariance, PTL
=============================================================================
