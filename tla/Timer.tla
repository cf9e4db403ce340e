------------------------------- MODULE Timer --------------------------------
(***************************************************************************)
(* The timer tick under the kernel's logging: the interrupt controllers     *)
(* (arch/x86_64/dev/pic.c), the interval timer (dev/pit.c) and the idle     *)
(* loop of kinit_multiboot2 (boot/kinit.c), composed with Klog, whose call   *)
(* stack, lock and interrupt flag the tick handler interrupts.             *)
(*                                                                         *)
(* A processor with interrupts enabled takes a pending one before its next  *)
(* instruction.                                                            *)
(***************************************************************************)
EXTENDS Klog, FiniteSetsExt

CONSTANTS
    Lines,           \* lines of the master controller that devices raise, 0 the timer's
    FirmwareMasks,   \* what the firmware may have masked on the master: sets of lines
    KeepsCounting,   \* does channel 0 tick on while it waits for its count?
    MaxTicks         \* bound on ticks

ASSUME TimerAssumption ==
    /\ 0 \in Lines /\ Lines \subseteq 0..7
    /\ FirmwareMasks \subseteq SUBSET Lines
    /\ KeepsCounting \in BOOLEAN
    /\ MaxTicks \in Nat

VARIABLES
    pic,          \* the controllers, "master" and "slave"
    masked,       \* what the firmware had masked on the master
    channel,      \* the channels of the timer: "firmware", "waits" or the count loaded
    _pit_ticks,
    inTick,       \* _isr_pit runs
    task,         \* where the idle loop is, or the code that runs instead
    ticksArg,     \* the tick count that the idle loop passes to klog
    lost,         \* what of a klog's registers a tick has changed
    shown         \* the last tick count written to the log

timerVars == <<pic, masked, channel, _pit_ticks, inTick, task, ticksArg, lost, shown>>
vars == <<klogVars, timerVars>>

IRQ_TIMER == 32
IRQ_RTC == 40
PIT_FREQ == 1193182

-----------------------------------------------------------------------------
(* The controllers *)

Icw1 == [kind |-> "icw1", value |-> 0]      \* 0x11
Eoi == [kind |-> "eoi", value |-> 0]        \* 0x20
Byte(n) == [kind |-> "byte", value |-> n]
Mask(S) == [kind |-> "mask", value |-> S]

\* A byte written to a controller's command register.
Commanded(p, b) ==
    IF b.kind = "icw1" THEN [p EXCEPT !.expects = 3, !.imr = {}, !.isr = {}]
    ELSE IF b.kind = "eoi" /\ p.isr # {} THEN [p EXCEPT !.isr = @ \ {Min(@)}]
    ELSE p

\* And to its data register: after the first initialisation word it expects three more
\* there, the first of them its base, before it does anything else; any other is its mask.
Loaded(p, b) ==
    IF p.expects = 3 THEN [p EXCEPT !.expects = 2, !.base = b.value]
    ELSE IF p.expects > 0 THEN [p EXCEPT !.expects = @ - 1]
    ELSE [p EXCEPT !.imr = b.value]

PicWrite(p, reg, b) == IF reg = "cmd" THEN Commanded(p, b) ELSE Loaded(p, b)

PIC_MASTER_DATA == "data"
PIC_SLAVE_DATA == "cmd"     \* 0xa0, as PIC_SLAVE_CMD

\* The bytes that pic_init sends to a controller, in order.  It sends them to both in turn;
\* neither controller sees the other's.
Initialised(p, data, base, orig_mask) ==
    LET based == PicWrite(PicWrite(p, "cmd", Icw1), data, Byte(base))
        chained == PicWrite(based, data, Byte(4))
        mode8086 == PicWrite(chained, data, Byte(1))
    IN  PicWrite(mode8086, data, Mask(orig_mask))

\* The form of pic_init that leaves the masks as the initialisation words make them.
PicInitUnmasked(pics) ==
    [master |-> Initialised(pics["master"], PIC_MASTER_DATA, IRQ_TIMER, {}),
     slave |-> Initialised(pics["slave"], PIC_SLAVE_DATA, IRQ_RTC, {})]

\* Reading the slave's mask reads its command register: the requests that it has.
pic_init(pics) ==
    [master |-> Initialised(pics["master"], PIC_MASTER_DATA, IRQ_TIMER, pics["master"].imr),
     slave |-> Initialised(pics["slave"], PIC_SLAVE_DATA, IRQ_RTC, pics["slave"].irr)]

\* The form of pic_send_eoi with the comparison of the master's range turned round.
SendEoiNever(pics, int_num) ==
    IF int_num >= IRQ_RTC \/ int_num >= IRQ_TIMER THEN pics
    ELSE [pics EXCEPT !["master"] = PicWrite(@, "cmd", Eoi)]

\* `int_num >- _slave_base + 8' is int_num > 8 - _slave_base, which is always so.
pic_send_eoi(pics, int_num) ==
    IF int_num >= IRQ_RTC \/ int_num < IRQ_TIMER THEN pics
    ELSE [pics EXCEPT !["master"] = PicWrite(@, "cmd", Eoi)]

\* The line the master asks the processor to serve: the lowest that is requested, and that
\* no line of its priority or a higher one still in service keeps back.
Asks(line) ==
    LET p == pic["master"]
        open == p.irr \ p.imr
    IN  /\ p.expects = 0
        /\ line \in open /\ \A l \in open \cup p.isr : line <= l
        /\ line \notin p.isr

Pending == intr /\ \E line \in Lines : Asks(line)

-----------------------------------------------------------------------------
(* Start-up *)

\* pit_start_counter: the command selects channel 0, the count goes to channel 2.
pit_start_counter(freq) ==
    [channel EXCEPT ![0] = "waits", ![2] = <<(PIT_FREQ \div freq) % 65536>>]

\* idt_init and pit_start_counter, in kinit_multiboot2, before interrupts are enabled.
InitDevices ==
    /\ task = "boot" /\ stack = <<>>
    /\ pic' = pic_init(pic)
    /\ channel' = pit_start_counter(100)
    /\ _pit_ticks' = 0
    /\ task' = "set_up"
    /\ UNCHANGED <<klogVars, masked, inTick, ticksArg, lost, shown>>

\* Start-up may end in the idle loop; kernel code that does other things is looked at too.
SetUp ==
    /\ task = "set_up" /\ EnableInterrupts
    /\ task' \in {"read", "other"}
    /\ UNCHANGED <<pic, masked, channel, _pit_ticks, inTick, ticksArg, lost, shown>>

-----------------------------------------------------------------------------
(* Interrupts *)

\* A device raises its line.
Raise(line) ==
    /\ line \notin pic["master"].irr
    /\ line = 0 => /\ _pit_ticks + (IF inTick THEN 1 ELSE 0) < MaxTicks
                   /\ channel[0] = "waits" => KeepsCounting
    /\ pic' = [pic EXCEPT !["master"].irr = @ \cup {line}]
    /\ UNCHANGED <<klogVars, masked, channel, _pit_ticks, inTick, task, ticksArg, lost, shown>>

Acknowledged(line) ==
    [pic EXCEPT !["master"].irr = @ \ {line}, !["master"].isr = @ \cup {line}]

\* The places of klog before and after it has used its format, a register until then.
Called == {"lock", "take", "leave"}
Working == {"head", "tail", "write"}

\* What the timer's handler may change of the klog it interrupts: it saves no register.
\* (A panic ends as it does whatever is changed of it; what a handler finds, and code that
\* is no part of this module, is arbitrary already.)
AtRisk ==
    IF task = "call" \/ \E at \in Called : Depth = 1 /\ TopIs({"klog"}, at)
    THEN {"arguments"}
    ELSE IF \E at \in Working : Depth = 1 /\ TopIs({"klog"}, at) THEN {"work"}
    ELSE {}

\* The flags that spin_lock has read are in such a register too.
FlagsRead == IF TopIs(Printers, "take") THEN {stack, MovedTo("leave")} ELSE {stack}

\* The timer's interrupt is taken: _isr_pit.
TakeTick ==
    /\ intr /\ Asks(0)
    /\ pic' = Acknowledged(0)
    /\ intr' = FALSE
    /\ inTick' = TRUE
    /\ lost' \in {lost} \cup (IF lost = "nothing" THEN AtRisk ELSE {})
    /\ stack' \in FlagsRead
    /\ UNCHANGED <<_log_buf, _lock, masked, channel, _pit_ticks, task, ticksArg, shown>>

\* _isr_pit_helper and iretq; a halted processor goes on after it.
IsrPit ==
    /\ inTick
    /\ _pit_ticks' = _pit_ticks + 1
    /\ pic' = pic_send_eoi(pic, IRQ_TIMER)
    /\ inTick' = FALSE
    /\ intr' = TRUE
    /\ task' = IF task = "halted" THEN "read" ELSE task
    /\ UNCHANGED <<stack, _log_buf, _lock, masked, channel, ticksArg, lost, shown>>

\* No other line has a gate: an exception.
TakeOther(line) ==
    /\ line # 0 /\ intr /\ Asks(line)
    /\ pic' = Acknowledged(line)
    /\ Enter("trap")
    /\ UNCHANGED <<masked, channel, _pit_ticks, inTick, task, ticksArg, lost, shown>>

-----------------------------------------------------------------------------
(* The idle loop *)

\* An instruction of the kernel, none of which changes the devices.
Instruction ==
    /\ ~inTick /\ ~Pending
    /\ UNCHANGED <<pic, masked, channel, _pit_ticks, inTick>>

\* pit_get_ticks, and the arguments of klog are in their registers.
ReadTicks ==
    /\ task = "read" /\ stack = <<>>
    /\ ticksArg' = _pit_ticks
    /\ task' = "call"
    /\ Instruction /\ UNCHANGED <<klogVars, lost, shown>>

CallKlog ==
    /\ task = "call" /\ Call("klog")
    /\ task' = "logging"
    /\ Instruction /\ UNCHANGED <<ticksArg, lost, shown>>

\* hlt
Halt ==
    /\ task = "logging" /\ stack = <<>>
    /\ task' = "halted"
    /\ Instruction /\ UNCHANGED <<klogVars, ticksArg, lost, shown>>

-----------------------------------------------------------------------------
(* Steps of Klog *)

\* klog's format is at address 0x20 now, where nothing is mapped; or another pointer that it
\* works with is one of the handler's small numbers, which no page of the heap has.
FormatFaults ==
    /\ Depth = 1
    /\ \/ lost = "arguments" /\ TopIs({"klog"}, "head")
       \/ lost = "work" /\ \E at \in Working : TopIs({"klog"}, at)
    /\ Enter("fault")
    /\ Instruction /\ UNCHANGED <<task, ticksArg, lost, shown>>

WriteTicks ==
    /\ Write
    /\ shown' = IF Depth = 1 /\ task = "logging" /\ lost = "nothing" THEN ticksArg ELSE shown
    /\ Instruction /\ UNCHANGED <<task, ticksArg, lost>>

\* A printer or a handler goes on; what was lost was the last printer's.
KlogGoesOn ==
    /\ \/ ReadFlags \/ Lock \/ LeaveLock \/ Nest \/ FormatTail \/ Unlock
       \/ HandlerLogs \/ FaultAborts \/ CrashAndBurn
       \/ (FormatHead /\ ~(lost = "arguments" /\ Depth = 1))
       \/ (FaultReturns /\ lost = "nothing")
    /\ lost' = IF stack' = <<>> THEN "nothing" ELSE lost
    /\ Instruction /\ UNCHANGED <<task, ticksArg, shown>>

\* Code other than the idle loop logs, panics, or touches a page that is to be allocated;
\* an exception may come at any time.
KlogStarts ==
    /\ \/ /\ task \in {"boot", "set_up", "other"}
          /\ PageFault \/ \E fn \in Printers : Call(fn)
       \/ Trap
    /\ Instruction /\ UNCHANGED <<task, ticksArg, lost, shown>>

TimerInit ==
    /\ Init
    /\ masked \in FirmwareMasks
    /\ pic = [master |-> [expects |-> 0, base |-> 8, imr |-> masked, irr |-> {}, isr |-> {}],
              slave |-> [expects |-> 0, base |-> 112, imr |-> {}, irr |-> {}, isr |-> {}]]
    /\ channel = [c \in {0, 2} |-> "firmware"]
    /\ _pit_ticks = 0
    /\ inTick = FALSE
    /\ task = "boot"
    /\ ticksArg = 0
    /\ lost = "nothing"
    /\ shown = 0

Tick == TakeTick \/ IsrPit
Idle == ReadTicks \/ CallKlog \/ Halt
Progress ==
    \/ InitDevices \/ SetUp \/ Idle \/ FormatFaults \/ WriteTicks \/ KlogGoesOn
    \/ Tick \/ \E line \in Lines : TakeOther(line)

TimerNext ==
    \/ Progress \/ KlogStarts
    \/ \E line \in Lines : Raise(line)

\* The processor runs on, and the timer ticks on, up to the bound.
TimerSpec ==
    /\ TimerInit /\ [][TimerNext]_vars
    /\ WF_vars(Progress) /\ WF_vars(Raise(0))

-----------------------------------------------------------------------------
(* Properties *)

\* Every interrupt is served through a controller that was set up, and never for a line that
\* the firmware had masked; a tick is in service while its handler runs and not after, so
\* that it does not keep the next one back (pic.c:28-73, pit.c:44-53).
InterruptsServed ==
    LET p == pic["master"]
    IN  /\ p.isr # {} => p.expects = 0 /\ p.base = IRQ_TIMER
        /\ p.isr \cap masked = {}
        /\ (0 \in p.isr) <=> inTick

Crashing == \E i \in 1..Depth : stack[i].at = "crash" \/ stack[i].fn \in {"trap", "panic"}

\* The idle loop shows every tick, or a later one, unless the kernel crashes: a tick that
\* comes between the reading of the count and the halt is shown after the next one, if there
\* is a next one within the bound (kinit.c:130-134).
LastTick == task = "halted" /\ _pit_ticks = MaxTicks
TicksShown ==
    \A n \in 1..MaxTicks - 1 :
        (_pit_ticks = n /\ task # "other") ~> (shown >= n \/ Crashing \/ LastTick)

Caller == IF Depth > 1 THEN stack[Depth - 1].fn ELSE "task"

\* klog returns to running code, or to the page fault handler, with the interrupt flag that it
\* was called with, whatever ticks come and even if one has changed the flags that spin_lock
\* read (spin.h:18-36, pit.c:50-53).  It says nothing of a klog that a tick has made use other
\* registers than its own, nor of the klog in a __panic: that one's unlock gives back another
\* flag (UnlockRestores).
TickKeepsInterrupts ==
    [][/\ lost = "nothing" /\ TopIs({"klog"}, "unlock") /\ Caller \in {"task", "fault"}
       /\ Unlock
       => intr' = Top.was]_vars

\* No klog uses arguments that a tick has changed.
ArgumentsKept == lost = "arguments" => ~TopIs({"klog"}, "head")

\* pit.c:55 "Configure the PIT for a continuous timer tick, with given frequency": channel 0
\* has a count.
TimerProgrammed == task # "boot" => channel[0] \notin {"firmware", "waits"}

\* pic.c:27 "Initialize the PIC, and set the base interrupt numbers": both controllers.
PicsInitialised ==
    task # "boot" => /\ pic["slave"].expects = 0 /\ pic["slave"].base = IRQ_RTC
=============================================================================
