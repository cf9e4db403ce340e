------------------------------- MODULE Serial -------------------------------
(***************************************************************************)
(* The serial port: the driver (kernel/arch/x86_64/serial.c, and that of    *)
(* the boot loader, bootloader/stage2/io/serial.c) and the transmitter of   *)
(* the device, which holds one byte while it sends it.                     *)
(***************************************************************************)
EXTENDS Integers, Sequences

CONSTANT Driver     \* whose driver: "kernel" or "stage2"

ASSUME SerialAssumption == Driver \in {"kernel", "stage2"}

VARIABLES
    uart,      \* registers: the access bit, divisor, word format; what the transmitter holds
    str,       \* what serial_write_str has yet to write
    sent,      \* what it was called with
    wire       \* what the other end has received of that

serialVars == <<uart, str, sent, wire>>

Garbled == -1

\* What the transmitter holds: nothing, or a byte.
Idle == <<>>
Sending(byte) == <<byte>>

\* The divisor after a write of value to reg.
Divisor(u, reg, value) ==
    IF reg = "DATA" /\ u.dlab = 1 THEN (u.divisor \div 256) * 256 + value
    ELSE IF reg = "INT_EN" /\ u.dlab = 1 THEN (u.divisor % 256) + value * 256
    ELSE u.divisor

\* A write to one of the device's registers.  A second byte replaces the one not yet sent.
UartWrite(u, reg, value) ==
    [dlab |-> IF reg = "LINE_CTRL" THEN value \div 128 ELSE u.dlab,
     divisor |-> Divisor(u, reg, value),
     format |-> IF reg = "LINE_CTRL" THEN value % 128 ELSE u.format,
     holds |-> IF reg = "DATA" /\ u.dlab = 0 THEN Sending(value) ELSE u.holds]

Reset == [dlab |-> 0, divisor |-> 12, format |-> 0, holds |-> Idle]

LINE_CTRL_DLAB == 128
LINE_CTRL_8BIT == 3

_init_com(u, baud_rate) ==
    LET divisor == (115200 \div baud_rate) % 65536
        off == UartWrite(u, "INT_EN", 0)
        access == UartWrite(off, "LINE_CTRL", LINE_CTRL_DLAB)
        low == UartWrite(access, "DATA", divisor % 256)
        high == UartWrite(low, "INT_EN", divisor \div 256)
        line == UartWrite(high, "LINE_CTRL", LINE_CTRL_8BIT)
    IN  IF baud_rate < 2 \/ baud_rate > 115200 THEN u ELSE UartWrite(line, "MODEM_CTRL", 11)

serial_init(u) == _init_com(u, 115200)

\* The boot loader's driver tests the number of the status port, 0x3fd: always so.
Stage2TransmitEmpty(u) == (1021 \div 32) % 2 = 1

\* The form that does not look at the device.
NotLooking(u) == TRUE

_is_transmit_empty(u) ==
    IF Driver = "kernel" THEN u.holds = Idle ELSE Stage2TransmitEmpty(u)

SerialInit ==
    /\ uart = serial_init(Reset)
    /\ str = <<>> /\ sent = <<>> /\ wire = <<>>

\* serial_write_str is called, the line being idle.
StartWrite(text) ==
    /\ str = <<>> /\ uart.holds = Idle
    /\ str' = text /\ sent' = text
    /\ wire' = <<>>
    /\ UNCHANGED uart

serial_write_byte ==
    /\ str # <<>> /\ _is_transmit_empty(uart)
    /\ uart' = UartWrite(uart, "DATA", Head(str))
    /\ str' = Tail(str)
    /\ UNCHANGED <<sent, wire>>

\* The device sends the byte; the other end listens at 115200 baud, 8 bits.
Transmit ==
    /\ uart.holds # Idle
    /\ wire' = wire \o (IF uart.divisor = 1 /\ uart.format = 3 THEN uart.holds ELSE <<Garbled>>)
    /\ uart' = [uart EXCEPT !.holds = Idle]
    /\ UNCHANGED <<str, sent>>

\* What is written arrives, whole and in order: at any moment the other end has what is
\* neither in the device nor still to be written (serial.c:80-106).
WireIsText ==
    wire \o uart.holds \o str = sent
=============================================================================
