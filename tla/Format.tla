------------------------------- MODULE Format -------------------------------
(***************************************************************************)
(* Formatted output (kernel/vsprintf.c).  A format is a sequence of items:  *)
(* a character, or a conversion with the argument that it takes.  Texts     *)
(* are sequences of character codes.                                       *)
(***************************************************************************)
EXTENDS Integers, SequencesExt

CONSTANT Bits     \* widths of the integer types: a function of "h", "int" and "l"

ASSUME BitsAssumption ==
    /\ DOMAIN Bits = {"h", "int", "l"} /\ \A q \in DOMAIN Bits : Bits[q] \in Nat \ {0}
    /\ Bits["h"] <= Bits["int"] /\ Bits["int"] <= Bits["l"]

Flags == {"zeropad", "plus", "space", "left", "special"}

IntegerConvs == {"d", "i", "u", "o", "x", "X"}
PlainConvs == {"char", "unknown", "cut short"}

\* A conversion: its flags, its width and precision (-1 if there is none), whether the width
\* is an argument, its qualifier, its character and its argument: <<number>> or a text.
Conversion(flags, width, star, precision, qualifier, conv, arg) ==
    [flags |-> flags, width |-> width, star |-> star, precision |-> precision,
     qualifier |-> qualifier, conv |-> conv, arg |-> arg]

Items == [flags : SUBSET Flags, width : Int, star : BOOLEAN, precision : Int,
          qualifier : {"h", "int", "l", "L", "z", "Z"},
          conv : IntegerConvs \cup PlainConvs \cup {"c", "s", "p"}, arg : Seq(Int)]

LowAddress == <<-1>>                       \* a pointer into the first page

\* Arguments that fit their conversions: a word, or a text of characters other than NUL.
Fits(c) ==
    IF c.conv \in IntegerConvs \cup {"p"} THEN Len(c.arg) = 1 /\ c.arg[1] \in Nat
    ELSE c.arg \in Seq(1..255) \/ (c.conv = "s" /\ c.arg = LowAddress)

SpaceChar == 32
PlusChar == 43
MinusChar == 45
ZeroChar == 48

Copies(c, n) == [i \in 1..(IF n > 0 THEN n ELSE 0) |-> c]

\* 2^n.
Pow2(n) ==
    LET p[k \in 0..n] == IF k = 0 THEN 1 ELSE 2 * p[k - 1]
    IN  p[n]

-----------------------------------------------------------------------------
(* _number *)

DigitChar(d, large) ==
    IF d < 10 THEN ZeroChar + d ELSE (IF large THEN 65 ELSE 97) + d - 10

\* The digits of 0..num, the most significant first.
Digits(num, base, large) ==
    LET text[n \in 0..num] ==
            IF n < base THEN <<DigitChar(n, large)>>
            ELSE Append(text[n \div base], DigitChar(n % base, large))
    IN  text[num]

IsNegative(num) == num >= Pow2(Bits["l"] - 1)

SignText(num, signed, flags) ==
    IF ~signed THEN <<>>
    ELSE IF IsNegative(num) THEN <<MinusChar>>
    ELSE IF "plus" \in flags THEN <<PlusChar>>
    ELSE IF "space" \in flags THEN <<SpaceChar>> ELSE <<>>

PrefixText(base, large, flags) ==
    IF "special" \in flags /\ base = 16 THEN <<ZeroChar, IF large THEN 88 ELSE 120>>
    ELSE IF "special" \in flags /\ base = 8 THEN <<ZeroChar>> ELSE <<>>

\* The form that does not take the sign off the width.
PaddingUnsigned(size, sign, prefix, digits) == size - Len(prefix \o digits)

\* How many characters are wanting in the width.
Padding(size, sign, prefix, digits) == size - Len(sign \o prefix \o digits)

_number(num, base, signed, large, size, precision, flags) ==
    LET sign == SignText(num, signed, flags)
        value == IF signed /\ IsNegative(num) THEN Pow2(Bits["l"]) - num ELSE num
        prefix == PrefixText(base, large, flags)
        bare == Digits(value, base, large)
        digits == Copies(ZeroChar, precision - Len(bare)) \o bare
        pad == Padding(size, sign, prefix, digits)
    IN  IF "left" \in flags THEN sign \o prefix \o digits \o Copies(SpaceChar, pad)
        ELSE IF "zeropad" \in flags THEN sign \o prefix \o Copies(ZeroChar, pad) \o digits
        ELSE Copies(SpaceChar, pad) \o sign \o prefix \o digits

-----------------------------------------------------------------------------
(* Conversions *)

Width(q) ==
    IF q = "h" THEN Bits["h"] ELSE IF q \in {"l", "L", "z", "Z"} THEN Bits["l"] ELSE Bits["int"]

\* The argument as an unsigned long long, sign-extended from its type for a signed conversion.
Fetched(arg, q, signed) ==
    LET w == Width(q)
        low == arg % Pow2(w)
    IN  IF signed /\ low >= Pow2(w - 1) THEN low + Pow2(Bits["l"]) - Pow2(w) ELSE low

\* A negative width argument means left justification.
Flags_(c) == IF c.star /\ c.width < 0 THEN c.flags \cup {"left"} ELSE c.flags
Size(c) == IF c.star /\ c.width < 0 THEN -c.width ELSE c.width

CharText(c) ==
    LET pad == Copies(SpaceChar, Size(c) - 1)
    IN  IF "left" \in Flags_(c) THEN c.arg \o pad ELSE pad \o c.arg

Null == <<40, 110, 117, 108, 108, 41>>     \* (null)

\* A string is padded on the left only, and no precision cuts it.
StringText(c) ==
    LET s == IF c.arg = LowAddress THEN Null ELSE c.arg
    IN  (IF "left" \in Flags_(c) THEN <<>> ELSE Copies(SpaceChar, Size(c) - Len(s))) \o s

PointerText(c) ==
    LET bare == Size(c) = -1
    IN  _number(Fetched(c.arg[1], "l", FALSE), 16, FALSE, FALSE,
                IF bare THEN Bits["l"] \div 4 ELSE Size(c), c.precision,
                IF bare THEN Flags_(c) \cup {"zeropad"} ELSE Flags_(c))

Base(c) == IF c.conv = "o" THEN 8 ELSE IF c.conv \in {"x", "X"} THEN 16 ELSE 10

IntegerText(c) ==
    LET signed == c.conv \in {"d", "i"}
    IN  _number(Fetched(c.arg[1], c.qualifier, signed), Base(c), signed, c.conv = "X", Size(c),
                c.precision, Flags_(c))

\* An item that is no known conversion is written as it stands: arg is its text.
ItemText(c) ==
    IF c.conv \in PlainConvs THEN c.arg
    ELSE IF c.conv = "c" THEN CharText(c)
    ELSE IF c.conv = "s" THEN StringText(c)
    ELSE IF c.conv = "p" THEN PointerText(c) ELSE IntegerText(c)

-----------------------------------------------------------------------------
(* vsnprintf *)

\* Characters from str on, as many as have an address up to end.
Put(m, str, end, text) ==
    [a \in DOMAIN m |-> IF a \in str..str + Len(text) - 1 /\ a <= end THEN text[a - str + 1] ELSE m[a]]

\* The form of the end of vsnprintf that writes the terminator where the text ends.
TerminateAtText(m, str, end, size) == Put(m, str, Max(DOMAIN m), <<0>>)

Terminate(m, str, end, size) ==
    IF str <= end THEN [m EXCEPT ![str] = 0]
    ELSE IF size > 0 THEN [m EXCEPT ![end] = 0] ELSE m

\* The loop that writes an unknown conversion does not advance once the buffer is full.  It
\* leaves the last character to the code after it, if the format does not end there.
Hangs(str, end, c) ==
    \/ c.conv = "unknown" /\ str + Len(c.arg) - 2 > end
    \/ c.conv = "cut short" /\ str + Len(c.arg) - 1 > end

PutItem(r, end, c) ==
    [mem |-> Put(r.mem, r.str, end, ItemText(c)),
     str |-> r.str + Len(ItemText(c)),
     hangs |-> r.hangs \/ Hangs(r.str, end, c)]

Formatted(m, buf, end, format) ==
    LET r[i \in 0..Len(format)] ==
            IF i = 0 THEN [mem |-> m, str |-> buf, hangs |-> FALSE]
            ELSE PutItem(r[i - 1], end, format[i])
    IN  r[Len(format)]

\* What it leaves in memory, what it returns, and whether it does not return.
vsnprintf(m, buf, size, format) ==
    LET end == buf + size - 1
        r == Formatted(m, buf, end, format)
    IN  [mem |-> Terminate(r.mem, r.str, end, size), returns |-> r.str - buf, hangs |-> r.hangs]
=============================================================================
