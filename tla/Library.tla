------------------------------ MODULE Library -------------------------------
(***************************************************************************)
(* One caller of the kernel's library: it moves blocks and strings about a  *)
(* memory (Strings), formats a message into it (Format) and has it written  *)
(* to the serial line (Serial), as klog does (klog.c:29-35).               *)
(***************************************************************************)
EXTENDS Strings, Format, Serial

CONSTANTS
    Memories,        \* what the memory may hold at first
    MessageBuffers,  \* those in which a message may be formatted
    Formats,         \* the formats of messages, with their arguments
    Sizes            \* the sizes of the message buffer, which starts at address 1

ASSUME LibraryAssumption ==
    /\ MessageBuffers \subseteq Memories
    /\ \A m \in Memories : LET n == Cardinality(DOMAIN m)
                           IN  /\ IsFiniteSet(DOMAIN m) /\ m \in [1..n -> 0..255]
                               /\ Sizes \subseteq 0..n
    /\ \A f \in Formats : f \in Seq(Items) /\ \A i \in DOMAIN f : Fits(f[i])

VARIABLES
    mem,
    task,      \* "free", "formatted", "writing", or "hung" in vsnprintf
    msg        \* the message formatted: its size and format

vars == <<serialVars, mem, task, msg>>

Addr == DOMAIN mem
Buf == 1

NoMessage == [size |-> 0, format |-> <<>>]

Room(a, n) == a + n - 1 \in Addr \/ n = 0
Apart(a, n, b, k) == a + n <= b \/ b + k <= a

-----------------------------------------------------------------------------
(* Calls, with the arguments that C allows *)

Stores(m) ==
    /\ mem' = m
    /\ UNCHANGED <<serialVars, task, msg>>

Memcpy(d, s, n) == Room(d, n) /\ Room(s, n) /\ Apart(d, n, s, n) /\ Stores(memcpy(mem, d, s, n))
Memmove(d, s, n) == Room(d, n) /\ Room(s, n) /\ Stores(memmove(mem, d, s, n))
Memset(d, c, n) == Room(d, n) /\ Stores(memset(mem, d, c, n))

\* The strings are apart, and there is room for a terminator that the functions do not write.
Takes(d, s, n) ==
    /\ IsString(mem, s)
    /\ Room(d, n + 1) /\ Apart(d, n + 1, s, strlen(mem, s) + 1)

Strcpy(d, s) == Takes(d, s, strlen(mem, s)) /\ Stores(strcpy(mem, d, s))
Strncpy(d, s, n) == Takes(d, s, n) /\ Stores(strncpy(mem, d, s, n))
Strcat(d, s) ==
    /\ IsString(mem, d) /\ Takes(d, s, strlen(mem, d) + strlen(mem, s))
    /\ Stores(strcat(mem, d, s))
Strncat(d, s, n) == IsString(mem, d) /\ Takes(d, s, n) /\ Stores(strncat(mem, d, s, n))

Snprintf(size, format) ==
    /\ LET r == vsnprintf(mem, Buf, size, format)
       IN  mem' = r.mem /\ task' = IF r.hangs THEN "hung" ELSE "formatted"
    /\ msg' = [size |-> size, format |-> format]
    /\ UNCHANGED serialVars

Write ==
    /\ task = "formatted" /\ msg.size > 0
    /\ StartWrite(StringAt(mem, Buf))
    /\ task' = "writing"
    /\ UNCHANGED <<mem, msg>>

Sends == (serial_write_byte \/ Transmit) /\ UNCHANGED <<mem, task, msg>>

LibraryInit ==
    /\ SerialInit
    /\ mem \in Memories
    /\ task = "free"
    /\ msg = NoMessage

Calls ==
    \/ \E d, s \in Addr, n \in 0..Cardinality(Addr) :
          Memcpy(d, s, n) \/ Memmove(d, s, n) \/ Strncpy(d, s, n) \/ Strncat(d, s, n)
    \/ \E d, s \in Addr : Strcpy(d, s) \/ Strcat(d, s) \/ Memset(d, mem[s], s)
    \/ mem \in MessageBuffers /\ \E size \in Sizes, format \in Formats : Snprintf(size, format)

Next == (task = "free" /\ Calls) \/ Write \/ Sends

Spec == LibraryInit /\ [][Next]_vars

-----------------------------------------------------------------------------
(* Properties *)

\* The block and string functions agree about a memory: a moved block is what the source was,
\* also where the two overlap, and nothing else changes; the searches find what lies first or
\* last; a string found in another compares equal to it, and none before it does
\* (string.c:18-30, 124-137, 157-175, 200-242).
MovesBlock(d, s, n) ==
    LET m == memmove(mem, d, s, n)
    IN  \A a \in Addr : m[a] = IF a \in d..d + n - 1 THEN mem[s + a - d] ELSE mem[a]

SearchesAgree(s, c) ==
    LET first == strchr(mem, s, c)
        last == strrchr(mem, s, c)
    IN  /\ first = memchr(mem, s, c, strlen(mem, s))
        /\ first = NULL <=> last = NULL
        /\ first # NULL => /\ strchr(mem, last, c) = last /\ strchr(mem, last + 1, c) = NULL
                           /\ first <= last

ComparesAgree(a, b) ==
    LET found == strstr(mem, a, b)
        n == strlen(mem, b)
    IN  /\ strcmp(mem, a, b) = 0 <=> (strlen(mem, a) = n /\ memcmp(mem, a, b, n) = 0)
        /\ strcmp(mem, a, b) > 0 <=> strcmp(mem, b, a) < 0
        /\ strcmp(mem, a, b) = 0 => stricmp(mem, a, b) = 0
        /\ \A k \in 0..n : strncmp(mem, a, b, k) = 0 => strnicmp(mem, a, b, k) = 0
        /\ found # NULL => strncmp(mem, found, b, n) = 0
        /\ \A x \in a..a + strlen(mem, a) - 1 : strncmp(mem, x, b, n) = 0 => found \in a..x

StringsRight ==
    task = "free" =>
        /\ \A d, s \in Addr, n \in 0..Cardinality(Addr) :
              Room(d, n) /\ Room(s, n) => MovesBlock(d, s, n)
        /\ \A a, b \in Addr :
              IsString(mem, a) /\ IsString(mem, b) => SearchesAgree(a, mem[b]) /\ ComparesAgree(a, b)

DigitChars == (48..57) \cup (65..70) \cup (97..102)
DigitOf(c) == IF c < 65 THEN c - ZeroChar ELSE IF c < 97 THEN c - 55 ELSE c - 87

\* What a text's digits say to a reader; whatever else is in it does not count.
Reading(text, base) ==
    LET n[i \in 0..Len(text)] ==
            IF i = 0 THEN 0
            ELSE IF text[i] \in DigitChars THEN n[i - 1] * base + DigitOf(text[i]) ELSE n[i - 1]
    IN  n[Len(text)]

Value(text, base) ==
    IF \E i \in DOMAIN text : text[i] = MinusChar THEN -Reading(text, base) ELSE Reading(text, base)

\* The argument as its C type has it.
Typed(c) ==
    LET w == Width(c.qualifier)
        low == c.arg[1] % Pow2(w)
    IN  IF c.conv \in {"d", "i"} /\ low >= Pow2(w - 1) THEN low - Pow2(w) ELSE low

\* The conversion without its width.
Bare(c) ==
    Conversion(Flags_(c) \ {"left", "zeropad"}, -1, FALSE, c.precision, c.qualifier, c.conv, c.arg)

\* The text of a number says its value, fills its width and is no longer than it must be, for
\* every combination of flags, width, precision and qualifier (vsprintf.c:28-134, 309-329).
NumberOk(c) ==
    LET text == ItemText(c)
        bare == ItemText(Bare(c))
    IN  /\ Value(text, Base(c)) = Typed(c)
        /\ Len(text) = Max({Len(bare), Size(c)})
        /\ Cardinality({i \in DOMAIN bare : bare[i] \in DigitChars}) >= c.precision
        /\ "left" \in Flags_(c) => IsPrefix(bare, text)

NumbersReadBack ==
    task \in {"formatted", "hung"} => \A i \in DOMAIN msg.format :
        msg.format[i].conv \in IntegerConvs => NumberOk(msg.format[i])

\* vsnprintf writes into the buffer as much of the message as fits and a terminator, whatever
\* the size, and nothing outside the buffer (vsprintf.c:142-152, 331-336).
BufferKept ==
    [][ task = "free" /\ task' # "free" =>
        LET text == FlattenSeq([i \in DOMAIN msg'.format |-> ItemText(msg'.format[i])])
            fits == Min({Len(text), msg'.size - 1})
        IN  /\ \A a \in Addr : a >= Buf + msg'.size => mem'[a] = mem[a]
            /\ task' = "formatted" /\ msg'.size > 0 =>
                  StringAt(mem', Buf) = SubSeq(text, 1, fits)
      ]_vars

\* string.c:82 "Copy null-terminated string from src to dest": there is a copy of it then.
StrcpyMakesCopy ==
    \A d, s \in Addr :
        Takes(d, s, strlen(mem, s)) =>
            LET m == strcpy(mem, d, s) IN IsString(m, d) /\ StringAt(m, d) = StringAt(mem, s)

\* A call of vsnprintf ends (vsprintf.c:291-298).
FormatsEnd == task # "hung"
=============================================================================
