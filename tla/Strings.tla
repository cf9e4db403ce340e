------------------------------ MODULE Strings -------------------------------
(***************************************************************************)
(* Memory and string functions of the C library (libc/string.c), as         *)
(* operators on a memory: a function from addresses to bytes.  A function   *)
(* that returns a pointer returns an address, or NULL.                      *)
(***************************************************************************)
EXTENDS Integers, SequencesExt

NULL == 0

\* A byte as the signed char that x86 compilers make of it.
Char(b) == IF b > 127 THEN b - 256 ELSE b

Chars == -128..127

Same == [c \in Chars |-> c]

\* 'A' to 'Z'.  For a negative character the macro reads before the table (ctype.h:33); what
\* it finds there is taken to be no letter.
tolower == [c \in Chars |-> IF c \in 65..90 THEN c + 32 ELSE c]

-----------------------------------------------------------------------------
(* Loops *)

Upwards(n) == [k \in 1..n |-> k - 1]
Downwards(n) == [k \in 1..n |-> n - k]

Assign(m, d, s) == [m EXCEPT ![d] = m[s]]

\* d[i] = s[i], for the offsets in their order.
Assigned(m, d, s, offsets) ==
    LET x[k \in 0..Len(offsets)] ==
            IF k = 0 THEN m ELSE Assign(x[k - 1], d + offsets[k], s + offsets[k])
    IN  x[Len(offsets)]

\* The first, or last, address of a set.
FirstOf(S) == IF S = {} THEN NULL ELSE Min(S)
LastOf(S) == IF S = {} THEN NULL ELSE Max(S)

-----------------------------------------------------------------------------
(* Blocks of memory *)

memcpy(m, d, s, n) == Assigned(m, d, s, Upwards(n))

\* The form that copies upwards, however the blocks lie.
MemmoveUpwards(m, d, s, n) == memcpy(m, d, s, n)

memmove(m, d, s, n) == IF d < s THEN memcpy(m, d, s, n) ELSE Assigned(m, d, s, Downwards(n))

memset(m, d, val, n) == [a \in DOMAIN m |-> IF a \in d..d + n - 1 THEN val % 256 ELSE m[a]]

memchr(m, d, val, n) == FirstOf({a \in d..d + n - 1 : m[a] = val % 256})

memcmp(m, a, b, n) ==
    LET differ == {i \in 0..n - 1 : m[a + i] # m[b + i]}
    IN  IF differ = {} THEN 0 ELSE Char(m[a + Min(differ)]) - Char(m[b + Min(differ)])

-----------------------------------------------------------------------------
(* Strings *)

\* Is there a string at s: does a terminator follow within the memory?
IsString(m, s) == s \in DOMAIN m /\ \E a \in DOMAIN m : a >= s /\ m[a] = 0

strlen(m, s) == IF s = NULL THEN 0 ELSE Min({a \in DOMAIN m : a >= s /\ m[a] = 0}) - s

StringAt(m, s) == [i \in 1..strlen(m, s) |-> m[s + i - 1]]

strncpy(m, d, s, n) ==
    IF s = NULL \/ d = NULL THEN m ELSE memcpy(m, d, s, Min({strlen(m, s), n}))

\* The terminator is not copied.
strcpy(m, d, s) == strncpy(m, d, s, strlen(m, s))

strcat(m, d, s) == strcpy(m, d + strlen(m, d), s)

strncat(m, d, s, n) ==
    LET len == strlen(m, d) IN IF len < n THEN strncpy(m, d + len, s, n - len) ELSE m

\* The four comparisons: up to n characters, each as `as' has it.
Compared(m, a, b, n, as) ==
    LET stops == {i \in 0..Min({strlen(m, a), strlen(m, b), n}) :
                     \/ i = n \/ m[a + i] = 0 \/ m[b + i] = 0
                     \/ as[Char(m[a + i])] # as[Char(m[b + i])]}
        i == Min(stops)
    IN  IF a = NULL \/ b = NULL \/ i = n THEN 0 ELSE as[Char(m[a + i])] - as[Char(m[b + i])]

NoLimit(m) == Cardinality(DOMAIN m) + 1

strcmp(m, a, b) == Compared(m, a, b, NoLimit(m), Same)
strncmp(m, a, b, n) == Compared(m, a, b, n, Same)
stricmp(m, a, b) == Compared(m, a, b, NoLimit(m), tolower)
strnicmp(m, a, b, n) == Compared(m, a, b, n, tolower)

\* The searches never find the terminator.
strchr(m, s, c) == FirstOf({a \in s..s + strlen(m, s) - 1 : m[a] = c})

strrchr(m, s, c) == LastOf({a \in s..s + strlen(m, s) - 1 : m[a] = c})

strstr(m, haystack, needle) ==
    FirstOf({a \in haystack..haystack + strlen(m, haystack) - 1 :
              IsPrefix(StringAt(m, needle), StringAt(m, a))})
=============================================================================
