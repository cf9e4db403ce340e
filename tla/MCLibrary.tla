----------------------------- MODULE MCLibrary ------------------------------
(* The library's callers, with small types and memories for TLC. *)
EXTENDS Library

Types == [q \in {"h", "int", "l"} |-> CASE q = "h" -> 4 [] q = "int" -> 6 [] q = "l" -> 8]

\* Memories of terminators, a letter in both cases, and a byte that is a negative char.
SmallMemories == [1..5 -> {0, 65, 97}] \cup [1..5 -> {0, 97, 200}]

Uniform == {[a \in 1..5 |-> c] : c \in {0, 97}}

Letter == Conversion({}, -1, FALSE, -1, "int", "char", <<97>>)

Integers_ ==
    {<<Conversion(f, w, FALSE, p, "int", k, <<n>>)>> :
        f \in SUBSET Flags, w \in {-1, 4}, p \in {-1, 3}, k \in {"d", "u", "x"}, n \in {0, 9, 61}}

Qualified ==
    {<<Letter, Conversion({"zeropad"}, w, TRUE, -1, q, k, <<n>>)>> :
        w \in {-3, 4}, q \in {"h", "l", "L", "z"}, k \in {"i", "o", "X"}, n \in {7, 13, 250}}

Others ==
    {<<Letter, Conversion(f, w, FALSE, -1, "int", "c", <<65>>)>> : f \in SUBSET {"left"}, w \in {-1, 3}}
    \cup {<<Conversion(f, w, FALSE, p, "int", "s", s), Letter>> :
             f \in SUBSET {"left"}, w \in {-1, 3}, p \in {-1, 0}, s \in {<<>>, <<65, 65>>, LowAddress}}
    \cup {<<Conversion(f, w, FALSE, -1, "l", "p", <<165>>)>> : f \in SUBSET {"special"}, w \in {-1, 4}}
    \cup {<<Letter, Conversion({}, -1, FALSE, -1, "int", "unknown", <<37, 52, 121>>), Letter>>,
          <<Letter, Conversion({}, -1, FALSE, -1, "int", "cut short", <<37, 52>>)>>}

AllFormats == Integers_ \cup Qualified \cup Others
=============================================================================
