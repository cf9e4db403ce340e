--------------------------- MODULE DivisionFacts ---------------------------
(* Facts about \div, about intervals and about least numbers that the proofs of *)
(* the memory managers rest on.                                                 *)
EXTENDS Integers, TLAPS, WellFoundedInduction

\* A quotient is the largest number of whole divisors.
LEMMA DivFacts ==
    ASSUME NEW a \in Nat, NEW b \in Nat \ {0}
    PROVE  /\ a \div b \in Nat
           /\ b * (a \div b) <= a
           /\ a < b * (a \div b) + b
  BY SMT

\* The j-th bit of word w belongs to word w.
LEMMA DivUnique ==
    ASSUME NEW w \in Nat, NEW b \in Nat \ {0}, NEW j \in 0..b - 1
    PROVE  (b * w + j) \div b = w
  <1> DEFINE q == (b * w + j) \div b
  <1>1. b * w \in Nat
    BY SMT
  <1>2. q \in Nat /\ b * q <= b * w + j /\ b * w + j < b * q + b
    BY <1>1, DivFacts
  <1>3. b * (q - w) < b /\ b * (w - q) < b
    BY <1>2, SMT
  <1>4. CASE q > w
    <2>1. b * (q - w) >= b
      BY <1>2, <1>4, SMT
    <2> QED
      BY <1>2, <1>3, <2>1, SMT
  <1>5. CASE w > q
    <2>1. b * (w - q) >= b
      BY <1>2, <1>5, SMT
    <2> QED
      BY <1>2, <1>3, <2>1, SMT
  <1> QED
    BY <1>2, <1>4, <1>5, SMT

\* The remainder is what the quotient leaves.
LEMMA ModFacts ==
    ASSUME NEW a \in Nat, NEW b \in Nat \ {0}
    PROVE  a % b \in 0..b - 1 /\ a = b * (a \div b) + (a % b)
  BY SMT

\* Dividing twice is dividing by the product.
LEMMA DivDiv ==
    ASSUME NEW a \in Nat, NEW b \in Nat \ {0}, NEW c \in Nat \ {0}
    PROVE  a \div (b * c) = (a \div b) \div c
  <1> DEFINE q == a \div b
             r == q \div c
             d == b * c
  <1>1. q \in Nat /\ b * q <= a /\ a < b * q + b
    BY DivFacts
  <1>2. r \in Nat /\ c * r <= q /\ q < c * r + c
    BY <1>1, DivFacts
  <1> HIDE DEF q, r
  <1>3. d \in Nat \ {0}
    BY SMT
  <1>4. d * r <= b * q
    <2>1. d * r = b * (c * r)
      BY <1>2, SMT
    <2> QED
      BY <1>1, <1>2, <2>1, SMT
  <1>5. b * q + b <= d * r + d
    <2>1. d * r + d = b * (c * r + c)
      BY <1>2, SMT
    <2>2. b * (q + 1) <= b * (c * r + c)
      BY <1>1, <1>2, SMT
    <2> QED
      BY <1>1, <1>2, <2>1, <2>2, SMT
  <1>6. d * r \in Nat
    BY <1>2, <1>3, SMT
  <1>7. a - d * r \in 0..d - 1
    BY <1>1, <1>3, <1>4, <1>5, <1>6, SMT
  <1> HIDE DEF d
  <1>8. (d * r + (a - d * r)) \div d = r
    BY <1>2, <1>3, <1>7, DivUnique
  <1>9. d * r + (a - d * r) = a
    BY <1>6, SMT
  <1> QED
    BY <1>8, <1>9 DEF d, q, r

\* A word below the n-th ends no later than n words do.
LEMMA WordBelow ==
    ASSUME NEW i \in Nat, NEW n \in Nat, NEW b \in Nat \ {0}, i < n
    PROVE  b * i + b <= b * n
  BY SMT

\* The least number of a set of numbers.
LEMMA NatLeast ==
    ASSUME NEW T \in SUBSET Nat, T # {}
    PROVE  \E x \in T : \A y \in T : x <= y
  <1>1. PICK x \in T : \A y \in T : <<y, x>> \notin OpToRel(<, Nat)
    BY NatLessThanWellFounded, WFMin
  <1>2. \A y \in T : ~(y < x)
    BY <1>1 DEF OpToRel
  <1> QED
    BY <1>2
=============================================================================
