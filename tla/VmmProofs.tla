------------------------------ MODULE VmmProofs ------------------------------
(***************************************************************************)
(* The page tables for any set of frames, any fan-out and any pages: they   *)
(* are a tree of four levels in which every frame that is out has one       *)
(* place, they agree with TLB and heap break, and they behave as a map      *)
(* from pages to frames, until a new table is zeroed through what the TLB   *)
(* remembers of one that was freed.                                        *)
(*                                                                         *)
(* The tree is described by the level of each frame; a walk is the frames   *)
(* that lead to a page or a table.                                         *)
(***************************************************************************)
EXTENDS Vmm, DivisionFacts, SequenceTheorems

Nodes == Frames \cup {Root}

\* The entry a path leads to, in given contents of the frames.
Next_(ph, e, i) == IF e.kind = "present" THEN ph[e.frame][i] ELSE Unused
EntryIn(ph, p) ==
    LET e1 == ph[Root][p[1]]
        e2 == Next_(ph, e1, p[2])
        e3 == Next_(ph, e2, p[3])
        e4 == Next_(ph, e3, p[4])
    IN  CASE Len(p) = 1 -> e1
          [] Len(p) = 2 -> e2
          [] Len(p) = 3 -> e3
          [] Len(p) = 4 -> e4

\* The paths of k entries.
Routes(k) == [1..k -> Idx]

\* A path of n entries.
Path(p, n) == Len(p) = n /\ \A j \in 1..n : p[j] \in Idx

\* The first k steps along p lead through the frames of c.
Chains == [0..4 -> Nodes \cup {Device}]
Walk(ph, p, k, c) ==
    /\ c \in Chains /\ c[0] = Root
    /\ \A j \in 1..k : c[j - 1] \in Nodes /\ ph[c[j - 1]][p[j]] = Present(c[j])

\* Levels: 0 the root, 1 to 3 tables, 4 pages, 5 frames that the allocator has.
EntryOk(lvl, k, e) ==
    \/ e = Unused
    \/ k = 3 /\ e \in {ToAlloc, Present(Device)}
    \/ \E g \in Frames : e = Present(g) /\ lvl[g] = k + 1

Tree(ph, pl, lvl) ==
    /\ ph \in [Nodes -> [Idx -> Entries]]
    /\ lvl \in [Nodes -> 0..5] /\ pl \subseteq Frames
    /\ \A f \in Nodes : lvl[f] = 0 <=> f = Root
    /\ \A f \in Frames : lvl[f] = 5 <=> f \in pl
    /\ \A f \in Nodes, i \in Idx : lvl[f] <= 3 => EntryOk(lvl, lvl[f], ph[f][i])
    /\ \A g \in Frames : lvl[g] \in 1..4 =>
          \E f \in Nodes, i \in Idx : lvl[f] = lvl[g] - 1 /\ ph[f][i] = Present(g)
    /\ \A f1, f2 \in Nodes, i1, i2 \in Idx, g \in Frames :
          /\ lvl[f1] <= 3 /\ lvl[f2] <= 3
          /\ ph[f1][i1] = Present(g) /\ ph[f2][i2] = Present(g)
          => f1 = f2 /\ i1 = i2

\* One entry is written, and the rest is as it was, but for frame N in the second form.
Writes(ph, ph2, F, I, e) ==
    /\ ph2 \in [Nodes -> [Idx -> Entries]]
    /\ ph2[F][I] = e
    /\ \A f \in Nodes, i \in Idx : ~(f = F /\ i = I) => ph2[f][i] = ph[f][i]
Links(ph, ph2, F, I, N) ==
    /\ ph2 \in [Nodes -> [Idx -> Entries]]
    /\ ph2[F][I] = Present(N)
    /\ \A f \in Nodes, i \in Idx :
          f # N /\ ~(f = F /\ i = I) => ph2[f][i] = ph[f][i]
Empty(ph, N) == \A i \in Idx : ph[N][i] = Unused

\* One frame changes its level.
Moved(lvl, lvl2, N, m) ==
    /\ lvl2 \in [Nodes -> 0..5]
    /\ lvl2[N] = m
    /\ \A f \in Nodes : f # N => lvl2[f] = lvl[f]

-----------------------------------------------------------------------------
(* Entries *)

LEMMA EntryFacts ==
    /\ \A f : Present(f).kind = "present" /\ Present(f).frame = f
    /\ \A f : Present(f) # Unused /\ Present(f) # ToAlloc
    /\ Unused # ToAlloc /\ Unused.kind = "unused" /\ ToAlloc.kind = "to_alloc"
    /\ Unused.frame = NoFrame /\ ToAlloc.frame = NoFrame
    /\ Unused \in Entries /\ ToAlloc \in Entries /\ Data \in Entries
    /\ \A f \in Frames \cup {Device} : Present(f) \in Entries
  BY DEF Present, Unused, ToAlloc, Data, Entries

LEMMA EntryAtIn == \A p : EntryAt(p) = EntryIn(phys, p)
  BY DEF EntryAt, EntryIn, Below, Next_

LEMMA TreeEntry ==
    ASSUME NEW ph, NEW pl, NEW lvl, Tree(ph, pl, lvl), NEW f \in Nodes, lvl[f] <= 3,
           NEW i \in Idx
    PROVE  EntryOk(lvl, lvl[f], ph[f][i])
  BY DEF Tree

\* In the upper tables an entry is unused or points to a table of the next level.
LEMMA TableEntry ==
    ASSUME NEW ph, NEW pl, NEW lvl, Tree(ph, pl, lvl), NEW f \in Nodes, NEW k \in 0..2,
           lvl[f] = k, NEW i \in Idx
    PROVE  \/ ph[f][i] = Unused
           \/ \E g \in Frames : ph[f][i] = Present(g) /\ lvl[g] = k + 1
<1>1. EntryOk(lvl, k, ph[f][i])
  BY TreeEntry
<1> QED
  BY <1>1 DEF EntryOk

-----------------------------------------------------------------------------
(* Walks *)

LEMMA EntryInLen ==
    ASSUME NEW ph, NEW p
    PROVE  LET e1 == ph[Root][p[1]]
               e2 == Next_(ph, e1, p[2])
               e3 == Next_(ph, e2, p[3])
           IN  /\ Len(p) = 1 => EntryIn(ph, p) = e1
               /\ Len(p) = 2 => EntryIn(ph, p) = e2
               /\ Len(p) = 3 => EntryIn(ph, p) = e3
               /\ Len(p) = 4 => EntryIn(ph, p) = Next_(ph, e3, p[4])
  BY DEF EntryIn

LEMMA NextFacts ==
    /\ \A ph, f, i : Next_(ph, Present(f), i) = ph[f][i]
    /\ \A ph, e, i : e.kind # "present" => Next_(ph, e, i) = Unused
  BY EntryFacts DEF Next_

\* A walk leads to what the processor finds.
LEMMA WalkEntry ==
    ASSUME NEW ph, NEW p, NEW k \in 0..3, Path(p, k + 1), NEW c, Walk(ph, p, k, c)
    PROVE  EntryIn(ph, p) = ph[c[k]][p[k + 1]]
<1> DEFINE e1 == ph[Root][p[1]]
           e2 == Next_(ph, e1, p[2])
           e3 == Next_(ph, e2, p[3])
<1>1. c[0] = Root
  BY DEF Walk
<1>2. k >= 1 => e1 = Present(c[1])
  BY DEF Walk
<1>3. k >= 1 => e2 = ph[c[1]][p[2]]
  BY <1>2, NextFacts
<1>4. k >= 2 => e2 = Present(c[2])
  BY <1>3 DEF Walk
<1>5. k >= 2 => e3 = ph[c[2]][p[3]]
  BY <1>4, NextFacts
<1>6. k = 3 => e3 = Present(c[3])
  BY <1>5 DEF Walk
<1>7. k = 3 => Next_(ph, e3, p[4]) = ph[c[3]][p[4]]
  BY <1>6, NextFacts
<1>8. CASE k = 0
  BY <1>8, <1>1, EntryInLen DEF Path
<1>9. CASE k = 1
  BY <1>9, <1>3, EntryInLen DEF Path
<1>10. CASE k = 2
  BY <1>10, <1>5, EntryInLen DEF Path
<1>11. CASE k = 3
  BY <1>11, <1>7, EntryInLen DEF Path
<1> QED
  BY <1>8, <1>9, <1>10, <1>11

\* A walk through tables has frames of their levels.
LEMMA WalkLevel ==
    ASSUME NEW ph, NEW pl, NEW lvl, Tree(ph, pl, lvl), NEW p, NEW k \in 0..4,
           \A j \in 1..k : p[j] \in Idx, NEW c, Walk(ph, p, k, c)
    PROVE  \A j \in 0..k : IF j <= 3 THEN c[j] \in Nodes /\ lvl[c[j]] = j
                           ELSE c[j] = Device \/ (c[j] \in Frames /\ lvl[c[j]] = 4)
<1> DEFINE Q(j) == c[j] \in Nodes /\ lvl[c[j]] = j
<1>0. c[0] = Root /\ Q(0)
  BY DEF Walk, Tree, Nodes
<1>1. ASSUME NEW j \in 0..3, j < k, Q(j)
      PROVE  (j < 3 => Q(j + 1))
             /\ (j = 3 => c[j + 1] = Device \/ (c[j + 1] \in Frames /\ lvl[c[j + 1]] = 4))
  <2>1. ph[c[j]][p[j + 1]] = Present(c[j + 1]) /\ p[j + 1] \in Idx
    BY <1>1 DEF Walk
  <2>2. EntryOk(lvl, j, Present(c[j + 1]))
    BY <1>1, <2>1, SMTT(20) DEF Tree
  <2> QED
    BY <2>2, EntryFacts DEF EntryOk, Nodes
<1> HIDE DEF Q
<1>2. 1 <= k => Q(1)
  BY <1>0, <1>1
<1>3. 2 <= k => Q(2)
  BY <1>1, <1>2
<1>4. 3 <= k => Q(3)
  BY <1>1, <1>3
<1>5. 4 <= k => c[4] = Device \/ (c[4] \in Frames /\ lvl[c[4]] = 4)
  BY <1>1, <1>4
<1> QED
  BY <1>0, <1>2, <1>3, <1>4, <1>5 DEF Q

\* One step more.
LEMMA WalkOn ==
    ASSUME NEW ph, NEW p, NEW k \in 0..3, NEW c, Walk(ph, p, k, c), c[k] \in Nodes,
           NEW g \in Nodes \cup {Device}, ph[c[k]][p[k + 1]] = Present(g)
    PROVE  Walk(ph, p, k + 1, [c EXCEPT ![k + 1] = g])
  BY DEF Walk, Chains

\* An entry that is in use has a walk to its table.
LEMMA EntryWalk ==
    ASSUME NEW ph, NEW pl, NEW lvl, Tree(ph, pl, lvl), NEW n \in 1..4, NEW p, Path(p, n),
           EntryIn(ph, p) # Unused
    PROVE  \E c : Walk(ph, p, n - 1, c)
<1> USE EntryFacts
<1> DEFINE W(k) == \E c : Walk(ph, p, k, c)
           e1 == ph[Root][p[1]]
           e2 == Next_(ph, e1, p[2])
           e3 == Next_(ph, e2, p[3])
<1>0. W(0)
  <2>1. Walk(ph, p, 0, [j \in 0..4 |-> Root])
    BY DEF Walk, Chains, Nodes
  <2> QED
    BY <2>1
<1>1. ASSUME NEW k \in 0..2, k < n, NEW c, Walk(ph, p, k, c),
             ph[c[k]][p[k + 1]].kind = "present"
      PROVE  Walk(ph, p, k + 1, [c EXCEPT ![k + 1] = ph[c[k]][p[k + 1]].frame])
  <2>1. c[k] \in Nodes /\ lvl[c[k]] = k /\ p[k + 1] \in Idx
    BY <1>1, WalkLevel DEF Path
  <2>2. PICK g \in Frames : ph[c[k]][p[k + 1]] = Present(g)
    BY <1>1, <2>1 DEF Tree, EntryOk
  <2> QED
    BY <1>1, <2>1, <2>2, WalkOn DEF Nodes
<1>2. ASSUME n >= 2
      PROVE  W(1)
  <2>1. e1.kind = "present"
    <3>1. SUFFICES ASSUME e1.kind # "present" PROVE EntryIn(ph, p) = Unused
      OBVIOUS
    <3>2. e2 = Unused
      BY <3>1, NextFacts
    <3>3. e3 = Unused
      BY <3>2, NextFacts
    <3>4. Next_(ph, e3, p[4]) = Unused
      BY <3>3, NextFacts
    <3>5. Len(p) = 2 \/ Len(p) = 3 \/ Len(p) = 4
      BY <1>2 DEF Path
    <3> QED
      BY <3>2, <3>3, <3>4, <3>5, EntryInLen
  <2>2. PICK c : Walk(ph, p, 0, c)
    BY <1>0
  <2>3. ph[c[0]][p[0 + 1]] = e1
    BY <2>2 DEF Walk
  <2> HIDE DEF e1
  <2>4. Walk(ph, p, 0 + 1, [c EXCEPT ![0 + 1] = ph[c[0]][p[0 + 1]].frame])
    BY <1>1, <1>2, <2>1, <2>2, <2>3
  <2> QED
    BY <2>4
<1>3. ASSUME n >= 3
      PROVE  W(2)
  <2>1. PICK c : Walk(ph, p, 1, c)
    BY <1>2, <1>3
  <2>2. e1 = Present(c[1])
    BY <2>1 DEF Walk
  <2>3. e2 = ph[c[1]][p[1 + 1]]
    BY <2>2, NextFacts
  <2>4. e2.kind = "present"
    <3>1. SUFFICES ASSUME e2.kind # "present" PROVE EntryIn(ph, p) = Unused
      OBVIOUS
    <3>3. e3 = Unused
      BY <3>1, NextFacts
    <3>4. Next_(ph, e3, p[4]) = Unused
      BY <3>3, NextFacts
    <3>5. Len(p) = 3 \/ Len(p) = 4
      BY <1>3 DEF Path
    <3> QED
      BY <3>3, <3>4, <3>5, EntryInLen
  <2> HIDE DEF e2
  <2>5. Walk(ph, p, 1 + 1, [c EXCEPT ![1 + 1] = ph[c[1]][p[1 + 1]].frame])
    BY <1>1, <1>3, <2>1, <2>3, <2>4
  <2> QED
    BY <2>5
<1>4. ASSUME n = 4
      PROVE  W(3)
  <2>1. PICK c : Walk(ph, p, 2, c)
    BY <1>3, <1>4
  <2>2. e1 = Present(c[1])
    BY <2>1 DEF Walk
  <2>3. e2 = ph[c[1]][p[1 + 1]]
    BY <2>2, NextFacts
  <2>4. e2 = Present(c[2])
    BY <2>1, <2>3 DEF Walk
  <2>5. e3 = ph[c[2]][p[2 + 1]]
    BY <2>4, NextFacts
  <2>6. e3.kind = "present"
    <3>1. SUFFICES ASSUME e3.kind # "present" PROVE EntryIn(ph, p) = Unused
      OBVIOUS
    <3>4. Next_(ph, e3, p[4]) = Unused
      BY <3>1, NextFacts
    <3> QED
      BY <1>4, <3>4, EntryInLen DEF Path
  <2> HIDE DEF e3
  <2>7. Walk(ph, p, 2 + 1, [c EXCEPT ![2 + 1] = ph[c[2]][p[2 + 1]].frame])
    BY <1>1, <1>4, <2>1, <2>5, <2>6
  <2> QED
    BY <2>7
<1> HIDE DEF W
<1>5. W(n - 1)
  BY <1>0, <1>2, <1>3, <1>4
<1> QED
  BY <1>5 DEF W

\* A frame that is in the tree has one place in it.
LEMMA WalkBack ==
    ASSUME NEW ph, NEW pl, NEW lvl, Tree(ph, pl, lvl), NEW p, NEW q,
           NEW k \in 1..4, NEW c, NEW d, Walk(ph, p, k, c), Walk(ph, q, k, d),
           \A j \in 1..k : p[j] \in Idx /\ q[j] \in Idx, c[k] = d[k], c[k] \in Frames
    PROVE  c[k - 1] = d[k - 1] /\ p[k] = q[k]
<1>1. /\ c[k - 1] \in Nodes /\ lvl[c[k - 1]] = k - 1
      /\ d[k - 1] \in Nodes /\ lvl[d[k - 1]] = k - 1
  BY WalkLevel
<1>2. ph[c[k - 1]][p[k]] = Present(c[k]) /\ ph[d[k - 1]][q[k]] = Present(c[k])
  BY DEF Walk
<1> QED
  BY <1>1, <1>2 DEF Tree

LEMMA WalkPrefix ==
    ASSUME NEW ph, NEW p, NEW k \in 0..4, NEW c, Walk(ph, p, k, c), NEW m \in 0..k
    PROVE  Walk(ph, p, m, c)
  BY DEF Walk

LEMMA WalkUnique ==
    ASSUME NEW ph, NEW pl, NEW lvl, Tree(ph, pl, lvl), NEW p, NEW q,
           NEW k \in 0..4, NEW c, NEW d, Walk(ph, p, k, c), Walk(ph, q, k, d),
           \A j \in 1..k : p[j] \in Idx /\ q[j] \in Idx, c[k] = d[k], c[k] \in Nodes
    PROVE  /\ \A j \in 0..k : c[j] = d[j]
           /\ \A j \in 1..k : p[j] = q[j]
<1> DEFINE S(m) == m <= k => c[m] = d[m]
<1>1. ASSUME NEW m \in 1..4, S(m)
      PROVE  S(m - 1) /\ (m <= k => p[m] = q[m])
  <2>1. SUFFICES ASSUME m <= k PROVE c[m - 1] = d[m - 1] /\ p[m] = q[m]
    BY <1>1 DEF Walk
  <2>2. Walk(ph, p, m, c) /\ Walk(ph, q, m, d)
    BY <2>1, WalkPrefix
  <2>3. \A j \in 1..m : p[j] \in Idx /\ q[j] \in Idx
    BY <2>1
  <2>4. c[m] \in Nodes /\ c[m] # Root
    <3>1. m <= 3 => c[m] \in Nodes /\ lvl[c[m]] = m
      BY <2>1, WalkLevel
    <3>2. m = 4 => c[m] = Device \/ (c[m] \in Frames /\ lvl[c[m]] = 4)
      BY <2>2, <2>3, WalkLevel
    <3>3. m = 4 => c[m] \in Nodes
      BY <2>1
    <3>4. m = 4 => c[m] # Root
      BY <3>2, <3>3, VmmAssumption DEF Nodes
    <3> QED
      BY <3>1, <3>3, <3>4 DEF Tree
  <2>5. c[m] = d[m] /\ c[m] \in Frames
    BY <1>1, <2>1, <2>4 DEF Nodes
  <2> QED
    BY <2>2, <2>3, <2>5, WalkBack
<1>2. k < 4 => S(4)
  OBVIOUS
<1>3. S(k)
  OBVIOUS
<1> HIDE DEF S
<1>4. S(4)
  BY <1>2, <1>3
<1>5. S(3) /\ (4 <= k => p[4] = q[4])
  BY <1>1, <1>3, <1>4
<1>6. S(2) /\ (3 <= k => p[3] = q[3])
  BY <1>1, <1>5
<1>7. S(1) /\ (2 <= k => p[2] = q[2])
  BY <1>1, <1>6
<1>8. S(0) /\ (1 <= k => p[1] = q[1])
  BY <1>1, <1>7
<1> QED
  BY <1>4, <1>5, <1>6, <1>7, <1>8 DEF S

\* The path says where a walk leads.
LEMMA WalkSame ==
    ASSUME NEW ph, NEW p, NEW q, NEW k \in 0..4, NEW c, NEW d,
           Walk(ph, p, k, c), Walk(ph, q, k, d), \A j \in 1..k : p[j] = q[j]
    PROVE  \A j \in 0..k : c[j] = d[j]
<1> DEFINE S(m) == m <= k => c[m] = d[m]
<1>0. S(0)
  BY DEF Walk
<1>1. ASSUME NEW m \in 0..3, S(m)
      PROVE  S(m + 1)
  <2>1. m + 1 <= k => Present(c[m + 1]) = Present(d[m + 1])
    BY <1>1 DEF Walk
  <2> QED
    BY <2>1, EntryFacts
<1> HIDE DEF S
<1>2. S(1)
  BY <1>0, <1>1
<1>3. S(2)
  BY <1>2, <1>1
<1>4. S(3)
  BY <1>3, <1>1
<1>5. S(4)
  BY <1>4, <1>1
<1> QED
  BY <1>0, <1>2, <1>3, <1>4, <1>5 DEF S

\* The same walk in other contents, where its entries are the same.
LEMMA WalkKept ==
    ASSUME NEW ph, NEW ph2, NEW p, NEW k \in 0..4, NEW c, Walk(ph, p, k, c),
           \A j \in 1..k : ph2[c[j - 1]][p[j]] = ph[c[j - 1]][p[j]]
    PROVE  Walk(ph2, p, k, c)
  BY DEF Walk

\* Where a walk ends, the entry of the path points to.
LEMMA WalkEnd ==
    ASSUME NEW ph, NEW p, NEW k \in 1..4, Path(p, k), NEW c, Walk(ph, p, k, c)
    PROVE  EntryIn(ph, p) = Present(c[k])
<1>1. PICK m \in 0..3 : k = m + 1
  <2>1. k - 1 \in 0..3 /\ k = (k - 1) + 1
    OBVIOUS
  <2> QED
    BY <2>1
<1>2. Walk(ph, p, m, c) /\ Path(p, m + 1)
  <2>1. m \in 0..k /\ k \in 0..4
    BY <1>1
  <2> QED
    BY <1>1, <2>1, WalkPrefix
<1>3. EntryIn(ph, p) = ph[c[m]][p[m + 1]]
  BY <1>2, WalkEntry
<1>4. ph[c[m]][p[m + 1]] = Present(c[m + 1])
  BY <1>1 DEF Walk
<1> QED
  BY <1>1, <1>3, <1>4

LEMMA SeqFun ==
    ASSUME NEW k \in Nat, NEW p \in [1..k -> Idx]
    PROVE  p \in Seq(Idx) /\ Len(p) = k /\ Path(p, k)
<1>1. p \in Seq(Idx)
  BY SeqDef
<1>2. Len(p) = k
  BY <1>1, LenProperties
<1> QED
  BY <1>1, <1>2 DEF Path

\* A table that is there, and the walk to it.
LEMMA TableWalk ==
    ASSUME NEW ph, NEW pl, NEW lvl, Tree(ph, pl, lvl), NEW k \in 1..3, NEW p \in Routes(k),
           EntryIn(ph, p).kind = "present"
    PROVE  \E m \in 0..2 : \E c :
              /\ k = m + 1 /\ Walk(ph, p, m, c)
              /\ \A j \in 0..m : c[j] \in Nodes /\ lvl[c[j]] = j /\ p[j + 1] \in Idx
              /\ EntryIn(ph, p) = ph[c[m]][p[m + 1]]
<1>1. Path(p, k) /\ \A j \in 1..k : p[j] \in Idx
  BY SeqFun DEF Routes, Path
<1>2. PICK m \in 0..2 : k = m + 1
  OBVIOUS
<1>3. PICK c : Walk(ph, p, m, c)
  <2>1. k \in 1..4 /\ k - 1 = m /\ EntryIn(ph, p) # Unused
    BY <1>2, EntryFacts
  <2> QED
    BY <1>1, <2>1, EntryWalk
<1>4. \A j \in 0..m : c[j] \in Nodes /\ lvl[c[j]] = j
  <2>1. m \in 0..4 /\ \A j \in 1..m : p[j] \in Idx
    BY <1>1, <1>2
  <2>2. \A j \in 0..m : j <= 3
    OBVIOUS
  <2> QED
    BY <1>3, <2>1, <2>2, WalkLevel
<1>5. EntryIn(ph, p) = ph[c[m]][p[m + 1]]
  <2>1. m \in 0..3 /\ Path(p, m + 1)
    BY <1>1, <1>2
  <2> QED
    BY <1>3, <2>1, WalkEntry
<1>6. \A j \in 0..m : p[j + 1] \in Idx
  BY <1>1, <1>2
<1> QED
  BY <1>2, <1>3, <1>4, <1>5, <1>6

\* A table that is there was there, if the entries of the upper tables were.
LEMMA TablesFrom ==
    ASSUME NEW ph, NEW ph2, NEW pl2, NEW lvl2, Tree(ph2, pl2, lvl2),
           \A f \in Nodes, i \in Idx :
              lvl2[f] <= 2 /\ ph2[f][i].kind = "present" => ph[f][i] = ph2[f][i],
           NEW k \in 1..3, NEW p \in Routes(k), EntryIn(ph2, p).kind = "present"
    PROVE  EntryIn(ph, p) = EntryIn(ph2, p)
<1> DEFINE Leads(m, c) ==
               /\ k = m + 1 /\ Walk(ph2, p, m, c)
               /\ \A j \in 0..m : c[j] \in Nodes /\ lvl2[c[j]] = j /\ p[j + 1] \in Idx
               /\ EntryIn(ph2, p) = ph2[c[m]][p[m + 1]]
<1>w. PICK m \in 0..2 : \E c : Leads(m, c)
  BY TableWalk
<1>1. PICK c : Leads(m, c)
  BY <1>w
<1>2. \A j \in 0..m : ph2[c[j]][p[j + 1]].kind = "present"
  BY <1>1, EntryFacts DEF Walk
<1>3. \A j \in 0..m : ph[c[j]][p[j + 1]] = ph2[c[j]][p[j + 1]]
  BY <1>1, <1>2
<1>4. \A j \in 1..m : ph[c[j - 1]][p[j]] = ph2[c[j - 1]][p[j]]
  <2>1. \A j \in 1..m : j - 1 \in 0..m /\ (j - 1) + 1 = j
    OBVIOUS
  <2> QED
    BY <1>3, <2>1
<1>5. Walk(ph, p, m, c)
  <2>1. m \in 0..4 /\ Walk(ph2, p, m, c)
    BY <1>1
  <2> QED
    BY <1>4, <2>1, WalkKept
<1>6. EntryIn(ph, p) = ph[c[m]][p[m + 1]]
  <2>1. m \in 0..3 /\ Path(p, m + 1)
    BY <1>1, SeqFun DEF Routes
  <2> QED
    BY <1>5, <2>1, WalkEntry
<1> QED
  BY <1>1, <1>3, <1>6

\* In ph2 an empty table N is linked at path q, whose walk is d.
Grafted(ph, ph2, F, I, N, n, q, d) ==
    /\ F \in Nodes /\ I \in Idx /\ N \in Frames
    /\ Links(ph, ph2, F, I, N) /\ Empty(ph2, N)
    /\ n \in 0..2 /\ q \in Routes(n + 1) /\ Walk(ph2, q, n, d)
    /\ d[n] = F /\ q[n + 1] = I

\* Of two trees, one with an empty table more, that is the only table that is new.
LEMMA TablesGraft ==
    ASSUME NEW ph, NEW ph2, NEW pl2, NEW lvl2, Tree(ph2, pl2, lvl2),
           NEW F, NEW I, NEW N, NEW n, NEW q, NEW d, Grafted(ph, ph2, F, I, N, n, q, d),
           NEW k \in 1..3, NEW p \in Routes(k), EntryIn(ph2, p).kind = "present"
    PROVE  EntryIn(ph, p) = EntryIn(ph2, p) \/ (p = q /\ EntryIn(ph2, p) = Present(N))
<1> USE DEF Grafted
<1>0. /\ ph2[F][I] = Present(N)
      /\ \A i \in Idx : ph2[N][i] = Unused
      /\ \A f \in Nodes, i \in Idx :
            f # N /\ ~(f = F /\ i = I) => ph2[f][i] = ph[f][i]
  BY DEF Links, Empty
<1> DEFINE Leads(m, c) ==
               /\ k = m + 1 /\ Walk(ph2, p, m, c)
               /\ \A j \in 0..m : c[j] \in Nodes /\ lvl2[c[j]] = j /\ p[j + 1] \in Idx
               /\ EntryIn(ph2, p) = ph2[c[m]][p[m + 1]]
<1>w. PICK m \in 0..2 : \E c : Leads(m, c)
  BY TableWalk
<1>1. PICK c : Leads(m, c)
  BY <1>w
<1>2. \A j \in 0..m : ph2[c[j]][p[j + 1]].kind = "present"
  BY <1>1, EntryFacts DEF Walk
<1>3. \A j \in 0..m : c[j] # N
  BY <1>0, <1>1, <1>2, EntryFacts
<1>4. \A j \in 0..m : c[j] = F /\ p[j + 1] = I => j = m
  <2>1. SUFFICES ASSUME NEW j \in 0..m, c[j] = F, p[j + 1] = I, j # m PROVE FALSE
    OBVIOUS
  <2>2. j + 1 \in 1..m /\ j + 1 \in 0..m /\ (j + 1) - 1 = j
    BY <2>1
  <2>3. ph2[c[j]][p[j + 1]] = Present(c[j + 1])
    BY <1>1, <2>2 DEF Walk
  <2>4. ph2[c[j]][p[j + 1]] = Present(N)
    BY <1>0, <2>1
  <2>5. c[j + 1] = N
    <3>1. Present(c[j + 1]).frame = c[j + 1] /\ Present(N).frame = N
      BY EntryFacts
    <3> QED
      BY <2>3, <2>4, <3>1
  <2> QED
    BY <1>3, <2>2, <2>5
<1>5. CASE c[m] = F /\ p[m + 1] = I
  <2>1. \A j \in 1..n : q[j] \in Idx
    BY DEF Routes
  <2>2. lvl2[F] = n
    <3>1. n \in 0..4 /\ n <= 3 /\ n \in 0..n
      OBVIOUS
    <3> QED
      BY <2>1, <3>1, WalkLevel
  <2>3. m = n
    BY <1>1, <1>5, <2>2
  <2>4. \A j \in 1..m : p[j] = q[j]
    <3>1. \A j \in 1..m : p[j] \in Idx /\ q[j] \in Idx
      BY <1>1, <2>1, <2>3 DEF Routes
    <3>2. m \in 0..4 /\ c[m] = d[m] /\ c[m] \in Nodes /\ Walk(ph2, q, m, d)
      BY <1>5, <2>3
    <3> QED
      BY <1>1, <3>1, <3>2, WalkUnique
  <2>5. p = q
    <3>1. \A j \in 1..m + 1 : j \in 1..m \/ j = m + 1
      OBVIOUS
    <3>2. \A j \in 1..m + 1 : p[j] = q[j]
      BY <1>5, <2>3, <2>4, <3>1
    <3> QED
      BY <1>1, <2>3, <3>2 DEF Routes
  <2> QED
    BY <1>0, <1>1, <1>5, <2>5
<1>6. CASE ~(c[m] = F /\ p[m + 1] = I)
  <2>1. \A j \in 0..m : ph[c[j]][p[j + 1]] = ph2[c[j]][p[j + 1]]
    BY <1>0, <1>1, <1>3, <1>4, <1>6
  <2>2. \A j \in 1..m : ph[c[j - 1]][p[j]] = ph2[c[j - 1]][p[j]]
    <3>1. \A j \in 1..m : j - 1 \in 0..m /\ (j - 1) + 1 = j
      OBVIOUS
    <3> QED
      BY <2>1, <3>1
  <2>3. Walk(ph, p, m, c)
    <3>1. m \in 0..4 /\ Walk(ph2, p, m, c)
      BY <1>1
    <3> QED
      BY <2>2, <3>1, WalkKept
  <2>4. EntryIn(ph, p) = ph[c[m]][p[m + 1]]
    <3>1. m \in 0..3 /\ Path(p, m + 1)
      BY <1>1, SeqFun DEF Routes
    <3> QED
      BY <2>3, <3>1, WalkEntry
  <2> QED
    BY <1>1, <2>1, <2>4
<1> QED
  BY <1>5, <1>6

-----------------------------------------------------------------------------
(* What changes of the tree leave of the pages *)

\* The page entries of ph2 are those of ph.
LeavesKept(ph, ph2) == \A q : Path(q, 4) => EntryIn(ph2, q) = EntryIn(ph, q)

LEMMA LeavesKeptBy ==
    ASSUME NEW ph, NEW pl, NEW lvl, Tree(ph, pl, lvl),
           NEW ph2, NEW pl2, NEW lvl2, Tree(ph2, pl2, lvl2),
           \A q, c : Path(q, 4) /\ Walk(ph, q, 3, c) /\ ph[c[3]][q[4]] # Unused
               => Walk(ph2, q, 3, c) /\ ph2[c[3]][q[4]] = ph[c[3]][q[4]],
           \A q, c : Path(q, 4) /\ Walk(ph2, q, 3, c) /\ ph2[c[3]][q[4]] # Unused
               => Walk(ph, q, 3, c) /\ ph[c[3]][q[4]] = ph2[c[3]][q[4]]
    PROVE  LeavesKept(ph, ph2)
<1> SUFFICES ASSUME NEW q, Path(q, 4) PROVE EntryIn(ph2, q) = EntryIn(ph, q)
  BY DEF LeavesKept
<1>1. \A c : Walk(ph, q, 3, c) => EntryIn(ph, q) = ph[c[3]][q[4]]
  BY WalkEntry
<1>2. \A c : Walk(ph2, q, 3, c) => EntryIn(ph2, q) = ph2[c[3]][q[4]]
  BY WalkEntry
<1>3. EntryIn(ph, q) # Unused => \E c : Walk(ph, q, 3, c)
  BY EntryWalk
<1>4. EntryIn(ph2, q) # Unused => \E c : Walk(ph2, q, 3, c)
  BY EntryWalk
<1> QED
  BY <1>1, <1>2, <1>3, <1>4

\* Contents of pages and free frames do not matter.
LEMMA StoreLeaves ==
    ASSUME NEW ph, NEW pl, NEW lvl, Tree(ph, pl, lvl),
           NEW ph2, NEW pl2, NEW lvl2, Tree(ph2, pl2, lvl2),
           \A f \in Nodes : lvl[f] <= 3 => ph2[f] = ph[f],
           \A f \in Nodes : lvl2[f] <= 3 => ph2[f] = ph[f]
    PROVE  LeavesKept(ph, ph2)
<1>1. ASSUME NEW q, NEW c, Path(q, 4), Walk(ph, q, 3, c)
      PROVE  Walk(ph2, q, 3, c) /\ ph2[c[3]] = ph[c[3]]
  <2>1. \A j \in 0..3 : c[j] \in Nodes /\ lvl[c[j]] = j
    BY <1>1, WalkLevel DEF Path
  <2>2. \A j \in 0..3 : ph2[c[j]] = ph[c[j]]
    BY <2>1
  <2>3. \A j \in 1..3 : ph2[c[j - 1]][q[j]] = ph[c[j - 1]][q[j]]
    BY <2>2
  <2>4. Walk(ph2, q, 3, c)
    BY <1>1, <2>3, WalkKept
  <2> QED
    BY <2>2, <2>4
<1>2. ASSUME NEW q, NEW c, Path(q, 4), Walk(ph2, q, 3, c)
      PROVE  Walk(ph, q, 3, c) /\ ph2[c[3]] = ph[c[3]]
  <2>1. \A j \in 0..3 : c[j] \in Nodes /\ lvl2[c[j]] = j
    BY <1>2, WalkLevel DEF Path
  <2>2. \A j \in 0..3 : ph2[c[j]] = ph[c[j]]
    BY <2>1
  <2>3. \A j \in 1..3 : ph2[c[j - 1]][q[j]] = ph[c[j - 1]][q[j]]
    BY <2>2
  <2>4. Walk(ph, q, 3, c)
    BY <1>2, <2>3, WalkKept
  <2> QED
    BY <2>2, <2>4
<1> QED
  BY <1>1, <1>2, LeavesKeptBy

\* An empty table may come and go.
LEMMA GraftLeaves ==
    ASSUME NEW ph, NEW pl, NEW lvl, Tree(ph, pl, lvl),
           NEW ph2, NEW pl2, NEW lvl2, Tree(ph2, pl2, lvl2),
           NEW F \in Nodes, NEW I \in Idx, NEW N \in Frames, lvl[F] <= 2, lvl2[F] <= 2,
           lvl[N] = 5, ph[F][I] = Unused, Links(ph, ph2, F, I, N), Empty(ph2, N)
    PROVE  LeavesKept(ph, ph2)
<1>0. /\ ph2[F][I] = Present(N)
      /\ \A i \in Idx : ph2[N][i] = Unused
      /\ \A f \in Nodes, i \in Idx :
            f # N /\ ~(f = F /\ i = I) => ph2[f][i] = ph[f][i]
  BY DEF Links, Empty
<1>1. ASSUME NEW q, NEW c, Path(q, 4), Walk(ph, q, 3, c)
      PROVE  Walk(ph2, q, 3, c) /\ ph2[c[3]][q[4]] = ph[c[3]][q[4]]
  <2>1. \A j \in 0..3 : c[j] \in Nodes /\ lvl[c[j]] = j /\ c[j] # N
    BY <1>1, WalkLevel DEF Path
  <2>2. \A j \in 1..3 : ~(c[j - 1] = F /\ q[j] = I)
    BY <1>0, <1>1, EntryFacts DEF Walk
  <2>3. \A j \in 1..3 : ph2[c[j - 1]][q[j]] = ph[c[j - 1]][q[j]]
    BY <1>0, <1>1, <2>1, <2>2 DEF Path
  <2>4. ph2[c[3]][q[4]] = ph[c[3]][q[4]]
    BY <1>0, <1>1, <2>1 DEF Path
  <2> QED
    BY <1>1, <2>3, <2>4, WalkKept
<1>2. ASSUME NEW q, NEW c, Path(q, 4), Walk(ph2, q, 3, c), ph2[c[3]][q[4]] # Unused
      PROVE  Walk(ph, q, 3, c) /\ ph2[c[3]][q[4]] = ph[c[3]][q[4]]
  <2>1. \A j \in 0..3 : c[j] \in Nodes /\ lvl2[c[j]] = j
    BY <1>2, WalkLevel DEF Path
  <2>2. \A j \in 1..3 : ph2[c[j - 1]][q[j]] = Present(c[j])
    BY <1>2 DEF Walk
  <2>3. \A j \in 1..4 : ph2[c[j - 1]][q[j]] # Unused
    BY <1>2, <2>2, EntryFacts
  <2>4. \A j \in 0..3 : c[j] # N
    <3>1. \A j \in 0..3 : q[j + 1] \in Idx
      BY <1>2 DEF Path
    <3> QED
      BY <1>0, <2>1, <2>3, <3>1
  <2>5. \A j \in 1..3 : ~(c[j - 1] = F /\ q[j] = I)
    BY <1>0, <2>2, <2>4, EntryFacts
  <2>6. \A j \in 1..3 : ph2[c[j - 1]][q[j]] = ph[c[j - 1]][q[j]]
    BY <1>0, <1>2, <2>1, <2>4, <2>5 DEF Path
  <2>7. ph2[c[3]][q[4]] = ph[c[3]][q[4]]
    BY <1>0, <1>2, <2>1, <2>4 DEF Path
  <2> QED
    BY <1>2, <2>6, <2>7, WalkKept
<1> QED
  BY <1>1, <1>2, LeavesKeptBy

\* Writing the entry of a page changes that page.
LEMMA WriteLeaf ==
    ASSUME NEW ph, NEW pl, NEW lvl, Tree(ph, pl, lvl),
           NEW ph2, NEW pl2, NEW lvl2, Tree(ph2, pl2, lvl2),
           NEW p, Path(p, 4), NEW c, Walk(ph, p, 3, c), NEW e,
           ph2[c[3]][p[4]] = e,
           \A f \in Nodes, i \in Idx :
               lvl[f] <= 3 /\ ~(f = c[3] /\ i = p[4]) => ph2[f][i] = ph[f][i],
           \A f \in Nodes : lvl2[f] <= 3 => lvl[f] <= 3
    PROVE  /\ Walk(ph2, p, 3, c)
           /\ EntryIn(ph2, p) = e
           /\ \A q : Path(q, 4) /\ (\E j \in 1..4 : q[j] # p[j])
                        => EntryIn(ph2, q) = EntryIn(ph, q)
<1>1. ASSUME NEW q, NEW d, Path(q, 4), Walk(ph, q, 3, d)
      PROVE  /\ Walk(ph2, q, 3, d)
             /\ (\E j \in 1..4 : q[j] # p[j]) => ph2[d[3]][q[4]] = ph[d[3]][q[4]]
  <2>1. \A j \in 0..3 : d[j] \in Nodes /\ lvl[d[j]] = j
    BY <1>1, WalkLevel DEF Path
  <2>2. c[3] \in Nodes /\ lvl[c[3]] = 3
    BY WalkLevel DEF Path
  <2>3. \A j \in 1..3 : ph2[d[j - 1]][q[j]] = ph[d[j - 1]][q[j]]
    BY <1>1, <2>1, <2>2 DEF Path
  <2>4. d[3] = c[3] => \A j \in 1..3 : q[j] = p[j]
    BY <1>1, <2>1, WalkUnique DEF Path
  <2>5. (\E j \in 1..4 : q[j] # p[j]) => ~(d[3] = c[3] /\ q[4] = p[4])
    BY <2>4
  <2>6. Walk(ph2, q, 3, d)
    BY <1>1, <2>3, WalkKept
  <2>7. d[3] \in Nodes /\ lvl[d[3]] <= 3 /\ q[4] \in Idx
    BY <1>1, <2>1 DEF Path
  <2> QED
    BY <2>5, <2>6, <2>7
<1>2. ASSUME NEW q, NEW d, Path(q, 4), Walk(ph2, q, 3, d)
      PROVE  Walk(ph, q, 3, d)
  <2>1. \A j \in 0..3 : d[j] \in Nodes /\ lvl2[d[j]] = j
    BY <1>2, WalkLevel DEF Path
  <2>2. Walk(ph2, p, 3, c)
    BY <1>1
  <2>3. c[3] \in Nodes /\ lvl2[c[3]] = 3
    BY <2>2, WalkLevel DEF Path
  <2>4. \A j \in 1..3 : ph2[d[j - 1]][q[j]] = ph[d[j - 1]][q[j]]
    BY <1>2, <2>1, <2>3 DEF Path
  <2> QED
    BY <1>2, <2>4, WalkKept
<1>3. Walk(ph2, p, 3, c)
  BY <1>1
<1>4. EntryIn(ph2, p) = e
  BY <1>3, WalkEntry
<1>5. ASSUME NEW q, Path(q, 4), \E j \in 1..4 : q[j] # p[j]
      PROVE  EntryIn(ph2, q) = EntryIn(ph, q)
  <2>1. \A d : Walk(ph, q, 3, d) => EntryIn(ph, q) = ph[d[3]][q[4]]
    BY <1>5, WalkEntry
  <2>2. \A d : Walk(ph2, q, 3, d) => EntryIn(ph2, q) = ph2[d[3]][q[4]]
    BY <1>5, WalkEntry
  <2>3. EntryIn(ph, q) # Unused => \E d : Walk(ph, q, 3, d)
    BY <1>5, EntryWalk
  <2>4. EntryIn(ph2, q) # Unused => \E d : Walk(ph2, q, 3, d)
    BY <1>5, EntryWalk
  <2> QED
    BY <1>1, <1>2, <1>5, <2>1, <2>2, <2>3, <2>4
<1> QED
  BY <1>3, <1>4, <1>5

-----------------------------------------------------------------------------
(* What keeps the tree *)

\* An entry comes to point to a frame of the allocator: an empty table, or a page.
LEMMA TreeLink ==
    ASSUME NEW ph, NEW pl, NEW lvl, Tree(ph, pl, lvl),
           NEW F \in Nodes, NEW I \in Idx, NEW N \in pl, NEW m \in 0..3, lvl[F] = m,
           ph[F][I] = Unused \/ ph[F][I] = ToAlloc,
           NEW ph2, Links(ph, ph2, F, I, N), m <= 2 => Empty(ph2, N),
           NEW lvl2, Moved(lvl, lvl2, N, m + 1)
    PROVE  Tree(ph2, pl \ {N}, lvl2)
<1>0. /\ ph2 \in [Nodes -> [Idx -> Entries]]
      /\ ph2[F][I] = Present(N)
      /\ \A f \in Nodes, i \in Idx :
            f # N /\ ~(f = F /\ i = I) => ph2[f][i] = ph[f][i]
      /\ lvl[F] <= 2 => \A i \in Idx : ph2[N][i] = Unused
  BY DEF Links, Empty
<1>1. /\ N \in Frames /\ N \in Nodes /\ lvl[N] = 5 /\ N # F /\ N # Root
      /\ lvl[F] \in 0..3
  BY VmmAssumption DEF Tree, Nodes
<1>2. lvl \in [Nodes -> 0..5] /\ lvl2 \in [Nodes -> 0..5]
  BY DEF Tree, Moved
<1>3. lvl2[N] = lvl[F] + 1 /\ \A f \in Nodes : f # N => lvl2[f] = lvl[f]
  BY DEF Moved
<1>4. \A f \in Nodes : lvl2[f] = 0 <=> f = Root
  <2>1. lvl2[N] # 0
    BY <1>1, <1>3
  <2>2. \A f \in Nodes : lvl[f] = 0 <=> f = Root
    BY DEF Tree
  <2> QED
    BY <1>1, <1>3, <2>1, <2>2
<1>5. \A f \in Frames : lvl2[f] = 5 <=> f \in pl \ {N}
  <2>1. lvl2[N] # 5
    BY <1>1, <1>3
  <2>2. \A f \in Frames : lvl[f] = 5 <=> f \in pl
    BY DEF Tree
  <2> QED
    BY <1>3, <2>1, <2>2 DEF Nodes
<1>6. ASSUME NEW k \in 0..3, NEW e, EntryOk(lvl, k, e)
      PROVE  EntryOk(lvl2, k, e)
  <2>1. CASE \E g \in Frames : e = Present(g) /\ lvl[g] = k + 1
    <3>1. PICK g \in Frames : e = Present(g) /\ lvl[g] = k + 1
      BY <2>1
    <3>2. g # N /\ lvl2[g] = k + 1
      BY <1>1, <1>3, <3>1 DEF Nodes
    <3> QED
      BY <3>1, <3>2 DEF EntryOk
  <2> QED
    BY <1>6, <2>1 DEF EntryOk
<1>7. ASSUME NEW f \in Nodes, NEW i \in Idx, lvl2[f] <= 3
      PROVE  EntryOk(lvl2, lvl2[f], ph2[f][i])
  <2>1. CASE f = N
    <3>1. ph2[N][i] = Unused
      BY <1>0, <1>1, <1>3, <1>7, <2>1
    <3> QED
      BY <2>1, <3>1 DEF EntryOk
  <2>2. CASE f = F /\ i = I
    BY <1>0, <1>1, <1>3, <2>2 DEF EntryOk
  <2>3. CASE f # N /\ ~(f = F /\ i = I)
    <3>1. ph2[f][i] = ph[f][i] /\ lvl2[f] = lvl[f]
      BY <1>0, <1>3, <2>3
    <3>2. EntryOk(lvl, lvl[f], ph[f][i])
      BY <1>7, <3>1 DEF Tree
    <3>3. lvl[f] \in 0..3
      BY <1>2, <1>7, <3>1
    <3> QED
      BY <1>6, <3>1, <3>2, <3>3
  <2> QED
    BY <2>1, <2>2, <2>3
<1>8. ASSUME NEW g \in Frames, lvl2[g] \in 1..4
      PROVE  \E f \in Nodes, i \in Idx : lvl2[f] = lvl2[g] - 1 /\ ph2[f][i] = Present(g)
  <2>1. CASE g = N
    BY <1>0, <1>1, <1>2, <1>3, <2>1
  <2>2. CASE g # N
    <3>1. lvl2[g] = lvl[g]
      BY <1>3, <2>2 DEF Nodes
    <3>2. PICK f \in Nodes, i \in Idx : lvl[f] = lvl[g] - 1 /\ ph[f][i] = Present(g)
      BY <1>8, <3>1 DEF Tree
    <3>3. f # N /\ ~(f = F /\ i = I)
      BY <1>1, <1>8, <3>1, <3>2, EntryFacts
    <3> QED
      BY <1>0, <1>3, <3>1, <3>2, <3>3
  <2> QED
    BY <2>1, <2>2
<1>9. ASSUME NEW f \in Nodes, NEW i \in Idx, NEW g \in Frames, lvl2[f] <= 3,
             ph2[f][i] = Present(g)
      PROVE  \/ g = N /\ f = F /\ i = I
             \/ g # N /\ lvl[f] <= 3 /\ ph[f][i] = Present(g)
  <2>1. f # N
    BY <1>0, <1>1, <1>3, <1>9, EntryFacts
  <2>2. CASE f = F /\ i = I
    BY <1>0, <1>9, <2>2, EntryFacts
  <2>3. CASE ~(f = F /\ i = I)
    <3>1. ph[f][i] = Present(g) /\ lvl[f] <= 3 /\ lvl[f] \in 0..3
      BY <1>0, <1>2, <1>3, <1>9, <2>1, <2>3
    <3>2. EntryOk(lvl, lvl[f], Present(g))
      BY <3>1 DEF Tree
    <3>3. lvl[g] # 5
      BY <3>1, <3>2, EntryFacts, VmmAssumption DEF EntryOk
    <3> QED
      BY <1>1, <3>1, <3>3
  <2> QED
    BY <2>2, <2>3
<1>10. ASSUME NEW f1 \in Nodes, NEW f2 \in Nodes, NEW i1 \in Idx, NEW i2 \in Idx,
              NEW g \in Frames, lvl2[f1] <= 3, lvl2[f2] <= 3,
              ph2[f1][i1] = Present(g), ph2[f2][i2] = Present(g)
       PROVE  f1 = f2 /\ i1 = i2
  <2>1. CASE g = N
    BY <1>9, <1>10, <2>1
  <2>2. CASE g # N
    <3>1. lvl[f1] <= 3 /\ ph[f1][i1] = Present(g) /\ lvl[f2] <= 3 /\ ph[f2][i2] = Present(g)
      BY <1>9, <1>10, <2>2
    <3> QED
      BY <3>1 DEF Tree
  <2> QED
    BY <2>1, <2>2
<1>11. pl \ {N} \subseteq Frames
  BY DEF Tree
<1> QED
  BY <1>0, <1>2, <1>4, <1>5, <1>7, <1>8, <1>10, <1>11 DEF Tree

\* An entry loses a page, or a table that is empty: its frame goes to the allocator.
LEMMA TreeUnlink ==
    ASSUME NEW ph, NEW pl, NEW lvl, Tree(ph, pl, lvl),
           NEW F \in Nodes, NEW I \in Idx, NEW N \in Frames,
           NEW m \in 0..3, lvl[F] = m,
           ph[F][I] = Present(N), m <= 2 => Empty(ph, N),
           NEW ph2, Writes(ph, ph2, F, I, Unused), NEW lvl2, Moved(lvl, lvl2, N, 5)
    PROVE  Tree(ph2, pl \cup {N}, lvl2)
<1>1. /\ lvl[F] \in 0..3 /\ lvl[N] = lvl[F] + 1
      /\ N # F /\ N # Root /\ N \in Nodes
  <2>1. lvl[F] \in 0..3 /\ EntryOk(lvl, lvl[F], Present(N))
    BY DEF Tree
  <2>2. lvl[N] = lvl[F] + 1
    BY <2>1, EntryFacts, VmmAssumption DEF EntryOk
  <2> QED
    BY <2>1, <2>2, VmmAssumption DEF Nodes
<1>2. lvl \in [Nodes -> 0..5] /\ lvl2 \in [Nodes -> 0..5]
  BY DEF Tree, Moved
<1>3. lvl2[N] = 5 /\ \A f \in Nodes : f # N => lvl2[f] = lvl[f]
  BY DEF Moved
<1>4. /\ ph2 \in [Nodes -> [Idx -> Entries]]
      /\ ph2[F][I] = Unused
      /\ \A f \in Nodes, i \in Idx : ~(f = F /\ i = I) => ph2[f][i] = ph[f][i]
  BY DEF Writes
<1>5. \A f \in Nodes : lvl2[f] = 0 <=> f = Root
  <2>1. \A f \in Nodes : lvl[f] = 0 <=> f = Root
    BY DEF Tree
  <2> QED
    BY <1>1, <1>3, <2>1
<1>6. \A f \in Frames : lvl2[f] = 5 <=> f \in pl \cup {N}
  <2>1. \A f \in Frames : lvl[f] = 5 <=> f \in pl
    BY DEF Tree
  <2> QED
    BY <1>3, <2>1 DEF Nodes
<1>7. ASSUME NEW f \in Nodes, NEW i \in Idx, lvl2[f] <= 3, ~(f = F /\ i = I)
      PROVE  EntryOk(lvl2, lvl2[f], ph[f][i])
  <2>1. f # N /\ lvl2[f] = lvl[f] /\ lvl[f] \in 0..3
    BY <1>2, <1>3, <1>7
  <2>2. EntryOk(lvl, lvl[f], ph[f][i])
    BY <2>1 DEF Tree
  <2>3. CASE \E g \in Frames : ph[f][i] = Present(g) /\ lvl[g] = lvl[f] + 1
    <3>1. PICK g \in Frames : ph[f][i] = Present(g) /\ lvl[g] = lvl[f] + 1
      BY <2>3
    <3>2. g # N
      BY <1>7, <2>1, <3>1 DEF Tree
    <3>3. lvl2[g] = lvl[f] + 1
      BY <1>3, <3>1, <3>2 DEF Nodes
    <3> QED
      BY <2>1, <3>1, <3>3 DEF EntryOk
  <2> QED
    BY <2>1, <2>2, <2>3 DEF EntryOk
<1>8. \A f \in Nodes, i \in Idx : lvl2[f] <= 3 => EntryOk(lvl2, lvl2[f], ph2[f][i])
  BY <1>4, <1>7 DEF EntryOk
<1>9. ASSUME NEW g \in Frames, lvl2[g] \in 1..4
      PROVE  \E f \in Nodes, i \in Idx : lvl2[f] = lvl2[g] - 1 /\ ph2[f][i] = Present(g)
  <2>1. g # N /\ lvl2[g] = lvl[g]
    BY <1>3, <1>9 DEF Nodes
  <2>2. PICK f \in Nodes, i \in Idx : lvl[f] = lvl[g] - 1 /\ ph[f][i] = Present(g)
    BY <1>9, <2>1 DEF Tree
  <2>3. ~(f = F /\ i = I)
    BY <2>1, <2>2, EntryFacts
  <2>4. f # N
    <3>1. SUFFICES ASSUME f = N PROVE FALSE
      OBVIOUS
    <3>2. lvl[N] \in 1..3
      BY <1>1, <1>9, <2>1, <2>2, <3>1
    <3>3. ph[N][i] = Unused
      BY <1>1, <3>2 DEF Empty
    <3> QED
      BY <2>2, <3>1, <3>3, EntryFacts
  <2>5. lvl2[f] = lvl2[g] - 1
    BY <1>3, <2>1, <2>2, <2>4
  <2> QED
    BY <1>4, <2>2, <2>3, <2>5
<1>10. ASSUME NEW f1 \in Nodes, NEW f2 \in Nodes, NEW i1 \in Idx, NEW i2 \in Idx,
              NEW g \in Frames, lvl2[f1] <= 3, lvl2[f2] <= 3,
              ph2[f1][i1] = Present(g), ph2[f2][i2] = Present(g)
       PROVE  f1 = f2 /\ i1 = i2
  <2>1. ~(f1 = F /\ i1 = I) /\ ~(f2 = F /\ i2 = I)
    BY <1>4, <1>10, EntryFacts
  <2>2. ph[f1][i1] = Present(g) /\ ph[f2][i2] = Present(g)
    BY <1>4, <1>10, <2>1
  <2>3. lvl[f1] <= 3 /\ lvl[f2] <= 3
    BY <1>3, <1>10
  <2> QED
    BY <2>2, <2>3 DEF Tree
<1>11. pl \cup {N} \subseteq Frames
  BY DEF Tree
<1> QED
  BY <1>2, <1>4, <1>5, <1>6, <1>8, <1>9, <1>10, <1>11 DEF Tree

\* The entry of a page that is not backed changes.
LEMMA TreeRelabel ==
    ASSUME NEW ph, NEW pl, NEW lvl, Tree(ph, pl, lvl),
           NEW F \in Nodes, NEW I \in Idx, lvl[F] = 3,
           NEW e, e \in {Unused, ToAlloc, Present(Device)},
           ph[F][I] \in {Unused, ToAlloc, Present(Device)},
           NEW ph2, Writes(ph, ph2, F, I, e)
    PROVE  Tree(ph2, pl, lvl)
<1>1. /\ ph2 \in [Nodes -> [Idx -> Entries]]
      /\ ph2[F][I] = e
      /\ \A f \in Nodes, i \in Idx : ~(f = F /\ i = I) => ph2[f][i] = ph[f][i]
  BY DEF Writes
<1>2. \A g \in Frames : ph[F][I] # Present(g) /\ ph2[F][I] # Present(g)
  BY <1>1, EntryFacts, VmmAssumption
<1>3. \A f \in Nodes, i \in Idx, g \in Frames :
         ph2[f][i] = Present(g) <=> ph[f][i] = Present(g)
  BY <1>1, <1>2
<1>4. \A f \in Nodes, i \in Idx : lvl[f] <= 3 => EntryOk(lvl, lvl[f], ph2[f][i])
  <2>1. EntryOk(lvl, 3, e)
    BY DEF EntryOk
  <2>2. \A f \in Nodes, i \in Idx : lvl[f] <= 3 => EntryOk(lvl, lvl[f], ph[f][i])
    BY TreeEntry
  <2> QED
    BY <1>1, <2>1, <2>2
<1> QED
  BY <1>1, <1>3, <1>4 DEF Tree

LEMMA WritesEntry ==
    ASSUME NEW ph \in [Nodes -> [Idx -> Entries]], NEW F \in Nodes, NEW I \in Idx,
           NEW e \in Entries
    PROVE  Writes(ph, [ph EXCEPT ![F][I] = e], F, I, e)
  BY DEF Writes

LEMMA MovedTo ==
    ASSUME NEW lvl \in [Nodes -> 0..5], NEW N \in Nodes, NEW m \in 0..5
    PROVE  \E lvl2 : Moved(lvl, lvl2, N, m)
<1>1. Moved(lvl, [lvl EXCEPT ![N] = m], N, m)
  BY DEF Moved
<1> QED
  BY <1>1

\* A page is stored to.
LEMMA TreeStore ==
    ASSUME NEW ph, NEW pl, NEW lvl, Tree(ph, pl, lvl), NEW N \in Frames, lvl[N] = 4
    PROVE  Tree([ph EXCEPT ![N] = Stored], pl, lvl)
<1> DEFINE ph2 == [ph EXCEPT ![N] = Stored]
<1>1. ph2 \in [Nodes -> [Idx -> Entries]]
  BY EntryFacts DEF Tree, Stored
<1>2. \A f \in Nodes : lvl[f] <= 3 => ph2[f] = ph[f]
  BY DEF Tree
<1>3. \A g \in Frames : lvl[g] \in 1..4 =>
         \E f \in Nodes, i \in Idx : lvl[f] = lvl[g] - 1 /\ ph2[f][i] = Present(g)
  <2>1. SUFFICES ASSUME NEW g \in Frames, lvl[g] \in 1..4
                 PROVE  \E f \in Nodes, i \in Idx :
                            lvl[f] = lvl[g] - 1 /\ ph2[f][i] = Present(g)
    OBVIOUS
  <2>2. PICK f \in Nodes, i \in Idx : lvl[f] = lvl[g] - 1 /\ ph[f][i] = Present(g)
    BY <2>1 DEF Tree
  <2> QED
    BY <1>2, <2>1, <2>2
<1> HIDE DEF ph2
<1>4. Tree(ph2, pl, lvl)
  BY <1>1, <1>2, <1>3 DEF Tree
<1> QED
  BY <1>4 DEF ph2

-----------------------------------------------------------------------------
(* Paths of pages *)

LEMMA PathOfFacts ==
    /\ \A v \in Vaddrs :
          v \in Nat /\ Path(PathOf(v), 4) /\ PathOf(v) \in Seq(Idx)
    /\ \A v, w \in Vaddrs : v # w => \E j \in 1..4 : PathOf(v)[j] # PathOf(w)[j]
<1> DEFINE F2 == Fan * Fan
           F3 == Fan * Fan * Fan
           F4 == Fan * Fan * Fan * Fan
<1>1. Fan \in Nat \ {0} /\ F2 \in Nat \ {0} /\ F3 \in Nat \ {0} /\ F4 \in Nat \ {0}
  <2>1. Fan \in Nat \ {0}
    BY VmmAssumption
  <2>2. F2 \in Nat \ {0}
    BY <2>1, SMT
  <2> HIDE DEF F2
  <2>3. F2 * Fan \in Nat \ {0}
    BY <2>1, <2>2, SMT
  <2>4. F3 \in Nat \ {0}
    BY <2>3 DEF F2
  <2> HIDE DEF F3
  <2>5. F3 * Fan \in Nat \ {0}
    BY <2>1, <2>4, SMT
  <2>6. F4 \in Nat \ {0}
    BY <2>5 DEF F3
  <2> QED
    BY <2>1, <2>2, <2>4, <2>6
<1>2. \A v \in Vaddrs : v \in Nat /\ v \in 0..F4 - 1
  BY <1>1, VmmAssumption
<1>3. ASSUME NEW v \in Vaddrs
      PROVE  /\ v = Fan * (v \div Fan) + (v % Fan)
             /\ v \div Fan = Fan * (v \div F2) + ((v \div Fan) % Fan)
             /\ v \div F2 = Fan * (v \div F3) + ((v \div F2) % Fan)
             /\ v \div F3 = (v \div F3) % Fan
             /\ v % Fan \in Idx /\ (v \div Fan) % Fan \in Idx
             /\ (v \div F2) % Fan \in Idx /\ (v \div F3) % Fan \in Idx
  <2>1. v \in Nat /\ v \div Fan \in Nat /\ v \div F2 \in Nat /\ v \div F3 \in Nat
    BY <1>1, <1>2, DivFacts
  <2>2. v \div F2 = (v \div Fan) \div Fan
    BY <1>1, <1>2, DivDiv
  <2>3. v \div (F2 * Fan) = (v \div F2) \div Fan
    BY <1>1, <2>1, DivDiv, ZenonT(30)
  <2>4. v \div (F3 * Fan) = (v \div F3) \div Fan
    BY <1>1, <2>1, DivDiv, ZenonT(30)
  <2>5. (F4 * 0 + v) \div F4 = 0
    BY <1>1, <1>2, DivUnique
  <2>6. F4 * 0 + v = v
    BY <1>1, <2>1, SMT
  <2>7. (v \div F3) \div Fan = 0
    BY <2>4, <2>5, <2>6
  <2>8. /\ v % Fan \in 0..Fan - 1 /\ v = Fan * (v \div Fan) + (v % Fan)
        /\ (v \div Fan) % Fan \in 0..Fan - 1
        /\ v \div Fan = Fan * ((v \div Fan) \div Fan) + ((v \div Fan) % Fan)
    BY <1>1, <2>1, ModFacts
  <2>9. /\ (v \div F2) % Fan \in 0..Fan - 1
        /\ v \div F2 = Fan * ((v \div F2) \div Fan) + ((v \div F2) % Fan)
        /\ (v \div F3) % Fan \in 0..Fan - 1
        /\ v \div F3 = Fan * ((v \div F3) \div Fan) + ((v \div F3) % Fan)
    BY <1>1, <2>1, ModFacts
  <2>10. v \div F3 = (v \div F3) % Fan
    <3>1. Fan * 0 = 0
      BY <1>1, SMT
    <3> QED
      BY <2>7, <2>9, <3>1
  <2> QED
    BY <2>2, <2>3, <2>8, <2>9, <2>10 DEF Idx
<1>4. ASSUME NEW v \in Vaddrs
      PROVE  /\ PathOf(v) = <<(v \div F3) % Fan, (v \div F2) % Fan,
                              (v \div Fan) % Fan, v % Fan>>
             /\ v \in Nat /\ Path(PathOf(v), 4) /\ PathOf(v) \in Seq(Idx)
  <2>1. PathOf(v) = <<(v \div F3) % Fan, (v \div F2) % Fan, (v \div Fan) % Fan, v % Fan>>
    BY DEF PathOf
  <2> HIDE DEF F2, F3
  <2>2. PathOf(v) \in Seq(Idx) /\ Len(PathOf(v)) = 4
    BY <1>3, <2>1
  <2>3. \A j \in 1..4 : PathOf(v)[j] \in Idx
    BY <1>3, <2>1
  <2> QED
    BY <1>2, <2>1, <2>2, <2>3 DEF Path
<1> HIDE DEF F2, F3
<1>5. ASSUME NEW v \in Vaddrs, NEW w \in Vaddrs,
             \A j \in 1..4 : PathOf(v)[j] = PathOf(w)[j]
      PROVE  v = w
  <2>1. /\ (v \div F3) % Fan = (w \div F3) % Fan
        /\ (v \div F2) % Fan = (w \div F2) % Fan
        /\ (v \div Fan) % Fan = (w \div Fan) % Fan
        /\ v % Fan = w % Fan
    <3>1. /\ PathOf(v)[1] = PathOf(w)[1] /\ PathOf(v)[2] = PathOf(w)[2]
          /\ PathOf(v)[3] = PathOf(w)[3] /\ PathOf(v)[4] = PathOf(w)[4]
      BY <1>5
    <3> QED
      BY <3>1, <1>4
  <2>2. v \div F3 = w \div F3
    BY <1>3, <2>1
  <2>3. v \div F2 = w \div F2
    BY <1>3, <2>1, <2>2
  <2>4. v \div Fan = w \div Fan
    BY <1>3, <2>1, <2>3
  <2> QED
    BY <1>3, <2>1, <2>4
<1> QED
  BY <1>4, <1>5

-----------------------------------------------------------------------------
(* The inductive invariant *)

Ops == {"map", "map_to", "free", "unmap"}
JobIn ==
    [op : Ops, v : Vaddrs, to : {NoFrame, Device}, left : Nat \ {0}, path : Seq(Idx),
     trim : BOOLEAN]

\* The job is at a table on the way to its page.
JobOk ==
    job # NoJob =>
    /\ job \in JobIn /\ Fits(job.v, job.left)
    /\ Len(job.path) <= 3
    /\ \A k \in 1..Len(job.path) : job.path[k] = PathOf(job.v)[k]
    /\ job.trim => job.op \in {"free", "unmap"}
    /\ job.op = "map_to" => job.to = Device

\* Its walk so far.
JobAt(c) == Walk(phys, PathOf(job.v), Len(job.path), c)

\* The TLB holds translations of pages that are mapped.  Of tables it may hold translations
\* that are no longer right, but not of a table that is in use.
PagesRight ==
    \A v \in Vaddrs : PathOf(v) \in DOMAIN tlb => Leaf(v) = Present(tlb[PathOf(v)])
TablesRight ==
    \A k \in 1..3 : \A p \in Routes(k) :
        p \in DOMAIN tlb /\ EntryIn(phys, p).kind = "present" => tlb[p] = EntryIn(phys, p).frame
TlbOk == PagesRight /\ TablesRight

\* A table is empty at most while the job has just made it or is about to free it.
Filled(lvl, c) ==
    \A f \in Nodes : lvl[f] \in 1..3 =>
        \/ \E i \in Idx : phys[f][i] # Unused
        \/ /\ f = c[Len(job.path)] /\ job.path # <<>>
           /\ job.trim \/ job.op \in {"map", "map_to"}

\* The pages that the job has not come to.
Ahead == job.v + (IF job.trim THEN 1 ELSE 0)..job.v + job.left - 1

\* The pages of the heap are mapped up to the break, but for the job.
HeapPages ==
    \A w \in HeapStart..HeapEnd - 1 :
        Leaf(w) # Unused <=> \/ w < brk /\ w \notin Ahead
                             \/ w \in Ahead /\ job.op \in {"free", "unmap"}

\* A job in the heap is one of ksbrk.
JobRange ==
    \/ OutsideHeap(job.v, job.left)
    \/ job.op = "map" /\ HeapStart <= job.v /\ job.v + job.left = brk
    \/ job.op = "free" /\ brk <= job.v /\ job.v + job.left <= HeapEnd

HeapOk == brk \in HeapStart..HeapEnd /\ HeapPages /\ JobRange

UnmapOk == job.op = "unmap" => \A w \in Ahead : Leaf(w) = Present(Device)

Consistent(lvl, c) ==
    /\ Tree(phys, pool, lvl) /\ JobOk /\ JobAt(c) /\ TlbOk /\ Filled(lvl, c)
    /\ HeapOk /\ UnmapOk

Sane == \E lvl, c : Consistent(lvl, c)

\* Until the kernel goes astray.
IInv == OnCourse => Sane

\* What a step does to the pages: nothing, or one of them is given another entry.
SameLeaves == \A w \in Vaddrs : Leaf(w)' = Leaf(w)
OneLeaf(v, e, e2) ==
    /\ Leaf(v) = e /\ Leaf(v)' = e2
    /\ \A w \in Vaddrs : w # v => Leaf(w)' = Leaf(w)

-----------------------------------------------------------------------------
(* What the code reads through the window *)

LEMMA EntryAtNext ==
    /\ \A p : EntryAt(p)' = EntryIn(phys', p)
    /\ \A v : Leaf(v) = EntryIn(phys, PathOf(v)) /\ Leaf(v)' = EntryIn(phys', PathOf(v))
  BY DEF Leaf, EntryAt, EntryIn, Below, Next_

LEMMA WalkPath ==
    ASSUME NEW ph, NEW p, NEW q, NEW k \in 0..4, NEW c, Walk(ph, p, k, c),
           \A j \in 1..k : q[j] = p[j]
    PROVE  Walk(ph, q, k, c)
  BY DEF Walk

\* A table in use is reached where its walk ends.
LEMMA ReachedTable ==
    ASSUME TlbOk, NEW p, NEW k \in 0..3, Path(p, k), p \in Seq(Idx),
           NEW c, Walk(phys, p, k, c)
    PROVE  Reached(p) = c[k] /\ \A i : ReadEntry(p, i) = phys[c[k]][i]
<1>1. CASE k = 0
  <2>1. p = <<>> /\ c[0] = Root
    BY <1>1 DEF Walk, Path
  <2> QED
    BY <1>1, <2>1 DEF Reached, ReadEntry
<1>2. CASE k # 0
  <2>1. p \in Routes(k)
    BY LenProperties DEF Path, Routes
  <2>2. EntryIn(phys, p) = Present(c[k])
    <3>1. k \in 1..4
      BY <1>2
    <3> QED
      BY <3>1, WalkEnd
  <2>3. EntryAt(p) = Present(c[k])
    BY <2>2, EntryAtIn
  <2>4. p # <<>>
    BY <1>2 DEF Path
  <2>5. Reached(p) = c[k]
    <3>1. p \in DOMAIN tlb => tlb[p] = c[k]
      BY <1>2, <2>1, <2>2, EntryFacts DEF TlbOk, TablesRight
    <3> QED
      BY <2>3, <2>4, <3>1, EntryFacts DEF Reached
  <2> QED
    BY <2>5 DEF ReadEntry
<1> QED
  BY <1>1, <1>2

LEMMA SeqPath ==
    ASSUME NEW p \in Seq(Idx)
    PROVE  Len(p) \in Nat /\ Path(p, Len(p))
  BY DEF Path

LEMMA PrefixFacts ==
    ASSUME NEW p \in Seq(Idx), NEW k \in 0..Len(p)
    PROVE  /\ Prefix(p, k) \in Seq(Idx) /\ Path(Prefix(p, k), k)
           /\ \A j \in 1..k : Prefix(p, k)[j] = p[j]
  BY DEF Prefix, Path

\* How far the job is, and that its path is the beginning of its page's.
LEMMA JobPath ==
    ASSUME NEW lvl, NEW c, Consistent(lvl, c), job # NoJob
    PROVE  /\ Len(job.path) \in 0..3 /\ job.path \in Seq(Idx)
           /\ Path(job.path, Len(job.path))
           /\ job.v \in Vaddrs /\ Path(PathOf(job.v), 4)
           /\ \A j \in 1..Len(job.path) : job.path[j] = PathOf(job.v)[j]
           /\ Walk(phys, PathOf(job.v), Len(job.path), c)
           /\ Walk(phys, job.path, Len(job.path), c)
<1>1. /\ job \in JobIn /\ Len(job.path) <= 3
      /\ \A j \in 1..Len(job.path) : job.path[j] = PathOf(job.v)[j]
  BY DEF Consistent, JobOk
<1>2. job.path \in Seq(Idx) /\ job.v \in Vaddrs
  BY <1>1 DEF JobIn
<1>3. Len(job.path) \in 0..3 /\ Path(job.path, Len(job.path))
  <2>1. Len(job.path) \in Nat /\ Path(job.path, Len(job.path))
    BY <1>2, SeqPath
  <2> DEFINE k == Len(job.path)
  <2>2. k \in Nat /\ k <= 3
    BY <1>1, <2>1
  <2> HIDE DEF k
  <2>3. k \in 0..3
    BY <2>2
  <2> QED
    BY <2>1, <2>3 DEF k
<1>4. Path(PathOf(job.v), 4)
  BY <1>2, PathOfFacts
<1>5. Walk(phys, PathOf(job.v), Len(job.path), c)
  BY DEF Consistent, JobAt
<1> DEFINE k == Len(job.path)
<1> HIDE DEF k
<1>6. Walk(phys, job.path, k, c)
  <2>1. Walk(phys, PathOf(job.v), k, c)
    BY <1>5 DEF k
  <2>2. k \in 0..4 /\ \A j \in 1..k : job.path[j] = PathOf(job.v)[j]
    BY <1>1, <1>3 DEF k
  <2> QED
    BY <2>1, <2>2, WalkPath
<1> QED
  BY <1>1, <1>2, <1>3, <1>4, <1>5, <1>6 DEF k

\* The job's place, what it reads there, and how its table hangs in the tree.
LEMMA JobPlace ==
    ASSUME NEW lvl, NEW c, Consistent(lvl, c), job # NoJob
    PROVE  LET k == Len(job.path)
           IN  /\ k \in 0..3 /\ c[k] \in Nodes /\ lvl[c[k]] = k
               /\ NextIdx \in Idx /\ NextIdx = PathOf(job.v)[k + 1]
               /\ Reached(job.path) = c[k]
               /\ \A i : ReadEntry(job.path, i) = phys[c[k]][i]
<1> DEFINE k == Len(job.path)
<1>1. /\ k \in 0..3 /\ job.path \in Seq(Idx) /\ Path(job.path, k)
      /\ Path(PathOf(job.v), 4) /\ NextIdx = PathOf(job.v)[k + 1]
      /\ Walk(phys, PathOf(job.v), k, c) /\ Walk(phys, job.path, k, c)
  BY JobPath DEF NextIdx
<1> HIDE DEF k
<1>2. \A j \in 1..4 : PathOf(job.v)[j] \in Idx
  BY <1>1 DEF Path
<1>3. c[k] \in Nodes /\ lvl[c[k]] = k
  BY <1>1, <1>2, WalkLevel DEF Consistent
<1>4. Reached(job.path) = c[k] /\ \A i : ReadEntry(job.path, i) = phys[c[k]][i]
  BY <1>1, ReachedTable DEF Consistent
<1>5. NextIdx \in Idx
  BY <1>1, <1>2
<1> QED
  BY <1>1, <1>3, <1>4, <1>5 DEF k

LEMMA JobParent ==
    ASSUME NEW lvl, NEW c, Consistent(lvl, c), job # NoJob, job.path # <<>>
    PROVE  LET k == Len(job.path)
           IN  /\ k \in 1..3 /\ c[k] \in Frames
               /\ c[k - 1] \in Nodes /\ lvl[c[k - 1]] = k - 1
               /\ job.path[k] = PathOf(job.v)[k] /\ job.path[k] \in Idx
               /\ Reached(Prefix(job.path, k - 1)) = c[k - 1]
               /\ phys[c[k - 1]][job.path[k]] = Present(c[k])
               /\ ReadEntry(Prefix(job.path, k - 1), job.path[k]) = Present(c[k])
<1> DEFINE k == Len(job.path)
           q == Prefix(job.path, k - 1)
<1>1. /\ k \in 1..3 /\ job.path \in Seq(Idx)
      /\ \A j \in 1..k : job.path[j] = PathOf(job.v)[j]
      /\ Path(PathOf(job.v), 4) /\ Walk(phys, job.path, k, c)
  BY JobPath
<1>2. q \in Seq(Idx) /\ Path(q, k - 1) /\ \A j \in 1..k - 1 : q[j] = job.path[j]
  BY <1>1, PrefixFacts
<1> HIDE DEF k, q
<1>3. PICK m \in 0..2 : k = m + 1
  BY <1>1
<1>4. \A j \in 1..k : job.path[j] \in Idx
  BY <1>1 DEF Path
<1>5. \A j \in 0..k : c[j] \in Nodes /\ lvl[c[j]] = j
  BY <1>1, <1>4, WalkLevel DEF Consistent
<1>6. c[k] \in Frames
  BY <1>1, <1>5 DEF Consistent, Tree, Nodes
<1>7. phys[c[k - 1]][job.path[k]] = Present(c[k])
  <2>1. \A j \in 1..k : phys[c[j - 1]][job.path[j]] = Present(c[j])
    BY <1>1 DEF Walk
  <2> QED
    BY <1>1, <2>1
<1>8. Walk(phys, q, m, c) /\ Path(q, m)
  <2>1. Walk(phys, job.path, m, c)
    BY <1>1, <1>3, WalkPrefix
  <2>2. Path(q, m) /\ \A j \in 1..m : q[j] = job.path[j]
    BY <1>2, <1>3
  <2> QED
    BY <2>1, <2>2 DEF Walk
<1>9. Reached(q) = c[m] /\ \A i : ReadEntry(q, i) = phys[c[m]][i]
  BY <1>2, <1>8, ReachedTable DEF Consistent
<1>10. m = k - 1
  BY <1>3
<1> QED
  BY <1>1, <1>4, <1>5, <1>6, <1>7, <1>9, <1>10 DEF k, q

\* The tables of a page are there when a walk is, and the code reads them.
LEMMA TablesWalk ==
    ASSUME TlbOk, NEW lvl, Tree(phys, pool, lvl), NEW v \in Vaddrs
    PROVE  /\ HasTables(v) <=> \E d : Walk(phys, PathOf(v), 3, d)
           /\ \A d : Walk(phys, PathOf(v), 3, d) =>
                /\ Reached(Prefix(PathOf(v), 3)) = d[3]
                /\ \A i : ReadEntry(Prefix(PathOf(v), 3), i) = phys[d[3]][i]
<1> DEFINE p == PathOf(v)
<1>1. p \in Seq(Idx) /\ Len(p) = 4 /\ \A j \in 1..4 : p[j] \in Idx
  BY PathOfFacts DEF Path
<1> HIDE DEF p
<1>2. ASSUME NEW k \in 0..3, NEW d, Walk(phys, p, k, d)
      PROVE  /\ Reached(Prefix(p, k)) = d[k]
             /\ \A i : ReadEntry(Prefix(p, k), i) = phys[d[k]][i]
  <2>1. /\ Prefix(p, k) \in Seq(Idx) /\ Path(Prefix(p, k), k)
        /\ \A j \in 1..k : Prefix(p, k)[j] = p[j]
    BY <1>1, PrefixFacts
  <2>2. Walk(phys, Prefix(p, k), k, d)
    BY <1>2, <2>1, WalkPath
  <2> QED
    BY <2>1, <2>2, ReachedTable
<1>3. ASSUME NEW d, Walk(phys, p, 3, d)
      PROVE  \A k \in 0..2 : ReadEntry(Prefix(p, k), p[k + 1]).kind = "present"
  <2>1. \A k \in 0..2 : Walk(phys, p, k, d)
    BY <1>3, WalkPrefix
  <2>2. \A k \in 0..2 : phys[d[k]][p[k + 1]] = Present(d[k + 1])
    BY <1>3 DEF Walk
  <2> QED
    BY <1>2, <2>1, <2>2, EntryFacts
<1> DEFINE W(k) == \E d : Walk(phys, p, k, d)
<1>4. W(0)
  <2>1. Walk(phys, p, 0, [j \in 0..4 |-> Root])
    BY DEF Walk, Chains, Nodes
  <2> QED
    BY <2>1
<1>5. ASSUME NEW k \in 0..2, W(k), ReadEntry(Prefix(p, k), p[k + 1]).kind = "present"
      PROVE  W(k + 1)
  <2>1. PICK d : Walk(phys, p, k, d)
    BY <1>5
  <2>2. phys[d[k]][p[k + 1]].kind = "present"
    BY <1>2, <1>5, <2>1
  <2>3. d[k] \in Nodes /\ lvl[d[k]] = k /\ p[k + 1] \in Idx
    BY <1>1, <2>1, WalkLevel
  <2>4. PICK g \in Frames : phys[d[k]][p[k + 1]] = Present(g)
    BY <2>2, <2>3, TableEntry, EntryFacts
  <2>5. Walk(phys, p, k + 1, [d EXCEPT ![k + 1] = g])
    BY <2>1, <2>3, <2>4, WalkOn DEF Nodes
  <2> QED
    BY <2>5
<1> HIDE DEF W
<1>6. ASSUME \A k \in 0..2 : ReadEntry(Prefix(p, k), p[k + 1]).kind = "present"
      PROVE  W(3)
  <2>1. W(1)
    BY <1>4, <1>5, <1>6
  <2>2. W(2)
    BY <1>5, <1>6, <2>1
  <2> QED
    BY <1>5, <1>6, <2>2
<1>7. HasTables(v) <=> \A k \in 0..2 : ReadEntry(Prefix(p, k), p[k + 1]).kind = "present"
  BY DEF HasTables, p
<1>8. (\E d : Walk(phys, p, 3, d)) => HasTables(v)
  BY <1>3, <1>7
<1>9. HasTables(v) => \E d : Walk(phys, p, 3, d)
  BY <1>6, <1>7 DEF W
<1> QED
  BY <1>2, <1>8, <1>9 DEF p

-----------------------------------------------------------------------------
(* How a step changes the job and the pages *)

LEMMA Halted ==
    ASSUME NEW lvl, NEW c, Consistent(lvl, c), UNCHANGED <<phys, pool, tlb, brk, job>>
    PROVE  Consistent(lvl, c)'
<1>1. TlbOk' <=> TlbOk
  BY EntryAtNext DEF TlbOk, PagesRight, TablesRight
<1>2. HeapPages' <=> HeapPages
  BY DEF HeapPages, Ahead, Leaf, EntryAt, Below
<1>3. JobRange' <=> JobRange
  BY DEF JobRange
<1>4. UnmapOk' <=> UnmapOk
  BY DEF UnmapOk, Ahead, Leaf, EntryAt, Below
<1>5. JobOk' <=> JobOk
  BY DEF JobOk
<1>6. JobAt(c)' <=> JobAt(c)
  BY DEF JobAt
<1>7. Filled(lvl, c)' <=> Filled(lvl, c)
  BY DEF Filled
<1> QED
  BY <1>1, <1>2, <1>3, <1>4, <1>5, <1>6, <1>7 DEF Consistent, HeapOk

\* What the next TLB has of pages, and of tables, comes from the tables as they are now.
PagesOf(t) ==
    \A v \in Vaddrs :
        PathOf(v) \in DOMAIN tlb' => PathOf(v) \in DOMAIN t /\ tlb'[PathOf(v)] = t[PathOf(v)]
TablesOf(ph) ==
    \A k \in 1..3 : \A p \in Routes(k) :
        p \in DOMAIN tlb' /\ EntryIn(ph, p).kind = "present" => tlb'[p] = EntryIn(ph, p).frame

\* The path of a page is none of a table.
LEMMA LongPath == \A v \in Vaddrs : \A k \in 0..3 : PathOf(v) \notin Routes(k)
<1> SUFFICES ASSUME NEW v \in Vaddrs, NEW k \in 0..3, PathOf(v) \in Routes(k) PROVE FALSE
  OBVIOUS
<1>1. Len(PathOf(v)) = 4
  BY PathOfFacts DEF Path
<1>2. k \in Nat /\ PathOf(v) \in [1..k -> Idx]
  BY DEF Routes
<1>3. Len(PathOf(v)) = k
  BY <1>2, SeqFun
<1>4. k = 4
  BY <1>1, <1>3
<1> QED
  BY <1>4

LEMMA WithFacts ==
    \A t, p, f : /\ DOMAIN With(t, p, f) = DOMAIN t \cup {p}
                 /\ With(t, p, f)[p] = f
                 /\ \A q \in DOMAIN t : q # p => With(t, p, f)[q] = t[q]
  BY DEF With

\* The code has used the window for the job's table.
LEMMA RememberHas ==
    ASSUME NEW lvl, NEW c, Consistent(lvl, c), job # NoJob
    PROVE  LET t == Remember(job.path)
           IN  /\ \A v \in Vaddrs : PathOf(v) \in DOMAIN t =>
                    PathOf(v) \in DOMAIN tlb /\ t[PathOf(v)] = tlb[PathOf(v)]
               /\ \A n \in 1..3 : \A p \in Routes(n) :
                    p \in DOMAIN t /\ EntryIn(phys, p).kind = "present" =>
                       t[p] = EntryIn(phys, p).frame
<1>0. PICK t : t = Remember(job.path)
  OBVIOUS
<1>1. /\ Len(job.path) \in 0..3 /\ job.path \in Seq(Idx) /\ Path(job.path, Len(job.path))
      /\ Walk(phys, job.path, Len(job.path), c)
  BY JobPath
<1>2. TablesRight
  BY DEF Consistent, TlbOk
<1>3. CASE job.path = <<>>
  <2>1. t = tlb
    BY <1>0, <1>3 DEF Remember
  <2> QED
    BY <1>0, <1>2, <2>1 DEF TablesRight
<1>4. CASE job.path # <<>>
  <2>1. PICK k \in 0..3 : k = Len(job.path)
    BY <1>1
  <2>2. k # 0
    BY <1>1, <1>4, <2>1, EmptySeq
  <2>3. job.path \in Routes(k)
    BY <1>1, <2>1, LenProperties DEF Routes
  <2>4. Reached(job.path) = c[k]
    BY <2>1, JobPlace
  <2>5. EntryIn(phys, job.path) = Present(c[k])
    <3>1. k \in 1..4
      BY <2>2
    <3> QED
      BY <1>1, <2>1, <3>1, WalkEnd
  <2>6. t = With(tlb, job.path, c[k])
    BY <1>0, <1>4, <2>4 DEF Remember
  <2>7. /\ DOMAIN t = DOMAIN tlb \cup {job.path} /\ t[job.path] = c[k]
        /\ \A q \in DOMAIN tlb : q # job.path => t[q] = tlb[q]
    BY <2>6 DEF With
  <2>8. \A v \in Vaddrs : PathOf(v) # job.path
    BY <2>3, LongPath
  <2>9. \A v \in Vaddrs : PathOf(v) \in DOMAIN t =>
           PathOf(v) \in DOMAIN tlb /\ t[PathOf(v)] = tlb[PathOf(v)]
    BY <2>7, <2>8
  <2>10. \A n \in 1..3 : \A p \in Routes(n) :
            p \in DOMAIN t /\ EntryIn(phys, p).kind = "present" => t[p] = EntryIn(phys, p).frame
    BY <1>2, <2>5, <2>7, EntryFacts DEF TablesRight
  <2> QED
    BY <1>0, <2>9, <2>10
<1> QED
  BY <1>3, <1>4

LEMMA RememberFacts ==
    ASSUME NEW lvl, NEW c, Consistent(lvl, c), job # NoJob, tlb' = Remember(job.path)
    PROVE  PagesOf(tlb) /\ TablesOf(phys)
  BY RememberHas DEF PagesOf, TablesOf

\* The tables that there are after a step were there before.
LEMMA TablesKept ==
    ASSUME NEW lvl2, Tree(phys', pool', lvl2),
           \A f \in Nodes, i \in Idx :
              lvl2[f] <= 2 /\ phys'[f][i].kind = "present" => phys[f][i] = phys'[f][i],
           TablesOf(phys)
    PROVE  TablesRight'
<1>1. \A k \in 1..3 : \A p \in Routes(k) :
          EntryIn(phys', p).kind = "present" => EntryIn(phys, p) = EntryIn(phys', p)
  BY TablesFrom
<1> QED
  BY <1>1 DEF TablesOf, TablesRight

LEMMA PagesKept ==
    ASSUME HeapPages, UnmapOk, PagesRight, LeavesKept(phys, phys'), brk' = brk, PagesOf(tlb),
           Ahead' = Ahead, job'.op = job.op \/ Ahead = {},
           job.op = "unmap" => Ahead \subseteq Vaddrs
    PROVE  HeapPages' /\ UnmapOk' /\ PagesRight'
<1>1. \A v \in Vaddrs : Leaf(v)' = Leaf(v)
  BY EntryAtNext, PathOfFacts DEF LeavesKept
<1>2. HeapPages'
  BY <1>1, VmmAssumption DEF HeapPages
<1>3. UnmapOk'
  BY <1>1 DEF UnmapOk
<1>4. PagesRight'
  BY <1>1 DEF PagesRight, PagesOf
<1> QED
  BY <1>2, <1>3, <1>4

LEMMA RootWalk ==
    \A ph, p : Walk(ph, p, 0, [j \in 0..4 |-> Root])
  BY DEF Walk, Chains, Nodes

\* The job stays at its page.
LEMMA SamePage ==
    ASSUME JobOk, job # NoJob, brk' = brk, NEW q, job' = [job EXCEPT !.path = q]
    PROVE  /\ job'.path = q /\ job'.op = job.op /\ job'.v = job.v /\ job'.left = job.left
           /\ job'.trim = job.trim /\ Ahead' = Ahead /\ Ahead \subseteq Vaddrs
           /\ JobRange => JobRange'
<1>1. /\ job \in JobIn /\ Fits(job.v, job.left)
  BY DEF JobOk
<1>2. /\ job'.path = q /\ job'.op = job.op /\ job'.v = job.v /\ job'.left = job.left
      /\ job'.trim = job.trim
  BY <1>1 DEF JobIn
<1>3. Ahead' = Ahead
  BY <1>2 DEF Ahead
<1>4. JobRange => JobRange'
  BY <1>2 DEF JobRange
<1>5. Ahead \subseteq Vaddrs
  <2>1. job.v \in Nat /\ job.left \in Nat
    BY <1>1, PathOfFacts DEF JobIn
  <2> QED
    BY <1>1, <2>1 DEF Ahead, Fits
<1> QED
  BY <1>2, <1>3, <1>4, <1>5

LEMMA AppendPath ==
    ASSUME NEW p \in Seq(Idx), NEW i \in Idx
    PROVE  /\ Append(p, i) \in Seq(Idx) /\ Append(p, i) # <<>>
           /\ Len(Append(p, i)) = Len(p) + 1
           /\ \A j \in 1..Len(p) : Append(p, i)[j] = p[j]
           /\ Append(p, i)[Len(p) + 1] = i
  OBVIOUS

LEMMA DescendFacts ==
    ASSUME NEW lvl, NEW c, Consistent(lvl, c), job # NoJob, Len(job.path) < 3, brk' = brk,
           job.op \in {"map", "map_to"} \/ ~job.trim, Descend(NextIdx)
    PROVE  /\ JobOk' /\ JobRange' /\ Ahead' = Ahead /\ Ahead \subseteq Vaddrs
           /\ Len(job'.path) = Len(job.path) + 1 /\ job'.path # <<>>
           /\ job'.op = job.op /\ job'.v = job.v /\ job'.trim = job.trim
<1> DEFINE k == Len(job.path)
           q == Append(job.path, NextIdx)
<1>1. /\ k \in 0..3 /\ job.path \in Seq(Idx) /\ job.v \in Vaddrs
      /\ \A j \in 1..k : job.path[j] = PathOf(job.v)[j]
  BY JobPath
<1>2. NextIdx \in Idx /\ NextIdx = PathOf(job.v)[k + 1]
  BY JobPlace
<1>3. /\ q \in Seq(Idx) /\ q # <<>> /\ Len(q) = k + 1
      /\ \A j \in 1..k : q[j] = job.path[j]
      /\ q[k + 1] = NextIdx
  BY <1>1, <1>2, AppendPath
<1>4. k < 3
  OBVIOUS
<1>5. job' = [job EXCEPT !.path = q]
  BY DEF Descend
<1>6. /\ JobOk /\ JobRange /\ job \in JobIn
  BY DEF Consistent, HeapOk, JobOk
<1> HIDE DEF k, q
<1>7. /\ job'.path = q /\ job'.op = job.op /\ job'.v = job.v /\ job'.left = job.left
      /\ job'.trim = job.trim /\ Ahead' = Ahead /\ Ahead \subseteq Vaddrs /\ JobRange'
  BY <1>5, <1>6, SamePage
<1>8. job' \in JobIn /\ job'.to = job.to
  BY <1>3, <1>5, <1>6 DEF JobIn
<1>9. Len(q) <= 3 /\ \A j \in 1..Len(q) : q[j] = PathOf(job.v)[j]
  <2>1. \A j \in 1..k + 1 : q[j] = PathOf(job.v)[j]
    BY <1>1, <1>2, <1>3
  <2> QED
    BY <1>1, <1>3, <1>4, <2>1
<1>10. JobOk'
  BY <1>6, <1>7, <1>8, <1>9 DEF JobOk
<1> QED
  BY <1>3, <1>7, <1>10 DEF k

-----------------------------------------------------------------------------
(* The steps of a job *)

LEMMA RunningJob ==
    /\ \A ops : Running(ops) /\ ops \subseteq Ops => job # NoJob /\ job.op \in ops
    /\ NoJob.op = "none" /\ NoJob.path = <<>> /\ NoJob.v = 0 /\ NoJob.left = 0
    /\ NoJob.trim = FALSE
<1>1. /\ NoJob.op = "none" /\ NoJob.path = <<>> /\ NoJob.v = 0 /\ NoJob.left = 0
      /\ NoJob.trim = FALSE
  BY DEF NoJob
<1>2. "none" \notin Ops
  BY DEF Ops
<1> QED
  BY <1>1, <1>2 DEF Running

\* A table that is there: the job goes down into it.
LEMMA DownKeeps ==
    ASSUME NEW lvl, NEW c, Consistent(lvl, c), job # NoJob, Len(job.path) < 3,
           ReadEntry(job.path, NextIdx).kind = "present", Descend(NextIdx),
           job.op \in {"map", "map_to"} \/ ~job.trim,
           UNCHANGED <<phys, pool, brk>>, tlb' = Remember(job.path)
    PROVE  Sane'
<1> DEFINE k == Len(job.path)
<1>1. /\ k \in 0..3 /\ c[k] \in Nodes /\ lvl[c[k]] = k
      /\ NextIdx \in Idx /\ NextIdx = PathOf(job.v)[k + 1]
      /\ ReadEntry(job.path, NextIdx) = phys[c[k]][NextIdx]
  BY JobPlace
<1>2. Walk(phys, PathOf(job.v), k, c)
  BY JobPath
<1>3. /\ JobOk' /\ JobRange' /\ Ahead' = Ahead /\ Ahead \subseteq Vaddrs
      /\ Len(job'.path) = k + 1 /\ job'.op = job.op /\ job'.v = job.v
  BY DescendFacts
<1>4. k < 3 /\ phys[c[k]][NextIdx].kind = "present"
  BY <1>1
<1> HIDE DEF k
<1>5. k \in 0..2
  BY <1>1, <1>4
<1>6. PICK g \in Frames : phys[c[k]][NextIdx] = Present(g)
  BY <1>1, <1>4, <1>5, TableEntry, EntryFacts DEF Consistent
<1>7. PICK c2 : c2 = [c EXCEPT ![k + 1] = g]
  OBVIOUS
<1>8. Walk(phys, PathOf(job.v), k + 1, c2)
  BY <1>1, <1>2, <1>6, <1>7, WalkOn DEF Nodes
<1>9. JobAt(c2)'
  BY <1>3, <1>8 DEF JobAt
<1>10. Filled(lvl, c2)'
  <2>1. \A f \in Nodes : lvl[f] \in 1..3 => \E i \in Idx : phys[f][i] # Unused
    <3>1. \A f \in Nodes : lvl[f] \in 1..3 =>
              f = c[k] \/ \E i \in Idx : phys[f][i] # Unused
      BY DEF Consistent, Filled, k
    <3>2. phys[c[k]][NextIdx] # Unused
      BY <1>6, EntryFacts
    <3> QED
      BY <1>1, <3>1, <3>2
  <2> QED
    BY <2>1 DEF Filled
<1>11. LeavesKept(phys, phys')
  BY DEF LeavesKept
<1>12. PagesOf(tlb) /\ TablesOf(phys)
  BY RememberFacts
<1>13. HeapPages' /\ UnmapOk' /\ PagesRight'
  BY <1>3, <1>11, <1>12, PagesKept DEF Consistent, HeapOk, TlbOk
<1>14. TablesRight'
  BY <1>12 DEF TablesOf, TablesRight
<1>15. Tree(phys, pool, lvl)' /\ (brk \in HeapStart..HeapEnd)'
  BY DEF Consistent, HeapOk
<1> QED
  BY <1>3, <1>9, <1>10, <1>13, <1>14, <1>15 DEF Sane, Consistent, HeapOk, TlbOk

LEMMA SameLeavesBy ==
    /\ LeavesKept(phys, phys') => SameLeaves
    /\ phys' = phys => SameLeaves
<1>1. \A v \in Vaddrs :
          /\ Path(PathOf(v), 4) /\ Leaf(v) = EntryIn(phys, PathOf(v))
          /\ Leaf(v)' = EntryIn(phys', PathOf(v))
  BY PathOfFacts, EntryAtNext
<1> QED
  BY <1>1 DEF SameLeaves, LeavesKept

LEMMA PtCreateKeeps ==
    ASSUME NEW lvl, NEW c, Consistent(lvl, c), PtCreate, OnCourse'
    PROVE  Sane' /\ SameLeaves
<1> DEFINE k == Len(job.path)
<1>1. job # NoJob /\ job.op \in {"map", "map_to"} /\ k < 3
  BY RunningJob DEF PtCreate, Ops
<1>2. /\ k \in 0..3 /\ c[k] \in Nodes /\ lvl[c[k]] = k
      /\ NextIdx \in Idx /\ NextIdx = PathOf(job.v)[k + 1]
      /\ Reached(job.path) = c[k]
      /\ ReadEntry(job.path, NextIdx) = phys[c[k]][NextIdx]
  BY <1>1, JobPlace
<1>3. CASE UNCHANGED <<phys, pool, tlb, brk, job>>
  <2>1. Consistent(lvl, c)'
    BY <1>3, Halted
  <2> QED
    BY <1>3, <2>1, SameLeavesBy DEF Sane
<1>4. CASE ~UNCHANGED <<phys, pool, tlb, brk, job>>
  <2>1. PICK N \in pool :
            LET child == Append(job.path, NextIdx)
                zeroed == IF child \in DOMAIN tlb THEN tlb[child] ELSE N
            IN  /\ pool' = pool \ {N}
                /\ phys' = [[phys EXCEPT ![c[k]][NextIdx] = Present(N)]
                               EXCEPT ![zeroed] = Zeroed]
                /\ tlb' = With(Remember(job.path), child, zeroed)
                /\ stopped' = IF zeroed = N THEN "" ELSE "astray"
                /\ brk' = brk /\ Descend(NextIdx)
    BY <1>2, <1>4 DEF PtCreate, Stop
  <2>2. phys[c[k]][NextIdx].kind # "present"
    BY <1>2 DEF PtCreate
  <2>3. PICK child : child = Append(job.path, NextIdx)
    OBVIOUS
  <2>4. /\ pool' = pool \ {N} /\ brk' = brk
        /\ phys' = [[phys EXCEPT ![c[k]][NextIdx] = Present(N)] EXCEPT ![N] = Zeroed]
        /\ tlb' = With(Remember(job.path), child, N)
    BY <2>1, <2>3 DEF OnCourse
  <2>5. /\ JobOk' /\ JobRange' /\ Ahead' = Ahead /\ Ahead \subseteq Vaddrs
        /\ Len(job'.path) = k + 1 /\ job'.path # <<>> /\ job'.op = job.op
        /\ job'.v = job.v
    BY <1>1, <2>1, DescendFacts
  <2>6. Walk(phys, PathOf(job.v), k, c)
    BY <1>1, JobPath
  <2>7. Path(PathOf(job.v), 4)
    BY <1>1, JobPath
  <2>8. \A f \in Nodes : lvl[f] \in 1..3 =>
            f = c[k] \/ \E i \in Idx : phys[f][i] # Unused
    BY DEF Consistent, Filled
  <2> HIDE DEF k
  <2>9. k \in 0..2
    BY <1>1, <1>2
  <2>10. phys[c[k]][NextIdx] = Unused
    BY <1>2, <2>2, <2>9, TableEntry, EntryFacts DEF Consistent
  <2>11. /\ phys \in [Nodes -> [Idx -> Entries]] /\ N \in Frames /\ lvl[N] = 5
         /\ N # c[k] /\ lvl \in [Nodes -> 0..5] /\ N \in Nodes
    BY <1>2, <2>9 DEF Consistent, Tree, Nodes
  <2>12. Links(phys, phys', c[k], NextIdx, N) /\ Empty(phys', N)
    <3>1. Present(N) \in Entries /\ Zeroed \in [Idx -> Entries]
      BY <2>11, EntryFacts DEF Zeroed
    <3>2. \A i \in Idx : Zeroed[i] = Unused
      BY DEF Zeroed
    <3> DEFINE ph1 == [phys EXCEPT ![c[k]][NextIdx] = Present(N)]
    <3>3. /\ ph1 \in [Nodes -> [Idx -> Entries]]
          /\ ph1[c[k]][NextIdx] = Present(N)
          /\ \A f \in Nodes, i \in Idx :
                ~(f = c[k] /\ i = NextIdx) => ph1[f][i] = phys[f][i]
      BY <1>2, <2>11, <3>1
    <3> HIDE DEF ph1
    <3>4. phys' = [ph1 EXCEPT ![N] = Zeroed]
      BY <2>4 DEF ph1
    <3>5. phys'[N] = Zeroed /\ \A f \in Nodes : f # N => phys'[f] = ph1[f]
      BY <2>11, <3>3, <3>4
    <3>6. phys' \in [Nodes -> [Idx -> Entries]]
      BY <3>1, <3>3, <3>4
    <3> QED
      BY <1>2, <2>11, <3>2, <3>3, <3>5, <3>6 DEF Links, Empty
  <2>13. PICK lvl2 : Moved(lvl, lvl2, N, k + 1)
    BY <2>9, <2>11, MovedTo
  <2>14. PICK c2 : c2 = [c EXCEPT ![k + 1] = N]
    OBVIOUS
  <2>15. Tree(phys', pool', lvl2)
    <3>1. Tree(phys, pool, lvl)
      BY DEF Consistent
    <3>2. Tree(phys', pool \ {N}, lvl2)
      BY <1>2, <2>9, <2>10, <2>12, <2>13, <3>1, TreeLink
    <3> QED
      BY <2>4, <3>2
  <2>16. Walk(phys', PathOf(job.v), k + 1, c2)
    <3>1. \A j \in 1..k : c[j - 1] \in Nodes /\ c[j - 1] # N /\ c[j - 1] # c[k]
                           /\ PathOf(job.v)[j] \in Idx
      <4>1. \A j \in 1..4 : PathOf(job.v)[j] \in Idx
        BY <2>7 DEF Path
      <4>2. \A j \in 0..k : c[j] \in Nodes /\ lvl[c[j]] = j
        BY <2>6, <2>9, <4>1, WalkLevel DEF Consistent
      <4>3. \A j \in 1..k : j - 1 \in 0..k /\ j - 1 # k /\ j - 1 # 5 /\ j \in 1..4
        BY <2>9
      <4> QED
        BY <1>2, <2>11, <4>1, <4>2, <4>3, SMTT(20)
    <3>2. \A j \in 1..k : phys'[c[j - 1]][PathOf(job.v)[j]] = phys[c[j - 1]][PathOf(job.v)[j]]
      BY <2>12, <3>1 DEF Links
    <3>3. Walk(phys', PathOf(job.v), k, c)
      BY <2>6, <2>9, <3>2 DEF Walk
    <3> QED
      BY <1>2, <2>9, <2>11, <2>12, <2>14, <3>3, WalkOn DEF Links
  <2>17. JobAt(c2)'
    BY <2>5, <2>16 DEF JobAt
  <2>18. Filled(lvl2, c2)'
    <3>1. SUFFICES ASSUME NEW f \in Nodes, lvl2[f] \in 1..3
                   PROVE  f = c2[k + 1] \/ \E i \in Idx : phys'[f][i] # Unused
      BY <1>1, <2>5 DEF Filled
    <3>2. c2[k + 1] = N
      BY <2>6, <2>9, <2>14 DEF Walk, Chains
    <3>3. CASE f = c[k]
      BY <1>2, <2>12, <3>3, EntryFacts DEF Links
    <3>4. CASE f # c[k] /\ f # N
      <4>1. lvl[f] \in 1..3
        BY <2>13, <3>1, <3>4 DEF Moved
      <4>2. PICK i \in Idx : phys[f][i] # Unused
        BY <2>8, <3>4, <4>1
      <4> QED
        BY <2>12, <3>4, <4>2 DEF Links
    <3> QED
      BY <3>2, <3>3, <3>4
  <2>19. LeavesKept(phys, phys')
    <3>1. lvl[c[k]] <= 2 /\ lvl2[c[k]] <= 2
      BY <1>2, <2>9, <2>11, <2>13 DEF Moved
    <3>2. Tree(phys, pool, lvl)
      BY DEF Consistent
    <3> QED
      BY <1>2, <2>10, <2>11, <2>12, <2>15, <3>1, <3>2, GraftLeaves
  <2>20. child \in Routes(k + 1) /\ child[k + 1] = NextIdx
         /\ \A j \in 1..k : child[j] = PathOf(job.v)[j]
    <3>1. /\ job.path \in Seq(Idx) /\ Len(job.path) = k
          /\ \A j \in 1..k : job.path[j] = PathOf(job.v)[j]
      BY <1>1, JobPath DEF k
    <3>2. /\ child \in Seq(Idx) /\ Len(child) = k + 1 /\ child[k + 1] = NextIdx
          /\ \A j \in 1..k : child[j] = job.path[j]
      BY <1>2, <2>3, <3>1, AppendPath
    <3> QED
      BY <2>9, <3>1, <3>2, LenProperties DEF Routes
  <2>21. PICK t : t = Remember(job.path)
    OBVIOUS
  <2>22. /\ \A v \in Vaddrs : PathOf(v) \in DOMAIN t =>
              PathOf(v) \in DOMAIN tlb /\ t[PathOf(v)] = tlb[PathOf(v)]
         /\ \A n \in 1..3 : \A p \in Routes(n) :
              p \in DOMAIN t /\ EntryIn(phys, p).kind = "present" => t[p] = EntryIn(phys, p).frame
    BY <1>1, <2>21, RememberHas
  <2>23. /\ DOMAIN tlb' = DOMAIN t \cup {child} /\ tlb'[child] = N
         /\ \A q \in DOMAIN t : q # child => tlb'[q] = t[q]
    <3>1. tlb' = With(t, child, N)
      BY <2>4, <2>21
    <3> QED
      BY <3>1 DEF With
  <2>24. PagesOf(tlb)
    <3>1. \A v \in Vaddrs : PathOf(v) # child
      <4>1. k + 1 \in 0..3
        BY <2>9
      <4> QED
        BY <2>20, <4>1, LongPath
    <3> QED
      BY <2>22, <2>23, <3>1 DEF PagesOf
  <2>25. HeapPages' /\ UnmapOk' /\ PagesRight'
    BY <2>4, <2>5, <2>19, <2>24, PagesKept DEF Consistent, HeapOk, TlbOk
  <2>26. TablesRight'
    <3>1. SUFFICES ASSUME NEW n \in 1..3, NEW p \in Routes(n), p \in DOMAIN tlb',
                          EntryIn(phys', p).kind = "present"
                   PROVE  tlb'[p] = EntryIn(phys', p).frame
      BY DEF TablesRight
    <3>2. Walk(phys', child, k, c2) /\ c2[k] = c[k]
      <4>1. Walk(phys', PathOf(job.v), k, c2)
        BY <2>9, <2>16 DEF Walk
      <4>2. k \in 0..4 /\ c2[k] = c[k]
        BY <2>6, <2>9, <2>14 DEF Walk, Chains
      <4> QED
        BY <2>20, <4>1, <4>2, WalkPath
    <3>3. EntryIn(phys, p) = EntryIn(phys', p) \/ (p = child /\ EntryIn(phys', p) = Present(N))
      <4>1. /\ Tree(phys', pool', lvl2) /\ c[k] \in Nodes /\ NextIdx \in Idx /\ N \in Frames
            /\ Links(phys, phys', c[k], NextIdx, N) /\ Empty(phys', N)
        BY <1>2, <2>9, <2>10, <2>11, <2>12, <2>15
      <4>2. /\ k \in 0..2 /\ child \in Routes(k + 1) /\ child[k + 1] = NextIdx
            /\ Walk(phys', child, k, c2) /\ c2[k] = c[k]
        BY <2>9, <2>20, <3>2
      <4>3. Grafted(phys, phys', c[k], NextIdx, N, k, child, c2)
        BY <4>1, <4>2 DEF Grafted
      <4> QED
        BY <3>1, <4>1, <4>3, TablesGraft
    <3>4. CASE p = child
      <4>1. EntryIn(phys', p) = Present(N)
        <5>1. Walk(phys', child, k + 1, c2)
          <6>1. k + 1 \in 0..4 /\ \A j \in 1..k + 1 : child[j] = PathOf(job.v)[j]
            BY <1>2, <2>9, <2>20
          <6> QED
            BY <2>16, <6>1, WalkPath
        <5>2. k + 1 \in 1..4 /\ Path(child, k + 1) /\ c2[k + 1] = N
          BY <2>6, <2>9, <2>14, <2>20, SeqFun, SMTT(30) DEF Routes, Walk, Chains
        <5> QED
          BY <3>4, <5>1, <5>2, WalkEnd
      <4> QED
        BY <2>23, <3>4, <4>1, EntryFacts
    <3>5. CASE p # child
      BY <2>22, <2>23, <3>1, <3>3, <3>5
    <3> QED
      BY <3>4, <3>5
  <2>27. (brk \in HeapStart..HeapEnd)'
    BY <2>4 DEF Consistent, HeapOk
  <2> QED
    BY <2>5, <2>15, <2>17, <2>18, <2>19, <2>25, <2>26, <2>27, SameLeavesBy
    DEF Sane, Consistent, HeapOk, TlbOk
<1> QED
  BY <1>3, <1>4

\* The job comes to its next page, or its end.
LEMMA NextPageFacts ==
    ASSUME After(Device) = Device, JobOk, job # NoJob, brk \in Int, brk' = brk, NextPage
    PROVE  /\ JobOk' /\ job'.path = <<>> /\ Len(job'.path) = 0 /\ ~job'.trim
           /\ job.v \in Vaddrs /\ job.v \in Nat /\ job.left \in Nat \ {0}
           /\ job.op \in Ops
           /\ Ahead' = job.v + 1..job.v + job.left - 1 /\ Ahead' \subseteq Vaddrs
           /\ job'.op = job.op \/ (job'.op = "none" /\ Ahead' = {})
           /\ JobRange => JobRange'
<1>1. job \in JobIn /\ Fits(job.v, job.left) /\ (job.op = "map_to" => job.to = Device)
  BY DEF JobOk
<1>2. /\ job.op \in Ops /\ job.v \in Vaddrs /\ job.v \in Nat
      /\ job.left \in Nat \ {0} /\ job.to \in {NoFrame, Device}
  BY <1>1, PathOfFacts DEF JobIn
<1>3. \A w \in job.v..job.v + job.left - 1 : w \in Vaddrs
  BY <1>1 DEF Fits
<1>4. CASE job.left = 1
  <2>1. job' = NoJob
    BY <1>4 DEF NextPage
  <2>2. /\ job'.op = "none" /\ job'.path = <<>> /\ job'.v = 0 /\ job'.left = 0
        /\ job'.trim = FALSE
    BY <2>1, RunningJob
  <2>3. JobOk'
    BY <2>1 DEF JobOk
  <2>4. Ahead' = {}
    BY <2>2 DEF Ahead
  <2>5. job.v + 1..job.v + job.left - 1 = {}
    BY <1>2, <1>4
  <2>6. JobRange'
    <3>1. 0..0 + 0 - 1 = {}
      OBVIOUS
    <3> QED
      BY <2>2, <3>1 DEF JobRange, OutsideHeap
  <2>7. Len(job'.path) = 0
    BY <2>2
  <2> QED
    BY <1>2, <2>2, <2>3, <2>4, <2>5, <2>6, <2>7
<1>5. CASE job.left # 1
  <2>1. job' = [job EXCEPT !.v = @ + 1, !.to = IF job.op = "map_to" THEN After(@) ELSE @,
                           !.left = @ - 1, !.path = <<>>, !.trim = FALSE]
    BY <1>5 DEF NextPage
  <2>2. /\ job'.op = job.op /\ job'.v = job.v + 1 /\ job'.left = job.left - 1
        /\ job'.path = <<>> /\ job'.trim = FALSE
        /\ job'.to = IF job.op = "map_to" THEN After(job.to) ELSE job.to
    BY <1>1, <2>1 DEF JobIn
  <2>3. job'.to = job.to
    BY <1>1, <2>2
  <2>4. job.v + 1 \in Vaddrs /\ job.left - 1 \in Nat \ {0}
    BY <1>2, <1>3, <1>5
  <2>5. <<>> \in Seq(Idx) /\ Len(<<>>) = 0
    OBVIOUS
  <2>6. job' \in JobIn
    BY <1>1, <2>1, <2>3, <2>4, <2>5 DEF JobIn
  <2>7. /\ Ahead' = job.v + 1..job.v + job.left - 1
        /\ Fits(job.v, job.left)'
    <3>1. job.v + 1 + (job.left - 1) - 1 = job.v + job.left - 1
      BY <1>2
    <3>2. job'.v..job'.v + job'.left - 1 = job.v + 1..job.v + job.left - 1
      BY <2>2, <3>1
    <3>3. job.v + 1..job.v + job.left - 1 \subseteq Vaddrs
      BY <1>2, <1>3
    <3>4. Ahead' = job'.v + 0..job'.v + job'.left - 1 /\ job'.v + 0 = job'.v
      BY <1>2, <2>2 DEF Ahead
    <3> QED
      BY <3>2, <3>3, <3>4 DEF Fits
  <2>8. JobOk'
    BY <1>1, <2>2, <2>3, <2>5, <2>6, <2>7 DEF JobOk
  <2>9. JobRange => JobRange'
    <3>1. OutsideHeap(job.v, job.left) => OutsideHeap(job.v, job.left)'
      BY <1>2, <2>2 DEF OutsideHeap
    <3>2. job'.v + job'.left = job.v + job.left
      BY <1>2, <2>2
    <3>3. /\ HeapStart <= job.v => HeapStart <= job'.v
          /\ brk' <= job.v => brk' <= job'.v
      <4>1. HeapStart \in Int
        BY VmmAssumption, PathOfFacts
      <4> QED
        BY <1>2, <2>2, <4>1
    <3> QED
      BY <2>2, <3>1, <3>2, <3>3 DEF JobRange
  <2>10. Len(job'.path) = 0 /\ Ahead' \subseteq Vaddrs
    BY <1>2, <1>3, <2>2, <2>7
  <2> QED
    BY <1>2, <2>2, <2>7, <2>8, <2>9, <2>10
<1> QED
  BY <1>4, <1>5

\* Writing the entry of page v changes page v.
LEMMA PageWritten ==
    ASSUME NEW lvl, Tree(phys, pool, lvl), NEW lvl2, Tree(phys', pool', lvl2),
           \A f \in Nodes : lvl2[f] <= 3 => lvl[f] <= 3,
           NEW v \in Vaddrs, NEW c, Walk(phys, PathOf(v), 3, c),
           NEW e, Writes(phys, phys', c[3], PathOf(v)[4], e)
    PROVE  /\ Walk(phys', PathOf(v), 3, c)
           /\ Leaf(v) = phys[c[3]][PathOf(v)[4]] /\ Leaf(v)' = e
           /\ \A w \in Vaddrs : w # v => Leaf(w)' = Leaf(w)
<1>1. Path(PathOf(v), 4) /\ \A w \in Vaddrs : Path(PathOf(w), 4)
  BY PathOfFacts
<1>2. /\ phys'[c[3]][PathOf(v)[4]] = e
      /\ \A f \in Nodes, i \in Idx :
            lvl[f] <= 3 /\ ~(f = c[3] /\ i = PathOf(v)[4]) => phys'[f][i] = phys[f][i]
  BY DEF Writes
<1>3. /\ Walk(phys', PathOf(v), 3, c)
      /\ EntryIn(phys', PathOf(v)) = e
      /\ \A q : Path(q, 4) /\ (\E j \in 1..4 : q[j] # PathOf(v)[j])
                   => EntryIn(phys', q) = EntryIn(phys, q)
  BY <1>1, <1>2, WriteLeaf
<1>4. \A w \in Vaddrs : w # v => Leaf(w)' = Leaf(w)
  BY <1>1, <1>3, PathOfFacts, EntryAtNext
<1>5. Leaf(v) = phys[c[3]][PathOf(v)[4]]
  BY <1>1, WalkEntry, EntryAtNext
<1> QED
  BY <1>3, <1>4, <1>5, EntryAtNext

LEMMA SetLeafKeeps ==
    ASSUME After(Device) = Device, NEW lvl, NEW c, Consistent(lvl, c), SetLeaf
    PROVE  /\ Sane'
           /\ \/ SameLeaves
              \/ \E v \in Vaddrs : \E e \in {ToAlloc, Present(Device)} : OneLeaf(v, Unused, e)
<1>1. job # NoJob /\ job.op \in {"map", "map_to"} /\ Len(job.path) = 3
  BY RunningJob DEF SetLeaf, Ops
<1>2. /\ c[3] \in Nodes /\ lvl[c[3]] = 3
      /\ NextIdx \in Idx /\ NextIdx = PathOf(job.v)[4]
      /\ Reached(job.path) = c[3]
      /\ ReadEntry(job.path, NextIdx) = phys[c[3]][NextIdx]
  BY <1>1, JobPlace
<1>3. CASE UNCHANGED <<phys, pool, tlb, brk, job>>
  <2>1. Consistent(lvl, c)'
    BY <1>3, Halted
  <2> QED
    BY <1>3, <2>1, SameLeavesBy DEF Sane
<1>4. CASE ~UNCHANGED <<phys, pool, tlb, brk, job>>
  <2>1. PICK e : e = IF job.op = "map" THEN ToAlloc ELSE Present(job.to)
    OBVIOUS
  <2>2. /\ phys[c[3]][NextIdx] = Unused
        /\ phys' = [phys EXCEPT ![c[3]][NextIdx] = e]
        /\ NextPage /\ UNCHANGED <<pool, brk>> /\ tlb' = Remember(job.path)
    BY <1>2, <1>4, <2>1 DEF SetLeaf, Stop
  <2>3. e \in {ToAlloc, Present(Device)}
    BY <1>1, <2>1 DEF Consistent, JobOk
  <2>4. Tree(phys, pool, lvl) /\ phys \in [Nodes -> [Idx -> Entries]]
    BY DEF Consistent, Tree
  <2>5. Writes(phys, phys', c[3], NextIdx, e)
    <3>1. e \in Entries
      BY <2>3, EntryFacts
    <3> QED
      BY <1>2, <2>2, <2>4, <3>1, WritesEntry
  <2>6. Tree(phys', pool', lvl)
    BY <1>2, <2>2, <2>3, <2>4, <2>5, TreeRelabel
  <2>7. PICK v \in Vaddrs : v = job.v
    BY <1>1, JobPath
  <2>8. /\ Leaf(v) = Unused /\ Leaf(v)' = e
        /\ \A w \in Vaddrs : w # v => Leaf(w)' = Leaf(w)
    <3>1. Walk(phys, PathOf(v), 3, c) /\ Writes(phys, phys', c[3], PathOf(v)[4], e)
      BY <1>1, <1>2, <2>5, <2>7, JobPath
    <3>2. phys[c[3]][PathOf(v)[4]] = Unused
      BY <1>2, <2>2, <2>7
    <3> QED
      BY <2>4, <2>6, <3>1, <3>2, PageWritten
  <2>16. brk \in Int /\ (brk \in HeapStart..HeapEnd)'
    BY <2>2 DEF Consistent, HeapOk
  <2>9. /\ JobOk' /\ job'.path = <<>> /\ Len(job'.path) = 0
        /\ job.v \in Nat /\ job.left \in Nat \ {0}
        /\ Ahead' = job.v + 1..job.v + job.left - 1 /\ Ahead' \subseteq Vaddrs
        /\ job'.op \in {"map", "map_to", "none"}
        /\ JobRange'
    BY <1>1, <2>2, <2>16, NextPageFacts DEF Consistent, HeapOk
  <2>10. PICK c2 : c2 = [j \in 0..4 |-> Root]
    OBVIOUS
  <2>11. JobAt(c2)'
    BY <2>9, <2>10, RootWalk DEF JobAt
  <2>12. Filled(lvl, c2)'
    <3>1. SUFFICES ASSUME NEW f \in Nodes, lvl[f] \in 1..3
                   PROVE  \E i \in Idx : phys'[f][i] # Unused
      BY DEF Filled
    <3>2. CASE f = c[3]
      BY <1>2, <2>3, <2>5, <3>2, EntryFacts DEF Writes
    <3>3. CASE f # c[3]
      <4>1. PICK i \in Idx : phys[f][i] # Unused
        BY <1>1, <3>1, <3>3 DEF Consistent, Filled
      <4> QED
        BY <2>5, <3>3, <4>1 DEF Writes
    <3> QED
      BY <3>2, <3>3
  <2>13. TlbOk'
    <3>1. PagesOf(tlb) /\ TablesOf(phys)
      BY <1>1, <2>2, RememberFacts
    <3>2. PagesRight'
      <4>1. SUFFICES ASSUME NEW w \in Vaddrs, PathOf(w) \in DOMAIN tlb'
                     PROVE  Leaf(w)' = Present(tlb'[PathOf(w)])
        BY DEF PagesRight
      <4>2. Leaf(w) = Present(tlb'[PathOf(w)])
        BY <3>1, <4>1 DEF PagesOf, Consistent, TlbOk, PagesRight
      <4> QED
        BY <2>8, <4>2, EntryFacts
    <3>3. TablesRight'
      BY <1>2, <2>5, <2>6, <3>1, TablesKept DEF Writes
    <3> QED
      BY <3>2, <3>3 DEF TlbOk
  <2>14. UnmapOk'
    BY <2>9 DEF UnmapOk
  <2>15. HeapPages'
    <3>1. SUFFICES ASSUME NEW w \in HeapStart..HeapEnd - 1
                   PROVE  Leaf(w)' # Unused <=> w < brk /\ w \notin Ahead'
      BY <2>2, <2>9 DEF HeapPages
    <3>2. w \in Vaddrs /\ w \in Int
      BY VmmAssumption, PathOfFacts
    <3>3. ~job.trim
      BY <1>1 DEF Consistent, JobOk
    <3>4. Leaf(w) # Unused <=> w < brk /\ w \notin job.v..job.v + job.left - 1
      <4>1. Ahead = job.v..job.v + job.left - 1
        BY <2>9, <3>3 DEF Ahead
      <4> QED
        BY <1>1, <4>1 DEF Consistent, HeapOk, HeapPages
    <3>5. CASE w = v
      <4>1. ~OutsideHeap(job.v, job.left)
        BY <2>7, <2>9, <3>5 DEF OutsideHeap
      <4>2. job.v + job.left = brk
        BY <1>1, <4>1 DEF Consistent, HeapOk, JobRange
      <4>3. Leaf(w)' # Unused
        BY <2>3, <2>8, <3>5, EntryFacts
      <4> QED
        BY <2>7, <2>9, <3>5, <4>2, <4>3
    <3>6. CASE w # v
      <4>1. Leaf(w)' = Leaf(w)
        BY <2>8, <3>2, <3>6
      <4>2. w \in Ahead' <=> w \in job.v..job.v + job.left - 1
        BY <2>7, <2>9, <3>2, <3>6
      <4> QED
        BY <3>4, <4>1, <4>2
    <3> QED
      BY <3>5, <3>6
  <2>17. OneLeaf(v, Unused, e)
    BY <2>8 DEF OneLeaf
  <2>18. Sane'
    BY <2>6, <2>9, <2>11, <2>12, <2>13, <2>14, <2>15, <2>16 DEF Sane, Consistent, HeapOk
  <2> QED
    BY <2>3, <2>17, <2>18
<1> QED
  BY <1>3, <1>4

LEMMA ClearLeafKeeps ==
    ASSUME NEW lvl, NEW c, Consistent(lvl, c), ClearLeaf
    PROVE  /\ Sane'
           /\ \/ SameLeaves
              \/ \E v \in Vaddrs, g \in Frames \cup {Device} : OneLeaf(v, Present(g), Unused)
<1>1. /\ job # NoJob /\ job.op \in {"free", "unmap"} /\ Len(job.path) = 3 /\ ~job.trim
      /\ job.path # <<>>
  <2>1. job # NoJob /\ job.op \in {"free", "unmap"} /\ Len(job.path) = 3 /\ ~job.trim
    BY RunningJob DEF ClearLeaf, Ops
  <2>2. job.path # <<>>
    BY <2>1
  <2> QED
    BY <2>1, <2>2
<1>2. /\ c[3] \in Nodes /\ lvl[c[3]] = 3
      /\ NextIdx \in Idx /\ NextIdx = PathOf(job.v)[4]
      /\ Reached(job.path) = c[3]
      /\ ReadEntry(job.path, NextIdx) = phys[c[3]][NextIdx]
  BY <1>1, JobPlace
<1>3. CASE UNCHANGED <<phys, pool, tlb, brk, job>>
  <2>1. Consistent(lvl, c)'
    BY <1>3, Halted
  <2> QED
    BY <1>3, <2>1, SameLeavesBy DEF Sane
<1>4. CASE ~UNCHANGED <<phys, pool, tlb, brk, job>>
  <2>1. PICK e : e = phys[c[3]][NextIdx]
    OBVIOUS
  <2>2. PICK v \in Vaddrs : v = job.v
    BY <1>1, JobPath
  <2>3. /\ e # Unused /\ (job.op = "free" => e.frame \in Frames)
        /\ pool' = IF job.op = "free" THEN pool \cup {e.frame} ELSE pool
        /\ phys' = [phys EXCEPT ![c[3]][NextIdx] = Unused]
        /\ tlb' = [q \in DOMAIN tlb \ {PathOf(v)} |-> tlb[q]]
        /\ job' = [job EXCEPT !.trim = TRUE] /\ brk' = brk
    BY <1>2, <1>4, <2>1, <2>2 DEF ClearLeaf, Stop, Cleared, invlpg, Without
  <2>4. /\ Tree(phys, pool, lvl) /\ phys \in [Nodes -> [Idx -> Entries]]
        /\ lvl \in [Nodes -> 0..5]
    BY DEF Consistent, Tree
  <2>5. Writes(phys, phys', c[3], NextIdx, Unused)
    BY <1>2, <2>3, <2>4, EntryFacts, WritesEntry
  <2>6. Walk(phys, PathOf(v), 3, c) /\ v \in Nat
    BY <1>1, <2>2, JobPath, PathOfFacts
  <2>7. Leaf(v) = e
    <3>1. Path(PathOf(v), 4)
      BY PathOfFacts
    <3>2. EntryIn(phys, PathOf(v)) = phys[c[3]][PathOf(v)[4]]
      BY <2>6, <3>1, WalkEntry
    <3> QED
      BY <1>2, <2>1, <2>2, <3>2, EntryAtNext
  <2>8. /\ job \in JobIn /\ Fits(job.v, job.left) /\ job.left \in Nat \ {0}
        /\ brk \in HeapStart..HeapEnd
    BY <1>1 DEF Consistent, HeapOk, JobOk, JobIn
  <2>9. Ahead = v..v + job.left - 1
    <3>1. Ahead = v + 0..v + job.left - 1
      BY <1>1, <2>2 DEF Ahead
    <3> QED
      BY <2>6, <3>1
  <2>10. /\ job'.op = job.op /\ job'.v = job.v /\ job'.left = job.left /\ job'.to = job.to
         /\ job'.path = job.path /\ job'.trim = TRUE
         /\ Ahead' = v + 1..v + job.left - 1
    <3>1. /\ job'.op = job.op /\ job'.v = job.v /\ job'.left = job.left
          /\ job'.to = job.to /\ job'.path = job.path /\ job'.trim = TRUE
      BY <2>3, <2>8 DEF JobIn
    <3> QED
      BY <2>2, <3>1 DEF Ahead
  <2>11. \A w \in Vaddrs : w # v => (w \in Ahead' <=> w \in Ahead)
    <3>1. \A w \in Vaddrs : w \in Nat
      BY PathOfFacts
    <3> QED
      BY <2>6, <2>8, <2>9, <2>10, <3>1
  <2>12. v \in Ahead /\ v \notin Ahead' /\ Ahead \subseteq Vaddrs /\ Ahead' \subseteq Ahead
    BY <2>2, <2>6, <2>8, <2>9, <2>10 DEF Fits
  <2>13. \E lvl2 : /\ \E g \in Frames \cup {Device} : e = Present(g)
                   /\ Tree(phys', pool', lvl2)
                   /\ \A f \in Nodes : lvl2[f] <= 3 => lvl2[f] = lvl[f]
    <3>1. CASE job.op = "free"
      <4>1. PICK N : N = e.frame
        OBVIOUS
      <4>2. e = Present(N) /\ N \in Frames /\ N \in Nodes
        <5>1. EntryOk(lvl, 3, e)
          BY <1>2, <2>1, <2>4, TreeEntry
        <5>2. e.frame \in Frames
          BY <2>3, <3>1
        <5>3. e # ToAlloc /\ e # Present(Device)
          BY <5>2, EntryFacts, VmmAssumption
        <5> QED
          BY <2>3, <4>1, <5>1, <5>2, <5>3, EntryFacts DEF EntryOk, Nodes
      <4>3. PICK lvl2 : Moved(lvl, lvl2, N, 5)
        BY <2>4, <4>2, MovedTo
      <4>4. Tree(phys', pool \cup {N}, lvl2)
        <5>1. phys[c[3]][NextIdx] = Present(N)
          BY <2>1, <4>2
        <5>2. 3 \in 0..3 /\ (3 <= 2 => Empty(phys, N))
          OBVIOUS
        <5> QED
          BY <1>2, <2>4, <2>5, <4>2, <4>3, <5>1, <5>2, TreeUnlink
      <4>5. pool' = pool \cup {N}
        BY <2>3, <3>1, <4>1
      <4>6. \A f \in Nodes : lvl2[f] <= 3 => lvl2[f] = lvl[f]
        BY <4>3 DEF Moved
      <4> QED
        BY <4>2, <4>4, <4>5, <4>6
    <3>2. CASE job.op = "unmap"
      <4>1. e = Present(Device)
        BY <2>7, <2>12, <3>2 DEF Consistent, UnmapOk
      <4>2. Tree(phys', pool, lvl)
        BY <1>2, <2>1, <2>4, <2>5, <4>1, TreeRelabel
      <4>3. pool' = pool
        BY <2>3, <3>2
      <4> QED
        BY <4>1, <4>2, <4>3
    <3> QED
      BY <1>1, <3>1, <3>2
  <2>14. PICK lvl2 : /\ \E g \in Frames \cup {Device} : e = Present(g)
                     /\ Tree(phys', pool', lvl2)
                     /\ \A f \in Nodes : lvl2[f] <= 3 => lvl2[f] = lvl[f]
    BY <2>13
  <2>15. /\ Walk(phys', PathOf(v), 3, c) /\ Leaf(v)' = Unused
         /\ \A w \in Vaddrs : w # v => Leaf(w)' = Leaf(w)
    <3>1. Writes(phys, phys', c[3], PathOf(v)[4], Unused)
      BY <1>2, <2>2, <2>5
    <3>2. \A f \in Nodes : lvl2[f] <= 3 => lvl[f] <= 3
      BY <2>14
    <3> QED
      BY <2>4, <2>6, <2>14, <3>1, <3>2, PageWritten
  <2>16. JobOk'
    <3>1. job' \in JobIn
      BY <2>3, <2>8 DEF JobIn
    <3> QED
      BY <1>1, <2>8, <2>10, <3>1 DEF JobOk, Consistent
  <2>17. JobAt(c)'
    BY <1>1, <2>2, <2>10, <2>15 DEF JobAt
  <2>18. Filled(lvl2, c)'
    <3>1. SUFFICES ASSUME NEW f \in Nodes, lvl2[f] \in 1..3, f # c[3]
                   PROVE  \E i \in Idx : phys'[f][i] # Unused
      BY <1>1, <2>10 DEF Filled
    <3>2. lvl[f] \in 1..3
      BY <2>14, <3>1
    <3>3. PICK i \in Idx : phys[f][i] # Unused
      BY <1>1, <3>1, <3>2 DEF Consistent, Filled
    <3> QED
      BY <2>5, <3>1, <3>3 DEF Writes
  <2>19. TlbOk'
    <3>1. \A p \in DOMAIN tlb' : p \in DOMAIN tlb /\ p # PathOf(v) /\ tlb'[p] = tlb[p]
      BY <2>3
    <3>2. PagesRight'
      <4>1. SUFFICES ASSUME NEW w \in Vaddrs, PathOf(w) \in DOMAIN tlb'
                     PROVE  Leaf(w)' = Present(tlb'[PathOf(w)])
        BY DEF PagesRight
      <4>2. w # v /\ Leaf(w) = Present(tlb'[PathOf(w)])
        BY <3>1, <4>1 DEF Consistent, TlbOk, PagesRight
      <4> QED
        BY <2>15, <4>2
    <3>3. TablesOf(phys)
      BY <3>1 DEF TablesOf, Consistent, TlbOk, TablesRight
    <3>4. \A f \in Nodes : lvl2[f] <= 2 => f # c[3]
      <4>1. \A f \in Nodes : lvl2[f] <= 2 => lvl2[f] <= 3
        BY <2>14 DEF Tree
      <4> QED
        BY <1>2, <2>14, <4>1
    <3>5. TablesRight'
      BY <2>5, <2>14, <3>3, <3>4, TablesKept DEF Writes
    <3> QED
      BY <3>2, <3>5 DEF TlbOk
  <2>20. UnmapOk'
    <3>1. SUFFICES ASSUME job.op = "unmap", NEW w \in Ahead' PROVE Leaf(w)' = Present(Device)
      BY <2>10 DEF UnmapOk
    <3>2. w \in Vaddrs /\ w # v /\ w \in Ahead
      BY <2>12, <3>1
    <3>3. Leaf(w) = Present(Device)
      BY <3>1, <3>2 DEF Consistent, UnmapOk
    <3> QED
      BY <2>15, <3>2, <3>3
  <2>21. JobRange'
    BY <2>3, <2>10 DEF JobRange, Consistent, HeapOk
  <2>22. HeapPages'
    <3>1. SUFFICES ASSUME NEW w \in HeapStart..HeapEnd - 1
                   PROVE  Leaf(w)' # Unused <=> \/ w < brk /\ w \notin Ahead'
                                                \/ w \in Ahead'
      BY <1>1, <2>3, <2>10 DEF HeapPages
    <3>2. w \in Vaddrs /\ w \in Nat
      BY VmmAssumption, PathOfFacts
    <3>3. Leaf(w) # Unused <=> (w < brk /\ w \notin Ahead) \/ w \in Ahead
      BY <1>1 DEF Consistent, HeapOk, HeapPages
    <3>4. CASE w = v
      <4>1. v \in job.v..job.v + job.left - 1
        BY <2>2, <2>9, <2>12
      <4>2. ~OutsideHeap(job.v, job.left)
        BY <3>4, <4>1 DEF OutsideHeap
      <4>3. brk <= v
        BY <1>1, <2>2, <4>2 DEF Consistent, HeapOk, JobRange
      <4> QED
        BY <2>6, <2>8, <2>12, <2>15, <3>4, <4>3
    <3>5. CASE w # v
      BY <2>11, <2>15, <3>2, <3>3, <3>5
    <3> QED
      BY <3>4, <3>5
  <2>23. (brk \in HeapStart..HeapEnd)'
    BY <2>3, <2>8
  <2>24. Sane'
    BY <2>14, <2>16, <2>17, <2>18, <2>19, <2>20, <2>21, <2>22, <2>23
    DEF Sane, Consistent, HeapOk
  <2>25. PICK g \in Frames \cup {Device} : e = Present(g)
    BY <2>14
  <2>26. OneLeaf(v, Present(g), Unused)
    BY <2>7, <2>15, <2>25 DEF OneLeaf
  <2> QED
    BY <2>24, <2>26
<1> QED
  BY <1>3, <1>4

LEMMA FreeTableKeeps ==
    ASSUME NEW lvl, NEW c, Consistent(lvl, c), FreeTable
    PROVE  Sane' /\ SameLeaves
<1> DEFINE k == Len(job.path)
           parent == Prefix(job.path, k - 1)
<1>1. /\ job # NoJob /\ job.op \in {"free", "unmap"} /\ job.trim /\ job.path # <<>>
  BY RunningJob DEF FreeTable, Ops
<1>2. /\ k \in 1..3 /\ c[k] \in Frames /\ c[k - 1] \in Nodes /\ lvl[c[k - 1]] = k - 1
      /\ job.path[k] \in Idx
      /\ Reached(parent) = c[k - 1]
      /\ phys[c[k - 1]][job.path[k]] = Present(c[k])
      /\ ReadEntry(parent, job.path[k]) = Present(c[k])
  BY <1>1, JobParent
<1>3. lvl[c[k]] = k /\ \A i : ReadEntry(job.path, i) = phys[c[k]][i]
  BY <1>1, JobPlace
<1>4. /\ Path(PathOf(job.v), 4) /\ Walk(phys, PathOf(job.v), k, c)
      /\ job.path \in Seq(Idx) /\ \A j \in 1..k : job.path[j] = PathOf(job.v)[j]
      /\ k = Len(job.path)
  BY <1>1, JobPath
<1>5. /\ parent \in Seq(Idx) /\ Len(parent) = k - 1
      /\ \A j \in 1..k - 1 : parent[j] = job.path[j]
  BY <1>2, <1>4, PrefixFacts, SMTT(20) DEF Path
<1>6. Empty(phys, c[k])
  BY <1>3 DEF FreeTable, IsEmpty, Empty
<1>7. \A f \in Nodes : lvl[f] \in 1..3 =>
          f = c[k] \/ \E i \in Idx : phys[f][i] # Unused
  BY DEF Consistent, Filled
<1>8. /\ pool' = pool \cup {c[k]}
      /\ phys' = [phys EXCEPT ![c[k - 1]][job.path[k]] = Unused]
      /\ job' = [job EXCEPT !.path = parent]
      /\ tlb' = Remember(job.path) /\ brk' = brk
  BY <1>2, EntryFacts DEF FreeTable
<1>9. JobOk /\ JobRange /\ job \in JobIn
  BY <1>1 DEF Consistent, HeapOk, JobOk
<1>10. /\ job'.path = parent /\ job'.op = job.op /\ job'.v = job.v /\ job'.left = job.left
       /\ job'.trim = job.trim /\ Ahead' = Ahead /\ Ahead \subseteq Vaddrs /\ JobRange'
  BY <1>1, <1>8, <1>9, SamePage
<1> HIDE DEF k, parent
<1>11. JobOk'
  <2>1. job' \in JobIn /\ job'.to = job.to
    BY <1>5, <1>8, <1>9 DEF JobIn
  <2>2. Len(parent) <= 3 /\ \A j \in 1..Len(parent) : parent[j] = PathOf(job.v)[j]
    <3>1. \A j \in 1..k - 1 : parent[j] = PathOf(job.v)[j]
      BY <1>2, <1>4, <1>5
    <3> QED
      BY <1>2, <1>5, <3>1
  <2> QED
    BY <1>1, <1>9, <1>10, <2>1, <2>2 DEF JobOk
<1>12. /\ Tree(phys, pool, lvl) /\ phys \in [Nodes -> [Idx -> Entries]]
       /\ lvl \in [Nodes -> 0..5]
  BY DEF Consistent, Tree
<1>13. Writes(phys, phys', c[k - 1], job.path[k], Unused)
  BY <1>2, <1>8, <1>12, EntryFacts, WritesEntry
<1>14. PICK m \in 0..2 : m = k - 1
  BY <1>2
<1>15. c[k] \in Nodes /\ c[k] # c[m]
  BY <1>2, <1>3, <1>14 DEF Nodes
<1>16. PICK lvl2 : Moved(lvl, lvl2, c[k], 5)
  BY <1>12, <1>15, MovedTo
<1>17. Tree(phys', pool', lvl2)
  <2>1. /\ lvl[c[m]] = m /\ phys[c[m]][job.path[k]] = Present(c[k]) /\ c[m] \in Nodes
        /\ Writes(phys, phys', c[m], job.path[k], Unused)
    BY <1>2, <1>13, <1>14
  <2>2. Tree(phys', pool \cup {c[k]}, lvl2)
    BY <1>2, <1>6, <1>12, <1>16, <2>1, TreeUnlink, SMTT(20)
  <2> QED
    BY <1>8, <2>2
<1>18. Walk(phys', PathOf(job.v), m, c)
  <2>1. \A j \in 1..4 : PathOf(job.v)[j] \in Idx
    BY <1>4 DEF Path
  <2>2. \A j \in 0..k : c[j] \in Nodes /\ lvl[c[j]] = j
    BY <1>2, <1>4, <1>12, <2>1, WalkLevel
  <2>3. \A j \in 1..m : c[j - 1] \in Nodes /\ c[j - 1] # c[k - 1]
    BY <1>2, <1>14, <2>2
  <2>4. \A j \in 1..m : phys'[c[j - 1]][PathOf(job.v)[j]] = phys[c[j - 1]][PathOf(job.v)[j]]
    <3>1. \A j \in 1..m : PathOf(job.v)[j] \in Idx
      BY <2>1
    <3>2. \A f \in Nodes, i \in Idx : f # c[k - 1] => phys'[f][i] = phys[f][i]
      BY <1>13 DEF Writes
    <3> QED
      BY <2>3, <3>1, <3>2
  <2>5. Walk(phys, PathOf(job.v), m, c)
    BY <1>2, <1>4, <1>14 DEF Walk
  <2> QED
    BY <2>4, <2>5 DEF Walk
<1>19. JobAt(c)'
  BY <1>5, <1>10, <1>14, <1>18 DEF JobAt
<1>20. Filled(lvl2, c)'
  <2>1. SUFFICES ASSUME NEW f \in Nodes, lvl2[f] \in 1..3, f # c[m]
                 PROVE  \E i \in Idx : phys'[f][i] # Unused
    <3>1. m # 0 => parent # <<>>
      BY <1>5, <1>14
    <3>2. m = 0 => c[m] = Root
      BY <1>18 DEF Walk
    <3>3. lvl2[Root] # 1 /\ lvl2[Root] # 2 /\ lvl2[Root] # 3
      BY <1>17 DEF Tree, Nodes
    <3>4. \A f \in Nodes : lvl2[f] \in 1..3 /\ f = c[m] => m # 0
      BY <3>2, <3>3
    <3>5. Len(job'.path) = m /\ job'.path = parent /\ job'.trim
      BY <1>1, <1>5, <1>10, <1>14
    <3> QED
      BY <3>1, <3>4, <3>5 DEF Filled
  <2>2. f # c[k] /\ lvl[f] \in 1..3
    BY <1>16, <2>1 DEF Moved
  <2>3. PICK i \in Idx : phys[f][i] # Unused
    BY <1>7, <2>2
  <2> QED
    BY <1>13, <1>14, <2>1, <2>3 DEF Writes
<1>21. LeavesKept(phys, phys')
  <2>1. Links(phys', phys, c[m], job.path[k], c[k]) /\ phys'[c[m]][job.path[k]] = Unused
    BY <1>2, <1>12, <1>13, <1>14 DEF Writes, Links
  <2>2. lvl[c[m]] <= 2 /\ lvl2[c[m]] <= 2 /\ lvl2[c[k]] = 5
    BY <1>2, <1>14, <1>15, <1>16 DEF Moved
  <2>3. LeavesKept(phys', phys)
    BY <1>2, <1>6, <1>12, <1>14, <1>17, <2>1, <2>2, GraftLeaves
  <2> QED
    BY <2>3 DEF LeavesKept
<1>22. PagesOf(tlb) /\ TablesOf(phys)
  BY <1>1, <1>8, RememberFacts
<1>23. HeapPages' /\ UnmapOk' /\ PagesRight'
  BY <1>8, <1>10, <1>21, <1>22, PagesKept DEF Consistent, HeapOk, TlbOk
<1>24. TablesRight'
  <2>1. \A f \in Nodes, i \in Idx : phys'[f][i].kind = "present" => phys[f][i] = phys'[f][i]
    BY <1>13, EntryFacts DEF Writes
  <2> QED
    BY <1>17, <1>22, <2>1, TablesKept
<1>25. (brk \in HeapStart..HeapEnd)'
  BY <1>8 DEF Consistent, HeapOk
<1> QED
  BY <1>10, <1>11, <1>17, <1>19, <1>20, <1>21, <1>23, <1>24, <1>25, SameLeavesBy
  DEF Sane, Consistent, HeapOk, TlbOk

LEMMA KeepTableKeeps ==
    ASSUME After(Device) = Device, NEW lvl, NEW c, Consistent(lvl, c), KeepTable
    PROVE  Sane'
<1>1. /\ job # NoJob /\ job.op \in {"free", "unmap"} /\ job.trim /\ NextPage
      /\ UNCHANGED <<phys, pool, brk>> /\ tlb' = Remember(job.path)
  BY RunningJob DEF KeepTable, Ops
<1>2. brk \in Int /\ (brk \in HeapStart..HeapEnd)'
  BY <1>1 DEF Consistent, HeapOk
<1>3. /\ JobOk' /\ job'.path = <<>> /\ Len(job'.path) = 0
      /\ job.v \in Nat /\ job.left \in Nat \ {0}
      /\ Ahead' = job.v + 1..job.v + job.left - 1 /\ Ahead' \subseteq Vaddrs
      /\ job'.op = job.op \/ (job'.op = "none" /\ Ahead' = {})
      /\ JobRange'
  BY <1>1, <1>2, NextPageFacts DEF Consistent, HeapOk
<1>4. Ahead' = Ahead
  BY <1>1, <1>3 DEF Ahead
<1>5. PICK c2 : c2 = [j \in 0..4 |-> Root]
  OBVIOUS
<1>6. JobAt(c2)'
  BY <1>3, <1>5, RootWalk DEF JobAt
<1>7. Filled(lvl, c2)'
  <2>1. SUFFICES ASSUME NEW f \in Nodes, lvl[f] \in 1..3
                 PROVE  \E i \in Idx : phys[f][i] # Unused
    BY <1>1 DEF Filled
  <2>2. CASE f = c[Len(job.path)] /\ job.path # <<>>
    <3>1. \A i : ReadEntry(job.path, i) = phys[f][i]
      BY <1>1, <2>2, JobPlace
    <3> QED
      BY <2>2, <3>1 DEF KeepTable, IsEmpty
  <2> QED
    BY <2>1, <2>2 DEF Consistent, Filled
<1>8. LeavesKept(phys, phys')
  BY <1>1 DEF LeavesKept
<1>9. PagesOf(tlb) /\ TablesOf(phys)
  BY <1>1, RememberFacts
<1>10. HeapPages' /\ UnmapOk' /\ PagesRight'
  BY <1>1, <1>3, <1>4, <1>8, <1>9, PagesKept DEF Consistent, HeapOk, TlbOk
<1>11. TablesRight'
  BY <1>1, <1>9 DEF TablesOf, TablesRight
<1>12. Tree(phys, pool, lvl)'
  BY <1>1 DEF Consistent
<1> QED
  BY <1>2, <1>3, <1>6, <1>7, <1>10, <1>11, <1>12 DEF Sane, Consistent, HeapOk, TlbOk

-----------------------------------------------------------------------------
(* The start of a job *)

LEMMA IdleFacts ==
    ASSUME job = NoJob
    PROVE  /\ Ahead = {} /\ job.op = "none" /\ job.path = <<>> /\ Len(job.path) = 0
           /\ ~job.trim
<1>1. Ahead = 0 + 0..0 + 0 - 1
  BY RunningJob DEF Ahead
<1>2. Ahead = {}
  BY <1>1
<1> QED
  BY <1>2, RunningJob

LEMMA BeginFacts ==
    ASSUME NEW lvl, NEW c, Consistent(lvl, c), job = NoJob, NEW op \in Ops,
           NEW v \in Vaddrs, NEW to \in {NoFrame, Device}, op = "map_to" => to = Device,
           NEW n \in 1..MaxPages, Fits(v, n), Begin(op, v, to, n),
           UNCHANGED <<phys, pool, tlb>>
    PROVE  /\ Tree(phys, pool, lvl)' /\ JobOk' /\ JobAt(c)' /\ Filled(lvl, c)' /\ TlbOk'
           /\ job'.op = op /\ job'.v = v /\ job'.left = n /\ Ahead' = v..v + n - 1
           /\ \A w \in Vaddrs : Leaf(w)' = Leaf(w)
           /\ \A w \in HeapStart..HeapEnd - 1 :
                 w \in Vaddrs /\ w \in Nat /\ (Leaf(w) # Unused <=> w < brk)
<1>1. n \in Nat \ {0} /\ v \in Nat
  BY VmmAssumption, PathOfFacts
<1>2. job' = [op |-> op, v |-> v, to |-> to, left |-> n, path |-> <<>>, trim |-> FALSE]
  BY DEF Begin
<1>3. /\ job'.op = op /\ job'.v = v /\ job'.to = to /\ job'.left = n /\ job'.path = <<>>
      /\ job'.trim = FALSE /\ Len(job'.path) = 0
  BY <1>2
<1>4. <<>> \in Seq(Idx)
  OBVIOUS
<1>5. job' \in JobIn
  BY <1>1, <1>2, <1>4 DEF JobIn
<1>6. JobOk'
  BY <1>3, <1>5 DEF JobOk, Fits
<1>7. Ahead' = v..v + n - 1
  <2>1. Ahead' = v + 0..v + n - 1
    BY <1>3 DEF Ahead
  <2> QED
    BY <1>1, <2>1
<1>8. /\ Ahead = {} /\ job.op = "none" /\ job.path = <<>> /\ Len(job.path) = 0
  BY IdleFacts
<1>9. JobAt(c)'
  <2>1. c \in Chains /\ c[0] = Root
    BY DEF Consistent, JobAt, Walk
  <2> QED
    BY <1>3, <2>1 DEF JobAt, Walk
<1>10. Filled(lvl, c)'
  BY <1>8 DEF Consistent, Filled
<1>11. TlbOk'
  BY EntryAtNext DEF Consistent, TlbOk, PagesRight, TablesRight
<1>12. \A w \in Vaddrs : Leaf(w)' = Leaf(w)
  BY EntryAtNext
<1>13. \A w \in HeapStart..HeapEnd - 1 :
          w \in Vaddrs /\ w \in Nat /\ (Leaf(w) # Unused <=> w < brk)
  BY <1>8, VmmAssumption, PathOfFacts DEF Consistent, HeapOk, HeapPages
<1> QED
  BY <1>3, <1>6, <1>7, <1>9, <1>10, <1>11, <1>12, <1>13 DEF Consistent

\* A call for pages outside the heap.
LEMMA CallKeeps ==
    ASSUME NEW lvl, NEW c, Consistent(lvl, c), job = NoJob, NEW op \in Ops,
           NEW v \in Vaddrs, NEW to \in {NoFrame, Device}, op = "map_to" => to = Device,
           NEW n \in 1..MaxPages, Fits(v, n), OutsideHeap(v, n), Begin(op, v, to, n),
           op = "unmap" => \A w \in v..v + n - 1 : Leaf(w) = Present(Device),
           UNCHANGED <<phys, pool, tlb, brk>>
    PROVE  Sane'
<1>1. /\ Tree(phys, pool, lvl)' /\ JobOk' /\ JobAt(c)' /\ Filled(lvl, c)' /\ TlbOk'
      /\ job'.op = op /\ job'.v = v /\ job'.left = n /\ Ahead' = v..v + n - 1
      /\ \A w \in Vaddrs : Leaf(w)' = Leaf(w)
      /\ \A w \in HeapStart..HeapEnd - 1 :
            w \in Vaddrs /\ w \in Nat /\ (Leaf(w) # Unused <=> w < brk)
  BY BeginFacts
<1>2. JobRange'
  BY <1>1 DEF JobRange, OutsideHeap
<1>3. UnmapOk'
  BY <1>1 DEF UnmapOk, Fits
<1>4. HeapPages'
  <2>1. \A w \in HeapStart..HeapEnd - 1 : w \notin Ahead'
    BY <1>1 DEF OutsideHeap
  <2> QED
    BY <1>1, <2>1 DEF HeapPages
<1>5. (brk \in HeapStart..HeapEnd)'
  BY DEF Consistent, HeapOk
<1> QED
  BY <1>1, <1>2, <1>3, <1>4, <1>5 DEF Sane, Consistent, HeapOk

LEMMA SbrkUpKeeps ==
    ASSUME NEW lvl, NEW c, Consistent(lvl, c), NEW n \in 1..MaxPages, SbrkUp(n)
    PROVE  Sane'
<1>1. job = NoJob
  BY DEF SbrkUp, Idle
<1>2. CASE UNCHANGED <<phys, pool, tlb, brk, job>>
  <2>1. Consistent(lvl, c)'
    BY <1>2, Halted
  <2> QED
    BY <2>1 DEF Sane
<1>3. CASE ~UNCHANGED <<phys, pool, tlb, brk, job>>
  <2>1. PICK v : v = brk
    OBVIOUS
  <2>2. /\ v + n <= HeapEnd \/ ~(v + n > HeapEnd)
        /\ Begin("map", v, NoFrame, n) /\ brk' = v + n /\ UNCHANGED <<phys, pool, tlb>>
    BY <1>3, <2>1 DEF SbrkUp, Stop
  <2>3. /\ v \in HeapStart..HeapEnd /\ HeapStart \in Nat /\ HeapEnd \in Nat
        /\ n \in Nat \ {0}
    BY <2>1, VmmAssumption, PathOfFacts DEF Consistent, HeapOk
  <2>4. v \in Vaddrs /\ Fits(v, n)
    <3>1. v..v + n - 1 \subseteq HeapStart..HeapEnd - 1 /\ v \in HeapStart..HeapEnd - 1
      BY <2>2, <2>3
    <3> QED
      BY <3>1, VmmAssumption DEF Fits
  <2>5. /\ Tree(phys, pool, lvl)' /\ JobOk' /\ JobAt(c)' /\ Filled(lvl, c)' /\ TlbOk'
        /\ job'.op = "map" /\ job'.v = v /\ job'.left = n /\ Ahead' = v..v + n - 1
        /\ \A w \in Vaddrs : Leaf(w)' = Leaf(w)
        /\ \A w \in HeapStart..HeapEnd - 1 :
              w \in Vaddrs /\ w \in Nat /\ (Leaf(w) # Unused <=> w < brk)
    BY <1>1, <2>2, <2>4, BeginFacts DEF Ops
  <2>6. JobRange'
    BY <2>2, <2>3, <2>5 DEF JobRange
  <2>7. UnmapOk'
    BY <2>5 DEF UnmapOk
  <2>8. HeapPages'
    <3>1. \A w \in HeapStart..HeapEnd - 1 :
              w < brk <=> w < v + n /\ w \notin v..v + n - 1
      BY <2>1, <2>3, <2>5
    <3> QED
      BY <2>2, <2>5, <3>1 DEF HeapPages
  <2>9. (brk \in HeapStart..HeapEnd)'
    BY <2>2, <2>3
  <2> QED
    BY <2>5, <2>6, <2>7, <2>8, <2>9 DEF Sane, Consistent, HeapOk
<1> QED
  BY <1>2, <1>3

LEMMA SbrkDownKeeps ==
    ASSUME NEW lvl, NEW c, Consistent(lvl, c), NEW n \in 1..MaxPages, SbrkDown(n)
    PROVE  Sane'
<1>1. job = NoJob
  BY DEF SbrkDown, Idle
<1>2. PICK v : v = brk - n
  OBVIOUS
<1>3. /\ v >= HeapStart /\ Begin("free", v, NoFrame, n) /\ brk' = v
      /\ UNCHANGED <<phys, pool, tlb>>
  BY <1>2 DEF SbrkDown
<1>4. /\ brk \in HeapStart..HeapEnd /\ HeapStart \in Nat /\ HeapEnd \in Nat
      /\ n \in Nat \ {0} /\ brk = v + n /\ v \in Int
  BY <1>2, VmmAssumption, PathOfFacts DEF Consistent, HeapOk
<1>5. v \in Vaddrs /\ Fits(v, n)
  <2>1. v..v + n - 1 \subseteq HeapStart..HeapEnd - 1 /\ v \in HeapStart..HeapEnd - 1
    BY <1>3, <1>4
  <2> QED
    BY <2>1, VmmAssumption DEF Fits
<1>6. /\ Tree(phys, pool, lvl)' /\ JobOk' /\ JobAt(c)' /\ Filled(lvl, c)' /\ TlbOk'
      /\ job'.op = "free" /\ job'.v = v /\ job'.left = n /\ Ahead' = v..v + n - 1
      /\ \A w \in Vaddrs : Leaf(w)' = Leaf(w)
      /\ \A w \in HeapStart..HeapEnd - 1 :
            w \in Vaddrs /\ w \in Nat /\ (Leaf(w) # Unused <=> w < brk)
  BY <1>1, <1>3, <1>5, BeginFacts DEF Ops
<1>7. JobRange'
  BY <1>3, <1>4, <1>6 DEF JobRange
<1>8. UnmapOk'
  BY <1>6 DEF UnmapOk
<1>9. HeapPages'
  <2>1. \A w \in HeapStart..HeapEnd - 1 :
            w < brk <=> (w < v /\ w \notin v..v + n - 1) \/ w \in v..v + n - 1
    BY <1>4, <1>6
  <2> QED
    BY <1>3, <1>6, <2>1 DEF HeapPages
<1>10. (brk \in HeapStart..HeapEnd)'
  BY <1>3, <1>4
<1> QED
  BY <1>6, <1>7, <1>8, <1>9, <1>10 DEF Sane, Consistent, HeapOk

-----------------------------------------------------------------------------
(* Accesses *)

\* A page is not mapped, or its entry is of the lowest table.
LEMMA LeafCases ==
    ASSUME NEW lvl, Tree(phys, pool, lvl), NEW v \in Vaddrs
    PROVE  \/ Leaf(v) = Unused
           \/ \E d : /\ Walk(phys, PathOf(v), 3, d) /\ d[3] \in Nodes /\ lvl[d[3]] = 3
                     /\ Leaf(v) = phys[d[3]][PathOf(v)[4]]
                     /\ \/ Leaf(v) \in {ToAlloc, Present(Device)}
                        \/ \E g \in Frames : Leaf(v) = Present(g) /\ lvl[g] = 4
<1> SUFFICES ASSUME Leaf(v) # Unused
             PROVE  \E d : /\ Walk(phys, PathOf(v), 3, d) /\ d[3] \in Nodes /\ lvl[d[3]] = 3
                           /\ Leaf(v) = phys[d[3]][PathOf(v)[4]]
                           /\ \/ Leaf(v) \in {ToAlloc, Present(Device)}
                              \/ \E g \in Frames : Leaf(v) = Present(g) /\ lvl[g] = 4
  OBVIOUS
<1>1. Path(PathOf(v), 4) /\ \A j \in 1..4 : PathOf(v)[j] \in Idx
  BY PathOfFacts DEF Path
<1>2. PICK d : Walk(phys, PathOf(v), 3, d)
  BY <1>1, EntryWalk, EntryAtNext
<1>3. d[3] \in Nodes /\ lvl[d[3]] = 3
  BY <1>1, <1>2, WalkLevel
<1>4. Leaf(v) = phys[d[3]][PathOf(v)[4]]
  BY <1>1, <1>2, WalkEntry, EntryAtNext
<1>5. EntryOk(lvl, 3, Leaf(v))
  BY <1>1, <1>3, <1>4, TreeEntry
<1>6. \/ Leaf(v) \in {ToAlloc, Present(Device)}
      \/ \E g \in Frames : Leaf(v) = Present(g) /\ lvl[g] = 4
  BY <1>5 DEF EntryOk
<1> QED
  BY <1>2, <1>3, <1>4, <1>6

\* What an access reaches.
LEMMA ReachedPage ==
    ASSUME TlbOk, NEW lvl, Tree(phys, pool, lvl), NEW v \in Vaddrs
    PROVE  /\ Reached(PathOf(v)) = Leaf(v).frame
           /\ Reached(PathOf(v)) # NoFrame => Leaf(v) = Present(Reached(PathOf(v)))
<1>1. PathOf(v) # <<>>
  <2>1. Len(PathOf(v)) = 4
    BY PathOfFacts DEF Path
  <2> QED
    BY <2>1
<1>2. Reached(PathOf(v)) = Leaf(v).frame
  <2>1. CASE PathOf(v) \in DOMAIN tlb
    BY <1>1, <2>1, EntryFacts DEF TlbOk, PagesRight, Reached
  <2>2. CASE PathOf(v) \notin DOMAIN tlb
    BY <1>1, <2>2 DEF Leaf, Reached
  <2> QED
    BY <2>1, <2>2
<1>3. Leaf(v) \in {Unused, ToAlloc, Present(Device)} \/ \E g \in Frames : Leaf(v) = Present(g)
  BY LeafCases
<1> QED
  BY <1>2, <1>3, EntryFacts

LEMMA AccessKeeps ==
    ASSUME NEW lvl, NEW c, Consistent(lvl, c), NEW v \in Vaddrs, Access(v)
    PROVE  Sane' /\ SameLeaves
<1>1. /\ job = NoJob /\ UNCHANGED <<pool, brk, job>>
  BY DEF Access, Idle
<1>2. PICK f : f = Reached(PathOf(v))
  OBVIOUS
<1>3. /\ f # NoFrame
      /\ phys' = IF f \in Frames THEN [phys EXCEPT ![f] = Stored] ELSE phys
      /\ tlb' = tlb \/ tlb' = With(tlb, PathOf(v), f)
  BY <1>2 DEF Access
<1>4. Tree(phys, pool, lvl) /\ TlbOk
  BY DEF Consistent
<1>5. Leaf(v) = Present(f)
  BY <1>2, <1>3, <1>4, ReachedPage
<1>6. f \in Frames => lvl[f] = 4
  <2>1. \/ Leaf(v) \in {Unused, ToAlloc, Present(Device)}
        \/ \E g \in Frames : Leaf(v) = Present(g) /\ lvl[g] = 4
    BY <1>4, LeafCases
  <2> QED
    BY <1>5, <2>1, EntryFacts, VmmAssumption
<1>7. Tree(phys', pool', lvl)
  BY <1>1, <1>3, <1>4, <1>6, TreeStore
<1>8. \A g \in Nodes : lvl[g] <= 3 => phys'[g] = phys[g]
  <2>1. phys \in [Nodes -> [Idx -> Entries]]
    BY <1>4 DEF Tree
  <2>2. \A g \in Nodes : lvl[g] <= 3 => ~(f \in Frames /\ g = f)
    BY <1>6
  <2> QED
    BY <1>3, <2>1, <2>2
<1>9. LeavesKept(phys, phys')
  BY <1>4, <1>7, <1>8, StoreLeaves
<1>10. \A w \in Vaddrs : Leaf(w)' = Leaf(w)
  BY <1>9, EntryAtNext, PathOfFacts DEF LeavesKept
<1>11. TlbOk'
  <2>1. /\ \A p \in DOMAIN tlb' : p \in DOMAIN tlb \/ p = PathOf(v)
        /\ \A p \in DOMAIN tlb' : p # PathOf(v) => tlb'[p] = tlb[p]
        /\ PathOf(v) \in DOMAIN tlb' => tlb'[PathOf(v)] = f
    <3>1. PathOf(v) \in DOMAIN tlb => tlb[PathOf(v)] = f
      BY <1>4, <1>5, EntryFacts DEF TlbOk, PagesRight
    <3>2. tlb' = tlb \/ tlb' = With(tlb, PathOf(v), f)
      BY <1>3
    <3> QED
      BY <3>1, <3>2 DEF With
  <2>2. PagesRight'
    <3>1. SUFFICES ASSUME NEW w \in Vaddrs, PathOf(w) \in DOMAIN tlb'
                   PROVE  Leaf(w)' = Present(tlb'[PathOf(w)])
      BY DEF PagesRight
    <3>2. CASE PathOf(w) = PathOf(v)
      BY <1>5, <1>10, <2>1, <3>1, <3>2, PathOfFacts
    <3>3. CASE PathOf(w) # PathOf(v)
      BY <1>4, <1>10, <2>1, <3>1, <3>3 DEF TlbOk, PagesRight
    <3> QED
      BY <3>2, <3>3
  <2>3. TablesOf(phys)
    <3>1. \A k \in 1..3 : \A p \in Routes(k) : p # PathOf(v)
      BY LongPath
    <3> QED
      BY <1>4, <2>1, <3>1 DEF TablesOf, TlbOk, TablesRight
  <2>4. \A g \in Nodes : lvl[g] <= 2 => lvl[g] <= 3
    BY <1>4 DEF Tree
  <2>5. TablesRight'
    BY <1>7, <1>8, <2>3, <2>4, TablesKept
  <2> QED
    BY <2>2, <2>5 DEF TlbOk
<1>12. /\ Ahead = {} /\ job.op = "none" /\ job.path = <<>> /\ Len(job.path) = 0
  BY <1>1, IdleFacts
<1>13. JobAt(c)'
  <2>1. c \in Chains /\ c[0] = Root
    BY DEF Consistent, JobAt, Walk
  <2> QED
    BY <1>1, <1>12, <2>1 DEF JobAt, Walk
<1>14. Filled(lvl, c)'
  <2>1. \A g \in Nodes : lvl[g] \in 1..3 => \E i \in Idx : phys[g][i] # Unused
    BY <1>12 DEF Consistent, Filled
  <2>2. \A g \in Nodes : lvl[g] \in 1..3 => phys'[g] = phys[g]
    BY <1>8
  <2> QED
    BY <2>1, <2>2 DEF Filled
<1>15. Ahead' = Ahead
  BY <1>1 DEF Ahead
<1>16. HeapPages' /\ UnmapOk'
  BY <1>1, <1>10, <1>12, <1>15, VmmAssumption DEF HeapPages, UnmapOk, Consistent, HeapOk
<1>17. JobOk' /\ JobRange' /\ (brk \in HeapStart..HeapEnd)'
  BY <1>1 DEF JobOk, JobRange, Consistent, HeapOk
<1> QED
  BY <1>7, <1>10, <1>11, <1>13, <1>14, <1>16, <1>17 DEF SameLeaves, Sane, Consistent, HeapOk

\* What a page fault that backs a page does.
LEMMA FaultEffect ==
    ASSUME NEW lvl, NEW c, Consistent(lvl, c), NEW v \in Vaddrs, PageFault(v),
           ~UNCHANGED <<phys, pool, tlb, brk, job>>
    PROVE  \E f, lvl2, d :
               /\ f \in pool
               /\ UNCHANGED <<tlb, brk, job, stopped>>
               /\ Tree(phys', pool', lvl2)
               /\ Moved(lvl, lvl2, f, 4) /\ f \in Frames
               /\ Writes(phys, phys', d[3], PathOf(v)[4], Present(f))
               /\ d[3] \in Nodes /\ lvl[d[3]] = 3
               /\ Leaf(v) = ToAlloc /\ Leaf(v)' = Present(f)
               /\ \A w \in Vaddrs : w # v => Leaf(w)' = Leaf(w)
<1> DEFINE table == Prefix(PathOf(v), 3)
           i == PathOf(v)[4]
<1>1. /\ HasTables(v) /\ ReadEntry(table, i).kind = "to_alloc"
      /\ UNCHANGED <<tlb, brk, job, stopped>>
      /\ \E f \in pool : /\ pool' = pool \ {f}
                         /\ phys' = [phys EXCEPT ![Reached(table)][i] = Present(f)]
  BY DEF PageFault, Stop
<1>2. PICK f \in pool : /\ pool' = pool \ {f}
                        /\ phys' = [phys EXCEPT ![Reached(table)][i] = Present(f)]
  BY <1>1
<1>3. Tree(phys, pool, lvl) /\ TlbOk
  BY DEF Consistent
<1>4. PICK d : Walk(phys, PathOf(v), 3, d)
  BY <1>1, <1>3, TablesWalk
<1>5. Reached(table) = d[3] /\ ReadEntry(table, i) = phys[d[3]][i]
  BY <1>3, <1>4, TablesWalk
<1>6. Path(PathOf(v), 4) /\ i \in Idx /\ \A j \in 1..4 : PathOf(v)[j] \in Idx
  BY PathOfFacts DEF Path
<1>7. d[3] \in Nodes /\ lvl[d[3]] = 3
  BY <1>3, <1>4, <1>6, WalkLevel
<1>8. phys[d[3]][i] = ToAlloc
  <2>1. EntryOk(lvl, 3, phys[d[3]][i])
    BY <1>3, <1>6, <1>7, TreeEntry
  <2> QED
    BY <1>1, <1>5, <2>1, EntryFacts DEF EntryOk
<1>9. /\ phys \in [Nodes -> [Idx -> Entries]] /\ lvl \in [Nodes -> 0..5]
      /\ f \in Frames /\ f \in Nodes /\ lvl[f] = 5
  BY <1>3 DEF Tree, Nodes
<1>10. Writes(phys, phys', d[3], i, Present(f))
  <2>1. Present(f) \in Entries
    BY <1>9, EntryFacts
  <2>2. phys' = [phys EXCEPT ![d[3]][i] = Present(f)]
    BY <1>2, <1>5
  <2> HIDE DEF i
  <2> QED
    BY <1>6, <1>7, <1>9, <2>1, <2>2, WritesEntry
<1> HIDE DEF i, table
<1>11. PICK lvl2 : Moved(lvl, lvl2, f, 4)
  BY <1>9, MovedTo
<1>12. Tree(phys', pool', lvl2)
  <2>1. Links(phys, phys', d[3], i, f)
    BY <1>10 DEF Writes, Links
  <2>2. PICK m \in 0..3 : m = 3
    OBVIOUS
  <2>3. lvl[d[3]] = m /\ (m <= 2 => Empty(phys', f)) /\ Moved(lvl, lvl2, f, m + 1)
    BY <1>7, <1>11, <2>2
  <2>4. phys[d[3]][i] = Unused \/ phys[d[3]][i] = ToAlloc
    BY <1>8
  <2> HIDE <2>2
  <2>5. Tree(phys', pool \ {f}, lvl2)
    BY <1>3, <1>6, <1>7, <2>1, <2>3, <2>4, TreeLink
  <2> QED
    BY <1>2, <2>5
<1>13. /\ Leaf(v) = phys[d[3]][i] /\ Leaf(v)' = Present(f)
       /\ \A w \in Vaddrs : w # v => Leaf(w)' = Leaf(w)
  <2>1. \A g \in Nodes : lvl2[g] <= 3 => lvl[g] <= 3
    BY <1>11 DEF Moved
  <2>2. Writes(phys, phys', d[3], PathOf(v)[4], Present(f))
    BY <1>10 DEF i
  <2> QED
    BY <1>3, <1>4, <1>12, <2>1, <2>2, PageWritten DEF i
<1>14. Writes(phys, phys', d[3], PathOf(v)[4], Present(f))
  BY <1>10 DEF i
<1> QED
  BY <1>1, <1>7, <1>8, <1>9, <1>11, <1>12, <1>13, <1>14

LEMMA PageFaultKeeps ==
    ASSUME NEW lvl, NEW c, Consistent(lvl, c), NEW v \in Vaddrs, PageFault(v)
    PROVE  Sane'
<1>1. job = NoJob
  BY DEF PageFault, Idle
<1>2. CASE UNCHANGED <<phys, pool, tlb, brk, job>>
  <2>1. Consistent(lvl, c)'
    BY <1>2, Halted
  <2> QED
    BY <2>1 DEF Sane
<1>3. CASE ~UNCHANGED <<phys, pool, tlb, brk, job>>
  <2>1. PICK f, lvl2, d :
            /\ f \in pool
            /\ UNCHANGED <<tlb, brk, job, stopped>>
            /\ Tree(phys', pool', lvl2)
            /\ Moved(lvl, lvl2, f, 4) /\ f \in Frames
            /\ Writes(phys, phys', d[3], PathOf(v)[4], Present(f))
            /\ d[3] \in Nodes /\ lvl[d[3]] = 3
            /\ Leaf(v) = ToAlloc /\ Leaf(v)' = Present(f)
            /\ \A w \in Vaddrs : w # v => Leaf(w)' = Leaf(w)
    BY <1>3, FaultEffect
  <2>2. /\ Ahead = {} /\ job.op = "none" /\ job.path = <<>> /\ Len(job.path) = 0
    BY <1>1, IdleFacts
  <2>3. JobAt(c)'
    <3>1. c \in Chains /\ c[0] = Root
      BY DEF Consistent, JobAt, Walk
    <3> QED
      BY <2>1, <2>2, <3>1 DEF JobAt, Walk
  <2>4. Filled(lvl2, c)'
    <3>1. SUFFICES ASSUME NEW g \in Nodes, lvl2[g] \in 1..3
                   PROVE  \E i \in Idx : phys'[g][i] # Unused
      BY DEF Filled
    <3>2. g # f /\ lvl[g] \in 1..3
      BY <2>1, <3>1 DEF Moved
    <3>3. PICK i \in Idx : phys[g][i] # Unused
      BY <2>2, <3>2 DEF Consistent, Filled
    <3>4. CASE g = d[3] /\ i = PathOf(v)[4]
      BY <2>1, <3>4, EntryFacts DEF Writes
    <3>5. CASE ~(g = d[3] /\ i = PathOf(v)[4])
      BY <2>1, <3>3, <3>5 DEF Writes
    <3> QED
      BY <3>4, <3>5
  <2>5. TlbOk'
    <3>1. PagesRight'
      BY <2>1, EntryFacts DEF PagesRight, Consistent, TlbOk
    <3>2. TablesOf(phys)
      BY <2>1 DEF TablesOf, Consistent, TlbOk, TablesRight
    <3>3. \A g \in Nodes : lvl2[g] <= 2 => g # d[3]
      <4>1. d[3] # f
        BY <2>1 DEF Consistent, Tree
      <4>2. lvl2[d[3]] = 3
        BY <2>1, <4>1 DEF Moved
      <4> QED
        BY <4>2
    <3>4. TablesRight'
      BY <2>1, <3>2, <3>3, TablesKept DEF Writes
    <3> QED
      BY <3>1, <3>4 DEF TlbOk
  <2>6. Ahead' = Ahead
    BY <2>1 DEF Ahead
  <2>7. UnmapOk'
    BY <2>1, <2>2 DEF UnmapOk
  <2>8. HeapPages'
    <3>1. \A w \in Vaddrs : Leaf(w)' # Unused <=> Leaf(w) # Unused
      BY <2>1, EntryFacts
    <3> QED
      BY <2>1, <2>2, <2>6, <3>1, VmmAssumption DEF HeapPages, Consistent, HeapOk
  <2>9. JobOk' /\ JobRange' /\ (brk \in HeapStart..HeapEnd)'
    BY <2>1 DEF JobOk, JobRange, Consistent, HeapOk
  <2> QED
    BY <2>1, <2>3, <2>4, <2>5, <2>7, <2>8, <2>9 DEF Sane, Consistent, HeapOk
<1> QED
  BY <1>2, <1>3

\* The processor forgets.
LEMMA EvictKeeps ==
    ASSUME NEW lvl, NEW c, Consistent(lvl, c), Evict
    PROVE  Sane'
<1>1. UNCHANGED <<phys, pool, brk, job>>
  BY DEF Evict
<1>2. \A p \in DOMAIN tlb' : p \in DOMAIN tlb /\ tlb'[p] = tlb[p]
  BY DEF Evict, Without
<1>3. TlbOk'
  BY <1>1, <1>2, EntryAtNext DEF Consistent, TlbOk, PagesRight, TablesRight
<1>4. HeapPages' <=> HeapPages
  BY <1>1 DEF HeapPages, Ahead, Leaf, EntryAt, Below
<1>5. UnmapOk' <=> UnmapOk
  BY <1>1 DEF UnmapOk, Ahead, Leaf, EntryAt, Below
<1>6. JobOk' /\ JobAt(c)' /\ Filled(lvl, c)' /\ JobRange' /\ (brk \in HeapStart..HeapEnd)'
  BY <1>1 DEF JobOk, JobAt, Filled, JobRange, Consistent, HeapOk
<1>7. Tree(phys, pool, lvl)'
  BY <1>1 DEF Consistent
<1> QED
  BY <1>3, <1>4, <1>5, <1>6, <1>7 DEF Sane, Consistent, HeapOk

-----------------------------------------------------------------------------
(* The invariant *)

LEMMA InitInvariant == Init => IInv
<1> SUFFICES ASSUME Init PROVE Sane
  BY DEF IInv
<1>1. PICK lvl : lvl = [f \in Nodes |-> IF f = Root THEN 0 ELSE 5]
  OBVIOUS
<1>2. PICK c : c = [j \in 0..4 |-> Root]
  OBVIOUS
<1>3. /\ phys = [f \in Nodes |-> Zeroed] /\ pool = Frames /\ tlb = <<>> /\ brk = HeapStart
      /\ job = NoJob
  BY DEF Init, Nodes
<1>4. \A f \in Nodes, i \in Idx : phys[f][i] = Unused
  BY <1>3 DEF Zeroed
<1>5. Tree(phys, pool, lvl)
  <2>1. phys \in [Nodes -> [Idx -> Entries]]
    BY <1>3, EntryFacts DEF Zeroed
  <2>2. lvl \in [Nodes -> 0..5] /\ \A f \in Nodes : lvl[f] = IF f = Root THEN 0 ELSE 5
    BY <1>1
  <2>3. \A f \in Frames : f \in Nodes /\ f # Root
    BY VmmAssumption DEF Nodes
  <2>4. \A f \in Nodes, i \in Idx : EntryOk(lvl, lvl[f], phys[f][i])
    BY <1>4 DEF EntryOk
  <2>5. \A f \in Nodes, i \in Idx, g \in Frames : phys[f][i] # Present(g)
    BY <1>4, EntryFacts
  <2>6. \A g \in Frames : lvl[g] = 5
    BY <2>2, <2>3
  <2> QED
    BY <1>3, <2>1, <2>2, <2>4, <2>5, <2>6 DEF Tree
<1>6. /\ Ahead = {} /\ job.op = "none" /\ job.path = <<>> /\ Len(job.path) = 0
  BY <1>3, IdleFacts
<1>7. JobOk /\ JobAt(c) /\ TlbOk /\ Filled(lvl, c) /\ UnmapOk
  <2>1. JobAt(c)
    BY <1>2, <1>6, RootWalk DEF JobAt
  <2>2. Filled(lvl, c)
    BY <1>1 DEF Filled
  <2>3. DOMAIN tlb = {}
    BY <1>3
  <2> QED
    BY <1>3, <1>6, <2>1, <2>2, <2>3 DEF JobOk, TlbOk, PagesRight, TablesRight, UnmapOk
<1>8. JobRange
  <2>1. 0..0 + 0 - 1 = {}
    OBVIOUS
  <2> QED
    BY <1>3, <2>1, RunningJob DEF JobRange, OutsideHeap
<1>9. \A v \in Vaddrs : Leaf(v) = Unused
  <2>1. SUFFICES ASSUME NEW v \in Vaddrs, Leaf(v) # Unused PROVE FALSE
    OBVIOUS
  <2>2. PICK d : Leaf(v) = phys[d[3]][PathOf(v)[4]] /\ d[3] \in Nodes
    BY <1>5, <2>1, LeafCases
  <2>3. PathOf(v)[4] \in Idx
    BY PathOfFacts DEF Path
  <2> QED
    BY <1>4, <2>1, <2>2, <2>3
<1>10. HeapPages
  <2>1. \A w \in HeapStart..HeapEnd - 1 : ~(w < HeapStart)
    BY VmmAssumption, PathOfFacts
  <2> QED
    BY <1>3, <1>6, <1>9, <2>1, VmmAssumption DEF HeapPages
<1>11. brk \in HeapStart..HeapEnd
  BY <1>3, VmmAssumption, PathOfFacts
<1> QED
  BY <1>5, <1>7, <1>8, <1>10, <1>11 DEF Sane, Consistent, HeapOk

\* A kernel that is astray takes no step.
LEMMA AstrayStays == [Next]_vmmVars /\ ~OnCourse => UNCHANGED <<phys, stopped>>
<1> SUFFICES ASSUME [Next]_vmmVars, ~OnCourse PROVE UNCHANGED <<phys, stopped>>
  OBVIOUS
<1>1. ~Idle /\ \A ops : ~Running(ops)
  BY DEF OnCourse, Idle, Running
<1>2. ~JobStep
  BY <1>1 DEF JobStep, PtExists, PtCreate, SetLeaf, PtChild, ClearLeaf, FreeTable, KeepTable
<1>3. \A v \in Vaddrs, n \in 1..MaxPages :
          ~(vmm_map(v, n) \/ vmm_map_to(v, Device, n) \/ vmm_free(v, n) \/ vmm_unmap(v, n))
  BY <1>1 DEF vmm_map, vmm_map_to, vmm_free, vmm_unmap
<1>4. \A n \in 1..MaxPages : ~(SbrkUp(n) \/ SbrkDown(n))
  BY <1>1 DEF SbrkUp, SbrkDown
<1>5. \A v \in Vaddrs : ~(Access(v) \/ PageFault(v))
  BY <1>1 DEF Access, PageFault
<1>6. Evict \/ UNCHANGED vmmVars
  BY <1>2, <1>3, <1>4, <1>5 DEF Next
<1> QED
  BY <1>6 DEF Evict, vmmVars

LEMMA NextInvariant ==
    ASSUME After(Device) = Device
    PROVE  IInv /\ [Next]_vmmVars => IInv'
<1> SUFFICES ASSUME IInv, [Next]_vmmVars, OnCourse' PROVE Sane'
  BY DEF IInv
<1>0. OnCourse
  BY AstrayStays DEF OnCourse
<1>1. PICK lvl, c : Consistent(lvl, c)
  BY <1>0 DEF IInv, Sane
<1>2. CASE PtExists
  <2>1. /\ job # NoJob /\ job.op \in {"map", "map_to"} /\ Len(job.path) < 3
        /\ ReadEntry(job.path, NextIdx).kind = "present" /\ Descend(NextIdx)
        /\ UNCHANGED <<phys, pool, brk>> /\ tlb' = Remember(job.path)
    BY <1>2, RunningJob DEF PtExists, Ops
  <2> QED
    BY <1>1, <2>1, DownKeeps
<1>3. CASE PtCreate
  BY <1>1, <1>3, PtCreateKeeps
<1>4. CASE SetLeaf
  BY <1>1, <1>4, SetLeafKeeps
<1>5. CASE PtChild
  <2>1. job # NoJob /\ Len(job.path) < 3 /\ ~job.trim
    BY <1>5, RunningJob DEF PtChild, Ops
  <2>2. CASE ReadEntry(job.path, NextIdx).kind = "present"
    <3>1. /\ Descend(NextIdx) /\ UNCHANGED <<phys, pool, brk>>
          /\ tlb' = Remember(job.path)
      BY <1>5, <2>2 DEF PtChild
    <3> QED
      BY <1>1, <2>1, <2>2, <3>1, DownKeeps
  <2>3. CASE ReadEntry(job.path, NextIdx).kind # "present"
    <3>1. Consistent(lvl, c)'
      BY <1>1, <1>5, <2>3, Halted DEF PtChild, Stop
    <3> QED
      BY <3>1 DEF Sane
  <2> QED
    BY <2>2, <2>3
<1>6. CASE ClearLeaf
  BY <1>1, <1>6, ClearLeafKeeps
<1>7. CASE FreeTable
  BY <1>1, <1>7, FreeTableKeeps
<1>8. CASE KeepTable
  BY <1>1, <1>8, KeepTableKeeps
<1>9. ASSUME NEW v \in Vaddrs, NEW n \in 1..MaxPages, vmm_map(v, n)
       PROVE  Sane'
  <2>1. /\ job = NoJob /\ Fits(v, n) /\ OutsideHeap(v, n) /\ Begin("map", v, NoFrame, n)
        /\ UNCHANGED <<phys, pool, tlb, brk>>
    BY <1>9 DEF vmm_map, Idle
  <2> QED
    BY <1>1, <2>1, CallKeeps DEF Ops
<1>10. ASSUME NEW v \in Vaddrs, NEW n \in 1..MaxPages, vmm_map_to(v, Device, n)
       PROVE  Sane'
  <2>1. /\ job = NoJob /\ Fits(v, n) /\ OutsideHeap(v, n) /\ Begin("map_to", v, Device, n)
        /\ UNCHANGED <<phys, pool, tlb, brk>>
    BY <1>10 DEF vmm_map_to, Idle
  <2> QED
    BY <1>1, <2>1, CallKeeps DEF Ops
<1>11. ASSUME NEW v \in Vaddrs, NEW n \in 1..MaxPages, vmm_free(v, n)
       PROVE  Sane'
  <2>1. /\ job = NoJob /\ Fits(v, n) /\ OutsideHeap(v, n) /\ Begin("free", v, NoFrame, n)
        /\ UNCHANGED <<phys, pool, tlb, brk>>
    BY <1>11 DEF vmm_free, Idle
  <2> QED
    BY <1>1, <2>1, CallKeeps DEF Ops
<1>12. ASSUME NEW v \in Vaddrs, NEW n \in 1..MaxPages, vmm_unmap(v, n)
       PROVE  Sane'
  <2>1. /\ job = NoJob /\ Fits(v, n) /\ OutsideHeap(v, n) /\ Begin("unmap", v, NoFrame, n)
        /\ UNCHANGED <<phys, pool, tlb, brk>>
        /\ \A w \in v..v + n - 1 : Leaf(w) = Present(Device)
    BY <1>12 DEF vmm_unmap, Idle
  <2> QED
    BY <1>1, <2>1, CallKeeps DEF Ops
<1>13. CASE \E n \in 1..MaxPages : SbrkUp(n) \/ SbrkDown(n)
  BY <1>1, <1>13, SbrkUpKeeps, SbrkDownKeeps
<1>14. CASE \E v \in Vaddrs : Access(v) \/ PageFault(v)
  BY <1>1, <1>14, AccessKeeps, PageFaultKeeps
<1>15. CASE UNCHANGED vmmVars
  <2>1. Consistent(lvl, c)'
    BY <1>1, <1>15, Halted DEF vmmVars
  <2> QED
    BY <2>1 DEF Sane
<1>16. CASE Evict
  BY <1>1, <1>16, EvictKeeps
<1> QED
  BY <1>2, <1>3, <1>4, <1>5, <1>6, <1>7, <1>8, <1>9, <1>10, <1>11, <1>12, <1>13, <1>14,
     <1>15, <1>16 DEF Next, JobStep

\* Until the kernel goes astray, the tables are a tree, the job is at a table of it on the way
\* to its page, and the TLB and the break agree with it: of a table in use the processor
\* remembers the right frame or none, whatever it remembers of those that were freed
\* (vmm.c:83-178, 299-404, 482-498).
THEOREM VmmInvariance ==
    ASSUME After(Device) = Device
    PROVE  Spec => []IInv
<1>1. Init => IInv
  BY InitInvariant
<1>2. IInv /\ [Next]_vmmVars => IInv'
  BY NextInvariant
<1> QED
  BY <1>1, <1>2, PTL DEF Spec

-----------------------------------------------------------------------------
(* Tables, the TLB and the heap *)

\* A table in use is a frame at the level of its path.
LEMMA TablePlace ==
    ASSUME NEW lvl, Tree(phys, pool, lvl), NEW k \in 1..3, NEW p \in [1..k -> Idx],
           EntryAt(p).kind = "present"
    PROVE  \E d : /\ Walk(phys, p, k, d) /\ d[k] \in Frames /\ lvl[d[k]] = k
                  /\ EntryAt(p) = Present(d[k])
<1>1. p \in Seq(Idx) /\ Path(p, k) /\ \A j \in 1..k : p[j] \in Idx
  BY SeqFun DEF Path
<1>2. EntryAt(p) = EntryIn(phys, p) /\ EntryAt(p) # Unused
  BY EntryAtIn, EntryFacts
<1>3. PICK m \in 0..2 : k = m + 1
  OBVIOUS
<1>4. PICK c : Walk(phys, p, m, c)
  <2>1. k \in 1..4 /\ k - 1 = m
    BY <1>3
  <2> QED
    BY <1>1, <1>2, <2>1, EntryWalk
<1>5. EntryAt(p) = phys[c[m]][p[m + 1]]
  <2>1. m \in 0..3 /\ Path(p, m + 1)
    BY <1>1, <1>3
  <2> QED
    BY <1>2, <1>4, <2>1, WalkEntry
<1>6. c[m] \in Nodes /\ lvl[c[m]] = m
  <2>1. \A j \in 1..m : p[j] \in Idx
    BY <1>1, <1>3
  <2> QED
    BY <1>4, <2>1, WalkLevel
<1>7. PICK g \in Frames : phys[c[m]][p[m + 1]] = Present(g) /\ lvl[g] = m + 1
  <2>1. p[m + 1] \in Idx
    BY <1>1, <1>3
  <2> QED
    BY <1>2, <1>5, <1>6, <2>1, TableEntry
<1>8. PICK d : d = [c EXCEPT ![m + 1] = g]
  OBVIOUS
<1>9. Walk(phys, p, m + 1, d)
  <2>1. m \in 0..3 /\ g \in Nodes \cup {Device}
    BY DEF Nodes
  <2> QED
    BY <1>4, <1>6, <1>7, <1>8, <2>1, WalkOn
<1>10. d[m + 1] = g
  BY <1>4, <1>8 DEF Walk, Chains
<1> QED
  BY <1>3, <1>5, <1>7, <1>9, <1>10

LEMMA MappedHeap == IInv => HeapMapped
<1> SUFFICES ASSUME NEW lvl, NEW c, Consistent(lvl, c), Idle,
                    NEW v \in HeapStart..HeapEnd - 1
             PROVE  (Leaf(v) # Unused) <=> (v < brk)
  BY DEF IInv, Sane, OnCourse, Idle, HeapMapped
<1>1. Ahead = {}
  BY IdleFacts DEF Idle
<1> QED
  BY <1>1 DEF Consistent, HeapOk, HeapPages

LEMMA CoherentTlb == IInv => TlbCoherent
<1> SUFFICES ASSUME NEW lvl, NEW c, Consistent(lvl, c), NEW v \in Vaddrs,
                    PathOf(v) \in DOMAIN tlb
             PROVE  vmm_translate(v) = tlb[PathOf(v)]
  BY DEF IInv, Sane, TlbCoherent
<1>1. Tree(phys, pool, lvl) /\ TlbOk
  BY DEF Consistent
<1>2. Leaf(v) = Present(tlb[PathOf(v)])
  BY <1>1 DEF TlbOk, PagesRight
<1>3. PICK d : Walk(phys, PathOf(v), 3, d) /\ Leaf(v) = phys[d[3]][PathOf(v)[4]]
  BY <1>1, <1>2, LeafCases, EntryFacts
<1>4. HasTables(v) /\ ReadEntry(Prefix(PathOf(v), 3), PathOf(v)[4]) = Leaf(v)
  BY <1>1, <1>3, TablesWalk
<1> QED
  BY <1>2, <1>4, EntryFacts DEF vmm_translate

LEMMA NoTableEmpty == IInv => NoEmptyTable
<1> SUFFICES ASSUME NEW lvl, NEW c, Consistent(lvl, c), Idle, NEW k \in 1..3,
                    NEW p \in [1..k -> Idx], EntryAt(p).kind = "present"
             PROVE  \E i \in Idx : EntryAt(Append(p, i)) # Unused
  BY DEF IInv, Sane, OnCourse, Idle, NoEmptyTable, Tables, TablePaths
<1>1. Tree(phys, pool, lvl) /\ Filled(lvl, c)
  BY DEF Consistent
<1>2. PICK d : Walk(phys, p, k, d) /\ d[k] \in Frames /\ lvl[d[k]] = k
  BY <1>1, TablePlace, ZenonT(30)
<1>3. PICK i \in Idx : phys[d[k]][i] # Unused
  BY <1>1, <1>2, IdleFacts DEF Filled, Idle, Nodes
<1>4. p \in Seq(Idx) /\ Len(p) = k
  BY SeqFun
<1>5. PICK q : q = Append(p, i)
  OBVIOUS
<1>6. Path(q, k + 1) /\ q[k + 1] = i /\ \A j \in 1..k : q[j] = p[j]
  BY <1>4, <1>5, AppendPath, SeqPath
<1>7. Walk(phys, q, k, d)
  <2>1. k \in 0..4
    OBVIOUS
  <2> QED
    BY <1>2, <1>6, <2>1, WalkPath
<1>8. EntryIn(phys, q) = phys[d[k]][q[k + 1]]
  <2>1. k \in 0..3
    OBVIOUS
  <2> HIDE <1>5
  <2> QED
    BY <1>6, <1>7, <2>1, WalkEntry
<1> QED
  BY <1>3, <1>5, <1>6, <1>8, EntryAtIn

-----------------------------------------------------------------------------
(* Pages *)

LEMMA RunningStep == JobStep => job # NoJob
<1>1. JobStep => \E ops \in SUBSET Ops : Running(ops)
  BY DEF JobStep, PtExists, PtCreate, SetLeaf, PtChild, ClearLeaf, FreeTable, KeepTable,
         Ops
<1> QED
  BY <1>1, RunningJob

\* The frame of a page in use is at the level of the pages.
LEMMA BackedPage ==
    ASSUME NEW lvl, Tree(phys, pool, lvl), NEW f \in Frames, Backs(f)
    PROVE  f \in Nodes /\ lvl[f] = 4 /\ f \notin pool
<1>1. PICK v \in Vaddrs : Leaf(v) = Present(f)
  BY DEF Backs
<1>2. lvl[f] = 4
  BY <1>1, LeafCases, EntryFacts, VmmAssumption
<1> QED
  BY <1>2 DEF Tree, Nodes

\* A table is written in one entry; no other frame changes.
LEMMA OthersKept ==
    ASSUME NEW ph \in [Nodes -> [Idx -> Entries]], NEW F \in Nodes, NEW I, NEW e,
           NEW f \in Nodes, f # F
    PROVE  [ph EXCEPT ![F][I] = e][f] = ph[f]
  OBVIOUS

LEMMA DataKept ==
    ASSUME IInv, [Next]_vmmVars, OnCourse', NEW f \in Frames, Backs(f), phys[f] = Stored
    PROVE  phys'[f] = Stored
<1>0. OnCourse
  BY AstrayStays DEF OnCourse
<1>1. PICK lvl, c : Consistent(lvl, c)
  BY <1>0 DEF IInv, Sane
<1>2. /\ Tree(phys, pool, lvl) /\ TlbOk
      /\ phys \in [Nodes -> [Idx -> Entries]] /\ lvl \in [Nodes -> 0..5]
      /\ \A g \in Frames : lvl[g] = 5 <=> g \in pool
  BY <1>1 DEF Consistent, Tree
<1>3. f \in Nodes /\ lvl[f] = 4 /\ f \notin pool
  BY <1>2, BackedPage
<1>4. ASSUME NEW F \in Nodes, lvl[F] <= 3, NEW I, NEW e, phys' = [phys EXCEPT ![F][I] = e]
      PROVE  phys'[f] = Stored
  <2>1. f # F
    BY <1>3, <1>4
  <2> QED
    BY <1>2, <1>3, <1>4, <2>1, OthersKept
<1>5. CASE phys' = phys
  BY <1>5
<1>6. CASE JobStep
  <2>1. job # NoJob
    BY <1>6, RunningStep
  <2>2. PICK F : F = Reached(job.path)
    OBVIOUS
  <2>3. F \in Nodes /\ lvl[F] <= 3
    <3>1. PICK k : k = Len(job.path)
      OBVIOUS
    <3>2. k \in 0..3 /\ F = c[k] /\ c[k] \in Nodes /\ lvl[c[k]] = k
      BY <1>1, <2>1, <2>2, <3>1, JobPlace
    <3> QED
      BY <3>2
  <2>4. CASE PtExists \/ PtChild \/ KeepTable
    BY <1>5, <2>4 DEF PtExists, PtChild, KeepTable, Stop
  <2>5. CASE PtCreate /\ phys' # phys
    <3>1. PICK I : I = NextIdx
      OBVIOUS
    <3>2. PICK g, z :
              /\ g \in pool
              /\ phys' = [[phys EXCEPT ![F][I] = Present(g)] EXCEPT ![z] = Zeroed]
              /\ stopped' = IF z = g THEN "" ELSE "astray"
      <4>1. PICK g \in pool :
               LET child == Append(job.path, I)
                   zeroed == IF child \in DOMAIN tlb THEN tlb[child] ELSE g
               IN  /\ phys' = [[phys EXCEPT ![F][I] = Present(g)] EXCEPT ![zeroed] = Zeroed]
                   /\ stopped' = IF zeroed = g THEN "" ELSE "astray"
        BY <2>2, <2>5, <3>1 DEF PtCreate, Stop
      <4>2. PICK z : z = IF Append(job.path, I) \in DOMAIN tlb
                         THEN tlb[Append(job.path, I)] ELSE g
        OBVIOUS
      <4> QED
        BY <4>1, <4>2
    <3>3. z = g
      BY <3>2 DEF OnCourse
    <3>4. z # f
      BY <1>3, <3>2, <3>3
    <3>5. PICK ph : ph = [phys EXCEPT ![F][I] = Present(g)]
      OBVIOUS
    <3>6. ph[f] = phys[f] /\ f \in DOMAIN ph
      <4>1. f # F
        BY <1>3, <2>3
      <4> QED
        BY <1>2, <1>3, <2>3, <3>5, <4>1
    <3> QED
      BY <3>2, <3>4, <3>5, <3>6
  <2>6. CASE SetLeaf /\ phys' # phys
    <3>1. PICK e : phys' = [phys EXCEPT ![F][NextIdx] = e]
      BY <2>2, <2>6 DEF SetLeaf, Stop
    <3> QED
      BY <1>4, <2>3, <3>1
  <2>7. CASE ClearLeaf /\ phys' # phys
    <3>1. phys' = [phys EXCEPT ![F][NextIdx] = Unused]
      BY <2>2, <2>7 DEF ClearLeaf, Stop, Cleared
    <3> QED
      BY <1>4, <2>3, <3>1
  <2>8. CASE FreeTable
    <3>1. job.path # <<>>
      BY <2>8 DEF FreeTable
    <3>2. PICK G, I : /\ G = Reached(Prefix(job.path, Len(job.path) - 1))
                      /\ I = job.path[Len(job.path)]
      OBVIOUS
    <3>3. phys' = [phys EXCEPT ![G][I] = Unused]
      BY <2>8, <3>2 DEF FreeTable
    <3>4. G \in Nodes /\ lvl[G] <= 3
      BY <1>1, <2>1, <3>1, <3>2, JobParent
    <3> QED
      BY <1>4, <3>3, <3>4
  <2> QED
    BY <1>5, <1>6, <2>4, <2>5, <2>6, <2>7, <2>8 DEF JobStep
<1>7. ASSUME NEW v \in Vaddrs, Access(v)
      PROVE  phys'[f] = Stored
  <2>1. PICK F : F = Reached(PathOf(v))
    OBVIOUS
  <2>2. phys' = IF F \in Frames THEN [phys EXCEPT ![F] = Stored] ELSE phys
    BY <1>7, <2>1 DEF Access
  <2> QED
    BY <1>2, <1>3, <2>2
<1>8. ASSUME NEW v \in Vaddrs, PageFault(v)
      PROVE  phys'[f] = Stored
  <2>1. CASE UNCHANGED <<phys, pool, tlb, brk, job>>
    BY <2>1
  <2>2. CASE ~UNCHANGED <<phys, pool, tlb, brk, job>>
    <3>1. PICK g, lvl2, d :
              /\ g \in pool
              /\ Writes(phys, phys', d[3], PathOf(v)[4], Present(g))
              /\ d[3] \in Nodes /\ lvl[d[3]] = 3
      BY <1>1, <1>8, <2>2, FaultEffect
    <3>2. f # d[3]
      BY <1>3, <3>1
    <3>3. phys'[f] \in [Idx -> Entries] /\ phys[f] \in [Idx -> Entries]
      BY <1>2, <1>3, <3>1 DEF Writes
    <3>4. \A i \in Idx : phys'[f][i] = phys[f][i]
      BY <1>3, <3>1, <3>2 DEF Writes
    <3>5. phys'[f] = phys[f]
      BY <3>3, <3>4
    <3> QED
      BY <3>5
  <2> QED
    BY <2>1, <2>2
<1>9. CASE \E v \in Vaddrs, n \in 1..MaxPages :
             vmm_map(v, n) \/ vmm_map_to(v, Device, n) \/ vmm_free(v, n) \/ vmm_unmap(v, n)
  BY <1>5, <1>9 DEF vmm_map, vmm_map_to, vmm_free, vmm_unmap
<1>10. CASE \E n \in 1..MaxPages : SbrkUp(n) \/ SbrkDown(n)
  BY <1>5, <1>10 DEF SbrkUp, SbrkDown, Stop
<1>11. CASE UNCHANGED vmmVars
  BY <1>5, <1>11 DEF vmmVars
<1>12. CASE Evict
  BY <1>5, <1>12 DEF Evict
<1> QED
  BY <1>6, <1>7, <1>8, <1>9, <1>10, <1>11, <1>12 DEF Next

-----------------------------------------------------------------------------
(* The frames of the tree *)

\* An entry of the tree that leads to a frame, or to the device, ends a walk there.
LEMMA EntryPlace ==
    ASSUME NEW lvl, Tree(phys, pool, lvl), NEW k \in 1..4, NEW p \in Routes(k),
           EntryAt(p).kind = "present"
    PROVE  \E d : /\ Walk(phys, p, k, d) /\ EntryAt(p) = Present(d[k])
                  /\ d[k] = Device \/ (d[k] \in Frames /\ lvl[d[k]] = k)
<1>1. CASE k \in 1..3
  BY <1>1, TablePlace DEF Routes
<1>2. CASE k = 4
  <2>1. p \in Seq(Idx) /\ Path(p, 4) /\ \A j \in 1..4 : p[j] \in Idx
    BY <1>2, SeqFun DEF Path, Routes
  <2>2. EntryAt(p) = EntryIn(phys, p) /\ EntryAt(p) # Unused
    BY EntryAtIn, EntryFacts
  <2>3. PICK c : Walk(phys, p, 3, c)
    <3>1. PICK n \in 1..4 : n = 4 /\ n - 1 = 3
      OBVIOUS
    <3>2. Path(p, n)
      BY <2>1, <3>1
    <3>3. \E c : Walk(phys, p, n - 1, c)
      BY <2>2, <3>2, EntryWalk
    <3> QED
      BY <3>1, <3>3
  <2>4. c[3] \in Nodes /\ lvl[c[3]] = 3
    BY <2>1, <2>3, WalkLevel
  <2>5. EntryAt(p) = phys[c[3]][p[4]]
    <3>1. PICK m \in 0..3 : m = 3 /\ m + 1 = 4
      OBVIOUS
    <3>2. Path(p, m + 1) /\ Walk(phys, p, m, c)
      BY <2>1, <2>3, <3>1
    <3>3. EntryIn(phys, p) = phys[c[m]][p[m + 1]]
      BY <3>2, WalkEntry
    <3> QED
      BY <2>2, <3>1, <3>3
  <2>6. EntryOk(lvl, 3, phys[c[3]][p[4]])
    BY <2>1, <2>4, TreeEntry
  <2>7. PICK g : /\ phys[c[3]][p[4]] = Present(g)
                 /\ g = Device \/ (g \in Frames /\ lvl[g] = 4)
    BY <2>2, <2>5, <2>6, EntryFacts DEF EntryOk
  <2>8. PICK d : d = [c EXCEPT ![4] = g]
    OBVIOUS
  <2>9. Walk(phys, p, 4, d)
    <3>1. PICK m \in 0..3 : m = 3 /\ m + 1 = 4
      OBVIOUS
    <3>2. /\ Walk(phys, p, m, c) /\ c[m] \in Nodes /\ phys[c[m]][p[m + 1]] = Present(g)
          /\ g \in Nodes \cup {Device} /\ d = [c EXCEPT ![m + 1] = g]
      BY <2>3, <2>4, <2>7, <2>8, <3>1 DEF Nodes
    <3>3. Walk(phys, p, m + 1, d)
      BY <3>2, WalkOn
    <3> QED
      BY <3>1, <3>3
  <2>10. d[4] = g
    BY <2>3, <2>8 DEF Walk, Chains
  <2> QED
    BY <1>2, <2>5, <2>7, <2>9, <2>10
<1> QED
  BY <1>1, <1>2

LEMMA AppendFun ==
    ASSUME NEW k \in Nat, NEW t \in Routes(k), NEW i \in Idx
    PROVE  /\ Append(t, i) \in Routes(k + 1)
           /\ Append(t, i)[k + 1] = i /\ \A j \in 1..k : Append(t, i)[j] = t[j]
<1>1. t \in Seq(Idx) /\ Len(t) = k
  BY SeqFun DEF Routes
<1>2. /\ Append(t, i) \in Seq(Idx) /\ Len(Append(t, i)) = k + 1
      /\ Append(t, i)[k + 1] = i /\ \A j \in 1..k : Append(t, i)[j] = t[j]
  BY <1>1, AppendPath
<1> QED
  BY <1>2, LenProperties DEF Routes

\* Every path of the tree ends at one frame, and every frame in use has one.
LEMMA PathToChild ==
    ASSUME NEW lvl, Tree(phys, pool, lvl), NEW k \in 0..3, NEW p \in Routes(k),
           NEW c, Walk(phys, p, k, c), c[k] \in Nodes, NEW i \in Idx, NEW g \in Frames,
           phys[c[k]][i] = Present(g)
    PROVE  \E q \in Routes(k + 1) : \E d : Walk(phys, q, k + 1, d) /\ d[k + 1] = g
<1>1. PICK q : q = [j \in 1..k + 1 |-> IF j <= k THEN p[j] ELSE i]
  OBVIOUS
<1>2. q \in Routes(k + 1) /\ q[k + 1] = i /\ \A j \in 1..k : q[j] = p[j]
  BY <1>1 DEF Routes
<1>3. Walk(phys, q, k, c)
  <2>1. k \in 0..4
    OBVIOUS
  <2> QED
    BY <1>2, <2>1, WalkPath
<1>4. PICK d : d = [c EXCEPT ![k + 1] = g]
  OBVIOUS
<1>5. Walk(phys, q, k + 1, d)
  <2>1. g \in Nodes \cup {Device} /\ phys[c[k]][q[k + 1]] = Present(g)
    BY <1>2 DEF Nodes
  <2> QED
    BY <1>3, <1>4, <2>1, WalkOn
<1>6. d[k + 1] = g
  BY <1>3, <1>4 DEF Walk, Chains
<1> QED
  BY <1>2, <1>5, <1>6

LEMMA PathTo ==
    ASSUME NEW lvl, Tree(phys, pool, lvl), NEW g \in Nodes, NEW k \in 0..4, lvl[g] = k
    PROVE  \E p \in Routes(k) : \E c : Walk(phys, p, k, c) /\ c[k] = g
<1> DEFINE P(m) == \A f \in Nodes : lvl[f] = m =>
                      \E p \in Routes(m) : \E c : Walk(phys, p, m, c) /\ c[m] = f
<1>1. P(0)
  <2>1. SUFFICES ASSUME NEW f \in Nodes, lvl[f] = 0
                 PROVE  \E p \in Routes(0) : \E c : Walk(phys, p, 0, c) /\ c[0] = f
    OBVIOUS
  <2>2. f = Root
    BY <2>1 DEF Tree
  <2>3. [j \in 1..0 |-> 0] \in Routes(0)
    BY DEF Routes
  <2> QED
    <3>1. PICK p, c : p \in Routes(0) /\ c = [j \in 0..4 |-> Root]
      BY <2>3
    <3>2. Walk(phys, p, 0, c) /\ c[0] = f
      BY <2>2, <3>1, RootWalk
    <3> QED
      BY <3>1, <3>2
<1>2. ASSUME NEW m \in 0..3, P(m) PROVE P(m + 1)
  <2>1. SUFFICES ASSUME NEW f \in Nodes, lvl[f] = m + 1
                 PROVE  \E q \in Routes(m + 1) : \E d : Walk(phys, q, m + 1, d) /\ d[m + 1] = f
    OBVIOUS
  <2>2. f \in Frames /\ lvl[f] \in 1..4 /\ lvl[f] - 1 = m
    <3>1. f # Root
      BY <2>1 DEF Tree
    <3> QED
      BY <2>1, <3>1 DEF Nodes
  <2>3. PICK e \in Nodes, i \in Idx : lvl[e] = m /\ phys[e][i] = Present(f)
    BY <2>2 DEF Tree
  <2>4. PICK p, c : p \in Routes(m) /\ Walk(phys, p, m, c) /\ c[m] = e
    BY <1>2, <2>3
  <2> QED
    <3>1. c[m] \in Nodes /\ phys[c[m]][i] = Present(f)
      BY <2>3, <2>4
    <3> QED
      BY <2>2, <2>3, <2>4, <3>1, PathToChild
<1> HIDE DEF P
<1>3. P(1)
  BY <1>1, <1>2, 0 \in 0..3, 0 + 1 = 1
<1>4. P(2)
  BY <1>3, <1>2, 1 \in 0..3, 1 + 1 = 2
<1>5. P(3)
  BY <1>4, <1>2, 2 \in 0..3, 2 + 1 = 3
<1>6. P(4)
  BY <1>5, <1>2, 3 \in 0..3, 3 + 1 = 4
<1>7. P(k)
  BY <1>1, <1>3, <1>4, <1>5, <1>6, k = 0 \/ k = 1 \/ k = 2 \/ k = 3 \/ k = 4
<1> QED
  BY <1>7 DEF P

\* The slots of the tree, by their paths.
LEMMA SlotPath == Slots \subseteq UNION {Routes(k) : k \in 1..4}
<1>1. ASSUME NEW i \in Idx PROVE <<i>> \in Routes(1)
  BY DEF Routes
<1>2. ASSUME NEW k \in 1..3, NEW t \in Routes(k), NEW i \in Idx
      PROVE  \E m \in 1..4 : Append(t, i) \in Routes(m)
  <2>1. k + 1 \in 1..4 /\ k \in Nat
    OBVIOUS
  <2> QED
    BY <2>1, AppendFun
<1> QED
  <2>1. ASSUME NEW p \in Slots
        PROVE  \/ \E i \in Idx : p = <<i>>
               \/ \E k \in 1..3 : \E t \in Routes(k), i \in Idx : p = Append(t, i)
    BY DEF Slots, Tables, TablePaths, Routes
  <2>2. ASSUME NEW p \in Slots PROVE \E k \in 1..4 : p \in Routes(k)
    <3>1. CASE \E i \in Idx : p = <<i>>
      <4>1. p \in Routes(1) /\ 1 \in 1..4
        BY <1>1, <3>1
      <4> QED
        BY <4>1
    <3>2. ASSUME NEW k \in 1..3, NEW t \in Routes(k), NEW i \in Idx, p = Append(t, i)
          PROVE  \E m \in 1..4 : p \in Routes(m)
      BY <1>2, <3>2
    <3> QED
      BY <2>1, <3>1, <3>2
  <2> QED
    BY <2>2

LEMMA WalkSlot ==
    ASSUME NEW lvl, Tree(phys, pool, lvl), NEW k \in 1..4, NEW p \in Routes(k),
           NEW c, Walk(phys, p, k, c)
    PROVE  p \in Slots /\ EntryAt(p) = Present(c[k])
<1>0. \A j \in 1..k : p[j] \in Idx
  BY DEF Routes
<1>1. ASSUME NEW m \in 1..k, NEW q \in Routes(m), \A j \in 1..m : q[j] = p[j]
      PROVE  EntryAt(q) = Present(c[m])
  <2>1. PICK n \in 0..3 : n + 1 = m /\ n = m - 1
    <3>1. m - 1 \in 0..3 /\ (m - 1) + 1 = m
      OBVIOUS
    <3> QED
      BY <3>1
  <2>2. Path(q, n + 1)
    BY <2>1, SeqFun DEF Routes
  <2>3. Walk(phys, q, n, c) /\ phys[c[n]][q[n + 1]] = Present(c[n + 1])
    <3>1. n \in 0..4 /\ n \in 0..k /\ n + 1 \in 1..k /\ (n + 1) - 1 = n
      BY <2>1
    <3>2. Walk(phys, p, n, c)
      BY <3>1, WalkPrefix
    <3>3. \A j \in 1..n : q[j] = p[j]
      BY <1>1, <2>1
    <3>4. Walk(phys, q, n, c)
      BY <3>1, <3>2, <3>3, WalkPath
    <3>5. phys[c[n]][p[n + 1]] = Present(c[n + 1])
      BY <3>1 DEF Walk
    <3> QED
      BY <1>1, <2>1, <3>4, <3>5
  <2>4. EntryIn(phys, q) = phys[c[n]][q[n + 1]]
    BY <2>2, <2>3, WalkEntry
  <2> QED
    BY <2>1, <2>3, <2>4, EntryAtIn
<1>2. EntryAt(p) = Present(c[k])
  BY <1>1
<1>3. CASE k = 1
  <2>1. p = <<p[1]>>
    BY <1>3 DEF Routes
  <2> QED
    BY <1>0, <1>2, <1>3, <2>1 DEF Slots
<1>4. CASE k # 1
  <2>1. PICK m \in 1..3 : k = m + 1
    <3>1. k - 1 \in 1..3 /\ k = (k - 1) + 1
      BY <1>4
    <3> QED
      BY <3>1
  <2>2. PICK t \in Routes(m) : \A j \in 1..m : t[j] = p[j]
    <3>1. [j \in 1..m |-> p[j]] \in Routes(m)
      BY <1>0, <2>1 DEF Routes
    <3> QED
      BY <3>1
  <2>3. EntryAt(t).kind = "present"
    BY <1>1, <2>1, <2>2, EntryFacts
  <2>4. t \in Tables
    BY <2>2, <2>3 DEF Tables, TablePaths, Routes
  <2>5. p = Append(t, p[m + 1])
    <3>1. m \in Nat /\ p[m + 1] \in Idx
      BY <1>0, <2>1
    <3>2. /\ Append(t, p[m + 1]) \in Routes(m + 1)
          /\ Append(t, p[m + 1])[m + 1] = p[m + 1]
          /\ \A j \in 1..m : Append(t, p[m + 1])[j] = t[j]
      BY <3>1, AppendFun
    <3>3. \A j \in 1..m + 1 : j \in 1..m \/ j = m + 1
      OBVIOUS
    <3>4. p \in Routes(m + 1)
      BY <2>1
    <3> QED
      BY <2>2, <3>2, <3>3, <3>4 DEF Routes
  <2> QED
    BY <1>0, <1>2, <2>1, <2>4, <2>5 DEF Slots
<1> QED
  BY <1>2, <1>3, <1>4

LEMMA AllFramesAccounted == IInv => FramesAccounted
<1> SUFFICES ASSUME NEW lvl, Tree(phys, pool, lvl), NEW f \in Frames
             PROVE  LET uses == {p \in Slots : EntryAt(p).kind = "present" /\ EntryAt(p).frame = f}
                    IN  IF f \in pool THEN uses = {} ELSE \E p \in uses : uses = {p}
  BY DEF IInv, Sane, Consistent, FramesAccounted
<1> DEFINE uses == {p \in Slots : EntryAt(p).kind = "present" /\ EntryAt(p).frame = f}
<1>1. /\ f \in Nodes /\ f # Root /\ f # Device
      /\ lvl[f] \in 0..5 /\ lvl[f] # 0 /\ (lvl[f] = 5 <=> f \in pool)
  BY VmmAssumption DEF Tree, Nodes
<1>2. ASSUME NEW p \in uses
      PROVE  \E k \in 1..4 : \E d : /\ p \in Routes(k) /\ Walk(phys, p, k, d) /\ d[k] = f
                                    /\ lvl[f] = k
  <2>1. PICK k \in 1..4 : p \in Routes(k)
    BY SlotPath
  <2>2. PICK d : /\ Walk(phys, p, k, d) /\ EntryAt(p) = Present(d[k])
                 /\ d[k] = Device \/ (d[k] \in Frames /\ lvl[d[k]] = k)
    BY <2>1, EntryPlace
  <2>3. d[k] = f
    BY <2>2, EntryFacts
  <2> QED
    BY <1>1, <2>1, <2>2, <2>3
<1>3. CASE f \in pool
  <2>1. uses = {}
    BY <1>1, <1>2, <1>3
  <2> QED
    BY <1>3, <2>1
<1>4. CASE f \notin pool
  <2>1. PICK k \in 1..4 : lvl[f] = k
    BY <1>1, <1>4
  <2>2. PICK p, c : p \in Routes(k) /\ Walk(phys, p, k, c) /\ c[k] = f
    <3>1. k \in 0..4
      OBVIOUS
    <3> HIDE DEF uses
    <3>2. \E p \in Routes(k) : \E c : Walk(phys, p, k, c) /\ c[k] = f
      BY <1>1, <2>1, <3>1, PathTo
    <3> QED
      BY <3>2
  <2>3. p \in uses
    <3>1. p \in Slots /\ EntryAt(p) = Present(f)
      BY <2>2, WalkSlot
    <3> QED
      BY <3>1, EntryFacts
  <2>4. ASSUME NEW q \in uses PROVE q = p
    <3>1. PICK d : q \in Routes(k) /\ Walk(phys, q, k, d) /\ d[k] = f
      BY <1>2, <2>1
    <3>2. \A j \in 1..k : p[j] \in Idx /\ q[j] \in Idx
      BY <2>2, <3>1 DEF Routes
    <3>3. k \in 0..4 /\ c[k] = d[k] /\ c[k] \in Nodes
      BY <1>1, <2>2, <3>1
    <3>4. \A j \in 1..k : p[j] = q[j]
      BY <2>2, <3>1, <3>2, <3>3, WalkUnique
    <3> QED
      BY <2>2, <3>1, <3>4 DEF Routes
  <2>5. uses = {p}
    BY <2>3, <2>4
  <2> QED
    BY <1>4, <2>3, <2>5
<1> QED
  BY <1>3, <1>4

-----------------------------------------------------------------------------
(* The refinement *)

\* The map from pages to frames that the tables stand for.
Seen(e) == IF e.kind = "present" THEN e.frame ELSE e.kind
Space == [v \in Vaddrs |-> Seen(Leaf(v))]

LEMMA SpaceStep ==
    /\ SameLeaves => Space' = Space
    /\ \A v \in Vaddrs : \A e, e2 : OneLeaf(v, e, e2) =>
          Space[v] = Seen(e) /\ Space' = [Space EXCEPT ![v] = Seen(e2)]
<1>1. Space' = [v \in Vaddrs |-> Seen(Leaf(v)')]
  BY DEF Space, Seen
<1>2. ASSUME SameLeaves PROVE Space' = Space
  BY <1>1, <1>2 DEF Space, SameLeaves
<1>3. ASSUME NEW v \in Vaddrs, NEW e, NEW e2, OneLeaf(v, e, e2)
      PROVE  Space[v] = Seen(e) /\ Space' = [Space EXCEPT ![v] = Seen(e2)]
  BY <1>1, <1>3 DEF Space, OneLeaf
<1> QED
  BY <1>2, <1>3

LEMMA SpaceActions ==
    /\ Abstract!Init <=> Space = [v \in Vaddrs |-> "unused"] /\ OnCourse
    /\ Abstract!Operation <=> \E v \in Vaddrs :
          \/ Space[v] = "unused" /\ Space' = [Space EXCEPT ![v] = "to_alloc"]
          \/ /\ Space[v] = "to_alloc"
             /\ \E f \in Frames : /\ \A w \in Vaddrs : Space[w] # f
                                  /\ Space' = [Space EXCEPT ![v] = f]
          \/ Space[v] \in Frames /\ Space' = [Space EXCEPT ![v] = "unused"]
          \/ Space[v] = "unused" /\ Space' = [Space EXCEPT ![v] = Device]
          \/ Space[v] = Device /\ Space' = [Space EXCEPT ![v] = "unused"]
<1>1. Unused.kind = "unused" /\ ToAlloc.kind = "to_alloc"
  BY EntryFacts
<1>2. Abstract!Init <=> Space = [v \in Vaddrs |-> "unused"] /\ OnCourse
  BY <1>1 DEF Abstract!Init, Space, Seen, OnCourse
<1>3. ASSUME NEW v \in Vaddrs
      PROVE  /\ Abstract!Map(v) <=>
                   Space[v] = "unused" /\ Space' = [Space EXCEPT ![v] = "to_alloc"]
             /\ Abstract!MapTo(v) <=>
                   Space[v] = "unused" /\ Space' = [Space EXCEPT ![v] = Device]
  BY <1>1 DEF Abstract!Map, Abstract!MapTo, Space, Seen
<1>4. ASSUME NEW v \in Vaddrs
      PROVE  /\ Abstract!Free(v) <=>
                   Space[v] \in Frames /\ Space' = [Space EXCEPT ![v] = "unused"]
             /\ Abstract!Unmap(v) <=>
                   Space[v] = Device /\ Space' = [Space EXCEPT ![v] = "unused"]
  BY <1>1 DEF Abstract!Free, Abstract!Unmap, Space, Seen
<1>5. ASSUME NEW v \in Vaddrs
      PROVE  Abstract!Back(v) <=>
                /\ Space[v] = "to_alloc"
                /\ \E f \in Frames : /\ \A w \in Vaddrs : Space[w] # f
                                     /\ Space' = [Space EXCEPT ![v] = f]
  BY <1>1 DEF Abstract!Back, Space, Seen
<1> QED
  BY <1>2, <1>3, <1>4, <1>5 DEF Abstract!Operation

LEMMA InitSpace == Init => Abstract!Init
<1> SUFFICES ASSUME Init PROVE Abstract!Init
  OBVIOUS
<1>1. phys[Root] = Zeroed
  BY DEF Init
<1>2. ASSUME NEW v \in Vaddrs PROVE Leaf(v) = Unused
  <2>1. Path(PathOf(v), 4)
    BY PathOfFacts
  <2>2. phys[Root][PathOf(v)[1]] = Unused
    BY <1>1, <2>1 DEF Zeroed, Path
  <2>3. \A i : Next_(phys, Unused, i) = Unused
    BY NextFacts, EntryFacts
  <2>4. EntryIn(phys, PathOf(v)) = Unused
    BY <2>1, <2>2, <2>3, EntryInLen DEF Path
  <2> QED
    BY <2>4, EntryAtNext
<1>3. Space = [v \in Vaddrs |-> "unused"]
  BY <1>2, EntryFacts DEF Space, Seen
<1>4. OnCourse
  BY DEF Init, OnCourse
<1> QED
  BY <1>3, <1>4, SpaceActions

LEMMA StepSpace ==
    ASSUME After(Device) = Device, {"unused", "to_alloc"} \cap Frames = {}, IInv,
           [Next]_vmmVars, OnCourse'
    PROVE  Abstract!Operation \/ Space' = Space
<1>0. OnCourse
  BY AstrayStays DEF OnCourse
<1>1. PICK lvl, c : Consistent(lvl, c)
  BY <1>0 DEF IInv, Sane
<1>2. Tree(phys, pool, lvl)
  BY <1>1 DEF Consistent
<1>3. CASE SameLeaves
  BY <1>3, SpaceStep
<1>4. CASE phys' = phys
  BY <1>3, <1>4, SameLeavesBy
<1>5. Seen(Unused) = "unused" /\ Seen(ToAlloc) = "to_alloc" /\ \A g : Seen(Present(g)) = g
  BY EntryFacts DEF Seen
<1>6. CASE PtExists \/ PtChild \/ KeepTable
  BY <1>4, <1>6 DEF PtExists, PtChild, KeepTable, Stop
<1>7. CASE PtCreate
  BY <1>1, <1>3, <1>7, PtCreateKeeps
<1>8. CASE FreeTable
  BY <1>1, <1>3, <1>8, FreeTableKeeps
<1>9. CASE SetLeaf
  <2>1. SUFFICES ASSUME NEW v \in Vaddrs, NEW e \in {ToAlloc, Present(Device)},
                        OneLeaf(v, Unused, e)
                 PROVE  Abstract!Operation
    BY <1>1, <1>3, <1>9, SetLeafKeeps
  <2>2. Space[v] = "unused" /\ Space' = [Space EXCEPT ![v] = Seen(e)]
    BY <1>5, <2>1, SpaceStep
  <2>3. Seen(e) = "to_alloc" \/ Seen(e) = Device
    BY <1>5
  <2> QED
    BY <2>2, <2>3, SpaceActions
<1>10. CASE ClearLeaf
  <2>1. SUFFICES ASSUME NEW v \in Vaddrs, NEW g \in Frames \cup {Device},
                        OneLeaf(v, Present(g), Unused)
                 PROVE  Abstract!Operation
    BY <1>1, <1>3, <1>10, ClearLeafKeeps
  <2>2. Space[v] = g /\ Space' = [Space EXCEPT ![v] = "unused"]
    BY <1>5, <2>1, SpaceStep
  <2> QED
    BY <2>2, SpaceActions
<1>11. ASSUME NEW v \in Vaddrs, Access(v)
       PROVE  Abstract!Operation \/ Space' = Space
  BY <1>1, <1>3, <1>11, AccessKeeps
<1>12. ASSUME NEW v \in Vaddrs, PageFault(v)
       PROVE  Abstract!Operation \/ Space' = Space
  <2>1. CASE UNCHANGED <<phys, pool, tlb, brk, job>>
    BY <1>4, <2>1
  <2>2. CASE ~UNCHANGED <<phys, pool, tlb, brk, job>>
    <3>1. PICK f \in pool :
              /\ f \in Frames /\ Leaf(v) = ToAlloc /\ Leaf(v)' = Present(f)
              /\ \A w \in Vaddrs : w # v => Leaf(w)' = Leaf(w)
      BY <1>1, <1>12, <2>2, FaultEffect
    <3>2. OneLeaf(v, ToAlloc, Present(f))
      BY <3>1 DEF OneLeaf
    <3>3. Space[v] = "to_alloc" /\ Space' = [Space EXCEPT ![v] = f]
      BY <1>5, <3>2, SpaceStep
    <3>4. ASSUME NEW w \in Vaddrs PROVE Space[w] # f
      <4>1. lvl[f] = 5
        BY <1>2, <3>1 DEF Tree
      <4>2. \/ Leaf(w) \in {Unused, ToAlloc, Present(Device)}
            \/ \E g \in Frames : Leaf(w) = Present(g) /\ lvl[g] = 4
        BY <1>2, LeafCases
      <4>3. Space[w] = Seen(Leaf(w))
        BY DEF Space
      <4>4. f # "unused" /\ f # "to_alloc" /\ f # Device
        BY <3>1, VmmAssumption
      <4> QED
        BY <1>5, <4>1, <4>2, <4>3, <4>4
    <3> QED
      BY <3>1, <3>3, <3>4, SpaceActions
  <2> QED
    BY <2>1, <2>2
<1>13. CASE \E v \in Vaddrs, n \in 1..MaxPages :
              vmm_map(v, n) \/ vmm_map_to(v, Device, n) \/ vmm_free(v, n) \/ vmm_unmap(v, n)
  BY <1>4, <1>13 DEF vmm_map, vmm_map_to, vmm_free, vmm_unmap
<1>14. CASE \E n \in 1..MaxPages : SbrkUp(n) \/ SbrkDown(n)
  BY <1>4, <1>14 DEF SbrkUp, SbrkDown, Stop
<1>15. CASE UNCHANGED vmmVars
  BY <1>4, <1>15 DEF vmmVars
<1>16. CASE Evict
  BY <1>4, <1>16 DEF Evict
<1> QED
  BY <1>6, <1>7, <1>8, <1>9, <1>10, <1>11, <1>12, <1>13, <1>14, <1>15, <1>16
  DEF Next, JobStep

-----------------------------------------------------------------------------
(* Theorems *)

\* Until the kernel goes astray, no frame leaks and none is given back twice: each that the
\* allocator has given out is used in one place of the tree, as a table or as a page
\* (vmm.c:83-176, 482-498).
THEOREM EveryFrameAccounted ==
    ASSUME After(Device) = Device
    PROVE  Spec => []FramesAccounted
  BY VmmInvariance, AllFramesAccounted, PTL

\* No call leaves an empty table behind (vmm.c:129-173).
THEOREM NoTableLeftEmpty ==
    ASSUME After(Device) = Device
    PROVE  Spec => []NoEmptyTable
  BY VmmInvariance, NoTableEmpty, PTL

\* Until the kernel goes astray, the translations of pages that the processor remembers are
\* those of the tables (vmm.c:127-128).
THEOREM TlbIsCoherent ==
    ASSUME After(Device) = Device
    PROVE  Spec => []TlbCoherent
  BY VmmInvariance, CoherentTlb, PTL

\* The heap is mapped up to the break and not beyond (vmm.c:380-396).
THEOREM HeapIsMapped ==
    ASSUME After(Device) = Device
    PROVE  Spec => []HeapMapped
  BY VmmInvariance, MappedHeap, PTL

\* No step before the kernel goes astray writes a table over a page in use
\* (vmm.c:83-178, 482-498).
THEOREM PagesUntouched ==
    ASSUME After(Device) = Device
    PROVE  Spec => DataUntouched
<1>1. IInv /\ [Next]_vmmVars =>
          [OnCourse' =>
             \A f \in Frames : Backs(f) /\ phys[f] = Stored => phys'[f] = Stored]_vmmVars
  BY DataKept
<1> QED
  BY <1>1, VmmInvariance, PTL DEF Spec, DataUntouched

\* The tables, and the calls that walk them table by table, behave as one map from pages
\* to frames in which each call changes one page at a time, until the step that goes astray,
\* which is one of the map too: it is lost (vmm.c:83-178, 299-404, 482-498).  (A frame is
\* not one of the words that say how a page is mapped.)
THEOREM SpaceRefinement ==
    ASSUME After(Device) = Device,
           {"unused", "to_alloc"} \cap Frames = {}
    PROVE  Spec => ImplementsAddressSpace
<1>1. Init => Abstract!Init
  BY InitSpace
<1>2. IInv /\ [Next]_vmmVars => [Abstract!Next]_<<Space, stopped = "astray">>
  <2>1. SUFFICES ASSUME IInv, [Next]_vmmVars
                 PROVE  Abstract!Next \/ UNCHANGED <<Space, stopped = "astray">>
    OBVIOUS
  <2>2. CASE ~OnCourse
    <3>1. UNCHANGED <<phys, stopped>>
      BY <2>1, <2>2, AstrayStays
    <3>2. Space' = Space
      BY <3>1, SameLeavesBy, SpaceStep
    <3> QED
      BY <3>1, <3>2
  <2>3. CASE OnCourse /\ ~OnCourse'
    BY <2>3 DEF OnCourse, Abstract!Next
  <2>4. CASE OnCourse /\ OnCourse'
    <3>1. Abstract!Operation \/ Space' = Space
      BY <2>1, <2>4, StepSpace
    <3>2. (stopped = "astray") = FALSE /\ (stopped = "astray")' = FALSE
      BY <2>4 DEF OnCourse
    <3> QED
      BY <3>1, <3>2 DEF Abstract!Next
  <2> QED
    BY <2>2, <2>3, <2>4
<1> QED
  BY <1>1, <1>2, VmmInvariance, PTL DEF Spec, ImplementsAddressSpace, Abstract!Spec, Space, Seen

=============================================================================
