---------------------------- MODULE DListProofs -----------------------------
(***************************************************************************)
(* Proofs about list.c, for any heads and elements: forw and back agree    *)
(* whatever is called, and the calls are those of sequences.               *)
(***************************************************************************)
EXTENDS DList, TLAPS, FiniteSetTheorems, SequenceTheorems, WellFoundedInduction

-----------------------------------------------------------------------------
\* The inductive invariant.

Nodes == Heads \cup Elements

InRow(s, x) == \E i \in 1 .. Len(s) : s[i] = x

LedBack(h, s) == \A i \in 0 .. Len(s) : back[Nth(h, s, i + 1)] = Nth(h, s, i)

\* The list of h is s, whichever way it is read.
Ring(h, s) == Leads(h, s) /\ LedBack(h, s) /\ ents[h] = Len(s)

PointersOK ==
  /\ forw \in [Nodes -> Nodes \cup {null, wild}]
  /\ back \in [Nodes -> Nodes \cup {null, wild}]
  /\ ents \in [Heads -> Nat \cup {wild}]

\* Only listfree leaves something half done: its head is a list, and what it has
\* given away is elements.
FreeingOK ==
  /\ freeing # null => freeing \in Lists
  /\ freeing = null => freed = <<>>
  /\ freed \in Seq(Elements)

\* An element is on one list.
Apart ==
  \A g, h \in Lists : g # h => \A x : ~(InRow(Forwards(g), x) /\ InRow(Forwards(h), x))

RingsOK == \A h \in Lists : Forwards(h) \in Rows /\ Ring(h, Forwards(h))

DListInv == PointersOK /\ FreeingOK /\ RingsOK /\ Apart

-----------------------------------------------------------------------------
\* Rows.

\* Different elements in a row are no more than there are elements.
LEMMA RowsAre ==
  ASSUME NEW s
  PROVE  s \in Rows <=> s \in Seq(Elements) /\ \A i, j \in 1 .. Len(s) : s[i] = s[j] => i = j
  <1>1. ASSUME s \in Rows
        PROVE  s \in Seq(Elements) /\ \A i, j \in 1 .. Len(s) : s[i] = s[j] => i = j
    <2>1. Cardinality(Elements) \in Nat
      BY FS_CardinalityType, DListAssumption
    <2>2. PICK n \in 0 .. Cardinality(Elements) :
            s \in [1 .. n -> Elements] /\ \A i, j \in 1 .. n : s[i] = s[j] => i = j
      BY <1>1 DEF Rows
    <2>3. n \in Nat
      BY <2>1
    <2>4. s \in Seq(Elements) /\ Len(s) = n
      BY <2>2, <2>3
    <2> QED
      BY <2>2, <2>4
  <1>2. ASSUME s \in Seq(Elements), \A i, j \in 1 .. Len(s) : s[i] = s[j] => i = j
        PROVE  s \in Rows
    <2>1. PICK n \in Nat : n = Len(s)
      BY <1>2
    <2>2. s \in [1 .. n -> Elements]
      BY <1>2, <2>1
    <2>3. s \in Injection(1 .. n, Elements)
      BY <1>2, <2>1, <2>2 DEF Injection, IsInjective
    <2>4. Cardinality(1 .. n) <= Cardinality(Elements) /\ Cardinality(1 .. n) = n
      BY <2>3, FS_Injection, FS_Interval, DListAssumption
    <2>5. n \in 0 .. Cardinality(Elements)
      BY <2>1, <2>4, FS_CardinalityType, DListAssumption
    <2> QED
      BY <1>2, <2>1, <2>2, <2>5 DEF Rows
  <1> QED
    BY <1>1, <1>2

LEMMA RowFacts ==
  ASSUME NEW s \in Rows
  PROVE  /\ s \in Seq(Elements) /\ Len(s) \in Nat
         /\ \A i \in 1 .. Len(s) : s[i] \in Elements /\ s[i] \notin Heads
         /\ \A i, j \in 1 .. Len(s) : s[i] = s[j] => i = j
  BY RowsAre, DListAssumption

\* The circle of a head and its row meets every node once.
LEMMA NthFacts ==
  ASSUME NEW h \in Heads, NEW s \in Rows
  PROVE  /\ Nth(h, s, 0) = h /\ Nth(h, s, Len(s) + 1) = h
         /\ \A i \in 0 .. Len(s) + 1 : Nth(h, s, i) \in Nodes
         /\ \A i, j \in 0 .. Len(s) : Nth(h, s, i) = Nth(h, s, j) => i = j
         /\ \A i, j \in 1 .. Len(s) + 1 : Nth(h, s, i) = Nth(h, s, j) => i = j
         /\ \A i \in 0 .. Len(s) + 1 : Nth(h, s, i) = h \/ InRow(s, Nth(h, s, i))
         /\ \A i \in 1 .. Len(s) : Nth(h, s, i) = s[i] /\ s[i] # h
  <1>1. /\ Len(s) \in Nat
        /\ \A i \in 1 .. Len(s) : s[i] \in Elements /\ s[i] # h
        /\ \A i, j \in 1 .. Len(s) : s[i] = s[j] => i = j
    BY RowFacts
  <1> QED
    BY <1>1 DEF Nth, Nodes, InRow

\* Of some positive numbers, one is the least.
LEMMA OneIsLeast ==
  ASSUME NEW S \in SUBSET (Nat \ {0}), S # {}
  PROVE  \E m \in S : \A j \in S : m <= j
  <1>1. PICK m \in S : \A j \in S : ~(<<j, m>> \in OpToRel(<, Nat))
    BY NatLessThanWellFounded, WFMin
  <1>2. ASSUME NEW j \in S
        PROVE  m <= j
    <2>1. ASSUME j < m
          PROVE  FALSE
      <3>1. <<j, m>> \in OpToRel(<, Nat)
        BY <2>1 DEF OpToRel
      <3> QED
        BY <1>1, <3>1
    <2> QED
      BY <2>1
  <1> QED
    BY <1>2

\* Two rows that forw leads through agree where both have an element.
LEMMA SameElements ==
  ASSUME NEW h \in Heads, NEW s \in Rows, NEW t \in Rows, Leads(h, s), Leads(h, t)
  PROVE  \A i \in 1 .. Len(s) : i <= Len(t) => s[i] = t[i]
  <1> DEFINE Differ == {i \in 1 .. Len(s) : i <= Len(t) /\ s[i] # t[i]}
  <1>1. Len(s) \in Nat /\ Len(t) \in Nat
    BY RowFacts
  <1>2. Differ \in SUBSET (Nat \ {0})
    BY <1>1
  <1>3. ASSUME NEW m \in Differ, \A j \in Differ : m <= j
        PROVE  FALSE
    <2>1. m \in 1 .. Len(s) /\ m <= Len(t) /\ s[m] # t[m]
      BY <1>3
    <2>2. PICK k \in Nat : m = k + 1
      BY <1>1, <2>1
    <2>3. k \in 0 .. Len(s) /\ k \in 0 .. Len(t)
      BY <1>1, <2>1, <2>2
    <2>4. Nth(h, s, k) = Nth(h, t, k)
      <3>1. CASE k = 0
        BY <3>1, NthFacts
      <3>2. CASE k # 0
        <4>1. k \in 1 .. Len(s) /\ k \in 1 .. Len(t) /\ ~(m <= k)
          BY <1>1, <2>2, <2>3, <3>2
        <4>2. s[k] = t[k]
          BY <1>1, <1>3, <4>1
        <4> QED
          BY <4>1, <4>2, NthFacts
      <3> QED
        BY <3>1, <3>2
    <2>5. Nth(h, s, m) = Nth(h, t, m)
      BY <2>2, <2>3, <2>4 DEF Leads
    <2> QED
      BY <1>1, <2>1, <2>5, NthFacts
  <1> HIDE DEF Differ
  <1>4. Differ = {}
    BY <1>2, <1>3, OneIsLeast
  <1> QED
    BY <1>4 DEF Differ

\* They have the same length, for where one is back at the head the other is.
LEMMA NotLonger ==
  ASSUME NEW h \in Heads, NEW s \in Rows, NEW t \in Rows, Leads(h, s), Leads(h, t)
  PROVE  ~(Len(s) < Len(t))
  <1> SUFFICES ASSUME Len(s) < Len(t)
               PROVE  FALSE
    OBVIOUS
  <1>1. PICK n \in Nat : n = Len(s)
    BY RowFacts
  <1>2. Len(t) \in Nat /\ n \in 0 .. Len(t) /\ n + 1 \in 1 .. Len(t)
    BY <1>1, RowFacts
  <1>3. Nth(h, s, n) = Nth(h, t, n)
    <2>1. CASE n = 0
      BY <2>1, NthFacts
    <2>2. CASE n # 0
      <3>1. n \in 1 .. Len(s) /\ n \in 1 .. Len(t) /\ n <= Len(t)
        BY <1>1, <1>2, <2>2
      <3> QED
        BY <3>1, SameElements, NthFacts
    <2> QED
      BY <2>1, <2>2
  <1>4. forw[Nth(h, s, n)] = h
    <2>1. n \in 0 .. Len(s) /\ Nth(h, s, n + 1) = h
      BY <1>1, NthFacts
    <2> QED
      BY <2>1 DEF Leads
  <1>5. forw[Nth(h, t, n)] = t[n + 1] /\ t[n + 1] # h
    <2>1. Nth(h, t, n + 1) = t[n + 1] /\ t[n + 1] # h
      BY <1>2, NthFacts
    <2> QED
      BY <1>2, <2>1 DEF Leads
  <1> QED
    BY <1>3, <1>4, <1>5

\* So the row of a head is the one that is found, now and after a step.
LEMMA ForwardsIs == \A h \in Heads : \A s \in Rows : Leads(h, s) => Forwards(h) = s
  <1> SUFFICES ASSUME NEW h \in Heads, NEW s \in Rows, Leads(h, s)
               PROVE  Forwards(h) = s
    OBVIOUS
  <1>1. Forwards(h) \in Rows /\ Leads(h, Forwards(h))
    BY DEF Forwards
  <1>2. Len(Forwards(h)) = Len(s)
    BY <1>1, NotLonger, RowFacts
  <1>3. \A i \in 1 .. Len(s) : Forwards(h)[i] = s[i]
    BY <1>1, <1>2, SameElements, RowFacts
  <1> QED
    BY <1>1, <1>2, <1>3, RowFacts, SeqEqual

LEMMA ForwardsIsNext == (\A h \in Heads : \A s \in Rows : Leads(h, s) => Forwards(h) = s)'
  BY ForwardsIs, PTL

-----------------------------------------------------------------------------
\* An element put into a row, and an element taken out of it.

\* x at place k of s, before what is there.
Put(s, k, x) ==
  [j \in 1 .. Len(s) + 1 |-> IF j < k THEN s[j] ELSE IF j = k THEN x ELSE s[j - 1]]

\* s without its place k.
Cut(s, k) == [j \in 1 .. Len(s) - 1 |-> IF j < k THEN s[j] ELSE s[j + 1]]

LEMMA PutIsRow ==
  ASSUME NEW s \in Rows, NEW k \in 1 .. Len(s) + 1, NEW x \in Elements, ~InRow(s, x)
  PROVE  /\ Put(s, k, x) \in Rows /\ Len(Put(s, k, x)) = Len(s) + 1
         /\ \A j \in 1 .. Len(s) + 1 :
              Put(s, k, x)[j] = IF j < k THEN s[j] ELSE IF j = k THEN x ELSE s[j - 1]
         /\ \A y : InRow(Put(s, k, x), y) => InRow(s, y) \/ y = x
  <1> DEFINE t == Put(s, k, x)
  <1>1. PICK n \in Nat : n = Len(s)
    BY RowFacts
  <1>2. /\ \A i \in 1 .. n : s[i] \in Elements /\ s[i] # x
        /\ \A i, j \in 1 .. n : s[i] = s[j] => i = j
    BY <1>1, RowFacts DEF InRow
  <1>3. /\ t \in Seq(Elements) /\ Len(t) = n + 1
        /\ \A j \in 1 .. n + 1 : t[j] = IF j < k THEN s[j] ELSE IF j = k THEN x ELSE s[j - 1]
    BY <1>1, <1>2 DEF Put
  <1> HIDE DEF t
  <1>4. ASSUME NEW i \in 1 .. n + 1, NEW j \in 1 .. n + 1, t[i] = t[j]
        PROVE  i = j
    BY <1>1, <1>2, <1>3, <1>4
  <1>5. t \in Rows
    BY <1>3, <1>4, RowsAre
  <1>6. ASSUME NEW j \in 1 .. n + 1
        PROVE  InRow(s, t[j]) \/ t[j] = x
    BY <1>1, <1>3 DEF InRow
  <1>7. \A y : InRow(t, y) => InRow(s, y) \/ y = x
    BY <1>3, <1>6 DEF InRow
  <1> QED
    BY <1>1, <1>3, <1>5, <1>7 DEF t

LEMMA CutIsRow ==
  ASSUME NEW s \in Rows, NEW k \in 1 .. Len(s)
  PROVE  /\ Cut(s, k) \in Rows /\ Len(Cut(s, k)) = Len(s) - 1 /\ Len(s) - 1 \in Nat
         /\ \A j \in 1 .. Len(s) - 1 : Cut(s, k)[j] = IF j < k THEN s[j] ELSE s[j + 1]
         /\ \A y : InRow(Cut(s, k), y) => InRow(s, y) /\ y # s[k]
  <1> DEFINE t == Cut(s, k)
  <1>1. PICK n \in Nat : n = Len(s)
    BY RowFacts
  <1>2. /\ \A i \in 1 .. n : s[i] \in Elements
        /\ \A i, j \in 1 .. n : s[i] = s[j] => i = j
    BY <1>1, RowFacts
  <1>3. /\ t \in Seq(Elements) /\ Len(t) = n - 1 /\ n - 1 \in Nat
        /\ \A j \in 1 .. n - 1 : t[j] = IF j < k THEN s[j] ELSE s[j + 1]
    BY <1>1, <1>2 DEF Cut
  <1> HIDE DEF t
  <1>4. ASSUME NEW i \in 1 .. n - 1, NEW j \in 1 .. n - 1, t[i] = t[j]
        PROVE  i = j
    BY <1>1, <1>2, <1>3, <1>4
  <1>5. t \in Rows
    BY <1>3, <1>4, RowsAre
  <1>6. ASSUME NEW j \in 1 .. n - 1
        PROVE  InRow(s, t[j]) /\ t[j] # s[k]
    BY <1>1, <1>2, <1>3 DEF InRow
  <1>7. \A y : InRow(t, y) => InRow(s, y) /\ y # s[k]
    BY <1>3, <1>6 DEF InRow
  <1> QED
    BY <1>1, <1>3, <1>5, <1>7 DEF t

\* The circle with x in it.
LEMMA PutNth ==
  ASSUME NEW h \in Heads, NEW s \in Rows, NEW k \in 1 .. Len(s) + 1, NEW x \in Elements, ~InRow(s, x)
  PROVE  \A i \in 0 .. Len(s) + 2 :
           Nth(h, Put(s, k, x), i) = IF i < k THEN Nth(h, s, i)
                                     ELSE IF i = k THEN x ELSE Nth(h, s, i - 1)
  <1>1. PICK n \in Nat : n = Len(s)
    BY RowFacts
  <1>2. PICK t \in Rows : t = Put(s, k, x)
    BY PutIsRow
  <1>3. /\ Len(t) = n + 1 /\ k \in 1 .. n + 1
        /\ \A j \in 1 .. n + 1 : t[j] = IF j < k THEN s[j] ELSE IF j = k THEN x ELSE s[j - 1]
    BY <1>1, <1>2, PutIsRow
  <1>4. ASSUME NEW i \in 0 .. n + 2
        PROVE  Nth(h, t, i) = IF i < k THEN Nth(h, s, i) ELSE IF i = k THEN x ELSE Nth(h, s, i - 1)
    <2>1. CASE i = 0
      BY <1>1, <1>3, <2>1 DEF Nth
    <2>2. CASE i = n + 2
      BY <1>1, <1>3, <2>2 DEF Nth
    <2>3. CASE i \in 1 .. n + 1
      BY <1>1, <1>3, <2>3 DEF Nth
    <2> QED
      BY <2>1, <2>2, <2>3
  <1> QED
    BY <1>1, <1>2, <1>4

LEMMA CutNth ==
  ASSUME NEW h \in Heads, NEW s \in Rows, NEW k \in 1 .. Len(s)
  PROVE  \A i \in 0 .. Len(s) :
           Nth(h, Cut(s, k), i) = IF i < k THEN Nth(h, s, i) ELSE Nth(h, s, i + 1)
  <1>1. PICK n \in Nat : n = Len(s)
    BY RowFacts
  <1>2. PICK t \in Rows : t = Cut(s, k)
    BY CutIsRow
  <1>3. /\ Len(t) = n - 1 /\ k \in 1 .. n
        /\ \A j \in 1 .. n - 1 : t[j] = IF j < k THEN s[j] ELSE s[j + 1]
    BY <1>1, <1>2, CutIsRow
  <1>4. ASSUME NEW i \in 0 .. n
        PROVE  Nth(h, t, i) = IF i < k THEN Nth(h, s, i) ELSE Nth(h, s, i + 1)
    <2>1. CASE i = 0
      BY <1>1, <1>3, <2>1 DEF Nth
    <2>2. CASE i = n
      BY <1>1, <1>3, <2>2 DEF Nth
    <2>3. CASE i \in 1 .. n - 1
      BY <1>1, <1>3, <2>3 DEF Nth
    <2> QED
      BY <2>1, <2>2, <2>3
  <1> QED
    BY <1>1, <1>2, <1>4

-----------------------------------------------------------------------------
\* What a step makes of the circles.

\* The pointers of every node of h's circle stay.
LEMMA RingStays ==
  ASSUME NEW h \in Heads, NEW s \in Rows, Ring(h, s), ents'[h] = ents[h],
         \A i \in 0 .. Len(s) + 1 : /\ forw'[Nth(h, s, i)] = forw[Nth(h, s, i)]
                                    /\ back'[Nth(h, s, i)] = back[Nth(h, s, i)]
  PROVE  Ring(h, s)'
  <1>1. Len(s) \in Nat
    BY RowFacts
  <1>2. ASSUME NEW i \in 0 .. Len(s)
        PROVE  /\ forw'[Nth(h, s, i)] = Nth(h, s, i + 1)
               /\ back'[Nth(h, s, i + 1)] = Nth(h, s, i)
    <2>1. i \in 0 .. Len(s) + 1 /\ i + 1 \in 0 .. Len(s) + 1
      BY <1>1
    <2> QED
      BY <2>1 DEF Ring, Leads, LedBack
  <1> QED
    BY <1>2 DEF Ring, Leads, LedBack, Nth

\* listinsert's four assignments put e2 into the circle, before place k.
LEMMA JoinedRing ==
  ASSUME PointersOK, NEW h \in Heads, NEW s \in Rows, Ring(h, s), NEW k \in 1 .. Len(s) + 1,
         NEW e2 \in Elements, ~InRow(s, e2), Joined(h, Nth(h, s, k), e2)
  PROVE  /\ Ring(h, Put(s, k, e2))' /\ PointersOK'
         /\ ents' = [ents EXCEPT ![h] = Len(s) + 1]
         /\ \A x \in Nodes : x # h /\ x # e2 /\ ~InRow(s, x) =>
              forw'[x] = forw[x] /\ back'[x] = back[x]
  <1>1. PICK n \in Nat : n = Len(s)
    BY RowFacts
  <1>2. PICK e \in Nodes : e = Nth(h, s, k)
    BY NthFacts
  <1>3. PICK b \in Nodes : b = Nth(h, s, k - 1) /\ back[e] = b
    <2>1. k - 1 \in 0 .. Len(s) /\ k - 1 \in 0 .. Len(s) + 1 /\ (k - 1) + 1 = k
      BY <1>1
    <2>2. back[Nth(h, s, k)] = Nth(h, s, k - 1)
      BY <2>1 DEF Ring, LedBack
    <2>3. Nth(h, s, k - 1) \in Nodes
      BY <2>1, NthFacts
    <2> QED
      BY <1>2, <2>2, <2>3
  <1>4. e2 \in Nodes /\ e2 # h /\ e # e2 /\ b # e2
    <2>1. k - 1 \in 0 .. Len(s) + 1 /\ k \in 0 .. Len(s) + 1
      BY <1>1
    <2>2. e2 # h /\ e2 \in Nodes
      BY DListAssumption DEF Nodes
    <2> QED
      BY <1>2, <1>3, <2>1, <2>2, NthFacts
  <1>5. /\ \A x \in Nodes : forw'[x] = IF x = e2 THEN e ELSE IF x = b THEN e2 ELSE forw[x]
        /\ \A x \in Nodes : back'[x] = IF x = e2 THEN b ELSE IF x = e THEN e2 ELSE back[x]
    <2>1. /\ forw' = [forw EXCEPT ![b] = e2, ![e2] = e]
          /\ back' = [back EXCEPT ![e2] = b, ![e] = e2]
      BY <1>2, <1>3 DEF Joined
    <2> QED
      BY <1>4, <2>1 DEF PointersOK
  <1>6. ents' = [ents EXCEPT ![h] = n + 1]
    BY <1>1 DEF Joined, Ring
  <1>7. PointersOK'
    <2>1. /\ forw' \in [Nodes -> Nodes \cup {null, wild}]
          /\ back' \in [Nodes -> Nodes \cup {null, wild}]
      BY <1>2, <1>3, <1>4 DEF PointersOK, Joined
    <2>2. ents' \in [Heads -> Nat \cup {wild}]
      BY <1>6 DEF PointersOK
    <2> QED
      BY <2>1, <2>2 DEF PointersOK, Nodes
  <1>8. PICK t \in Rows : t = Put(s, k, e2) /\ Len(t) = n + 1
    BY <1>1, PutIsRow
  <1>9. \A i \in 0 .. n + 2 :
          Nth(h, t, i) = IF i < k THEN Nth(h, s, i) ELSE IF i = k THEN e2 ELSE Nth(h, s, i - 1)
    BY <1>1, <1>8, PutNth
  <1>10. /\ \A i \in 0 .. n + 1 : Nth(h, s, i) \in Nodes /\ Nth(h, s, i) # e2
         /\ \A i \in 0 .. n : Nth(h, s, i) = b => i = k - 1
         /\ \A i \in 1 .. n + 1 : Nth(h, s, i) = e => i = k
         /\ \A i \in 0 .. n : forw[Nth(h, s, i)] = Nth(h, s, i + 1)
         /\ \A i \in 0 .. n : back[Nth(h, s, i + 1)] = Nth(h, s, i)
    <2>1. \A i \in 0 .. n + 1 : Nth(h, s, i) \in Nodes /\ Nth(h, s, i) # e2
      BY <1>1, <1>4, NthFacts
    <2>2. \A i \in 0 .. n : Nth(h, s, i) = b => i = k - 1
      <3>1. k - 1 \in 0 .. n
        BY <1>1
      <3> QED
        BY <1>1, <1>3, <3>1, NthFacts
    <2>3. \A i \in 1 .. n + 1 : Nth(h, s, i) = e => i = k
      BY <1>1, <1>2, NthFacts
    <2>4. /\ \A i \in 0 .. n : forw[Nth(h, s, i)] = Nth(h, s, i + 1)
          /\ \A i \in 0 .. n : back[Nth(h, s, i + 1)] = Nth(h, s, i)
      BY <1>1 DEF Ring, Leads, LedBack
    <2> QED
      BY <2>1, <2>2, <2>3, <2>4
  <1>11. ASSUME NEW i \in 0 .. n + 1
         PROVE  forw'[Nth(h, t, i)] = Nth(h, t, i + 1) /\ back'[Nth(h, t, i + 1)] = Nth(h, t, i)
    <2>1. CASE i < k - 1
      <3>1. /\ Nth(h, t, i) = Nth(h, s, i) /\ Nth(h, t, i + 1) = Nth(h, s, i + 1)
            /\ i \in 0 .. n /\ i + 1 \in 1 .. n + 1 /\ i # k - 1 /\ i + 1 # k
            /\ i \in 0 .. n + 1 /\ i + 1 \in 0 .. n + 1
        BY <1>1, <1>9, <2>1
      <3>2. Nth(h, s, i) # b /\ Nth(h, s, i + 1) # e
        BY <1>10, <3>1
      <3> QED
        BY <1>5, <1>10, <3>1, <3>2
    <2>2. CASE i = k - 1
      <3>1. Nth(h, t, i) = b /\ Nth(h, t, i + 1) = e2
        BY <1>1, <1>3, <1>9, <2>2
      <3> QED
        BY <1>4, <1>5, <3>1
    <2>3. CASE i = k
      <3>1. Nth(h, t, i) = e2 /\ Nth(h, t, i + 1) = e
        BY <1>1, <1>2, <1>9, <2>3
      <3> QED
        BY <1>4, <1>5, <3>1
    <2>4. CASE i > k
      <3>1. PICK j \in 1 .. n : i = j + 1
        BY <1>1, <2>4
      <3>2. /\ Nth(h, t, i) = Nth(h, s, j) /\ Nth(h, t, i + 1) = Nth(h, s, j + 1)
            /\ j \in 0 .. n /\ j + 1 \in 1 .. n + 1 /\ j # k - 1 /\ j + 1 # k
            /\ j \in 0 .. n + 1 /\ j + 1 \in 0 .. n + 1
        BY <1>1, <1>9, <2>4, <3>1
      <3>3. Nth(h, s, j) # b /\ Nth(h, s, j + 1) # e
        BY <1>10, <3>2
      <3> QED
        BY <1>5, <1>10, <3>2, <3>3
    <2> QED
      BY <1>1, <2>1, <2>2, <2>3, <2>4
  <1>12. Ring(h, t)'
    <2>1. ents'[h] = Len(t)
      BY <1>6, <1>8 DEF PointersOK
    <2> QED
      BY <1>8, <1>11, <2>1 DEF Ring, Leads, LedBack, Nth
  <1>13. ASSUME NEW x \in Nodes, x # h, x # e2, ~InRow(s, x)
         PROVE  forw'[x] = forw[x] /\ back'[x] = back[x]
    <2>1. x # e /\ x # b
      <3>1. k - 1 \in 0 .. Len(s) + 1 /\ k \in 0 .. Len(s) + 1
        BY <1>1
      <3> QED
        BY <1>2, <1>3, <1>13, <3>1, NthFacts
    <2> QED
      BY <1>5, <1>13, <2>1
  <1> QED
    BY <1>1, <1>6, <1>7, <1>8, <1>12, <1>13

\* listrm's assignments, whatever becomes of the pointers of the element taken.
ClosedAround(h, e) ==
  /\ ents' = [ents EXCEPT ![h] = @ - 1]
  /\ \A x \in Nodes : x # e => /\ forw'[x] = IF x = back[e] THEN forw[e] ELSE forw[x]
                               /\ back'[x] = IF x = forw[e] THEN back[e] ELSE back[x]

\* They close the circle around place k.
LEMMA TakenRing ==
  ASSUME PointersOK, NEW h \in Heads, NEW s \in Rows, Ring(h, s), NEW k \in 1 .. Len(s),
         NEW e, e = s[k], ClosedAround(h, e)
  PROVE  /\ Ring(h, Cut(s, k))'
         /\ ents' = [ents EXCEPT ![h] = Len(s) - 1]
         /\ forw[e] \in Nodes /\ back[e] \in Nodes
         /\ \A x \in Nodes : x # h /\ ~InRow(s, x) => forw'[x] = forw[x] /\ back'[x] = back[x]
  <1>1. PICK n \in Nat : n = Len(s)
    BY RowFacts
  <1>2. e = Nth(h, s, k) /\ e \in Nodes /\ InRow(s, e)
    BY <1>1, RowFacts, NthFacts DEF InRow, Nodes
  <1>3. /\ \A i \in 0 .. n + 1 : Nth(h, s, i) \in Nodes
        /\ \A i \in 0 .. n + 1 : Nth(h, s, i) = h \/ InRow(s, Nth(h, s, i))
        /\ \A i \in 0 .. n : forw[Nth(h, s, i)] = Nth(h, s, i + 1)
        /\ \A i \in 0 .. n : back[Nth(h, s, i + 1)] = Nth(h, s, i)
        /\ \A i, j \in 0 .. n : Nth(h, s, i) = Nth(h, s, j) => i = j
        /\ \A i, j \in 1 .. n + 1 : Nth(h, s, i) = Nth(h, s, j) => i = j
    <2>1. /\ \A i \in 0 .. n : forw[Nth(h, s, i)] = Nth(h, s, i + 1)
          /\ \A i \in 0 .. n : back[Nth(h, s, i + 1)] = Nth(h, s, i)
      BY <1>1 DEF Ring, Leads, LedBack
    <2>2. /\ \A i \in 0 .. n + 1 : Nth(h, s, i) \in Nodes
          /\ \A i \in 0 .. n + 1 : Nth(h, s, i) = h \/ InRow(s, Nth(h, s, i))
      BY <1>1, NthFacts
    <2>3. /\ \A i, j \in 0 .. n : Nth(h, s, i) = Nth(h, s, j) => i = j
          /\ \A i, j \in 1 .. n + 1 : Nth(h, s, i) = Nth(h, s, j) => i = j
      BY <1>1, NthFacts
    <2> QED
      BY <2>1, <2>2, <2>3
  <1>4. /\ forw[e] = Nth(h, s, k + 1) /\ back[e] = Nth(h, s, k - 1)
        /\ k - 1 \in 0 .. n + 1 /\ k + 1 \in 0 .. n + 1 /\ k - 1 \in 0 .. n /\ k + 1 \in 1 .. n + 1
        /\ k \in 0 .. n /\ k \in 1 .. n + 1
    <2>1. k \in 0 .. n /\ k - 1 \in 0 .. n /\ (k - 1) + 1 = k
      BY <1>1
    <2>2. forw[e] = Nth(h, s, k + 1) /\ back[e] = Nth(h, s, k - 1)
      BY <1>2, <1>3, <2>1
    <2> QED
      BY <1>1, <2>2
  <1>5. forw[e] \in Nodes /\ back[e] \in Nodes
    BY <1>3, <1>4
  <1>6. PICK t \in Rows : t = Cut(s, k) /\ Len(t) = n - 1 /\ n - 1 \in Nat
    BY <1>1, CutIsRow
  <1>7. \A i \in 0 .. n : Nth(h, t, i) = IF i < k THEN Nth(h, s, i) ELSE Nth(h, s, i + 1)
    BY <1>1, <1>6, CutNth
  <1>8. ASSUME NEW i \in 0 .. n - 1
        PROVE  forw'[Nth(h, t, i)] = Nth(h, t, i + 1) /\ back'[Nth(h, t, i + 1)] = Nth(h, t, i)
    <2>1. CASE i < k - 1
      <3>1. /\ Nth(h, t, i) = Nth(h, s, i) /\ Nth(h, t, i + 1) = Nth(h, s, i + 1)
            /\ i \in 0 .. n /\ i + 1 \in 1 .. n + 1 /\ i # k - 1 /\ i # k /\ i + 1 # k /\ i + 1 # k + 1
            /\ i \in 0 .. n + 1 /\ i + 1 \in 0 .. n + 1
        BY <1>1, <1>7, <2>1
      <3>2. /\ Nth(h, s, i) # back[e] /\ Nth(h, s, i) # e
            /\ Nth(h, s, i + 1) # forw[e] /\ Nth(h, s, i + 1) # e
        BY <1>2, <1>3, <1>4, <3>1
      <3> QED
        BY <1>3, <3>1, <3>2 DEF ClosedAround
    <2>2. CASE i = k - 1
      <3>1. Nth(h, t, i) = back[e] /\ Nth(h, t, i + 1) = forw[e]
        BY <1>1, <1>4, <1>7, <2>2
      <3>2. k - 1 # k /\ k + 1 # k
        BY <1>1
      <3>3. back[e] # e /\ forw[e] # e
        BY <1>2, <1>3, <1>4, <3>2
      <3> QED
        BY <1>5, <3>1, <3>3 DEF ClosedAround
    <2>3. CASE i > k - 1
      <3>1. PICK j \in 1 .. n : j = i + 1
        BY <1>1, <2>3
      <3>2. /\ Nth(h, t, i) = Nth(h, s, j) /\ Nth(h, t, i + 1) = Nth(h, s, j + 1)
            /\ j \in 0 .. n /\ j + 1 \in 1 .. n + 1 /\ j # k - 1 /\ j # k /\ j + 1 # k /\ j + 1 # k + 1
            /\ j \in 0 .. n + 1 /\ j + 1 \in 0 .. n + 1
        BY <1>1, <1>7, <2>3, <3>1
      <3>3. /\ Nth(h, s, j) # back[e] /\ Nth(h, s, j) # e
            /\ Nth(h, s, j + 1) # forw[e] /\ Nth(h, s, j + 1) # e
        BY <1>2, <1>3, <1>4, <3>2
      <3> QED
        BY <1>3, <3>2, <3>3 DEF ClosedAround
    <2> QED
      BY <1>1, <2>1, <2>2, <2>3
  <1>9. ents' = [ents EXCEPT ![h] = n - 1]
    BY <1>1 DEF Ring, ClosedAround
  <1>10. Ring(h, t)'
    <2>1. ents'[h] = Len(t)
      BY <1>6, <1>9 DEF PointersOK
    <2> QED
      BY <1>6, <1>8, <2>1 DEF Ring, Leads, LedBack, Nth
  <1>11. ASSUME NEW x \in Nodes, x # h, ~InRow(s, x)
         PROVE  forw'[x] = forw[x] /\ back'[x] = back[x]
    <2>1. x # e /\ x # forw[e] /\ x # back[e]
      BY <1>2, <1>3, <1>4, <1>11
    <2> QED
      BY <1>11, <2>1 DEF ClosedAround
  <1> QED
    BY <1>1, <1>5, <1>6, <1>9, <1>10, <1>11

-----------------------------------------------------------------------------
\* What a step on one list makes of the others: nothing.

\* The lists but that of h stay.
OthersAs(h) ==
  /\ \A g \in Heads : g # h => (g \in Lists' <=> g \in Lists)
  /\ \A g \in Lists : g # h => Forwards(g)' = Forwards(g)

\* A step writes at no node of another list than h's.
Spares(h) ==
  /\ \A g \in Heads : g # h => ents'[g] = ents[g]
  /\ \A g \in Lists : g # h =>
       \A x : x = g \/ InRow(Forwards(g), x) => forw'[x] = forw[x] /\ back'[x] = back[x]

LEMMA OthersStay ==
  ASSUME DListInv, NEW h \in Heads, Spares(h)
  PROVE  /\ OthersAs(h)
         /\ \A g \in Lists : g # h => \E s \in Rows : s = Forwards(g) /\ Forwards(g)' = s /\ Ring(g, s)'
  <1>1. \A g \in Heads : g # h => (g \in Lists' <=> g \in Lists)
    BY DEF Spares, Lists
  <1>2. ASSUME NEW g \in Lists, g # h
        PROVE  \E s \in Rows : s = Forwards(g) /\ Forwards(g)' = s /\ Ring(g, s)'
    <2>1. PICK s \in Rows : s = Forwards(g) /\ Ring(g, s)
      BY DEF DListInv, RingsOK
    <2>2. g \in Heads /\ ents'[g] = ents[g]
      BY <1>2 DEF Spares, Lists
    <2>3. ASSUME NEW i \in 0 .. Len(s) + 1
          PROVE  /\ forw'[Nth(g, s, i)] = forw[Nth(g, s, i)]
                 /\ back'[Nth(g, s, i)] = back[Nth(g, s, i)]
      BY <1>2, <2>1, <2>2, NthFacts DEF Spares
    <2>4. Ring(g, s)'
      BY <2>1, <2>2, <2>3, RingStays
    <2>5. Forwards(g)' = s
      BY <2>2, <2>4, ForwardsIsNext DEF Ring
    <2> QED
      BY <2>1, <2>4, <2>5
  <1>3. \A g \in Lists : g # h => Forwards(g)' = Forwards(g)
    BY <1>2
  <1> QED
    BY <1>1, <1>2, <1>3 DEF OthersAs

\* And it leaves h with the row t, or without a list.
LEMMA BecomesRow ==
  ASSUME DListInv, NEW h \in Heads, Spares(h), NEW t \in Rows, Ring(h, t)', ents'[h] = Len(t),
         \A g \in Lists : g # h => \A x : InRow(t, x) => ~InRow(Forwards(g), x)
  PROVE  /\ h \in Lists' /\ Forwards(h)' = t /\ OthersAs(h)
         /\ RingsOK' /\ Apart'
  <1>1. h \in Lists'
    BY RowFacts, DListAssumption DEF Lists
  <1>2. Forwards(h)' = t
    BY ForwardsIsNext DEF Ring
  <1>3. OthersAs(h) /\ \A g \in Lists' : g \in Heads /\ (g # h => g \in Lists)
    BY OthersStay DEF OthersAs, Lists
  <1>4. ASSUME NEW g \in Lists'
        PROVE  \E s \in Rows : Forwards(g)' = s /\ Ring(g, s)'
    BY <1>2, <1>3, <1>4, OthersStay
  <1>5. RingsOK'
    BY <1>4 DEF RingsOK
  <1>6. ASSUME NEW f \in Lists', NEW g \in Lists', f # g, NEW x,
               InRow(Forwards(f)', x), InRow(Forwards(g)', x)
        PROVE  FALSE
    <2>1. CASE f = h
      BY <1>2, <1>3, <1>6, <2>1 DEF OthersAs
    <2>2. CASE g = h
      BY <1>2, <1>3, <1>6, <2>2 DEF OthersAs
    <2>3. CASE f # h /\ g # h
      BY <1>3, <1>6, <2>3 DEF OthersAs, DListInv, Apart
    <2> QED
      BY <2>1, <2>2, <2>3
  <1>7. Apart'
    BY <1>6 DEF Apart, InRow
  <1> QED
    BY <1>1, <1>2, <1>3, <1>5, <1>7

LEMMA BecomesNone ==
  ASSUME DListInv, NEW h \in Heads, Spares(h), ents'[h] = wild
  PROVE  h \notin Lists' /\ OthersAs(h) /\ RingsOK' /\ Apart'
  <1>1. h \notin Lists'
    BY DEF Lists
  <1>2. OthersAs(h) /\ \A g \in Lists' : g \in Heads /\ g # h /\ g \in Lists
    BY <1>1, OthersStay DEF OthersAs, Lists
  <1>3. ASSUME NEW g \in Lists'
        PROVE  \E s \in Rows : Forwards(g)' = s /\ Ring(g, s)'
    BY <1>2, <1>3, OthersStay
  <1>4. RingsOK'
    BY <1>3 DEF RingsOK
  <1>5. ASSUME NEW f \in Lists', NEW g \in Lists', f # g, NEW x,
               InRow(Forwards(f)', x), InRow(Forwards(g)', x)
        PROVE  FALSE
    BY <1>2, <1>5 DEF OthersAs, DListInv, Apart
  <1>6. Apart'
    BY <1>5 DEF Apart, InRow
  <1> QED
    BY <1>1, <1>2, <1>4, <1>6

\* A node of another list is neither the head nor in the row of this one.
LEMMA OtherNodes ==
  ASSUME DListInv, NEW h \in Lists, NEW g \in Lists, g # h,
         NEW x, x = g \/ InRow(Forwards(g), x)
  PROVE  x \in Nodes /\ x # h /\ ~InRow(Forwards(h), x) /\ (x \in Elements => InRow(Forwards(g), x))
  <1>1. PICK s \in Rows, r \in Rows : s = Forwards(g) /\ r = Forwards(h)
    BY DEF DListInv, RingsOK
  <1>2. g \in Heads /\ h \in Heads
    BY DEF Lists
  <1>3. /\ \A i \in 1 .. Len(s) : s[i] \in Elements /\ s[i] \notin Heads
        /\ \A i \in 1 .. Len(r) : r[i] \in Elements /\ r[i] \notin Heads
    BY RowFacts
  <1>4. CASE x = g
    BY <1>1, <1>2, <1>3, <1>4, DListAssumption DEF InRow, Nodes
  <1>5. CASE InRow(Forwards(g), x)
    <2>1. ~InRow(Forwards(h), x)
      BY <1>5 DEF DListInv, Apart
    <2> QED
      BY <1>1, <1>2, <1>3, <1>5, <2>1 DEF InRow, Nodes
  <1> QED
    BY <1>4, <1>5

LEMMA OnIs == \A h : \A e : e \in On(h) <=> InRow(Forwards(h), e)
  BY DEF On, InRow

-----------------------------------------------------------------------------
\* What the assignments of listinsert and listrm make of all the lists.

LEMMA PutStep ==
  ASSUME DListInv, NEW h \in Lists, NEW s, s = Forwards(h), NEW k \in 1 .. Len(s) + 1,
         NEW e2 \in Elements, OnNone(e2), Joined(h, Nth(h, s, k), e2)
  PROVE  /\ PointersOK' /\ RingsOK' /\ Apart'
         /\ Lists' = Lists /\ Forwards(h)' = Put(s, k, e2) /\ OthersAs(h)
  <1>1. s \in Rows /\ Ring(h, s) /\ PointersOK /\ h \in Heads
    BY DEF DListInv, RingsOK, Lists
  <1>2. \A g \in Lists : ~InRow(Forwards(g), e2)
    BY OnIs DEF OnNone
  <1>3. PICK t \in Rows : t = Put(s, k, e2)
    BY <1>1, <1>2, PutIsRow
  <1>4. Len(t) = Len(s) + 1 /\ \A y : InRow(t, y) => InRow(s, y) \/ y = e2
    BY <1>1, <1>2, <1>3, PutIsRow
  <1>5. /\ Ring(h, Put(s, k, e2))' /\ PointersOK'
        /\ ents' = [ents EXCEPT ![h] = Len(s) + 1]
        /\ \A x \in Nodes : x # h /\ x # e2 /\ ~InRow(s, x) =>
             forw'[x] = forw[x] /\ back'[x] = back[x]
    BY <1>1, <1>2, JoinedRing
  <1>6. Ring(h, t)' /\ ents'[h] = Len(t)
    BY <1>1, <1>3, <1>4, <1>5 DEF PointersOK
  <1>7. Spares(h)
    <2>1. \A g \in Heads : g # h => ents'[g] = ents[g]
      BY <1>1, <1>5 DEF PointersOK
    <2>2. ASSUME NEW g \in Lists, g # h, NEW x, x = g \/ InRow(Forwards(g), x)
          PROVE  forw'[x] = forw[x] /\ back'[x] = back[x]
      BY <1>2, <1>5, <2>2, OtherNodes
    <2> QED
      BY <2>1, <2>2 DEF Spares
  <1>8. \A g \in Lists : g # h => \A x : InRow(t, x) => ~InRow(Forwards(g), x)
    BY <1>2, <1>4 DEF DListInv, Apart
  <1>9. h \in Lists' /\ Forwards(h)' = t /\ OthersAs(h) /\ RingsOK' /\ Apart'
    BY <1>1, <1>6, <1>7, <1>8, BecomesRow
  <1>10. Lists' = Lists
    BY <1>9 DEF OthersAs, Lists
  <1> QED
    BY <1>3, <1>5, <1>9, <1>10

LEMMA CutStep ==
  ASSUME DListInv, NEW h \in Lists, NEW s, s = Forwards(h), NEW k \in 1 .. Len(s),
         NEW e, e = s[k], ClosedAround(h, e)
  PROVE  /\ RingsOK' /\ Apart' /\ ents' \in [Heads -> Nat \cup {wild}]
         /\ e \in Elements /\ forw[e] \in Nodes /\ back[e] \in Nodes
         /\ Lists' = Lists /\ Forwards(h)' = Cut(s, k) /\ OthersAs(h)
  <1>1. s \in Rows /\ Ring(h, s) /\ PointersOK /\ h \in Heads
    BY DEF DListInv, RingsOK, Lists
  <1>2. PICK t \in Rows : t = Cut(s, k)
    BY <1>1, CutIsRow
  <1>3. Len(t) = Len(s) - 1 /\ Len(s) - 1 \in Nat /\ \A y : InRow(t, y) => InRow(s, y)
    BY <1>1, <1>2, CutIsRow
  <1>4. /\ Ring(h, Cut(s, k))'
        /\ ents' = [ents EXCEPT ![h] = Len(s) - 1]
        /\ forw[e] \in Nodes /\ back[e] \in Nodes
        /\ \A x \in Nodes : x # h /\ ~InRow(s, x) => forw'[x] = forw[x] /\ back'[x] = back[x]
    BY <1>1, TakenRing
  <1>5. Ring(h, t)' /\ ents'[h] = Len(t)
    BY <1>1, <1>2, <1>3, <1>4 DEF PointersOK
  <1>6. ents' \in [Heads -> Nat \cup {wild}] /\ e \in Elements
    BY <1>1, <1>3, <1>4, RowFacts DEF PointersOK
  <1>7. Spares(h)
    <2>1. \A g \in Heads : g # h => ents'[g] = ents[g]
      BY <1>1, <1>4 DEF PointersOK
    <2>2. ASSUME NEW g \in Lists, g # h, NEW x, x = g \/ InRow(Forwards(g), x)
          PROVE  forw'[x] = forw[x] /\ back'[x] = back[x]
      BY <1>4, <2>2, OtherNodes
    <2> QED
      BY <2>1, <2>2 DEF Spares
  <1>8. \A g \in Lists : g # h => \A x : InRow(t, x) => ~InRow(Forwards(g), x)
    BY <1>3 DEF DListInv, Apart
  <1>9. h \in Lists' /\ Forwards(h)' = t /\ OthersAs(h) /\ RingsOK' /\ Apart'
    BY <1>1, <1>5, <1>7, <1>8, BecomesRow
  <1>10. Lists' = Lists
    BY <1>9 DEF OthersAs, Lists
  <1> QED
    BY <1>2, <1>4, <1>6, <1>9, <1>10

LEMMA TakenStep ==
  ASSUME DListInv, NEW h \in Lists, NEW s, s = Forwards(h), NEW k \in 1 .. Len(s),
         NEW e, e = s[k], Taken(h, e)
  PROVE  /\ PointersOK' /\ RingsOK' /\ Apart'
         /\ Lists' = Lists /\ Forwards(h)' = Cut(s, k) /\ OthersAs(h)
  <1>1. PointersOK
    BY DEF DListInv
  <1>2. ClosedAround(h, e)
    BY <1>1 DEF Taken, PointersOK, ClosedAround
  <1>3. /\ RingsOK' /\ Apart' /\ ents' \in [Heads -> Nat \cup {wild}]
        /\ forw[e] \in Nodes /\ back[e] \in Nodes
        /\ Lists' = Lists /\ Forwards(h)' = Cut(s, k) /\ OthersAs(h)
    BY <1>2, CutStep
  <1>4. /\ forw' \in [Nodes -> Nodes \cup {null, wild}]
        /\ back' \in [Nodes -> Nodes \cup {null, wild}]
    BY <1>1, <1>3 DEF Taken, PointersOK
  <1> QED
    BY <1>3, <1>4 DEF PointersOK, Nodes

-----------------------------------------------------------------------------
\* The rows as the sequences that Deques makes.

LEMMA PutLast ==
  ASSUME NEW s \in Rows, NEW x \in Elements, ~InRow(s, x)
  PROVE  Put(s, Len(s) + 1, x) = Append(s, x)
  <1>1. s \in Seq(Elements) /\ Len(s) \in Nat /\ Len(s) + 1 \in 1 .. Len(s) + 1
    BY RowFacts
  <1>2. PICK n \in Nat, t \in Rows : n = Len(s) /\ t = Put(s, Len(s) + 1, x)
    BY <1>1, PutIsRow
  <1>3. /\ t \in Seq(Elements) /\ Len(t) = n + 1
        /\ \A j \in 1 .. n + 1 : t[j] = IF j < n + 1 THEN s[j] ELSE IF j = n + 1 THEN x ELSE s[j - 1]
    BY <1>1, <1>2, PutIsRow, RowFacts
  <1>4. PICK a \in Seq(Elements) : a = Append(s, x)
    BY <1>1, AppendProperties
  <1>5. Len(a) = n + 1 /\ a[n + 1] = x /\ \A j \in 1 .. n : a[j] = s[j]
    BY <1>1, <1>2, <1>4, AppendProperties
  <1>6. \A j \in 1 .. n + 1 : t[j] = a[j]
    BY <1>3, <1>5
  <1> QED
    BY <1>2, <1>3, <1>4, <1>5, <1>6, SeqEqual

LEMMA PutFirst ==
  ASSUME NEW s \in Rows, NEW x \in Elements, ~InRow(s, x)
  PROVE  Put(s, 1, x) = <<x>> \o s
  <1>1. s \in Seq(Elements) /\ Len(s) \in Nat /\ 1 \in 1 .. Len(s) + 1
    BY RowFacts
  <1>2. PICK n \in Nat, t \in Rows : n = Len(s) /\ t = Put(s, 1, x)
    BY <1>1, PutIsRow
  <1>3. /\ t \in Seq(Elements) /\ Len(t) = n + 1
        /\ \A j \in 1 .. n + 1 : t[j] = IF j < 1 THEN s[j] ELSE IF j = 1 THEN x ELSE s[j - 1]
    BY <1>1, <1>2, PutIsRow, RowFacts
  <1>4. <<x>> \in Seq(Elements) /\ Len(<<x>>) = 1 /\ <<x>>[1] = x
    OBVIOUS
  <1>5. PICK a \in Seq(Elements) : a = <<x>> \o s
    BY <1>1, <1>4, ConcatProperties
  <1>6. Len(a) = n + 1 /\ \A j \in 1 .. n + 1 : a[j] = IF j <= 1 THEN <<x>>[j] ELSE s[j - 1]
    BY <1>1, <1>2, <1>4, <1>5, ConcatProperties
  <1>7. \A j \in 1 .. n + 1 : t[j] = a[j]
    BY <1>3, <1>4, <1>6
  <1> QED
    BY <1>2, <1>3, <1>5, <1>6, <1>7, SeqEqual

\* A part of a row.
LEMMA PartIs ==
  ASSUME NEW s \in Rows, NEW i \in 1 .. Len(s) + 1, NEW j \in 0 .. Len(s), i <= j + 1
  PROVE  /\ SubSeq(s, i, j) \in Seq(Elements) /\ Len(SubSeq(s, i, j)) = j - i + 1
         /\ \A l \in 1 .. j - i + 1 : SubSeq(s, i, j)[l] = s[i + l - 1]
  <1>1. s \in Seq(Elements) /\ Len(s) \in Nat /\ \A l \in 1 .. Len(s) : s[l] \in Elements
    BY RowFacts
  <1>2. PICK m \in Nat : m = j - i + 1
    BY <1>1
  <1>3. SubSeq(s, i, j) = [l \in 1 .. m |-> s[i + l - 1]]
    BY <1>1, <1>2
  <1>4. \A l \in 1 .. m : i + l - 1 \in 1 .. Len(s)
    BY <1>1, <1>2
  <1> QED
    BY <1>1, <1>2, <1>3, <1>4

\* What is before place k.
LEMMA FirstPart ==
  ASSUME NEW s \in Rows, NEW k \in 1 .. Len(s) + 1
  PROVE  /\ SubSeq(s, 1, k - 1) \in Seq(Elements) /\ Len(SubSeq(s, 1, k - 1)) = k - 1
         /\ \A l \in 1 .. k - 1 : SubSeq(s, 1, k - 1)[l] = s[l]
  <1>1. s \in Seq(Elements) /\ Len(s) \in Nat /\ \A l \in 1 .. Len(s) : s[l] \in Elements
    BY RowFacts
  <1>2. PICK m \in Nat : m = k - 1
    BY <1>1
  <1>3. SubSeq(s, 1, m) = [l \in 1 .. m |-> s[l]]
    BY <1>1, <1>2
  <1>4. \A l \in 1 .. m : l \in 1 .. Len(s)
    BY <1>1, <1>2
  <1> QED
    BY <1>1, <1>2, <1>3, <1>4

LEMMA PutMiddle ==
  ASSUME NEW s \in Rows, NEW k \in 1 .. Len(s) + 1, NEW x \in Elements, ~InRow(s, x)
  PROVE  Put(s, k, x) = SubSeq(s, 1, k - 1) \o <<x>> \o SubSeq(s, k, Len(s))
  <1>1. PICK n \in Nat, t \in Rows : n = Len(s) /\ t = Put(s, k, x)
    BY PutIsRow, RowFacts
  <1>2. /\ t \in Seq(Elements) /\ Len(t) = n + 1
        /\ \A j \in 1 .. n + 1 : t[j] = IF j < k THEN s[j] ELSE IF j = k THEN x ELSE s[j - 1]
    BY <1>1, PutIsRow, RowFacts
  <1>3. PICK a \in Seq(Elements) :
          a = SubSeq(s, 1, k - 1) /\ Len(a) = k - 1 /\ \A j \in 1 .. k - 1 : a[j] = s[j]
    BY <1>1, FirstPart
  <1>4. n \in 0 .. Len(s) /\ k <= n + 1
    BY <1>1
  <1>5. PICK b \in Seq(Elements) : b = SubSeq(s, k, n)
    BY <1>4, PartIs
  <1>6. Len(b) = n - k + 1 /\ \A j \in 1 .. n - k + 1 : b[j] = s[k + j - 1]
    BY <1>4, <1>5, PartIs
  <1>7. <<x>> \in Seq(Elements) /\ Len(<<x>>) = 1 /\ <<x>>[1] = x
    OBVIOUS
  <1>8. PICK c \in Seq(Elements) : c = a \o <<x>>
    BY <1>7, ConcatProperties
  <1>9. Len(c) = k /\ c[k] = x /\ \A j \in 1 .. k - 1 : c[j] = s[j]
    <2>1. /\ Len(c) = k
          /\ \A j \in 1 .. k : c[j] = IF j <= k - 1 THEN a[j] ELSE <<x>>[j - (k - 1)]
      BY <1>1, <1>3, <1>7, <1>8, ConcatProperties
    <2>2. k \in 1 .. k /\ ~(k <= k - 1) /\ k - (k - 1) = 1
      BY <1>1
    <2> QED
      BY <1>1, <1>3, <1>7, <2>1, <2>2
  <1>10. PICK d \in Seq(Elements) : d = c \o b
    BY ConcatProperties
  <1>11. Len(d) = n + 1 /\ \A j \in 1 .. n + 1 : d[j] = IF j <= k THEN c[j] ELSE b[j - k]
    BY <1>1, <1>6, <1>9, <1>10, ConcatProperties
  <1>12. ASSUME NEW j \in 1 .. n + 1
         PROVE  t[j] = d[j]
    <2>1. CASE j < k
      BY <1>1, <1>2, <1>9, <1>11, <2>1
    <2>2. CASE j = k
      BY <1>1, <1>2, <1>9, <1>11, <2>2
    <2>3. CASE j > k
      <3>1. PICK i \in 1 .. n - k + 1 : i = j - k
        BY <1>1, <2>3
      <3>2. b[i] = s[j - 1]
        <4>1. k + i - 1 = j - 1
          BY <1>1, <3>1
        <4> QED
          BY <1>6, <3>1, <4>1
      <3> QED
        BY <1>1, <1>2, <1>11, <2>3, <3>1, <3>2
    <2> QED
      BY <1>1, <2>1, <2>2, <2>3
  <1>13. t = d
    BY <1>2, <1>11, <1>12, SeqEqual
  <1> QED
    BY <1>1, <1>3, <1>5, <1>8, <1>10, <1>13

LEMMA CutFirst ==
  ASSUME NEW s \in Rows, 1 \in 1 .. Len(s)
  PROVE  Cut(s, 1) = Tail(s) /\ Head(s) = s[1] /\ s # <<>>
  <1>1. s \in Seq(Elements) /\ Len(s) \in Nat /\ s # <<>>
    BY RowFacts
  <1>2. PICK n \in Nat, t \in Rows : n = Len(s) /\ t = Cut(s, 1)
    BY <1>1, CutIsRow
  <1>3. /\ t \in Seq(Elements) /\ Len(t) = n - 1
        /\ \A j \in 1 .. n - 1 : t[j] = s[j + 1]
    BY <1>1, <1>2, CutIsRow, RowFacts
  <1>4. /\ Tail(s) \in Seq(Elements) /\ Len(Tail(s)) = n - 1 /\ Head(s) = s[1]
        /\ \A j \in 1 .. n - 1 : Tail(s)[j] = s[j + 1]
    BY <1>1, <1>2, HeadTailProperties
  <1> QED
    BY <1>1, <1>2, <1>3, <1>4, SeqEqual

LEMMA CutMiddle ==
  ASSUME NEW s \in Rows, NEW k \in 1 .. Len(s)
  PROVE  Cut(s, k) = SubSeq(s, 1, k - 1) \o SubSeq(s, k + 1, Len(s))
  <1>1. PICK n \in Nat, t \in Rows : n = Len(s) /\ t = Cut(s, k)
    BY CutIsRow, RowFacts
  <1>2. /\ t \in Seq(Elements) /\ Len(t) = n - 1
        /\ \A j \in 1 .. n - 1 : t[j] = IF j < k THEN s[j] ELSE s[j + 1]
    <2>1. t \in Seq(Elements)
      BY RowFacts
    <2>2. /\ Len(t) = Len(s) - 1
          /\ \A j \in 1 .. Len(s) - 1 : t[j] = IF j < k THEN s[j] ELSE s[j + 1]
      BY <1>1, CutIsRow
    <2> QED
      BY <1>1, <2>1, <2>2
  <1>3. PICK a \in Seq(Elements) :
          a = SubSeq(s, 1, k - 1) /\ Len(a) = k - 1 /\ \A j \in 1 .. k - 1 : a[j] = s[j]
    <2>1. k \in 1 .. Len(s) + 1
      BY <1>1
    <2> QED
      BY <2>1, FirstPart
  <1>5. k + 1 \in 1 .. Len(s) + 1 /\ n \in 0 .. Len(s) /\ k + 1 <= n + 1
    BY <1>1
  <1>6. PICK b \in Seq(Elements) : b = SubSeq(s, k + 1, n)
    BY <1>1, <1>5, PartIs
  <1>7. Len(b) = n - k /\ \A j \in 1 .. n - k : b[j] = s[k + j]
    <2>1. /\ Len(b) = n - (k + 1) + 1
          /\ \A j \in 1 .. n - (k + 1) + 1 : b[j] = s[k + 1 + j - 1]
      BY <1>5, <1>6, PartIs
    <2>2. n - (k + 1) + 1 = n - k /\ \A j \in 1 .. n - k : k + 1 + j - 1 = k + j
      BY <1>1
    <2> QED
      BY <2>1, <2>2
  <1>8. PICK d \in Seq(Elements) : d = a \o b
    BY ConcatProperties
  <1>9. Len(d) = n - 1 /\ \A j \in 1 .. n - 1 : d[j] = IF j <= k - 1 THEN a[j] ELSE b[j - (k - 1)]
    <2>1. /\ Len(d) = Len(a) + Len(b)
          /\ \A j \in 1 .. Len(a) + Len(b) : d[j] = IF j <= Len(a) THEN a[j] ELSE b[j - Len(a)]
      BY <1>8, ConcatProperties
    <2>2. Len(a) + Len(b) = n - 1
      BY <1>1, <1>3, <1>7
    <2> QED
      BY <1>3, <2>1, <2>2
  <1>10. ASSUME NEW j \in 1 .. n - 1
         PROVE  t[j] = d[j]
    <2>1. CASE j < k
      BY <1>1, <1>2, <1>3, <1>9, <2>1
    <2>2. CASE ~(j < k)
      <3>1. PICK i \in 1 .. n - k : i = j - (k - 1)
        BY <1>1, <2>2
      <3>2. b[i] = s[j + 1]
        <4>1. k + i = j + 1
          BY <1>1, <3>1
        <4> QED
          BY <1>7, <3>1, <4>1
      <3> QED
        BY <1>1, <1>2, <1>9, <2>2, <3>1, <3>2
    <2> QED
      BY <2>1, <2>2
  <1>11. t = d
    BY <1>2, <1>9, <1>10, SeqEqual
  <1> QED
    BY <1>1, <1>3, <1>6, <1>8, <1>11

-----------------------------------------------------------------------------
\* Every step keeps the invariant and is one of Deques, or changes nothing of it.

DequeStep == Deque!DequeNext \/ (Lists' = Lists /\ Kept' = Kept /\ reply' = reply)

LEMMA ListFacts ==
  ASSUME DListInv, NEW h \in Lists, NEW s, s = Forwards(h)
  PROVE  /\ s \in Rows /\ Ring(h, s) /\ h \in Heads /\ ents[h] = Len(s) /\ Len(s) \in Nat
         /\ forw[h] = Nth(h, s, 1)
         /\ forw[h] = h <=> Len(s) = 0
         /\ Len(s) # 0 => 1 \in 1 .. Len(s) /\ s[1] = forw[h]
  <1>1. s \in Rows /\ Ring(h, s) /\ h \in Heads
    BY DEF DListInv, RingsOK, Lists
  <1>2. ents[h] = Len(s) /\ Len(s) \in Nat /\ \A i \in 1 .. Len(s) : s[i] # h
    BY <1>1, RowFacts DEF Ring
  <1>3. forw[h] = Nth(h, s, 1)
    <2>1. Nth(h, s, 0) = h /\ 0 \in 0 .. Len(s) /\ 0 + 1 = 1
      BY <1>1, <1>2, NthFacts
    <2> QED
      BY <1>1, <2>1 DEF Ring, Leads
  <1> QED
    BY <1>1, <1>2, <1>3 DEF Nth

LEMMA CalledFreeing ==
  ASSUME DListInv, NEW h, Called(h), Lists' = Lists
  PROVE  FreeingOK'
  BY DEF DListInv, FreeingOK, Called

LEMMA KeptIs ==
  ASSUME freeing = null
  PROVE  /\ \A g \in Lists : Kept[g] = Forwards(g)
         /\ \A g \in Heads : g \notin Lists => Kept[g] = <<>>
         /\ \A e : OnNone(e) => Deque!Free(e)
  <1>1. \A g \in Lists : Kept[g] = Forwards(g)
    BY DListAssumption DEF Kept, Lists
  <1>2. \A g \in Heads : g \notin Lists => Kept[g] = <<>>
    BY DEF Kept
  <1>3. ASSUME NEW e, OnNone(e), NEW g \in Heads
        PROVE  e \notin Deque!Members(g)
    <2>1. CASE g \in Lists
      BY <1>1, <1>3, <2>1 DEF OnNone, On, Deque!Members
    <2>2. CASE g \notin Lists
      BY <1>2, <2>2 DEF Deque!Members
    <2> QED
      BY <2>1, <2>2
  <1> QED
    BY <1>1, <1>2, <1>3 DEF Deque!Free

LEMMA KeptBecomes ==
  ASSUME NEW h \in Heads, Called(h), Lists' = Lists, OthersAs(h), NEW t, Forwards(h)' = t
  PROVE  Kept' = [Kept EXCEPT ![h] = t]
  <1>1. freeing = null /\ freeing' = null /\ h \in Lists
    BY DEF Called
  <1>2. Kept = [g \in Heads |-> IF g \notin Lists THEN <<>> ELSE Forwards(g)]
    BY <1>1, DListAssumption DEF Kept
  <1>3. Kept' = [g \in Heads |-> IF g \notin Lists THEN <<>> ELSE Forwards(g)']
    BY <1>1, DListAssumption DEF Kept
  <1>4. \A g \in Lists : g # h => Forwards(g)' = Forwards(g)
    BY DEF OthersAs
  <1> QED
    BY <1>1, <1>2, <1>3, <1>4

\* No pointer moves.
LEMMA SameLists ==
  ASSUME DListInv, UNCHANGED <<pointers, ents>>
  PROVE  /\ PointersOK' /\ RingsOK' /\ Apart' /\ Lists' = Lists
         /\ \A h : Forwards(h)' = Forwards(h)
  <1>1. Lists' = Lists /\ \A h : Forwards(h)' = Forwards(h)
    BY DEF pointers, Lists, Forwards, Leads
  <1>2. PointersOK'
    BY DEF DListInv, pointers, PointersOK
  <1>3. RingsOK'
    BY <1>1 DEF DListInv, RingsOK, Ring, Leads, LedBack, pointers
  <1>4. Apart'
    BY <1>1 DEF DListInv, Apart, InRow
  <1> QED
    BY <1>1, <1>2, <1>3, <1>4

LEMMA MakeStep ==
  ASSUME DListInv, NEW h \in Heads, ListMake(h)
  PROVE  DListInv' /\ DequeStep
  <1>1. h \notin Lists /\ freeing = null /\ freeing' = null
    BY DEF ListMake
  <1>2. <<>> \in Rows /\ Len(<<>>) = 0 /\ \A x : ~InRow(<<>>, x)
    <2>1. PICK z \in Seq(Elements) : z = <<>> /\ Len(z) = 0
      BY EmptySeq
    <2>2. \A i \in 1 .. Len(z) : FALSE
      BY <2>1
    <2>3. z \in Rows /\ \A x : ~InRow(z, x)
      BY <2>2, RowsAre DEF InRow
    <2> QED
      BY <2>1, <2>3
  <1>3. /\ PointersOK'
        /\ \A x \in Nodes : forw'[x] = IF x = h THEN h ELSE forw[x]
        /\ \A x \in Nodes : back'[x] = IF x = h THEN h ELSE back[x]
        /\ \A g \in Heads : ents'[g] = IF g = h THEN 0 ELSE ents[g]
    BY DEF ListMake, DListInv, PointersOK, Nodes
  <1>4. Ring(h, <<>>)'
    <2>1. forw'[h] = h /\ back'[h] = h /\ ents'[h] = 0
      BY <1>3 DEF Nodes
    <2> QED
      BY <2>1 DEF Ring, Leads, LedBack, Nth
  <1>5. Spares(h)
    <2>1. ASSUME NEW g \in Lists, g # h, NEW x, x = g \/ InRow(Forwards(g), x)
          PROVE  x \in Nodes /\ x # h
      <3>1. PICK s \in Rows : s = Forwards(g)
        BY DEF DListInv, RingsOK
      <3> QED
        BY <2>1, <3>1, RowFacts, DListAssumption DEF InRow, Nodes, Lists
    <2>2. ASSUME NEW g \in Lists, g # h, NEW x, x = g \/ InRow(Forwards(g), x)
          PROVE  forw'[x] = forw[x] /\ back'[x] = back[x]
      BY <1>3, <2>1, <2>2
    <2> QED
      BY <1>3, <2>2 DEF Spares
  <1>6. h \in Lists' /\ Forwards(h)' = <<>> /\ OthersAs(h) /\ RingsOK' /\ Apart'
    <2>1. ents'[h] = Len(<<>>)
      BY <1>2, <1>3
    <2> QED
      BY <1>2, <1>4, <1>5, <2>1, BecomesRow
  <1>7. Lists' = Lists \cup {h}
    BY <1>6 DEF OthersAs, Lists
  <1>8. FreeingOK'
    BY <1>1 DEF DListInv, FreeingOK, ListMake
  <1>9. Kept' = Kept
    <2>1. Kept = [g \in Heads |-> IF g \notin Lists THEN <<>> ELSE Forwards(g)]
      BY <1>1, DListAssumption DEF Kept
    <2>2. Kept' = [g \in Heads |-> IF g \notin Lists' THEN <<>> ELSE Forwards(g)']
      BY <1>1, DListAssumption DEF Kept
    <2> QED
      BY <1>1, <1>6, <1>7, <2>1, <2>2 DEF OthersAs
  <1>10. Deque!MakeDeque(h)
    BY <1>1, <1>7, <1>9 DEF Deque!MakeDeque, Deque!Call, Deque!Returns, ListMake, Replies
  <1> QED
    BY <1>3, <1>6, <1>8, <1>10 DEF DListInv, DequeStep, Deque!DequeNext

\* An element goes on a list: which place that is, and what the sequence becomes.
LEMMA PutOnStep ==
  ASSUME DListInv, NEW h \in Heads, Called(h), NEW s, s = Forwards(h), NEW k \in 1 .. Len(s) + 1,
         NEW e2 \in Elements, OnNone(e2), Joined(h, Nth(h, s, k), e2)
  PROVE  /\ DListInv' /\ h \in Lists /\ Lists' = Lists
         /\ Kept[h] = s /\ Kept' = [Kept EXCEPT ![h] = Put(s, k, e2)]
         /\ s \in Rows /\ ~InRow(s, e2) /\ Deque!Free(e2)
  <1>1. h \in Lists /\ freeing = null
    BY DEF Called
  <1>2. /\ PointersOK' /\ RingsOK' /\ Apart'
        /\ Lists' = Lists /\ Forwards(h)' = Put(s, k, e2) /\ OthersAs(h)
    BY <1>1, PutStep
  <1>3. DListInv'
    BY <1>2, CalledFreeing DEF DListInv
  <1>4. Kept' = [Kept EXCEPT ![h] = Put(s, k, e2)]
    BY <1>2, KeptBecomes
  <1>5. Kept[h] = s /\ Deque!Free(e2)
    BY <1>1, KeptIs
  <1>6. s \in Rows /\ ~InRow(s, e2)
    BY <1>1, ListFacts, OnIs DEF OnNone
  <1> QED
    BY <1>1, <1>2, <1>3, <1>4, <1>5, <1>6

LEMMA InsertStep ==
  ASSUME DListInv, NEW h \in Heads, NEW e, NEW e2 \in Elements, ListInsert(h, e, e2)
  PROVE  DListInv' /\ DequeStep
  <1>1. h \in Lists /\ Called(h) /\ OnNone(e2)
    BY DEF ListInsert, Called
  <1>2. PICK s : s = Forwards(h)
    OBVIOUS
  <1>3. s \in Rows /\ Len(s) \in Nat /\ ents[h] = Len(s)
    BY <1>1, <1>2, ListFacts
  <1>4. PICK k \in 1 .. Len(s) + 1 : e = Nth(h, s, k)
    <2>1. CASE e = h
      <3>1. Len(s) + 1 \in 1 .. Len(s) + 1 /\ Nth(h, s, Len(s) + 1) = h
        BY <1>3, NthFacts
      <3> QED
        BY <2>1, <3>1
    <2>2. CASE e \in On(h)
      <3>1. PICK k \in 1 .. Len(s) : e = s[k]
        BY <1>2, <2>2 DEF On
      <3>2. k \in 1 .. Len(s) + 1
        BY <1>3
      <3> QED
        BY <3>1, <3>2 DEF Nth
    <2> QED
      BY <2>1, <2>2 DEF ListInsert
  <1>5. Joined(h, Nth(h, s, k), e2)
    BY <1>4 DEF ListInsert
  <1>6. /\ DListInv' /\ Lists' = Lists /\ Deque!Free(e2) /\ ~InRow(s, e2)
        /\ Kept[h] = s /\ Kept' = [Kept EXCEPT ![h] = Put(s, k, e2)]
    BY <1>1, <1>2, <1>5, PutOnStep
  <1>7. Put(s, k, e2) = SubSeq(s, 1, k - 1) \o <<e2>> \o SubSeq(s, k, Len(s))
    BY <1>3, <1>6, PutMiddle
  <1>8. Deque!Insert(h, k, e2)
    BY <1>1, <1>3, <1>6, <1>7
    DEF Deque!Insert, Deque!Call, Deque!Returns, Deque!Becomes, ListInsert, Replies
  <1> QED
    BY <1>1, <1>6, <1>8 DEF DequeStep, Deque!DequeNext

LEMMA EnqueStep ==
  ASSUME DListInv, NEW h \in Heads, NEW e2 \in Elements, ListEnque(h, e2)
  PROVE  DListInv' /\ DequeStep
  <1>1. h \in Lists /\ Called(h) /\ OnNone(e2)
    BY DEF ListEnque, Called
  <1>2. PICK s : s = Forwards(h)
    OBVIOUS
  <1>3. s \in Rows /\ Len(s) \in Nat
    BY <1>1, <1>2, ListFacts
  <1>4. Len(s) + 1 \in 1 .. Len(s) + 1 /\ Nth(h, s, Len(s) + 1) = h
    BY <1>3, NthFacts
  <1>5. Joined(h, Nth(h, s, Len(s) + 1), e2)
    BY <1>4 DEF ListEnque
  <1>6. /\ DListInv' /\ Lists' = Lists /\ Deque!Free(e2) /\ ~InRow(s, e2)
        /\ Kept[h] = s /\ Kept' = [Kept EXCEPT ![h] = Put(s, Len(s) + 1, e2)]
    BY <1>1, <1>2, <1>4, <1>5, PutOnStep
  <1>7. Put(s, Len(s) + 1, e2) = Append(s, e2)
    BY <1>3, <1>6, PutLast
  <1>8. Deque!AtBack(h, e2)
    BY <1>1, <1>6, <1>7
    DEF Deque!AtBack, Deque!Call, Deque!Returns, Deque!Becomes, ListEnque, Replies
  <1> QED
    BY <1>6, <1>8 DEF DequeStep, Deque!DequeNext

LEMMA PushStep ==
  ASSUME DListInv, NEW h \in Heads, NEW e2 \in Elements, ListPush(h, e2)
  PROVE  DListInv' /\ DequeStep
  <1>1. h \in Lists /\ Called(h) /\ OnNone(e2)
    BY DEF ListPush, Called
  <1>2. PICK s : s = Forwards(h)
    OBVIOUS
  <1>3. s \in Rows /\ Len(s) \in Nat /\ forw[h] = Nth(h, s, 1)
    BY <1>1, <1>2, ListFacts
  <1>4. 1 \in 1 .. Len(s) + 1
    BY <1>3
  <1>5. Joined(h, Nth(h, s, 1), e2)
    BY <1>3 DEF ListPush
  <1>6. /\ DListInv' /\ Lists' = Lists /\ Deque!Free(e2) /\ ~InRow(s, e2)
        /\ Kept[h] = s /\ Kept' = [Kept EXCEPT ![h] = Put(s, 1, e2)]
    BY <1>1, <1>2, <1>4, <1>5, PutOnStep
  <1>7. Put(s, 1, e2) = <<e2>> \o s
    BY <1>3, <1>6, PutFirst
  <1>8. Deque!AtFront(h, e2)
    BY <1>1, <1>6, <1>7
    DEF Deque!AtFront, Deque!Call, Deque!Returns, Deque!Becomes, ListPush, Replies
  <1> QED
    BY <1>6, <1>8 DEF DequeStep, Deque!DequeNext

\* An element comes off a list.
LEMMA TakeOffStep ==
  ASSUME DListInv, NEW h \in Heads, Called(h), NEW s, s = Forwards(h), NEW k \in 1 .. Len(s),
         Taken(h, s[k])
  PROVE  /\ DListInv' /\ h \in Lists /\ Lists' = Lists /\ s \in Rows
         /\ Kept[h] = s /\ Kept' = [Kept EXCEPT ![h] = Cut(s, k)]
  <1>1. h \in Lists /\ freeing = null
    BY DEF Called
  <1>2. /\ PointersOK' /\ RingsOK' /\ Apart'
        /\ Lists' = Lists /\ Forwards(h)' = Cut(s, k) /\ OthersAs(h)
    BY <1>1, TakenStep
  <1>3. DListInv'
    BY <1>2, CalledFreeing DEF DListInv
  <1>4. Kept' = [Kept EXCEPT ![h] = Cut(s, k)]
    BY <1>2, KeptBecomes
  <1> QED
    BY <1>1, <1>2, <1>3, <1>4, KeptIs, ListFacts

LEMMA RmStep ==
  ASSUME DListInv, NEW h \in Heads, NEW e, ListRm(h, e)
  PROVE  DListInv' /\ DequeStep
  <1>1. h \in Lists /\ Called(h)
    BY DEF ListRm, Called
  <1>2. PICK s : s = Forwards(h)
    OBVIOUS
  <1>3. PICK k \in 1 .. Len(s) : e = s[k]
    BY <1>2 DEF ListRm, On
  <1>4. Taken(h, s[k])
    BY <1>3 DEF ListRm
  <1>5. /\ DListInv' /\ Lists' = Lists /\ s \in Rows
        /\ Kept[h] = s /\ Kept' = [Kept EXCEPT ![h] = Cut(s, k)]
    BY <1>1, <1>2, <1>4, TakeOffStep
  <1>6. Cut(s, k) = SubSeq(s, 1, k - 1) \o SubSeq(s, k + 1, Len(s))
    BY <1>5, CutMiddle
  <1>7. Deque!TakeOut(h, k)
    BY <1>1, <1>3, <1>5, <1>6
    DEF Deque!TakeOut, Deque!Call, Deque!Returns, Deque!Becomes, ListRm, Replies
  <1> QED
    BY <1>5, <1>7 DEF DequeStep, Deque!DequeNext

LEMMA DequesStep ==
  ASSUME DListInv, NEW h \in Heads, NEW op \in {"listdeque", "listpop"}, ListDeque(h, op)
  PROVE  DListInv' /\ DequeStep
  <1>1. h \in Lists /\ Called(h) /\ forw[h] # h
    BY DEF ListDeque, Called
  <1>2. PICK s : s = Forwards(h)
    OBVIOUS
  <1>3. 1 \in 1 .. Len(s) /\ s[1] = forw[h]
    BY <1>1, <1>2, ListFacts
  <1>4. Taken(h, s[1])
    BY <1>3 DEF ListDeque
  <1>5. /\ DListInv' /\ Lists' = Lists /\ s \in Rows
        /\ Kept[h] = s /\ Kept' = [Kept EXCEPT ![h] = Cut(s, 1)]
    BY <1>1, <1>2, <1>3, <1>4, TakeOffStep
  <1>6. Cut(s, 1) = Tail(s) /\ Head(s) = s[1] /\ s # <<>>
    BY <1>3, <1>5, CutFirst
  <1>7. Deque!TakeFirst(h, op)
    BY <1>1, <1>3, <1>5, <1>6
    DEF Deque!TakeFirst, Deque!Call, Deque!Returns, Deque!Becomes, ListDeque, Replies
  <1> QED
    BY <1>5, <1>7 DEF DequeStep, Deque!DequeNext

\* A call that changes nothing.
LEMMA NothingMoves ==
  ASSUME DListInv, NEW h \in Heads, Called(h), UNCHANGED <<pointers, ents>>,
         ents[h] = 0 \/ forw[h] = h
  PROVE  DListInv' /\ h \in Lists /\ Lists' = Lists /\ Kept' = Kept /\ Kept[h] = <<>>
  <1>1. h \in Lists /\ freeing = null
    BY DEF Called
  <1>2. /\ PointersOK' /\ RingsOK' /\ Apart' /\ Lists' = Lists
        /\ \A g : Forwards(g)' = Forwards(g)
    BY SameLists
  <1>3. DListInv'
    BY <1>2, CalledFreeing DEF DListInv
  <1>4. Kept' = Kept
    BY <1>2 DEF Kept, Called
  <1>5. PICK s : s = Forwards(h)
    OBVIOUS
  <1>6. s \in Seq(Elements) /\ Len(s) = 0
    BY <1>1, <1>5, ListFacts, RowFacts
  <1>7. s = <<>>
    BY <1>6, EmptySeq
  <1> QED
    BY <1>1, <1>2, <1>3, <1>4, <1>5, <1>7, KeptIs

LEMMA RmEmptyStep ==
  ASSUME DListInv, NEW h \in Heads, ListRmEmpty(h)
  PROVE  DListInv' /\ DequeStep
  <1>1. DListInv' /\ h \in Lists /\ Lists' = Lists /\ Kept' = Kept /\ Kept[h] = <<>>
    BY NothingMoves DEF ListRmEmpty
  <1>2. Deque!TakeNone(h)
    BY <1>1 DEF Deque!TakeNone, Deque!Call, Deque!Returns, ListRmEmpty, Replies
  <1> QED
    BY <1>1, <1>2 DEF DequeStep, Deque!DequeNext

LEMMA DequeEmptyStep ==
  ASSUME DListInv, NEW h \in Heads, NEW op \in {"listdeque", "listpop"}, ListDequeEmpty(h, op)
  PROVE  DListInv' /\ DequeStep
  <1>1. DListInv' /\ h \in Lists /\ Lists' = Lists /\ Kept' = Kept /\ Kept[h] = <<>>
    BY NothingMoves DEF ListDequeEmpty
  <1>2. Deque!TakeFirst(h, op)
    BY <1>1 DEF Deque!TakeFirst, Deque!Call, Deque!Returns, ListDequeEmpty, Replies
  <1> QED
    BY <1>1, <1>2 DEF DequeStep, Deque!DequeNext

LEMMA FreeCallStep ==
  ASSUME DListInv, NEW h \in Heads, ListFree(h)
  PROVE  DListInv' /\ DequeStep
  <1>1. h \in Lists /\ freeing = null /\ freeing' = h /\ freed' = <<>>
    BY DEF ListFree, Called
  <1>2. /\ PointersOK' /\ RingsOK' /\ Apart' /\ Lists' = Lists
        /\ \A g : Forwards(g)' = Forwards(g)
    BY SameLists DEF ListFree
  <1>3. FreeingOK'
    BY <1>1, <1>2, DListAssumption DEF FreeingOK, Lists
  <1>4. <<>> \o Forwards(h) = Forwards(h)
    BY <1>1, ListFacts, RowFacts, ConcatEmptySeq
  <1>5. Kept' = Kept
    <2>1. Kept = [g \in Heads |-> IF g \notin Lists THEN <<>> ELSE Forwards(g)]
      BY <1>1, DListAssumption DEF Kept
    <2>2. Kept' = [g \in Heads |-> IF g \notin Lists THEN <<>>
                                   ELSE IF g = h THEN <<>> \o Forwards(g) ELSE Forwards(g)]
      BY <1>1, <1>2 DEF Kept
    <2> QED
      BY <1>4, <2>1, <2>2
  <1> QED
    BY <1>2, <1>3, <1>5 DEF DListInv, DequeStep, ListFree

\* The first element goes over from what is left to what is given away.
LEMMA HandedOver ==
  ASSUME NEW f \in Seq(Elements), NEW s \in Seq(Elements), s # <<>>
  PROVE  Append(f, Head(s)) \o Tail(s) = f \o s
  <1>1. PICK n \in Nat : n = Len(s)
    OBVIOUS
  <1>2. PICK x \in Elements, t \in Seq(Elements) : x = Head(s) /\ t = Tail(s)
    BY HeadTailProperties
  <1>3. x = s[1] /\ Len(t) = n - 1 /\ \A j \in 1 .. n - 1 : t[j] = s[j + 1]
    BY <1>1, <1>2, HeadTailProperties
  <1>4. <<x>> \in Seq(Elements) /\ Len(<<x>>) = 1 /\ <<x>>[1] = x
    OBVIOUS
  <1>5. n # 0
    BY <1>1, EmptySeq
  <1>6. PICK d \in Seq(Elements) : d = <<x>> \o t
    BY <1>4, ConcatProperties
  <1>7. Len(d) = n /\ \A j \in 1 .. n : d[j] = IF j <= 1 THEN <<x>>[j] ELSE t[j - 1]
    BY <1>1, <1>3, <1>4, <1>5, <1>6, ConcatProperties
  <1>8. \A j \in 1 .. n : d[j] = s[j]
    BY <1>1, <1>3, <1>4, <1>5, <1>7
  <1>9. d = s
    BY <1>1, <1>7, <1>8, SeqEqual
  <1>10. Append(f, x) = f \o <<x>> /\ (f \o <<x>>) \o t = f \o d
    BY <1>4, <1>6, AppendIsConcat, ConcatAssociative
  <1> QED
    BY <1>2, <1>9, <1>10

LEMMA FreeElementStep ==
  ASSUME DListInv, FreeElement
  PROVE  DListInv' /\ DequeStep
  <1>1. PICK h \in Heads : h = freeing /\ h \in Lists
    BY DEF FreeElement, DListInv, FreeingOK, Lists
  <1>2. PICK s : s = Forwards(h)
    OBVIOUS
  <1>3. /\ 1 \in 1 .. Len(s) /\ s[1] = forw[h] /\ s \in Rows /\ s \in Seq(Elements)
        /\ freed \in Seq(Elements)
    BY <1>1, <1>2, ListFacts, RowFacts DEF FreeElement, DListInv, FreeingOK
  <1>4. PICK e : e = s[1]
    OBVIOUS
  <1>5. /\ forw' = [forw EXCEPT ![back[e]] = forw[e], ![e] = wild]
        /\ back' = [back EXCEPT ![forw[e]] = back[e], ![e] = wild]
        /\ ents' = [ents EXCEPT ![h] = @ - 1]
        /\ freed' = Append(freed, e) /\ freeing' = h /\ reply' = reply
    BY <1>1, <1>3, <1>4 DEF FreeElement
  <1>6. PointersOK
    BY DEF DListInv
  <1>7. ClosedAround(h, e)
    BY <1>5, <1>6 DEF PointersOK, ClosedAround
  <1>8. /\ RingsOK' /\ Apart' /\ ents' \in [Heads -> Nat \cup {wild}]
        /\ e \in Elements /\ forw[e] \in Nodes /\ back[e] \in Nodes
        /\ Lists' = Lists /\ Forwards(h)' = Cut(s, 1) /\ OthersAs(h)
    BY <1>1, <1>2, <1>3, <1>4, <1>7, CutStep
  <1>9. PointersOK'
    <2>1. /\ forw' \in [Nodes -> Nodes \cup {null, wild}]
          /\ back' \in [Nodes -> Nodes \cup {null, wild}]
      BY <1>5, <1>6, <1>8 DEF PointersOK
    <2> QED
      BY <1>8, <2>1 DEF PointersOK, Nodes
  <1>10. FreeingOK'
    <2>1. freed' \in Seq(Elements)
      BY <1>3, <1>5, <1>8, AppendProperties
    <2> QED
      BY <1>1, <1>5, <1>8, <2>1, DListAssumption DEF FreeingOK
  <1>11. Kept' = Kept
    <2>1. Cut(s, 1) = Tail(s) /\ Head(s) = e /\ s # <<>>
      BY <1>3, <1>4, CutFirst
    <2>2. freed' \o Forwards(h)' = freed \o s
      BY <1>3, <1>5, <1>8, <2>1, HandedOver
    <2>3. Kept = [g \in Heads |-> IF g \notin Lists THEN <<>>
                                  ELSE IF g = h THEN freed \o s ELSE Forwards(g)]
      BY <1>1, <1>2 DEF Kept
    <2>4. Kept' = [g \in Heads |-> IF g \notin Lists THEN <<>>
                                   ELSE IF g = h THEN freed' \o Forwards(h)' ELSE Forwards(g)']
      BY <1>5, <1>8 DEF Kept
    <2> QED
      BY <1>8, <2>2, <2>3, <2>4 DEF OthersAs
  <1> QED
    BY <1>5, <1>8, <1>9, <1>10, <1>11 DEF DListInv, DequeStep

LEMMA FreeHeaderStep ==
  ASSUME DListInv, FreeHeader
  PROVE  DListInv' /\ DequeStep
  <1>1. PICK h \in Heads : h = freeing /\ h \in Lists
    BY DEF FreeHeader, DListInv, FreeingOK, Lists
  <1>2. /\ forw' = [forw EXCEPT ![h] = wild] /\ back' = [back EXCEPT ![h] = wild]
        /\ ents' = [ents EXCEPT ![h] = wild] /\ Replies("listfree", h, freed)
        /\ freeing' = null /\ freed' = <<>> /\ forw[h] = h
    BY <1>1 DEF FreeHeader
  <1>3. PointersOK /\ freed \in Seq(Elements)
    BY DEF DListInv, FreeingOK
  <1>4. PointersOK'
    BY <1>2, <1>3 DEF PointersOK, Nodes
  <1>5. Spares(h)
    <2>1. \A g \in Heads : g # h => ents'[g] = ents[g]
      BY <1>2, <1>3 DEF PointersOK
    <2>2. \A x \in Nodes : x # h => forw'[x] = forw[x] /\ back'[x] = back[x]
      BY <1>2, <1>3 DEF PointersOK
    <2>3. ASSUME NEW g \in Lists, g # h, NEW x, x = g \/ InRow(Forwards(g), x)
          PROVE  forw'[x] = forw[x] /\ back'[x] = back[x]
      BY <1>1, <2>2, <2>3, OtherNodes
    <2> QED
      BY <2>1, <2>3 DEF Spares
  <1>6. h \notin Lists' /\ OthersAs(h) /\ RingsOK' /\ Apart'
    <2>1. ents'[h] = wild
      BY <1>2, <1>3 DEF PointersOK
    <2> QED
      BY <1>5, <2>1, BecomesNone
  <1>7. FreeingOK'
    BY <1>2 DEF FreeingOK
  <1>8. Lists' = Lists \ {h}
    BY <1>6 DEF OthersAs, Lists
  <1>9. Kept[h] = freed
    <2>1. PICK s : s = Forwards(h)
      OBVIOUS
    <2>2. s \in Seq(Elements) /\ Len(s) = 0
      BY <1>1, <1>2, <2>1, ListFacts, RowFacts
    <2>3. s = <<>> /\ freed \o <<>> = freed
      BY <1>3, <2>2, EmptySeq, ConcatEmptySeq
    <2> QED
      BY <1>1, <2>1, <2>3 DEF Kept
  <1>10. Kept' = [Kept EXCEPT ![h] = <<>>]
    <2>1. Kept = [g \in Heads |-> IF g \notin Lists THEN <<>>
                                  ELSE IF g = h THEN freed \o Forwards(g) ELSE Forwards(g)]
      BY <1>1 DEF Kept
    <2>2. Kept' = [g \in Heads |-> IF g \notin Lists' THEN <<>> ELSE Forwards(g)']
      BY <1>2, DListAssumption DEF Kept
    <2> QED
      BY <1>6, <1>8, <2>1, <2>2 DEF OthersAs
  <1>11. Deque!FreeDeque(h)
    BY <1>1, <1>2, <1>8, <1>9, <1>10 DEF Deque!FreeDeque, Deque!Call, Deque!Returns, Replies
  <1> QED
    BY <1>4, <1>6, <1>7, <1>11 DEF DListInv, DequeStep, Deque!DequeNext

-----------------------------------------------------------------------------
LEMMA DListInvInit == DListInit => DListInv /\ Deque!DequeInit
  <1> SUFFICES ASSUME DListInit
               PROVE  DListInv /\ Deque!DequeInit
    OBVIOUS
  <1>1. Lists = {}
    BY DEF DListInit, Lists
  <1>2. PointersOK
    BY DEF DListInit, PointersOK, Nodes
  <1>3. FreeingOK
    BY EmptySeq DEF DListInit, FreeingOK
  <1>4. Kept = [h \in Heads |-> <<>>]
    BY <1>1 DEF Kept
  <1> QED
    BY <1>1, <1>2, <1>3, <1>4
    DEF DListInv, RingsOK, Apart, Deque!DequeInit, DListInit

LEMMA DListInvStep ==
  ASSUME DListInv, DListNext
  PROVE  DListInv' /\ DequeStep
  BY MakeStep, InsertStep, EnqueStep, PushStep, RmStep, RmEmptyStep, DequesStep, DequeEmptyStep,
     FreeCallStep, FreeElementStep, FreeHeaderStep
  DEF DListNext, InFree

LEMMA DListInvStutter ==
  ASSUME DListInv, UNCHANGED dlistVars
  PROVE  DListInv' /\ DequeStep
  <1>1. /\ PointersOK' /\ RingsOK' /\ Apart' /\ Lists' = Lists
        /\ \A g : Forwards(g)' = Forwards(g)
    <2>1. UNCHANGED <<pointers, ents>>
      BY DEF dlistVars, pointers
    <2> QED
      BY <2>1, SameLists
  <1>2. FreeingOK'
    BY <1>1 DEF DListInv, FreeingOK, dlistVars
  <1>3. Kept' = Kept
    BY <1>1 DEF Kept, dlistVars
  <1> QED
    BY <1>1, <1>2, <1>3 DEF DListInv, DequeStep, dlistVars

\* Whatever is called in whatever order, for any heads and elements, every head
\* has one circle, read alike over forw and over back, and no element is on two.
THEOREM DListInductive == DListSpec => []DListInv
  <1>1. DListInv /\ [DListNext]_dlistVars => DListInv'
    BY DListInvStep, DListInvStutter
  <1> QED
    BY <1>1, DListInvInit, PTL DEF DListSpec

\* From each head, forw leads through the elements of its list and back to it,
\* back leads through the same elements the other way, and num counts them, also
\* while listfree takes them away.
THEOREM DListBothWays == DListSpec => []BothWays
  <1>1. DListInv => BothWays
    BY DEF DListInv, RingsOK, Ring, LedBack, BothWays
  <1> QED
    BY <1>1, DListInductive, PTL

\* The calls of list.c are those of sequences: each makes the sequence it should
\* and returns what it should, and what listfree does in between changes nothing.
THEOREM DListImplementsDeques == DListSpec => AreDeques
  <1>1. DListInv /\ [DListNext]_dlistVars => [Deque!DequeNext]_(Deque!dequeVars)
    <2>1. ASSUME DListInv, [DListNext]_dlistVars
          PROVE  DequeStep
      BY <2>1, DListInvStep, DListInvStutter
    <2> QED
      BY <2>1 DEF DequeStep, Deque!dequeVars
  <1> QED
    BY <1>1, DListInvInit, DListInductive, PTL DEF DListSpec, AreDeques, Deque!DequeSpec
=============================================================================
