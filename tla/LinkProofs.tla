----------------------------- MODULE LinkProofs -----------------------------
(***************************************************************************)
(* Proofs about link.c, for any memory and values: the chain never leaks,  *)
(* dangles or miscounts, and the calls are those of a sequence of values.  *)
(***************************************************************************)
EXTENDS Link, TLAPS, FiniteSetTheorems, SequenceTheorems, WellFoundedInduction

\* The cell before place i of s, and what comes after place i - 1.
Before(s, i) == IF i = 1 THEN header ELSE s[i - 1]
At(s, i) == IF i = Len(s) + 1 THEN NULL ELSE s[i]

\* s without its place i.
Cut(s, i) == [j \in 1 .. Len(s) - 1 |-> IF j < i THEN s[j] ELSE s[j + 1]]

InChain(s, c) == \E i \in 1 .. Len(s) : c = s[i]

-----------------------------------------------------------------------------
\* The inductive invariant.

\* The new cell of link_enque is ready and not yet linked; p is on the chain.
Enqueing(s) ==
  /\ q \in Cells /\ ~InChain(s, q) /\ ptr[q] = val /\ next[q] = NULL
  /\ \E i \in 1 .. Len(s) + 1 : p = Before(s, i)

\* p is at a place of s and q one before it.
Dequeing(s) == \E i \in 1 .. Len(s) : p = s[i] /\ q = Before(s, i)

\* No value before p's place is the one that is searched; link_rm has q behind p.
Searching(s) ==
  \E i \in 1 .. Len(s) + 1 :
    /\ p = At(s, i)
    /\ \A j \in 1 .. i - 1 : ptr[s[j]] # val
    /\ call = "rm" => q = Before(s, i)

\* The cells are in the order s.
InOrder(s) ==
  /\ Linked(s)
  /\ \A c \in Cells : c \in used <=> InChain(s, c) \/ (call = "enque" /\ c = q)
  /\ call # "free" => num = Len(s)
  /\ \A i \in 1 .. Len(s) : ptr[s[i]] \in Values
  /\ call = "enque" => Enqueing(s)
  /\ call = "deque" => Dequeing(s)
  /\ call \in {"find", "rm"} => Searching(s)

\* A loop that has an argument.
Typed ==
  /\ call \in {"enque", "find", "rm"} => val \in Values
  /\ call = "none" => p = NULL /\ q = NULL /\ val = NULL

LinkInv ==
  /\ LinkTypeOK
  /\ Typed
  /\ ~made => call = "none" /\ used = {}
  /\ made => \E s \in Orders : InOrder(s)

-----------------------------------------------------------------------------
\* Orders.

\* Different cells in a row are no more than there are cells.
LEMMA OrdersAre ==
  ASSUME NEW s
  PROVE  s \in Orders <=> s \in Seq(Cells) /\ \A i, j \in 1 .. Len(s) : s[i] = s[j] => i = j
  <1>1. ASSUME s \in Orders
        PROVE  s \in Seq(Cells) /\ \A i, j \in 1 .. Len(s) : s[i] = s[j] => i = j
    <2>1. Cardinality(Cells) \in Nat
      BY FS_CardinalityType, LinkAssumption
    <2>2. PICK n \in 0 .. Cardinality(Cells) : s \in [1 .. n -> Cells]
      BY <1>1 DEF Orders
    <2>3. n \in Nat
      BY <2>1
    <2> QED
      BY <1>1, <2>2, <2>3 DEF Orders
  <1>2. ASSUME s \in Seq(Cells), \A i, j \in 1 .. Len(s) : s[i] = s[j] => i = j
        PROVE  s \in Orders
    <2>1. PICK n \in Nat : n = Len(s)
      BY <1>2
    <2>2. s \in [1 .. n -> Cells]
      BY <1>2, <2>1
    <2>3. s \in Injection(1 .. n, Cells)
      BY <1>2, <2>1, <2>2 DEF Injection, IsInjective
    <2>4. /\ Cardinality(1 .. n) <= Cardinality(Cells)
          /\ Cardinality(1 .. n) = n
      BY <2>3, FS_Injection, FS_Interval, LinkAssumption
    <2>5. n \in 0 .. Cardinality(Cells)
      BY <2>1, <2>4, FS_CardinalityType, LinkAssumption
    <2> QED
      BY <1>2, <2>1, <2>2, <2>5 DEF Orders
  <1> QED
    BY <1>1, <1>2

\* Of some positive numbers, one is the least.
LEMMA OneIsLeast ==
  ASSUME NEW S \in SUBSET (Nat \ {0}), S # {}
  PROVE  \E m \in S : \A j \in S : m <= j
  <1>1. PICK m \in S : \A j \in S : ~(<<j, m>> \in OpToRel(<, Nat))
    BY NatLessThanWellFounded, WFMin
  <1>2. ASSUME NEW j \in S
        PROVE  m <= j
    <2>1. ASSUME j < m
          PROVE  FALSE
      <3>1. <<j, m>> \in OpToRel(<, Nat)
        BY <2>1 DEF OpToRel
      <3> QED
        BY <1>1, <3>1
    <2> QED
      BY <2>1
  <1> QED
    BY <1>2

\* Two orders that next leads through agree where both have a cell.
LEMMA SameCells ==
  ASSUME NEW s \in Orders, NEW t \in Orders, Linked(s), Linked(t)
  PROVE  \A i \in 1 .. Len(s) : i <= Len(t) => s[i] = t[i]
  <1> DEFINE Differ == {i \in 1 .. Len(s) : i <= Len(t) /\ s[i] # t[i]}
  <1>1. s \in Seq(Cells) /\ t \in Seq(Cells) /\ Len(s) \in Nat /\ Len(t) \in Nat
    BY OrdersAre
  <1>2. Differ \in SUBSET (Nat \ {0})
    BY <1>1
  <1>3. ASSUME NEW m \in Differ, \A j \in Differ : m <= j
        PROVE  FALSE
    <2>1. m \in 1 .. Len(s) /\ m <= Len(t) /\ s[m] # t[m]
      BY <1>3
    <2>2. m # 1
      BY <1>1, <2>1 DEF Linked
    <2>3. m - 1 \in 1 .. Len(s) /\ m - 1 \in 1 .. Len(t) /\ m - 1 \notin Differ
      BY <1>1, <1>3, <2>1, <2>2
    <2>4. s[m - 1] = t[m - 1]
      BY <1>1, <2>3
    <2>5. PICK k \in 1 .. Len(s) : k = m - 1 /\ k \in 1 .. Len(t) /\ m = k + 1
      BY <1>1, <2>3
    <2>6. next[s[k]] = s[k + 1] /\ next[t[k]] = t[k + 1]
      BY <1>1, <2>1, <2>5 DEF Linked
    <2> QED
      BY <2>1, <2>4, <2>5, <2>6
  <1> HIDE DEF Differ
  <1>4. Differ = {}
    BY <1>2, <1>3, OneIsLeast
  <1> QED
    BY <1>4 DEF Differ

\* They have the same length, for where one ends the other does.
LEMMA NotLonger ==
  ASSUME NEW s \in Orders, NEW t \in Orders, Linked(s), Linked(t)
  PROVE  ~(Len(s) < Len(t))
  <1> SUFFICES ASSUME Len(s) < Len(t)
               PROVE  FALSE
    OBVIOUS
  <1>1. s \in Seq(Cells) /\ t \in Seq(Cells) /\ Len(s) \in Nat /\ Len(t) \in Nat
    BY OrdersAre
  <1>2. \A i \in 1 .. Len(t) : t[i] # NULL
    BY <1>1, LinkAssumption
  <1>3. CASE Len(s) = 0
    BY <1>1, <1>2, <1>3 DEF Linked
  <1>4. CASE Len(s) # 0
    <2>1. Len(s) \in 1 .. Len(s) /\ Len(s) \in 1 .. Len(t) /\ Len(s) + 1 \in 1 .. Len(t)
      BY <1>1, <1>4
    <2>2. s[Len(s)] = t[Len(s)]
      BY <1>1, <2>1, SameCells
    <2>3. next[s[Len(s)]] = NULL /\ next[t[Len(s)]] = t[Len(s) + 1]
      BY <1>1, <2>1 DEF Linked
    <2> QED
      BY <1>2, <2>1, <2>2, <2>3
  <1> QED
    BY <1>3, <1>4

\* So the chain is the order that is found, now and after a step.
LEMMA ChainIs == \A s \in Orders : made /\ Linked(s) => Chain = s
  <1> SUFFICES ASSUME NEW s \in Orders, made, Linked(s)
               PROVE  Chain = s
    OBVIOUS
  <1>1. Chain \in Orders /\ Linked(Chain)
    BY DEF Chain
  <1>2. Len(Chain) = Len(s)
    BY <1>1, NotLonger, OrdersAre
  <1>3. \A i \in 1 .. Len(s) : Chain[i] = s[i]
    BY <1>1, <1>2, SameCells, OrdersAre
  <1> QED
    BY <1>1, <1>2, <1>3, OrdersAre, SeqEqual

LEMMA ChainIsNext == (\A s \in Orders : made /\ Linked(s) => Chain = s)'
  BY ChainIs, PTL

-----------------------------------------------------------------------------
\* A cell put into the chain, and a cell taken out of it.

\* c at place k of s, before what is there.
Put(s, k, c) ==
  [j \in 1 .. Len(s) + 1 |-> IF j < k THEN s[j] ELSE IF j = k THEN c ELSE s[j - 1]]

NextOK == next \in [Cells \cup {header} -> Cells \cup {NULL, junk}]

LEMMA OrderFacts ==
  ASSUME NEW s \in Orders
  PROVE  /\ s \in Seq(Cells) /\ Len(s) \in Nat
         /\ \A i \in 1 .. Len(s) : s[i] \in Cells /\ s[i] # header /\ s[i] # NULL
         /\ \A i, j \in 1 .. Len(s) : s[i] = s[j] => i = j
  BY OrdersAre, LinkAssumption

\* Different places have different cells before them.
LEMMA BeforeFacts ==
  ASSUME NEW s \in Orders, NEW i \in 1 .. Len(s) + 1
  PROVE  /\ Before(s, i) \in Cells \cup {header}
         /\ \A j \in 1 .. Len(s) + 1 : Before(s, j) = Before(s, i) => j = i
         /\ \A j \in 1 .. Len(s) : s[j] = Before(s, i) => j = i - 1
  <1>1. Before(s, i) \in Cells \cup {header}
    BY OrderFacts DEF Before
  <1>2. ASSUME NEW j \in 1 .. Len(s) + 1, Before(s, j) = Before(s, i)
        PROVE  j = i
    BY <1>2, OrderFacts DEF Before
  <1>3. ASSUME NEW j \in 1 .. Len(s), s[j] = Before(s, i)
        PROVE  j = i - 1
    BY <1>3, OrderFacts DEF Before
  <1> QED
    BY <1>1, <1>2, <1>3

\* A cell comes before the next place.
LEMMA BeforeNext ==
  ASSUME NEW s \in Orders, NEW i \in 1 .. Len(s)
  PROVE  /\ i + 1 \in 1 .. Len(s) + 1 /\ Before(s, i + 1) = s[i]
         /\ At(s, i) = s[i] /\ At(s, i) # NULL
  BY OrderFacts DEF Before, At

\* Linked, place by place, now and after a step.
LEMMA LinkedIs ==
  \A s \in Orders : Linked(s) <=> \A i \in 1 .. Len(s) + 1 : next[Before(s, i)] = At(s, i)
  <1> SUFFICES ASSUME NEW s \in Orders
               PROVE  Linked(s) <=> \A i \in 1 .. Len(s) + 1 : next[Before(s, i)] = At(s, i)
    OBVIOUS
  <1>1. s \in Seq(Cells) /\ Len(s) \in Nat
    BY OrderFacts
  <1>2. ASSUME Linked(s), NEW i \in 1 .. Len(s) + 1
        PROVE  next[Before(s, i)] = At(s, i)
    <2>1. CASE i = 1
      BY <1>1, <1>2, <2>1 DEF Linked, Before, At
    <2>2. CASE i # 1
      <3>1. PICK k \in 1 .. Len(s) : i = k + 1
        BY <1>1, <2>2
      <3>2. next[s[k]] = IF k = Len(s) THEN NULL ELSE s[k + 1]
        BY <1>2 DEF Linked
      <3> QED
        BY <1>1, <2>2, <3>1, <3>2 DEF Before, At
    <2> QED
      BY <2>1, <2>2
  <1>3. ASSUME \A i \in 1 .. Len(s) + 1 : next[Before(s, i)] = At(s, i)
        PROVE  Linked(s)
    <2>1. next[header] = IF s = <<>> THEN NULL ELSE s[1]
      <3>1. 1 \in 1 .. Len(s) + 1 /\ Before(s, 1) = header
        BY <1>1 DEF Before
      <3>2. next[header] = At(s, 1)
        BY <1>3, <3>1
      <3> QED
        BY <1>1, <3>2 DEF At
    <2>2. ASSUME NEW k \in 1 .. Len(s)
          PROVE  next[s[k]] = IF k = Len(s) THEN NULL ELSE s[k + 1]
      <3>1. k + 1 \in 1 .. Len(s) + 1 /\ Before(s, k + 1) = s[k]
        BY BeforeNext
      <3>2. next[s[k]] = At(s, k + 1)
        BY <1>3, <3>1
      <3> QED
        BY <1>1, <3>2 DEF At
    <2> QED
      BY <2>1, <2>2 DEF Linked
  <1> QED
    BY <1>2, <1>3

LEMMA LinkedIsNext ==
  (\A s \in Orders : Linked(s) <=> \A i \in 1 .. Len(s) + 1 : next[Before(s, i)] = At(s, i))'
  BY LinkedIs, PTL

LEMMA PutIsOrder ==
  ASSUME NEW s \in Orders, NEW k \in 1 .. Len(s) + 1, NEW c \in Cells, ~InChain(s, c)
  PROVE  /\ Put(s, k, c) \in Orders /\ Len(Put(s, k, c)) = Len(s) + 1
         /\ \A d : InChain(Put(s, k, c), d) <=> InChain(s, d) \/ d = c
         /\ \A j \in 1 .. Len(s) + 1 :
              Put(s, k, c)[j] = IF j < k THEN s[j] ELSE IF j = k THEN c ELSE s[j - 1]
  <1> DEFINE t == Put(s, k, c)
  <1>1. PICK n \in Nat : n = Len(s)
    BY OrderFacts
  <1>2. /\ s \in Seq(Cells)
        /\ \A i \in 1 .. n : s[i] \in Cells /\ s[i] # c
        /\ \A i, j \in 1 .. n : s[i] = s[j] => i = j
    BY <1>1, OrderFacts DEF InChain
  <1>3. /\ t \in Seq(Cells) /\ Len(t) = n + 1
        /\ \A j \in 1 .. n + 1 : t[j] = IF j < k THEN s[j] ELSE IF j = k THEN c ELSE s[j - 1]
    BY <1>1, <1>2 DEF Put
  <1> HIDE DEF t
  <1>4. ASSUME NEW i \in 1 .. n + 1, NEW j \in 1 .. n + 1, t[i] = t[j]
        PROVE  i = j
    BY <1>1, <1>2, <1>3, <1>4
  <1>5. t \in Orders
    BY <1>3, <1>4, OrdersAre
  <1>6. ASSUME NEW d
        PROVE  InChain(t, d) <=> InChain(s, d) \/ d = c
    <2>1. ASSUME NEW j \in 1 .. n + 1, d = t[j]
          PROVE  InChain(s, d) \/ d = c
      BY <1>1, <1>3, <2>1 DEF InChain
    <2>2. ASSUME NEW j \in 1 .. n, d = s[j]
          PROVE  InChain(t, d)
      <3>1. CASE j < k
        BY <1>1, <1>3, <2>2, <3>1 DEF InChain
      <3>2. CASE ~(j < k)
        <4>1. t[j + 1] = s[j] /\ j + 1 \in 1 .. n + 1
          BY <1>1, <1>3, <2>2, <3>2
        <4> QED
          BY <1>3, <2>2, <4>1 DEF InChain
      <3> QED
        BY <3>1, <3>2
    <2>3. t[k] = c /\ k \in 1 .. n + 1
      BY <1>1, <1>3
    <2> QED
      BY <1>1, <1>3, <2>1, <2>2, <2>3 DEF InChain
  <1> QED
    BY <1>1, <1>3, <1>5, <1>6 DEF t

LEMMA CutIsOrder ==
  ASSUME NEW s \in Orders, NEW k \in 1 .. Len(s)
  PROVE  /\ Cut(s, k) \in Orders /\ Len(Cut(s, k)) = Len(s) - 1
         /\ \A d : InChain(Cut(s, k), d) <=> InChain(s, d) /\ d # s[k]
         /\ \A j \in 1 .. Len(s) - 1 : Cut(s, k)[j] = IF j < k THEN s[j] ELSE s[j + 1]
  <1> DEFINE t == Cut(s, k)
  <1>1. PICK n \in Nat : n = Len(s)
    BY OrderFacts
  <1>2. /\ s \in Seq(Cells)
        /\ \A i \in 1 .. n : s[i] \in Cells
        /\ \A i, j \in 1 .. n : s[i] = s[j] => i = j
    BY <1>1, OrderFacts
  <1>3. /\ t \in Seq(Cells) /\ Len(t) = n - 1
        /\ \A j \in 1 .. n - 1 : t[j] = IF j < k THEN s[j] ELSE s[j + 1]
    BY <1>1, <1>2 DEF Cut
  <1> HIDE DEF t
  <1>4. ASSUME NEW i \in 1 .. n - 1, NEW j \in 1 .. n - 1, t[i] = t[j]
        PROVE  i = j
    BY <1>1, <1>2, <1>3, <1>4
  <1>5. t \in Orders
    BY <1>3, <1>4, OrdersAre
  <1>6. ASSUME NEW d
        PROVE  InChain(t, d) <=> InChain(s, d) /\ d # s[k]
    <2>1. ASSUME NEW j \in 1 .. n - 1, d = t[j]
          PROVE  InChain(s, d) /\ d # s[k]
      BY <1>1, <1>2, <1>3, <2>1 DEF InChain
    <2>2. ASSUME NEW j \in 1 .. n, d = s[j], d # s[k]
          PROVE  InChain(t, d)
      <3>1. CASE j < k
        BY <1>1, <1>3, <2>2, <3>1 DEF InChain
      <3>2. CASE j > k
        <4>1. t[j - 1] = s[j] /\ j - 1 \in 1 .. n - 1
          BY <1>1, <1>3, <2>2, <3>2
        <4> QED
          BY <1>3, <2>2, <4>1 DEF InChain
      <3> QED
        BY <1>1, <2>2, <3>1, <3>2
    <2> QED
      BY <1>1, <1>3, <2>1, <2>2 DEF InChain
  <1> QED
    BY <1>1, <1>3, <1>5, <1>6 DEF t

LEMMA PutIsLinked ==
  ASSUME NextOK, NEW s \in Orders, Linked(s),
         NEW k \in 1 .. Len(s) + 1, NEW c \in Cells, ~InChain(s, c),
         next' = [next EXCEPT ![c] = At(s, k), ![Before(s, k)] = c]
  PROVE  Linked(Put(s, k, c))'
  <1>1. PICK t \in Orders : t = Put(s, k, c)
    BY PutIsOrder
  <1>2. PICK n \in Nat : n = Len(s)
    BY OrderFacts
  <1>3. /\ Len(t) = n + 1
        /\ \A j \in 1 .. n + 1 : t[j] = IF j < k THEN s[j] ELSE IF j = k THEN c ELSE s[j - 1]
    BY <1>1, <1>2, PutIsOrder
  <1>4. /\ k \in 1 .. n + 1
        /\ \A j \in 1 .. n + 1 : /\ Before(s, j) \in Cells \cup {header}
                                 /\ next[Before(s, j)] = At(s, j)
                                 /\ j # k => Before(s, j) # Before(s, k)
                                 /\ Before(s, j) # c
    BY <1>2, BeforeFacts, LinkedIs, OrderFacts, LinkAssumption DEF InChain, Before
  <1>5. /\ next'[c] = At(s, k) /\ next'[Before(s, k)] = c
        /\ \A j \in 1 .. n + 1 : j # k => next'[Before(s, j)] = At(s, j)
    BY <1>4 DEF NextOK
  <1>6. ASSUME NEW i \in 1 .. n + 2
        PROVE  next'[Before(t, i)] = At(t, i)
    <2>1. CASE i < k
      <3>1. PICK j \in 1 .. n + 1 : j = i /\ j # k /\ j # k + 1
        BY <1>4, <2>1
      <3>2. Before(t, i) = Before(s, j) /\ At(t, i) = At(s, j)
        BY <1>2, <1>3, <1>4, <2>1, <3>1 DEF Before, At
      <3> QED
        BY <1>5, <3>1, <3>2
    <2>2. CASE i = k
      <3>1. Before(t, i) = Before(s, k) /\ At(t, i) = c
        BY <1>2, <1>3, <1>4, <2>2 DEF Before, At
      <3> QED
        BY <1>5, <3>1
    <2>3. CASE i = k + 1
      <3>1. Before(t, i) = c /\ At(t, i) = At(s, k)
        BY <1>2, <1>3, <1>4, <2>3 DEF Before, At
      <3> QED
        BY <1>5, <3>1
    <2>4. CASE i > k + 1
      <3>1. PICK j \in 1 .. n + 1 : j = i - 1 /\ j # k /\ j > k
        BY <1>4, <2>4
      <3>2. t[j] = s[j - 1] /\ j # 1 /\ i # 1 /\ i - 1 = j
        BY <1>3, <1>4, <3>1
      <3>3. Before(t, i) = Before(s, j)
        BY <3>2 DEF Before
      <3>4. CASE i = n + 2
        <4>1. i = Len(t) + 1 /\ j = Len(s) + 1
          BY <1>2, <1>3, <3>1, <3>4
        <4>2. At(t, i) = At(s, j)
          BY <4>1 DEF At
        <4> QED
          BY <1>5, <3>1, <3>3, <4>2
      <3>5. CASE i # n + 2
        <4>1. t[i] = s[j] /\ j # n + 1
          BY <1>3, <1>4, <2>4, <3>1, <3>5
        <4>2. At(t, i) = At(s, j)
          BY <1>2, <1>3, <3>5, <4>1 DEF At
        <4> QED
          BY <1>5, <3>1, <3>3, <4>2
      <3> QED
        BY <3>4, <3>5
    <2> QED
      BY <1>4, <2>1, <2>2, <2>3, <2>4
  <1>7. Linked(t)'
    <2>1. 1 .. Len(t) + 1 = 1 .. n + 2
      BY <1>3
    <2> QED
      BY <1>6, <2>1, LinkedIsNext
  <1> QED
    BY <1>1, <1>7 DEF Linked

LEMMA CutIsLinked ==
  ASSUME NextOK, NEW s \in Orders, Linked(s), NEW k \in 1 .. Len(s),
         next' = [next EXCEPT ![Before(s, k)] = next[s[k]], ![s[k]] = junk]
  PROVE  Linked(Cut(s, k))'
  <1>1. PICK t \in Orders : t = Cut(s, k)
    BY CutIsOrder
  <1>2. PICK n \in Nat : n = Len(s)
    BY OrderFacts
  <1>3. /\ Len(t) = n - 1
        /\ \A j \in 1 .. n - 1 : t[j] = IF j < k THEN s[j] ELSE s[j + 1]
    BY <1>1, <1>2, CutIsOrder
  <1>4. /\ k \in 1 .. n
        /\ \A j \in 1 .. n + 1 : /\ Before(s, j) \in Cells \cup {header}
                                 /\ next[Before(s, j)] = At(s, j)
                                 /\ j # k => Before(s, j) # Before(s, k)
                                 /\ j # k + 1 => Before(s, j) # Before(s, k + 1)
        /\ Before(s, k + 1) = s[k] /\ s[k] \in Cells
    BY <1>2, BeforeFacts, LinkedIs, OrderFacts, BeforeNext
  <1>5. /\ next'[Before(s, k)] = At(s, k + 1)
        /\ \A j \in 1 .. n + 1 : j # k /\ j # k + 1 => next'[Before(s, j)] = At(s, j)
    BY <1>4 DEF NextOK
  <1>6. ASSUME NEW i \in 1 .. n
        PROVE  next'[Before(t, i)] = At(t, i)
    <2>1. CASE i < k
      <3>1. PICK j \in 1 .. n + 1 : j = i /\ j # k /\ j # k + 1
        BY <1>4, <2>1
      <3>2. Before(t, i) = Before(s, j) /\ At(t, i) = At(s, j)
        BY <1>2, <1>3, <1>4, <2>1, <3>1 DEF Before, At
      <3> QED
        BY <1>5, <3>1, <3>2
    <2>2. CASE i = k
      <3>1. Before(t, i) = Before(s, k)
        BY <1>3, <1>4, <2>2 DEF Before
      <3>2. CASE i = n
        BY <1>2, <1>3, <1>5, <2>2, <3>1, <3>2 DEF At
      <3>3. CASE i # n
        <4>1. t[i] = s[k + 1] /\ k + 1 # n + 1
          BY <1>3, <1>4, <2>2, <3>3
        <4> QED
          BY <1>2, <1>3, <1>5, <2>2, <3>1, <3>3, <4>1 DEF At
      <3> QED
        BY <3>2, <3>3
    <2>3. CASE i > k
      <3>1. PICK j \in 1 .. n + 1 : j = i + 1 /\ j # k /\ j # k + 1 /\ j > k
        BY <1>4, <2>3
      <3>2. t[i - 1] = s[j - 1] /\ j # 1 /\ i # 1
        <4>1. PICK m \in 1 .. n - 1 : m = i - 1 /\ ~(m < k)
          BY <1>4, <2>3
        <4>2. t[m] = s[m + 1] /\ m + 1 = j - 1
          BY <1>3, <3>1, <4>1
        <4> QED
          BY <1>4, <2>3, <3>1, <4>1, <4>2
      <3>3. Before(t, i) = Before(s, j)
        BY <3>2 DEF Before
      <3>4. CASE i = n
        <4>1. i = Len(t) + 1 /\ j = Len(s) + 1
          BY <1>2, <1>3, <3>1, <3>4
        <4>2. At(t, i) = At(s, j)
          BY <4>1 DEF At
        <4> QED
          BY <1>5, <3>1, <3>3, <4>2
      <3>5. CASE i # n
        <4>1. t[i] = s[j] /\ j # n + 1
          BY <1>3, <1>4, <2>3, <3>1, <3>5
        <4>2. At(t, i) = At(s, j)
          BY <1>2, <1>3, <3>5, <4>1 DEF At
        <4> QED
          BY <1>5, <3>1, <3>3, <4>2
      <3> QED
        BY <3>4, <3>5
    <2> QED
      BY <1>4, <2>1, <2>2, <2>3
  <1>7. Linked(t)'
    <2>1. 1 .. Len(t) + 1 = 1 .. n
      BY <1>3
    <2> QED
      BY <1>6, <2>1, LinkedIsNext
  <1> QED
    BY <1>1, <1>7 DEF Linked

-----------------------------------------------------------------------------
\* What the chain holds.

LEMMA ContentsAre ==
  \A s \in Orders : made /\ InOrder(s) =>
    /\ Contents \in Seq(Values) /\ Len(Contents) = Len(s)
    /\ \A i \in 1 .. Len(s) : Contents[i] = ptr[s[i]]
  <1> SUFFICES ASSUME NEW s \in Orders, made, InOrder(s)
               PROVE  /\ Contents \in Seq(Values) /\ Len(Contents) = Len(s)
                      /\ \A i \in 1 .. Len(s) : Contents[i] = ptr[s[i]]
    OBVIOUS
  <1>1. Chain = s
    BY ChainIs DEF InOrder
  <1>2. PICK n \in Nat : n = Len(s)
    BY OrderFacts
  <1>3. \A i \in 1 .. n : ptr[s[i]] \in Values
    BY <1>2 DEF InOrder
  <1>4. Contents = [i \in 1 .. n |-> ptr[s[i]]]
    BY <1>1, <1>2 DEF Contents
  <1> QED
    BY <1>2, <1>3, <1>4

LEMMA ContentsAreNext ==
  (\A s \in Orders : made /\ InOrder(s) =>
     /\ Contents \in Seq(Values) /\ Len(Contents) = Len(s)
     /\ \A i \in 1 .. Len(s) : Contents[i] = ptr[s[i]])'
  BY ContentsAre, PTL

LEMMA NoContents == ~made \/ (\E s \in Orders : InOrder(s) /\ Len(s) = 0) => Contents = <<>>
  <1>1. ASSUME ~made
        PROVE  Contents = <<>>
    BY <1>1 DEF Contents, Chain
  <1>2. ASSUME made, NEW s \in Orders, InOrder(s), Len(s) = 0
        PROVE  Contents = <<>>
    BY <1>2, ContentsAre, EmptySeq
  <1> QED
    BY <1>1, <1>2

LEMMA NoContentsNext ==
  (~made \/ (\E s \in Orders : InOrder(s) /\ Len(s) = 0) => Contents = <<>>)'
  BY NoContents, PTL

-----------------------------------------------------------------------------
\* A cell goes from place k: what link_pop, link_deque, link_rm and link_free
\* have in common.
LEMMA CutStep ==
  ASSUME LinkInv, call # "enque", NEW s \in Orders, InOrder(s), NEW k \in 1 .. Len(s),
         Unlink(Before(s, k), s[k]),
         UNCHANGED made, call' \in {"none", "free"}, call' = "none" => num' = num - 1 /\ call # "free"
  PROVE  /\ Cut(s, k) \in Orders /\ InOrder(Cut(s, k))'
         /\ Len(Cut(s, k)) = Len(s) - 1
         /\ \A j \in 1 .. Len(s) - 1 : ptr'[Cut(s, k)[j]] = IF j < k THEN ptr[s[j]] ELSE ptr[s[j + 1]]
         /\ ptr[s[k]] \in Values /\ ptr' \in [Cells -> Values \cup {junk}]
         /\ next' \in [Cells \cup {header} -> Cells \cup {NULL, junk}] /\ used' \subseteq Cells
  <1>1. PICK t \in Orders : t = Cut(s, k)
    BY CutIsOrder
  <1>2. /\ Len(t) = Len(s) - 1
        /\ \A d : InChain(t, d) <=> InChain(s, d) /\ d # s[k]
        /\ \A j \in 1 .. Len(s) - 1 : t[j] = IF j < k THEN s[j] ELSE s[j + 1]
    <2>1. /\ Len(Cut(s, k)) = Len(s) - 1
          /\ \A d : InChain(Cut(s, k), d) <=> InChain(s, d) /\ d # s[k]
          /\ \A j \in 1 .. Len(s) - 1 : Cut(s, k)[j] = IF j < k THEN s[j] ELSE s[j + 1]
      BY CutIsOrder
    <2> QED
      BY <1>1, <2>1
  <1>3. PICK n \in Nat : n = Len(s)
    BY OrderFacts
  <1>4. /\ s[k] \in Cells /\ \A i \in 1 .. n : s[i] \in Cells /\ ptr[s[i]] \in Values /\ (s[i] = s[k] => i = k)
    BY <1>3, OrderFacts DEF InOrder
  <1>5. /\ next' = [next EXCEPT ![Before(s, k)] = next[s[k]], ![s[k]] = junk]
        /\ ptr' = [ptr EXCEPT ![s[k]] = junk]
        /\ used' = used \ {s[k]}
    BY DEF Unlink
  <1>6. NextOK /\ ptr \in [Cells -> Values \cup {junk}] /\ used \subseteq Cells /\ Linked(s)
    BY DEF LinkInv, LinkTypeOK, NextOK, InOrder
  <1>7. Linked(t)'
    <2>1. Linked(Cut(s, k))'
      BY <1>5, <1>6, CutIsLinked
    <2> QED
      BY <1>1, <2>1 DEF Linked
  <1>8. \A j \in 1 .. n - 1 : ptr'[t[j]] = IF j < k THEN ptr[s[j]] ELSE ptr[s[j + 1]]
    <2>1. ASSUME NEW j \in 1 .. n - 1, j < k
          PROVE  ptr'[t[j]] = ptr[s[j]]
      BY <1>2, <1>3, <1>4, <1>5, <1>6, <2>1
    <2>2. ASSUME NEW j \in 1 .. n - 1, ~(j < k)
          PROVE  ptr'[t[j]] = ptr[s[j + 1]]
      <3>1. PICK i \in 1 .. n : i = j + 1 /\ i # k
        BY <1>3, <2>2
      <3>2. t[j] = s[i]
        BY <1>2, <1>3, <2>2, <3>1
      <3> QED
        BY <1>4, <1>5, <1>6, <3>1, <3>2
    <2> QED
      BY <2>1, <2>2
  <1>9. \A j \in 1 .. Len(t) : ptr'[t[j]] \in Values
    <2>1. ASSUME NEW j \in 1 .. n - 1
          PROVE  ptr'[t[j]] \in Values
      <3>1. CASE j < k
        BY <1>3, <1>4, <1>8, <3>1
      <3>2. CASE ~(j < k)
        BY <1>3, <1>4, <1>8, <3>2
      <3> QED
        BY <3>1, <3>2
    <2> QED
      BY <1>2, <1>3, <2>1
  <1>10. \A c \in Cells : c \in used' <=> InChain(t, c)
    BY <1>2, <1>4, <1>5 DEF InOrder
  <1>11. call' # "free" => num' = Len(t)
    BY <1>2 DEF InOrder
  <1>12. InOrder(t)'
    BY <1>7, <1>9, <1>10, <1>11 DEF InOrder, InChain
  <1>13. next' \in [Cells \cup {header} -> Cells \cup {NULL, junk}]
    BY <1>4, <1>5, <1>6 DEF NextOK
  <1>14. ptr' \in [Cells -> Values \cup {junk}] /\ used' \subseteq Cells
    BY <1>4, <1>5, <1>6
  <1> QED
    BY <1>1, <1>2, <1>3, <1>4, <1>8, <1>12, <1>13, <1>14 DEF InOrder, Linked

\* A cell comes at place k: what link_push and link_enque have in common.
LEMMA PutStep ==
  ASSUME LinkInv, call \in {"none", "enque"}, NEW s \in Orders, InOrder(s),
         NEW k \in 1 .. Len(s) + 1, NEW c \in Cells, ~InChain(s, c), call = "enque" => c = q,
         NEW v \in Values, \A d \in Cells : ptr'[d] = IF d = c THEN v ELSE ptr[d],
         next' = [next EXCEPT ![c] = At(s, k), ![Before(s, k)] = c],
         used' = used \cup {c}, num' = num + 1, call' = "none"
  PROVE  /\ Put(s, k, c) \in Orders /\ InOrder(Put(s, k, c))'
         /\ Len(Put(s, k, c)) = Len(s) + 1
         /\ \A j \in 1 .. Len(s) + 1 :
              ptr'[Put(s, k, c)[j]] = IF j < k THEN ptr[s[j]] ELSE IF j = k THEN v ELSE ptr[s[j - 1]]
         /\ next' \in [Cells \cup {header} -> Cells \cup {NULL, junk}]
  <1>1. PICK t \in Orders : t = Put(s, k, c)
    BY PutIsOrder
  <1>2. /\ Len(t) = Len(s) + 1
        /\ \A d : InChain(t, d) <=> InChain(s, d) \/ d = c
        /\ \A j \in 1 .. Len(s) + 1 : t[j] = IF j < k THEN s[j] ELSE IF j = k THEN c ELSE s[j - 1]
    <2>1. /\ Len(Put(s, k, c)) = Len(s) + 1
          /\ \A d : InChain(Put(s, k, c), d) <=> InChain(s, d) \/ d = c
          /\ \A j \in 1 .. Len(s) + 1 :
               Put(s, k, c)[j] = IF j < k THEN s[j] ELSE IF j = k THEN c ELSE s[j - 1]
      BY PutIsOrder
    <2> QED
      BY <1>1, <2>1
  <1>3. PICK n \in Nat : n = Len(s)
    BY OrderFacts
  <1>4. \A i \in 1 .. n : s[i] \in Cells /\ s[i] # c /\ ptr[s[i]] \in Values
    BY <1>3, OrderFacts DEF InOrder, InChain
  <1>5. NextOK /\ Linked(s) /\ num = n
    BY <1>3 DEF LinkInv, LinkTypeOK, NextOK, InOrder
  <1>6. Linked(t)'
    <2>1. Linked(Put(s, k, c))'
      BY <1>5, PutIsLinked
    <2> QED
      BY <1>1, <2>1 DEF Linked
  <1>7. ASSUME NEW j \in 1 .. n + 1
        PROVE  ptr'[t[j]] = IF j < k THEN ptr[s[j]] ELSE IF j = k THEN v ELSE ptr[s[j - 1]]
    <2>1. CASE j < k
      BY <1>2, <1>3, <1>4, <2>1
    <2>2. CASE j = k
      BY <1>2, <1>3, <2>2
    <2>3. CASE j > k
      <3>1. PICK i \in 1 .. n : i = j - 1
        BY <1>3, <2>3
      <3>2. t[j] = s[i]
        BY <1>2, <1>3, <2>3, <3>1
      <3> QED
        BY <1>4, <2>3, <3>1, <3>2
    <2> QED
      BY <1>3, <2>1, <2>2, <2>3
  <1>8. \A j \in 1 .. Len(t) : ptr'[t[j]] \in Values
    <2>1. ASSUME NEW j \in 1 .. n + 1
          PROVE  ptr'[t[j]] \in Values
      <3>1. CASE j < k
        BY <1>3, <1>4, <1>7, <3>1
      <3>2. CASE j = k
        BY <1>7, <3>2
      <3>3. CASE j > k
        <4>1. PICK i \in 1 .. n : i = j - 1
          BY <1>3, <3>3
        <4> QED
          BY <1>4, <1>7, <3>3, <4>1
      <3> QED
        BY <1>3, <3>1, <3>2, <3>3
    <2> QED
      BY <1>2, <1>3, <2>1
  <1>9. \A d \in Cells : d \in used' <=> InChain(t, d)
    BY <1>2 DEF InOrder
  <1>10. num' = Len(t)
    BY <1>2, <1>3, <1>5
  <1>11. InOrder(t)'
    BY <1>6, <1>8, <1>9, <1>10 DEF InOrder, InChain
  <1>12. next' \in [Cells \cup {header} -> Cells \cup {NULL, junk}]
    <2>1. At(s, k) \in Cells \cup {NULL} /\ Before(s, k) \in Cells \cup {header}
      BY OrderFacts, BeforeFacts DEF At
    <2> QED
      BY <1>5, <2>1 DEF NextOK
  <1>13. /\ Put(s, k, c) \in Orders /\ InOrder(Put(s, k, c))' /\ Len(Put(s, k, c)) = Len(s) + 1
    BY <1>1, <1>2, <1>11 DEF InOrder, Linked
  <1>14. \A j \in 1 .. Len(s) + 1 :
           ptr'[Put(s, k, c)[j]] = IF j < k THEN ptr[s[j]] ELSE IF j = k THEN v ELSE ptr[s[j - 1]]
    BY <1>1, <1>3, <1>7
  <1> QED
    BY <1>12, <1>13, <1>14

-----------------------------------------------------------------------------
\* One step per action: the invariant is kept, and the list takes a step or none.

\* What the list is at a step.
TheList == IF call = "free" THEN <<>> ELSE Contents
ListStep == List!ListNext \/ UNCHANGED <<made /\ call # "free", TheList, result>>

Ops == {"none", "make", "free", "push", "enque", "pop", "deque", "find", "rm"}
Results == [op : Ops, val : Values \cup {NULL}, ret : Values \cup {NULL, 0, -1}]

LEMMA ReturnsResult ==
  ASSUME NEW o \in Ops, NEW v \in Values \cup {NULL}, NEW r \in Values \cup {NULL, 0, -1},
         Returns(o, v, r)
  PROVE  result' \in Results
  BY DEF Returns, Results

LEMMA MakeStep ==
  ASSUME LinkInv, Make
  PROVE  LinkInv' /\ ListStep
  <1>1. CASE made' = TRUE /\ num' = 0 /\ next' = [next EXCEPT ![header] = NULL]
             /\ Returns("make", NULL, 0) /\ UNCHANGED <<ptr, used>>
    <2>1. <<>> \in Orders /\ Len(<<>>) = 0
      <3>1. <<>> \in Seq(Cells) /\ \A i, j \in 1 .. Len(<<>>) : <<>>[i] = <<>>[j] => i = j
        OBVIOUS
      <3> QED
        BY <3>1, OrdersAre
    <2>2. InOrder(<<>>)'
      BY <1>1, <2>1 DEF InOrder, Linked, LinkInv, LinkTypeOK, Make, Idle, InChain, locals
    <2>3. LinkTypeOK'
      <3>1. result' \in Results
        BY <1>1, ReturnsResult DEF Ops
      <3> QED
        BY <1>1, <3>1 DEF LinkInv, LinkTypeOK, Make, Idle, locals, Results, Ops
    <2>4. LinkInv'
      BY <1>1, <2>1, <2>2, <2>3 DEF LinkInv, Typed, Make, Idle, locals
    <2>5. Contents' = <<>>
      BY <2>1, <2>2, NoContentsNext
    <2>6. List!MakeList
      BY <1>1, <2>5 DEF List!MakeList, List!Returned, Returns, Make, Idle, locals
    <2> QED
      BY <2>4, <2>6 DEF ListStep, List!ListNext
  <1>2. CASE Returns("make", NULL, -1) /\ UNCHANGED <<made, heap>>
    <2>1. Contents = <<>> /\ Contents' = <<>>
      BY <1>2, NoContents, NoContentsNext DEF Make
    <2>2. LinkInv'
      <3>1. result' \in Results
        BY <1>2, ReturnsResult DEF Ops
      <3> QED
        BY <1>2, <3>1 DEF LinkInv, LinkTypeOK, Typed, Make, Idle, locals, heap, Results, Ops
    <2>3. List!Refused
      BY <1>2, <2>1 DEF List!Refused, List!Only, List!Returned, Returns, Make, Idle, locals
    <2> QED
      BY <2>2, <2>3 DEF ListStep, List!ListNext
  <1> QED
    BY <1>1, <1>2 DEF Make

\* A call that is not a loop and changes nothing but the result.
LEMMA SameChain ==
  ASSUME NEW s \in Orders, made, made', InOrder(s), InOrder(s)',
         \A i \in 1 .. Len(s) : ptr'[s[i]] = ptr[s[i]]
  PROVE  Contents' = Contents
  <1>1. /\ Contents \in Seq(Values) /\ Len(Contents) = Len(s)
        /\ \A i \in 1 .. Len(s) : Contents[i] = ptr[s[i]]
    BY ContentsAre
  <1>2. /\ Contents' \in Seq(Values) /\ Len(Contents') = Len(s)
        /\ \A i \in 1 .. Len(s) : Contents'[i] = ptr'[s[i]]
    BY ContentsAreNext
  <1> QED
    BY <1>1, <1>2, SeqEqual

LEMMA SameMemory ==
  ASSUME UNCHANGED <<made, next, ptr>>
  PROVE  Contents' = Contents
  BY DEF Contents, Chain, Linked

\* The chain is as before while the call is none, free or just over.
LEMMA SameOrder ==
  ASSUME LinkInv, made, UNCHANGED <<made, heap>>, call # "enque", call' \in {"none", "free"},
         call = "free" => call' = "free"
  PROVE  \E s \in Orders : InOrder(s)'
  <1>1. PICK s \in Orders : InOrder(s)
    BY DEF LinkInv
  <1>2. InOrder(s)'
    BY <1>1 DEF InOrder, Linked, heap, InChain
  <1> QED
    BY <1>2

LEMMA RefuseStep ==
  ASSUME LinkInv, Refuse
  PROVE  LinkInv' /\ ListStep
  <1>1. PICK v \in Values, op \in {"push", "enque"} : Returns(op, v, -1)
    BY DEF Refuse
  <1>2. result' \in Results
    BY <1>1, ReturnsResult DEF Ops
  <1>3. LinkTypeOK' /\ Typed'
    BY <1>2 DEF LinkInv, LinkTypeOK, Typed, Refuse, Idle, locals, heap, Results, Ops
  <1>4. made => \E s \in Orders : InOrder(s)'
    BY SameOrder DEF Refuse, Idle, locals
  <1>5. LinkInv'
    BY <1>3, <1>4 DEF LinkInv, Refuse, Idle, locals, heap
  <1>6. Contents' = Contents
    BY SameMemory DEF Refuse, heap
  <1>7. List!Refused
    BY <1>1, <1>6 DEF List!Refused, List!Only, List!Returned, Returns, Refuse, Idle, locals
  <1> QED
    BY <1>5, <1>7 DEF ListStep, List!ListNext

LEMMA FindsEmptyStep ==
  ASSUME LinkInv, FindsEmpty
  PROVE  LinkInv' /\ ListStep
  <1>1. PICK op \in {"pop", "deque"} : Returns(op, NULL, NULL)
    BY DEF FindsEmpty
  <1>2. result' \in Results
    BY <1>1, ReturnsResult DEF Ops
  <1>3. LinkTypeOK' /\ Typed'
    BY <1>2 DEF LinkInv, LinkTypeOK, Typed, FindsEmpty, Idle, locals, heap, Results, Ops
  <1>4. made => \E s \in Orders : InOrder(s)'
    BY SameOrder DEF FindsEmpty, Idle, locals
  <1>5. LinkInv'
    BY <1>3, <1>4 DEF LinkInv, FindsEmpty, Idle, locals, heap
  <1>6. Contents' = Contents
    BY SameMemory DEF FindsEmpty, heap
  <1>7. Contents = <<>>
    <2>1. CASE ~made
      BY <2>1, NoContents
    <2>2. CASE made
      <3>1. PICK s \in Orders : InOrder(s)
        BY <2>2 DEF LinkInv
      <3>2. s[1] \in Cells \/ Len(s) = 0
        BY OrderFacts
      <3>3. Len(s) = 0
        BY <2>2, <3>1, <3>2, LinkAssumption, OrderFacts DEF FindsEmpty, InOrder, Linked
      <3> QED
        BY <3>1, <3>3, NoContents
    <2> QED
      BY <2>1, <2>2
  <1>8. List!Empty
    BY <1>1, <1>6, <1>7 DEF List!Empty, List!Only, List!Returned, Returns, FindsEmpty, Idle, locals
  <1> QED
    BY <1>5, <1>8 DEF ListStep, List!ListNext

\* From the values place by place to the sequence the list's step makes.
LEMMA IsPushed ==
  ASSUME NEW a \in Seq(Values), NEW b \in Seq(Values), NEW v \in Values, Len(b) = Len(a) + 1,
         b[1] = v, \A j \in 2 .. Len(b) : b[j] = a[j - 1]
  PROVE  b = <<v>> \o a
  <1>1. /\ <<v>> \o a \in Seq(Values) /\ Len(<<v>> \o a) = Len(b)
        /\ \A j \in 1 .. Len(b) : (<<v>> \o a)[j] = IF j <= 1 THEN <<v>>[j] ELSE a[j - 1]
    BY ConcatProperties
  <1>2. ASSUME NEW j \in 1 .. Len(b)
        PROVE  b[j] = (<<v>> \o a)[j]
    BY <1>1
  <1> QED
    BY <1>1, <1>2, SeqEqual

LEMMA IsAppended ==
  ASSUME NEW a \in Seq(Values), NEW b \in Seq(Values), NEW v \in Values, Len(b) = Len(a) + 1,
         b[Len(b)] = v, \A j \in 1 .. Len(a) : b[j] = a[j]
  PROVE  b = Append(a, v)
  <1>1. /\ Append(a, v) \in Seq(Values) /\ Len(Append(a, v)) = Len(a) + 1
        /\ \A j \in 1 .. Len(a) : Append(a, v)[j] = a[j]
        /\ Append(a, v)[Len(a) + 1] = v
    BY AppendProperties
  <1>2. ASSUME NEW j \in 1 .. Len(b)
        PROVE  b[j] = Append(a, v)[j]
    BY <1>1
  <1> QED
    BY <1>1, <1>2, SeqEqual

LEMMA IsTail ==
  ASSUME NEW a \in Seq(Values), NEW b \in Seq(Values), Len(a) # 0, Len(b) = Len(a) - 1,
         \A j \in 1 .. Len(b) : b[j] = a[j + 1]
  PROVE  b = Tail(a) /\ Head(a) = a[1] /\ a # <<>>
  <1>1. a # <<>>
    OBVIOUS
  <1>2. /\ Tail(a) \in Seq(Values) /\ Len(Tail(a)) = Len(a) - 1
        /\ \A j \in 1 .. Len(Tail(a)) : Tail(a)[j] = a[j + 1]
    BY <1>1, HeadTailProperties
  <1> QED
    BY <1>1, <1>2, SeqEqual

LEMMA IsFront ==
  ASSUME NEW a \in Seq(Values), NEW b \in Seq(Values), Len(a) # 0, Len(b) = Len(a) - 1,
         \A j \in 1 .. Len(b) : b[j] = a[j]
  PROVE  b = SubSeq(a, 1, Len(a) - 1) /\ a # <<>>
  <1>1. /\ SubSeq(a, 1, Len(a) - 1) \in Seq(Values) /\ Len(SubSeq(a, 1, Len(a) - 1)) = Len(a) - 1
        /\ \A j \in 1 .. Len(a) - 1 : SubSeq(a, 1, Len(a) - 1)[j] = a[j]
    OBVIOUS
  <1> QED
    BY <1>1, SeqEqual

LEMMA IsWithout ==
  ASSUME NEW a \in Seq(Values), NEW b \in Seq(Values), NEW k \in 1 .. Len(a), Len(b) = Len(a) - 1,
         \A j \in 1 .. Len(b) : b[j] = IF j < k THEN a[j] ELSE a[j + 1]
  PROVE  b = SubSeq(a, 1, k - 1) \o SubSeq(a, k + 1, Len(a))
  <1>1. PICK n \in Nat : n = Len(a)
    OBVIOUS
  <1>2. PICK x \in Seq(Values) : x = SubSeq(a, 1, k - 1)
    <2>1. SubSeq(a, 1, k - 1) \in Seq(Values)
      BY SubSeqProperties
    <2> QED
      BY <2>1
  <1>3. PICK y \in Seq(Values) : y = SubSeq(a, k + 1, n)
    <2>1. SubSeq(a, k + 1, n) \in Seq(Values)
      BY <1>1, SubSeqProperties
    <2> QED
      BY <2>1
  <1>4. Len(x) = k - 1 /\ \A j \in 1 .. k - 1 : x[j] = a[j]
    BY <1>1, <1>2
  <1>5. Len(y) = n - k /\ \A j \in 1 .. n - k : y[j] = a[k + j]
    BY <1>1, <1>3
  <1>6. /\ x \o y \in Seq(Values) /\ Len(x \o y) = n - 1
        /\ \A j \in 1 .. n - 1 : (x \o y)[j] = IF j <= k - 1 THEN x[j] ELSE y[j - (k - 1)]
    <2>1. /\ x \o y \in Seq(Values) /\ Len(x \o y) = Len(x) + Len(y)
          /\ \A j \in 1 .. Len(x) + Len(y) : (x \o y)[j] = IF j <= Len(x) THEN x[j] ELSE y[j - Len(x)]
      BY ConcatProperties
    <2>2. Len(x) + Len(y) = n - 1
      BY <1>1, <1>4, <1>5
    <2> QED
      BY <1>4, <2>1, <2>2
  <1>7. ASSUME NEW j \in 1 .. n - 1
        PROVE  b[j] = (x \o y)[j]
    <2>1. CASE j < k
      BY <1>1, <1>4, <1>6, <2>1
    <2>2. CASE ~(j < k)
      <3>1. PICK i \in 1 .. n - k : i = j - (k - 1)
        BY <1>1, <2>2
      <3>2. y[i] = a[k + i] /\ k + i = j + 1
        BY <1>1, <1>5, <3>1
      <3> QED
        BY <1>1, <1>6, <2>2, <3>1, <3>2
    <2> QED
      BY <2>1, <2>2
  <1>8. b = x \o y
    BY <1>1, <1>6, <1>7, SeqEqual
  <1> QED
    BY <1>1, <1>2, <1>3, <1>8

-----------------------------------------------------------------------------
LEMMA PushOnStep ==
  ASSUME LinkInv, PushOn
  PROVE  LinkInv' /\ ListStep
  <1>1. PICK v \in Values, c \in Cells \ used : PushCell(v, c) /\ Returns("push", v, 0)
    BY DEF PushOn
  <1>2. PICK s \in Orders : InOrder(s)
    BY DEF LinkInv, PushOn
  <1>3. /\ 1 \in 1 .. Len(s) + 1 /\ Before(s, 1) = header /\ At(s, 1) = next[header]
        /\ ~InChain(s, c) /\ call = "none" /\ call' = "none" /\ made /\ made'
    BY <1>1, <1>2, OrderFacts, LinkedIs DEF Before, InOrder, PushOn, Idle, locals
  <1>4. ptr \in [Cells -> Values \cup {junk}]
    BY DEF LinkInv, LinkTypeOK
  <1>5. /\ Put(s, 1, c) \in Orders /\ InOrder(Put(s, 1, c))'
        /\ Len(Put(s, 1, c)) = Len(s) + 1
        /\ \A j \in 1 .. Len(s) + 1 :
             ptr'[Put(s, 1, c)[j]] = IF j < 1 THEN ptr[s[j]] ELSE IF j = 1 THEN v ELSE ptr[s[j - 1]]
        /\ next' \in [Cells \cup {header} -> Cells \cup {NULL, junk}]
    <2>1. \A d \in Cells : ptr'[d] = IF d = c THEN v ELSE ptr[d]
      BY <1>1, <1>4 DEF PushCell
    <2> QED
      BY <1>1, <1>2, <1>3, <2>1, PutStep DEF PushCell
  <1>6. result' \in Results
    BY <1>1, ReturnsResult DEF Ops
  <1>7. LinkInv'
    <2>1. LinkTypeOK' /\ Typed'
      BY <1>1, <1>5, <1>6 DEF LinkInv, LinkTypeOK, Typed, PushOn, PushCell, Idle, locals, Results, Ops
    <2> QED
      BY <1>3, <1>5, <2>1 DEF LinkInv
  <1>8. PICK t \in Orders : t = Put(s, 1, c)
    BY <1>5
  <1>9. /\ Contents \in Seq(Values) /\ Len(Contents) = Len(s)
        /\ \A i \in 1 .. Len(s) : Contents[i] = ptr[s[i]]
    BY <1>2, <1>3, ContentsAre
  <1>10. /\ Contents' \in Seq(Values) /\ Len(Contents') = Len(t)
         /\ \A i \in 1 .. Len(t) : Contents'[i] = ptr'[t[i]]
    BY <1>3, <1>5, <1>8, ContentsAreNext
  <1>11. Contents' = <<v>> \o Contents
    <2>1. PICK n \in Nat : n = Len(s)
      BY OrderFacts
    <2>2. Len(t) = n + 1 /\ Len(Contents) = n /\ Len(Contents') = n + 1
      BY <1>5, <1>8, <1>9, <1>10, <2>1
    <2>3. \A j \in 1 .. n + 1 : Contents'[j] = IF j = 1 THEN v ELSE ptr[s[j - 1]]
      BY <1>5, <1>8, <1>10, <2>1, <2>2
    <2>4. Contents'[1] = v
      BY <2>1, <2>3
    <2>5. ASSUME NEW j \in 2 .. n + 1
          PROVE  Contents'[j] = Contents[j - 1]
      <3>1. PICK i \in 1 .. n : i = j - 1
        BY <2>1
      <3> QED
        BY <1>9, <2>1, <2>3, <3>1
    <2> QED
      BY <1>9, <1>10, <2>2, <2>4, <2>5, IsPushed
  <1>12. List!Push(v)
    BY <1>1, <1>3, <1>11 DEF List!Push, List!Returned, Returns
  <1> QED
    BY <1>7, <1>12 DEF ListStep, List!ListNext

\* The first cell, when there is one.
LEMMA FirstCell ==
  ASSUME NEW s \in Orders, Linked(s), next[header] # NULL
  PROVE  1 \in 1 .. Len(s) /\ Len(s) # 0 /\ Before(s, 1) = header /\ s[1] = next[header]
  <1>1. s \in Seq(Cells) /\ Len(s) \in Nat
    BY OrderFacts
  <1> QED
    BY <1>1 DEF Linked, Before

LEMMA PopFirstStep ==
  ASSUME LinkInv, PopFirst
  PROVE  LinkInv' /\ ListStep
  <1>1. PICK s \in Orders : InOrder(s)
    BY DEF LinkInv, PopFirst
  <1>2. /\ 1 \in 1 .. Len(s) /\ Len(s) # 0 /\ Before(s, 1) = header /\ s[1] = next[header]
        /\ call = "none" /\ call' = "none" /\ made /\ made'
    BY <1>1, FirstCell DEF InOrder, PopFirst, Idle, locals
  <1>3. /\ Cut(s, 1) \in Orders /\ InOrder(Cut(s, 1))'
        /\ Len(Cut(s, 1)) = Len(s) - 1
        /\ \A j \in 1 .. Len(s) - 1 : ptr'[Cut(s, 1)[j]] = IF j < 1 THEN ptr[s[j]] ELSE ptr[s[j + 1]]
        /\ ptr[s[1]] \in Values /\ ptr' \in [Cells -> Values \cup {junk}]
        /\ next' \in [Cells \cup {header} -> Cells \cup {NULL, junk}] /\ used' \subseteq Cells
    BY <1>1, <1>2, CutStep DEF PopFirst
  <1>4. Returns("pop", NULL, ptr[s[1]]) /\ result' \in Results
    BY <1>2, <1>3, ReturnsResult DEF Ops, PopFirst
  <1>5. LinkInv'
    <2>1. LinkTypeOK' /\ Typed'
      BY <1>3, <1>4 DEF LinkInv, LinkTypeOK, Typed, PopFirst, Idle, locals, Results, Ops
    <2> QED
      BY <1>2, <1>3, <2>1 DEF LinkInv
  <1>6. PICK t \in Orders : t = Cut(s, 1)
    BY <1>3
  <1>7. /\ Contents \in Seq(Values) /\ Len(Contents) = Len(s)
        /\ \A i \in 1 .. Len(s) : Contents[i] = ptr[s[i]]
    BY <1>1, <1>2, ContentsAre
  <1>8. /\ Contents' \in Seq(Values) /\ Len(Contents') = Len(t)
        /\ \A i \in 1 .. Len(t) : Contents'[i] = ptr'[t[i]]
    BY <1>2, <1>3, <1>6, ContentsAreNext
  <1>9. Contents' = Tail(Contents) /\ Head(Contents) = Contents[1] /\ Contents # <<>>
    <2>1. PICK n \in Nat : n = Len(s)
      BY OrderFacts
    <2>2. Len(t) = n - 1 /\ Len(Contents) = n /\ Len(Contents') = n - 1 /\ n # 0
      BY <1>2, <1>3, <1>6, <1>7, <1>8, <2>1
    <2>3. ASSUME NEW j \in 1 .. n - 1
          PROVE  Contents'[j] = Contents[j + 1]
      <3>1. Contents'[j] = ptr[s[j + 1]]
        BY <1>3, <1>6, <1>8, <2>1, <2>2
      <3>2. j + 1 \in 1 .. n
        BY <2>1
      <3> QED
        BY <1>7, <2>1, <3>1, <3>2
    <2> QED
      BY <1>7, <1>8, <2>2, <2>3, IsTail
  <1>10. List!Pop
    BY <1>2, <1>4, <1>7, <1>9 DEF List!Pop, List!Returned, Returns
  <1> QED
    BY <1>5, <1>10 DEF ListStep, List!ListNext

LEMMA FreePopStep ==
  ASSUME LinkInv, FreePop
  PROVE  LinkInv' /\ ListStep
  <1>1. made /\ made' /\ call = "free" /\ call' = "free"
    BY DEF LinkInv, FreePop, locals
  <1>2. PICK s \in Orders : InOrder(s)
    BY <1>1 DEF LinkInv
  <1>3. 1 \in 1 .. Len(s) /\ Before(s, 1) = header /\ s[1] = next[header]
    BY <1>2, FirstCell DEF InOrder, FreePop
  <1>4. /\ Cut(s, 1) \in Orders /\ InOrder(Cut(s, 1))'
        /\ ptr' \in [Cells -> Values \cup {junk}]
        /\ next' \in [Cells \cup {header} -> Cells \cup {NULL, junk}] /\ used' \subseteq Cells
    BY <1>1, <1>2, <1>3, CutStep DEF FreePop
  <1>5. LinkTypeOK' /\ Typed'
    BY <1>4 DEF LinkInv, LinkTypeOK, Typed, FreePop, locals
  <1>6. LinkInv'
    BY <1>1, <1>4, <1>5 DEF LinkInv
  <1> QED
    BY <1>1, <1>6 DEF ListStep, TheList, FreePop

LEMMA FreeCallStep ==
  ASSUME LinkInv, FreeCall
  PROVE  LinkInv' /\ ListStep
  <1>1. result' \in Results
    BY ReturnsResult DEF Ops, FreeCall
  <1>2. LinkTypeOK' /\ Typed'
    BY <1>1 DEF LinkInv, LinkTypeOK, Typed, FreeCall, Loop, heap, Results, Ops
  <1>3. \E s \in Orders : InOrder(s)'
    BY SameOrder DEF FreeCall, Loop
  <1>4. LinkInv'
    BY <1>2, <1>3 DEF LinkInv, FreeCall
  <1>5. List!FreeList
    BY DEF List!FreeList, List!Returned, FreeCall, Loop, Returns
  <1> QED
    BY <1>4, <1>5 DEF ListStep, List!ListNext

LEMMA FreeHeadStep ==
  ASSUME LinkInv, FreeHead
  PROVE  LinkInv' /\ ListStep
  <1>1. made /\ ~made' /\ call = "free" /\ call' = "none"
    BY DEF LinkInv, FreeHead, Done
  <1>2. PICK s \in Orders : InOrder(s)
    BY <1>1 DEF LinkInv
  <1>3. Len(s) = 0
    <2>1. s[1] \in Cells \/ Len(s) = 0
      BY OrderFacts
    <2> QED
      BY <1>2, <2>1, LinkAssumption, OrderFacts DEF FreeHead, InOrder, Linked
  <1>4. used = {}
    BY <1>1, <1>2, <1>3 DEF InOrder, InChain, LinkInv, LinkTypeOK
  <1>5. LinkTypeOK' /\ Typed'
    <2>1. result' \in Results
      BY DEF LinkInv, LinkTypeOK, FreeHead, Results, Ops
    <2>2. next' \in [Cells \cup {header} -> Cells \cup {NULL, junk}]
      BY DEF LinkInv, LinkTypeOK, FreeHead
    <2>3. num' \in Int /\ ptr' \in [Cells -> Values \cup {junk}] /\ used' \subseteq Cells
      BY DEF LinkInv, LinkTypeOK, FreeHead
    <2> QED
      BY <1>1, <2>1, <2>2, <2>3 DEF LinkTypeOK, Typed, FreeHead, Done, Results, Ops
  <1>6. LinkInv'
    BY <1>1, <1>4, <1>5 DEF LinkInv, FreeHead
  <1>7. Contents' = <<>>
    BY <1>1, NoContentsNext
  <1> QED
    BY <1>1, <1>6, <1>7 DEF ListStep, TheList, FreeHead

-----------------------------------------------------------------------------
\* link_enque.

LEMMA EnqueCallStep ==
  ASSUME LinkInv, EnqueCall
  PROVE  LinkInv' /\ ListStep
  <1>1. PICK v \in Values, c \in Cells \ used :
          /\ used' = used \cup {c}
          /\ ptr' = [ptr EXCEPT ![c] = v]
          /\ next' = [next EXCEPT ![c] = NULL]
          /\ Loop("enque", header, c, v)
    BY DEF EnqueCall
  <1>2. PICK s \in Orders : InOrder(s)
    BY DEF LinkInv, EnqueCall
  <1>3. /\ call = "none" /\ made /\ made' /\ num' = num
        /\ call' = "enque" /\ p' = header /\ q' = c /\ val' = v
    BY <1>1 DEF EnqueCall, Loop
  <1>4. PICK n \in Nat : n = Len(s)
    BY OrderFacts
  <1>5. ~InChain(s, c) /\ \A i \in 1 .. n : s[i] \in Cells /\ s[i] # c
    BY <1>2, <1>3, <1>4, OrderFacts DEF InOrder, InChain
  <1>6. /\ next \in [Cells \cup {header} -> Cells \cup {NULL, junk}]
        /\ ptr \in [Cells -> Values \cup {junk}] /\ used \subseteq Cells
    BY DEF LinkInv, LinkTypeOK
  <1>7. /\ next'[header] = next[header] /\ next'[c] = NULL /\ ptr'[c] = v
        /\ \A i \in 1 .. n : next'[s[i]] = next[s[i]] /\ ptr'[s[i]] = ptr[s[i]]
    BY <1>1, <1>5, <1>6, LinkAssumption
  <1>8. InOrder(s)'
    <2>1. Linked(s)'
      BY <1>2, <1>4, <1>7 DEF InOrder, Linked
    <2>2. \A d \in Cells : d \in used' <=> InChain(s, d) \/ d = c
      BY <1>1, <1>2, <1>3 DEF InOrder
    <2>3. Enqueing(s)'
      <3>1. 1 \in 1 .. Len(s) + 1 /\ p' = Before(s, 1)
        BY <1>3, <1>4 DEF Before
      <3>2. q' \in Cells /\ ~InChain(s, q') /\ ptr'[q'] = val' /\ next'[q'] = NULL
        BY <1>3, <1>5, <1>7
      <3> QED
        BY <3>1, <3>2 DEF Enqueing, InChain, Before
    <2>4. num' = Len(s) /\ \A i \in 1 .. Len(s) : ptr'[s[i]] \in Values
      BY <1>2, <1>3, <1>4, <1>7 DEF InOrder
    <2> QED
      BY <1>3, <2>1, <2>2, <2>3, <2>4 DEF InOrder, InChain
  <1>9. LinkTypeOK' /\ Typed'
    <2>1. result' \in Results
      BY DEF LinkInv, LinkTypeOK, EnqueCall, Results, Ops
    <2>2. /\ next' \in [Cells \cup {header} -> Cells \cup {NULL, junk}]
          /\ ptr' \in [Cells -> Values \cup {junk}] /\ used' \subseteq Cells
      BY <1>1, <1>6
    <2>3. made' \in BOOLEAN /\ num' \in Int
      BY DEF LinkInv, LinkTypeOK, EnqueCall
    <2> QED
      BY <1>3, <2>1, <2>2, <2>3 DEF LinkTypeOK, Typed, Results, Ops
  <1>10. LinkInv'
    BY <1>3, <1>8, <1>9 DEF LinkInv
  <1>11. Contents' = Contents
    BY <1>2, <1>3, <1>4, <1>7, <1>8, SameChain
  <1> QED
    BY <1>3, <1>10, <1>11 DEF ListStep, TheList, EnqueCall

\* A round of a loop: the cursors move over the chain.
LEMMA WalkStep ==
  ASSUME LinkInv, call \in {"enque", "deque", "find", "rm"}, UNCHANGED <<made, heap, call, val, result>>,
         NEW s \in Orders, InOrder(s),
         p' \in Cells \cup {header, NULL}, q' \in Cells \cup {header, NULL},
         call = "enque" => Enqueing(s)' /\ q' = q,
         call = "deque" => Dequeing(s)',
         call \in {"find", "rm"} => Searching(s)'
  PROVE  LinkInv' /\ ListStep
  <1>1. made /\ made' /\ call # "free" /\ call' # "free" /\ call # "none"
    BY DEF LinkInv
  <1>2. InOrder(s)'
    BY <1>1 DEF InOrder, Linked, InChain, heap
  <1>3. LinkTypeOK' /\ Typed'
    <2>1. result' \in Results
      BY DEF LinkInv, LinkTypeOK, Results, Ops
    <2>2. /\ next' \in [Cells \cup {header} -> Cells \cup {NULL, junk}] /\ num' \in Int
          /\ ptr' \in [Cells -> Values \cup {junk}] /\ used' \subseteq Cells /\ made' \in BOOLEAN
      BY DEF LinkInv, LinkTypeOK, heap
    <2> QED
      BY <2>1, <2>2 DEF LinkInv, LinkTypeOK, Typed, Results, Ops
  <1>4. LinkInv'
    BY <1>1, <1>2, <1>3 DEF LinkInv
  <1>5. Contents' = Contents
    BY SameMemory DEF heap
  <1> QED
    BY <1>1, <1>4, <1>5 DEF ListStep, TheList

LEMMA EnqueWalkStep ==
  ASSUME LinkInv, EnqueWalk
  PROVE  LinkInv' /\ ListStep
  <1>1. PICK s \in Orders : InOrder(s)
    BY DEF LinkInv, EnqueWalk
  <1>2. PICK n \in Nat : n = Len(s)
    BY OrderFacts
  <1>3. PICK i \in 1 .. n + 1 : p = Before(s, i)
    BY <1>1, <1>2 DEF EnqueWalk, InOrder, Enqueing
  <1>4. i \in 1 .. n /\ p' = s[i]
    BY <1>1, <1>2, <1>3, LinkedIs DEF At, InOrder, EnqueWalk
  <1>5. i + 1 \in 1 .. Len(s) + 1 /\ p' = Before(s, i + 1) /\ p' \in Cells
    BY <1>2, <1>4, BeforeNext, OrderFacts
  <1>6. q' = q /\ q \in Cells /\ ~InChain(s, q) /\ ptr'[q] = val' /\ next'[q] = NULL /\ val' = val
    BY <1>1 DEF EnqueWalk, InOrder, Enqueing, heap
  <1>7. Enqueing(s)'
    BY <1>5, <1>6 DEF Enqueing, InChain, Before
  <1> QED
    BY <1>1, <1>5, <1>6, <1>7, WalkStep DEF EnqueWalk

LEMMA EnqueLinkStep ==
  ASSUME LinkInv, EnqueLink
  PROVE  LinkInv' /\ ListStep
  <1>1. PICK s \in Orders : InOrder(s)
    BY DEF LinkInv, EnqueLink
  <1>2. PICK n \in Nat : n = Len(s)
    BY OrderFacts
  <1>3. PICK i \in 1 .. n + 1 : p = Before(s, i)
    BY <1>1, <1>2 DEF EnqueLink, InOrder, Enqueing
  <1>4. i = n + 1 /\ At(s, i) = NULL
    BY <1>1, <1>2, <1>3, LinkedIs, OrderFacts DEF At, InOrder, EnqueLink
  <1>5. PICK c \in Cells : c = q /\ ~InChain(s, c) /\ ptr[c] = val
    BY <1>1 DEF EnqueLink, InOrder, Enqueing
  <1>6. PICK v \in Values : v = val
    BY DEF LinkInv, Typed, EnqueLink
  <1>7. made /\ made' /\ call = "enque" /\ call' = "none"
    BY DEF LinkInv, EnqueLink, Done
  <1>8. ptr \in [Cells -> Values \cup {junk}] /\ used \subseteq Cells /\ num \in Int /\ c \in used
    BY <1>1, <1>5, <1>7 DEF LinkInv, LinkTypeOK, InOrder
  <1>9. /\ Put(s, i, c) \in Orders /\ InOrder(Put(s, i, c))'
        /\ Len(Put(s, i, c)) = Len(s) + 1
        /\ \A j \in 1 .. Len(s) + 1 :
             ptr'[Put(s, i, c)[j]] = IF j < i THEN ptr[s[j]] ELSE IF j = i THEN v ELSE ptr[s[j - 1]]
        /\ next' \in [Cells \cup {header} -> Cells \cup {NULL, junk}]
    <2>1. \A d \in Cells : ptr'[d] = IF d = c THEN v ELSE ptr[d]
      BY <1>5, <1>6 DEF EnqueLink
    <2>2. next' = [next EXCEPT ![c] = At(s, i), ![Before(s, i)] = c]
      BY <1>3, <1>4, <1>5 DEF EnqueLink
    <2>3. used' = used \cup {c} /\ num' = num + 1
      BY <1>8 DEF EnqueLink
    <2>4. i \in 1 .. Len(s) + 1 /\ InOrder(s) /\ ~InChain(s, c)
      BY <1>1, <1>2, <1>5
    <2>5. call \in {"none", "enque"} /\ (call = "enque" => c = q) /\ call' = "none"
      BY <1>5, <1>7
    <2> QED
      BY <2>1, <2>2, <2>3, <2>4, <2>5, PutStep
  <1>10. LinkInv'
    <2>1. result' \in Results
      BY <1>6, ReturnsResult DEF Ops, EnqueLink
    <2>2. ptr' \in [Cells -> Values \cup {junk}] /\ used' \subseteq Cells /\ num' \in Int
      BY <1>8 DEF EnqueLink
    <2>3. LinkTypeOK' /\ Typed'
      BY <1>7, <1>9, <2>1, <2>2 DEF LinkTypeOK, Typed, EnqueLink, Done, Results, Ops
    <2> QED
      BY <1>7, <1>9, <2>3 DEF LinkInv
  <1>11. PICK t \in Orders : t = Put(s, i, c)
    BY <1>9
  <1>12. /\ Contents \in Seq(Values) /\ Len(Contents) = n
         /\ \A j \in 1 .. n : Contents[j] = ptr[s[j]]
    BY <1>1, <1>2, <1>7, ContentsAre
  <1>13. /\ Contents' \in Seq(Values) /\ Len(Contents') = n + 1
         /\ \A j \in 1 .. n + 1 : Contents'[j] = ptr'[t[j]]
    <2>1. Len(t) = n + 1
      BY <1>2, <1>9, <1>11
    <2>2. made' /\ InOrder(t)'
      BY <1>7, <1>9, <1>11
    <2>3. /\ Contents' \in Seq(Values) /\ Len(Contents') = Len(t)
          /\ \A j \in 1 .. Len(t) : Contents'[j] = ptr'[t[j]]
      BY <2>2, ContentsAreNext
    <2> QED
      BY <2>1, <2>3
  <1>14. Contents' = Append(Contents, v)
    <2>1. \A j \in 1 .. n + 1 : Contents'[j] = IF j < n + 1 THEN ptr[s[j]] ELSE v
      BY <1>2, <1>4, <1>9, <1>11, <1>13
    <2>2. Contents'[n + 1] = v
      BY <2>1
    <2>3. ASSUME NEW j \in 1 .. n
          PROVE  Contents'[j] = Contents[j]
      BY <1>12, <2>1
    <2> QED
      BY <1>12, <1>13, <2>2, <2>3, IsAppended
  <1>15. List!Enque(v)
    BY <1>6, <1>7, <1>14 DEF List!Enque, List!Returned, Returns, EnqueLink
  <1> QED
    BY <1>10, <1>15 DEF ListStep, List!ListNext

-----------------------------------------------------------------------------
\* link_deque.

LEMMA DequeCallStep ==
  ASSUME LinkInv, DequeCall
  PROVE  LinkInv' /\ ListStep
  <1>1. /\ call = "none" /\ call' = "deque" /\ made /\ made'
        /\ p' = next[header] /\ q' = header /\ val' = NULL
    BY DEF DequeCall, Loop
  <1>2. PICK s \in Orders : InOrder(s)
    BY <1>1 DEF LinkInv
  <1>3. 1 \in 1 .. Len(s) /\ Before(s, 1) = header /\ s[1] = next[header] /\ next[header] \in Cells
    BY <1>2, FirstCell, OrderFacts DEF InOrder, DequeCall
  <1>4. Dequeing(s)'
    BY <1>1, <1>3 DEF Dequeing, Before
  <1>5. InOrder(s)'
    BY <1>1, <1>2, <1>4 DEF InOrder, Linked, InChain, heap, DequeCall
  <1>6. LinkTypeOK' /\ Typed'
    <2>1. result' \in Results
      BY DEF LinkInv, LinkTypeOK, DequeCall, Results, Ops
    <2> QED
      BY <1>1, <1>3, <2>1 DEF LinkInv, LinkTypeOK, Typed, DequeCall, heap, Results, Ops
  <1>7. LinkInv'
    BY <1>1, <1>5, <1>6 DEF LinkInv
  <1>8. Contents' = Contents
    BY SameMemory DEF DequeCall, heap
  <1> QED
    BY <1>1, <1>7, <1>8 DEF ListStep, TheList, DequeCall

LEMMA DequeWalkStep ==
  ASSUME LinkInv, DequeWalk
  PROVE  LinkInv' /\ ListStep
  <1>1. PICK s \in Orders : InOrder(s)
    BY DEF LinkInv, DequeWalk
  <1>2. PICK n \in Nat : n = Len(s)
    BY OrderFacts
  <1>3. PICK i \in 1 .. n : p = s[i] /\ q = Before(s, i)
    BY <1>1, <1>2 DEF DequeWalk, InOrder, Dequeing
  <1>4. i + 1 \in 1 .. n /\ p' = s[i + 1]
    BY <1>1, <1>2, <1>3 DEF InOrder, Linked, DequeWalk
  <1>5. p' \in Cells /\ q' \in Cells /\ q' = Before(s, i + 1)
    BY <1>2, <1>3, <1>4, BeforeNext, OrderFacts DEF DequeWalk
  <1>6. Dequeing(s)'
    BY <1>2, <1>4, <1>5 DEF Dequeing, Before
  <1> QED
    BY <1>1, <1>5, <1>6, WalkStep DEF DequeWalk

LEMMA DequeUnlinkStep ==
  ASSUME LinkInv, DequeUnlink
  PROVE  LinkInv' /\ ListStep
  <1>1. PICK s \in Orders : InOrder(s)
    BY DEF LinkInv, DequeUnlink
  <1>2. PICK n \in Nat : n = Len(s)
    BY OrderFacts
  <1>3. PICK k \in 1 .. n : p = s[k] /\ q = Before(s, k)
    BY <1>1, <1>2 DEF DequeUnlink, InOrder, Dequeing
  <1>4. k = n
    <2>1. k # n => next[s[k]] = s[k + 1] /\ k + 1 \in 1 .. n
      BY <1>1, <1>2 DEF InOrder, Linked
    <2> QED
      BY <1>2, <1>3, <2>1, OrderFacts DEF DequeUnlink
  <1>5. made /\ made' /\ call = "deque" /\ call' = "none" /\ num' = num - 1
    BY DEF LinkInv, DequeUnlink, Done
  <1>6. /\ Cut(s, k) \in Orders /\ InOrder(Cut(s, k))'
        /\ Len(Cut(s, k)) = Len(s) - 1
        /\ \A j \in 1 .. Len(s) - 1 : ptr'[Cut(s, k)[j]] = IF j < k THEN ptr[s[j]] ELSE ptr[s[j + 1]]
        /\ ptr[s[k]] \in Values /\ ptr' \in [Cells -> Values \cup {junk}]
        /\ next' \in [Cells \cup {header} -> Cells \cup {NULL, junk}] /\ used' \subseteq Cells
    <2>1. Unlink(Before(s, k), s[k]) /\ k \in 1 .. Len(s)
      BY <1>2, <1>3 DEF DequeUnlink
    <2> QED
      BY <1>1, <1>5, <2>1, CutStep
  <1>7. LinkInv'
    <2>1. result' \in Results
      BY <1>3, <1>6, ReturnsResult DEF Ops, DequeUnlink
    <2>2. num' \in Int
      BY <1>5 DEF LinkInv, LinkTypeOK
    <2>3. LinkTypeOK' /\ Typed'
      BY <1>5, <1>6, <2>1, <2>2 DEF LinkTypeOK, Typed, DequeUnlink, Done, Results, Ops
    <2> QED
      BY <1>5, <1>6, <2>3 DEF LinkInv
  <1>8. PICK t \in Orders : t = Cut(s, k)
    BY <1>6
  <1>9. /\ Contents \in Seq(Values) /\ Len(Contents) = n
        /\ \A j \in 1 .. n : Contents[j] = ptr[s[j]]
    BY <1>1, <1>2, <1>5, ContentsAre
  <1>10. /\ Contents' \in Seq(Values) /\ Len(Contents') = n - 1
         /\ \A j \in 1 .. n - 1 : Contents'[j] = ptr'[t[j]]
    <2>1. Len(t) = n - 1
      BY <1>2, <1>6, <1>8
    <2>2. made' /\ InOrder(t)'
      BY <1>5, <1>6, <1>8
    <2>3. /\ Contents' \in Seq(Values) /\ Len(Contents') = Len(t)
          /\ \A j \in 1 .. Len(t) : Contents'[j] = ptr'[t[j]]
      BY <2>2, ContentsAreNext
    <2> QED
      BY <2>1, <2>3
  <1>11. Contents' = SubSeq(Contents, 1, Len(Contents) - 1) /\ Contents # <<>>
    <2>1. ASSUME NEW j \in 1 .. n - 1
          PROVE  Contents'[j] = Contents[j]
      BY <1>2, <1>4, <1>6, <1>8, <1>9, <1>10
    <2> QED
      BY <1>9, <1>10, <2>1, IsFront
  <1>12. Returns("deque", NULL, Contents[Len(Contents)])
    BY <1>3, <1>4, <1>9 DEF DequeUnlink
  <1>13. List!Deque
    BY <1>5, <1>11, <1>12 DEF List!Deque, List!Returned, Returns
  <1> QED
    BY <1>7, <1>13 DEF ListStep, List!ListNext

-----------------------------------------------------------------------------
\* link_find and link_rm.

LEMMA SearchCallStep ==
  ASSUME LinkInv, SearchCall
  PROVE  LinkInv' /\ ListStep
  <1>1. /\ call = "none" /\ call' \in {"find", "rm"} /\ made /\ made'
        /\ p' = next[header] /\ q' = header /\ val' \in Values
    BY DEF SearchCall, Loop
  <1>2. PICK s \in Orders : InOrder(s)
    BY <1>1 DEF LinkInv
  <1>3. 1 \in 1 .. Len(s) + 1 /\ Before(s, 1) = header /\ next[header] = At(s, 1)
    BY <1>2, OrderFacts, LinkedIs DEF InOrder, Before
  <1>4. At(s, 1) \in Cells \cup {NULL}
    BY OrderFacts DEF At
  <1>5. Searching(s)'
    BY <1>1, <1>3 DEF Searching, Before, At
  <1>6. InOrder(s)'
    BY <1>1, <1>2, <1>5 DEF InOrder, Linked, InChain, heap, SearchCall
  <1>7. LinkTypeOK' /\ Typed'
    <2>1. result' \in Results
      BY DEF LinkInv, LinkTypeOK, SearchCall, Results, Ops
    <2> QED
      BY <1>1, <1>3, <1>4, <2>1 DEF LinkInv, LinkTypeOK, Typed, SearchCall, heap, Results, Ops
  <1>8. LinkInv'
    BY <1>1, <1>6, <1>7 DEF LinkInv
  <1>9. Contents' = Contents
    BY SameMemory DEF SearchCall, heap
  <1> QED
    BY <1>1, <1>8, <1>9 DEF ListStep, TheList, SearchCall

LEMMA SearchWalkStep ==
  ASSUME LinkInv, SearchWalk
  PROVE  LinkInv' /\ ListStep
  <1>1. PICK s \in Orders : InOrder(s)
    BY DEF LinkInv, SearchWalk
  <1>2. PICK n \in Nat : n = Len(s)
    BY OrderFacts
  <1>3. PICK i \in 1 .. n + 1 : /\ p = At(s, i) /\ \A j \in 1 .. i - 1 : ptr[s[j]] # val
                                /\ call = "rm" => q = Before(s, i)
    BY <1>1, <1>2 DEF SearchWalk, InOrder, Searching
  <1>4. i \in 1 .. n /\ p = s[i]
    BY <1>2, <1>3 DEF At, SearchWalk
  <1>5. i + 1 \in 1 .. n + 1 /\ p = Before(s, i + 1) /\ p \in Cells
    BY <1>2, <1>4, BeforeNext, OrderFacts
  <1>6. p' = At(s, i + 1) /\ At(s, i + 1) \in Cells \cup {NULL}
    BY <1>1, <1>2, <1>5, LinkedIs, OrderFacts DEF InOrder, At, SearchWalk
  <1>7. \A j \in 1 .. i : ptr[s[j]] # val
    BY <1>3, <1>4 DEF SearchWalk
  <1>8. Searching(s)'
    <2>1. i + 1 \in 1 .. Len(s) + 1 /\ (i + 1) - 1 = i
      BY <1>2, <1>5
    <2>2. call' = "rm" => q' = Before(s, i + 1)
      BY <1>5 DEF SearchWalk
    <2>3. \A j \in 1 .. (i + 1) - 1 : ptr'[s[j]] # val'
      BY <1>7, <2>1 DEF SearchWalk, heap
    <2> QED
      BY <1>6, <2>1, <2>2, <2>3 DEF Searching, At, Before
  <1>9. q' \in Cells \cup {header, NULL}
    BY <1>5 DEF LinkInv, LinkTypeOK, SearchWalk
  <1> QED
    BY <1>1, <1>6, <1>8, <1>9, WalkStep DEF SearchWalk

\* Where a search ends without a change.
LEMMA SearchOver ==
  ASSUME LinkInv, call \in {"find", "rm"}, UNCHANGED <<made, heap>>, Done, result' \in Results
  PROVE  LinkInv' /\ Contents' = Contents
  <1>1. made /\ made' /\ call' = "none"
    BY DEF LinkInv, Done
  <1>2. \E s \in Orders : InOrder(s)'
    BY <1>1, SameOrder
  <1>3. LinkTypeOK' /\ Typed'
    BY DEF LinkInv, LinkTypeOK, Typed, Done, heap, Results, Ops
  <1> QED
    BY <1>1, <1>2, <1>3, SameMemory DEF LinkInv, heap

LEMMA SearchMissesStep ==
  ASSUME LinkInv, SearchMisses
  PROVE  LinkInv' /\ ListStep
  <1>1. PICK s \in Orders : InOrder(s)
    BY DEF LinkInv, SearchMisses
  <1>2. PICK n \in Nat : n = Len(s)
    BY OrderFacts
  <1>3. PICK i \in 1 .. n + 1 : p = At(s, i) /\ \A j \in 1 .. i - 1 : ptr[s[j]] # val
    BY <1>1, <1>2 DEF SearchMisses, InOrder, Searching
  <1>4. i = n + 1
    BY <1>2, <1>3, OrderFacts DEF At, SearchMisses
  <1>5. \A j \in 1 .. n : ptr[s[j]] # val
    BY <1>3, <1>4
  <1>6. made /\ made' /\ call \in {"find", "rm"} /\ call' = "none" /\ val \in Values
    BY DEF LinkInv, Typed, SearchMisses, Done
  <1>7. result' \in Results
    BY <1>6, ReturnsResult DEF Ops, SearchMisses
  <1>8. LinkInv' /\ Contents' = Contents
    BY <1>6, <1>7, SearchOver DEF SearchMisses
  <1>9. \A j \in 1 .. Len(Contents) : Contents[j] # val
    BY <1>1, <1>2, <1>5, <1>6, ContentsAre
  <1>10. List!Place(val) = {}
    BY <1>6, <1>9 DEF List!Place
  <1>11. List!Find(val) \/ List!RemoveNone(val)
    BY <1>6, <1>8, <1>10 DEF List!Find, List!RemoveNone, List!Only, List!Returned, Returns, SearchMisses
  <1> QED
    BY <1>6, <1>8, <1>11 DEF ListStep, List!ListNext

LEMMA FindHitsStep ==
  ASSUME LinkInv, FindHits
  PROVE  LinkInv' /\ ListStep
  <1>1. PICK s \in Orders : InOrder(s)
    BY DEF LinkInv, FindHits
  <1>2. PICK n \in Nat : n = Len(s)
    BY OrderFacts
  <1>3. PICK i \in 1 .. n : p = s[i]
    BY <1>1, <1>2 DEF FindHits, InOrder, Searching, At
  <1>4. made /\ made' /\ call = "find" /\ call' = "none" /\ val \in Values
    BY DEF LinkInv, Typed, FindHits, Done
  <1>5. result' \in Results
    BY <1>4, ReturnsResult DEF Ops, FindHits
  <1>6. LinkInv' /\ Contents' = Contents
    BY <1>4, <1>5, SearchOver DEF FindHits
  <1>7. i \in 1 .. Len(Contents) /\ Contents[i] = val
    BY <1>1, <1>2, <1>3, <1>4, ContentsAre DEF FindHits
  <1>8. List!Place(val) # {}
    BY <1>4, <1>7 DEF List!Place
  <1>9. List!Find(val)
    BY <1>4, <1>6, <1>8 DEF List!Find, List!Only, List!Returned, Returns, FindHits
  <1> QED
    BY <1>4, <1>6, <1>9 DEF ListStep, List!ListNext

LEMMA RmUnlinkStep ==
  ASSUME LinkInv, RmUnlink
  PROVE  LinkInv' /\ ListStep
  <1>1. PICK s \in Orders : InOrder(s)
    BY DEF LinkInv, RmUnlink
  <1>2. PICK n \in Nat : n = Len(s)
    BY OrderFacts
  <1>3. PICK k \in 1 .. n : p = s[k] /\ q = Before(s, k) /\ \A j \in 1 .. k - 1 : ptr[s[j]] # val
    BY <1>1, <1>2 DEF RmUnlink, InOrder, Searching, At
  <1>4. made /\ made' /\ call = "rm" /\ call' = "none" /\ num' = num - 1 /\ val \in Values
    BY DEF LinkInv, Typed, RmUnlink, Done
  <1>5. /\ Cut(s, k) \in Orders /\ InOrder(Cut(s, k))'
        /\ Len(Cut(s, k)) = Len(s) - 1
        /\ \A j \in 1 .. Len(s) - 1 : ptr'[Cut(s, k)[j]] = IF j < k THEN ptr[s[j]] ELSE ptr[s[j + 1]]
        /\ ptr[s[k]] \in Values /\ ptr' \in [Cells -> Values \cup {junk}]
        /\ next' \in [Cells \cup {header} -> Cells \cup {NULL, junk}] /\ used' \subseteq Cells
    <2>1. Unlink(Before(s, k), s[k]) /\ k \in 1 .. Len(s)
      BY <1>2, <1>3 DEF RmUnlink
    <2> QED
      BY <1>1, <1>4, <2>1, CutStep
  <1>6. LinkInv'
    <2>1. result' \in Results
      BY <1>4, ReturnsResult DEF Ops, RmUnlink
    <2>2. num' \in Int
      BY <1>4 DEF LinkInv, LinkTypeOK
    <2>3. LinkTypeOK' /\ Typed'
      BY <1>4, <1>5, <2>1, <2>2 DEF LinkTypeOK, Typed, RmUnlink, Done, Results, Ops
    <2> QED
      BY <1>4, <1>5, <2>3 DEF LinkInv
  <1>7. PICK t \in Orders : t = Cut(s, k)
    BY <1>5
  <1>8. /\ Contents \in Seq(Values) /\ Len(Contents) = n
        /\ \A j \in 1 .. n : Contents[j] = ptr[s[j]]
    BY <1>1, <1>2, <1>4, ContentsAre
  <1>9. /\ Contents' \in Seq(Values) /\ Len(Contents') = n - 1
        /\ \A j \in 1 .. n - 1 : Contents'[j] = ptr'[t[j]]
    <2>1. Len(t) = n - 1
      BY <1>2, <1>5, <1>7
    <2>2. made' /\ InOrder(t)'
      BY <1>4, <1>5, <1>7
    <2>3. /\ Contents' \in Seq(Values) /\ Len(Contents') = Len(t)
          /\ \A j \in 1 .. Len(t) : Contents'[j] = ptr'[t[j]]
      BY <2>2, ContentsAreNext
    <2> QED
      BY <2>1, <2>3
  <1>10. Contents' = SubSeq(Contents, 1, k - 1) \o SubSeq(Contents, k + 1, Len(Contents))
    <2>1. ASSUME NEW j \in 1 .. n - 1
          PROVE  Contents'[j] = IF j < k THEN Contents[j] ELSE Contents[j + 1]
      <3>1. Contents'[j] = IF j < k THEN ptr[s[j]] ELSE ptr[s[j + 1]]
        BY <1>2, <1>5, <1>7, <1>9
      <3>2. j \in 1 .. n /\ j + 1 \in 1 .. n
        BY <1>2
      <3> QED
        BY <1>8, <3>1, <3>2
    <2>2. /\ k \in 1 .. Len(Contents) /\ Len(Contents') = Len(Contents) - 1
          /\ \A j \in 1 .. Len(Contents') : Contents'[j] = IF j < k THEN Contents[j] ELSE Contents[j + 1]
      BY <1>8, <1>9, <2>1
    <2>3. Contents \in Seq(Values) /\ Contents' \in Seq(Values)
      BY <1>8, <1>9
    <2> QED
      BY <2>2, <2>3, IsWithout
  <1>11. k \in List!Place(val) /\ \A j \in List!Place(val) : k <= j
    <2>1. k \in 1 .. Len(Contents) /\ Contents[k] = val
      BY <1>3, <1>8 DEF RmUnlink
    <2>2. ASSUME NEW j \in 1 .. Len(Contents), Contents[j] = val
          PROVE  k <= j
      BY <1>3, <1>8, <2>2
    <2> QED
      BY <1>4, <2>1, <2>2 DEF List!Place
  <1>12. List!First(List!Place(val)) = k
    <2>1. \A j \in List!Place(val) : j \in Int
      BY DEF List!Place
    <2>2. \A j \in List!Place(val) : (\A l \in List!Place(val) : j <= l) => j = k
      BY <1>11, <2>1
    <2> QED
      BY <1>11, <2>2 DEF List!First
  <1>13. List!Remove(val)
    BY <1>4, <1>10, <1>11, <1>12 DEF List!Remove, List!Without, List!Returned, Returns, RmUnlink
  <1> QED
    BY <1>4, <1>6, <1>13 DEF ListStep, List!ListNext

-----------------------------------------------------------------------------
LEMMA LinkInvInit == LinkInit => LinkInv
  <1> SUFFICES ASSUME LinkInit
               PROVE  LinkInv
    OBVIOUS
  <1>1. result \in Results
    BY DEF LinkInit, Results, Ops
  <1>2. next \in [Cells \cup {header} -> Cells \cup {NULL, junk}] /\ ptr \in [Cells -> Values \cup {junk}]
    BY DEF LinkInit
  <1>3. LinkTypeOK
    <2>1. made \in BOOLEAN
      BY Zenon DEF LinkInit
    <2>2. num \in Int /\ used \subseteq Cells
      BY DEF LinkInit
    <2>3. /\ call \in {"none", "enque", "deque", "find", "rm", "free"}
          /\ p \in Cells \cup {header, NULL} /\ q \in Cells \cup {header, NULL} /\ val \in Values \cup {NULL}
      BY DEF LinkInit
    <2> QED
      BY <1>1, <1>2, <2>1, <2>2, <2>3 DEF LinkTypeOK, Results, Ops
  <1> QED
    BY <1>3 DEF LinkInit, LinkInv, Typed

LEMMA LinkInvStep ==
  ASSUME LinkInv, LinkNext
  PROVE  LinkInv' /\ ListStep
  BY MakeStep, PushOnStep, RefuseStep, PopFirstStep, FindsEmptyStep,
     EnqueCallStep, DequeCallStep, SearchCallStep, FreeCallStep,
     EnqueWalkStep, EnqueLinkStep, DequeWalkStep, DequeUnlinkStep,
     SearchWalkStep, SearchMissesStep, FindHitsStep, RmUnlinkStep, FreePopStep, FreeHeadStep
  DEF LinkNext, InLoop

LEMMA LinkInvStutter ==
  ASSUME LinkInv, UNCHANGED linkVars
  PROVE  LinkInv' /\ ListStep
  <1>1. LinkInv'
    BY DEF LinkInv, LinkTypeOK, Typed, linkVars, heap, locals, InOrder, Linked, InChain,
           Enqueing, Dequeing, Searching, Before, At
  <1>2. Contents' = Contents
    BY SameMemory DEF linkVars, heap
  <1> QED
    BY <1>1, <1>2 DEF ListStep, TheList, linkVars, locals

\* Whatever is called in whatever order, for any memory and values.
THEOREM LinkInductive == LinkSpec => []LinkInv
  <1>1. LinkInv /\ [LinkNext]_linkVars => LinkInv'
    BY LinkInvStep, LinkInvStutter
  <1> QED
    BY <1>1, LinkInvInit, PTL DEF LinkSpec

\* Every variable of link.c has its type: no loop follows a freed pointer and no
\* call returns one.
THEOREM LinkTypeCorrect == LinkSpec => []LinkTypeOK
  <1>1. LinkInv => LinkTypeOK
    BY DEF LinkInv
  <1> QED
    BY <1>1, LinkInductive, PTL

\* While there is a head its chain ends, and it and the cell link_enque is about
\* to add are all the memory in use: nothing leaks, nothing freed is reached.
THEOREM LinkNeverLeaks == LinkSpec => []NothingLeaksOrDangles
  <1>1. ASSUME LinkInv
        PROVE  NothingLeaksOrDangles
    <2>1. CASE ~made
      <3>1. Chain = <<>> /\ used = {} /\ call = "none"
        BY <1>1, <2>1 DEF LinkInv, Chain
      <3> QED
        BY <2>1, <3>1 DEF NothingLeaksOrDangles
    <2>2. CASE made
      <3>1. PICK s \in Orders : InOrder(s)
        BY <1>1, <2>2 DEF LinkInv
      <3>2. Chain = s
        BY <2>2, <3>1, ChainIs DEF InOrder
      <3>3. used = {s[i] : i \in 1 .. Len(s)} \cup (IF call = "enque" THEN {q} ELSE {})
        <4>1. ASSUME NEW c
              PROVE  c \in used <=> InChain(s, c) \/ (call = "enque" /\ c = q)
          BY <1>1, <3>1, OrderFacts DEF LinkInv, LinkTypeOK, InOrder, InChain, Enqueing
        <4> QED
          BY <4>1 DEF InChain
      <3>4. call = "enque" => \A i \in 1 .. Len(s) : s[i] # q
        BY <3>1 DEF InOrder, Enqueing, InChain
      <3> QED
        BY <3>1, <3>2, <3>3, <3>4 DEF NothingLeaksOrDangles, InOrder
    <2> QED
      BY <2>1, <2>2
  <1> QED
    BY <1>1, LinkInductive, PTL

\* LINK_NUM_ENT is the number of elements, between calls and during them, until
\* link_free begins.
THEOREM LinkCounts == LinkSpec => []NumCounts
  <1>1. ASSUME LinkInv
        PROVE  NumCounts
    BY <1>1, ChainIs DEF NumCounts, LinkInv, InOrder
  <1> QED
    BY <1>1, LinkInductive, PTL

\* The calls are those of a sequence of values: each changes it and returns as it
\* should, and the rounds of a loop in between change nothing.
THEOREM LinkImplementsList == LinkSpec => IsAList
  <1>1. LinkInit => List!ListInit
    BY NoContents DEF LinkInit, List!ListInit, List!Returned
  <1>2. LinkInv /\ [LinkNext]_linkVars => [List!ListNext]_(List!listVars)
    <2>1. ASSUME LinkInv, [LinkNext]_linkVars
          PROVE  ListStep
      BY <2>1, LinkInvStep, LinkInvStutter
    <2> QED
      BY <2>1 DEF ListStep, TheList, List!listVars
  <1> QED
    BY <1>1, <1>2, LinkInductive, PTL DEF LinkSpec, IsAList, List!ListSpec
=============================================================================
