------------------------------- MODULE Deques -------------------------------
(***************************************************************************)
(* What the intrusive lists of list.c promise: each head has a sequence of *)
(* elements, and an element is on at most one of them.                     *)
(***************************************************************************)
EXTENDS Integers, Sequences

CONSTANTS Heads, Elements, NULL

VARIABLES made,   \* the heads that there are
          seqs,   \* the elements of each head, the front first
          answer  \* the last call and what it returned

dequeVars == <<made, seqs, answer>>

\* The call op on h is over.
Call(op, h) == answer'.op = op /\ answer'.head = h

Returns(r) == answer' = [op |-> answer'.op, head |-> answer'.head, ret |-> r]

Members(h) == {seqs[h][i] : i \in 1 .. Len(seqs[h])}

Free(e) == \A h \in Heads : e \notin Members(h)

Becomes(h, s) == seqs' = [seqs EXCEPT ![h] = s] /\ UNCHANGED made

-----------------------------------------------------------------------------
MakeDeque(h) ==
  /\ Call("listmake", h)
  /\ h \notin made /\ made' = made \cup {h} /\ UNCHANGED seqs
  /\ Returns(h)

\* e2 goes before the element at place i, or to the end.
Insert(h, i, e2) ==
  /\ Call("listinsert", h)
  /\ h \in made /\ Free(e2)
  /\ Becomes(h, SubSeq(seqs[h], 1, i - 1) \o <<e2>> \o SubSeq(seqs[h], i, Len(seqs[h])))
  /\ Returns(Len(seqs[h]) + 1)

AtBack(h, e2) ==
  /\ Call("listenque", h)
  /\ h \in made /\ Free(e2)
  /\ Becomes(h, Append(seqs[h], e2)) /\ Returns(0)

AtFront(h, e2) ==
  /\ Call("listpush", h)
  /\ h \in made /\ Free(e2)
  /\ Becomes(h, <<e2>> \o seqs[h]) /\ Returns(0)

\* listdeque and listpop are the same: the front.
TakeFirst(h, op) ==
  /\ Call(op, h)
  /\ h \in made
  /\ IF seqs[h] = <<>>
       THEN Returns(NULL) /\ UNCHANGED <<made, seqs>>
       ELSE Becomes(h, Tail(seqs[h])) /\ Returns(Head(seqs[h]))

TakeOut(h, i) ==
  /\ Call("listrm", h)
  /\ h \in made
  /\ Becomes(h, SubSeq(seqs[h], 1, i - 1) \o SubSeq(seqs[h], i + 1, Len(seqs[h])))
  /\ Returns(seqs[h][i])

\* Nothing is taken out of an empty list.
TakeNone(h) ==
  /\ Call("listrm", h)
  /\ h \in made /\ seqs[h] = <<>> /\ Returns(NULL) /\ UNCHANGED <<made, seqs>>

\* Each element, from the front, goes to the caller's function.
FreeDeque(h) ==
  /\ Call("listfree", h)
  /\ h \in made /\ made' = made \ {h}
  /\ seqs' = [seqs EXCEPT ![h] = <<>>]
  /\ Returns(seqs[h])

DequeInit ==
  /\ made = {} /\ seqs = [h \in Heads |-> <<>>]
  /\ answer = [op |-> "none", head |-> NULL, ret |-> 0]

DequeNext ==
  \E h \in Heads :
    \/ MakeDeque(h) \/ TakeNone(h) \/ FreeDeque(h)
    \/ \E op \in {"listdeque", "listpop"} : TakeFirst(h, op)
    \/ \E e2 \in Elements : AtBack(h, e2) \/ AtFront(h, e2)
    \/ \E i \in 1 .. Len(seqs[h]) + 1, e2 \in Elements : Insert(h, i, e2)
    \/ \E i \in 1 .. Len(seqs[h]) : TakeOut(h, i)

DequeSpec == DequeInit /\ [][DequeNext]_dequeVars
=============================================================================
