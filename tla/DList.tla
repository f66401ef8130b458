------------------------------- MODULE DList --------------------------------
(***************************************************************************)
(* list.c: circular double linked lists.  An element carries its own two   *)
(* pointers, so it is on one list at a time, and the callers keep that: an *)
(* element is inserted when it is on no list and removed from the list it  *)
(* is on.  One thread calls; a call without a loop is one step.            *)
(***************************************************************************)
EXTENDS Integers, Sequences, FiniteSets

CONSTANTS Heads,     \* the memory listmake() has for heads
          Elements,  \* what the callers put on lists
          null,      \* pointers of memory that calloc() has just cleared
          wild       \* what memory holds that has been freed

ASSUME DListAssumption ==
  /\ IsFiniteSet(Elements)
  /\ Heads \cap Elements = {}
  /\ null \notin Heads \cup Elements
  /\ wild \notin Heads \cup Elements \cup {null} \cup Nat

VARIABLES forw, back,  \* of every head and every element
          ents,        \* num of every head; wild: there is no such list
          freeing,     \* the head listfree works on, or null
          freed,       \* the elements it has given to the caller's function
          reply        \* the last call and what it returned

pointers == <<forw, back>>
dlistVars == <<forw, back, ents, freeing, freed, reply>>

Replies(op, h, r) == reply' = [op |-> op, head |-> h, ret |-> r]

Lists == {h \in Heads : ents[h] # wild}

\* Elements in a row, none of them twice.
Rows ==
  UNION {{s \in [1 .. n -> Elements] : \A i, j \in 1 .. n : s[i] = s[j] => i = j} :
           n \in 0 .. Cardinality(Elements)}

\* The elements of a list of head h stand in a circle with the head.
Nth(h, s, i) == IF i \in 1 .. Len(s) THEN s[i] ELSE h

Leads(h, s) == \A i \in 0 .. Len(s) : forw[Nth(h, s, i)] = Nth(h, s, i + 1)

\* The elements that forw leads through from a head until it is back at it.
Forwards(h) == CHOOSE s \in Rows : Leads(h, s)

On(h) == {Forwards(h)[i] : i \in 1 .. Len(Forwards(h))}

OnNone(e) == \A h \in Lists : e \notin On(h)

Called(h) == freeing = null /\ h \in Lists /\ UNCHANGED <<freeing, freed>>

-----------------------------------------------------------------------------
ListMake(h) ==
  /\ freeing = null /\ h \notin Lists
  /\ forw' = [forw EXCEPT ![h] = h]
  /\ back' = [back EXCEPT ![h] = h]
  /\ ents' = [ents EXCEPT ![h] = 0]
  /\ Replies("listmake", h, h)
  /\ UNCHANGED <<freeing, freed>>

\* Mutant: e->back is set before it is read.
Joined_BackFirst(h, e, e2) ==
  /\ back' = [back EXCEPT ![e] = e2, ![e2] = e2]
  /\ forw' = [forw EXCEPT ![e2] = e]
  /\ ents' = [ents EXCEPT ![h] = @ + 1]

\* e2 goes before e, an element of the list of h or h itself.
Joined(h, e, e2) ==
  /\ forw' = [forw EXCEPT ![back[e]] = e2, ![e2] = e]
  /\ back' = [back EXCEPT ![e2] = back[e], ![e] = e2]
  /\ ents' = [ents EXCEPT ![h] = @ + 1]

ListInsert(h, e, e2) ==
  /\ Called(h) /\ OnNone(e2)
  /\ e \in On(h) \cup {h}
  /\ Joined(h, e, e2)
  /\ Replies("listinsert", h, ents[h] + 1)

ListEnque(h, e2) ==
  /\ Called(h) /\ OnNone(e2)
  /\ Joined(h, h, e2)
  /\ Replies("listenque", h, 0)

\* Mutant: before the head, where listenque puts it.
ListPush_AtHead(h, e2) ==
  /\ Called(h) /\ OnNone(e2)
  /\ Joined(h, h, e2)
  /\ Replies("listpush", h, 0)

ListPush(h, e2) ==
  /\ Called(h) /\ OnNone(e2)
  /\ Joined(h, forw[h], e2)
  /\ Replies("listpush", h, 0)

\* The assignments of listrm.  The element keeps its own pointers.
Taken(h, e) ==
  /\ forw' = [forw EXCEPT ![back[e]] = forw[e]]
  /\ back' = [back EXCEPT ![forw[e]] = back[e]]
  /\ ents' = [ents EXCEPT ![h] = @ - 1]

ListRm(h, e) ==
  /\ Called(h) /\ ents[h] # 0 /\ e \in On(h)
  /\ Taken(h, e)
  /\ Replies("listrm", h, e)

ListRmEmpty(h) ==
  /\ Called(h) /\ ents[h] = 0
  /\ Replies("listrm", h, null)
  /\ UNCHANGED <<pointers, ents>>

\* listdeque, and listpop which calls it.
ListDeque(h, op) ==
  /\ Called(h) /\ forw[h] # h
  /\ Taken(h, forw[h])
  /\ Replies(op, h, forw[h])

ListDequeEmpty(h, op) ==
  /\ Called(h) /\ forw[h] = h
  /\ Replies(op, h, null)
  /\ UNCHANGED <<pointers, ents>>

-----------------------------------------------------------------------------
ListFree(h) ==
  /\ Called(h)
  /\ freeing' = h /\ freed' = <<>>
  /\ UNCHANGED <<pointers, ents, reply>>

\* The function the caller passes, or free(), has the element: its memory is gone.
FreeElement ==
  /\ freeing # null /\ forw[freeing] # freeing
  /\ LET e == forw[freeing]
     IN  /\ forw' = [forw EXCEPT ![back[e]] = forw[e], ![e] = wild]
         /\ back' = [back EXCEPT ![forw[e]] = back[e], ![e] = wild]
         /\ ents' = [ents EXCEPT ![freeing] = @ - 1]
         /\ freed' = Append(freed, e)
  /\ UNCHANGED <<freeing, reply>>

FreeHeader ==
  /\ freeing # null /\ forw[freeing] = freeing
  /\ forw' = [forw EXCEPT ![freeing] = wild]
  /\ back' = [back EXCEPT ![freeing] = wild]
  /\ ents' = [ents EXCEPT ![freeing] = wild]
  /\ Replies("listfree", freeing, freed)
  /\ freeing' = null /\ freed' = <<>>

DListInit ==
  /\ forw = [x \in Heads \cup Elements |-> IF x \in Heads THEN wild ELSE null]
  /\ back = forw
  /\ ents = [h \in Heads |-> wild]
  /\ freeing = null /\ freed = <<>>
  /\ reply = [op |-> "none", head |-> null, ret |-> 0]

InFree == FreeElement \/ FreeHeader

DListNext ==
  \/ \E h \in Heads :
       \/ ListMake(h) \/ ListRmEmpty(h) \/ ListFree(h)
       \/ \E e2 \in Elements : ListEnque(h, e2) \/ ListPush(h, e2) \/ ListRm(h, e2)
       \/ \E e \in Elements \cup Heads, e2 \in Elements : ListInsert(h, e, e2)
       \/ \E op \in {"listdeque", "listpop"} : ListDeque(h, op) \/ ListDequeEmpty(h, op)
  \/ InFree

DListSpec == DListInit /\ [][DListNext]_dlistVars

-----------------------------------------------------------------------------
\* From each head, forw leads through the elements of its list and back to it,
\* back leads through the same elements the other way, and num counts them, also
\* while listfree takes them away: the walk over forw (niogetpeer) and the look
\* at the last element through back (nioasyncread) see one list.
BothWays ==
  \A h \in Lists : \E s \in Rows :
    /\ Leads(h, s)
    /\ \A i \in 0 .. Len(s) : back[Nth(h, s, i + 1)] = Nth(h, s, i)
    /\ ents[h] = Len(s)

\* The elements of every head: those listfree has given away and those left.
Kept ==
  [h \in Heads |-> IF h \notin Lists THEN <<>>
                   ELSE IF h = freeing THEN freed \o Forwards(h) ELSE Forwards(h)]

Deque == INSTANCE Deques WITH made <- Lists, seqs <- Kept, answer <- reply, NULL <- null

\* Whatever is called in whatever order on whichever head, each list is the
\* sequence that the calls make, first come first served or a stack, and each call
\* returns what it should.
AreDeques == Deque!DequeSpec
=============================================================================
