------------------------------- MODULE Lists --------------------------------
(***************************************************************************)
(* What a list promises its callers: a sequence of values, and what each   *)
(* call makes of it and returns.                                           *)
(***************************************************************************)
EXTENDS Integers, Sequences

CONSTANTS Values,  \* what is put on lists: pointers, none of them NULL
          NULL

VARIABLES exists,  \* there is a list
          list,    \* its values, the front first
          result   \* the last call and what it returned

listVars == <<exists, list, result>>

Returned(op, v, r) == [op |-> op, val |-> v, ret |-> r]

\* A call that changes no list.
Only(op, v, r) == result' = Returned(op, v, r) /\ UNCHANGED <<exists, list>>

Place(v) == {i \in 1 .. Len(list) : list[i] = v}

First(S) == CHOOSE i \in S : \A j \in S : i <= j

Without(i) == SubSeq(list, 1, i - 1) \o SubSeq(list, i + 1, Len(list))

-----------------------------------------------------------------------------
MakeList ==
  /\ ~exists
  /\ exists' = TRUE
  /\ list' = <<>>
  /\ result' = Returned("make", NULL, 0)

FreeList ==
  /\ exists
  /\ exists' = FALSE
  /\ list' = <<>>
  /\ result' = Returned("free", NULL, 0)

Push(v) ==
  /\ exists
  /\ list' = <<v>> \o list
  /\ result' = Returned("push", v, 0)
  /\ UNCHANGED exists

Enque(v) ==
  /\ exists
  /\ list' = Append(list, v)
  /\ result' = Returned("enque", v, 0)
  /\ UNCHANGED exists

\* No memory, or no list.
Refused ==
  \/ ~exists /\ Only("make", NULL, -1)
  \/ \E v \in Values, op \in {"push", "enque"} : Only(op, v, -1)

Pop ==
  /\ list # <<>>
  /\ list' = Tail(list)
  /\ result' = Returned("pop", NULL, Head(list))
  /\ UNCHANGED exists

Deque ==
  /\ list # <<>>
  /\ list' = SubSeq(list, 1, Len(list) - 1)
  /\ result' = Returned("deque", NULL, list[Len(list)])
  /\ UNCHANGED exists

Empty == list = <<>> /\ \E op \in {"pop", "deque"} : Only(op, NULL, NULL)

Find(v) == exists /\ Only("find", v, IF Place(v) # {} THEN v ELSE NULL)

\* One of them goes, the first.
Remove(v) ==
  /\ Place(v) # {}
  /\ list' = Without(First(Place(v)))
  /\ result' = Returned("rm", v, v)
  /\ UNCHANGED exists

RemoveNone(v) == exists /\ Place(v) = {} /\ Only("rm", v, NULL)

ListInit == exists = FALSE /\ list = <<>> /\ result = Returned("none", NULL, 0)

ListNext ==
  \/ MakeList \/ FreeList \/ Refused \/ Pop \/ Deque \/ Empty
  \/ \E v \in Values : Push(v) \/ Enque(v) \/ Find(v) \/ Remove(v) \/ RemoveNone(v)

ListSpec == ListInit /\ [][ListNext]_listVars
=============================================================================
