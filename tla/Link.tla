-------------------------------- MODULE Link --------------------------------
(***************************************************************************)
(* link.c: a header and a chain of cells from calloc(), a round of a loop  *)
(* at a time.  One thread calls it, one call after the other.              *)
(***************************************************************************)
EXTENDS Integers, Sequences, FiniteSets

CONSTANTS Cells,   \* the memory calloc() has for cells
          Values, NULL,
          header,  \* the address of the head
          junk     \* what memory holds that has been freed

ASSUME LinkAssumption ==
  /\ IsFiniteSet(Cells)
  /\ header \notin Cells /\ NULL \notin Cells \cup {header}
  /\ NULL \notin Values /\ junk \notin Cells \cup Values \cup {header, NULL}

VARIABLES made,    \* the head is allocated
          num,     \* its num
          next,    \* of the head and of every cell
          ptr,     \* of every cell
          used,    \* the cells that are allocated
          call,    \* the loop that runs, or "none"
          p, q,    \* its cursors: p, and p2 or t
          val,     \* its argument
          result   \* the last call and what it returned

heap == <<num, next, ptr, used>>
locals == <<call, p, q, val>>
linkVars == <<made, heap, locals, result>>

Returns(op, v, r) == result' = [op |-> op, val |-> v, ret |-> r]

Idle == call = "none" /\ UNCHANGED locals

\* The call's loop is over.
Done == call' = "none" /\ p' = NULL /\ q' = NULL /\ val' = NULL

\* A loop starts.
Loop(name, p0, q0, v) == call' = name /\ p' = p0 /\ q' = q0 /\ val' = v

-----------------------------------------------------------------------------
Make ==
  /\ Idle /\ ~made
  /\ \/ /\ made' = TRUE /\ num' = 0
        /\ next' = [next EXCEPT ![header] = NULL]
        /\ Returns("make", NULL, 0)
        /\ UNCHANGED <<ptr, used>>
     \/ Returns("make", NULL, -1) /\ UNCHANGED <<made, heap>>

PushCell(v, c) ==
  /\ used' = used \cup {c}
  /\ ptr' = [ptr EXCEPT ![c] = v]
  /\ next' = [next EXCEPT ![c] = next[header], ![header] = c]
  /\ num' = num + 1

PushOn ==
  /\ Idle /\ made
  /\ \E v \in Values, c \in Cells \ used : PushCell(v, c) /\ Returns("push", v, 0)
  /\ UNCHANGED made

\* calloc() has nothing, or there is no list.
Refuse ==
  /\ Idle
  /\ \E v \in Values, op \in {"push", "enque"} : Returns(op, v, -1)
  /\ UNCHANGED <<made, heap>>

\* Mutant: the cell is read after free().
Unlink_AfterFree(before, c) ==
  /\ next' = [next EXCEPT ![before] = junk, ![c] = junk]
  /\ ptr' = [ptr EXCEPT ![c] = junk]
  /\ used' = used \ {c}

\* Cell c, which comes after before, is taken out and freed.
Unlink(before, c) ==
  /\ next' = [next EXCEPT ![before] = next[c], ![c] = junk]
  /\ ptr' = [ptr EXCEPT ![c] = junk]
  /\ used' = used \ {c}

\* Mutant: the value is read after free().
PopFirst_ReadsLate ==
  /\ Idle
  /\ made /\ next[header] # NULL
  /\ Unlink(header, next[header])
  /\ num' = num - 1
  /\ Returns("pop", NULL, ptr'[next[header]])
  /\ UNCHANGED made

PopFirst ==
  /\ Idle
  /\ made /\ next[header] # NULL
  /\ Unlink(header, next[header])
  /\ num' = num - 1
  /\ Returns("pop", NULL, ptr[next[header]])
  /\ UNCHANGED made

\* No list, or nothing on it.
FindsEmpty ==
  /\ Idle
  /\ ~made \/ next[header] = NULL
  /\ \E op \in {"pop", "deque"} : Returns(op, NULL, NULL)
  /\ UNCHANGED <<made, heap>>

-----------------------------------------------------------------------------
\* link_enque: to the last cell, and the new one behind it.
EnqueCall ==
  /\ call = "none" /\ made
  /\ \E v \in Values, c \in Cells \ used :
       /\ used' = used \cup {c}
       /\ ptr' = [ptr EXCEPT ![c] = v]
       /\ next' = [next EXCEPT ![c] = NULL]
       /\ Loop("enque", header, c, v)
  /\ UNCHANGED <<made, num, result>>

\* Mutant: each round begins at the front again.
EnqueWalk_Restarts ==
  /\ call = "enque" /\ next[p] # NULL
  /\ p' = next[header]
  /\ UNCHANGED <<made, heap, call, q, val, result>>

EnqueWalk ==
  /\ call = "enque" /\ next[p] # NULL
  /\ p' = next[p]
  /\ UNCHANGED <<made, heap, call, q, val, result>>

EnqueLink ==
  /\ call = "enque" /\ next[p] = NULL
  /\ next' = [next EXCEPT ![q] = next[p], ![p] = q]
  /\ num' = num + 1
  /\ Returns("enque", val, 0)
  /\ Done
  /\ UNCHANGED <<made, ptr, used>>

\* link_deque: to the last cell, with the one before it.
DequeCall ==
  /\ call = "none" /\ made /\ next[header] # NULL
  /\ Loop("deque", next[header], header, NULL)
  /\ UNCHANGED <<made, heap, result>>

\* Mutant: the second cursor stays at the head.
DequeWalk_OneCursor ==
  /\ call = "deque" /\ next[p] # NULL
  /\ p' = next[p]
  /\ UNCHANGED <<made, heap, call, q, val, result>>

DequeWalk ==
  /\ call = "deque" /\ next[p] # NULL
  /\ q' = p
  /\ p' = next[p]
  /\ UNCHANGED <<made, heap, call, val, result>>

\* Mutant: the head is not counted down.
DequeUnlink_KeepsNum ==
  /\ call = "deque" /\ next[p] = NULL
  /\ Unlink(q, p)
  /\ Returns("deque", NULL, ptr[p])
  /\ Done
  /\ UNCHANGED <<made, num>>

DequeUnlink ==
  /\ call = "deque" /\ next[p] = NULL
  /\ Unlink(q, p)
  /\ num' = num - 1
  /\ Returns("deque", NULL, ptr[p])
  /\ Done
  /\ UNCHANGED made

\* link_find and link_rm: to the first cell with the value.
SearchCall ==
  /\ call = "none" /\ made
  /\ \E op \in {"find", "rm"}, v \in Values : Loop(op, next[header], header, v)
  /\ UNCHANGED <<made, heap, result>>

SearchWalk ==
  /\ call \in {"find", "rm"} /\ p # NULL /\ ptr[p] # val
  /\ q' = IF call = "rm" THEN p ELSE q
  /\ p' = next[p]
  /\ UNCHANGED <<made, heap, call, val, result>>

SearchMisses ==
  /\ call \in {"find", "rm"} /\ p = NULL
  /\ Returns(call, val, NULL)
  /\ Done
  /\ UNCHANGED <<made, heap>>

FindHits ==
  /\ call = "find" /\ p # NULL /\ ptr[p] = val
  /\ Returns("find", val, val)
  /\ Done
  /\ UNCHANGED <<made, heap>>

RmUnlink ==
  /\ call = "rm" /\ p # NULL /\ ptr[p] = val
  /\ Unlink(q, p)
  /\ num' = num - 1
  /\ Returns("rm", val, val)
  /\ Done
  /\ UNCHANGED made

-----------------------------------------------------------------------------
\* link_free: link_pop until it returns NULL, and num once more for each.
FreeCall ==
  /\ call = "none" /\ made
  /\ Loop("free", NULL, NULL, NULL)
  /\ Returns("free", NULL, 0)
  /\ UNCHANGED <<made, heap>>

FreePop ==
  /\ call = "free" /\ next[header] # NULL
  /\ Unlink(header, next[header])
  /\ num' = (num - 1) - 1
  /\ UNCHANGED <<made, locals, result>>

FreeHead ==
  /\ call = "free" /\ next[header] = NULL
  /\ made' = FALSE
  /\ next' = [next EXCEPT ![header] = junk]
  /\ num' = 0
  /\ Done
  /\ UNCHANGED <<ptr, used, result>>

-----------------------------------------------------------------------------
LinkInit ==
  /\ made = FALSE /\ num = 0 /\ used = {}
  /\ next = [c \in Cells \cup {header} |-> junk]
  /\ ptr = [c \in Cells |-> junk]
  /\ call = "none" /\ p = NULL /\ q = NULL /\ val = NULL
  /\ result = [op |-> "none", val |-> NULL, ret |-> 0]

InLoop ==
  \/ EnqueWalk \/ EnqueLink \/ DequeWalk \/ DequeUnlink
  \/ SearchWalk \/ SearchMisses \/ FindHits \/ RmUnlink \/ FreePop \/ FreeHead

LinkNext ==
  \/ Make \/ PushOn \/ Refuse \/ PopFirst \/ FindsEmpty
  \/ EnqueCall \/ DequeCall \/ SearchCall \/ FreeCall
  \/ InLoop

\* The thread that made a call is scheduled.
LinkSpec == LinkInit /\ [][LinkNext]_linkVars /\ WF_linkVars(InLoop)

-----------------------------------------------------------------------------
\* Every variable has its type.
LinkTypeOK ==
  /\ made \in BOOLEAN /\ num \in Int
  /\ next \in [Cells \cup {header} -> Cells \cup {NULL, junk}]
  /\ ptr \in [Cells -> Values \cup {junk}]
  /\ used \subseteq Cells
  /\ call \in {"none", "enque", "deque", "find", "rm", "free"}
  /\ p \in Cells \cup {header, NULL}
  /\ q \in Cells \cup {header, NULL}
  /\ val \in Values \cup {NULL}
  /\ result \in [op : {"none", "make", "free", "push", "enque", "pop", "deque", "find", "rm"},
                 val : Values \cup {NULL}, ret : Values \cup {NULL, 0, -1}]

\* Orders in which different cells can follow each other.
Orders ==
  {s \in UNION {[1 .. n -> Cells] : n \in 0 .. Cardinality(Cells)} :
     \A i, j \in 1 .. Len(s) : s[i] = s[j] => i = j}

\* From the head, next leads through s and ends.
Linked(s) ==
  /\ next[header] = IF s = <<>> THEN NULL ELSE s[1]
  /\ \A i \in 1 .. Len(s) : next[s[i]] = IF i = Len(s) THEN NULL ELSE s[i + 1]

Chain ==
  IF made /\ \E s \in Orders : Linked(s) THEN CHOOSE s \in Orders : Linked(s) ELSE <<>>

\* While there is a head, its chain ends; it and the cell that link_enque is
\* about to add are all the memory in use, and none of it has been freed.
NothingLeaksOrDangles ==
  /\ made => Linked(Chain)
  /\ used = {Chain[i] : i \in 1 .. Len(Chain)} \cup (IF call = "enque" THEN {q} ELSE {})
  /\ call = "enque" => \A i \in 1 .. Len(Chain) : Chain[i] # q

\* LINK_NUM_ENT is the number of elements, between calls and during them, until
\* link_free begins.
NumCounts == made /\ call # "free" => num = Len(Chain)

Contents == [i \in 1 .. Len(Chain) |-> ptr[Chain[i]]]

List == INSTANCE Lists WITH
  exists <- made /\ call # "free",
  list <- IF call = "free" THEN <<>> ELSE Contents

\* Whatever is called in whatever order, the chain is the sequence the calls
\* make, in the right order, and each call returns what it should.
IsAList == List!ListSpec

\* No loop goes round for ever.
CallsReturn == call # "none" ~> call = "none"
=============================================================================
