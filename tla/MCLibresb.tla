----------------------------- MODULE MCLibresb ------------------------------
(***************************************************************************)
(* The sequential pieces, one at a time: lists of up to three of two       *)
(* values (link.c), two lists over three elements (list.c), messages with  *)
(* bodies of no, one and three bytes through a kernel that holds two       *)
(* (nio.c), and configuration files of up to four lines (ini.c, conf.c).   *)
(***************************************************************************)
EXTENDS Link, DList, NioBlock, MCConf

CONSTANTS c1, c2, c3, v1, v2, h1, h2, e1, e2, e3

MCCells == {c1, c2, c3}
MCValues == {v1, v2}
MCHeads == {h1, h2}
MCElements == {e1, e2, e3}
SomeBodies == {0, 1, 3}

VARIABLE library  \* the one that is called

mcVars == <<library, linkVars, dlistVars, nioVars, confVars>>

LinkCall ==
  library = "link" /\ LinkNext /\ UNCHANGED <<library, dlistVars, nioVars, confVars>>

DListCall ==
  library = "list" /\ DListNext /\ UNCHANGED <<library, linkVars, nioVars, confVars>>

NioCall(A) == library = "nio" /\ A /\ UNCHANGED <<library, linkVars, dlistVars, confVars>>

ConfCall ==
  library = "conf" /\ ConfNext /\ UNCHANGED <<library, linkVars, dlistVars, nioVars>>

MCInit ==
  /\ library \in {"link", "list", "nio", "conf"}
  /\ LinkInit /\ DListInit /\ NioInit /\ ConfInit

MCSpec ==
  /\ MCInit /\ [][LinkCall \/ DListCall \/ NioCall(NioNext) \/ ConfCall]_mcVars
  /\ WF_mcVars(InLoop /\ UNCHANGED <<library, dlistVars, nioVars, confVars>>)
  /\ WF_mcVars(NioCall(ReadBlock)) /\ WF_mcVars(NioCall(ReadSome)) /\ WF_mcVars(NioCall(ReadEnds))
=============================================================================
