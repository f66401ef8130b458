------------------------------ MODULE RbClient ------------------------------
(***************************************************************************)
(* A client of libresb: rb_broker_status and rb_broker_params, which are   *)
(* one call of nio_client_rw each, and the commands rbstatus and rbparams  *)
(* around them.  nio_client_rw is exported: a program of its own may use   *)
(* it for the requests libresb has no function for.                        *)
(***************************************************************************)
EXTENDS Sockets

CONSTANTS Request,  \* client -> the opcode it sends
          Killable  \* the clients that may be killed

ASSUME RbClientAssumption ==
  /\ Request \in [Clients -> {BROKER_STATUS, BROKER_QUEUE_STATUS, BROKER_PARAMS}]
  /\ Killable \subseteq Clients

VARIABLES cst,   \* client -> where it is
          got    \* client -> what it took for the answer

cVars == <<cst, got>>

CstStates == {"start", "connected", "waiting", "reading", "done", "failed", "killed"}

Finished == {"done", "failed", "killed"}

-----------------------------------------------------------------------------
ClientConnect(c) ==
  /\ cst[c] = "start"
  /\ PeerConnect(c)
  /\ cst' = [cst EXCEPT ![c] = "connected"]
  /\ UNCHANGED got

ClientConnectFails(c) ==
  /\ cst[c] = "start" /\ ~listening
  /\ cst' = [cst EXCEPT ![c] = "failed"]
  /\ UNCHANGED <<got, netVars>>

\* Every request of libresb has an empty body.
SendRequest(c) ==
  /\ cst[c] = "connected"
  /\ PeerWrote(c, Header(Request[c], 0))
  /\ cst' = [cst EXCEPT ![c] = "waiting"]
  /\ UNCHANGED got

ReplyArrives(c) ==
  /\ cst[c] = "waiting"
  /\ PeerReceived(c)
  /\ cst' = [cst EXCEPT ![c] = "reading"]
  /\ UNCHANGED got

\* A header in the place of the body is taken for it, byte by byte.
ReplyBodyArrives(c) ==
  /\ cst[c] = "reading"
  /\ down[c] # <<>>
  /\ got' = [got EXCEPT ![c] = Head(down[c]).what]
  /\ PeerClosed(c, IF Head(down[c]).t = "body" THEN Tail(down[c]) ELSE down[c])
  /\ cst' = [cst EXCEPT ![c] = "done"]

RequestFails(c) ==
  /\ \/ cst[c] = "connected" /\ link[c] = "closed"
     \/ cst[c] \in {"waiting", "reading"} /\ PeerAtEof(c)
  /\ PeerClosed(c, down[c])
  /\ cst' = [cst EXCEPT ![c] = "failed"]
  /\ UNCHANGED got

KillClient(c) ==
  /\ c \in Killable
  /\ cst[c] \notin {"start"} \cup Finished
  /\ PeerClosed(c, down[c])
  /\ cst' = [cst EXCEPT ![c] = "killed"]
  /\ UNCHANGED got

ClientInit ==
  /\ cst = [c \in Clients |-> "start"]
  /\ got = [c \in Clients |-> "nothing"]

ClientRuns(c) ==
  \/ ClientConnectFails(c)
  \/ SendRequest(c)
  \/ ReplyArrives(c)
  \/ ReplyBodyArrives(c)
  \/ RequestFails(c)

ClientStep(c) == ClientConnect(c) \/ ClientRuns(c) \/ KillClient(c)
=============================================================================
