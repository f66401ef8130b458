---------------------------- MODULE BrokerSystem ----------------------------
(***************************************************************************)
(* The broker service: the daemon, the rbserver processes and the clients, *)
(* joined by the kernel's connections.                                     *)
(***************************************************************************)
EXTENDS Resbd, RbServer, RbClient

vars == <<netVars, dVars, sVars, cVars>>

Init == NetInit /\ DaemonInit /\ ServerInit /\ ClientInit

DaemonNext == (DaemonStep \/ Elapse \/ KillDaemon) /\ UNCHANGED <<sVars, cVars>>

ServerNext(s) == ServerStep(s) /\ UNCHANGED <<dVars, cVars>>

ClientNext(c) == ClientStep(c) /\ UNCHANGED <<dVars, sVars>>

Next ==
  \/ DaemonNext
  \/ \E s \in Servers : ServerNext(s)
  \/ \E c \in Clients : ClientNext(c)

Spec == Init /\ [][Next]_vars

\* Every process that can run does, and the clock goes on.  Nobody has to start
\* a server or a client, and nobody has to be killed.
Fairness ==
  /\ WF_vars(DaemonStep /\ UNCHANGED <<sVars, cVars>>)
  /\ WF_vars(Elapse /\ UNCHANGED <<sVars, cVars>>)
  /\ \A s \in Servers : WF_vars(ServerRuns(s) /\ UNCHANGED <<dVars, cVars>>)
  /\ \A c \in Clients : WF_vars(ClientRuns(c) /\ UNCHANGED <<dVars, sVars>>)

FairSpec == Spec /\ Fairness

-----------------------------------------------------------------------------
DaemonTypeOK ==
  /\ pc \in {"epoll", "handle", "reply_header", "reply_body", "register_body",
             "register_reply", "queue", "boot", "boot_header", "boot_body", "dead"}
  /\ ready \subseteq [fd : Fd \cup {0}, peer : Peers \cup {NoPeer}, ev : {"in", "hup"}]
  /\ cur \in Fd \cup {0}
  /\ hdr \in Msg
  /\ servers \in Seq([name : Peers, fd : Fd])
  /\ timer \in {"unset", "armed", "due"}
  /\ qi \in Nat \ {0}
  /\ want \in Nat
  /\ given \in [QueueNames -> Nat]

ProcessTypeOK ==
  /\ sst \in [Servers -> SstStates]
  /\ asked \in [Servers -> Nat]
  /\ cst \in [Clients -> CstStates]
  /\ got \in [Clients -> Contents \cup {"nothing"}]

\* Every variable has its type.
TypeOK == NetTypeOK /\ DaemonTypeOK /\ ProcessTypeOK

\* A connection has one descriptor, and has it exactly while it is established:
\* no handler closes a descriptor twice, or one that was given out again.
FdTableOK ==
  /\ \A f, g \in Fd : fds[f] = fds[g] /\ fds[f] # NoPeer => f = g
  /\ \A p \in Peers : link[p] = "up" <=> \E f \in Fd : fds[f] = p

\* handle_events closes, accepts and serves while it walks the batch, and the
\* events name descriptors: no event of the batch may meet a descriptor that
\* changed hands since epoll reported it.
EventsFresh ==
  \A e \in ready : e.fd # 0 => fds[e.fd] = e.peer

\* What epoll reported still holds when the event is handled: the blocking
\* accept and the blocking read of a header find a connection, data or an end of
\* file, and one silent peer cannot stop the daemon there.
NeverWaitsForAHeader ==
  \A e \in ready : IF e.fd = 0 THEN Backlog # {} ELSE Readable(fds[e.fd])

\* The daemon is always in step with the stream of a connection: where it will
\* read a header the next thing written is a header, even after a failed
\* registration, a failed boot request or a reused descriptor.
Framed ==
  \A f \in Fd :
    LET p == fds[f]
        inBody == \/ pc = "register_body" /\ cur = f
                  \/ pc = "boot_body" /\ BootFd = f
    IN  p # NoPeer /\ up[p] # <<>> => (Head(up[p]).t = "body" <=> inBody)

\* A client that has an answer has the answer to what it asked.
ReplyMatches ==
  \A c \in Clients : cst[c] = "done" =>
    \/ Request[c] = BROKER_STATUS /\ got[c] = "status"
    \/ Request[c] = BROKER_PARAMS /\ got[c] = "params"

\* The list of servers holds each server at most once, and only servers whose
\* whole registration was read.
RegisteredOnce ==
  /\ \A i, j \in 1 .. Len(servers) : servers[i].name = servers[j].name => i = j
  /\ \A i \in 1 .. Len(servers) :
       /\ servers[i].name \in Servers
       /\ sst[servers[i].name] \notin {"start", "connected", "header_sent"}

\* A server that waits for requests is on the broker's list.
ReadyIsRegistered ==
  \A s \in Servers : sst[s] \in {"ready", "boot_header", "boot_body"} =>
    \E i \in 1 .. Len(servers) : servers[i].name = s

\* A boot request is on the connection of the server it is meant for.
BootReachesServer ==
  pc \in {"boot_header", "boot_body"} => fds[BootFd] = Head(servers).name

\* "The broker must compute the difference between the hosts allocated and
\* those still needed": no machine a server gave to a queue is missing from the
\* machines the daemon subtracts when it asks for more.
RequestsTheDifference ==
  pc = "boot_header" => given[Queues[qi]] <= NumInQueue

-----------------------------------------------------------------------------
\* The inductive invariant behind TypeOK, FdTableOK, EventsFresh and
\* NeverWaitsForAHeader.

\* A process that has not connected has no connection.
StartedUnlinked ==
  /\ \A s \in Servers : sst[s] = "start" => link[s] = "none"
  /\ \A c \in Clients : cst[c] = "start" => link[c] = "none"

\* At most one event for a descriptor, each for an open one.
BatchOK ==
  /\ \A e, g \in ready : e.fd = g.fd => e = g
  /\ \A e \in ready : IF e.fd = 0 THEN e = Accepting ELSE e.peer \in Peers

Serving == {"reply_header", "reply_body", "register_body", "register_reply"}

\* The descriptor being served is open, and its event has left the batch.
ServingOK ==
  pc \in Serving => /\ cur \in Fd /\ fds[cur] \in Peers
                    /\ \A e \in ready : e.fd # cur

\* The workload is looked at after the batch, with a server to ask; while its
\* answer is awaited the descriptor asked is open.
CheckingOK ==
  /\ pc \in {"epoll", "queue", "boot", "boot_header", "boot_body", "dead"} => ready = {}
  /\ pc \in {"queue", "boot", "boot_header", "boot_body"} => servers # <<>>
  /\ pc \in {"boot", "boot_header", "boot_body"} => qi <= Len(Queues)
  /\ pc \in {"boot_header", "boot_body"} => fds[BootFd] \in Peers

IInv ==
  /\ TypeOK
  /\ FdTableOK
  /\ EventsFresh
  /\ StartedUnlinked
  /\ BatchOK
  /\ ServingOK
  /\ CheckingOK
  /\ NeverWaitsForAHeader

-----------------------------------------------------------------------------
\* The daemon always comes back to epoll_wait, or it is dead.
ReturnsToEpoll == pc # "epoll" ~> pc \in {"epoll", "dead"}

\* The connection of a peer that closed or died is closed by the daemon.
ClosedPeersReaped ==
  \A p \in Peers : (link[p] = "up" /\ end[p] \in {"fin", "rst", "broken"}) ~> link[p] # "up"

SomebodyDied ==
  \/ pc = "dead"
  \/ \E s \in Servers : sst[s] = "killed"
  \/ \E c \in Clients : cst[c] = "killed"

\* Whoever connects gets an answer or an error, while every process lives: a
\* boot request that the death of a server sends astray may cost a client its
\* answer.
ClientsFinish ==
  \A c \in Clients : cst[c] = "connected" ~> (cst[c] \in Finished \/ SomebodyDied)

\* A registration ends, whoever dies.
ServersSettle ==
  \A s \in Servers : sst[s] = "connected" ~> sst[s] \in {"ready", "failed", "killed"}

\* A server that waits for requests and is sent one reads it, or is killed.
RequestsRead ==
  \A s \in Servers :
    (sst[s] = "ready" /\ down[s] # <<>>) ~> (down[s] = <<>> \/ sst[s] = "killed")

\* A server that waits for requests does not go on waiting for a dead daemon.
DeathNoticed == \A s \in Servers : (pc = "dead" /\ sst[s] = "ready") ~> sst[s] # "ready"

\* When the time is up, the workload is looked at.
WorkloadChecked == timer = "due" ~> (timer = "armed" \/ pc = "dead")
=============================================================================
