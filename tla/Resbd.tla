------------------------------- MODULE Resbd -------------------------------
(***************************************************************************)
(* The broker daemon: the loop of resbd.c (main, handle_events,            *)
(* handle_connection, manage_resources), the request handlers of clients.c *)
(* and the resource requests of resources.c.  One thread does everything:  *)
(* it takes a batch of events from epoll, handles them one at a time with  *)
(* blocking reads and writes, then looks at the workload of the queues.    *)
(*                                                                         *)
(* The interleaving point is the system call: between two reads or writes  *)
(* of the daemon any peer may connect, write, read, close or die.          *)
(***************************************************************************)
EXTENDS Sockets

CONSTANTS Queues,        \* the queues of the configuration, in file order
          BorrowFactor,  \* queue -> <<pending jobs per step, machines per step>>
          PendJobs,      \* what one look at a queue's file may yield; -1: no file
          Simulate,      \* resbd -S
          MayBeKilled,   \* somebody may kill the daemon
          MaxGiven       \* where the history variable given stops counting

QueueNames == {Queues[i] : i \in 1 .. Len(Queues)}

ASSUME ResbdAssumption ==
  /\ Queues \in Seq(STRING)
  /\ BorrowFactor \in [QueueNames -> Nat \X Nat]
  /\ PendJobs \subseteq Int
  /\ Simulate \in BOOLEAN
  /\ MayBeKilled \in BOOLEAN
  /\ MaxGiven \in Nat

VARIABLES pc,       \* where the daemon's thread is
          ready,    \* the events of this batch not handled yet
          cur,      \* the descriptor of the request being served
          hdr,      \* the last header read
          servers,  \* the registered servers, oldest first
          timer,    \* the static "last" of manage_resources against the clock
          qi,       \* the queue check_queue_workload looks at
          want,     \* the machines that queue needs
          given     \* history: the machines servers reported for each queue

dVars == <<pc, ready, cur, hdr, servers, timer, qi, want, given>>

-----------------------------------------------------------------------------
\* epoll.  The peer in an event is history: the connection the kernel reported.
\* The code only sees the descriptor.  Descriptor 0 stands for the listener.

Event(f, p, ev) == [fd |-> f, peer |-> p, ev |-> ev]

Accepting == Event(0, NoPeer, "in")

HungUp(p) == end[p] \in {"rst", "broken"}

Readable(p) == up[p] # <<>> \/ end[p] \in {"fin", "rst", "broken"}

ReadyEvents ==
  {Event(f, fds[f], IF HungUp(fds[f]) THEN "hup" ELSE "in") :
      f \in {g \in Fd : fds[g] # NoPeer /\ Readable(fds[g])}}
  \cup (IF Backlog = {} THEN {} ELSE {Accepting})

\* epoll_wait returns with whatever is ready, or after 30 seconds with nothing.
EpollWait ==
  /\ pc = "epoll"
  /\ ready' = ReadyEvents
  /\ pc' = "handle"
  /\ UNCHANGED <<cur, hdr, servers, timer, qi, want, given>>
  /\ UNCHANGED netVars

\* SIGPIPE, SIGFPE or SIGSEGV: nothing handles them.
Dies ==
  /\ pc' = "dead"
  /\ ready' = {}
  /\ AllClosed
  /\ UNCHANGED <<cur, hdr, servers, timer, qi, want, given>>

Handled(e) ==
  /\ ready' = ready \ {e}
  /\ UNCHANGED <<servers, timer, qi, want, given>>

-----------------------------------------------------------------------------
\* handle_events: the listener's event.

\* Mutant: accept again until it fails, on a listener that blocks.
Accept_InALoop ==
  /\ pc = "handle"
  /\ Accepting \in ready
  /\ FreeFds # {}
  /\ \E p \in Backlog :
       /\ fds' = [fds EXCEPT ![LowestFd] = p]
       /\ link' = [link EXCEPT ![p] = "up"]
  /\ UNCHANGED <<ready, servers, timer, qi, want, given>>
  /\ UNCHANGED <<pc, cur, hdr, listening, end, up, down>>

Accept ==
  /\ pc = "handle"
  /\ Accepting \in ready
  /\ FreeFds # {}
  /\ \E p \in Backlog :
       /\ fds' = [fds EXCEPT ![LowestFd] = p]
       /\ link' = [link EXCEPT ![p] = "up"]
  /\ Handled(Accepting)
  /\ UNCHANGED <<pc, cur, hdr, listening, end, up, down>>

\* Mutant: out of descriptors, close one and go on with the batch.
AcceptFails_EvictsAndGoesOn ==
  /\ pc = "handle"
  /\ Accepting \in ready
  /\ FreeFds = {}
  /\ \E f \in Fd : Closed(f)
  /\ ready' = ready \ {Accepting}
  /\ UNCHANGED <<pc, cur, hdr, servers, timer, qi, want, given, end, down>>

\* No descriptor left, and the connection stays in the backlog; or addrlen,
\* which nothing sets, is out of range, and the kernel drops the connection.
\* Either way handle_events returns and the rest of the batch is not handled.
AcceptFails ==
  /\ pc = "handle"
  /\ Accepting \in ready
  /\ IF FreeFds = {} THEN UNCHANGED <<link, up>>
     ELSE \E p \in Backlog :
            /\ link' = [link EXCEPT ![p] = "closed"]
            /\ up' = [up EXCEPT ![p] = <<>>]
  /\ ready' = {}
  /\ UNCHANGED <<pc, cur, hdr, servers, timer, qi, want, given>>
  /\ UNCHANGED <<listening, fds, end, down>>

-----------------------------------------------------------------------------
\* handle_events and handle_connection: a connection's event.

ConnError(e) ==
  /\ pc = "handle"
  /\ e \in ready /\ e.ev = "hup"
  /\ Closed(e.fd)
  /\ Handled(e)
  /\ UNCHANGED <<pc, cur, hdr, end, down>>

\* Mutant: the connection is not closed when its header cannot be read.
ReadFails_LeavesItOpen(e) ==
  /\ pc = "handle"
  /\ e \in ready /\ e.fd # 0 /\ e.ev = "in"
  /\ up[fds[e.fd]] = <<>> /\ end[fds[e.fd]] # "open"
  /\ Handled(e)
  /\ UNCHANGED <<pc, cur, hdr, netVars>>

ReadFails(e) ==
  /\ pc = "handle"
  /\ e \in ready /\ e.fd # 0 /\ e.ev = "in"
  /\ up[fds[e.fd]] = <<>> /\ end[fds[e.fd]] # "open"
  /\ Closed(e.fd)
  /\ Handled(e)
  /\ UNCHANGED <<pc, cur, hdr, end, down>>

\* The switch on the opcode.  Mutant: a server is registered from its header.
Dispatch_ForgetsTheBody(op) ==
  IF op = BROKER_SERVER_REGISTER THEN "register_reply" ELSE "reply_header"

Dispatch(op) ==
  CASE op \in {BROKER_STATUS, BROKER_PARAMS} -> "reply_header"
    [] op = BROKER_SERVER_REGISTER -> "register_body"
    [] OTHER -> "handle"

\* A status, parameter or registration request; what the header asks for is
\* done by the steps below, before the next event of the batch.
Serve(e) ==
  /\ pc = "handle"
  /\ e \in ready /\ e.fd # 0 /\ e.ev = "in"
  /\ Received(fds[e.fd])
  /\ cur' = e.fd
  /\ hdr' = Head(up[fds[e.fd]])
  /\ hdr'.op # BROKER_QUEUE_STATUS
  /\ pc' = Dispatch(hdr'.op)
  /\ Handled(e)

\* Mutant: the empty handler's connection is left open.
QueueInfo_LeavesItOpen(e) ==
  /\ pc = "handle"
  /\ e \in ready /\ e.fd # 0 /\ e.ev = "in"
  /\ up[fds[e.fd]] # <<>> /\ Head(up[fds[e.fd]]).op = BROKER_QUEUE_STATUS
  /\ Received(fds[e.fd])
  /\ Handled(e)
  /\ UNCHANGED <<pc, cur, hdr>>

\* queue_info is empty: the connection is closed without an answer.
QueueInfo(e) ==
  /\ pc = "handle"
  /\ e \in ready /\ e.fd # 0 /\ e.ev = "in"
  /\ up[fds[e.fd]] # <<>>
  /\ Head(up[fds[e.fd]]).op = BROKER_QUEUE_STATUS
  /\ Closed(e.fd)
  /\ Handled(e)
  /\ UNCHANGED <<pc, cur, hdr, end, down>>

-----------------------------------------------------------------------------
\* status_info and params_info, and the close that follows either.

Peer == fds[cur]

Local == UNCHANGED <<ready, servers, timer, qi, want, given>>

ReplyHeader ==
  /\ pc = "reply_header"
  /\ IF WriteFails(Peer)
       THEN WriteError(Peer) /\ Closed(cur) /\ pc' = "handle"
       ELSE /\ Wrote(Peer, Header(BROKER_OK, 1))
            /\ pc' = "reply_body"
            /\ UNCHANGED <<listening, fds, link, up>>
  /\ Local
  /\ UNCHANGED <<cur, hdr>>

\* Mutant: BROKER_PARAMS falls through to status_info.
Reply_AlwaysStatus == Body("status", 0)

Reply == Body(IF hdr.op = BROKER_STATUS THEN "status" ELSE "params", 0)

\* Mutant: the connection is left open after the answer.
ReplyBody_LeavesItOpen ==
  /\ pc = "reply_body"
  /\ Wrote(Peer, Reply)
  /\ pc' = "handle"
  /\ Local
  /\ UNCHANGED <<listening, fds, link, up, cur, hdr>>

ReplyBody ==
  /\ pc = "reply_body"
  /\ IF WriteFails(Peer) THEN WriteError(Peer) ELSE Wrote(Peer, Reply)
  /\ Closed(cur)
  /\ pc' = "handle"
  /\ Local
  /\ UNCHANGED <<cur, hdr>>

ReplyKills ==
  /\ pc \in {"reply_header", "reply_body", "register_reply"}
  /\ Sigpipe(Peer)
  /\ Dies

-----------------------------------------------------------------------------
\* server_register.  It returns 0 or -1 and its caller tests for > 0: when it
\* fails the connection stays open, for the next epoll to report.

\* Mutant: server_register returns without a reply.
RegisterBody_NoReply ==
  /\ pc = "register_body"
  /\ Received(Peer)
  /\ servers' = Append(servers, [name |-> Peer, fd |-> cur])
  /\ pc' = "handle"
  /\ UNCHANGED <<ready, timer, qi, want, given, cur, hdr>>

RegisterBody ==
  /\ pc = "register_body"
  /\ Received(Peer)
  /\ pc' = "register_reply"
  /\ Local
  /\ UNCHANGED <<cur, hdr>>

RegisterBodyFails ==
  /\ pc = "register_body"
  /\ ReadError(Peer)
  /\ pc' = "handle"
  /\ Local
  /\ UNCHANGED <<cur, hdr>>

\* link_enque of the new server.  Mutants: srv->socket is never set, and the
\* enqueue is forgotten.
Registered_NoSocket == Append(servers, [name |-> Peer, fd |-> 0])
Registered_Unlisted == servers
Registered == Append(servers, [name |-> Peer, fd |-> cur])

\* Mutant: the test of resbd.c:231 is cc >= 0.
RegisterReply_ThenCloses ==
  /\ pc = "register_reply"
  /\ Wrote(Peer, Header(BROKER_OK, 0))
  /\ Closed(cur)
  /\ servers' = Registered
  /\ pc' = "handle"
  /\ UNCHANGED <<ready, cur, hdr, timer, qi, want, given>>

RegisterReply ==
  /\ pc = "register_reply"
  /\ IF WriteFails(Peer)
       THEN WriteError(Peer) /\ UNCHANGED servers
       ELSE /\ Wrote(Peer, Header(BROKER_OK, 0))
            /\ servers' = Registered
  /\ pc' = "handle"
  /\ UNCHANGED <<ready, cur, hdr, timer, qi, want, given>>
  /\ UNCHANGED <<listening, fds, link, up>>

-----------------------------------------------------------------------------
\* manage_resources and check_queue_workload.

\* Mutant: nobody looks whether a server is registered.
ServersAvailable_Unchecked == Simulate
ServersAvailable == servers # <<>> /\ Simulate

\* Mutant: the ! of resbd.c:260 is lost.
TimeToCheck_WrongWay == timer = "armed"
TimeToCheck == timer = "due"

ManageResources ==
  /\ pc = "handle" /\ ready = {}
  /\ timer' = IF timer = "unset" \/ TimeToCheck THEN "armed" ELSE timer
  /\ IF TimeToCheck /\ ServersAvailable
       THEN pc' = "queue" /\ qi' = 1
       ELSE pc' = "epoll" /\ UNCHANGED qi
  /\ UNCHANGED <<ready, cur, hdr, servers, want, given>>
  /\ UNCHANGED netVars

QueuesDone ==
  /\ pc = "queue" /\ qi > Len(Queues)
  /\ pc' = "epoll"
  /\ UNCHANGED <<ready, cur, hdr, servers, timer, qi, want, given>>
  /\ UNCHANGED netVars

NextQueue ==
  /\ pc' = "queue"
  /\ qi' = qi + 1
  /\ UNCHANGED <<ready, cur, hdr, servers, timer>>

\* get_num_machines.  q->machines is made empty and nothing adds to it.
NumInQueue == 0

NumMachinesNeeded(q, jobs) ==
  LET num == (jobs \div BorrowFactor[q][1]) * BorrowFactor[q][2]
  IN  IF NumInQueue >= num THEN 0 ELSE num - NumInQueue

\* run_simulator up to the request.  A borrow factor that was never configured
\* is zero, and the division by it kills the daemon.
LookAtQueue ==
  /\ pc = "queue" /\ qi <= Len(Queues)
  /\ \E jobs \in PendJobs :
       IF jobs < 0
         THEN NextQueue /\ UNCHANGED <<want, given>> /\ UNCHANGED netVars
       ELSE IF BorrowFactor[Queues[qi]][1] = 0
         THEN Dies
       ELSE IF NumMachinesNeeded(Queues[qi], jobs) = 0
         THEN NextQueue /\ UNCHANGED <<want, given>> /\ UNCHANGED netVars
       ELSE /\ want' = NumMachinesNeeded(Queues[qi], jobs)
            /\ pc' = "boot"
            /\ UNCHANGED <<ready, cur, hdr, servers, timer, qi, given>>
            /\ UNCHANGED netVars

-----------------------------------------------------------------------------
\* get_server_resources: always the first server of the list, and whatever
\* connection its descriptor is today.

BootFd == Head(servers).fd

SendBoot ==
  /\ pc = "boot" /\ fds[BootFd] # NoPeer
  /\ Wrote(fds[BootFd], Header(SERVER_BOOT_RESOURCES, want))
  /\ pc' = "boot_header"
  /\ Local
  /\ UNCHANGED <<cur, hdr, listening, fds, link, up>>

SendBootFails ==
  /\ pc = "boot"
  /\ IF fds[BootFd] = NoPeer THEN UNCHANGED <<end, down>> ELSE WriteError(fds[BootFd])
  /\ NextQueue
  /\ UNCHANGED <<want, given, listening, fds, link, up>>

SendBootKills ==
  /\ pc = "boot" /\ fds[BootFd] # NoPeer
  /\ Sigpipe(fds[BootFd])
  /\ Dies

\* Mutant: the machines that follow the server's header are not read.
BootHeader_IgnoresTheBody ==
  /\ pc = "boot_header"
  /\ Received(fds[BootFd])
  /\ NextQueue
  /\ UNCHANGED <<want, given>>

BootHeader ==
  /\ pc = "boot_header"
  /\ Received(fds[BootFd])
  /\ hdr' = Head(up[fds[BootFd]])
  /\ pc' = "boot_body"
  /\ Local
  /\ UNCHANGED cur

\* Mutant: nio_readblock goes on after read() returned 0.
BootReadFails_RetriesAtEof ==
  /\ pc = "boot_header" \/ pc = "boot_body"
  /\ end[fds[BootFd]] = "rst" /\ ReadError(fds[BootFd])
  /\ NextQueue
  /\ UNCHANGED <<want, given>>

BootReadFails ==
  /\ pc = "boot_header" \/ (pc = "boot_body" /\ hdr.len # 0)
  /\ ReadError(fds[BootFd])
  /\ NextQueue
  /\ UNCHANGED <<want, given>>

Capped(n) == IF n > MaxGiven THEN MaxGiven ELSE n

BootBody ==
  /\ pc = "boot_body" /\ hdr.len # 0
  /\ Received(fds[BootFd])
  /\ given' = [given EXCEPT ![Queues[qi]] = Capped(@ + Head(up[fds[BootFd]]).n)]
  /\ NextQueue
  /\ UNCHANGED want

\* With no body, sscanf runs over a buffer of no bytes and nsend and nbytes stay
\* as they were on the stack: the loop ends or leaves the heap.
BootNoBody ==
  /\ pc = "boot_body" /\ hdr.len = 0
  /\ \/ NextQueue /\ UNCHANGED <<want, given>> /\ UNCHANGED netVars
     \/ Dies

-----------------------------------------------------------------------------
DaemonInit ==
  /\ pc = "epoll"
  /\ ready = {}
  /\ cur = 0
  /\ hdr = Header(0, 0)
  /\ servers = <<>>
  /\ timer = "unset"
  /\ qi = 1
  /\ want = 0
  /\ given = [q \in QueueNames |-> 0]

\* RESOURCE_DETECT_TIMER: ten seconds since the last check.
Elapse ==
  /\ timer = "armed"
  /\ timer' = "due"
  /\ UNCHANGED <<pc, ready, cur, hdr, servers, qi, want, given>>
  /\ UNCHANGED netVars

KillDaemon ==
  /\ MayBeKilled /\ pc # "dead"
  /\ Dies

HandleEvent ==
  \/ Accept
  \/ AcceptFails
  \/ \E e \in ready : ConnError(e)
  \/ \E e \in ready : ReadFails(e)
  \/ \E e \in ready : Serve(e)
  \/ \E e \in ready : QueueInfo(e)

ServeRequest ==
  \/ ReplyHeader
  \/ ReplyBody
  \/ ReplyKills
  \/ RegisterBody
  \/ RegisterBodyFails
  \/ RegisterReply

CheckWorkload ==
  \/ ManageResources
  \/ LookAtQueue
  \/ QueuesDone
  \/ SendBoot
  \/ SendBootFails
  \/ SendBootKills
  \/ BootHeader
  \/ BootReadFails
  \/ BootBody
  \/ BootNoBody

DaemonStep == EpollWait \/ HandleEvent \/ ServeRequest \/ CheckWorkload
=============================================================================
