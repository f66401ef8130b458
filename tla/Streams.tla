------------------------------ MODULE Streams ------------------------------
(***************************************************************************)
(* Where the daemon and each of its peers stand in the stream between      *)
(* them: the inductive invariants behind Framed and RegisteredOnce, which  *)
(* hold whoever dies, and behind ReplyMatches, ReadyIsRegistered and       *)
(* BootReachesServer, which hold while no server is killed.                *)
(*                                                                         *)
(* What a server writes comes in pairs of a header and a text: its         *)
(* registration, then one pair for each boot request.  What makes the      *)
(* invariant long is the stale descriptor: a server may be sent a boot     *)
(* request before its registration is read, and then its registration is   *)
(* taken for the answer and the request for the acknowledgement.           *)
(***************************************************************************)
EXTENDS BrokerSystem

RegisterHeader == Header(BROKER_SERVER_REGISTER, 1)
OkHeader == Header(SERVER_RESOURCES_OK, 1)
RequestHeader(c) == Header(Request[c], 0)

\* What may be left of a pair in a stream: its header alone, all of it, its text.
HeaderOnly(u, h) == Len(u) = 1 /\ u[1] = h
Whole(u, h) == Len(u) = 2 /\ u[1] = h /\ u[2].t = "body"
TextOnly(u) == Len(u) = 1 /\ u[1].t = "body"

\* The connection exists, as far as the daemon knows.
Joined(p) == link[p] \in {"backlog", "up"}

\* It has never existed: nothing was written to it.
Unlinked(p) == up[p] = <<>> /\ down[p] = <<>>

\* What the daemon is doing with p's connection.
Mode(p) ==
  IF \/ pc \in Serving /\ fds[cur] = p
     \/ pc \in {"boot_header", "boot_body"} /\ fds[BootFd] = p
  THEN pc ELSE "idle"

Asked(m) == m \in {"boot_header", "boot_body"}

\* The daemon has read the header of a pair and not its text.
Halfway(m) == m \in {"register_body", "boot_body"}

\* Servers that write nothing more, and those of them whose socket is closed.
Gone == {"idle", "failed", "killed"}
Silent == Gone \cup {"hung"}

Early == {"start", "connected", "header_sent"}

-----------------------------------------------------------------------------
\* The stream of a server: m is the daemon's Mode, u what the daemon has not
\* read, loc where the server is and n the messages it has not read.

\* Whatever the server's state, and even if it died between two writes.
Shape(m, u) ==
  /\ m \notin {"reply_header", "reply_body"}
  /\ m = "register_reply" => u = <<>>
  /\ Halfway(m) => u = <<>> \/ TextOnly(u)
  /\ ~Halfway(m) => \/ u = <<>>
                    \/ HeaderOnly(u, RegisterHeader) \/ Whole(u, RegisterHeader)
                    \/ m = "boot_header" /\ (HeaderOnly(u, OkHeader) \/ Whole(u, OkHeader))

\* The daemon has not read the whole registration.  If it awaits an answer, the
\* boot request is what the server will take for the acknowledgement.
Fresh(m, loc, u, n) ==
  /\ \/ loc \in Early \cup {"registering"} /\ n = (IF Asked(m) THEN 1 ELSE 0)
     \/ loc = "ready" /\ n = 0 /\ Asked(m)
  /\ \/ loc \in {"start", "connected"} /\ u = <<>> /\ m \in {"idle", "boot_header"}
     \/ loc = "header_sent" /\ ~Halfway(m) /\ m # "register_reply" /\ HeaderOnly(u, RegisterHeader)
     \/ loc = "header_sent" /\ Halfway(m) /\ u = <<>>
     \/ loc \in {"registering", "ready"} /\ Halfway(m) /\ TextOnly(u)
     \/ loc \in {"registering", "ready"} /\ m = "register_reply" /\ u = <<>>
     \/ loc \in {"registering", "ready"} /\ m \in {"idle", "boot_header"} /\ Whole(u, RegisterHeader)

\* The registration is read: one acknowledgement, and one answer to a request.
Late(m, loc, u, n) ==
  \/ loc = "registering" /\ m = "idle" /\ u = <<>> /\ n = 1
  \/ loc = "registering" /\ m = "boot_header" /\ u = <<>> /\ n = 2
  \/ loc = "ready" /\ m = "idle" /\ u = <<>> /\ n = 0
  \/ loc = "ready" /\ m = "boot_header" /\ u = <<>> /\ n = 1
  \/ loc = "boot_header" /\ m = "boot_header" /\ u = <<>> /\ n = 0
  \/ loc = "boot_body" /\ m = "boot_header" /\ HeaderOnly(u, OkHeader) /\ n = 0
  \/ loc = "boot_body" /\ m = "boot_body" /\ u = <<>> /\ n = 0
  \/ loc = "ready" /\ m = "boot_header" /\ Whole(u, OkHeader) /\ n = 0
  \/ loc = "ready" /\ m = "boot_body" /\ TextOnly(u) /\ n = 0

Consistent(m, loc, u, n) ==
  /\ Shape(m, u)
  /\ loc \notin Silent => Fresh(m, loc, u, n) \/ Late(m, loc, u, n)

InStep(s) ==
  /\ Consistent(Mode(s), sst[s], up[s], Len(down[s]))
  /\ Mode(s) = "boot_body" => hdr.len # 0
  /\ sst[s] \notin Gone => end[s] = "open"

\* Everything the daemon writes to a server reads as BROKER_OK.
OnlyOks(s) == \A i \in 1 .. Len(down[s]) : down[s][i].op = BROKER_OK

Listed(s) == \E i \in 1 .. Len(servers) : servers[i].name = s

\* The registration of a server on the list is over.
ListedInStep(s) ==
  /\ sst[s] \notin Early
  /\ Joined(s) => /\ Mode(s) \notin {"register_body", "register_reply"}
                  /\ up[s] # <<>> => up[s][1] # RegisterHeader

ServerStream(s) ==
  /\ link[s] = "none" => Unlinked(s) /\ sst[s] \in {"start", "failed"}
  /\ Joined(s) => InStep(s)
  /\ OnlyOks(s)
  /\ Listed(s) => ListedInStep(s)

-----------------------------------------------------------------------------
\* The stream of a client is its request.

ClientInStep(m, loc, u, req) ==
  \/ m \in {"idle", "boot_header"} /\ u = <<>>
  \/ m \in {"idle", "boot_header"} /\ HeaderOnly(u, req) /\ loc \notin {"start", "connected"}
  \/ m \in {"reply_header", "reply_body", "boot_body"} /\ u = <<>> /\ loc \notin {"start", "connected"}

ClientStream(c) ==
  /\ link[c] = "none" => Unlinked(c) /\ cst[c] \in {"start", "failed"}
  /\ Joined(c) => ClientInStep(Mode(c), cst[c], up[c], RequestHeader(c))

StreamsOK ==
  /\ \A s \in Servers : ServerStream(s)
  /\ \A c \in Clients : ClientStream(c)
  /\ RegisteredOnce

-----------------------------------------------------------------------------
\* While no server is killed; clients and the daemon may be.

NoServerKilled == Mortal = {}

Killed(p) == p \in Clients /\ cst[p] = "killed"

\* Only the daemon ends a connection, or the death of a client.
OpenWhileJoined == \A p \in Peers : Joined(p) => end[p] = "open" \/ Killed(p)

\* The list's descriptors are the connections of its servers.
EntriesOpen ==
  pc # "dead" => \A i \in 1 .. Len(servers) : fds[servers[i].fd] = servers[i].name

\* Who was sent anything, or waits for requests, is on the list.
AcknowledgedIsListed ==
  \A s \in Servers :
    down[s] # <<>> \/ sst[s] \in {"ready", "boot_header", "boot_body"} => Listed(s)

\* epoll reports no hang-up but of a killed client.
NoHangUps == \A e \in ready : e.ev = "in" \/ Killed(e.peer)

OkReply == Header(BROKER_OK, 1)
Answer(c) == Body(IF Request[c] = BROKER_STATUS THEN "status" ELSE "params", 0)
HasAnswer(c) == Request[c] # BROKER_QUEUE_STATUS

\* A client while its connection lasts: m is the daemon's Mode, loc where the
\* client is and d what it has not read.
Answering(m, loc, d) ==
  \/ m = "idle" /\ loc \in {"connected", "waiting"} /\ d = <<>>
  \/ m = "reply_header" /\ loc = "waiting" /\ d = <<>>
  \/ m = "reply_body" /\ loc = "waiting" /\ d = <<OkReply>>
  \/ m = "reply_body" /\ loc = "reading" /\ d = <<>>

\* A client whose connection the daemon has closed, having answered or not.
Answered(c, loc, d) ==
  \/ loc \in {"connected", "waiting", "reading"} /\ d = <<>>
  \/ loc = "waiting" /\ d = <<OkReply>>
  \/ loc = "waiting" /\ d = <<OkReply, Answer(c)>> /\ HasAnswer(c)
  \/ loc = "reading" /\ d = <<Answer(c)>> /\ HasAnswer(c)

ClientAnswer(c) ==
  /\ Joined(c) /\ cst[c] # "killed" =>
       /\ Answering(Mode(c), cst[c], down[c])
       /\ Mode(c) # "idle" => hdr.op = Request[c] /\ HasAnswer(c)
  /\ link[c] = "closed" /\ cst[c] \notin Finished => Answered(c, cst[c], down[c])

AnswersOK ==
  /\ OpenWhileJoined
  /\ EntriesOpen
  /\ AcknowledgedIsListed
  /\ NoHangUps
  /\ \A c \in Clients : ClientAnswer(c)
  /\ ReplyMatches
=============================================================================
