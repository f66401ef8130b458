---------------------------- MODULE StreamProofs ----------------------------
(***************************************************************************)
(* Proofs about the daemon's streams and about what the peers may rely on, *)
(* for any number of servers, clients, queues and descriptors.  Whoever    *)
(* dies, the daemon stays in step with every stream (Framed,               *)
(* RegisteredOnce).  While no server is killed, even if clients and the    *)
(* daemon die, a boot request reaches the server it is meant for, a server *)
(* that waits for requests is on the list, and a client's answer is the    *)
(* answer to its request.                                                  *)
(***************************************************************************)
EXTENDS Streams, BrokerProofs

-----------------------------------------------------------------------------
\* Reading and writing one message of a pair.

Modes == {"idle", "reply_header", "reply_body", "register_body", "register_reply",
          "boot_header", "boot_body"}

\* A sequence of no messages is the empty sequence.
LEMMA NoMessages ==
  ASSUME NEW u \in Seq(Msg)
  PROVE  u = <<>> <=> Len(u) = 0
  BY EmptySeq

\* The header of a pair is read.
LEMMA HeadersRead ==
  ASSUME NEW u \in Seq(Msg), NEW h
  PROVE  /\ HeaderOnly(u, h) => u # <<>> /\ Head(u) = h /\ Tail(u) = <<>>
         /\ Whole(u, h) => u # <<>> /\ Head(u) = h /\ TextOnly(Tail(u))
  <1>1. ASSUME Len(u) \in {1, 2}
        PROVE  /\ u # <<>> /\ Head(u) = u[1] /\ Tail(u) \in Seq(Msg) /\ Len(Tail(u)) = Len(u) - 1
               /\ Len(u) = 2 => Tail(u)[1] = u[2]
    <2>1. u # <<>>
      BY <1>1, NoMessages
    <2>2. /\ Head(u) = u[1] /\ Tail(u) \in Seq(Msg) /\ Len(Tail(u)) = Len(u) - 1
          /\ \A i \in 1 .. Len(Tail(u)) : Tail(u)[i] = u[i + 1]
      BY <2>1, HeadTailProperties
    <2>3. ASSUME Len(u) = 2
          PROVE  Tail(u)[1] = u[2]
      <3>1. 1 \in 1 .. Len(Tail(u)) /\ 1 + 1 = 2
        BY <2>2, <2>3
      <3> QED
        BY <2>2, <3>1
    <2> QED
      BY <2>1, <2>2, <2>3
  <1>2. ASSUME HeaderOnly(u, h)
        PROVE  u # <<>> /\ Head(u) = h /\ Tail(u) = <<>>
    <2>1. Len(u) = 1 /\ u[1] = h
      BY <1>2 DEF HeaderOnly
    <2>2. u # <<>> /\ Head(u) = h /\ Tail(u) \in Seq(Msg) /\ Len(Tail(u)) = 0
      BY <1>1, <2>1
    <2> QED
      BY <2>2, NoMessages
  <1>3. ASSUME Whole(u, h)
        PROVE  u # <<>> /\ Head(u) = h /\ TextOnly(Tail(u))
    <2>1. Len(u) = 2 /\ u[1] = h /\ u[2].t = "body"
      BY <1>3 DEF Whole
    <2>2. u # <<>> /\ Head(u) = h /\ Len(Tail(u)) = 1 /\ Tail(u)[1] = u[2]
      BY <1>1, <2>1
    <2> QED
      BY <2>1, <2>2 DEF TextOnly
  <1> QED
    BY <1>2, <1>3

\* The text of a pair is read.
LEMMA TextsRead ==
  ASSUME NEW u \in Seq(Msg), TextOnly(u)
  PROVE  u # <<>> /\ Head(u).t = "body" /\ Tail(u) = <<>>
  BY HeadersRead DEF TextOnly, HeaderOnly

\* A header or a text is written.
LEMMA PairsWritten ==
  ASSUME NEW u \in Seq(Msg), NEW m \in Msg, NEW h
  PROVE  /\ u = <<>> => HeaderOnly(Append(u, m), m)
         /\ u = <<>> /\ m.t = "body" => TextOnly(Append(u, m))
         /\ HeaderOnly(u, h) /\ m.t = "body" => Whole(Append(u, m), h)
  <1>1. /\ Len(Append(u, m)) = Len(u) + 1
        /\ \A i \in 1 .. Len(u) : Append(u, m)[i] = u[i]
        /\ Append(u, m)[Len(u) + 1] = m
    BY AppendProperties
  <1> QED
    BY <1>1, NoMessages DEF HeaderOnly, Whole, TextOnly

LEMMA TwoHeaders ==
  /\ RegisterHeader \in Msg /\ OkHeader \in Msg /\ RegisterHeader # OkHeader
  /\ RegisterHeader.op = BROKER_SERVER_REGISTER /\ RegisterHeader.len = 1 /\ OkHeader.len = 1
  /\ RegisterHeader.t = "hdr" /\ OkHeader.t = "hdr"
  BY MessageTypes DEF RegisterHeader, OkHeader, Header, BROKER_SERVER_REGISTER, SERVER_RESOURCES_OK

-----------------------------------------------------------------------------
\* What a server writes and reads.

\* The registration: its header, its text, and the acknowledgement.
LEMMA ServerRegisters ==
  ASSUME NEW m \in Modes, NEW u \in Seq(Msg), NEW n \in Nat, NEW text \in Msg, text.t = "body"
  PROVE  /\ Consistent("idle", "connected", <<>>, 0)
         /\ Consistent(m, "connected", u, n)
              => Consistent(m, "header_sent", Append(u, RegisterHeader), n)
         /\ Consistent(m, "header_sent", u, n)
              => Consistent(m, "registering", Append(u, text), n)
         /\ Consistent(m, "registering", u, n) /\ n > 0
              => Consistent(m, "ready", u, n - 1)
  <1> USE DEF Consistent, Shape, Fresh, Late, Modes, Early, Silent, Gone, Asked, Halfway
  <1>1. Consistent("idle", "connected", <<>>, 0)
    OBVIOUS
  <1>2. ASSUME Consistent(m, "connected", u, n)
        PROVE  Consistent(m, "header_sent", Append(u, RegisterHeader), n)
    BY <1>2, PairsWritten, TwoHeaders
  <1>3. ASSUME Consistent(m, "header_sent", u, n)
        PROVE  Consistent(m, "registering", Append(u, text), n)
    BY <1>3, PairsWritten, TwoHeaders
  <1>4. ASSUME Consistent(m, "registering", u, n), n > 0
        PROVE  Consistent(m, "ready", u, n - 1)
    BY <1>4
  <1> QED
    BY <1>1, <1>2, <1>3, <1>4

\* A boot request and its answer.
LEMMA ServerAnswers ==
  ASSUME NEW m \in Modes, NEW u \in Seq(Msg), NEW n \in Nat, NEW text \in Msg, text.t = "body"
  PROVE  /\ Consistent(m, "ready", u, n) /\ n > 0
              => Consistent(m, "boot_header", u, n - 1)
         /\ Consistent(m, "boot_header", u, n)
              => Consistent(m, "boot_body", Append(u, OkHeader), n)
         /\ Consistent(m, "boot_body", u, n)
              => Consistent(m, "ready", Append(u, text), n)
  <1> USE DEF Consistent, Shape, Fresh, Late, Modes, Early, Silent, Gone, Asked, Halfway
  <1>1. ASSUME Consistent(m, "ready", u, n), n > 0
        PROVE  Consistent(m, "boot_header", u, n - 1)
    BY <1>1
  <1>2. ASSUME Consistent(m, "boot_header", u, n)
        PROVE  Consistent(m, "boot_body", Append(u, OkHeader), n)
    BY <1>2, PairsWritten, TwoHeaders
  <1>3. ASSUME Consistent(m, "boot_body", u, n)
        PROVE  Consistent(m, "ready", Append(u, text), n)
    BY <1>3, PairsWritten, TwoHeaders
  <1> QED
    BY <1>1, <1>2, <1>3

\* A server that stops leaves its stream as it is.
LEMMA ServerStops ==
  ASSUME NEW m, NEW u, NEW n, NEW k, NEW loc, NEW to \in Silent, Consistent(m, loc, u, n)
  PROVE  Consistent(m, to, u, k)
  BY DEF Consistent

-----------------------------------------------------------------------------
\* What the daemon reads from a server and writes to it.

\* A header outside a request is a registration's.
LEMMA DaemonRegisters ==
  ASSUME NEW loc \in SstStates, NEW u \in Seq(Msg), NEW n \in Nat
  PROVE  /\ Consistent("idle", loc, u, n) /\ u # <<>>
              => Head(u) = RegisterHeader /\ Consistent("register_body", loc, Tail(u), n)
         /\ Consistent("register_body", loc, u, n) /\ u # <<>>
              => Consistent("register_reply", loc, Tail(u), n)
         /\ Consistent("register_reply", loc, u, n)
              => Consistent("idle", loc, u, n + 1) /\ u = <<>> /\ loc \notin Early
  <1> USE DEF Consistent, Shape, Fresh, Late, SstStates, Early, Silent, Gone, Asked, Halfway
  <1>1. ASSUME Consistent("idle", loc, u, n), u # <<>>
        PROVE  Head(u) = RegisterHeader /\ Consistent("register_body", loc, Tail(u), n)
    BY <1>1, HeadersRead
  <1>2. ASSUME Consistent("register_body", loc, u, n), u # <<>>
        PROVE  Consistent("register_reply", loc, Tail(u), n)
    BY <1>2, TextsRead
  <1>3. ASSUME Consistent("register_reply", loc, u, n)
        PROVE  Consistent("idle", loc, u, n + 1) /\ u = <<>> /\ loc \notin Early
    BY <1>3
  <1> QED
    BY <1>1, <1>2, <1>3

\* A boot request is sent; a header is read in answer, then a text.
LEMMA DaemonAsks ==
  ASSUME NEW loc \in SstStates, NEW u \in Seq(Msg), NEW n \in Nat
  PROVE  /\ Consistent("idle", loc, u, n) => Consistent("boot_header", loc, u, n + 1)
         /\ Consistent("boot_header", loc, u, n) /\ u # <<>>
              => Head(u).len # 0 /\ Consistent("boot_body", loc, Tail(u), n)
         /\ Consistent("boot_body", loc, u, n) /\ u # <<>>
              => Consistent("idle", loc, Tail(u), n)
  <1> USE DEF Consistent, Shape, Fresh, Late, SstStates, Early, Silent, Gone, Asked, Halfway
  <1>1. ASSUME Consistent("idle", loc, u, n)
        PROVE  Consistent("boot_header", loc, u, n + 1)
    BY <1>1
  <1>2. ASSUME Consistent("boot_header", loc, u, n), u # <<>>
        PROVE  Head(u).len # 0 /\ Consistent("boot_body", loc, Tail(u), n)
    BY <1>2, HeadersRead, TwoHeaders
  <1>3. ASSUME Consistent("boot_body", loc, u, n), u # <<>>
        PROVE  Consistent("idle", loc, Tail(u), n)
    BY <1>3, TextsRead
  <1> QED
    BY <1>1, <1>2, <1>3

\* A read that fails finds the stream of a dead server at an end of a message.
LEMMA DaemonGivesUp ==
  ASSUME NEW m \in Modes, NEW loc \in Silent, NEW n, NEW k, Consistent(m, loc, <<>>, n)
  PROVE  Consistent("idle", loc, <<>>, k) /\ Consistent("boot_header", loc, <<>>, k)
  BY DEF Consistent, Shape, Halfway

-----------------------------------------------------------------------------
\* What a step leaves alone.

\* The daemon does one thing at a time, on an open descriptor.
LEMMA ModeIs ==
  ASSUME IInv
  PROVE  /\ pc \in Serving => cur \in Fd /\ fds[cur] \in Peers /\ Mode(fds[cur]) = pc
         /\ pc \in {"boot_header", "boot_body"} => fds[BootFd] \in Peers /\ Mode(fds[BootFd]) = pc
         /\ \A p \in Peers : Mode(p) \in Modes
         /\ pc \notin Serving \cup {"boot_header", "boot_body"} => \A p \in Peers : Mode(p) = "idle"
  BY DEF IInv, ServingOK, CheckingOK, Mode, Serving, Modes

\* The descriptor of the first server on the list.
LEMMA BootFdIs ==
  ASSUME IInv, servers # <<>>
  PROVE  BootFd \in Fd /\ Head(servers) \in [name : Peers, fd : Fd] /\ Head(servers) = servers[1]
  <1>1. servers \in Seq([name : Peers, fd : Fd])
    BY DEF IInv, TypeOK, DaemonTypeOK
  <1>2. Head(servers) \in [name : Peers, fd : Fd]
    BY <1>1, HeadTailProperties
  <1> QED
    BY <1>1, <1>2 DEF BootFd

\* A server to which nothing happens.
LEMMA ServerLeftAlone ==
  ASSUME NEW s \in Servers, ServerStream(s),
         link'[s] = link[s], end'[s] = end[s], up'[s] = up[s], down'[s] = down[s],
         sst'[s] = sst[s], Mode(s)' = Mode(s), Mode(s) = "boot_body" => hdr' = hdr,
         Listed(s)' => Listed(s)
  PROVE  ServerStream(s)'
  <1>1. Joined(s)' => InStep(s)'
    BY DEF ServerStream, Joined, InStep
  <1>2. Listed(s)' => ListedInStep(s)'
    BY DEF ServerStream, ListedInStep, Joined
  <1> QED
    BY <1>1, <1>2 DEF ServerStream, Unlinked, OnlyOks

\* A client to which nothing happens.
LEMMA ClientLeftAlone ==
  ASSUME NEW c \in Clients, ClientStream(c),
         link'[c] = link[c], up'[c] = up[c], down'[c] = down[c],
         cst'[c] = cst[c], Mode(c)' = Mode(c)
  PROVE  ClientStream(c)'
  BY DEF ClientStream, Joined, Unlinked, RequestHeader

\* A server whose connection the daemon has closed.
LEMMA ServerCutOff ==
  ASSUME NEW s \in Servers, ServerStream(s), link'[s] = "closed",
         down'[s] = down[s], sst'[s] = sst[s], Listed(s)' => Listed(s)
  PROVE  ServerStream(s)'
  BY DEF ServerStream, ListedInStep, OnlyOks, Joined

LEMMA ClientCutOff ==
  ASSUME NEW c \in Clients, link'[c] = "closed"
  PROVE  ClientStream(c)'
  BY DEF ClientStream, Joined

\* The list holds whom it held.
LEMMA ListStays ==
  ASSUME StreamsOK, servers' = servers, \A s \in Servers : ServerStream(s)'
  PROVE  RegisteredOnce' /\ \A s \in Servers : Listed(s)' <=> Listed(s)
  <1>1. \A s \in Servers : Listed(s)' <=> Listed(s)
    BY DEF Listed
  <1>2. ASSUME NEW i \in 1 .. Len(servers)
        PROVE  servers[i].name \in Servers /\ sst'[servers[i].name] \notin Early
    BY DEF StreamsOK, RegisteredOnce, ServerStream, Listed, ListedInStep
  <1> QED
    BY <1>1, <1>2 DEF StreamsOK, RegisteredOnce, Early

-----------------------------------------------------------------------------
\* Steps of the daemon that make no call on a connection.

LEMMA QuietStreams ==
  ASSUME StreamsOK, UNCHANGED netVars, UNCHANGED <<sVars, cVars>>, servers' = servers,
         \A p \in Peers : Mode(p)' = Mode(p), hdr' = hdr
  PROVE  StreamsOK'
  <1>1. \A s \in Servers : ServerStream(s)'
    BY ServerLeftAlone, PeersAre DEF StreamsOK, netVars, sVars, Listed
  <1>2. \A c \in Clients : ClientStream(c)'
    BY ClientLeftAlone, PeersAre DEF StreamsOK, netVars, cVars
  <1> QED
    BY <1>1, <1>2, ListStays DEF StreamsOK

\* A daemon that dies closes every connection.
LEMMA DiesStreams ==
  ASSUME IInv, StreamsOK, Dies, UNCHANGED <<sVars, cVars>>
  PROVE  StreamsOK'
  <1>1. \A p \in Peers : link'[p] = (IF link[p] = "none" THEN "none" ELSE "closed")
    BY DEF Dies, AllClosed
  <1>2. \A p \in Peers : up'[p] = <<>> /\ down' = down
    BY DEF Dies, AllClosed
  <1>3. servers' = servers
    BY DEF Dies
  <1>4. ASSUME NEW s \in Servers
        PROVE  ServerStream(s)'
    BY <1>1, <1>2, <1>3, PeersAre
       DEF StreamsOK, ServerStream, Joined, Unlinked, OnlyOks, Listed, ListedInStep, sVars
  <1>5. ASSUME NEW c \in Clients
        PROVE  ClientStream(c)'
    BY <1>1, <1>2, PeersAre DEF StreamsOK, ClientStream, Joined, Unlinked, cVars
  <1> QED
    BY <1>3, <1>4, <1>5, ListStays DEF StreamsOK

\* The steps that only look at the batch, the clock or a queue's file.
LEMMA LocalStreams ==
  ASSUME IInv, StreamsOK, UNCHANGED <<sVars, cVars>>,
         EpollWait \/ ManageResources \/ LookAtQueue \/ QueuesDone \/ Elapse
  PROVE  StreamsOK'
  <1> USE DEF netVars
  <1>1. CASE EpollWait \/ ManageResources \/ QueuesDone
    <2>1. /\ pc \notin Serving \cup {"boot_header", "boot_body"}
          /\ pc' \notin Serving \cup {"boot_header", "boot_body"}
          /\ UNCHANGED netVars /\ servers' = servers /\ hdr' = hdr
      BY <1>1 DEF EpollWait, ManageResources, QueuesDone, Serving
    <2>2. \A p \in Peers : Mode(p) = "idle" /\ Mode(p)' = "idle"
      BY <2>1 DEF Mode
    <2> QED
      BY <2>1, <2>2, QuietStreams
  <1>2. CASE Elapse
    <2>1. UNCHANGED netVars /\ servers' = servers /\ hdr' = hdr /\ pc' = pc /\ cur' = cur
      BY <1>2 DEF Elapse
    <2>2. \A p \in Peers : Mode(p)' = Mode(p)
      BY <2>1 DEF Mode, BootFd
    <2> QED
      BY <2>1, <2>2, QuietStreams
  <1>3. CASE LookAtQueue
    <2>1. \/ Dies
          \/ /\ pc = "queue" /\ pc' \in {"queue", "boot"}
             /\ UNCHANGED netVars /\ servers' = servers /\ hdr' = hdr
      BY <1>3 DEF LookAtQueue, NextQueue
    <2>2. CASE /\ pc = "queue" /\ pc' \in {"queue", "boot"}
               /\ UNCHANGED netVars /\ servers' = servers /\ hdr' = hdr
      <3>1. \A p \in Peers : Mode(p) = "idle" /\ Mode(p)' = "idle"
        BY <2>2 DEF Mode, Serving
      <3> QED
        BY <2>2, <3>1, QuietStreams
    <2> QED
      BY <2>1, <2>2, DiesStreams
  <1> QED
    BY <1>1, <1>2, <1>3

-----------------------------------------------------------------------------
\* Connections that come and go.

\* accept(), and a connection dropped by a failed one.
LEMMA AcceptStreams ==
  ASSUME IInv, StreamsOK, UNCHANGED <<sVars, cVars>>, Accept \/ AcceptFails
  PROVE  StreamsOK'
  <1>1. /\ pc = "handle" /\ pc' = "handle" /\ UNCHANGED <<servers, hdr, end, down>>
        /\ NetTypeOK
    BY DEF Accept, AcceptFails, Handled, IInv, TypeOK
  <1>2. \A p \in Peers : Mode(p) = "idle" /\ Mode(p)' = "idle"
    BY <1>1 DEF Mode, Serving
  <1>3. ASSUME NEW p \in Peers
        PROVE  \/ link'[p] = link[p] /\ up'[p] = up[p]
               \/ link[p] = "backlog" /\ link'[p] = "up" /\ up'[p] = up[p]
               \/ link'[p] = "closed"
    BY <1>1 DEF Accept, AcceptFails, Backlog, NetTypeOK
  <1>4. ASSUME NEW s \in Servers
        PROVE  ServerStream(s)'
    <2>1. /\ s \in Peers /\ ServerStream(s) /\ sst'[s] = sst[s] /\ down'[s] = down[s]
          /\ end'[s] = end[s] /\ (Listed(s)' <=> Listed(s)) /\ Mode(s)' = Mode(s) /\ hdr' = hdr
      BY <1>1, <1>2, PeersAre DEF StreamsOK, sVars, Listed
    <2>2. CASE link'[s] = link[s] /\ up'[s] = up[s]
      BY <2>1, <2>2, ServerLeftAlone
    <2>3. CASE link[s] = "backlog" /\ link'[s] = "up" /\ up'[s] = up[s]
      BY <2>1, <2>3 DEF ServerStream, Joined, InStep, OnlyOks, ListedInStep
    <2>4. CASE link'[s] = "closed"
      BY <2>1, <2>4, ServerCutOff
    <2> QED
      BY <1>3, <2>1, <2>2, <2>3, <2>4
  <1>5. ASSUME NEW c \in Clients
        PROVE  ClientStream(c)'
    <2>1. /\ c \in Peers /\ ClientStream(c) /\ cst'[c] = cst[c] /\ down'[c] = down[c]
          /\ Mode(c)' = Mode(c)
      BY <1>1, <1>2, PeersAre DEF StreamsOK, cVars
    <2>2. CASE link'[c] = link[c] /\ up'[c] = up[c]
      BY <2>1, <2>2, ClientLeftAlone
    <2>3. CASE link[c] = "backlog" /\ link'[c] = "up" /\ up'[c] = up[c]
      BY <2>1, <2>3 DEF ClientStream, Joined, RequestHeader
    <2>4. CASE link'[c] = "closed"
      BY <2>1, <2>4, ClientCutOff
    <2> QED
      BY <1>3, <2>1, <2>2, <2>3, <2>4
  <1> QED
    BY <1>1, <1>4, <1>5, ListStays DEF StreamsOK

\* A call on descriptor f concerns its peer alone.
LEMMA OthersStream ==
  ASSUME IInv, StreamsOK, UNCHANGED <<sVars, cVars>>,
         NEW f \in Fd, NEW p \in Peers, fds[f] = p, OneFd(f),
         \A q \in Peers \ {p} : down'[q] = down[q],
         pc \in Serving => cur = f, pc' \in Serving => cur' = f,
         pc \in {"boot_header", "boot_body"} => BootFd = f,
         pc' \in {"boot_header", "boot_body"} => BootFd' = f,
         \A q \in Servers \ {p} : Listed(q)' => Listed(q),
         p \in Servers => ServerStream(p)', p \in Clients => ClientStream(p)'
  PROVE  (\A s \in Servers : ServerStream(s)') /\ (\A c \in Clients : ClientStream(c)')
  <1>1. ASSUME NEW q \in Peers \ {p}
        PROVE  /\ link'[q] = link[q] /\ end'[q] = end[q] /\ up'[q] = up[q] /\ down'[q] = down[q]
               /\ Mode(q) = "idle" /\ Mode(q)' = "idle"
    <2>1. fds'[f] # q
      BY SocketsAssumption DEF OneFd
    <2> QED
      BY <2>1 DEF OneFd, Mode
  <1>2. ASSUME NEW s \in Servers
        PROVE  ServerStream(s)'
    <2>1. CASE s # p
      <3>1. s \in Peers \ {p} /\ ServerStream(s) /\ sst'[s] = sst[s]
        BY <2>1, PeersAre DEF StreamsOK, sVars
      <3> QED
        BY <1>1, <2>1, <3>1, ServerLeftAlone
    <2> QED
      BY <2>1
  <1>3. ASSUME NEW c \in Clients
        PROVE  ClientStream(c)'
    <2>1. CASE c # p
      <3>1. c \in Peers \ {p} /\ ClientStream(c) /\ cst'[c] = cst[c]
        BY <2>1, PeersAre DEF StreamsOK, cVars
      <3> QED
        BY <1>1, <2>1, <3>1, ClientLeftAlone
    <2> QED
      BY <2>1
  <1> QED
    BY <1>2, <1>3

\* A connection closed at its event: by a hang-up, a failed read or queue_info.
LEMMA EventClosesStreams ==
  ASSUME IInv, StreamsOK, UNCHANGED <<sVars, cVars>>, NEW e \in ready,
         ConnError(e) \/ ReadFails(e) \/ QueueInfo(e)
  PROVE  StreamsOK'
  <1>1. /\ pc = "handle" /\ pc' = "handle" /\ Closed(e.fd) /\ UNCHANGED <<servers, end, down>>
    BY DEF ConnError, ReadFails, QueueInfo, Handled
  <1>2. e.fd # 0
    BY DEF ConnError, ReadFails, QueueInfo, IInv, BatchOK, Accepting, Event
  <1>3. e.fd \in Fd /\ fds[e.fd] \in Peers /\ NetTypeOK
    BY <1>2 DEF IInv, TypeOK, DaemonTypeOK, EventsFresh, BatchOK
  <1>4. OneFd(e.fd)
    BY <1>1, <1>3, MessageTypes, ClosedOneFd
  <1>p. PICK p \in Peers : p = fds[e.fd]
    BY <1>3
  <1>5. link'[p] = "closed"
    BY <1>1, <1>3, <1>p DEF Closed, NetTypeOK
  <1>6. \A s \in Servers : Listed(s)' <=> Listed(s)
    BY <1>1 DEF Listed
  <1>7. p \in Servers => ServerStream(p)'
    BY <1>1, <1>5, <1>6, ServerCutOff DEF StreamsOK, sVars
  <1>8. p \in Clients => ClientStream(p)'
    BY <1>5, ClientCutOff
  <1>9. (\A s \in Servers : ServerStream(s)') /\ (\A c \in Clients : ClientStream(c)')
    <2>1. /\ \A q \in Peers \ {p} : down'[q] = down[q]
          /\ pc \notin Serving /\ pc' \notin Serving
          /\ pc \notin {"boot_header", "boot_body"} /\ pc' \notin {"boot_header", "boot_body"}
          /\ \A q \in Servers \ {p} : Listed(q)' => Listed(q)
      BY <1>1, <1>6 DEF Serving
    <2> QED
      BY <1>3, <1>p, <1>4, <1>7, <1>8, <2>1, OthersStream
  <1> QED
    BY <1>1, <1>9, ListStays DEF StreamsOK

-----------------------------------------------------------------------------
\* The requests.

\* What the types say of one connection.
LEMMA StreamTypes ==
  ASSUME NetTypeOK, NEW p \in Peers
  PROVE  up[p] \in Seq(Msg) /\ down[p] \in Seq(Msg) /\ Len(down[p]) \in Nat
  BY DEF NetTypeOK

LEMMA LocTypes ==
  ASSUME IInv
  PROVE  /\ NetTypeOK /\ ProcessTypeOK
         /\ \A s \in Servers : sst[s] \in SstStates
         /\ \A c \in Clients : cst[c] \in CstStates /\ Request[c] \in {0, 1, 2}
  BY RbClientAssumption DEF IInv, TypeOK, ProcessTypeOK, BROKER_STATUS, BROKER_QUEUE_STATUS, BROKER_PARAMS

\* A client's stream holds its request or nothing.
LEMMA RequestIsRead ==
  ASSUME NEW c \in Clients, NEW u \in Seq(Msg), NEW m, NEW loc, u # <<>>,
         ClientInStep(m, loc, u, RequestHeader(c))
  PROVE  /\ m \in {"idle", "boot_header"} /\ loc \notin {"start", "connected"}
         /\ Head(u) = RequestHeader(c) /\ Tail(u) = <<>> /\ Head(u).op = Request[c]
  <1>1. HeaderOnly(u, RequestHeader(c)) /\ m \in {"idle", "boot_header"} /\ loc \notin {"start", "connected"}
    BY DEF ClientInStep
  <1> QED
    BY <1>1, HeadersRead DEF RequestHeader, Header

\* A header is read: a server's registration or a client's request.
LEMMA ServeStreams ==
  ASSUME IInv, StreamsOK, UNCHANGED <<sVars, cVars>>, NEW e \in ready, Serve(e)
  PROVE  StreamsOK'
  <1>1. e.fd \in Fd /\ fds[e.fd] \in Peers
    BY DEF Serve, IInv, TypeOK, DaemonTypeOK, EventsFresh, BatchOK
  <1>2. PICK p \in Peers : p = fds[e.fd]
    BY <1>1
  <1>3. /\ pc = "handle" /\ cur' = e.fd /\ fds' = fds /\ link' = link /\ end' = end
        /\ down' = down /\ servers' = servers /\ up[p] # <<>> /\ hdr' = Head(up[p])
        /\ pc' = Dispatch(hdr'.op) /\ hdr'.op # BROKER_QUEUE_STATUS
    BY <1>2 DEF Serve, Received, Handled
  <1>4. /\ NetTypeOK /\ up[p] \in Seq(Msg) /\ Len(down[p]) \in Nat
        /\ up'[p] = Tail(up[p]) /\ Joined(p) /\ Mode(p) = "idle"
    <2>1. NetTypeOK /\ FdTableOK
      BY DEF IInv, TypeOK
    <2>2. up[p] \in Seq(Msg) /\ Len(down[p]) \in Nat /\ link[p] = "up"
      BY <1>1, <1>2, <2>1, StreamTypes, InUse, SocketsAssumption
    <2>3. up'[p] = Tail(up[p])
      BY <1>2, <2>1 DEF Serve, Received, NetTypeOK
    <2> QED
      BY <1>3, <2>1, <2>2, <2>3 DEF Joined, Mode, Serving
  <1>5. OneFd(e.fd)
    BY <1>1, <1>4, ReceivedOneFd DEF Serve
  <1>6. ASSUME NEW m \in {"register_body", "reply_header"}, pc' = m
        PROVE  Mode(p)' = m
    BY <1>2, <1>3, <1>6 DEF Mode, Serving
  <1>7. ASSUME p \in Servers
        PROVE  ServerStream(p)'
    <2>1. ServerStream(p) /\ InStep(p) /\ sst'[p] = sst[p] /\ sst[p] \in SstStates
      BY <1>4, <1>7, LocTypes DEF StreamsOK, ServerStream, sVars
    <2>2. /\ Head(up[p]) = RegisterHeader
          /\ Consistent("register_body", sst[p], Tail(up[p]), Len(down[p]))
      BY <1>3, <1>4, <2>1, DaemonRegisters DEF InStep
    <2>3. Mode(p)' = "register_body"
      BY <1>3, <1>6, <2>2, TwoHeaders
         DEF Dispatch, BROKER_SERVER_REGISTER, BROKER_STATUS, BROKER_PARAMS
    <2>4. ~Listed(p)'
      BY <1>3, <1>4, <2>1, <2>2 DEF ServerStream, ListedInStep, Listed
    <2> QED
      BY <1>3, <1>4, <2>1, <2>2, <2>3, <2>4
         DEF ServerStream, InStep, Joined, OnlyOks
  <1>8. ASSUME p \in Clients
        PROVE  ClientStream(p)'
    <2>1. ClientStream(p) /\ cst'[p] = cst[p] /\ Request[p] \in {0, 1, 2}
      BY <1>8, LocTypes DEF StreamsOK, cVars
    <2>2. cst[p] \notin {"start", "connected"} /\ Tail(up[p]) = <<>> /\ hdr'.op = Request[p]
      BY <1>3, <1>4, <1>8, <2>1, RequestIsRead DEF ClientStream
    <2>3. Mode(p)' = "reply_header"
      <3>1. hdr'.op \in {0, 2}
        BY <1>3, <2>1, <2>2 DEF BROKER_QUEUE_STATUS
      <3>2. pc' = "reply_header"
        BY <1>3, <3>1 DEF Dispatch, BROKER_STATUS, BROKER_PARAMS, BROKER_SERVER_REGISTER
      <3> QED
        BY <1>6, <3>2
    <2> QED
      BY <1>3, <1>4, <2>1, <2>2, <2>3 DEF ClientStream, ClientInStep, Joined
  <1>9. \A s \in Servers : Listed(s)' <=> Listed(s)
    BY <1>3 DEF Listed
  <1>10. (\A s \in Servers : ServerStream(s)') /\ (\A c \in Clients : ClientStream(c)')
    <2>1. /\ pc \notin Serving /\ pc \notin {"boot_header", "boot_body"}
          /\ pc' \notin {"boot_header", "boot_body"}
      BY <1>3 DEF Serving, Dispatch
    <2> QED
      BY <1>1, <1>2, <1>3, <1>5, <1>7, <1>8, <1>9, <2>1, OthersStream
  <1> QED
    BY <1>3, <1>10, ListStays DEF StreamsOK

\* What a call of the handlers finds: the peer served, and nobody else's stream.
LEMMA ServedPeer ==
  ASSUME IInv, StreamsOK, pc \in Serving
  PROVE  \E p \in Peers :
           /\ p = fds[cur] /\ cur \in Fd /\ link[p] = "up" /\ Joined(p) /\ Mode(p) = pc
           /\ NetTypeOK /\ up[p] \in Seq(Msg) /\ down[p] \in Seq(Msg) /\ Len(down[p]) \in Nat
           /\ p \in Servers => /\ ServerStream(p) /\ InStep(p) /\ sst[p] \in SstStates
                               /\ pc \in {"register_body", "register_reply"} /\ ~Listed(p)
           /\ p \in Clients => /\ ClientStream(p) /\ pc \in {"reply_header", "reply_body"}
                               /\ up[p] = <<>> /\ cst[p] \notin {"start", "connected"}
           /\ p \in Servers \cup Clients
  <1>1. PICK p \in Peers : p = fds[cur] /\ cur \in Fd /\ Mode(p) = pc
    BY ModeIs
  <1>2. NetTypeOK /\ FdTableOK
    BY DEF IInv, TypeOK
  <1>3. link[p] = "up" /\ Joined(p)
    BY <1>1, <1>2, InUse, SocketsAssumption DEF Joined
  <1>4. ASSUME p \in Servers
        PROVE  /\ ServerStream(p) /\ InStep(p) /\ sst[p] \in SstStates
               /\ pc \in {"register_body", "register_reply"} /\ ~Listed(p)
    <2>1. ServerStream(p) /\ InStep(p) /\ sst[p] \in SstStates
      BY <1>3, <1>4, LocTypes DEF StreamsOK, ServerStream
    <2>2. pc \in {"register_body", "register_reply"}
      BY <1>1, <2>1 DEF InStep, Consistent, Shape, Serving
    <2> QED
      BY <1>1, <1>3, <2>1, <2>2 DEF ServerStream, ListedInStep
  <1>5. ASSUME p \in Clients
        PROVE  /\ ClientStream(p) /\ pc \in {"reply_header", "reply_body"}
               /\ up[p] = <<>> /\ cst[p] \notin {"start", "connected"}
    BY <1>1, <1>3, <1>5 DEF StreamsOK, ClientStream, ClientInStep, Serving
  <1> QED
    BY <1>1, <1>2, <1>3, <1>4, <1>5, StreamTypes DEF Peers

\* A step of a handler, given what it does to the peer served.
LEMMA ServingStreams ==
  ASSUME IInv, StreamsOK, UNCHANGED <<sVars, cVars>>, pc \in Serving,
         NEW p \in Peers, p = fds[cur], OneFd(cur),
         \A q \in Peers \ {p} : down'[q] = down[q],
         cur' = cur, pc' \in Serving \cup {"handle"}, servers' = servers,
         p \in Servers => ServerStream(p)', p \in Clients => ClientStream(p)'
  PROVE  StreamsOK'
  <1>1. cur \in Fd /\ pc \notin {"boot_header", "boot_body"} /\ pc' \notin {"boot_header", "boot_body"}
    BY ModeIs DEF Serving
  <1>2. \A q \in Servers : Listed(q)' <=> Listed(q)
    BY DEF Listed
  <1>3. (\A s \in Servers : ServerStream(s)') /\ (\A c \in Clients : ClientStream(c)')
    BY <1>1, <1>2, OthersStream
  <1> QED
    BY <1>3, ListStays DEF StreamsOK

\* The two writes of status_info and params_info: no server is served by them.
LEMMA ReplyStreams ==
  ASSUME IInv, StreamsOK, UNCHANGED <<sVars, cVars>>, ReplyHeader \/ ReplyBody
  PROVE  StreamsOK'
  <1>1. pc \in Serving /\ pc \notin {"register_body", "register_reply"}
    BY DEF ReplyHeader, ReplyBody, Serving
  <1>2. PICK p \in Peers :
          /\ p = fds[cur] /\ cur \in Fd /\ link[p] = "up" /\ Mode(p) = pc /\ NetTypeOK
          /\ p \in Clients /\ ClientStream(p) /\ up[p] = <<>> /\ cst[p] \notin {"start", "connected"}
    BY <1>1, ServedPeer
  <1>3. Header(BROKER_OK, 1) \in Msg /\ Reply \in Msg
    BY MessageTypes DEF Reply, Contents, BROKER_OK
  <1>4. /\ cur' = cur /\ servers' = servers
        /\ \E m \in Msg : Wrote(p, m) \/ WriteError(p)
        /\ \/ Closed(cur) /\ pc' = "handle"
           \/ UNCHANGED <<listening, fds, link, up>> /\ pc' = "reply_body"
    BY <1>2, <1>3 DEF ReplyHeader, ReplyBody, Local, Peer
  <1>5. \A q \in Peers \ {p} : down'[q] = down[q]
    BY <1>2, <1>4 DEF Wrote, WriteError, NetTypeOK
  <1>6. CASE Closed(cur) /\ pc' = "handle"
    <2>1. OneFd(cur) /\ link'[p] = "closed"
      BY <1>2, <1>4, <1>6, ClosedOneFd DEF Closed, NetTypeOK
    <2>2. p \in Clients => ClientStream(p)'
      BY <2>1, ClientCutOff
    <2> QED
      BY <1>1, <1>2, <1>4, <1>5, <1>6, <2>1, <2>2, ServingStreams, SocketsAssumption
  <1>7. CASE UNCHANGED <<listening, fds, link, up>> /\ pc' = "reply_body"
    <2>1. OneFd(cur)
      BY <1>2, <1>4, <1>7, WrittenOneFd
    <2>2. Mode(p)' = "reply_body"
      BY <1>2, <1>4, <1>7 DEF Mode, Serving
    <2>3. ClientStream(p)'
      BY <1>2, <1>7, <2>2 DEF ClientStream, ClientInStep, Joined, cVars
    <2> QED
      BY <1>1, <1>2, <1>4, <1>5, <1>7, <2>1, <2>3, ServingStreams, SocketsAssumption DEF Serving
  <1> QED
    BY <1>4, <1>6, <1>7

\* The body of a registration is read, or cannot be.
LEMMA RegisterBodyStreams ==
  ASSUME IInv, StreamsOK, UNCHANGED <<sVars, cVars>>, RegisterBody \/ RegisterBodyFails
  PROVE  StreamsOK'
  <1>1. pc \in Serving /\ pc = "register_body"
    BY DEF RegisterBody, RegisterBodyFails, Serving
  <1>2. PICK p \in Peers :
          /\ p = fds[cur] /\ cur \in Fd /\ link[p] = "up" /\ Joined(p) /\ Mode(p) = pc
          /\ NetTypeOK /\ up[p] \in Seq(Msg) /\ Len(down[p]) \in Nat
          /\ p \in Servers /\ p \notin Clients
          /\ ServerStream(p) /\ InStep(p) /\ sst[p] \in SstStates /\ ~Listed(p)
    BY <1>1, ServedPeer, SocketsAssumption
  <1>3. /\ cur' = cur /\ servers' = servers /\ fds' = fds /\ link' = link /\ down' = down
        /\ Received(p) \/ ReadError(p)
    BY <1>2 DEF RegisterBody, RegisterBodyFails, Local, Peer, Received, ReadError
  <1>4. OneFd(cur)
    BY <1>2, <1>3, ReceivedOneFd, ReadErrorOneFd
  <1>5. ~Listed(p)' /\ sst' = sst
    BY <1>2, <1>3 DEF Listed, sVars
  <1>6. CASE RegisterBody
    <2>1. /\ pc' = "register_reply" /\ up[p] # <<>> /\ up'[p] = Tail(up[p]) /\ end' = end
      BY <1>2, <1>6 DEF RegisterBody, Peer, Received, NetTypeOK
    <2>2. Mode(p)' = "register_reply"
      BY <1>2, <1>3, <2>1 DEF Mode, Serving
    <2>3. Consistent("register_reply", sst[p], Tail(up[p]), Len(down[p]))
      BY <1>1, <1>2, <2>1, DaemonRegisters DEF InStep
    <2>4. ServerStream(p)'
      BY <1>2, <1>3, <1>5, <2>1, <2>2, <2>3 DEF ServerStream, InStep, Joined, OnlyOks
    <2> QED
      BY <1>1, <1>2, <1>3, <1>4, <2>1, <2>4, ServingStreams DEF Serving
  <1>7. CASE RegisterBodyFails
    <2>1. /\ pc' = "handle" /\ up[p] = <<>> /\ up' = up /\ end[p] # "open"
      BY <1>2, <1>7 DEF RegisterBodyFails, Peer, ReadError
    <2>2. Mode(p)' = "idle"
      BY <2>1 DEF Mode, Serving
    <2>3. sst[p] \in Gone /\ sst[p] \in Silent
      BY <1>2, <2>1 DEF InStep, Silent
    <2>4. Consistent("idle", sst[p], <<>>, Len(down[p]))
      BY <1>1, <1>2, <2>1, <2>3, DaemonGivesUp DEF InStep, Modes
    <2>5. ServerStream(p)'
      BY <1>2, <1>3, <1>5, <2>1, <2>2, <2>3, <2>4 DEF ServerStream, InStep, Joined, OnlyOks
    <2> QED
      BY <1>1, <1>2, <1>3, <1>4, <2>1, <2>5, ServingStreams
  <1> QED
    BY <1>6, <1>7

\* A message is appended to what the peer has not read, or is lost.
LEMMA WriteGrows ==
  ASSUME NetTypeOK, NEW p \in Peers, NEW m \in Msg, Wrote(p, m)
  PROVE  /\ \A q \in Peers \ {p} : down'[q] = down[q]
         /\ end[p] = "open" => /\ end'[p] = "open" /\ down'[p] = Append(down[p], m)
                               /\ Len(down'[p]) = Len(down[p]) + 1
         /\ m.op = BROKER_OK /\ OnlyOks(p) => OnlyOks(p)'
  <1>1. down[p] \in Seq(Msg)
    BY DEF NetTypeOK
  <1>2. /\ Len(Append(down[p], m)) = Len(down[p]) + 1
        /\ \A i \in 1 .. Len(down[p]) : Append(down[p], m)[i] = down[p][i]
        /\ Append(down[p], m)[Len(down[p]) + 1] = m
        /\ Len(down[p]) \in Nat
    BY <1>1, AppendProperties, LenProperties
  <1>3. down'[p] = (IF end[p] = "open" THEN Append(down[p], m) ELSE down[p])
    BY DEF Wrote, NetTypeOK
  <1>4. ASSUME m.op = BROKER_OK, OnlyOks(p), NEW i \in 1 .. Len(down'[p])
        PROVE  down'[p][i].op = BROKER_OK
    <2>1. CASE end[p] = "open"
      <3>1. i \in 1 .. Len(down[p]) \/ i = Len(down[p]) + 1
        BY <1>2, <1>3, <1>4, <2>1
      <3> QED
        BY <1>2, <1>3, <1>4, <2>1, <3>1 DEF OnlyOks
    <2>2. CASE end[p] # "open"
      BY <1>3, <1>4, <2>2 DEF OnlyOks
    <2> QED
      BY <2>1, <2>2
  <1>5. \A q \in Peers \ {p} : down'[q] = down[q]
    BY DEF Wrote, NetTypeOK
  <1>6. end[p] = "open" => /\ end'[p] = "open" /\ down'[p] = Append(down[p], m)
                           /\ Len(down'[p]) = Len(down[p]) + 1
    BY <1>2, <1>3 DEF Wrote
  <1> QED
    BY <1>4, <1>5, <1>6 DEF OnlyOks

\* The acknowledgement, and the new entry of the list.
LEMMA RegisterReplyStreams ==
  ASSUME IInv, StreamsOK, UNCHANGED <<sVars, cVars>>, RegisterReply
  PROVE  StreamsOK'
  <1>1. pc \in Serving /\ pc = "register_reply" /\ pc' = "handle" /\ pc' \notin Serving
    BY DEF RegisterReply, Serving
  <1>2. PICK p \in Peers :
          /\ p = fds[cur] /\ cur \in Fd /\ link[p] = "up" /\ Joined(p) /\ Mode(p) = pc
          /\ NetTypeOK /\ up[p] \in Seq(Msg) /\ Len(down[p]) \in Nat
          /\ p \in Servers /\ p \notin Clients
          /\ ServerStream(p) /\ InStep(p) /\ sst[p] \in SstStates /\ ~Listed(p)
    BY <1>1, ServedPeer, SocketsAssumption
  <1>3. /\ cur' = cur /\ fds' = fds /\ link' = link /\ up' = up /\ sst' = sst
        /\ UNCHANGED <<listening, fds, link, up>>
    BY DEF RegisterReply, sVars
  <1>4. Mode(p)' = "idle"
    BY <1>1 DEF Mode
  <1>5. /\ Consistent("idle", sst[p], up[p], Len(down[p]) + 1)
        /\ up[p] = <<>> /\ sst[p] \notin Early
    BY <1>1, <1>2, DaemonRegisters DEF InStep
  <1>6. Header(BROKER_OK, 0) \in Msg /\ Header(BROKER_OK, 0).op = BROKER_OK
    BY MessageTypes DEF Header, BROKER_OK
  <1>7. end[p] # "open" => \A k : Consistent("idle", sst[p], up[p], k)
    BY <1>2, <1>5, DaemonGivesUp DEF InStep, Silent, Modes
  <1>8. CASE WriteFails(p)
    <2>1. WriteError(p) /\ servers' = servers /\ down' = down /\ end[p] # "open"
      BY <1>2, <1>8 DEF RegisterReply, Peer, WriteError, WriteFails
    <2>2. OneFd(cur)
      BY <1>2, <1>3, <1>6, <2>1, WrittenOneFd
    <2>3. ServerStream(p)'
      <3>1. ~Listed(p)' /\ sst[p] \in Gone
        BY <1>2, <2>1 DEF Listed, InStep
      <3> QED
        BY <1>2, <1>3, <1>4, <1>7, <2>1, <3>1 DEF ServerStream, InStep, Joined, OnlyOks
    <2> QED
      BY <1>1, <1>2, <1>3, <2>1, <2>2, <2>3, ServingStreams
  <1>9. CASE ~WriteFails(p)
    <2>1. Wrote(p, Header(BROKER_OK, 0)) /\ servers' = Append(servers, [name |-> p, fd |-> cur])
      BY <1>2, <1>9 DEF RegisterReply, Peer, Registered
    <2>2. OneFd(cur)
      BY <1>2, <1>3, <1>6, <2>1, WrittenOneFd
    <2>3. /\ Len(servers') = Len(servers) + 1 /\ Len(servers) \in Nat
          /\ \A i \in 1 .. Len(servers) : servers'[i] = servers[i]
          /\ servers'[Len(servers) + 1].name = p
      <3>1. servers \in Seq([name : Peers, fd : Fd]) /\ [name |-> p, fd |-> cur] \in [name : Peers, fd : Fd]
        BY <1>2 DEF IInv, TypeOK, DaemonTypeOK
      <3> QED
        BY <2>1, <3>1, AppendProperties, LenProperties
    <2>4. ASSUME NEW i \in 1 .. Len(servers')
          PROVE  i \in 1 .. Len(servers) \/ i = Len(servers) + 1
      BY <2>3
    <2>5. ServerStream(p)'
      <3>1. InStep(p)'
        <4>1. sst[p] \notin Gone => end'[p] = "open" /\ Len(down'[p]) = Len(down[p]) + 1
          BY <1>2, <1>6, <2>1, WriteGrows DEF InStep
        <4>2. Consistent("idle", sst[p], up[p], Len(down'[p]))
          BY <1>2, <1>5, <1>7, <1>6, <2>1, WriteGrows
        <4> QED
          BY <1>3, <1>4, <4>1, <4>2 DEF InStep
      <3>2. OnlyOks(p)'
        BY <1>2, <1>6, <2>1, WriteGrows DEF ServerStream
      <3> QED
        BY <1>2, <1>3, <1>4, <1>5, <3>1, <3>2 DEF ServerStream, ListedInStep, Joined
    <2>6. (\A s \in Servers : ServerStream(s)') /\ (\A c \in Clients : ClientStream(c)')
      <3>1. ASSUME NEW q \in Servers \ {p}, Listed(q)'
            PROVE  Listed(q)
        BY <2>3, <2>4, <3>1 DEF Listed
      <3>2. pc \notin {"boot_header", "boot_body"} /\ pc' \notin {"boot_header", "boot_body"}
        BY <1>1
      <3>3. \A q \in Peers \ {p} : down'[q] = down[q]
        BY <1>2, <1>6, <2>1, WriteGrows
      <3> QED
        BY <1>1, <1>2, <1>3, <2>2, <2>5, <3>1, <3>2, <3>3, OthersStream
    <2>7. RegisteredOnce'
      <3>1. \A i \in 1 .. Len(servers) : servers[i].name # p
        BY <1>2 DEF Listed
      <3>2. ASSUME NEW i \in 1 .. Len(servers'), NEW j \in 1 .. Len(servers'),
                   servers'[i].name = servers'[j].name
            PROVE  i = j
        BY <2>3, <2>4, <3>1, <3>2 DEF StreamsOK, RegisteredOnce
      <3>3. ASSUME NEW i \in 1 .. Len(servers')
            PROVE  servers'[i].name \in Servers /\ sst'[servers'[i].name] \notin Early
        BY <1>2, <1>3, <1>5, <2>3, <2>4 DEF StreamsOK, RegisteredOnce, Early
      <3> QED
        BY <3>2, <3>3 DEF RegisteredOnce, Early
    <2> QED
      BY <2>6, <2>7 DEF StreamsOK
  <1> QED
    BY <1>8, <1>9

-----------------------------------------------------------------------------
\* The boot requests.

\* What get_server_resources finds behind the first descriptor of the list.
LEMMA AskedPeer ==
  ASSUME IInv, StreamsOK, pc \in {"boot", "boot_header", "boot_body"},
         fds[BootFd] # NoPeer
  PROVE  \E p \in Peers, f \in Fd :
           /\ f = BootFd /\ p = fds[f] /\ link[p] = "up" /\ Joined(p)
           /\ Mode(p) = (IF pc = "boot" THEN "idle" ELSE pc)
           /\ NetTypeOK /\ up[p] \in Seq(Msg) /\ down[p] \in Seq(Msg) /\ Len(down[p]) \in Nat
           /\ p \in Servers => ServerStream(p) /\ InStep(p) /\ sst[p] \in SstStates
           /\ p \in Clients => ClientStream(p)
           /\ p \in Servers \cup Clients
  <1>1. servers # <<>>
    BY DEF IInv, CheckingOK
  <1>2. PICK f \in Fd : f = BootFd
    BY <1>1, BootFdIs
  <1>3. NetTypeOK /\ FdTableOK
    BY DEF IInv, TypeOK
  <1>4. PICK p \in Peers : p = fds[f] /\ link[p] = "up"
    BY <1>2, <1>3, InUse, SocketsAssumption
  <1>5. Mode(p) = (IF pc = "boot" THEN "idle" ELSE pc)
    BY <1>2, <1>4 DEF Mode, Serving
  <1>6. Joined(p)
    BY <1>4 DEF Joined
  <1>7. p \in Servers => ServerStream(p) /\ InStep(p) /\ sst[p] \in SstStates
    BY <1>6, LocTypes DEF StreamsOK, ServerStream
  <1>8. p \in Clients => ClientStream(p)
    BY DEF StreamsOK
  <1> QED
    BY <1>2, <1>3, <1>4, <1>5, <1>6, <1>7, <1>8, StreamTypes DEF Peers

\* A step of get_server_resources, given what it does to the peer asked.
LEMMA AskingStreams ==
  ASSUME IInv, StreamsOK, UNCHANGED <<sVars, cVars>>,
         pc \in {"boot", "boot_header", "boot_body"},
         NEW f \in Fd, f = BootFd, NEW p \in Peers, p = fds[f], OneFd(f),
         \A q \in Peers \ {p} : down'[q] = down[q],
         pc' \in {"queue", "boot_header", "boot_body"}, servers' = servers,
         p \in Servers => ServerStream(p)', p \in Clients => ClientStream(p)'
  PROVE  StreamsOK'
  <1>1. BootFd' = f /\ pc \notin Serving /\ pc' \notin Serving
    BY DEF BootFd, Serving
  <1>2. \A q \in Servers : Listed(q)' <=> Listed(q)
    BY DEF Listed
  <1>3. (\A s \in Servers : ServerStream(s)') /\ (\A c \in Clients : ClientStream(c)')
    BY <1>1, <1>2, OthersStream
  <1> QED
    BY <1>3, ListStays DEF StreamsOK

\* The request goes out.
LEMMA SendBootStreams ==
  ASSUME IInv, StreamsOK, UNCHANGED <<sVars, cVars>>, SendBoot
  PROVE  StreamsOK'
  <1>1. PICK p \in Peers, f \in Fd :
          /\ f = BootFd /\ p = fds[f] /\ link[p] = "up" /\ Joined(p) /\ Mode(p) = "idle"
          /\ NetTypeOK /\ up[p] \in Seq(Msg) /\ Len(down[p]) \in Nat
          /\ p \in Servers => ServerStream(p) /\ InStep(p) /\ sst[p] \in SstStates
          /\ p \in Clients => ClientStream(p)
    BY AskedPeer DEF SendBoot
  <1>2. /\ pc = "boot" /\ pc' = "boot_header" /\ Wrote(p, Header(SERVER_BOOT_RESOURCES, want))
        /\ servers' = servers /\ fds' = fds /\ link' = link /\ up' = up
        /\ UNCHANGED <<listening, fds, link, up>> /\ sst' = sst /\ cst' = cst
    BY <1>1 DEF SendBoot, Local, sVars, cVars
  <1>3. /\ Header(SERVER_BOOT_RESOURCES, want) \in Msg
        /\ Header(SERVER_BOOT_RESOURCES, want).op = BROKER_OK
    <2>1. want \in Nat
      BY DEF IInv, TypeOK, DaemonTypeOK
    <2> QED
      BY <2>1, MessageTypes DEF Header, BROKER_OK, SERVER_BOOT_RESOURCES
  <1>4. OneFd(f) /\ Mode(p)' = "boot_header"
    BY <1>1, <1>2, <1>3, WrittenOneFd DEF Mode, BootFd
  <1>5. ASSUME p \in Servers
        PROVE  ServerStream(p)'
    <2>1. Consistent("boot_header", sst[p], up[p], Len(down[p]) + 1)
      BY <1>1, <1>5, DaemonAsks DEF InStep
    <2>2. sst[p] \notin Gone => end'[p] = "open" /\ Len(down'[p]) = Len(down[p]) + 1
      BY <1>1, <1>2, <1>3, <1>5, WriteGrows DEF InStep
    <2>3. Consistent("boot_header", sst[p], up[p], Len(down'[p]))
      BY <2>1, <2>2 DEF Consistent, Silent
    <2>4. OnlyOks(p)'
      BY <1>1, <1>2, <1>3, <1>5, WriteGrows DEF ServerStream
    <2> QED
      BY <1>1, <1>2, <1>4, <1>5, <2>2, <2>3, <2>4
         DEF ServerStream, InStep, Joined, Listed, ListedInStep
  <1>6. ASSUME p \in Clients
        PROVE  ClientStream(p)'
    BY <1>1, <1>2, <1>4, <1>6 DEF ClientStream, ClientInStep, Joined, RequestHeader
  <1> QED
    BY <1>1, <1>2, <1>3, <1>4, <1>5, <1>6, WriteGrows, AskingStreams

\* The request does not go out.
LEMMA SendBootFailsStreams ==
  ASSUME IInv, StreamsOK, UNCHANGED <<sVars, cVars>>, SendBootFails
  PROVE  StreamsOK'
  <1>1. /\ pc = "boot" /\ pc' = "queue" /\ servers' = servers /\ fds' = fds /\ link' = link
        /\ up' = up /\ hdr' = hdr /\ down' = down /\ sst' = sst /\ cst' = cst
        /\ UNCHANGED <<listening, fds, link, up>>
    BY DEF SendBootFails, NextQueue, WriteError, sVars, cVars
  <1>2. \A q \in Peers : Mode(q) = "idle" /\ Mode(q)' = "idle"
    BY <1>1 DEF Mode, Serving
  <1>3. CASE fds[BootFd] = NoPeer
    BY <1>1, <1>2, <1>3, QuietStreams DEF SendBootFails, netVars
  <1>4. CASE fds[BootFd] # NoPeer
    <2>1. PICK p \in Peers, f \in Fd :
            /\ f = BootFd /\ p = fds[f] /\ link[p] = "up" /\ Joined(p) /\ NetTypeOK
            /\ p \in Servers => ServerStream(p) /\ InStep(p) /\ sst[p] \in SstStates
            /\ p \in Clients => ClientStream(p)
      BY <1>1, <1>4, AskedPeer
    <2>2. WriteError(p) /\ end[p] # "open"
      BY <1>4, <2>1 DEF SendBootFails, WriteError, WriteFails
    <2>3. OneFd(f)
      BY <1>1, <2>1, <2>2, MessageTypes, WrittenOneFd
    <2>4. ASSUME p \in Servers
          PROVE  ServerStream(p)'
      BY <1>1, <1>2, <2>1, <2>2, <2>4 DEF ServerStream, InStep, Joined, OnlyOks, Listed, ListedInStep
    <2>5. ASSUME p \in Clients
          PROVE  ClientStream(p)'
      BY <1>1, <1>2, <2>1, <2>5, ClientLeftAlone
    <2> QED
      BY <1>1, <2>1, <2>3, <2>4, <2>5, AskingStreams
  <1> QED
    BY <1>3, <1>4

\* The header of the answer is read, or of the registration that is in its place.
LEMMA BootHeaderStreams ==
  ASSUME IInv, StreamsOK, UNCHANGED <<sVars, cVars>>, BootHeader
  PROVE  StreamsOK'
  <1>1. pc = "boot_header" /\ fds[BootFd] # NoPeer
    BY ModeIs, SocketsAssumption DEF BootHeader
  <1>2. PICK p \in Peers, f \in Fd :
          /\ f = BootFd /\ p = fds[f] /\ link[p] = "up" /\ Joined(p) /\ Mode(p) = "boot_header"
          /\ NetTypeOK /\ up[p] \in Seq(Msg) /\ Len(down[p]) \in Nat
          /\ p \in Servers => ServerStream(p) /\ InStep(p) /\ sst[p] \in SstStates
          /\ p \in Clients => ClientStream(p)
    BY <1>1, AskedPeer
  <1>3. /\ pc' = "boot_body" /\ Received(p) /\ hdr' = Head(up[p]) /\ servers' = servers
        /\ fds' = fds /\ link' = link /\ down' = down /\ end' = end /\ sst' = sst /\ cst' = cst
        /\ up[p] # <<>> /\ up'[p] = Tail(up[p])
    BY <1>2 DEF BootHeader, Local, Received, NetTypeOK, sVars, cVars
  <1>4. OneFd(f) /\ Mode(p)' = "boot_body"
    BY <1>2, <1>3, ReceivedOneFd DEF Mode, BootFd
  <1>5. ASSUME p \in Servers
        PROVE  ServerStream(p)'
    <2>1. Head(up[p]).len # 0 /\ Consistent("boot_body", sst[p], Tail(up[p]), Len(down[p]))
      BY <1>2, <1>3, <1>5, DaemonAsks DEF InStep
    <2>2. Tail(up[p]) # <<>> => Tail(up[p])[1] # RegisterHeader
      BY <2>1, TwoHeaders DEF Consistent, Shape, Halfway, TextOnly
    <2> QED
      BY <1>2, <1>3, <1>4, <1>5, <2>1, <2>2
         DEF ServerStream, InStep, Joined, OnlyOks, Listed, ListedInStep
  <1>6. ASSUME p \in Clients
        PROVE  ClientStream(p)'
    <2>1. cst[p] \notin {"start", "connected"} /\ Tail(up[p]) = <<>>
      BY <1>2, <1>3, <1>6, RequestIsRead DEF ClientStream
    <2> QED
      BY <1>2, <1>3, <1>4, <1>6, <2>1 DEF ClientStream, ClientInStep, Joined
  <1> QED
    BY <1>1, <1>2, <1>3, <1>4, <1>5, <1>6, AskingStreams

\* A read of the answer fails: the server died.
LEMMA BootReadFailsStreams ==
  ASSUME IInv, StreamsOK, UNCHANGED <<sVars, cVars>>, BootReadFails
  PROVE  StreamsOK'
  <1>1. pc \in {"boot_header", "boot_body"} /\ fds[BootFd] # NoPeer
    BY ModeIs, SocketsAssumption DEF BootReadFails
  <1>2. PICK p \in Peers, f \in Fd :
          /\ f = BootFd /\ p = fds[f] /\ link[p] = "up" /\ Joined(p) /\ Mode(p) = pc
          /\ NetTypeOK /\ up[p] \in Seq(Msg) /\ Len(down[p]) \in Nat
          /\ p \in Servers => ServerStream(p) /\ InStep(p) /\ sst[p] \in SstStates
          /\ p \in Clients => ClientStream(p)
    BY <1>1, AskedPeer
  <1>3. /\ pc' = "queue" /\ ReadError(p) /\ servers' = servers /\ up' = up /\ up[p] = <<>>
        /\ fds' = fds /\ link' = link /\ down' = down /\ end[p] # "open" /\ sst' = sst /\ cst' = cst
    BY <1>2 DEF BootReadFails, NextQueue, ReadError, sVars, cVars
  <1>4. OneFd(f) /\ Mode(p)' = "idle"
    BY <1>2, <1>3, ReadErrorOneFd DEF Mode, Serving
  <1>5. ASSUME p \in Servers
        PROVE  ServerStream(p)'
    <2>1. sst[p] \in Gone /\ sst[p] \in Silent
      BY <1>2, <1>3, <1>5 DEF InStep, Silent
    <2>2. Consistent("idle", sst[p], <<>>, Len(down[p]))
      BY <1>1, <1>2, <1>3, <1>5, <2>1, DaemonGivesUp DEF InStep, Modes
    <2> QED
      BY <1>2, <1>3, <1>4, <1>5, <2>1, <2>2
         DEF ServerStream, InStep, Joined, OnlyOks, Listed, ListedInStep
  <1>6. ASSUME p \in Clients
        PROVE  ClientStream(p)'
    BY <1>2, <1>3, <1>4, <1>6 DEF ClientStream, ClientInStep, Joined
  <1> QED
    BY <1>1, <1>2, <1>3, <1>4, <1>5, <1>6, AskingStreams

\* The text of the answer is read, or there is none: a client's request has none.
LEMMA BootBodyStreams ==
  ASSUME IInv, StreamsOK, UNCHANGED <<sVars, cVars>>, BootBody \/ BootNoBody
  PROVE  StreamsOK'
  <1>1. pc = "boot_body" /\ fds[BootFd] # NoPeer
    BY ModeIs, SocketsAssumption DEF BootBody, BootNoBody
  <1>2. PICK p \in Peers, f \in Fd :
          /\ f = BootFd /\ p = fds[f] /\ link[p] = "up" /\ Joined(p) /\ Mode(p) = "boot_body"
          /\ NetTypeOK /\ up[p] \in Seq(Msg) /\ Len(down[p]) \in Nat
          /\ p \in Servers => ServerStream(p) /\ InStep(p) /\ sst[p] \in SstStates
          /\ p \in Clients => ClientStream(p)
          /\ p \in Servers \cup Clients
    BY <1>1, AskedPeer
  <1>3. CASE BootBody
    <2>1. /\ pc' = "queue" /\ Received(p) /\ servers' = servers
          /\ fds' = fds /\ link' = link /\ down' = down /\ end' = end /\ sst' = sst /\ cst' = cst
          /\ up[p] # <<>> /\ up'[p] = Tail(up[p])
      BY <1>2, <1>3 DEF BootBody, NextQueue, Received, NetTypeOK, sVars, cVars
    <2>2. OneFd(f) /\ Mode(p)' = "idle"
      BY <1>2, <2>1, ReceivedOneFd DEF Mode, Serving
    <2>3. p \notin Clients
      BY <1>2, <2>1, RequestIsRead DEF ClientStream
    <2>4. ASSUME p \in Servers
          PROVE  ServerStream(p)'
      <3>1. Consistent("idle", sst[p], Tail(up[p]), Len(down[p]))
        BY <1>2, <2>1, <2>4, DaemonAsks DEF InStep
      <3>2. TextOnly(up[p])
        BY <1>2, <2>1, <2>4 DEF InStep, Consistent, Shape, Halfway
      <3>3. Tail(up[p]) = <<>>
        BY <1>2, <3>2, TextsRead
      <3> QED
        BY <1>2, <2>1, <2>2, <2>4, <3>1, <3>3
           DEF ServerStream, InStep, Joined, OnlyOks, Listed, ListedInStep
    <2> QED
      BY <1>1, <1>2, <2>1, <2>2, <2>3, <2>4, AskingStreams
  <1>4. CASE BootNoBody
    <2>1. p \notin Servers /\ p \in Clients
      BY <1>2, <1>4 DEF BootNoBody, InStep
    <2>2. CASE Dies
      BY <2>2, DiesStreams
    <2>3. CASE NextQueue /\ UNCHANGED <<want, given>> /\ UNCHANGED netVars
      <3>1. pc' = "queue" /\ servers' = servers /\ UNCHANGED netVars /\ cst' = cst
        BY <2>3 DEF NextQueue, cVars
      <3>2. Mode(p)' = "idle" /\ OneFd(f)
        BY <1>2, <3>1 DEF Mode, Serving, OneFd, NetTypeOK, netVars
      <3>3. ClientStream(p)'
        BY <1>2, <2>1, <3>1, <3>2 DEF ClientStream, ClientInStep, Joined, netVars, RequestHeader, Unlinked
      <3> QED
        BY <1>1, <1>2, <2>1, <3>1, <3>2, <3>3, AskingStreams DEF netVars
    <2> QED
      BY <1>4, <2>2, <2>3 DEF BootNoBody
  <1> QED
    BY <1>3, <1>4

\* Every step of the daemon.
LEMMA DaemonStreams ==
  ASSUME IInv, StreamsOK, DaemonNext
  PROVE  StreamsOK'
  <1>1. UNCHANGED <<sVars, cVars>>
    BY DEF DaemonNext
  <1>2. CASE EpollWait \/ Elapse \/ KillDaemon
    BY <1>1, <1>2, LocalStreams, DiesStreams DEF KillDaemon
  <1>3. CASE HandleEvent
    BY <1>1, <1>3, AcceptStreams, EventClosesStreams, ServeStreams DEF HandleEvent
  <1>4. CASE ServeRequest
    BY <1>1, <1>4, ReplyStreams, DiesStreams, RegisterBodyStreams, RegisterReplyStreams
       DEF ServeRequest, ReplyKills
  <1>5. CASE CheckWorkload
    BY <1>1, <1>5, LocalStreams, DiesStreams, SendBootStreams, SendBootFailsStreams,
       BootHeaderStreams, BootReadFailsStreams, BootBodyStreams
       DEF CheckWorkload, SendBootKills
  <1> QED
    BY <1>2, <1>3, <1>4, <1>5 DEF DaemonNext, DaemonStep

-----------------------------------------------------------------------------
\* Steps of the servers and of the clients.

\* A peer's step concerns its own connection alone, and the daemon stays put.
LEMMA PeerLeavesOthers ==
  ASSUME NetTypeOK, NEW p \in Peers, PeerNet(p), UNCHANGED dVars
  PROVE  /\ \A q \in Peers \ {p} : /\ link'[q] = link[q] /\ end'[q] = end[q]
                                  /\ up'[q] = up[q] /\ down'[q] = down[q]
         /\ fds' = fds /\ hdr' = hdr /\ servers' = servers
         /\ \A q \in Peers : (Mode(q)' = Mode(q)) /\ (Listed(q)' <=> Listed(q))
  <1>1. /\ \A q \in Peers \ {p} : /\ link'[q] = link[q] /\ end'[q] = end[q]
                                  /\ up'[q] = up[q] /\ down'[q] = down[q]
        /\ fds' = fds
    BY DEF NetTypeOK, PeerNet, PeerConnect, PeerWrote, PeerReceived, PeerClosed, netVars
  <1> QED
    BY <1>1 DEF Mode, BootFd, Listed, dVars

LEMMA ServersOthers ==
  ASSUME IInv, StreamsOK, NEW s \in Servers, PeerNet(s), UNCHANGED <<dVars, cVars>>,
         \A q \in Servers \ {s} : sst'[q] = sst[q], ServerStream(s)'
  PROVE  StreamsOK'
  <1>1. NetTypeOK /\ s \in Peers /\ s \notin Clients
    BY PeersAre, SocketsAssumption DEF IInv, TypeOK
  <1>2. /\ \A q \in Peers \ {s} : /\ link'[q] = link[q] /\ end'[q] = end[q]
                                  /\ up'[q] = up[q] /\ down'[q] = down[q]
        /\ fds' = fds /\ hdr' = hdr /\ servers' = servers
        /\ \A q \in Peers : (Mode(q)' = Mode(q)) /\ (Listed(q)' <=> Listed(q))
    BY <1>1, PeerLeavesOthers
  <1>3. ASSUME NEW q \in Servers
        PROVE  ServerStream(q)'
    <2>1. CASE q # s
      BY <1>2, <2>1, PeersAre, ServerLeftAlone DEF StreamsOK
    <2> QED
      BY <2>1
  <1>4. ASSUME NEW c \in Clients
        PROVE  ClientStream(c)'
    <2>1. c \in Peers \ {s} /\ cst'[c] = cst[c]
      BY <1>1, PeersAre DEF cVars
    <2> QED
      BY <1>2, <2>1, ClientLeftAlone DEF StreamsOK
  <1> QED
    BY <1>2, <1>3, <1>4, ListStays DEF StreamsOK

\* The connection that the server's step acts on.
LEMMA OwnStream ==
  ASSUME IInv, StreamsOK, NEW s \in Servers
  PROVE  /\ NetTypeOK /\ ProcessTypeOK /\ s \in Peers /\ Mode(s) \in Modes
         /\ up[s] \in Seq(Msg) /\ down[s] \in Seq(Msg) /\ Len(down[s]) \in Nat
         /\ ServerStream(s)
         /\ link[s] \in {"none", "backlog", "up", "closed"}
         /\ link[s] # "up" => Mode(s) = "idle"
  <1>1. NetTypeOK /\ ProcessTypeOK /\ FdTableOK
    BY DEF IInv, TypeOK
  <1>2. ASSUME Mode(s) # "idle"
        PROVE  link[s] = "up"
    <2>1. \/ pc \in Serving /\ fds[cur] = s
          \/ pc \in {"boot_header", "boot_body"} /\ fds[BootFd] = s
      BY <1>2 DEF Mode
    <2>2. pc \in {"boot_header", "boot_body"} => BootFd \in Fd
      BY BootFdIs DEF IInv, CheckingOK
    <2>3. \E f \in Fd : fds[f] = s
      BY <2>1, <2>2, ModeIs
    <2> QED
      BY <1>1, <2>3, PeersAre DEF FdTableOK
  <1> QED
    BY <1>1, <1>2, PeersAre, StreamTypes, ModeIs DEF StreamsOK, NetTypeOK

\* A server whose socket is closed, by itself or by the kernel.
LEMMA ServerCloses ==
  ASSUME IInv, StreamsOK, NEW s \in Servers, NEW unread, PeerClosed(s, unread), UNCHANGED dVars,
         sst'[s] \in Gone, link[s] = "none" => sst'[s] = "failed"
  PROVE  ServerStream(s)'
  <1>1. /\ NetTypeOK /\ s \in Peers /\ ServerStream(s) /\ Mode(s)' = Mode(s)
        /\ hdr' = hdr /\ (Listed(s)' <=> Listed(s))
    BY OwnStream, PeerLeavesOthers DEF PeerNet
  <1>2. link' = link /\ up' = up /\ down'[s] = <<>>
    BY <1>1 DEF PeerClosed, NetTypeOK
  <1>3. ASSUME Joined(s)
        PROVE  InStep(s)'
    <2>1. Consistent(Mode(s), sst'[s], up[s], Len(down'[s]))
      BY <1>1, <1>3, ServerStops DEF ServerStream, InStep, Silent
    <2> QED
      BY <1>1, <1>2, <1>3, <2>1 DEF ServerStream, InStep
  <1>4. sst'[s] \notin Early
    BY DEF Gone, Early
  <1> QED
    BY <1>1, <1>2, <1>3, <1>4 DEF ServerStream, Joined, Unlinked, OnlyOks, ListedInStep

\* A server's step on a connection the daemon has closed.
LEMMA ServerAlone ==
  ASSUME NEW s \in Servers, link'[s] = "closed", OnlyOks(s)', Listed(s)' => sst'[s] \notin Early
  PROVE  ServerStream(s)'
  BY DEF ServerStream, Joined, ListedInStep

\* A server writes a message, to whoever reads it.
LEMMA ServerWrites ==
  ASSUME IInv, StreamsOK, NEW s \in Servers, NEW m \in Msg, PeerWrote(s, m), UNCHANGED dVars,
         sst[s] \notin {"start"} \cup Gone, sst'[s] \notin Gone,
         Listed(s) => sst'[s] \notin Early /\ m # RegisterHeader,
         Joined(s) => Consistent(Mode(s), sst'[s], Append(up[s], m), Len(down[s]))
  PROVE  ServerStream(s)'
  <1>1. /\ NetTypeOK /\ s \in Peers /\ ServerStream(s) /\ Mode(s)' = Mode(s)
        /\ up[s] \in Seq(Msg) /\ hdr' = hdr /\ (Listed(s)' <=> Listed(s))
        /\ link[s] \in {"none", "backlog", "up", "closed"}
    BY OwnStream, PeerLeavesOthers DEF PeerNet
  <1>2. link' = link /\ end' = end /\ down' = down
    BY DEF PeerWrote
  <1>3. CASE link[s] = "closed"
    BY <1>1, <1>2, <1>3, ServerAlone DEF ServerStream, OnlyOks
  <1>4. CASE link[s] # "closed"
    <2>1. Joined(s)
      BY <1>1, <1>4 DEF ServerStream, Joined, Gone
    <2>2. up'[s] = Append(up[s], m)
      BY <1>1, <1>4 DEF PeerWrote, NetTypeOK
    <2>3. Append(up[s], m)[1] # RegisterHeader \/ ~Listed(s)
      <3>1. Append(up[s], m)[Len(up[s]) + 1] = m /\ Len(up[s]) \in Nat
            /\ \A i \in 1 .. Len(up[s]) : Append(up[s], m)[i] = up[s][i]
        BY <1>1, AppendProperties, LenProperties
      <3>2. CASE up[s] = <<>>
        <4>1. Len(up[s]) + 1 = 1
          BY <1>1, <3>2, NoMessages
        <4> QED
          BY <3>1, <4>1
      <3>3. CASE up[s] # <<>>
        <4>1. 1 \in 1 .. Len(up[s])
          BY <1>1, <3>1, <3>3, NoMessages
        <4> QED
          BY <1>1, <2>1, <3>1, <3>3, <4>1 DEF ServerStream, ListedInStep
      <3> QED
        BY <3>2, <3>3
    <2> QED
      BY <1>1, <1>2, <1>4, <2>1, <2>2, <2>3
         DEF ServerStream, InStep, Joined, OnlyOks, ListedInStep
  <1> QED
    BY <1>3, <1>4

\* register_with_broker.
LEMMA RegistrationStreams ==
  ASSUME IInv, StreamsOK, NEW s \in Servers, UNCHANGED dVars,
         \/ ServerConnect(s) \/ ServerConnectFails(s)
         \/ SendRegisterHeader(s) \/ SendRegisterBody(s) \/ RegistrationFails(s)
  PROVE  ServerStream(s)'
  <1>1. /\ NetTypeOK /\ ProcessTypeOK /\ s \in Peers /\ Mode(s) \in Modes
        /\ up[s] \in Seq(Msg) /\ down[s] \in Seq(Msg) /\ Len(down[s]) \in Nat
        /\ ServerStream(s) /\ (link[s] # "up" => Mode(s) = "idle")
        /\ sst[s] \in Early => ~Listed(s)
    BY OwnStream DEF ServerStream, ListedInStep
  <1>2. CASE ServerConnect(s)
    <2>1. link[s] = "none" /\ Unlinked(s) /\ ~Listed(s)
      BY <1>1, <1>2 DEF ServerConnect, IInv, StartedUnlinked, ServerStream, Early
    <2>2. /\ link'[s] = "backlog" /\ end'[s] = "open" /\ up' = up /\ down' = down
          /\ sst'[s] = "connected" /\ PeerNet(s)
      BY <1>1, <1>2, <2>1 DEF ServerConnect, PeerConnect, NetTypeOK, ProcessTypeOK, PeerNet
    <2>3. Mode(s)' = "idle" /\ ~Listed(s)'
      BY <1>1, <2>1, <2>2, PeerLeavesOthers
    <2>4. Consistent("idle", "connected", <<>>, Len(down'[s]))
      <3>1. Len(down'[s]) = 0
        BY <2>1, <2>2 DEF Unlinked
      <3> QED
        BY <3>1 DEF Consistent, Shape, Fresh, Halfway, Asked, Early
    <2> QED
      BY <1>1, <2>1, <2>2, <2>3, <2>4 DEF ServerStream, InStep, Joined, OnlyOks, Unlinked
  <1>3. CASE ServerConnectFails(s)
    <2>1. link[s] = "none" /\ ~Listed(s)
      BY <1>1, <1>3 DEF ServerConnectFails, IInv, StartedUnlinked, Early
    <2>2. UNCHANGED netVars /\ sst'[s] = "failed"
      BY <1>1, <1>3 DEF ServerConnectFails, ProcessTypeOK
    <2> QED
      BY <1>1, <2>1, <2>2 DEF ServerStream, netVars, Joined, Unlinked, OnlyOks, Listed, dVars
  <1>4. CASE SendRegisterHeader(s)
    <2>1. sst[s] = "connected" /\ sst'[s] = "header_sent" /\ PeerWrote(s, RegisterHeader)
      BY <1>1, <1>4 DEF SendRegisterHeader, ProcessTypeOK, RegisterHeader
    <2>2. Joined(s) => Consistent(Mode(s), "header_sent", Append(up[s], RegisterHeader), Len(down[s]))
      <3>1. Body("register", 0) \in Msg /\ Body("register", 0).t = "body"
        BY MessageTypes DEF Body, Contents
      <3> QED
        BY <1>1, <2>1, <3>1, ServerRegisters DEF ServerStream, InStep
    <2> QED
      BY <1>1, <2>1, <2>2, TwoHeaders, ServerWrites DEF Early, Gone
  <1>5. CASE SendRegisterBody(s)
    <2>1. sst[s] = "header_sent" /\ sst'[s] = "registering" /\ PeerWrote(s, Body("register", 0))
      BY <1>1, <1>5 DEF SendRegisterBody, ProcessTypeOK
    <2>2. Body("register", 0) \in Msg /\ Body("register", 0).t = "body"
      BY MessageTypes DEF Body, Contents
    <2>3. Joined(s) => Consistent(Mode(s), "registering", Append(up[s], Body("register", 0)), Len(down[s]))
      BY <1>1, <2>1, <2>2, ServerRegisters DEF ServerStream, InStep
    <2> QED
      BY <1>1, <2>1, <2>2, <2>3, TwoHeaders, ServerWrites DEF Early, Gone
  <1>6. CASE RegistrationFails(s)
    <2>1. PeerClosed(s, down[s]) /\ sst'[s] = "failed"
      BY <1>1, <1>6 DEF RegistrationFails, ProcessTypeOK
    <2>2. PICK unread : unread = down[s]
      OBVIOUS
    <2> QED
      BY <2>1, <2>2, ServerCloses DEF Gone
  <1> QED
    BY <1>2, <1>3, <1>4, <1>5, <1>6

\* A server takes the next message: an acknowledgement or a boot request, both
\* of which read as BROKER_OK.
LEMMA ServerReads ==
  ASSUME IInv, StreamsOK, NEW s \in Servers, PeerReceived(s), UNCHANGED dVars,
         sst[s] \notin {"start"} \cup Gone, sst'[s] \notin Gone \cup Early,
         Joined(s) => Consistent(Mode(s), sst'[s], up[s], Len(down[s]) - 1)
  PROVE  ServerStream(s)'
  <1>1. /\ NetTypeOK /\ s \in Peers /\ ServerStream(s) /\ Mode(s)' = Mode(s)
        /\ down[s] \in Seq(Msg) /\ hdr' = hdr /\ (Listed(s)' <=> Listed(s))
    BY OwnStream, PeerLeavesOthers DEF PeerNet
  <1>2. /\ link' = link /\ end' = end /\ up' = up
        /\ down[s] # <<>> /\ down'[s] = Tail(down[s])
    BY <1>1 DEF PeerReceived, NetTypeOK
  <1>3. /\ Len(Tail(down[s])) = Len(down[s]) - 1 /\ Len(down[s]) \in Nat \ {0}
        /\ \A i \in 1 .. Len(Tail(down[s])) : Tail(down[s])[i] = down[s][i + 1]
    BY <1>1, <1>2, HeadTailProperties, EmptySeq
  <1>4. OnlyOks(s)'
    <2>1. ASSUME NEW i \in 1 .. Len(Tail(down[s]))
          PROVE  Tail(down[s])[i].op = BROKER_OK
      <3>1. i + 1 \in 1 .. Len(down[s]) /\ Tail(down[s])[i] = down[s][i + 1]
        BY <1>3
      <3> QED
        BY <1>1, <3>1 DEF ServerStream, OnlyOks
    <2> QED
      BY <1>2, <2>1 DEF OnlyOks
  <1>5. link[s] # "none"
    BY <1>1 DEF ServerStream, Gone
  <1> QED
    BY <1>1, <1>2, <1>3, <1>4, <1>5 DEF ServerStream, InStep, Joined, ListedInStep

LEMMA FirstIsOk ==
  ASSUME IInv, StreamsOK, NEW s \in Servers, down[s] # <<>>
  PROVE  Head(down[s]).op = BROKER_OK /\ Len(down[s]) > 0
  <1>1. down[s] \in Seq(Msg) /\ ServerStream(s)
    BY OwnStream
  <1>2. Len(down[s]) \in Nat \ {0} /\ Head(down[s]) = down[s][1]
    BY <1>1, EmptySeq
  <1> QED
    BY <1>1, <1>2 DEF ServerStream, OnlyOks

\* The acknowledgement, the loop and boot_resources.
LEMMA LoopStreams ==
  ASSUME IInv, StreamsOK, NEW s \in Servers, UNCHANGED dVars,
         \/ RegistrationReply(s) \/ ReadRequest(s) \/ LoseBroker(s)
         \/ SendBootHeader(s) \/ SendBootBody(s) \/ BootReplyFails(s) \/ KillServer(s)
  PROVE  ServerStream(s)'
  <1>1. /\ NetTypeOK /\ ProcessTypeOK /\ s \in Peers /\ Mode(s) \in Modes
        /\ up[s] \in Seq(Msg) /\ down[s] \in Seq(Msg) /\ Len(down[s]) \in Nat
        /\ ServerStream(s)
    BY OwnStream
  <1>2. UNCHANGED <<asked, netVars>> =>
          /\ (Mode(s)' = Mode(s)) /\ hdr' = hdr /\ (Listed(s)' <=> Listed(s))
          /\ link' = link /\ up' = up /\ down' = down /\ end' = end
    BY DEF Mode, BootFd, Listed, dVars, netVars
  <1>3. ASSUME UNCHANGED <<asked, netVars>>, sst[s] \notin Early \cup Gone, sst'[s] = "hung"
        PROVE  ServerStream(s)'
    <2>1. Joined(s) => Consistent(Mode(s), "hung", up[s], Len(down[s]))
      BY <1>1, <1>3, ServerStops DEF ServerStream, InStep, Silent
    <2> QED
      BY <1>1, <1>2, <1>3, <2>1
         DEF ServerStream, InStep, Joined, Unlinked, OnlyOks, ListedInStep, Early, Gone
  <1>4. CASE RegistrationReply(s)
    <2>1. Head(down[s]).op = BROKER_OK /\ Len(down[s]) > 0 /\ sst[s] = "registering"
      BY <1>4, FirstIsOk DEF RegistrationReply
    <2>2. PeerReceived(s) /\ sst'[s] = "ready"
      BY <1>1, <1>4, <2>1 DEF RegistrationReply, ProcessTypeOK
    <2>3. Joined(s) => Consistent(Mode(s), "ready", up[s], Len(down[s]) - 1)
      <3>1. Body("register", 0) \in Msg /\ Body("register", 0).t = "body"
        BY MessageTypes DEF Body, Contents
      <3> QED
        BY <1>1, <2>1, <3>1, ServerRegisters DEF ServerStream, InStep
    <2> QED
      BY <2>1, <2>2, <2>3, ServerReads DEF Gone, Early
  <1>5. CASE ReadRequest(s)
    <2>1. Head(down[s]).op = SERVER_BOOT_RESOURCES /\ Len(down[s]) > 0 /\ sst[s] = "ready"
      BY <1>5, FirstIsOk DEF ReadRequest, BROKER_OK, SERVER_BOOT_RESOURCES
    <2>2. \/ PeerReceived(s) /\ sst'[s] = "boot_header"
          \/ UNCHANGED <<asked, netVars>> /\ sst'[s] = "hung"
      BY <1>1, <1>5, <2>1 DEF ReadRequest, ProcessTypeOK
    <2>3. CASE PeerReceived(s) /\ sst'[s] = "boot_header"
      <3>1. Joined(s) => Consistent(Mode(s), "boot_header", up[s], Len(down[s]) - 1)
        <4>1. Body("register", 0) \in Msg /\ Body("register", 0).t = "body"
          BY MessageTypes DEF Body, Contents
        <4> QED
          BY <1>1, <2>1, <4>1, ServerAnswers DEF ServerStream, InStep
      <3> QED
        BY <2>1, <2>3, <3>1, ServerReads DEF Gone, Early
    <2>4. CASE UNCHANGED <<asked, netVars>> /\ sst'[s] = "hung"
      BY <1>3, <2>1, <2>4 DEF Gone, Early
    <2> QED
      BY <2>2, <2>3, <2>4
  <1>6. CASE LoseBroker(s)
    <2>1. link[s] = "closed" /\ sst[s] = "ready"
      BY <1>6 DEF LoseBroker, PeerAtEof
    <2>2. \/ PeerClosed(s, <<>>) /\ sst'[s] = "idle"
          \/ UNCHANGED <<asked, netVars>> /\ sst'[s] = "hung"
      BY <1>1, <1>6 DEF LoseBroker, ProcessTypeOK
    <2> QED
      BY <1>3, <2>1, <2>2, ServerCloses DEF Gone, Early
  <1>7. CASE SendBootHeader(s)
    <2>1. sst[s] = "boot_header" /\ sst'[s] = "boot_body" /\ PeerWrote(s, OkHeader)
      BY <1>1, <1>7 DEF SendBootHeader, ProcessTypeOK, OkHeader
    <2>2. Joined(s) => Consistent(Mode(s), "boot_body", Append(up[s], OkHeader), Len(down[s]))
      <3>1. Body("register", 0) \in Msg /\ Body("register", 0).t = "body"
        BY MessageTypes DEF Body, Contents
      <3> QED
        BY <1>1, <2>1, <3>1, ServerAnswers DEF ServerStream, InStep
    <2> QED
      BY <1>1, <2>1, <2>2, TwoHeaders, ServerWrites DEF Early, Gone
  <1>8. CASE SendBootBody(s)
    <2>1. Offered(s) \in Nat
      BY <1>1, RbServerAssumption DEF Offered, ProcessTypeOK
    <2>2. PICK m \in Msg : m = Body("machines", Offered(s)) /\ m.t = "body"
      BY <2>1, MessageTypes DEF Body, Contents
    <2>3. sst[s] = "boot_body" /\ sst'[s] = "ready" /\ PeerWrote(s, m)
      BY <1>1, <1>8, <2>2 DEF SendBootBody, ProcessTypeOK
    <2>4. Joined(s) => Consistent(Mode(s), "ready", Append(up[s], m), Len(down[s]))
      BY <1>1, <2>2, <2>3, ServerAnswers DEF ServerStream, InStep
    <2> QED
      BY <1>1, <2>2, <2>3, <2>4, TwoHeaders, ServerWrites DEF Early, Gone
  <1>9. CASE BootReplyFails(s)
    <2>1. \/ UNCHANGED netVars /\ sst'[s] = "ready" /\ link[s] = "closed"
          \/ PeerClosed(s, down[s]) /\ sst'[s] = "killed" /\ link[s] = "closed"
      BY <1>1, <1>9 DEF BootReplyFails, ProcessTypeOK
    <2>2. PICK unread : unread = down[s]
      OBVIOUS
    <2>3. CASE UNCHANGED netVars /\ sst'[s] = "ready" /\ link[s] = "closed"
      BY <1>1, <2>3, ServerAlone DEF netVars, ServerStream, OnlyOks, Early
    <2> QED
      BY <2>1, <2>2, <2>3, ServerCloses DEF Gone
  <1>10. CASE KillServer(s)
    <2>1. /\ PeerClosed(s, down[s]) /\ sst'[s] = "killed"
          /\ sst[s] \notin {"start", "idle", "failed", "killed"}
      BY <1>1, <1>10 DEF KillServer, ProcessTypeOK
    <2>2. link[s] # "none"
      BY <1>1, <2>1 DEF ServerStream
    <2>3. PICK unread : unread = down[s]
      OBVIOUS
    <2> QED
      BY <2>1, <2>2, <2>3, ServerCloses DEF Gone
  <1> QED
    BY <1>4, <1>5, <1>6, <1>7, <1>8, <1>9, <1>10

LEMMA ServerStreams ==
  ASSUME IInv, StreamsOK, NEW s \in Servers, ServerNext(s)
  PROVE  StreamsOK'
  <1>1. ServerStep(s) /\ UNCHANGED <<dVars, cVars>> /\ UNCHANGED dVars
    BY DEF ServerNext
  <1>2. ServerEffect(s)
    BY <1>1, ServerStepEffect DEF IInv, TypeOK
  <1>3. PeerNet(s) /\ \A q \in Servers \ {s} : sst'[q] = sst[q]
    BY <1>2 DEF ServerEffect, IInv, TypeOK, ProcessTypeOK
  <1>4. ServerStream(s)'
    BY <1>1, RegistrationStreams, LoopStreams DEF ServerStep, ServerRuns
  <1> QED
    BY <1>1, <1>3, <1>4, ServersOthers

\* What a client's step acts on.
LEMMA OwnRequest ==
  ASSUME IInv, StreamsOK, NEW c \in Clients
  PROVE  /\ NetTypeOK /\ ProcessTypeOK /\ c \in Peers /\ c \notin Servers
         /\ up[c] \in Seq(Msg) /\ down[c] \in Seq(Msg) /\ ClientStream(c)
         /\ link[c] \in {"none", "backlog", "up", "closed"}
         /\ link[c] # "up" => Mode(c) = "idle"
  <1>1. NetTypeOK /\ ProcessTypeOK /\ FdTableOK
    BY DEF IInv, TypeOK
  <1>2. ASSUME Mode(c) # "idle"
        PROVE  link[c] = "up"
    <2>1. \/ pc \in Serving /\ fds[cur] = c
          \/ pc \in {"boot_header", "boot_body"} /\ fds[BootFd] = c
      BY <1>2 DEF Mode
    <2>2. pc \in {"boot_header", "boot_body"} => BootFd \in Fd
      BY BootFdIs DEF IInv, CheckingOK
    <2>3. \E f \in Fd : fds[f] = c
      BY <2>1, <2>2, ModeIs
    <2> QED
      BY <1>1, <2>3, PeersAre DEF FdTableOK
  <1> QED
    BY <1>1, <1>2, PeersAre, StreamTypes, SocketsAssumption DEF StreamsOK, NetTypeOK

\* A client connects, sends its request and never writes again.
LEMMA ClientSteps ==
  ASSUME IInv, StreamsOK, NEW c \in Clients, ClientStep(c), UNCHANGED dVars
  PROVE  ClientStream(c)'
  <1>1. /\ NetTypeOK /\ ProcessTypeOK /\ c \in Peers
        /\ up[c] \in Seq(Msg) /\ down[c] \in Seq(Msg) /\ ClientStream(c)
        /\ link[c] \in {"none", "backlog", "up", "closed"} /\ (link[c] # "up" => Mode(c) = "idle")
    BY OwnRequest
  <1>2. PeerNet(c) /\ Mode(c)' = Mode(c)
    <2>1. ClientEffect(c)
      BY <1>1, ClientStepEffect DEF IInv
    <2> QED
      BY <1>1, <2>1, PeerLeavesOthers DEF ClientEffect
  <1>3. CASE ClientConnect(c)
    <2>1. link[c] = "none" /\ Unlinked(c)
      BY <1>1, <1>3 DEF ClientConnect, IInv, StartedUnlinked, ClientStream
    <2>2. link'[c] = "backlog" /\ up' = up
      BY <1>1, <1>3 DEF ClientConnect, PeerConnect, NetTypeOK
    <2> QED
      BY <1>1, <1>2, <2>1, <2>2 DEF ClientStream, ClientInStep, Joined, Unlinked
  <1>4. CASE ClientConnectFails(c)
    <2>1. link[c] = "none" /\ UNCHANGED netVars /\ cst'[c] = "failed"
      BY <1>1, <1>4 DEF ClientConnectFails, IInv, StartedUnlinked, ProcessTypeOK
    <2> QED
      BY <1>1, <2>1 DEF ClientStream, Joined, Unlinked, netVars
  <1>5. CASE SendRequest(c)
    <2>1. /\ cst[c] = "connected" /\ cst'[c] = "waiting" /\ link' = link /\ link[c] # "none"
          /\ PeerWrote(c, RequestHeader(c))
      BY <1>1, <1>5 DEF SendRequest, PeerWrote, ProcessTypeOK, ClientStream, RequestHeader
    <2>2. CASE link[c] = "closed"
      BY <2>1, <2>2, ClientCutOff
    <2>3. CASE link[c] # "closed"
      <3>1. Mode(c) \in {"idle", "boot_header"} /\ up[c] = <<>>
        BY <1>1, <2>1, <2>3 DEF ClientStream, ClientInStep, Joined
      <3>2. up'[c] = Append(up[c], RequestHeader(c))
        BY <1>1, <2>1, <2>3 DEF PeerWrote, NetTypeOK
      <3>3. HeaderOnly(up'[c], RequestHeader(c))
        <4>1. RequestHeader(c) \in Msg
          BY LocTypes, MessageTypes DEF RequestHeader
        <4> QED
          BY <1>1, <3>1, <3>2, <4>1, PairsWritten
      <3> QED
        BY <1>2, <2>1, <3>1, <3>3 DEF ClientStream, ClientInStep, Joined, RequestHeader
    <2> QED
      BY <2>2, <2>3
  <1>6. CASE ReplyArrives(c) \/ ReplyBodyArrives(c) \/ RequestFails(c) \/ KillClient(c)
    <2>1. /\ link' = link /\ up' = up /\ link[c] # "none"
          /\ cst[c] \notin {"start", "failed"} /\ cst'[c] \notin {"start", "connected"}
      BY <1>1, <1>6 DEF ReplyArrives, ReplyBodyArrives, RequestFails, KillClient,
         PeerReceived, PeerClosed, ProcessTypeOK, ClientStream, Finished
    <2> QED
      BY <1>1, <1>2, <2>1 DEF ClientStream, ClientInStep, Joined, RequestHeader
  <1> QED
    BY <1>3, <1>4, <1>5, <1>6 DEF ClientStep, ClientRuns

LEMMA ClientStreams ==
  ASSUME IInv, StreamsOK, NEW c \in Clients, ClientNext(c)
  PROVE  StreamsOK'
  <1>1. ClientStep(c) /\ UNCHANGED dVars /\ sst' = sst
    BY DEF ClientNext, sVars
  <1>2. NetTypeOK /\ ProcessTypeOK /\ c \in Peers /\ c \notin Servers
    BY OwnRequest
  <1>3. PeerNet(c) /\ \A q \in Clients \ {c} : cst'[q] = cst[q]
    <2>1. ClientEffect(c)
      BY <1>1, <1>2, ClientStepEffect DEF IInv
    <2> QED
      BY <1>2, <2>1 DEF ClientEffect, ProcessTypeOK
  <1>4. /\ \A q \in Peers \ {c} : /\ link'[q] = link[q] /\ end'[q] = end[q]
                                  /\ up'[q] = up[q] /\ down'[q] = down[q]
        /\ fds' = fds /\ hdr' = hdr /\ servers' = servers
        /\ \A q \in Peers : (Mode(q)' = Mode(q)) /\ (Listed(q)' <=> Listed(q))
    BY <1>1, <1>2, <1>3, PeerLeavesOthers
  <1>5. ASSUME NEW s \in Servers
        PROVE  ServerStream(s)'
    <2>1. s \in Peers \ {c}
      BY <1>2, PeersAre
    <2> QED
      BY <1>1, <1>4, <2>1, ServerLeftAlone DEF StreamsOK
  <1>6. ASSUME NEW q \in Clients
        PROVE  ClientStream(q)'
    <2>1. CASE q # c
      BY <1>3, <1>4, <2>1, PeersAre, ClientLeftAlone DEF StreamsOK
    <2> QED
      BY <1>1, <2>1, ClientSteps
  <1> QED
    BY <1>4, <1>5, <1>6, ListStays DEF StreamsOK

-----------------------------------------------------------------------------
\* The invariant.

LEMMA InitStreams == Init => StreamsOK
  <1> SUFFICES ASSUME Init
               PROVE  StreamsOK
    OBVIOUS
  <1> USE DEF Init, NetInit, DaemonInit, ServerInit, ClientInit
  <1>1. ASSUME NEW s \in Servers
        PROVE  ServerStream(s)
    BY PeersAre DEF ServerStream, Joined, Unlinked, OnlyOks, Listed
  <1>2. ASSUME NEW c \in Clients
        PROVE  ClientStream(c)
    BY PeersAre DEF ClientStream, Joined, Unlinked
  <1> QED
    BY <1>1, <1>2 DEF StreamsOK, RegisteredOnce

LEMMA NextStreams ==
  ASSUME IInv, StreamsOK, [Next]_vars
  PROVE  StreamsOK'
  <1>1. CASE UNCHANGED vars
    <2>1. /\ UNCHANGED netVars /\ UNCHANGED <<sVars, cVars>>
          /\ pc' = pc /\ cur' = cur /\ hdr' = hdr /\ servers' = servers
      BY <1>1 DEF vars, dVars
    <2>2. \A p \in Peers : Mode(p)' = Mode(p)
      BY <2>1 DEF Mode, BootFd, netVars
    <2> QED
      BY <2>1, <2>2, QuietStreams
  <1> QED
    BY <1>1, DaemonStreams, ServerStreams, ClientStreams DEF Next

\* The daemon and every peer are always at matching places of their streams,
\* whoever dies and whatever descriptors are reused.
THEOREM StreamsInductive == Spec => []StreamsOK
  <1>1. IInv /\ StreamsOK /\ [Next]_vars => StreamsOK'
    BY NextStreams
  <1> QED
    BY <1>1, InitStreams, Inductive, PTL DEF Spec

LEMMA InStepIsFramed == IInv /\ StreamsOK => Framed
  <1> SUFFICES ASSUME IInv, StreamsOK, NEW f \in Fd, NEW p \in Peers, p = fds[f], up[p] # <<>>
               PROVE  Head(up[p]).t = "body" <=> \/ pc = "register_body" /\ cur = f
                                                 \/ pc = "boot_body" /\ BootFd = f
    BY SocketsAssumption DEF Framed, IInv, TypeOK, NetTypeOK
  <1>1. NetTypeOK /\ FdTableOK /\ link[p] = "up" /\ up[p] \in Seq(Msg) /\ Joined(p)
    BY InUse, StreamTypes, SocketsAssumption DEF IInv, TypeOK, Joined
  <1>2. \/ pc = "register_body" /\ cur = f
        \/ pc = "boot_body" /\ BootFd = f
        <=> Halfway(Mode(p))
    <2>1. pc \in Serving => cur \in Fd
      BY ModeIs
    <2>2. pc \in {"boot_header", "boot_body"} => BootFd \in Fd
      BY BootFdIs DEF IInv, CheckingOK
    <2>3. \A g \in Fd : fds[g] = p <=> g = f
      BY <1>1, SocketsAssumption DEF FdTableOK
    <2> QED
      BY <2>1, <2>2, <2>3 DEF Mode, Halfway, Serving
  <1>3. CASE p \in Servers
    <2>1. Shape(Mode(p), up[p])
      BY <1>1, <1>3 DEF StreamsOK, ServerStream, InStep, Consistent
    <2>2. CASE Halfway(Mode(p))
      <3>1. TextOnly(up[p])
        BY <2>1, <2>2 DEF Shape
      <3> QED
        BY <1>1, <1>2, <2>2, <3>1, TextsRead
    <2>3. CASE ~Halfway(Mode(p))
      <3>1. Head(up[p]) \in {RegisterHeader, OkHeader}
        BY <1>1, <2>1, <2>3, HeadersRead DEF Shape
      <3> QED
        BY <1>2, <2>3, <3>1, TwoHeaders
    <2> QED
      BY <2>2, <2>3
  <1>4. CASE p \in Clients
    <2>1. Head(up[p]) = RequestHeader(p) /\ Mode(p) \in {"idle", "boot_header"}
      BY <1>1, <1>4, RequestIsRead DEF StreamsOK, ClientStream
    <2> QED
      BY <1>2, <2>1 DEF RequestHeader, Header, Halfway
  <1> QED
    BY <1>3, <1>4 DEF Peers

\* Wherever the daemon will read a header the next thing written is a header,
\* and wherever it will read a body a body: after failed registrations, failed
\* boot requests, deaths and the reuse of descriptors.
THEOREM AlwaysFramed == Spec => []Framed
  BY InStepIsFramed, Inductive, StreamsInductive, PTL

\* The list holds a server at most once, and only after its whole registration.
THEOREM AlwaysRegisteredOnce == Spec => []RegisteredOnce
  <1>1. StreamsOK => RegisteredOnce
    BY DEF StreamsOK
  <1> QED
    BY <1>1, StreamsInductive, PTL

-----------------------------------------------------------------------------
\* What the peers may rely on.  Only the daemon ends a connection, or the death of a
\* client.

\* The names of the list are servers.
LEMMA NamesAreServers ==
  ASSUME IInv, StreamsOK, NEW i \in 1 .. Len(servers)
  PROVE  servers[i].name \in Servers /\ servers[i].fd \in Fd /\ servers[i].name \in Peers
  <1>1. servers[i] \in [name : Peers, fd : Fd]
    <2>1. servers \in Seq([name : Peers, fd : Fd])
      BY DEF IInv, TypeOK, DaemonTypeOK
    <2> QED
      BY <2>1, LenProperties
  <1> QED
    BY <1>1 DEF StreamsOK, RegisteredOnce

\* The connection asked for machines is the first server's own.
LEMMA AskedIsTheServer ==
  ASSUME IInv, StreamsOK, AnswersOK, pc \in {"boot", "boot_header", "boot_body"}
  PROVE  /\ fds[BootFd] = Head(servers).name
         /\ \E s \in Servers, f \in Fd :
              /\ s = fds[f] /\ f = BootFd /\ link[s] = "up" /\ Joined(s) /\ end[s] = "open"
              /\ Listed(s) /\ s \notin Clients /\ s \in Peers /\ InStep(s) /\ NetTypeOK
              /\ Mode(s) = (IF pc = "boot" THEN "idle" ELSE pc)
  <1>1. servers # <<>> /\ servers \in Seq([name : Peers, fd : Fd]) /\ NetTypeOK /\ FdTableOK
    BY DEF IInv, CheckingOK, TypeOK, DaemonTypeOK
  <1>2. 1 \in 1 .. Len(servers) /\ Head(servers) = servers[1]
    BY <1>1, EmptySeq
  <1>3. /\ servers[1].name \in Servers /\ servers[1].fd \in Fd /\ servers[1].name \in Peers
        /\ fds[servers[1].fd] = servers[1].name
    BY <1>2, NamesAreServers DEF AnswersOK, EntriesOpen
  <1>4. PICK s \in Servers, f \in Fd : s = servers[1].name /\ f = servers[1].fd
    BY <1>3
  <1>5. f = BootFd /\ s = fds[f] /\ s = Head(servers).name
    BY <1>2, <1>3, <1>4 DEF BootFd
  <1>6. s \in Peers /\ s \notin Clients /\ fds[f] # NoPeer
    BY <1>5, PeersAre, SocketsAssumption
  <1>7. link[s] = "up" /\ Joined(s) /\ end[s] = "open"
    BY <1>1, <1>5, <1>6, InUse DEF Joined, AnswersOK, OpenWhileJoined, Killed
  <1>8. Listed(s) /\ InStep(s)
    BY <1>2, <1>4, <1>7 DEF Listed, StreamsOK, ServerStream
  <1>9. Mode(s) = (IF pc = "boot" THEN "idle" ELSE pc)
    BY <1>5 DEF Mode, Serving
  <1> QED
    BY <1>1, <1>5, <1>6, <1>7, <1>8, <1>9

\* The other end of a descriptor is open, or a client's that was killed.
LEMMA OpenOrKilled ==
  ASSUME IInv, AnswersOK, NEW f \in Fd, fds[f] \in Peers
  PROVE  end[fds[f]] = "open" \/ Killed(fds[f])
  <1>1. link[fds[f]] = "up"
    BY InUse, SocketsAssumption DEF IInv, TypeOK
  <1> QED
    BY <1>1 DEF AnswersOK, OpenWhileJoined, Joined

\* The calls of the daemon that find a server gone never happen.
LEMMA NothingFails ==
  ASSUME IInv, StreamsOK, AnswersOK
  PROVE  ~RegisterBodyFails /\ ~SendBootFails /\ ~SendBootKills /\ ~BootReadFails /\ ~BootNoBody
  <1>1. ASSUME pc = "register_body"
        PROVE  end[fds[cur]] = "open"
    <2>1. PICK p \in Peers : /\ p = fds[cur] /\ cur \in Fd /\ p \in Servers \cup Clients
                             /\ p \notin Clients
      BY <1>1, ServedPeer DEF Serving
    <2> QED
      BY <2>1, OpenOrKilled DEF Killed
  <1>2. ~RegisterBodyFails
    BY <1>1 DEF RegisterBodyFails, ReadError, Peer
  <1>3. ASSUME pc \in {"boot", "boot_header", "boot_body"}
        PROVE  /\ fds[BootFd] # NoPeer /\ end[fds[BootFd]] = "open"
               /\ pc = "boot_body" => hdr.len # 0
    BY <1>3, AskedIsTheServer, SocketsAssumption DEF InStep
  <1>4. ~SendBootFails /\ ~SendBootKills /\ ~BootReadFails /\ ~BootNoBody
    BY <1>3 DEF SendBootFails, SendBootKills, BootReadFails, BootNoBody,
       ReadError, WriteError, WriteFails, Sigpipe
  <1> QED
    BY <1>2, <1>4

\* The calls that find a client gone.
LEMMA FailsOnKilled ==
  ASSUME IInv, AnswersOK, NEW e \in ready, ConnError(e) \/ ReadFails(e)
  PROVE  e.fd \in Fd /\ fds[e.fd] \in Peers /\ Killed(fds[e.fd])
  <1>1. e.fd # 0 => e.fd \in Fd /\ fds[e.fd] \in Peers /\ e.peer = fds[e.fd]
    BY DEF IInv, TypeOK, DaemonTypeOK, EventsFresh, BatchOK
  <1>2. CASE ConnError(e)
    <2>1. e.ev = "hup" /\ Killed(e.peer)
      BY <1>2 DEF ConnError, AnswersOK, NoHangUps
    <2>2. e.fd # 0
      BY <2>1 DEF IInv, BatchOK, Accepting, Event
    <2> QED
      BY <1>1, <2>1, <2>2
  <1>3. CASE ReadFails(e)
    BY <1>1, <1>3, OpenOrKilled DEF ReadFails
  <1> QED
    BY <1>2, <1>3

-----------------------------------------------------------------------------
\* What a step leaves alone.

\* A client to which nothing happens.
LEMMA AnswerLeftAlone ==
  ASSUME NEW c \in Clients, ClientAnswer(c),
         link'[c] = link[c], down'[c] = down[c], cst'[c] = cst[c],
         Mode(c)' = Mode(c), hdr' = hdr
  PROVE  ClientAnswer(c)'
  BY DEF ClientAnswer, Joined, HasAnswer

\* A client the daemon is not serving, left alone or accepted.
LEMMA IdleLeftAlone ==
  ASSUME NEW c \in Clients, ClientAnswer(c), Mode(c) = "idle", Mode(c)' = "idle",
         link'[c] = link[c] \/ (link[c] = "backlog" /\ link'[c] = "up"),
         down'[c] = down[c], cst'[c] = cst[c]
  PROVE  ClientAnswer(c)'
  BY DEF ClientAnswer, Joined, Finished

\* A connection closed before anything was written to its client.
LEMMA AnswerCutOff ==
  ASSUME NEW c \in Clients, ClientAnswer(c), Joined(c), link'[c] = "closed",
         down'[c] = down[c], cst'[c] = cst[c]
  PROVE  ClientAnswer(c)'
  <1>1. cst[c] # "killed" => Answered(c, cst[c], down[c])
    BY DEF ClientAnswer, Answering, Answered
  <1>2. cst[c] # "killed" => Answered(c, cst[c], down[c])'
    BY <1>1 DEF Answered, HasAnswer
  <1> QED
    BY <1>2 DEF ClientAnswer, Joined, Finished

\* A killed client receives nothing any more.
LEMMA KilledAnswer ==
  ASSUME NEW c \in Clients, cst[c] = "killed", cst'[c] = cst[c]
  PROVE  ClientAnswer(c)'
  BY DEF ClientAnswer, Finished

LEMMA EntriesStay ==
  ASSUME AnswersOK, servers' = servers, fds' = fds, pc' # "dead" => pc # "dead"
  PROVE  EntriesOpen'
  BY DEF AnswersOK, EntriesOpen

LEMMA ListingsStay ==
  ASSUME AnswersOK, servers' = servers, sst' = sst,
         \A s \in Servers : down'[s] # <<>> => down[s] # <<>> \/ Listed(s)
  PROVE  AcknowledgedIsListed'
  BY DEF AnswersOK, AcknowledgedIsListed, Listed

\* A step of the daemon that makes no call on a connection.
LEMMA QuietAnswers ==
  ASSUME AnswersOK, UNCHANGED netVars, UNCHANGED <<sVars, cVars>>, servers' = servers,
         \A p \in Peers : Mode(p)' = Mode(p), hdr' = hdr, pc' # "dead" => pc # "dead",
         \A e \in ready' : e.ev = "in" \/ Killed(e.peer)
  PROVE  AnswersOK'
  <1>1. ASSUME NEW c \in Clients
        PROVE  ClientAnswer(c)'
    <2>1. /\ ClientAnswer(c) /\ link'[c] = link[c] /\ down'[c] = down[c] /\ cst'[c] = cst[c]
          /\ Mode(c)' = Mode(c)
      BY PeersAre DEF AnswersOK, netVars, cVars
    <2> QED
      BY <2>1, AnswerLeftAlone
  <1>2. OpenWhileJoined' /\ NoHangUps'
    BY DEF AnswersOK, OpenWhileJoined, Joined, NoHangUps, netVars, cVars, Killed
  <1>3. ReplyMatches'
    BY DEF AnswersOK, ReplyMatches, cVars
  <1>4. EntriesOpen' /\ AcknowledgedIsListed'
    BY EntriesStay, ListingsStay DEF netVars, sVars
  <1> QED
    BY <1>1, <1>2, <1>3, <1>4 DEF AnswersOK

\* A daemon that dies, and every answer that was under way.
LEMMA DiesAnswers ==
  ASSUME IInv, AnswersOK, Dies, UNCHANGED <<sVars, cVars>>
  PROVE  AnswersOK'
  <1>1. /\ \A p \in Peers : link'[p] = (IF link[p] = "none" THEN "none" ELSE "closed")
        /\ down' = down /\ servers' = servers /\ pc' = "dead" /\ ready' = {}
    BY DEF Dies, AllClosed
  <1>2. ASSUME NEW c \in Clients
        PROVE  ClientAnswer(c)'
    <2>1. c \in Peers /\ ClientAnswer(c) /\ cst'[c] = cst[c]
      BY PeersAre DEF AnswersOK, cVars
    <2>2. CASE Joined(c)
      BY <1>1, <2>1, <2>2, AnswerCutOff DEF Joined
    <2>3. CASE ~Joined(c)
      <3>1. ~Joined(c)' /\ (link'[c] = "closed" => link[c] = "closed")
        BY <1>1, <2>1, <2>3 DEF Joined, IInv, TypeOK, NetTypeOK
      <3>2. Answered(c, cst[c], down[c])' <=> Answered(c, cst[c], down[c])
        BY <1>1, <2>1 DEF Answered, HasAnswer
      <3> QED
        BY <2>1, <3>1, <3>2 DEF ClientAnswer
    <2> QED
      BY <2>2, <2>3
  <1>3. OpenWhileJoined' /\ NoHangUps' /\ ReplyMatches' /\ EntriesOpen'
    BY <1>1 DEF AnswersOK, OpenWhileJoined, Joined, NoHangUps, ReplyMatches, EntriesOpen, cVars
  <1>4. AcknowledgedIsListed'
    BY <1>1, ListingsStay DEF sVars
  <1> QED
    BY <1>2, <1>3, <1>4 DEF AnswersOK

\* The steps that only look at the batch, the clock or a queue's file.
LEMMA LocalAnswers ==
  ASSUME IInv, StreamsOK, AnswersOK, UNCHANGED <<sVars, cVars>>,
         EpollWait \/ ManageResources \/ LookAtQueue \/ QueuesDone \/ Elapse
  PROVE  AnswersOK'
  <1> USE DEF netVars
  <1>1. CASE EpollWait
    <2>1. /\ pc = "epoll" /\ pc' = "handle" /\ UNCHANGED netVars /\ servers' = servers /\ hdr' = hdr
          /\ \A e \in ready' : \/ e = Accepting
                               \/ \E f \in Fd :
                                    /\ fds[f] # NoPeer /\ e.peer = fds[f]
                                    /\ e.ev = (IF HungUp(fds[f]) THEN "hup" ELSE "in")
      BY <1>1 DEF EpollWait, ReadyEvents, Event
    <2>2. ASSUME NEW f \in Fd, fds[f] # NoPeer
          PROVE  ~HungUp(fds[f]) \/ Killed(fds[f])
      <3>1. link[fds[f]] = "up" /\ fds[f] \in Peers
        BY <2>2, InUse DEF IInv, TypeOK
      <3> QED
        BY <3>1, OpenOrKilled DEF HungUp
    <2>3. \A e \in ready' : e.ev = "in" \/ Killed(e.peer)
      BY <2>1, <2>2 DEF Accepting, Event
    <2>4. \A p \in Peers : Mode(p) = "idle" /\ Mode(p)' = "idle"
      BY <2>1 DEF Mode, Serving
    <2> QED
      BY <2>1, <2>3, <2>4, QuietAnswers
  <1>2. CASE ManageResources \/ QueuesDone
    <2>1. /\ pc \in {"handle", "queue"} /\ pc' \in {"queue", "epoll"} /\ ready' = ready
          /\ UNCHANGED netVars /\ servers' = servers /\ hdr' = hdr
      BY <1>2 DEF ManageResources, QueuesDone
    <2>2. \A p \in Peers : Mode(p) = "idle" /\ Mode(p)' = "idle"
      BY <2>1 DEF Mode, Serving
    <2> QED
      BY <2>1, <2>2, QuietAnswers DEF AnswersOK, NoHangUps
  <1>3. CASE Elapse
    <2>1. /\ UNCHANGED netVars /\ servers' = servers /\ hdr' = hdr /\ pc' = pc /\ cur' = cur
          /\ ready' = ready
      BY <1>3 DEF Elapse
    <2>2. \A p \in Peers : Mode(p)' = Mode(p)
      BY <2>1 DEF Mode, BootFd
    <2> QED
      BY <2>1, <2>2, QuietAnswers DEF AnswersOK, NoHangUps
  <1>4. CASE LookAtQueue
    <2>1. \/ Dies
          \/ /\ pc = "queue" /\ pc' \in {"queue", "boot"} /\ ready' = ready
             /\ UNCHANGED netVars /\ servers' = servers /\ hdr' = hdr
      BY <1>4 DEF LookAtQueue, NextQueue
    <2>2. CASE /\ pc = "queue" /\ pc' \in {"queue", "boot"} /\ ready' = ready
               /\ UNCHANGED netVars /\ servers' = servers /\ hdr' = hdr
      <3>1. \A p \in Peers : Mode(p) = "idle" /\ Mode(p)' = "idle"
        BY <2>2 DEF Mode, Serving
      <3> QED
        BY <2>2, <3>1, QuietAnswers DEF AnswersOK, NoHangUps
    <2> QED
      BY <2>1, <2>2, DiesAnswers
  <1> QED
    BY <1>1, <1>2, <1>3, <1>4
-----------------------------------------------------------------------------
\* Calls of the daemon on one connection.

\* accept(), and a connection dropped by a failed one.
LEMMA AcceptAnswers ==
  ASSUME IInv, StreamsOK, AnswersOK, UNCHANGED <<sVars, cVars>>, Accept \/ AcceptFails
  PROVE  AnswersOK'
  <1>1. /\ pc = "handle" /\ pc' = "handle" /\ UNCHANGED <<servers, hdr, end, down>>
        /\ NetTypeOK /\ ready' \subseteq ready
    BY DEF Accept, AcceptFails, Handled, IInv, TypeOK
  <1>2. \A p \in Peers : Mode(p) = "idle" /\ Mode(p)' = "idle"
    BY <1>1 DEF Mode, Serving
  <1>3. ASSUME NEW p \in Peers
        PROVE  \/ link'[p] = link[p]
               \/ link[p] = "backlog" /\ link'[p] = "up"
               \/ link[p] = "backlog" /\ link'[p] = "closed"
    BY <1>1 DEF Accept, AcceptFails, Backlog, NetTypeOK, Joined
  <1>4. ASSUME NEW c \in Clients
        PROVE  ClientAnswer(c)'
    <2>1. /\ c \in Peers /\ ClientAnswer(c) /\ cst'[c] = cst[c] /\ down'[c] = down[c]
          /\ Mode(c) = "idle" /\ Mode(c)' = "idle"
      BY <1>1, <1>2, PeersAre DEF AnswersOK, cVars
    <2>2. CASE link[c] = "backlog" /\ link'[c] = "closed"
      BY <2>1, <2>2, AnswerCutOff DEF Joined
    <2>3. CASE link[c] = "backlog" /\ link'[c] = "up"
      BY <2>1, <2>3, IdleLeftAlone
    <2>4. CASE link'[c] = link[c]
      BY <2>1, <2>4, IdleLeftAlone
    <2>5. \/ link'[c] = link[c]
          \/ link[c] = "backlog" /\ link'[c] = "up"
          \/ link[c] = "backlog" /\ link'[c] = "closed"
      BY <1>3, <2>1
    <2> QED
      BY <2>2, <2>3, <2>4, <2>5
  <1>5. ASSUME NEW f \in Fd, fds[f] # NoPeer
        PROVE  fds'[f] = fds[f]
    <2>1. FreeFds # {} => LowestFd \in FreeFds
      BY FreeFdsHaveALowest DEF LowestFd
    <2> QED
      BY <1>1, <1>5, <2>1 DEF Accept, AcceptFails, FreeFds, NetTypeOK
  <1>6. EntriesOpen'
    <2>1. \A i \in 1 .. Len(servers) : servers[i].fd \in Fd /\ servers[i].name # NoPeer
      BY NamesAreServers, SocketsAssumption
    <2> QED
      BY <1>1, <1>5, <2>1 DEF AnswersOK, EntriesOpen
  <1>7. OpenWhileJoined'
    BY <1>1, <1>3 DEF AnswersOK, OpenWhileJoined, Joined, Killed, cVars
  <1>8. NoHangUps' /\ ReplyMatches'
    BY <1>1 DEF AnswersOK, NoHangUps, ReplyMatches, cVars, Killed
  <1>9. AcknowledgedIsListed'
    BY <1>1, ListingsStay DEF sVars
  <1> QED
    BY <1>4, <1>6, <1>7, <1>8, <1>9 DEF AnswersOK

\* A call on descriptor f concerns its peer alone.
LEMMA OthersAnswers ==
  ASSUME AnswersOK, UNCHANGED <<sVars, cVars>>,
         NEW f \in Fd, NEW p \in Peers, fds[f] = p, OneFd(f), end'[p] = end[p] \/ Killed(p),
         \A q \in Peers \ {p} : down'[q] = down[q],
         pc \in Serving => cur = f, pc' \in Serving => cur' = f,
         pc \in {"boot_header", "boot_body"} => BootFd = f,
         pc' \in {"boot_header", "boot_body"} => BootFd' = f,
         ready' \subseteq ready, p \in Clients => ClientAnswer(p)'
  PROVE  /\ OpenWhileJoined' /\ NoHangUps' /\ ReplyMatches'
         /\ \A c \in Clients : ClientAnswer(c)'
  <1>1. ASSUME NEW q \in Peers \ {p}
        PROVE  /\ link'[q] = link[q] /\ down'[q] = down[q]
               /\ Mode(q) = "idle" /\ Mode(q)' = "idle"
    <2>1. fds'[f] # q
      BY SocketsAssumption DEF OneFd
    <2> QED
      BY <2>1 DEF OneFd, Mode
  <1>2. ASSUME NEW c \in Clients
        PROVE  ClientAnswer(c)'
    <2>1. CASE c # p
      <3>1. c \in Peers \ {p} /\ ClientAnswer(c) /\ cst'[c] = cst[c]
        BY <2>1, PeersAre DEF AnswersOK, cVars
      <3> QED
        BY <1>1, <3>1, IdleLeftAlone
    <2> QED
      BY <2>1
  <1>3. ASSUME NEW q \in Peers, Joined(q)'
        PROVE  end'[q] = "open" \/ Killed(q)'
    <2>1. Joined(q)
      BY <1>1, <1>3 DEF Joined, OneFd
    <2>2. end[q] = "open" \/ Killed(q)
      BY <2>1 DEF AnswersOK, OpenWhileJoined
    <2>3. end'[q] = end[q] \/ Killed(q)
      BY DEF OneFd
    <2> QED
      BY <2>2, <2>3 DEF Killed, cVars
  <1>4. NoHangUps'
    BY DEF AnswersOK, NoHangUps, Killed, cVars
  <1>5. ReplyMatches'
    BY DEF AnswersOK, ReplyMatches, cVars
  <1> QED
    BY <1>2, <1>3, <1>4, <1>5 DEF OpenWhileJoined

\* The descriptors of the list stay open: no server is closed.
LEMMA EntriesKept ==
  ASSUME IInv, StreamsOK, AnswersOK, NEW f \in Fd, NEW p \in Peers, fds[f] = p, OneFd(f),
         p \in Servers => fds'[f] = p, servers' = servers, pc # "dead"
  PROVE  EntriesOpen'
  <1>1. ASSUME NEW i \in 1 .. Len(servers)
        PROVE  fds'[servers[i].fd] = servers[i].name
    <2>1. servers[i].fd \in Fd /\ servers[i].name \in Servers /\ fds[servers[i].fd] = servers[i].name
      BY NamesAreServers DEF AnswersOK, EntriesOpen
    <2> QED
      BY <2>1 DEF OneFd
  <1> QED
    BY <1>1 DEF EntriesOpen

\* The connection of a killed client is closed: it hung up, or nothing can be read.
LEMMA ReapAnswers ==
  ASSUME IInv, StreamsOK, AnswersOK, UNCHANGED <<sVars, cVars>>, NEW e \in ready,
         ConnError(e) \/ ReadFails(e)
  PROVE  AnswersOK'
  <1>1. /\ pc = "handle" /\ pc' = "handle" /\ Closed(e.fd) /\ UNCHANGED <<servers, end, down>>
        /\ ready' \subseteq ready
    BY DEF ConnError, ReadFails, Handled
  <1>2. PICK p \in Peers, f \in Fd : f = e.fd /\ p = fds[f] /\ Killed(p)
    BY FailsOnKilled
  <1>3. NetTypeOK /\ p \in Clients /\ p \notin Servers /\ cst[p] = "killed"
    BY <1>2, SocketsAssumption DEF Killed, IInv, TypeOK
  <1>4. OneFd(f)
    BY <1>1, <1>2, <1>3, MessageTypes, ClosedOneFd DEF Closed
  <1>5. ClientAnswer(p)'
    BY <1>3, KilledAnswer DEF cVars
  <1>6. /\ OpenWhileJoined' /\ NoHangUps' /\ ReplyMatches'
        /\ \A c \in Clients : ClientAnswer(c)'
    BY <1>1, <1>2, <1>4, <1>5, OthersAnswers DEF Serving
  <1>7. EntriesOpen'
    BY <1>1, <1>2, <1>3, <1>4, EntriesKept
  <1>8. AcknowledgedIsListed'
    BY <1>1, ListingsStay DEF sVars
  <1> QED
    BY <1>6, <1>7, <1>8 DEF AnswersOK

\* queue_info closes a client's connection, and nothing else.
LEMMA QueueInfoAnswers ==
  ASSUME IInv, StreamsOK, AnswersOK, UNCHANGED <<sVars, cVars>>, NEW e \in ready, QueueInfo(e)
  PROVE  AnswersOK'
  <1>1. /\ pc = "handle" /\ pc' = "handle" /\ Closed(e.fd) /\ UNCHANGED <<servers, end, down>>
        /\ ready' \subseteq ready /\ e.fd # 0 /\ up[fds[e.fd]] # <<>>
        /\ Head(up[fds[e.fd]]).op = BROKER_QUEUE_STATUS
    BY DEF QueueInfo, Handled
  <1>2. e.fd \in Fd /\ fds[e.fd] \in Peers /\ NetTypeOK /\ FdTableOK
    BY <1>1 DEF IInv, TypeOK, DaemonTypeOK, EventsFresh, BatchOK
  <1>3. PICK p \in Peers, f \in Fd : f = e.fd /\ p = fds[f]
    BY <1>2
  <1>4. OneFd(f) /\ link'[p] = "closed"
    BY <1>1, <1>2, <1>3, MessageTypes, ClosedOneFd DEF Closed, NetTypeOK
  <1>5. link[p] = "up" /\ Joined(p) /\ Mode(p) = "idle"
    BY <1>1, <1>2, <1>3, InUse, SocketsAssumption DEF Joined, Mode, Serving
  <1>6. p \notin Servers
    <2>1. SUFFICES ASSUME p \in Servers PROVE FALSE
      OBVIOUS
    <2>2. Head(up[p]) = RegisterHeader
      BY <1>1, <1>3, <1>5, <2>1, OwnStream, DaemonRegisters, LocTypes DEF ServerStream, InStep
    <2> QED
      BY <1>1, <1>3, <2>2, TwoHeaders DEF BROKER_QUEUE_STATUS, BROKER_SERVER_REGISTER
  <1>7. p \in Clients => ClientAnswer(p)'
    BY <1>1, <1>4, <1>5, AnswerCutOff DEF AnswersOK, cVars
  <1>8. /\ OpenWhileJoined' /\ NoHangUps' /\ ReplyMatches'
        /\ \A c \in Clients : ClientAnswer(c)'
    BY <1>1, <1>3, <1>4, <1>7, OthersAnswers DEF Serving
  <1>9. EntriesOpen'
    BY <1>1, <1>3, <1>4, <1>6, EntriesKept
  <1>10. AcknowledgedIsListed'
    BY <1>1, ListingsStay DEF sVars
  <1> QED
    BY <1>8, <1>9, <1>10 DEF AnswersOK
\* A header is read: a client's request that will be answered, or a registration.
LEMMA ServeAnswers ==
  ASSUME IInv, StreamsOK, AnswersOK, UNCHANGED <<sVars, cVars>>, NEW e \in ready, Serve(e)
  PROVE  AnswersOK'
  <1>1. /\ pc = "handle" /\ Received(fds[e.fd]) /\ cur' = e.fd /\ fds' = fds /\ link' = link
        /\ end' = end /\ down' = down /\ servers' = servers /\ ready' \subseteq ready
        /\ pc' = Dispatch(hdr'.op) /\ hdr'.op # BROKER_QUEUE_STATUS
    BY DEF Serve, Received, Handled
  <1>2. e.fd \in Fd /\ fds[e.fd] \in Peers /\ NetTypeOK /\ FdTableOK
    BY DEF Serve, IInv, TypeOK, DaemonTypeOK, EventsFresh, BatchOK
  <1>3. PICK p \in Peers, f \in Fd : f = e.fd /\ p = fds[f]
    BY <1>2
  <1>4. OneFd(f) /\ hdr' = Head(up[p]) /\ up[p] # <<>> /\ up[p] \in Seq(Msg)
    BY <1>1, <1>2, <1>3, ReceivedOneFd, StreamTypes DEF Serve, Received
  <1>5. link[p] = "up" /\ Joined(p) /\ Mode(p) = "idle"
    BY <1>1, <1>2, <1>3, InUse, SocketsAssumption DEF Joined, Mode, Serving
  <1>6. ASSUME p \in Clients
        PROVE  ClientAnswer(p)'
    <2>1. ClientAnswer(p) /\ cst'[p] = cst[p] /\ Request[p] \in {0, 1, 2}
      BY <1>6, LocTypes DEF AnswersOK, cVars
    <2>2. hdr'.op = Request[p] /\ cst[p] \notin {"start", "connected"}
      BY <1>4, <1>5, <1>6, OwnRequest, RequestIsRead DEF ClientStream
    <2>3. HasAnswer(p) /\ pc' = "reply_header"
      BY <1>1, <2>1, <2>2
         DEF HasAnswer, Dispatch, BROKER_STATUS, BROKER_QUEUE_STATUS, BROKER_PARAMS,
             BROKER_SERVER_REGISTER
    <2>4. Mode(p)' = "reply_header"
      BY <1>1, <1>3, <2>3 DEF Mode, Serving
    <2>5. cst[p] # "killed" => cst[p] = "waiting" /\ down[p] = <<>>
      BY <1>5, <2>1, <2>2 DEF ClientAnswer, Answering
    <2> QED
      BY <1>1, <1>5, <2>1, <2>2, <2>3, <2>4, <2>5 DEF ClientAnswer, Answering, Joined, HasAnswer
  <1>7. pc \notin Serving /\ pc \notin {"boot_header", "boot_body"} /\ pc' \notin {"boot_header", "boot_body"}
    BY <1>1 DEF Serving, Dispatch
  <1>8. /\ OpenWhileJoined' /\ NoHangUps' /\ ReplyMatches'
        /\ \A c \in Clients : ClientAnswer(c)'
    BY <1>1, <1>3, <1>4, <1>6, <1>7, OthersAnswers
  <1>9. EntriesOpen'
    BY <1>1, <1>3, <1>4, EntriesKept
  <1>10. AcknowledgedIsListed'
    BY <1>1, ListingsStay DEF sVars
  <1> QED
    BY <1>8, <1>9, <1>10 DEF AnswersOK

\* What a write to an open connection does.
LEMMA OpenWrites ==
  ASSUME NetTypeOK, NEW p \in Peers, end[p] = "open", NEW m, Wrote(p, m)
  PROVE  /\ end' = end /\ down'[p] = Append(down[p], m)
         /\ \A q \in Peers \ {p} : down'[q] = down[q]
  BY DEF Wrote, NetTypeOK

LEMMA TwoMessages ==
  ASSUME NEW x \in Msg, NEW y \in Msg
  PROVE  Append(<<x>>, y) = <<x, y>> /\ Append(<<>>, y) = <<y>>
  <1>1. <<x>> \in Seq(Msg) /\ Append(<<x>>, y) \in Seq(Msg) /\ <<x, y>> \in Seq(Msg)
    OBVIOUS
  <1>2. /\ Len(Append(<<x>>, y)) = 2 /\ Append(<<x>>, y)[1] = x /\ Append(<<x>>, y)[2] = y
        /\ Len(<<x, y>>) = 2
    BY <1>1, AppendProperties
  <1>3. \A i \in 1 .. Len(Append(<<x>>, y)) : Append(<<x>>, y)[i] = <<x, y>>[i]
    <2>1. ASSUME NEW i \in 1 .. Len(Append(<<x>>, y))
          PROVE  i = 1 \/ i = 2
      BY <1>2
    <2> QED
      BY <1>2, <2>1
  <1>4. Append(<<x>>, y) = <<x, y>>
    BY <1>1, <1>2, <1>3, SeqEqual
  <1> QED
    BY <1>4

LEMMA AnswerMessages ==
  ASSUME NEW c \in Clients
  PROVE  /\ OkReply \in Msg /\ Answer(c) \in Msg
         /\ Tail(<<OkReply>>) = <<>> /\ Tail(<<OkReply, Answer(c)>>) = <<Answer(c)>>
  <1>1. OkReply \in Msg /\ Answer(c) \in Msg
    BY MessageTypes DEF OkReply, Answer, Contents, BROKER_OK
  <1>2. \A x, y \in Msg : Tail(<<x>>) = <<>> /\ Tail(<<x, y>>) = <<y>>
    OBVIOUS
  <1> QED
    BY <1>1, <1>2

\* An answer to a killed client is lost, or its connection is closed.
LEMMA LostAnswers ==
  ASSUME IInv, StreamsOK, AnswersOK, UNCHANGED <<sVars, cVars>>, ReplyHeader \/ ReplyBody,
         NEW p \in Clients, p = fds[cur], cur \in Fd, cst[p] = "killed"
  PROVE  AnswersOK'
  <1>1. /\ pc \in Serving /\ pc \notin {"boot_header", "boot_body"}
        /\ p \in Peers /\ p \notin Servers /\ NetTypeOK
    BY PeersAre, SocketsAssumption DEF ReplyHeader, ReplyBody, Serving, IInv, TypeOK
  <1>2. PICK f \in Fd : f = cur
    OBVIOUS
  <1>3. Header(BROKER_OK, 1) \in Msg /\ Reply \in Msg
    BY MessageTypes DEF Reply, Contents, BROKER_OK
  <1>4. /\ cur' = cur /\ servers' = servers /\ ready' = ready
        /\ \E m \in Msg : Wrote(p, m) \/ WriteError(p)
        /\ \/ Closed(f) /\ pc' = "handle"
           \/ UNCHANGED <<listening, fds, link, up>> /\ pc' = "reply_body"
    BY <1>2, <1>3 DEF ReplyHeader, ReplyBody, Local, Peer
  <1>5. \A q \in Peers \ {p} : down'[q] = down[q]
    BY <1>1, <1>4 DEF Wrote, WriteError, NetTypeOK
  <1>6. OneFd(f)
    BY <1>1, <1>2, <1>4, ClosedOneFd, WrittenOneFd
  <1>7. ClientAnswer(p)' /\ Killed(p)
    BY KilledAnswer DEF cVars, Killed
  <1>8. /\ pc' \notin {"boot_header", "boot_body"} /\ pc' # "dead" /\ pc # "dead"
        /\ \A s \in Servers : down'[s] = down[s]
    BY <1>1, <1>4, <1>5, PeersAre DEF Serving
  <1>9. /\ OpenWhileJoined' /\ NoHangUps' /\ ReplyMatches'
        /\ \A c \in Clients : ClientAnswer(c)'
    BY <1>1, <1>2, <1>4, <1>5, <1>6, <1>7, <1>8, OthersAnswers
  <1>10. EntriesOpen'
    BY <1>1, <1>2, <1>4, <1>6, <1>8, EntriesKept
  <1>11. AcknowledgedIsListed'
    BY <1>4, <1>8, ListingsStay DEF sVars
  <1> QED
    BY <1>9, <1>10, <1>11 DEF AnswersOK

\* The header of the answer, then its text and the close, to a client that lives.
LEMMA ReplyAnswers ==
  ASSUME IInv, StreamsOK, AnswersOK, UNCHANGED <<sVars, cVars>>, ReplyHeader \/ ReplyBody,
         ~Killed(fds[cur])
  PROVE  AnswersOK'
  <1>1. pc \in {"reply_header", "reply_body"} /\ pc \in Serving
    BY DEF ReplyHeader, ReplyBody, Serving
  <1>2. PICK p \in Peers :
          /\ p = fds[cur] /\ cur \in Fd /\ link[p] = "up" /\ Joined(p) /\ Mode(p) = pc /\ NetTypeOK
          /\ p \in Clients /\ p \notin Servers /\ end[p] = "open" /\ cst[p] # "killed"
    <2>1. PICK p \in Peers :
            /\ p = fds[cur] /\ cur \in Fd /\ link[p] = "up" /\ Joined(p) /\ Mode(p) = pc /\ NetTypeOK
            /\ p \in Servers => pc \in {"register_body", "register_reply"}
            /\ p \in Servers \cup Clients
      BY <1>1, ServedPeer
    <2>2. end[p] = "open"
      BY <2>1, OpenOrKilled
    <2>3. p \notin Servers /\ p \in Clients /\ cst[p] # "killed"
      BY <1>1, <2>1 DEF Killed
    <2> QED
      BY <2>1, <2>2, <2>3
  <1>3. PICK f \in Fd : f = cur
    BY <1>2
  <1>4. /\ ClientAnswer(p) /\ cst'[p] = cst[p] /\ hdr.op = Request[p] /\ HasAnswer(p)
        /\ Answering(pc, cst[p], down[p])
    BY <1>1, <1>2 DEF AnswersOK, ClientAnswer, cVars
  <1>5. Reply = Answer(p) /\ Header(BROKER_OK, 1) = OkReply
    BY <1>4 DEF Reply, Answer, OkReply
  <1>6. Header(BROKER_OK, 1) \in Msg /\ Reply \in Msg
    BY MessageTypes DEF Reply, Contents, BROKER_OK
  <1>7. /\ cur' = cur /\ hdr' = hdr /\ servers' = servers /\ ready' = ready
        /\ pc' \in {"reply_body", "handle"}
    BY DEF ReplyHeader, ReplyBody, Local
  <1>8. CASE ReplyHeader
    <2>1. /\ pc = "reply_header" /\ pc' = "reply_body" /\ Wrote(p, OkReply) /\ fds' = fds /\ link' = link
          /\ UNCHANGED <<listening, fds, link, up>>
      BY <1>2, <1>5, <1>8 DEF ReplyHeader, Peer, WriteFails
    <2>2. OneFd(f)
      BY <1>2, <1>3, <1>5, <1>6, <2>1, WrittenOneFd
    <2>3. /\ end' = end /\ down'[p] = Append(down[p], OkReply)
          /\ \A q \in Peers \ {p} : down'[q] = down[q]
      BY <1>2, <2>1, OpenWrites
    <2>4. cst[p] = "waiting" /\ down'[p] = <<OkReply>>
      <3>1. cst[p] = "waiting" /\ down[p] = <<>>
        BY <1>4, <2>1 DEF Answering
      <3> QED
        BY <2>3, <3>1
    <2>5. Mode(p)' = "reply_body"
      BY <1>2, <1>7, <2>1 DEF Mode, Serving
    <2>6. ClientAnswer(p)'
      BY <1>2, <1>4, <1>7, <2>1, <2>4, <2>5 DEF ClientAnswer, Answering, Joined, HasAnswer
    <2>7. /\ OpenWhileJoined' /\ NoHangUps' /\ ReplyMatches'
          /\ \A c \in Clients : ClientAnswer(c)'
      BY <1>1, <1>2, <1>3, <1>7, <2>1, <2>2, <2>3, <2>6, OthersAnswers
    <2>8. EntriesOpen'
      BY <1>1, <1>2, <1>3, <1>7, <2>2, EntriesKept
    <2>9. AcknowledgedIsListed'
      BY <1>2, <1>7, <2>3, PeersAre, ListingsStay DEF sVars
    <2> QED
      BY <2>7, <2>8, <2>9 DEF AnswersOK
  <1>9. CASE ReplyBody
    <2>1. pc = "reply_body" /\ pc' = "handle" /\ Wrote(p, Answer(p)) /\ Closed(f)
      BY <1>2, <1>3, <1>5, <1>9 DEF ReplyBody, Peer, WriteFails
    <2>2. OneFd(f) /\ link'[p] = "closed"
      BY <1>2, <1>3, <1>5, <1>6, <2>1, ClosedOneFd DEF Closed, NetTypeOK
    <2>3. /\ end' = end /\ down'[p] = Append(down[p], Answer(p))
          /\ \A q \in Peers \ {p} : down'[q] = down[q]
      BY <1>2, <2>1, OpenWrites
    <2>4. Answered(p, cst[p], down'[p])
      <3>1. \/ cst[p] = "waiting" /\ down[p] = <<OkReply>>
            \/ cst[p] = "reading" /\ down[p] = <<>>
        BY <1>4, <2>1 DEF Answering
      <3>2. /\ Append(<<OkReply>>, Answer(p)) = <<OkReply, Answer(p)>>
            /\ Append(<<>>, Answer(p)) = <<Answer(p)>>
        BY <1>5, <1>6, TwoMessages
      <3> QED
        BY <1>4, <2>3, <3>1, <3>2 DEF Answered
    <2>5. Answered(p, cst[p], down[p])'
      BY <1>4, <2>4 DEF Answered, HasAnswer
    <2>6. ClientAnswer(p)'
      BY <2>2, <2>5 DEF ClientAnswer, Joined
    <2>7. /\ OpenWhileJoined' /\ NoHangUps' /\ ReplyMatches'
          /\ \A c \in Clients : ClientAnswer(c)'
      BY <1>1, <1>2, <1>3, <1>7, <2>1, <2>2, <2>3, <2>6, OthersAnswers DEF Serving
    <2>8. EntriesOpen'
      BY <1>1, <1>2, <1>3, <1>7, <2>2, EntriesKept
    <2>9. AcknowledgedIsListed'
      BY <1>2, <1>7, <2>3, PeersAre, ListingsStay DEF sVars
    <2> QED
      BY <2>7, <2>8, <2>9 DEF AnswersOK
  <1> QED
    BY <1>8, <1>9
\* A call of the daemon on the connection of a server that stays open.
LEMMA ServerCallAnswers ==
  ASSUME IInv, StreamsOK, AnswersOK, UNCHANGED <<sVars, cVars>>, pc # "dead",
         NEW f \in Fd, NEW p \in Servers, fds[f] = p, OneFd(f), fds'[f] = p, end' = end,
         \A q \in Peers \ {p} : down'[q] = down[q], down'[p] # <<>> => down[p] # <<>> \/ Listed(p),
         pc \in Serving => cur = f, pc' \in Serving => cur' = f,
         pc \in {"boot_header", "boot_body"} => BootFd = f,
         pc' \in {"boot_header", "boot_body"} => BootFd' = f,
         ready' = ready, servers' = servers
  PROVE  AnswersOK'
  <1>1. p \in Peers /\ p \notin Clients
    BY PeersAre, SocketsAssumption
  <1>2. /\ OpenWhileJoined' /\ NoHangUps' /\ ReplyMatches'
        /\ \A c \in Clients : ClientAnswer(c)'
    BY <1>1, OthersAnswers
  <1>3. EntriesOpen'
    BY <1>1, EntriesKept
  <1>4. AcknowledgedIsListed'
    <2>1. \A s \in Servers : down'[s] # <<>> => down[s] # <<>> \/ Listed(s)
      BY PeersAre
    <2> QED
      BY <2>1, ListingsStay DEF sVars
  <1> QED
    BY <1>2, <1>3, <1>4 DEF AnswersOK

\* The text of a registration is read.
LEMMA RegisterBodyAnswers ==
  ASSUME IInv, StreamsOK, AnswersOK, UNCHANGED <<sVars, cVars>>, RegisterBody
  PROVE  AnswersOK'
  <1>1. /\ pc = "register_body" /\ pc' = "register_reply" /\ Received(fds[cur]) /\ cur' = cur
        /\ ready' = ready /\ servers' = servers /\ fds' = fds /\ end' = end /\ down' = down
    BY DEF RegisterBody, Local, Peer, Received
  <1>2. PICK p \in Servers : p = fds[cur] /\ cur \in Fd /\ p \in Peers /\ NetTypeOK
    BY <1>1, ServedPeer DEF Serving
  <1>3. PICK f \in Fd : f = cur
    BY <1>2
  <1>4. OneFd(f)
    BY <1>1, <1>2, <1>3, ReceivedOneFd
  <1> QED
    BY <1>1, <1>2, <1>3, <1>4, ServerCallAnswers

\* The acknowledgement is sent, and the server is put on the list.
LEMMA RegisterReplyAnswers ==
  ASSUME IInv, StreamsOK, AnswersOK, UNCHANGED <<sVars, cVars>>, RegisterReply
  PROVE  AnswersOK'
  <1>1. /\ pc = "register_reply" /\ pc \in Serving /\ pc' = "handle" /\ pc' \notin Serving
        /\ cur' = cur /\ fds' = fds /\ link' = link /\ ready' = ready /\ sst' = sst
        /\ UNCHANGED <<listening, fds, link, up>>
    BY DEF RegisterReply, Serving, sVars
  <1>2. PICK p \in Servers :
          p = fds[cur] /\ cur \in Fd /\ p \in Peers /\ NetTypeOK /\ Joined(p) /\ p \notin Clients
    BY <1>1, ServedPeer, PeersAre, SocketsAssumption
  <1>3. PICK f \in Fd : f = cur
    BY <1>2
  <1>4. Header(BROKER_OK, 0) \in Msg
    BY MessageTypes DEF BROKER_OK
  <1>5. end[p] = "open"
    BY <1>2 DEF AnswersOK, OpenWhileJoined, Killed
  <1>6. Wrote(p, Header(BROKER_OK, 0)) /\ servers' = Append(servers, [name |-> p, fd |-> f])
    BY <1>2, <1>3, <1>5 DEF RegisterReply, Peer, Registered, WriteFails
  <1>7. end' = end /\ \A q \in Peers \ {p} : down'[q] = down[q]
    BY <1>2, <1>5, <1>6, OpenWrites
  <1>8. OneFd(f)
    BY <1>1, <1>2, <1>3, <1>4, <1>6, WrittenOneFd
  <1>9. /\ OpenWhileJoined' /\ NoHangUps' /\ ReplyMatches'
        /\ \A c \in Clients : ClientAnswer(c)'
    <2>1. pc \notin {"boot_header", "boot_body"} /\ pc' \notin {"boot_header", "boot_body"}
      BY <1>1
    <2> QED
      BY <1>1, <1>2, <1>3, <1>7, <1>8, <2>1, OthersAnswers
  <1>10. /\ Len(servers') = Len(servers) + 1 /\ Len(servers) \in Nat
         /\ \A i \in 1 .. Len(servers) : servers'[i] = servers[i]
         /\ servers'[Len(servers) + 1] = [name |-> p, fd |-> f]
    <2>1. servers \in Seq([name : Peers, fd : Fd]) /\ [name |-> p, fd |-> f] \in [name : Peers, fd : Fd]
      BY <1>2 DEF IInv, TypeOK, DaemonTypeOK
    <2> QED
      BY <1>6, <2>1, AppendProperties, LenProperties
  <1>11. EntriesOpen'
    <2>1. ASSUME NEW i \in 1 .. Len(servers')
          PROVE  fds[servers'[i].fd] = servers'[i].name
      <3>1. CASE i \in 1 .. Len(servers)
        BY <1>1, <1>10, <3>1 DEF AnswersOK, EntriesOpen
      <3>2. CASE i = Len(servers) + 1
        BY <1>2, <1>3, <1>10, <3>2
      <3> QED
        BY <1>10, <2>1, <3>1, <3>2
    <2> QED
      BY <1>1, <2>1 DEF EntriesOpen
  <1>12. ASSUME NEW s \in Servers
         PROVE  (Listed(s) => Listed(s)') /\ (s = p => Listed(s)')
    <2>1. Len(servers') \in 1 .. Len(servers') /\ servers'[Len(servers')].name = p
      BY <1>10
    <2>2. \A i \in 1 .. Len(servers) : i \in 1 .. Len(servers')
      BY <1>10
    <2> QED
      BY <1>10, <2>1, <2>2 DEF Listed
  <1>13. AcknowledgedIsListed'
    <2>1. ASSUME NEW s \in Servers, s # p, down'[s] # <<>> \/ sst'[s] \in {"ready", "boot_header", "boot_body"}
          PROVE  Listed(s)'
      <3>1. down'[s] = down[s] /\ sst'[s] = sst[s]
        BY <1>1, <1>7, <2>1, PeersAre
      <3> QED
        BY <1>12, <2>1, <3>1 DEF AnswersOK, AcknowledgedIsListed
    <2> QED
      BY <1>12, <2>1 DEF AcknowledgedIsListed
  <1> QED
    BY <1>9, <1>11, <1>13 DEF AnswersOK

\* A boot request goes to the first server of the list, and its answer is read.
LEMMA BootAnswers ==
  ASSUME IInv, StreamsOK, AnswersOK, UNCHANGED <<sVars, cVars>>, SendBoot \/ BootHeader \/ BootBody
  PROVE  AnswersOK'
  <1>1. pc \in {"boot", "boot_header", "boot_body"} /\ pc # "dead" /\ pc \notin Serving
    BY DEF SendBoot, BootHeader, BootBody, Serving
  <1>2. PICK p \in Servers, f \in Fd :
          /\ p = fds[f] /\ f = BootFd /\ end[p] = "open" /\ Listed(p) /\ p \in Peers /\ NetTypeOK
    BY <1>1, AskedIsTheServer
  <1>3. /\ ready' = ready /\ servers' = servers /\ fds' = fds
        /\ pc' \in {"boot_header", "boot_body", "queue"} /\ pc' \notin Serving /\ BootFd' = f
    BY <1>2 DEF SendBoot, BootHeader, BootBody, Local, NextQueue, Received, Serving, BootFd
  <1>4. \/ Received(p)
        \/ UNCHANGED <<listening, fds, link, up>> /\ Wrote(p, Header(SERVER_BOOT_RESOURCES, want))
    BY <1>2 DEF SendBoot, BootHeader, BootBody
  <1>5. OneFd(f) /\ end' = end /\ \A q \in Peers \ {p} : down'[q] = down[q]
    <2>1. CASE Received(p)
      BY <1>2, <2>1, ReceivedOneFd DEF Received
    <2>2. CASE UNCHANGED <<listening, fds, link, up>> /\ Wrote(p, Header(SERVER_BOOT_RESOURCES, want))
      <3>1. Header(SERVER_BOOT_RESOURCES, want) \in Msg
        BY MessageTypes DEF IInv, TypeOK, DaemonTypeOK, SERVER_BOOT_RESOURCES
      <3> QED
        BY <1>2, <2>2, <3>1, WrittenOneFd, OpenWrites
    <2> QED
      BY <1>4, <2>1, <2>2
  <1> QED
    BY <1>1, <1>2, <1>3, <1>5, ServerCallAnswers

\* Every step of the daemon, its death included.
LEMMA DaemonAnswers ==
  ASSUME IInv, StreamsOK, AnswersOK, DaemonNext
  PROVE  AnswersOK'
  <1>1. UNCHANGED <<sVars, cVars>>
    BY DEF DaemonNext
  <1>2. CASE EpollWait \/ Elapse \/ KillDaemon
    BY <1>1, <1>2, LocalAnswers, DiesAnswers DEF KillDaemon
  <1>3. CASE HandleEvent
    BY <1>1, <1>3, AcceptAnswers, ReapAnswers, ServeAnswers, QueueInfoAnswers DEF HandleEvent
  <1>4. CASE ServeRequest
    <2>1. CASE ReplyHeader \/ ReplyBody
      <3>1. pc \in Serving /\ cur \in Fd
        BY <2>1, ServedPeer DEF ReplyHeader, ReplyBody, Serving
      <3>2. CASE Killed(fds[cur])
        <4>1. PICK p \in Clients : p = fds[cur] /\ cst[p] = "killed"
          BY <3>2 DEF Killed
        <4> QED
          BY <1>1, <2>1, <3>1, <4>1, LostAnswers
      <3> QED
        BY <1>1, <2>1, <3>2, ReplyAnswers
    <2>2. CASE ReplyKills
      BY <1>1, <2>2, DiesAnswers DEF ReplyKills
    <2> QED
      BY <1>1, <1>4, <2>1, <2>2, NothingFails, RegisterBodyAnswers, RegisterReplyAnswers
         DEF ServeRequest
  <1>5. CASE CheckWorkload
    BY <1>1, <1>5, NothingFails, LocalAnswers, BootAnswers DEF CheckWorkload
  <1> QED
    BY <1>2, <1>3, <1>4, <1>5 DEF DaemonNext, DaemonStep
-----------------------------------------------------------------------------
\* Steps of the servers and of the clients.

\* A server closes its socket after the daemon, and reads what it was sent.
LEMMA ServerStays ==
  ASSUME IInv, StreamsOK, Mortal = {}, NEW s \in Servers, ServerStep(s)
  PROVE  /\ \/ end'[s] = "open"
            \/ link'[s] = link[s] /\ end'[s] = end[s]
            \/ link'[s] = "closed"
         /\ down'[s] # <<>> => down[s] # <<>>
         /\ sst'[s] \in {"ready", "boot_header", "boot_body"}
              => sst[s] \in {"ready", "boot_header", "boot_body"} \/ down[s] # <<>>
  <1>1. NetTypeOK /\ ProcessTypeOK /\ s \in Peers
    BY OwnStream
  <1>2. CASE ServerConnect(s) \/ ServerConnectFails(s)
    BY <1>1, <1>2 DEF ServerConnect, ServerConnectFails, PeerConnect, NetTypeOK, ProcessTypeOK, netVars
  <1>3. CASE SendRegisterHeader(s) \/ SendRegisterBody(s) \/ SendBootHeader(s) \/ SendBootBody(s)
    BY <1>1, <1>3 DEF SendRegisterHeader, SendRegisterBody, SendBootHeader, SendBootBody, PeerWrote,
       ProcessTypeOK
  <1>4. CASE RegistrationFails(s) \/ LoseBroker(s) \/ BootReplyFails(s)
    <2>1. link[s] = "closed"
      BY <1>4 DEF RegistrationFails, LoseBroker, BootReplyFails, PeerAtEof
    <2>2. link' = link /\ (down'[s] = <<>> \/ down' = down)
      BY <1>1, <1>4 DEF RegistrationFails, LoseBroker, BootReplyFails, PeerClosed, NetTypeOK, netVars
    <2>3. sst'[s] \in {"ready", "boot_header", "boot_body"} => sst[s] \in {"ready", "boot_header", "boot_body"}
      BY <1>1, <1>4 DEF RegistrationFails, LoseBroker, BootReplyFails, ProcessTypeOK
    <2> QED
      BY <2>1, <2>2, <2>3
  <1>5. CASE RegistrationReply(s)
    <2>1. Head(down[s]).op = BROKER_OK /\ down[s] # <<>>
      BY <1>5, FirstIsOk DEF RegistrationReply
    <2> QED
      BY <1>5, <2>1 DEF RegistrationReply, PeerReceived
  <1>6. CASE ReadRequest(s)
    <2>1. link' = link /\ end' = end /\ down[s] # <<>>
      BY <1>6 DEF ReadRequest, PeerReceived, netVars
    <2> QED
      BY <2>1
  <1>7. ~KillServer(s)
    BY DEF KillServer
  <1> QED
    BY <1>2, <1>3, <1>4, <1>5, <1>6, <1>7 DEF ServerStep, ServerRuns

LEMMA ServerNextAnswers ==
  ASSUME IInv, StreamsOK, AnswersOK, Mortal = {}, NEW s \in Servers, ServerNext(s)
  PROVE  AnswersOK'
  <1>1. ServerStep(s) /\ UNCHANGED dVars /\ UNCHANGED cVars /\ s \in Peers /\ s \notin Clients
        /\ NetTypeOK /\ ProcessTypeOK
    BY PeersAre, OwnStream, SocketsAssumption DEF ServerNext
  <1>2. ServerEffect(s)
    BY <1>1, ServerStepEffect DEF IInv
  <1>3. PeerNet(s) /\ \A q \in Servers \ {s} : sst'[q] = sst[q]
    BY <1>1, <1>2 DEF ServerEffect, ProcessTypeOK
  <1>4. /\ \A q \in Peers \ {s} : /\ link'[q] = link[q] /\ end'[q] = end[q]
                                  /\ up'[q] = up[q] /\ down'[q] = down[q]
        /\ fds' = fds /\ hdr' = hdr /\ servers' = servers /\ pc' = pc /\ ready' = ready
        /\ \A q \in Peers : (Mode(q)' = Mode(q)) /\ (Listed(q)' <=> Listed(q))
    BY <1>1, <1>3, PeerLeavesOthers DEF dVars
  <1>5. OpenWhileJoined'
    <2>1. ASSUME Joined(s)'
          PROVE  end'[s] = "open"
      <3>1. link'[s] # "closed"
        BY <2>1 DEF Joined
      <3>2. link'[s] = link[s] => Joined(s)
        BY <2>1 DEF Joined
      <3> QED
        BY <1>1, <3>1, <3>2, ServerStays DEF AnswersOK, OpenWhileJoined, Killed
    <2>2. ASSUME NEW q \in Peers \ {s}, Joined(q)'
          PROVE  end'[q] = "open" \/ Killed(q)'
      <3>1. Joined(q)
        BY <1>4, <2>2 DEF Joined
      <3>2. Killed(q) => Killed(q)'
        BY <1>1 DEF Killed, cVars
      <3> QED
        BY <1>4, <3>1, <3>2 DEF AnswersOK, OpenWhileJoined
    <2> QED
      BY <2>1, <2>2 DEF OpenWhileJoined
  <1>6. EntriesOpen' /\ NoHangUps' /\ ReplyMatches'
    BY <1>1, <1>4 DEF AnswersOK, EntriesOpen, NoHangUps, ReplyMatches, cVars, Killed
  <1>7. AcknowledgedIsListed'
    <2>1. ASSUME NEW q \in Servers, q # s
          PROVE  down'[q] = down[q] /\ sst'[q] = sst[q]
      BY <1>3, <1>4, <2>1, PeersAre
    <2>2. ASSUME NEW q \in Servers,
                 down'[q] # <<>> \/ sst'[q] \in {"ready", "boot_header", "boot_body"}
          PROVE  Listed(q)
      <3>1. down[q] # <<>> \/ sst[q] \in {"ready", "boot_header", "boot_body"}
        BY <1>1, <2>1, <2>2, ServerStays
      <3> QED
        BY <3>1 DEF AnswersOK, AcknowledgedIsListed
    <2> QED
      BY <1>4, <2>2, PeersAre DEF AcknowledgedIsListed
  <1>8. ASSUME NEW c \in Clients
        PROVE  ClientAnswer(c)'
    <2>1. c \in Peers \ {s} /\ cst'[c] = cst[c] /\ ClientAnswer(c)
      BY <1>1, PeersAre DEF AnswersOK, cVars
    <2> QED
      BY <1>4, <2>1, AnswerLeftAlone
  <1> QED
    BY <1>5, <1>6, <1>7, <1>8 DEF AnswersOK

\* What a client that waits for the header may find.
LEMMA WaitingFor ==
  ASSUME NEW c \in Clients, NEW d, Answered(c, "waiting", d), d # <<>>
  PROVE  d = <<OkReply>> \/ (d = <<OkReply, Answer(c)>> /\ HasAnswer(c))
  BY SMTT(30) DEF Answered

\* A killed process does nothing.
LEMMA KilledIsDone ==
  ASSUME NEW c \in Clients, ClientStep(c)
  PROVE  cst[c] # "killed"
  BY DEF ClientStep, ClientRuns, ClientConnect, ClientConnectFails, SendRequest, ReplyArrives,
     ReplyBodyArrives, RequestFails, KillClient, Finished

\* A client's own step: what it reads is the answer to its request.
LEMMA ClientAnswers ==
  ASSUME IInv, StreamsOK, AnswersOK, NEW c \in Clients, ClientStep(c),
         UNCHANGED dVars, Mode(c)' = Mode(c)
  PROVE  /\ ClientAnswer(c)' /\ (Joined(c)' => end'[c] = "open" \/ Killed(c)')
         /\ cst'[c] = "done" => \/ Request[c] = BROKER_STATUS /\ got'[c] = "status"
                                \/ Request[c] = BROKER_PARAMS /\ got'[c] = "params"
  <1>1. /\ NetTypeOK /\ ProcessTypeOK /\ c \in Peers /\ down[c] \in Seq(Msg) /\ ClientStream(c)
        /\ link[c] \in {"none", "backlog", "up", "closed"} /\ (link[c] # "up" => Mode(c) = "idle")
        /\ ClientAnswer(c) /\ hdr' = hdr /\ (Joined(c) => end[c] = "open") /\ cst[c] # "killed"
    <2>1. cst[c] # "killed"
      BY KilledIsDone
    <2> QED
      BY <2>1, OwnRequest DEF AnswersOK, OpenWhileJoined, dVars, Killed
  <1> USE DEF ProcessTypeOK
  <1>2. CASE ClientConnect(c)
    <2>1. Unlinked(c)
      BY <1>1, <1>2 DEF ClientConnect, IInv, StartedUnlinked, ClientStream
    <2>2. /\ link'[c] = "backlog" /\ end'[c] = "open" /\ down' = down /\ cst'[c] = "connected"
          /\ link[c] = "none"
      BY <1>1, <1>2 DEF ClientConnect, PeerConnect, NetTypeOK, IInv, StartedUnlinked
    <2> QED
      BY <1>1, <2>1, <2>2 DEF ClientAnswer, Answering, Joined, Unlinked
  <1>3. CASE ClientConnectFails(c)
    <2>1. link'[c] = "none" /\ cst'[c] = "failed"
      BY <1>1, <1>3 DEF ClientConnectFails, IInv, StartedUnlinked, netVars
    <2> QED
      BY <2>1 DEF ClientAnswer, Joined
  <1>4. CASE SendRequest(c)
    <2>1. /\ cst[c] = "connected" /\ cst'[c] = "waiting" /\ link' = link /\ end' = end /\ down' = down
      BY <1>1, <1>4 DEF SendRequest, PeerWrote
    <2>2. Joined(c) => Mode(c) = "idle" /\ down[c] = <<>>
      BY <1>1, <2>1 DEF ClientAnswer, Answering
    <2>3. link[c] = "closed" => down[c] = <<>>
      BY <1>1, <2>1 DEF ClientAnswer, Answered, Finished
    <2> QED
      BY <1>1, <2>1, <2>2, <2>3 DEF ClientAnswer, Answering, Answered, Joined
  <1>5. CASE ReplyArrives(c)
    <2>1. /\ cst[c] = "waiting" /\ cst'[c] = "reading" /\ link' = link /\ end' = end
          /\ down[c] # <<>> /\ down'[c] = Tail(down[c]) /\ link[c] # "none"
      BY <1>1, <1>5 DEF ReplyArrives, PeerReceived, NetTypeOK, ClientStream
    <2>2. Joined(c) => Mode(c) = "reply_body" /\ down[c] = <<OkReply>>
      BY <1>1, <2>1 DEF ClientAnswer, Answering
    <2>3. ASSUME link[c] = "closed"
          PROVE  down[c] = <<OkReply>> \/ (down[c] = <<OkReply, Answer(c)>> /\ HasAnswer(c))
      <3>1. Answered(c, "waiting", down[c]) /\ down[c] # <<>>
        BY <1>1, <2>1, <2>3 DEF ClientAnswer, Finished
      <3> QED
        BY <3>1, WaitingFor
    <2>4. Tail(<<OkReply>>) = <<>> /\ Tail(<<OkReply, Answer(c)>>) = <<Answer(c)>>
      BY AnswerMessages
    <2>5. CASE Joined(c)
      <3>1. down'[c] = <<>> /\ Mode(c)' = "reply_body" /\ Joined(c)' /\ link'[c] # "closed"
        BY <2>1, <2>2, <2>4, <2>5 DEF Joined
      <3>2. hdr'.op = Request[c] /\ HasAnswer(c)
        BY <1>1, <2>2, <2>5 DEF ClientAnswer
      <3> QED
        BY <1>1, <2>1, <2>5, <3>1, <3>2 DEF ClientAnswer, Answering, HasAnswer
    <2>6. CASE link[c] = "closed"
      <3>1. ASSUME down[c] = <<OkReply>>
            PROVE  Answered(c, cst[c], down[c])'
        <4>1. down'[c] = <<>>
          BY <2>1, <2>4, <3>1
        <4> QED
          BY <2>1, <4>1 DEF Answered
      <3>2. ASSUME down[c] = <<OkReply, Answer(c)>>, HasAnswer(c)
            PROVE  Answered(c, cst[c], down[c])'
        <4>1. down'[c] = <<Answer(c)>> /\ HasAnswer(c)'
          BY <2>1, <2>4, <3>2 DEF HasAnswer
        <4> QED
          BY <2>1, <4>1 DEF Answered
      <3>3. Answered(c, cst[c], down[c])'
        BY <2>3, <2>6, <3>1, <3>2
      <3> QED
        BY <2>1, <2>6, <3>3 DEF ClientAnswer, Joined
    <2> QED
      BY <1>1, <2>1, <2>5, <2>6 DEF Joined
  <1>6. CASE ReplyBodyArrives(c)
    <2>1. /\ cst[c] = "reading" /\ cst'[c] = "done" /\ link' = link /\ down[c] # <<>>
          /\ got'[c] = Head(down[c]).what /\ link[c] # "none"
      BY <1>1, <1>6 DEF ReplyBodyArrives, PeerClosed, ClientStream
    <2>2. ~Joined(c)
      BY <1>1, <2>1 DEF ClientAnswer, Answering
    <2>3. link[c] = "closed"
      BY <1>1, <2>1, <2>2 DEF Joined
    <2>4. down[c] = <<Answer(c)>> /\ HasAnswer(c)
      <3>1. Answered(c, cst[c], down[c])
        BY <1>1, <2>1, <2>3 DEF ClientAnswer, Finished
      <3> QED
        BY <2>1, <3>1 DEF Answered
    <2>5. got'[c] = Answer(c).what
      BY <2>1, <2>4
    <2>6. \/ Request[c] = BROKER_STATUS /\ got'[c] = "status"
          \/ Request[c] = BROKER_PARAMS /\ got'[c] = "params"
      BY <2>4, <2>5, RbClientAssumption DEF Answer, Body, HasAnswer
    <2> QED
      BY <2>1, <2>3, <2>6 DEF ClientAnswer, Joined, Finished
  <1>7. CASE RequestFails(c)
    <2>1. link[c] = "closed" /\ link' = link /\ cst'[c] = "failed"
      BY <1>1, <1>7 DEF RequestFails, PeerAtEof, PeerClosed
    <2> QED
      BY <2>1 DEF ClientAnswer, Joined, Finished
  <1>8. CASE KillClient(c)
    <2>1. cst'[c] = "killed"
      BY <1>1, <1>8 DEF KillClient
    <2> QED
      BY <2>1 DEF ClientAnswer, Finished, Killed
  <1> QED
    BY <1>2, <1>3, <1>4, <1>5, <1>6, <1>7, <1>8 DEF ClientStep, ClientRuns
\* A client's step gives it an answer, and no other client.
LEMMA OnlyOwnAnswer ==
  ASSUME ProcessTypeOK, NEW c \in Clients, ClientStep(c), NEW d \in Clients, d # c
  PROVE  got'[d] = got[d]
  BY DEF ClientStep, ClientRuns, ClientConnect, ClientConnectFails, SendRequest, ReplyArrives,
     ReplyBodyArrives, RequestFails, KillClient, ProcessTypeOK

LEMMA ClientNextAnswers ==
  ASSUME IInv, StreamsOK, AnswersOK, NEW c \in Clients, ClientNext(c)
  PROVE  AnswersOK'
  <1>1. /\ ClientStep(c) /\ UNCHANGED dVars /\ sst' = sst /\ c \in Peers /\ c \notin Servers
        /\ NetTypeOK /\ ProcessTypeOK
    BY OwnRequest DEF ClientNext, sVars
  <1>2. ClientEffect(c)
    BY <1>1, ClientStepEffect DEF IInv
  <1>3. /\ PeerNet(c) /\ \A q \in Clients \ {c} : cst'[q] = cst[q]
    BY <1>1, <1>2 DEF ClientEffect, ProcessTypeOK
  <1>4. /\ \A q \in Peers \ {c} : /\ link'[q] = link[q] /\ end'[q] = end[q]
                                  /\ up'[q] = up[q] /\ down'[q] = down[q]
        /\ fds' = fds /\ hdr' = hdr /\ servers' = servers /\ pc' = pc /\ ready' = ready
        /\ \A q \in Peers : (Mode(q)' = Mode(q)) /\ (Listed(q)' <=> Listed(q))
    BY <1>1, <1>3, PeerLeavesOthers DEF dVars
  <1>5. /\ ClientAnswer(c)' /\ (Joined(c)' => end'[c] = "open" \/ Killed(c)')
        /\ cst'[c] = "done" => \/ Request[c] = BROKER_STATUS /\ got'[c] = "status"
                               \/ Request[c] = BROKER_PARAMS /\ got'[c] = "params"
    BY <1>1, <1>4, ClientAnswers
  <1>k. \A q : Killed(q) => Killed(q)'
    BY <1>1, <1>3, KilledIsDone DEF Killed
  <1>6. ASSUME NEW q \in Peers, Joined(q)'
        PROVE  end'[q] = "open" \/ Killed(q)'
    <2>1. CASE q # c
      <3>1. Joined(q)
        BY <1>4, <1>6, <2>1 DEF Joined
      <3> QED
        BY <1>4, <1>k, <2>1, <3>1 DEF AnswersOK, OpenWhileJoined
    <2> QED
      BY <1>5, <1>6, <2>1
  <1>7. EntriesOpen' /\ NoHangUps'
    BY <1>4, <1>k DEF AnswersOK, EntriesOpen, NoHangUps
  <1>8. AcknowledgedIsListed'
    <2>1. \A s \in Servers : down'[s] = down[s]
      BY <1>1, <1>4, PeersAre
    <2> QED
      BY <1>1, <1>4, <2>1, ListingsStay
  <1>9. ASSUME NEW d \in Clients
        PROVE  ClientAnswer(d)'
    <2>1. CASE d # c
      <3>1. d \in Peers \ {c} /\ cst'[d] = cst[d] /\ ClientAnswer(d)
        BY <1>3, <2>1, PeersAre DEF AnswersOK
      <3> QED
        BY <1>4, <3>1, AnswerLeftAlone
    <2> QED
      BY <1>5, <2>1
  <1>10. ReplyMatches'
    <2>1. ASSUME NEW d \in Clients, d # c
          PROVE  cst'[d] = cst[d] /\ got'[d] = got[d]
      BY <1>1, <1>3, <2>1, OnlyOwnAnswer
    <2> QED
      BY <1>5, <2>1 DEF AnswersOK, ReplyMatches
  <1> QED
    BY <1>6, <1>7, <1>8, <1>9, <1>10 DEF AnswersOK, OpenWhileJoined

-----------------------------------------------------------------------------
\* The invariant.

LEMMA InitAnswers == Init => AnswersOK
  <1> SUFFICES ASSUME Init
               PROVE  AnswersOK
    OBVIOUS
  <1> USE DEF Init, NetInit, DaemonInit, ServerInit, ClientInit
  <1>1. OpenWhileJoined /\ EntriesOpen /\ NoHangUps /\ ReplyMatches
    BY DEF OpenWhileJoined, Joined, EntriesOpen, NoHangUps, ReplyMatches
  <1>2. AcknowledgedIsListed
    BY PeersAre DEF AcknowledgedIsListed
  <1>3. \A c \in Clients : ClientAnswer(c)
    BY PeersAre DEF ClientAnswer, Joined
  <1> QED
    BY <1>1, <1>2, <1>3 DEF AnswersOK

LEMMA NextAnswers ==
  ASSUME NoServerKilled, IInv, StreamsOK, AnswersOK, [Next]_vars
  PROVE  AnswersOK'
  <1>1. CASE UNCHANGED vars
    <2>1. /\ UNCHANGED netVars /\ UNCHANGED <<sVars, cVars>>
          /\ pc' = pc /\ cur' = cur /\ hdr' = hdr /\ servers' = servers /\ ready' = ready
      BY <1>1 DEF vars, dVars
    <2>2. \A p \in Peers : Mode(p)' = Mode(p)
      BY <2>1 DEF Mode, BootFd, netVars
    <2>3. \A e \in ready' : e.ev = "in" \/ Killed(e.peer)
      BY <2>1 DEF AnswersOK, NoHangUps
    <2> QED
      BY <2>1, <2>2, <2>3, QuietAnswers
  <1> QED
    BY <1>1, DaemonAnswers, ServerNextAnswers, ClientNextAnswers DEF Next, NoServerKilled

\* While no server is killed, only the daemon ends a connection to a live peer,
\* the list's descriptors are its servers' and every answer is under way.
THEOREM AnswersInductive == ASSUME NoServerKilled PROVE Spec => []AnswersOK
  <1>1. IInv /\ StreamsOK /\ AnswersOK /\ [Next]_vars => AnswersOK'
    BY NextAnswers
  <1> QED
    BY <1>1, InitAnswers, Inductive, StreamsInductive, PTL DEF Spec

\* A client that has an answer has the answer to what it asked, even if the
\* daemon or other clients died meanwhile.
THEOREM AnswersMatch == ASSUME NoServerKilled PROVE Spec => []ReplyMatches
  <1>1. AnswersOK => ReplyMatches
    BY DEF AnswersOK
  <1> QED
    BY <1>1, AnswersInductive, PTL

\* A server that waits for requests is on the broker's list.
THEOREM ReadyAreRegistered == ASSUME NoServerKilled PROVE Spec => []ReadyIsRegistered
  <1>1. AnswersOK => ReadyIsRegistered
    BY DEF AnswersOK, AcknowledgedIsListed, ReadyIsRegistered, Listed
  <1> QED
    BY <1>1, AnswersInductive, PTL

\* A boot request goes to the server it is meant for, and its answer is read
\* from that server's connection.
THEOREM BootRequestsArrive == ASSUME NoServerKilled PROVE Spec => []BootReachesServer
  <1>1. IInv /\ StreamsOK /\ AnswersOK => BootReachesServer
    BY AskedIsTheServer DEF BootReachesServer
  <1> QED
    BY <1>1, Inductive, StreamsInductive, AnswersInductive, PTL
=============================================================================
