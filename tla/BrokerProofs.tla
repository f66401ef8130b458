---------------------------- MODULE BrokerProofs ----------------------------
(***************************************************************************)
(* Proofs about BrokerSystem, for any number of servers, clients, queues   *)
(* and descriptors: types, and that the events of a batch stay true and    *)
(* keep naming the connection they were reported for.                      *)
(***************************************************************************)
EXTENDS BrokerSystem, SequenceTheorems, WellFoundedInduction, TLAPS

-----------------------------------------------------------------------------
\* The constants.

USE SocketsAssumption

\* Descriptor 0 is the listener's, and no connection has it.
LEMMA FdFacts == Fd \subseteq Nat /\ 0 \notin Fd
  BY SMT DEF Fd

\* A set of descriptors that is not empty has a lowest member.
LEMMA FreeFdsHaveALowest ==
  ASSUME FreeFds # {}
  PROVE  \E f \in FreeFds : \A g \in FreeFds : f <= g
  <1>1. FreeFds \subseteq Nat
    BY FdFacts DEF FreeFds
  <1>2. PICK f \in FreeFds : \A g \in FreeFds : ~(<<g, f>> \in OpToRel(<, Nat))
    BY <1>1, NatLessThanWellFounded, WFMin
  <1>3. \A g \in FreeFds : ~(g < f)
    BY <1>1, <1>2 DEF OpToRel
  <1> QED
    BY <1>1, <1>3

\* The headers and bodies that the processes write are messages.
LEMMA MessageTypes ==
  /\ \A op, len \in Nat : Header(op, len) \in Msg
  /\ \A what \in Contents, n \in Nat : Body(what, n) \in Msg
  BY DEF Header, Body, Msg, NoOpcode, Contents

-----------------------------------------------------------------------------
\* The kernel's operations keep the types of the connections.

LEMMA ReceivedType ==
  ASSUME NetTypeOK, NEW p \in Peers, Received(p)
  PROVE  NetTypeOK' /\ Head(up[p]) \in Msg
  <1>1. up[p] \in Seq(Msg) /\ up[p] # <<>>
    BY DEF NetTypeOK, Received
  <1>2. Head(up[p]) \in Msg /\ Tail(up[p]) \in Seq(Msg)
    BY <1>1
  <1> QED
    BY <1>2 DEF NetTypeOK, Received

LEMMA ReadErrorType ==
  ASSUME NetTypeOK, NEW p \in Peers, ReadError(p)
  PROVE  NetTypeOK'
  BY DEF NetTypeOK, ReadError

LEMMA WroteType ==
  ASSUME NetTypeOK, NEW p \in Peers, NEW m \in Msg, Wrote(p, m)
  PROVE  /\ end' \in [Peers -> {"none", "open", "fin", "rst", "broken"}]
         /\ down' \in [Peers -> Seq(Msg)]
  <1>1. Append(down[p], m) \in Seq(Msg)
    BY DEF NetTypeOK
  <1> QED
    BY <1>1 DEF NetTypeOK, Wrote

LEMMA WriteErrorType ==
  ASSUME NetTypeOK, NEW p \in Peers, WriteError(p)
  PROVE  /\ end' \in [Peers -> {"none", "open", "fin", "rst", "broken"}]
         /\ down' \in [Peers -> Seq(Msg)]
  BY DEF NetTypeOK, WriteError

LEMMA ClosedType ==
  ASSUME NetTypeOK, NEW f \in Fd, fds[f] \in Peers, Closed(f)
  PROVE  /\ listening' \in BOOLEAN
         /\ fds' \in [Fd -> Peers \cup {NoPeer}]
         /\ link' \in [Peers -> {"none", "backlog", "up", "closed"}]
         /\ up' \in [Peers -> Seq(Msg)]
  BY DEF NetTypeOK, Closed

LEMMA AllClosedType ==
  ASSUME NetTypeOK, AllClosed
  PROVE  NetTypeOK'
  <1>1. <<>> \in Seq(Msg)
    OBVIOUS
  <1>2. fds' \in [Fd -> Peers \cup {NoPeer}] /\ up' \in [Peers -> Seq(Msg)]
    BY <1>1 DEF AllClosed
  <1>3. link' \in [Peers -> {"none", "backlog", "up", "closed"}]
    BY DEF AllClosed
  <1> QED
    BY <1>2, <1>3 DEF NetTypeOK, AllClosed

-----------------------------------------------------------------------------
\* Steps of the peers.  They leave the daemon's variables alone; what they do to
\* the connections never takes away what an event promised.

\* The part of IInv that does not mention the processes.
DInv ==
  /\ NetTypeOK /\ DaemonTypeOK /\ FdTableOK /\ EventsFresh
  /\ BatchOK /\ ServingOK /\ CheckingOK /\ NeverWaitsForAHeader

\* What a peer's step may do to the connections.
PeerNet(p) ==
  \/ PeerConnect(p) /\ link[p] = "none"
  \/ \E m \in Msg : PeerWrote(p, m)
  \/ PeerReceived(p)
  \/ \E unread : PeerClosed(p, unread)
  \/ UNCHANGED netVars

\* A descriptor in use holds an established connection.
LEMMA InUse ==
  ASSUME NetTypeOK, FdTableOK, NEW f \in Fd, fds[f] # NoPeer
  PROVE  fds[f] \in Peers /\ link[fds[f]] = "up"
  BY DEF NetTypeOK, FdTableOK

\* A peer's step preserves the types of the connections.
LEMMA PeerNetType ==
  ASSUME NetTypeOK, NEW p \in Peers, PeerNet(p)
  PROVE  NetTypeOK'
  <1>1. CASE PeerConnect(p)
    BY <1>1 DEF NetTypeOK, PeerConnect
  <1>2. ASSUME NEW m \in Msg, PeerWrote(p, m)
        PROVE  NetTypeOK'
    <2>1. Append(up[p], m) \in Seq(Msg)
      BY DEF NetTypeOK
    <2> QED
      BY <1>2, <2>1 DEF NetTypeOK, PeerWrote
  <1>3. CASE PeerReceived(p)
    <2>1. down[p] \in Seq(Msg) /\ down[p] # <<>>
      BY <1>3 DEF NetTypeOK, PeerReceived
    <2>2. Tail(down[p]) \in Seq(Msg)
      BY <2>1
    <2> QED
      BY <1>3, <2>2 DEF NetTypeOK, PeerReceived
  <1>4. ASSUME NEW unread, PeerClosed(p, unread)
        PROVE  NetTypeOK'
    <2>1. <<>> \in Seq(Msg)
      OBVIOUS
    <2>2. down' \in [Peers -> Seq(Msg)]
      BY <1>4, <2>1 DEF NetTypeOK, PeerClosed
    <2> QED
      BY <1>4, <2>2 DEF NetTypeOK, PeerClosed
  <1>5. CASE UNCHANGED netVars
    BY <1>5 DEF NetTypeOK, netVars
  <1> QED
    BY <1>1, <1>2, <1>3, <1>4, <1>5 DEF PeerNet

\* Data, an end of file or a reset that the daemon was told of stays there.
LEMMA PeerKeepsReadable ==
  ASSUME NetTypeOK, NEW p \in Peers, PeerNet(p),
         NEW q \in Peers, link[q] = "up", Readable(q)
  PROVE  Readable(q)'
  <1>1. CASE PeerConnect(p) /\ link[p] = "none"
    BY <1>1 DEF NetTypeOK, PeerConnect, Readable
  <1>2. ASSUME NEW m \in Msg, PeerWrote(p, m)
        PROVE  Readable(q)'
    <2>1. up[q] \in Seq(Msg)
      BY DEF NetTypeOK
    <2>2. Append(up[q], m) # <<>>
      BY <2>1, AppendProperties
    <2> QED
      BY <1>2, <2>2 DEF NetTypeOK, PeerWrote, Readable
  <1>3. CASE PeerReceived(p)
    BY <1>3 DEF PeerReceived, Readable
  <1>4. ASSUME NEW unread, PeerClosed(p, unread)
        PROVE  Readable(q)'
    BY <1>4 DEF NetTypeOK, PeerClosed, Readable
  <1>5. CASE UNCHANGED netVars
    BY <1>5 DEF netVars, Readable
  <1> QED
    BY <1>1, <1>2, <1>3, <1>4, <1>5 DEF PeerNet

\* A peer's step leaves the descriptor table alone and no connection leaves the
\* backlog or is established by it.
LEMMA PeerNetFrame ==
  ASSUME NetTypeOK, NEW p \in Peers, PeerNet(p)
  PROVE  /\ fds' = fds
         /\ \A q \in Peers \ {p} : link'[q] = link[q]
         /\ link'[p] = link[p] \/ (link[p] = "none" /\ link'[p] = "backlog")
  BY DEF NetTypeOK, PeerNet, PeerConnect, PeerWrote, PeerReceived, PeerClosed, netVars

LEMMA PeerStepKeeps ==
  ASSUME DInv, NEW p \in Peers, PeerNet(p), UNCHANGED dVars
  PROVE  DInv'
  <1> USE DEF DInv
  <1>1. NetTypeOK'
    BY PeerNetType
  <1>2. DaemonTypeOK'
    BY DEF DaemonTypeOK, dVars
  <1>3. FdTableOK'
    BY PeerNetFrame DEF FdTableOK
  <1>4. EventsFresh' /\ BatchOK' /\ ServingOK'
    BY PeerNetFrame DEF EventsFresh, BatchOK, ServingOK, dVars
  <1>5. CheckingOK'
    BY PeerNetFrame DEF CheckingOK, BootFd, dVars
  <1>6. NeverWaitsForAHeader'
    <2> SUFFICES ASSUME NEW e \in ready
                 PROVE  IF e.fd = 0 THEN Backlog' # {} ELSE Readable(fds[e.fd])'
      BY PeerNetFrame DEF NeverWaitsForAHeader, dVars
    <2>1. CASE e.fd = 0
      BY <2>1, PeerNetFrame DEF NeverWaitsForAHeader, Backlog
    <2>2. CASE e.fd # 0
      <3>1. e.fd \in Fd /\ fds[e.fd] \in Peers /\ Readable(fds[e.fd])
        BY <2>2 DEF NeverWaitsForAHeader, DaemonTypeOK, EventsFresh, BatchOK
      <3>2. link[fds[e.fd]] = "up"
        BY <3>1, InUse
      <3>3. Readable(fds[e.fd])'
        BY <3>1, <3>2, PeerKeepsReadable, PeerNetFrame DEF Readable
      <3> QED
        BY <2>2, <3>3
    <2> QED
      BY <2>1, <2>2
  <1> QED
    BY <1>1, <1>2, <1>3, <1>4, <1>5, <1>6

-----------------------------------------------------------------------------
\* The processes: each of their steps is one of PeerNet.

LEMMA PeersAre == Servers \subseteq Peers /\ Clients \subseteq Peers
  BY DEF Peers

\* What a server's step does: to its own variables, and one step of PeerNet.
ServerEffect(s) ==
  /\ PeerNet(s)
  /\ \E loc \in SstStates \ {"start"} : sst' = [sst EXCEPT ![s] = loc]
  /\ asked' \in [Servers -> Nat]

LEMMA ServerStepEffect ==
  ASSUME NetTypeOK, ProcessTypeOK, StartedUnlinked, NEW s \in Servers, ServerStep(s)
  PROVE  ServerEffect(s)
  <1> s \in Peers
    BY PeersAre
  <1> USE DEF ProcessTypeOK, SstStates
  <1>1. CASE ServerConnect(s)
    BY <1>1 DEF ServerConnect, StartedUnlinked, PeerNet, ServerEffect
  <1>2. CASE ServerConnectFails(s)
    BY <1>2 DEF ServerConnectFails, PeerNet, ServerEffect
  <1>3. CASE SendRegisterHeader(s)
    <2>1. Header(BROKER_SERVER_REGISTER, 1) \in Msg
      BY MessageTypes DEF BROKER_SERVER_REGISTER
    <2> QED
      BY <1>3, <2>1 DEF SendRegisterHeader, PeerNet, ServerEffect
  <1>4. CASE SendRegisterBody(s)
    <2>1. Body("register", 0) \in Msg
      BY MessageTypes DEF Contents
    <2> QED
      BY <1>4, <2>1 DEF SendRegisterBody, PeerNet, ServerEffect
  <1>5. CASE RegistrationFails(s)
    BY <1>5 DEF RegistrationFails, PeerNet, ServerEffect
  <1>6. CASE RegistrationReply(s)
    BY <1>6 DEF RegistrationReply, PeerNet, ServerEffect
  <1>7. CASE ReadRequest(s)
    <2>1. Head(down[s]) \in Msg
      BY <1>7 DEF ReadRequest, NetTypeOK
    <2>2. Head(down[s]).len \in Nat
      BY <2>1 DEF Msg
    <2>3. asked' \in [Servers -> Nat]
      BY <1>7, <2>2 DEF ReadRequest, sVars
    <2>4. sst' = [sst EXCEPT ![s] = sst'[s]] /\ sst'[s] \in SstStates \ {"start"}
      BY <1>7 DEF ReadRequest, sVars
    <2>5. PeerNet(s)
      BY <1>7 DEF ReadRequest, PeerNet
    <2> QED
      BY <2>3, <2>4, <2>5 DEF ServerEffect
  <1>8. CASE LoseBroker(s)
    BY <1>8 DEF LoseBroker, PeerNet, ServerEffect
  <1>9. CASE SendBootHeader(s)
    <2>1. Header(SERVER_RESOURCES_OK, 1) \in Msg
      BY MessageTypes DEF SERVER_RESOURCES_OK
    <2> QED
      BY <1>9, <2>1 DEF SendBootHeader, PeerNet, ServerEffect
  <1>10. CASE SendBootBody(s)
    <2>1. Offered(s) \in Nat
      BY RbServerAssumption DEF Offered
    <2>2. Body("machines", Offered(s)) \in Msg
      BY <2>1, MessageTypes DEF Contents
    <2> QED
      BY <1>10, <2>2 DEF SendBootBody, PeerNet, ServerEffect
  <1>11. CASE BootReplyFails(s)
    BY <1>11 DEF BootReplyFails, PeerNet, ServerEffect
  <1>12. CASE KillServer(s)
    BY <1>12 DEF KillServer, PeerNet, ServerEffect
  <1> QED
    BY <1>1, <1>2, <1>3, <1>4, <1>5, <1>6, <1>7, <1>8, <1>9, <1>10, <1>11, <1>12
       DEF ServerStep, ServerRuns

\* What a client's step does.
ClientEffect(c) ==
  /\ PeerNet(c)
  /\ \E loc \in CstStates \ {"start"} : cst' = [cst EXCEPT ![c] = loc]
  /\ got' \in [Clients -> Contents \cup {"nothing"}]

LEMMA ClientStepEffect ==
  ASSUME NetTypeOK, ProcessTypeOK, StartedUnlinked, NEW c \in Clients, ClientStep(c)
  PROVE  ClientEffect(c)
  <1> c \in Peers
    BY PeersAre
  <1> USE DEF ProcessTypeOK, CstStates
  <1>1. CASE ClientConnect(c)
    BY <1>1 DEF ClientConnect, StartedUnlinked, PeerNet, ClientEffect
  <1>2. CASE ClientConnectFails(c)
    BY <1>2 DEF ClientConnectFails, PeerNet, ClientEffect
  <1>3. CASE SendRequest(c)
    <2>1. Request[c] \in Nat
      BY RbClientAssumption DEF BROKER_STATUS, BROKER_QUEUE_STATUS, BROKER_PARAMS
    <2>2. Header(Request[c], 0) \in Msg
      BY <2>1, MessageTypes
    <2> QED
      BY <1>3, <2>2 DEF SendRequest, PeerNet, ClientEffect
  <1>4. CASE ReplyArrives(c)
    BY <1>4 DEF ReplyArrives, PeerNet, ClientEffect
  <1>5. CASE ReplyBodyArrives(c)
    <2>1. Head(down[c]) \in Msg
      BY <1>5 DEF ReplyBodyArrives, NetTypeOK
    <2>2. Head(down[c]).what \in Contents
      BY <2>1 DEF Msg
    <2> QED
      BY <1>5, <2>2 DEF ReplyBodyArrives, PeerNet, ClientEffect
  <1>6. CASE RequestFails(c)
    BY <1>6 DEF RequestFails, PeerNet, ClientEffect
  <1>7. CASE KillClient(c)
    BY <1>7 DEF KillClient, PeerNet, ClientEffect
  <1> QED
    BY <1>1, <1>2, <1>3, <1>4, <1>5, <1>6, <1>7 DEF ClientStep, ClientRuns

-----------------------------------------------------------------------------
\* Steps of the daemon.

\* Nothing the daemon does makes a process look as if it had never connected.
NoneStays == \A p \in Peers : link[p] = "none" => link'[p] = "none"

\* What the daemon's calls on descriptor f do: the other connections are left
\* alone, and f is closed or stays.
OneFd(f) ==
  /\ NetTypeOK'
  /\ \A g \in Fd \ {f} : fds'[g] = fds[g]
  /\ \A q \in Peers \ {fds[f]} : /\ link'[q] = link[q]
                                /\ up'[q] = up[q] /\ end'[q] = end[q]
  /\ \/ fds'[f] = fds[f] /\ link'[fds[f]] = link[fds[f]]
     \/ fds'[f] = NoPeer /\ link'[fds[f]] = "closed"

\* The events of other descriptors stay true and fresh.
LEMMA OneFdKeeps ==
  ASSUME DInv, NEW f \in Fd, fds[f] \in Peers, OneFd(f),
         ready' \subseteq ready, \A e \in ready' : e.fd # f
  PROVE  FdTableOK' /\ EventsFresh' /\ BatchOK' /\ NeverWaitsForAHeader' /\ NoneStays
  <1> USE DEF DInv
  <1>0. link[fds[f]] = "up"
    BY InUse
  <1>1. FdTableOK'
    <2>1. ASSUME NEW g \in Fd, NEW h \in Fd, fds'[g] = fds'[h], fds'[g] # NoPeer
          PROVE  g = h
      BY <2>1 DEF OneFd, FdTableOK
    <2>2. ASSUME NEW p \in Peers
          PROVE  link'[p] = "up" <=> \E g \in Fd : fds'[g] = p
      BY <1>0 DEF OneFd, FdTableOK
    <2> QED
      BY <2>1, <2>2 DEF FdTableOK
  <1>2. \A e \in ready' : e \in ready /\ e.fd \in Fd \cup {0} /\ e.fd # f
    BY DEF DaemonTypeOK
  <1>3. EventsFresh'
    BY <1>2 DEF EventsFresh, OneFd
  <1>4. BatchOK'
    BY <1>2 DEF BatchOK
  <1>5. NeverWaitsForAHeader'
    <2> SUFFICES ASSUME NEW e \in ready'
                 PROVE  IF e.fd = 0 THEN Backlog' # {} ELSE Readable(fds[e.fd])'
      BY DEF NeverWaitsForAHeader
    <2>1. CASE e.fd = 0
      <3>1. PICK p \in Peers : link[p] = "backlog"
        BY <2>1, <1>2 DEF NeverWaitsForAHeader, Backlog
      <3> QED
        BY <2>1, <3>1, <1>0 DEF Backlog, OneFd
    <2>2. CASE e.fd # 0
      <3>1. e.fd \in Fd \ {f} /\ fds[e.fd] \in Peers /\ Readable(fds[e.fd])
        BY <1>2, <2>2 DEF NeverWaitsForAHeader, EventsFresh, BatchOK
      <3>2. fds[e.fd] # fds[f] /\ fds'[e.fd] = fds[e.fd]
        BY <3>1 DEF FdTableOK, OneFd
      <3> QED
        BY <2>2, <3>1, <3>2 DEF Readable, OneFd
    <2> QED
      BY <2>1, <2>2
  <1>6. NoneStays
    BY <1>0 DEF NoneStays, OneFd
  <1> QED
    BY <1>1, <1>3, <1>4, <1>5, <1>6

\* The calls of which a handler is made are OneFd.
LEMMA ReceivedOneFd ==
  ASSUME NetTypeOK, NEW f \in Fd, fds[f] \in Peers, Received(fds[f])
  PROVE  OneFd(f)
  BY ReceivedType DEF Received, OneFd, NetTypeOK

LEMMA ReadErrorOneFd ==
  ASSUME NetTypeOK, NEW f \in Fd, fds[f] \in Peers, ReadError(fds[f])
  PROVE  OneFd(f)
  BY ReadErrorType DEF ReadError, OneFd, NetTypeOK

LEMMA WrittenOneFd ==
  ASSUME NetTypeOK, NEW f \in Fd, fds[f] \in Peers, NEW m \in Msg,
         Wrote(fds[f], m) \/ WriteError(fds[f]),
         UNCHANGED <<listening, fds, link, up>>
  PROVE  OneFd(f)
  <1>1. NetTypeOK'
    BY WroteType, WriteErrorType DEF NetTypeOK
  <1>2. \A q \in Peers \ {fds[f]} : end'[q] = end[q]
    BY DEF Wrote, WriteError, NetTypeOK
  <1> QED
    BY <1>1, <1>2 DEF OneFd

LEMMA ClosedOneFd ==
  ASSUME NetTypeOK, NEW f \in Fd, fds[f] \in Peers, NEW m \in Msg,
         Wrote(fds[f], m) \/ WriteError(fds[f]) \/ UNCHANGED <<end, down>>,
         Closed(f)
  PROVE  OneFd(f)
  <1>1. NetTypeOK'
    BY WroteType, WriteErrorType, ClosedType DEF NetTypeOK
  <1>2. \A q \in Peers \ {fds[f]} : end'[q] = end[q]
    BY DEF Wrote, WriteError, NetTypeOK
  <1>3. /\ \A q \in Peers \ {fds[f]} : link'[q] = link[q] /\ up'[q] = up[q]
        /\ \A g \in Fd \ {f} : fds'[g] = fds[g]
        /\ fds'[f] = NoPeer /\ link'[fds[f]] = "closed"
    BY DEF Closed, NetTypeOK
  <1> QED
    BY <1>1, <1>2, <1>3 DEF OneFd

\* A daemon that dies leaves no event behind.
LEMMA DiesKeeps ==
  ASSUME DInv, Dies
  PROVE  DInv' /\ NoneStays
  <1> USE DEF DInv, Dies
  <1>1. NetTypeOK'
    BY AllClosedType
  <1>2. DaemonTypeOK'
    BY DEF DaemonTypeOK
  <1>3. FdTableOK' /\ NoneStays
    BY DEF FdTableOK, NoneStays, AllClosed, NetTypeOK
  <1>4. EventsFresh' /\ BatchOK' /\ NeverWaitsForAHeader' /\ ServingOK' /\ CheckingOK'
    BY DEF EventsFresh, BatchOK, NeverWaitsForAHeader, ServingOK, Serving, CheckingOK
  <1> QED
    BY <1>1, <1>2, <1>3, <1>4

\* epoll_wait: the batch says what is true now, one event for a descriptor.
LEMMA EpollWaitKeeps ==
  ASSUME DInv, EpollWait
  PROVE  DInv' /\ NoneStays
  <1> USE DEF DInv, EpollWait, netVars
  <1>1. NetTypeOK' /\ FdTableOK' /\ NoneStays
    BY DEF NetTypeOK, FdTableOK, NoneStays
  <1>2. \A e \in ready' :
          \/ e = Accepting /\ Backlog # {}
          \/ \E f \in Fd : /\ fds[f] # NoPeer /\ Readable(fds[f])
                          /\ e = Event(f, fds[f], IF HungUp(fds[f]) THEN "hup" ELSE "in")
    BY DEF ReadyEvents
  <1>3. \A f \in Fd : fds[f] # NoPeer => fds[f] \in Peers
    BY DEF NetTypeOK
  <1>4. DaemonTypeOK'
    <2>1. ready' \subseteq [fd : Fd \cup {0}, peer : Peers \cup {NoPeer}, ev : {"in", "hup"}]
      BY <1>2, <1>3 DEF Event, Accepting
    <2> QED
      BY <2>1 DEF DaemonTypeOK
  <1>5. EventsFresh'
    BY <1>2 DEF EventsFresh, Event, Accepting
  <1>6. BatchOK'
    BY <1>2, <1>3, FdFacts DEF BatchOK, Event, Accepting
  <1>7. NeverWaitsForAHeader'
    BY <1>2, FdFacts DEF NeverWaitsForAHeader, Event, Accepting, Backlog, Readable
  <1>8. ServingOK' /\ CheckingOK'
    BY DEF ServingOK, Serving, CheckingOK
  <1> QED
    BY <1>1, <1>4, <1>5, <1>6, <1>7, <1>8

\* accept() takes a free descriptor, which no event of the batch names.
LEMMA AcceptKeeps ==
  ASSUME DInv, Accept
  PROVE  DInv' /\ NoneStays
  <1> USE DEF DInv, Accept
  <1>1. PICK p \in Peers : /\ link[p] = "backlog"
                          /\ fds' = [fds EXCEPT ![LowestFd] = p]
                          /\ link' = [link EXCEPT ![p] = "up"]
    BY DEF Backlog
  <1>2. LowestFd \in Fd /\ fds[LowestFd] = NoPeer
    <2>1. \E f \in FreeFds : \A g \in FreeFds : f <= g
      BY FreeFdsHaveALowest
    <2>2. LowestFd \in FreeFds
      BY <2>1 DEF LowestFd
    <2> QED
      BY <2>2 DEF FreeFds
  <1>3. NetTypeOK' /\ NoneStays
    BY <1>1, <1>2 DEF NetTypeOK, NoneStays
  <1>4. DaemonTypeOK'
    BY DEF DaemonTypeOK, Handled
  <1>5. \A f \in Fd : fds[f] # p
    BY <1>1 DEF FdTableOK
  <1>6. FdTableOK'
    <2>1. ASSUME NEW f \in Fd, NEW g \in Fd, fds'[f] = fds'[g], fds'[f] # NoPeer
          PROVE  f = g
      BY <2>1, <1>1, <1>2, <1>5 DEF FdTableOK, NetTypeOK
    <2>2. ASSUME NEW q \in Peers
          PROVE  link'[q] = "up" <=> \E f \in Fd : fds'[f] = q
      BY <1>1, <1>2, <1>5 DEF FdTableOK, NetTypeOK
    <2> QED
      BY <2>1, <2>2 DEF FdTableOK
  <1>7. \A e \in ready' : /\ e \in ready /\ e.fd # 0 /\ e.fd \in Fd
                          /\ e.peer \in Peers /\ fds[e.fd] = e.peer
                          /\ fds'[e.fd] = fds[e.fd] /\ Readable(fds[e.fd])
    <2> SUFFICES ASSUME NEW e \in ready'
                 PROVE  /\ e \in ready /\ e.fd # 0 /\ e.fd \in Fd
                        /\ e.peer \in Peers /\ fds[e.fd] = e.peer
                        /\ fds'[e.fd] = fds[e.fd] /\ Readable(fds[e.fd])
      OBVIOUS
    <2>1. e \in ready /\ e # Accepting /\ e.fd \in Fd \cup {0}
      BY DEF Handled, DaemonTypeOK
    <2>2. e.fd # 0 /\ e.peer \in Peers
      BY <2>1 DEF BatchOK
    <2>3. fds[e.fd] = e.peer /\ Readable(fds[e.fd])
      BY <2>1, <2>2 DEF EventsFresh, NeverWaitsForAHeader
    <2> QED
      BY <2>1, <2>2, <2>3, <1>1, <1>2 DEF NetTypeOK
  <1>8. EventsFresh' /\ BatchOK'
    BY <1>7 DEF EventsFresh, BatchOK
  <1>9. NeverWaitsForAHeader'
    BY <1>7 DEF NeverWaitsForAHeader, Readable
  <1>10. ServingOK' /\ CheckingOK'
    BY DEF ServingOK, Serving, CheckingOK
  <1> QED
    BY <1>3, <1>4, <1>6, <1>8, <1>9, <1>10

\* A failed accept() ends the batch.
LEMMA AcceptFailsKeeps ==
  ASSUME DInv, AcceptFails
  PROVE  DInv' /\ NoneStays
  <1> USE DEF DInv, AcceptFails
  <1>1. NetTypeOK' /\ FdTableOK' /\ NoneStays
    <2>1. CASE FreeFds = {}
      BY <2>1 DEF NetTypeOK, FdTableOK, NoneStays
    <2>2. CASE FreeFds # {}
      <3>1. PICK p \in Backlog : /\ link' = [link EXCEPT ![p] = "closed"]
                                /\ up' = [up EXCEPT ![p] = <<>>]
        BY <2>2
      <3>2. p \in Peers /\ link[p] = "backlog"
        BY DEF Backlog
      <3>3. NetTypeOK'
        BY <3>1, <3>2 DEF NetTypeOK
      <3>4. FdTableOK' /\ NoneStays
        BY <3>1, <3>2 DEF NetTypeOK, FdTableOK, NoneStays
      <3> QED
        BY <3>3, <3>4
    <2> QED
      BY <2>1, <2>2
  <1>2. DaemonTypeOK'
    BY DEF DaemonTypeOK
  <1>3. EventsFresh' /\ BatchOK' /\ NeverWaitsForAHeader' /\ ServingOK' /\ CheckingOK'
    BY DEF EventsFresh, BatchOK, NeverWaitsForAHeader, ServingOK, Serving, CheckingOK
  <1> QED
    BY <1>1, <1>2, <1>3

\* A connection that is closed at its event.
LEMMA EventClosesKeeps ==
  ASSUME DInv, NEW e \in ready, pc = "handle", e.fd # 0,
         Closed(e.fd), Handled(e), UNCHANGED <<pc, cur, hdr, end, down>>
  PROVE  DInv' /\ NoneStays
  <1> USE DEF DInv
  <1>1. e.fd \in Fd /\ fds[e.fd] \in Peers
    BY DEF DaemonTypeOK, EventsFresh, BatchOK
  <1>2. OneFd(e.fd)
    BY <1>1, MessageTypes, ClosedOneFd
  <1>3. ready' \subseteq ready /\ \A g \in ready' : g.fd # e.fd
    BY DEF Handled, BatchOK
  <1>4. FdTableOK' /\ EventsFresh' /\ BatchOK' /\ NeverWaitsForAHeader' /\ NoneStays
    BY <1>1, <1>2, <1>3, OneFdKeeps
  <1>5. NetTypeOK' /\ DaemonTypeOK'
    BY <1>2 DEF OneFd, DaemonTypeOK, Handled
  <1>6. ServingOK' /\ CheckingOK'
    BY DEF ServingOK, Serving, CheckingOK
  <1> QED
    BY <1>4, <1>5, <1>6

\* The header of a request is read: its descriptor is the one served.
LEMMA ServeKeeps ==
  ASSUME DInv, NEW e \in ready, Serve(e)
  PROVE  DInv' /\ NoneStays
  <1> USE DEF DInv, Serve
  <1>1. e.fd \in Fd /\ fds[e.fd] \in Peers
    BY DEF DaemonTypeOK, EventsFresh, BatchOK
  <1>2. OneFd(e.fd)
    BY <1>1, ReceivedOneFd
  <1>3. ready' \subseteq ready /\ \A g \in ready' : g.fd # e.fd
    BY DEF Handled, BatchOK
  <1>4. FdTableOK' /\ EventsFresh' /\ BatchOK' /\ NeverWaitsForAHeader' /\ NoneStays
    BY <1>1, <1>2, <1>3, OneFdKeeps
  <1>5. hdr' \in Msg
    BY <1>1, ReceivedType
  <1>6. pc' \in {"reply_header", "register_body", "handle"}
    BY DEF Dispatch
  <1>7. NetTypeOK' /\ DaemonTypeOK'
    BY <1>1, <1>2, <1>5, <1>6 DEF OneFd, DaemonTypeOK, Handled
  <1>8. ServingOK'
    BY <1>1, <1>3 DEF ServingOK, Received
  <1>9. CheckingOK'
    BY <1>6 DEF CheckingOK
  <1> QED
    BY <1>4, <1>7, <1>8, <1>9

\* A call on the descriptor being served; the batch is left for later.
LEMMA ServingStepKeeps ==
  ASSUME DInv, pc \in Serving, OneFd(cur), UNCHANGED <<ready, cur>>,
         DaemonTypeOK', pc' \in Serving \cup {"handle"},
         pc' \in Serving => fds'[cur] = fds[cur]
  PROVE  DInv' /\ NoneStays
  <1> USE DEF DInv
  <1>1. cur \in Fd /\ fds[cur] \in Peers /\ \A e \in ready : e.fd # cur
    BY DEF ServingOK
  <1>2. FdTableOK' /\ EventsFresh' /\ BatchOK' /\ NeverWaitsForAHeader' /\ NoneStays
    BY <1>1, OneFdKeeps
  <1>3. ServingOK' /\ CheckingOK' /\ NetTypeOK'
    BY <1>1 DEF ServingOK, CheckingOK, Serving, OneFd
  <1> QED
    BY <1>2, <1>3

\* status_info, params_info and server_register.
LEMMA ServeRequestKeeps ==
  ASSUME DInv, ServeRequest
  PROVE  DInv' /\ NoneStays
  <1> USE DEF DInv
  <1>a. ASSUME pc \in Serving
        PROVE  cur \in Fd /\ fds[cur] \in Peers
    BY <1>a DEF ServingOK
  <1>b. ASSUME UNCHANGED <<cur, hdr, timer, qi, want, given, ready>>, UNCHANGED servers,
               pc' \in Serving \cup {"handle"}
        PROVE  DaemonTypeOK'
    BY <1>b DEF DaemonTypeOK, Serving
  <1>1. CASE ReplyHeader
    <2>1. Header(BROKER_OK, 1) \in Msg /\ pc \in Serving
      BY <1>1, MessageTypes DEF ReplyHeader, Serving, BROKER_OK
    <2>2. CASE WriteFails(Peer)
      <3>1. OneFd(cur)
        BY <1>a, <1>1, <2>1, <2>2, ClosedOneFd DEF ReplyHeader, Peer
      <3> QED
        BY <1>b, <1>1, <2>1, <2>2, <3>1, ServingStepKeeps DEF ReplyHeader, Local, Serving
    <2>3. CASE ~WriteFails(Peer)
      <3>1. OneFd(cur)
        BY <1>a, <1>1, <2>1, <2>3, WrittenOneFd DEF ReplyHeader, Peer
      <3> QED
        BY <1>b, <1>1, <2>1, <2>3, <3>1, ServingStepKeeps DEF ReplyHeader, Local, Serving
    <2> QED
      BY <2>2, <2>3
  <1>2. CASE ReplyBody
    <2>1. Reply \in Msg /\ pc \in Serving
      BY <1>2, MessageTypes DEF ReplyBody, Reply, Contents, Serving
    <2>2. OneFd(cur)
      BY <1>a, <1>2, <2>1, ClosedOneFd DEF ReplyBody, Peer
    <2> QED
      BY <1>b, <1>2, <2>1, <2>2, ServingStepKeeps DEF ReplyBody, Local, Serving
  <1>3. CASE ReplyKills
    BY <1>3, DiesKeeps DEF ReplyKills
  <1>4. CASE RegisterBody
    <2>1. pc \in Serving
      BY <1>4 DEF RegisterBody, Serving
    <2>2. OneFd(cur)
      BY <1>a, <1>4, <2>1, ReceivedOneFd DEF RegisterBody, Peer
    <2> QED
      BY <1>b, <1>4, <2>1, <2>2, ServingStepKeeps DEF RegisterBody, Local, Serving, Received
  <1>5. CASE RegisterBodyFails
    <2>1. pc \in Serving
      BY <1>5 DEF RegisterBodyFails, Serving
    <2>2. OneFd(cur)
      BY <1>a, <1>5, <2>1, ReadErrorOneFd DEF RegisterBodyFails, Peer
    <2> QED
      BY <1>b, <1>5, <2>1, <2>2, ServingStepKeeps DEF RegisterBodyFails, Local, Serving
  <1>6. CASE RegisterReply
    <2>1. Header(BROKER_OK, 0) \in Msg /\ pc \in Serving
      BY <1>6, MessageTypes DEF RegisterReply, Serving, BROKER_OK
    <2>2. OneFd(cur)
      BY <1>a, <1>6, <2>1, WrittenOneFd DEF RegisterReply, Peer
    <2>3. Registered \in Seq([name : Peers, fd : Fd])
      BY <1>a, <2>1 DEF Registered, Peer, DaemonTypeOK
    <2>4. DaemonTypeOK'
      BY <1>6, <2>3 DEF RegisterReply, DaemonTypeOK
    <2> QED
      BY <1>6, <2>1, <2>2, <2>4, ServingStepKeeps DEF RegisterReply, Serving
  <1> QED
    BY <1>1, <1>2, <1>3, <1>4, <1>5, <1>6 DEF ServeRequest

\* The events of a batch.
LEMMA HandleEventKeeps ==
  ASSUME DInv, HandleEvent
  PROVE  DInv' /\ NoneStays
  <1>1. CASE Accept
    BY <1>1, AcceptKeeps
  <1>2. CASE AcceptFails
    BY <1>2, AcceptFailsKeeps
  <1>3. ASSUME NEW e \in ready, ConnError(e)
        PROVE  DInv' /\ NoneStays
    <2>1. e.fd # 0
      BY <1>3 DEF ConnError, DInv, BatchOK, Accepting, Event
    <2> QED
      BY <1>3, <2>1, EventClosesKeeps DEF ConnError
  <1>4. ASSUME NEW e \in ready, ReadFails(e)
        PROVE  DInv' /\ NoneStays
    BY <1>4, EventClosesKeeps DEF ReadFails
  <1>5. ASSUME NEW e \in ready, Serve(e)
        PROVE  DInv' /\ NoneStays
    BY <1>5, ServeKeeps
  <1>6. ASSUME NEW e \in ready, QueueInfo(e)
        PROVE  DInv' /\ NoneStays
    BY <1>6, EventClosesKeeps DEF QueueInfo
  <1> QED
    BY <1>1, <1>2, <1>3, <1>4, <1>5, <1>6 DEF HandleEvent

\* A step that looks at the workload, dead or not, makes no system call.
LEMMA LocalStepKeeps ==
  ASSUME DInv, UNCHANGED netVars, UNCHANGED <<ready, cur, hdr, servers>>, ready = {},
         pc' \notin Serving, DaemonTypeOK', CheckingOK'
  PROVE  DInv' /\ NoneStays
  <1> USE DEF DInv, netVars
  <1>1. NetTypeOK' /\ FdTableOK' /\ NoneStays
    BY DEF NetTypeOK, FdTableOK, NoneStays
  <1>2. EventsFresh' /\ BatchOK' /\ NeverWaitsForAHeader' /\ ServingOK'
    BY DEF EventsFresh, BatchOK, NeverWaitsForAHeader, ServingOK
  <1> QED
    BY <1>1, <1>2

\* A step that talks to the server asked for machines.
LEMMA BootStepKeeps ==
  ASSUME DInv, ready = {}, ready' = {}, BootFd \in Fd, fds[BootFd] \in Peers,
         OneFd(BootFd), pc' \notin Serving, DaemonTypeOK', CheckingOK'
  PROVE  DInv' /\ NoneStays
  <1> USE DEF DInv
  <1>1. FdTableOK' /\ EventsFresh' /\ BatchOK' /\ NeverWaitsForAHeader' /\ NoneStays
    BY OneFdKeeps
  <1>2. NetTypeOK' /\ ServingOK'
    BY DEF OneFd, ServingOK
  <1> QED
    BY <1>1, <1>2

\* The number of machines asked for is a natural number.
LEMMA NeededType ==
  ASSUME NEW q \in QueueNames, NEW jobs \in PendJobs, jobs >= 0, BorrowFactor[q][1] # 0
  PROVE  NumMachinesNeeded(q, jobs) \in Nat
  <1>1. jobs \in Nat
    BY ResbdAssumption
  <1>2. BorrowFactor[q] \in Nat \X Nat
    BY ResbdAssumption
  <1>3. BorrowFactor[q][1] \in Nat \ {0} /\ BorrowFactor[q][2] \in Nat
    BY <1>2
  <1>4. jobs \div BorrowFactor[q][1] \in Nat
    BY <1>1, <1>3
  <1>5. (jobs \div BorrowFactor[q][1]) * BorrowFactor[q][2] \in Nat
    BY <1>3, <1>4
  <1> QED
    BY <1>5 DEF NumMachinesNeeded, NumInQueue

\* run_simulator, for every queue.
LEMMA LookAtQueueKeeps ==
  ASSUME DInv, LookAtQueue
  PROVE  DInv' /\ NoneStays
  <1> USE DEF DInv, LookAtQueue
  <1>1. PICK jobs \in PendJobs :
          IF jobs < 0
            THEN NextQueue /\ UNCHANGED <<want, given>> /\ UNCHANGED netVars
          ELSE IF BorrowFactor[Queues[qi]][1] = 0
            THEN Dies
          ELSE IF NumMachinesNeeded(Queues[qi], jobs) = 0
            THEN NextQueue /\ UNCHANGED <<want, given>> /\ UNCHANGED netVars
          ELSE /\ want' = NumMachinesNeeded(Queues[qi], jobs)
               /\ pc' = "boot"
               /\ UNCHANGED <<ready, cur, hdr, servers, timer, qi, given>>
               /\ UNCHANGED netVars
    OBVIOUS
  <1>2. ready = {} /\ servers # <<>> /\ pc = "queue" /\ qi \in Nat \ {0} /\ qi <= Len(Queues)
    BY DEF CheckingOK, DaemonTypeOK
  <1>3. Len(Queues) \in Nat
    BY ResbdAssumption
  <1>4. Queues[qi] \in QueueNames
    BY <1>2, <1>3 DEF QueueNames
  <1>5. CASE NextQueue /\ UNCHANGED <<want, given>> /\ UNCHANGED netVars
    <2>1. DaemonTypeOK'
      BY <1>2, <1>5 DEF NextQueue, DaemonTypeOK
    <2>2. CheckingOK'
      BY <1>2, <1>5 DEF NextQueue, CheckingOK
    <2> QED
      BY <1>2, <1>5, <2>1, <2>2, LocalStepKeeps DEF NextQueue, Serving
  <1>6. CASE Dies
    BY <1>6, DiesKeeps
  <1>7. CASE /\ ~(jobs < 0) /\ BorrowFactor[Queues[qi]][1] # 0
             /\ want' = NumMachinesNeeded(Queues[qi], jobs)
             /\ pc' = "boot"
             /\ UNCHANGED <<ready, cur, hdr, servers, timer, qi, given>>
             /\ UNCHANGED netVars
    <2>1. want' \in Nat
      <3>1. jobs \in Int
        BY ResbdAssumption
      <3> QED
        BY <1>4, <1>7, <3>1, NeededType
    <2>2. DaemonTypeOK'
      BY <1>7, <2>1 DEF DaemonTypeOK
    <2>3. CheckingOK'
      BY <1>2, <1>7 DEF CheckingOK
    <2> QED
      BY <1>2, <1>7, <2>2, <2>3, LocalStepKeeps DEF Serving
  <1> QED
    BY <1>1, <1>5, <1>6, <1>7

\* A queue that is over: the next one is looked at, or the round is done.
LEMMA NextQueueTypes ==
  ASSUME DInv, NextQueue, want' \in Nat, given' \in [QueueNames -> Nat], ready = {},
         servers # <<>>
  PROVE  DaemonTypeOK' /\ CheckingOK' /\ ready' = {} /\ pc' \notin Serving
  <1>1. DaemonTypeOK'
    BY DEF DInv, DaemonTypeOK, NextQueue
  <1>2. CheckingOK'
    BY DEF NextQueue, CheckingOK
  <1> QED
    BY <1>1, <1>2 DEF NextQueue, Serving

\* get_server_resources: the request and the answer.
LEMMA BootKeeps ==
  ASSUME DInv,
         \/ SendBoot \/ SendBootFails \/ SendBootKills
         \/ BootHeader \/ BootReadFails \/ BootBody \/ BootNoBody
  PROVE  DInv' /\ NoneStays
  <1> USE DEF DInv
  <1>1. /\ pc \in {"boot", "boot_header", "boot_body"}
        /\ ready = {} /\ servers # <<>> /\ qi <= Len(Queues)
    BY DEF CheckingOK, SendBoot, SendBootFails, SendBootKills, BootHeader,
           BootReadFails, BootBody, BootNoBody
  <1>2. BootFd \in Fd
    <2>1. servers \in Seq([name : Peers, fd : Fd])
      BY DEF DaemonTypeOK
    <2>2. Head(servers) \in [name : Peers, fd : Fd]
      BY <1>1, <2>1, HeadTailProperties
    <2> QED
      BY <2>2 DEF BootFd
  <1>3. fds[BootFd] # NoPeer => fds[BootFd] \in Peers
    BY <1>2 DEF NetTypeOK
  <1>4. want \in Nat /\ given \in [QueueNames -> Nat]
    BY DEF DaemonTypeOK
  <1>5. ASSUME pc \in {"boot_header", "boot_body"}
        PROVE  fds[BootFd] \in Peers
    BY <1>5 DEF CheckingOK
  <1>6. CASE SendBoot
    <2>1. Header(SERVER_BOOT_RESOURCES, want) \in Msg
      BY <1>4, MessageTypes DEF SERVER_BOOT_RESOURCES
    <2>2. OneFd(BootFd)
      BY <1>2, <1>3, <1>6, <2>1, WrittenOneFd DEF SendBoot
    <2>3. DaemonTypeOK'
      BY <1>6 DEF SendBoot, Local, DaemonTypeOK
    <2>4. CheckingOK'
      BY <1>1, <1>3, <1>6 DEF SendBoot, Local, CheckingOK, BootFd
    <2> QED
      BY <1>1, <1>2, <1>3, <1>6, <2>2, <2>3, <2>4, BootStepKeeps
         DEF SendBoot, Local, Serving
  <1>7. CASE SendBootFails
    <2>1. DaemonTypeOK' /\ CheckingOK' /\ ready' = {} /\ pc' \notin Serving
      BY <1>1, <1>4, <1>7, NextQueueTypes DEF SendBootFails
    <2>2. CASE fds[BootFd] = NoPeer
      BY <1>1, <1>7, <2>1, <2>2, LocalStepKeeps DEF SendBootFails, NextQueue, netVars
    <2>3. CASE fds[BootFd] # NoPeer
      <3>1. OneFd(BootFd)
        BY <1>2, <1>3, <1>7, <2>3, MessageTypes, WrittenOneFd DEF SendBootFails
      <3> QED
        BY <1>1, <1>2, <1>3, <2>1, <2>3, <3>1, BootStepKeeps
    <2> QED
      BY <2>2, <2>3
  <1>8. CASE SendBootKills
    BY <1>8, DiesKeeps DEF SendBootKills
  <1>9. CASE BootHeader
    <2>1. fds[BootFd] \in Peers
      BY <1>5, <1>9 DEF BootHeader
    <2>2. OneFd(BootFd) /\ hdr' \in Msg
      BY <1>2, <1>9, <2>1, ReceivedOneFd, ReceivedType DEF BootHeader
    <2>3. DaemonTypeOK'
      BY <1>9, <2>2 DEF BootHeader, Local, DaemonTypeOK
    <2>4. CheckingOK'
      BY <1>1, <1>9, <2>1 DEF BootHeader, Local, CheckingOK, BootFd, Received
    <2> QED
      BY <1>1, <1>2, <1>9, <2>1, <2>2, <2>3, <2>4, BootStepKeeps
         DEF BootHeader, Local, Serving
  <1>10. CASE BootReadFails
    <2>1. fds[BootFd] \in Peers
      BY <1>5, <1>10 DEF BootReadFails
    <2>2. OneFd(BootFd)
      BY <1>2, <1>10, <2>1, ReadErrorOneFd DEF BootReadFails
    <2>3. DaemonTypeOK' /\ CheckingOK' /\ ready' = {} /\ pc' \notin Serving
      BY <1>1, <1>4, <1>10, NextQueueTypes DEF BootReadFails
    <2> QED
      BY <1>1, <1>2, <2>1, <2>2, <2>3, BootStepKeeps
  <1>11. CASE BootBody
    <2>1. fds[BootFd] \in Peers
      BY <1>5, <1>11 DEF BootBody
    <2>2. OneFd(BootFd) /\ Head(up[fds[BootFd]]) \in Msg
      BY <1>2, <1>11, <2>1, ReceivedOneFd, ReceivedType DEF BootBody
    <2>3. Head(up[fds[BootFd]]).n \in Nat
      BY <2>2 DEF Msg
    <2>4. \A k \in Nat : Capped(k) \in Nat
      BY ResbdAssumption DEF Capped
    <2>5. given' \in [QueueNames -> Nat]
      <3>1. \A q \in QueueNames : given[q] + Head(up[fds[BootFd]]).n \in Nat
        BY <1>4, <2>3
      <3> QED
        BY <1>4, <1>11, <2>4, <3>1 DEF BootBody
    <2>6. DaemonTypeOK' /\ CheckingOK' /\ ready' = {} /\ pc' \notin Serving
      BY <1>1, <1>4, <1>11, <2>5, NextQueueTypes DEF BootBody
    <2> QED
      BY <1>1, <1>2, <2>1, <2>2, <2>6, BootStepKeeps
  <1>12. CASE BootNoBody
    <2>1. CASE NextQueue /\ UNCHANGED <<want, given>> /\ UNCHANGED netVars
      <3>1. DaemonTypeOK' /\ CheckingOK' /\ ready' = {} /\ pc' \notin Serving
        BY <1>1, <1>4, <2>1, NextQueueTypes
      <3> QED
        BY <1>1, <2>1, <3>1, LocalStepKeeps DEF NextQueue
    <2>2. CASE Dies
      BY <2>2, DiesKeeps
    <2> QED
      BY <1>12, <2>1, <2>2 DEF BootNoBody
  <1> QED
    BY <1>6, <1>7, <1>8, <1>9, <1>10, <1>11, <1>12

\* manage_resources and check_queue_workload.
LEMMA CheckWorkloadKeeps ==
  ASSUME DInv, CheckWorkload
  PROVE  DInv' /\ NoneStays
  <1> USE DEF DInv
  <1>1. CASE ManageResources
    <2>1. DaemonTypeOK'
      BY <1>1 DEF ManageResources, DaemonTypeOK
    <2>2. CheckingOK' /\ pc' \notin Serving
      BY <1>1 DEF ManageResources, CheckingOK, ServersAvailable, Serving
    <2> QED
      BY <1>1, <2>1, <2>2, LocalStepKeeps DEF ManageResources
  <1>2. CASE QueuesDone
    <2>1. DaemonTypeOK'
      BY <1>2 DEF QueuesDone, DaemonTypeOK
    <2>2. CheckingOK' /\ pc' \notin Serving /\ ready = {}
      BY <1>2 DEF QueuesDone, CheckingOK, Serving
    <2> QED
      BY <1>2, <2>1, <2>2, LocalStepKeeps DEF QueuesDone
  <1> QED
    BY <1>1, <1>2, LookAtQueueKeeps, BootKeeps DEF CheckWorkload

\* The clock.
LEMMA ElapseKeeps ==
  ASSUME DInv, Elapse
  PROVE  DInv' /\ NoneStays
  <1> USE DEF DInv, Elapse, netVars
  <1>1. NetTypeOK' /\ DaemonTypeOK' /\ FdTableOK' /\ NoneStays
    BY DEF NetTypeOK, DaemonTypeOK, FdTableOK, NoneStays
  <1>2. EventsFresh' /\ BatchOK' /\ NeverWaitsForAHeader'
    BY DEF EventsFresh, BatchOK, NeverWaitsForAHeader, Backlog, Readable
  <1>3. ServingOK' /\ CheckingOK'
    BY DEF ServingOK, CheckingOK, BootFd
  <1> QED
    BY <1>1, <1>2, <1>3

-----------------------------------------------------------------------------
\* The steps of the system.

LEMMA DInvOfIInv == IInv <=> DInv /\ ProcessTypeOK /\ StartedUnlinked
  BY DEF IInv, DInv, TypeOK

\* The daemon's steps.
LEMMA DaemonNextKeeps ==
  ASSUME IInv, DaemonNext
  PROVE  IInv'
  <1>1. DInv /\ ProcessTypeOK /\ StartedUnlinked
    BY DInvOfIInv
  <1>2. DInv' /\ NoneStays
    BY <1>1, EpollWaitKeeps, HandleEventKeeps, ServeRequestKeeps, CheckWorkloadKeeps,
       ElapseKeeps, DiesKeeps DEF DaemonNext, DaemonStep, KillDaemon
  <1>3. ProcessTypeOK'
    BY <1>1 DEF DaemonNext, ProcessTypeOK, sVars, cVars
  <1>4. StartedUnlinked'
    BY <1>1, <1>2, PeersAre DEF DaemonNext, StartedUnlinked, NoneStays, sVars, cVars
  <1> QED
    BY <1>2, <1>3, <1>4 DEF IInv, DInv, TypeOK

\* A server's steps.
LEMMA ServerNextKeeps ==
  ASSUME IInv, NEW s \in Servers, ServerNext(s)
  PROVE  IInv'
  <1>1. DInv /\ ProcessTypeOK /\ StartedUnlinked /\ NetTypeOK
    BY DInvOfIInv DEF DInv
  <1>2. ServerEffect(s) /\ s \in Peers /\ UNCHANGED <<dVars, cVars>>
    BY <1>1, ServerStepEffect, PeersAre DEF ServerNext
  <1>3. DInv'
    BY <1>1, <1>2, PeerStepKeeps DEF ServerEffect
  <1>4. ProcessTypeOK'
    BY <1>1, <1>2 DEF ServerEffect, ProcessTypeOK, cVars
  <1>5. \A q \in Peers \ {s} : link'[q] = link[q]
    BY <1>1, <1>2, PeerNetFrame DEF ServerEffect
  <1>6. StartedUnlinked'
    BY <1>1, <1>2, <1>5, PeersAre
       DEF StartedUnlinked, ServerEffect, ProcessTypeOK, cVars, SocketsAssumption
  <1> QED
    BY <1>3, <1>4, <1>6 DEF IInv, DInv, TypeOK

\* A client's steps.
LEMMA ClientNextKeeps ==
  ASSUME IInv, NEW c \in Clients, ClientNext(c)
  PROVE  IInv'
  <1>1. DInv /\ ProcessTypeOK /\ StartedUnlinked /\ NetTypeOK
    BY DInvOfIInv DEF DInv
  <1>2. ClientEffect(c) /\ c \in Peers /\ UNCHANGED <<dVars, sVars>>
    BY <1>1, ClientStepEffect, PeersAre DEF ClientNext
  <1>3. DInv'
    BY <1>1, <1>2, PeerStepKeeps DEF ClientEffect
  <1>4. ProcessTypeOK'
    BY <1>1, <1>2 DEF ClientEffect, ProcessTypeOK, sVars
  <1>5. \A q \in Peers \ {c} : link'[q] = link[q]
    BY <1>1, <1>2, PeerNetFrame DEF ClientEffect
  <1>6. StartedUnlinked'
    BY <1>1, <1>2, <1>5, PeersAre
       DEF StartedUnlinked, ClientEffect, ProcessTypeOK, sVars, SocketsAssumption
  <1> QED
    BY <1>3, <1>4, <1>6 DEF IInv, DInv, TypeOK

\* A step in which nothing happens.
LEMMA StutterKeeps ==
  ASSUME IInv, UNCHANGED vars
  PROVE  IInv'
  <1> USE DEF IInv, vars, netVars, dVars, sVars, cVars
  <1>1. TypeOK' /\ FdTableOK' /\ StartedUnlinked'
    BY DEF TypeOK, NetTypeOK, DaemonTypeOK, ProcessTypeOK, FdTableOK, StartedUnlinked
  <1>2. EventsFresh' /\ BatchOK' /\ NeverWaitsForAHeader'
    BY DEF EventsFresh, BatchOK, NeverWaitsForAHeader, Backlog, Readable
  <1>3. ServingOK' /\ CheckingOK'
    BY DEF ServingOK, CheckingOK, BootFd
  <1> QED
    BY <1>1, <1>2, <1>3

\* The initial states.
LEMMA InitIInv == Init => IInv
  <1> SUFFICES ASSUME Init
               PROVE  IInv
    OBVIOUS
  <1> USE DEF Init, NetInit, DaemonInit, ServerInit, ClientInit
  <1>1. NetTypeOK
    <2>1. <<>> \in Seq(Msg)
      OBVIOUS
    <2> QED
      BY <2>1 DEF NetTypeOK
  <1>2. DaemonTypeOK
    <2>1. Header(0, 0) \in Msg
      BY MessageTypes
    <2>2. <<>> \in Seq([name : Peers, fd : Fd])
      OBVIOUS
    <2> QED
      BY <2>1, <2>2 DEF DaemonTypeOK
  <1>3. ProcessTypeOK
    BY DEF ProcessTypeOK, SstStates, CstStates
  <1>4. FdTableOK /\ StartedUnlinked
    BY PeersAre DEF FdTableOK, StartedUnlinked
  <1>5. EventsFresh /\ BatchOK /\ NeverWaitsForAHeader /\ ServingOK /\ CheckingOK
    BY DEF EventsFresh, BatchOK, NeverWaitsForAHeader, ServingOK, Serving, CheckingOK
  <1> QED
    BY <1>1, <1>2, <1>3, <1>4, <1>5 DEF IInv, TypeOK

\* The batch, the descriptor table and the processes stay consistent in every
\* behaviour of the broker, for any number of peers, queues and descriptors.
THEOREM Inductive == Spec => []IInv
  <1>1. IInv /\ [Next]_vars => IInv'
    BY DaemonNextKeeps, ServerNextKeeps, ClientNextKeeps, StutterKeeps DEF Next
  <1> QED
    BY <1>1, InitIInv, PTL DEF Spec

\* Every variable always has its type; in particular the daemon indexes the
\* queues and its descriptor table only where they are defined.
THEOREM TypeCorrect == Spec => []TypeOK
  <1>1. IInv => TypeOK
    BY DEF IInv
  <1> QED
    BY <1>1, Inductive, PTL

\* handle_events never meets a descriptor that changed hands since epoll_wait
\* reported it, although it closes and accepts connections within the batch.
THEOREM BatchIsFresh == Spec => []EventsFresh
  <1>1. IInv => EventsFresh
    BY DEF IInv
  <1> QED
    BY <1>1, Inductive, PTL

\* The daemon never blocks in accept() or in the read of a header.
THEOREM HeadersDoNotBlock == Spec => []NeverWaitsForAHeader
  <1>1. IInv => NeverWaitsForAHeader
    BY DEF IInv
  <1> QED
    BY <1>1, Inductive, PTL
=============================================================================
