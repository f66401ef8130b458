-------------------------------- MODULE Nio2 --------------------------------
(***************************************************************************)
(* nio2.c at work: nioepoll over listeners, controls and relays, the       *)
(* daemon that calls it, and the programs at the other ends.  The daemon   *)
(* is not in the repository; what it does between two calls of nioepoll is *)
(* what the comments of nio2.c ask of it.                                  *)
(***************************************************************************)
EXTENDS NioRelay, NioCtrl

VARIABLES pc,     \* where the daemon's thread is
          batch,  \* the events of nioepoll that have not been handled
          five    \* the control for which niosslaccept waits

loopVars == <<pc, batch, five>>
vars == <<netVars, relayVars, ctrlVars, loopVars>>

Init == NetInit /\ RelayInit /\ CtrlInit /\ pc = "epoll" /\ batch = {} /\ five = 0

-----------------------------------------------------------------------------
\* The structures that epoll knows by the pointers of their events: id is the
\* port of a listener, the index of a control or the sid of a relay.
Event(kind, id, ev) == [kind |-> kind, id |-> id, ev |-> ev]

Backlog(port) == {c \in IF port = 0 THEN Controllers ELSE Clients : conn[c].link = "waiting"}

InUse(i) == \A j \in 1 .. Len(ctrlcache) : ctrlcache[j] # i

Ready(c, out) ==
  (IF Readable(conn, c) THEN {"in"} ELSE {})
  \cup (IF out /\ Writable(conn, c) THEN {"out"} ELSE {})
  \cup (IF conn[c].end = "rst" THEN {"err"} ELSE {})

Reported ==
  {Event("listener", port, {"in"}) : port \in {p \in {0, 1} : Backlog(p) # {}}}
  \cup {Event("ctrl", i, Ready(ctrl[i].s, ctrl[i].out)) : i \in {j \in Ctrls : InUse(j)}}
  \cup {Event("relay", r, Ready(relay[r].s, relay[r].out)) :
          r \in {x \in Sids : relay[x].s # None}}

\* epoll_wait, for at most maxrelay events.  It also comes back with none, when
\* polltimer is over.
Poll ==
  /\ pc = "epoll"
  /\ LET ready == {e \in Reported : e.ev # {}}
     IN  batch' \in kSubset(Min({MaxRelay, Cardinality(ready)}), ready)
  /\ pc' = "batch"
  /\ UNCHANGED <<netVars, relayVars, ctrlVars, five>>

Polls(kind, id) == Poll /\ \E e \in batch' : e.kind = kind /\ e.id = id

Handle(e) == pc = "batch" /\ e \in batch /\ batch' = batch \ {e}

\* A connection of a port; a client's first bytes are read at once, blocking.
AcceptEvent(e) ==
  /\ Handle(e) /\ e.kind = "listener"
  /\ \E c \in Backlog(e.id) : ControlsBecome(AcceptCtrl(Controls, c))
  /\ IF e.id = 1 /\ ctrlcache # <<>>
       THEN pc' = "five" /\ five' = Head(ctrlcache)
       ELSE UNCHANGED <<pc, five>>
  /\ UNCHANGED <<handouts, relayVars>>

\* accept() has no descriptor, or nobody is there any more.
AcceptFails(e) ==
  /\ Handle(e) /\ e.kind = "listener"
  /\ UNCHANGED <<netVars, relayVars, ctrlVars, pc, five>>

\* Mutant: the bytes are waited for although the client is gone.
FiveBytes_Insists ==
  /\ pc = "five"
  /\ conn[ctrl[five].s].in # <<>>
  /\ ControlsBecome(ReadFive(Controls, ctrl[five].s))
  /\ pc' = "batch" /\ five' = 0
  /\ UNCHANGED <<batch, handouts, relayVars>>

FiveBytes ==
  /\ pc = "five"
  /\ Readable(conn, ctrl[five].s)
  /\ ControlsBecome(ReadFive(Controls, ctrl[five].s))
  /\ pc' = "batch" /\ five' = 0
  /\ UNCHANGED <<batch, handouts, relayVars>>

CtrlEvent(e) ==
  /\ Handle(e) /\ e.kind = "ctrl"
  /\ ControlsBecome(
       CASE "err" \in e.ev -> ShutCtrl(Controls, e.id, TRUE)
         [] "err" \notin e.ev /\ "in" \in e.ev -> AsyncRead(Controls, e.id)
         [] OTHER -> AsyncWrite(Controls, e.id))
  /\ UNCHANGED <<handouts, relayVars, pc, five>>

RelayEvent(e) ==
  /\ Handle(e) /\ e.kind = "relay"
  /\ {"err", "in"} \cap e.ev # {} \/ relay[e.id].s # None
  /\ Becomes(
       CASE "err" \in e.ev -> ShutBoth(Pool, e.id)
         [] "err" \notin e.ev /\ "in" \in e.ev -> Relay(Pool, e.id)
         [] OTHER -> Flush(Pool, relay[e.id].peer))
  /\ UNCHANGED <<handouts, ctrlVars, pc, five>>

\* The relay was shut earlier in the batch and its ev is NULL: the log line that
\* looks for spurious events follows it.
StaleOut(e) ==
  /\ Handle(e) /\ e.kind = "relay" /\ e.ev = {"out"} /\ relay[e.id].s = None
  /\ pc' = "dead"
  /\ UNCHANGED <<netVars, relayVars, ctrlVars, five>>

-----------------------------------------------------------------------------
\* Between two calls of nioepoll the daemon takes each control off the list and
\* its message off the control.
Between == pc = "batch" /\ batch = {}

Taken == [Controls EXCEPT !.list = Tail(@), !.ctrl[Head(ctrlist)].rcv = <<>>]

Message == ctrl[Head(ctrlist)].rcv

\* A controller's question.
AnswerController ==
  /\ Between /\ ctrlist # <<>> /\ Len(Message) = 1
  /\ LET i == Head(ctrlist)
         n == conn[ctrl[i].s].said
         p == GetPeer(Pool, [by |-> ctrl[i].s, n |-> n])
     IN  /\ ControlsBecome(PrepareWrite(Taken, i, Reply(n, Given(Pool))))
         /\ relay' = p.relay /\ wpeers' = p.hash
  /\ UNCHANGED <<handouts, relaycache, loopVars>>

\* A client's start message.
StartSession ==
  /\ Between /\ ctrlist # <<>> /\ Len(Message) = 2
  /\ LET i == Head(ctrlist)
         sid == CHOOSE s \in Message[2].sids : TRUE
     IN  IF sid \in wpeers
           THEN LET p == StartRelay(Pool, sid, ctrl[i].s)
                    q == [Taken EXCEPT !.conn = p.conn]
                IN  /\ relay' = p.relay /\ relaycache' = p.cache /\ wpeers' = p.hash
                    /\ ControlsBecome(ShutCtrl(q, i, FALSE))
           ELSE /\ ControlsBecome(ShutCtrl(Taken, i, TRUE))
                /\ UNCHANGED relayVars
  /\ UNCHANGED <<handouts, loopVars>>

\* niofindidle: the two sides of a pair got the same time from niogetpeer.
FindIdle ==
  /\ Between
  /\ \E expired \in SUBSET wpeers \ {{}} :
       /\ \A sid \in expired, peer \in wpeers :
            relay[sid].peer = peer /\ relay[peer].peer = sid => peer \in expired
       /\ Becomes(ShutIdle(Pool, expired))
  /\ UNCHANGED <<handouts, ctrlVars, loopVars>>

Again ==
  /\ Between /\ ctrlist = <<>>
  /\ pc' = "epoll"
  /\ UNCHANGED <<netVars, relayVars, ctrlVars, batch, five>>

-----------------------------------------------------------------------------
NioStep ==
  \/ Poll \/ FiveBytes \/ AnswerController \/ StartSession \/ Again
  \/ \E e \in batch :
       AcceptEvent(e) \/ AcceptFails(e) \/ CtrlEvent(e) \/ RelayEvent(e) \/ StaleOut(e)

Others == UNCHANGED <<relayVars, ctrlVars, loopVars>>

Next ==
  \/ NioStep
  \/ FindIdle
  \/ \E c \in Conns : Program(c) /\ Others

\* WF_vars(NioStep), in terms that TLC evaluates quickly: NioStep is enabled unless
\* the daemon waits for a silent client or is dead, and it is what changes these.
LoopGoesOn ==
  \/ []<>(pc = "dead" \/ (pc = "five" /\ ~ENABLED FiveBytes))
  \/ []<><<TRUE>>_<<pc, batch, ctrlist>>

\* The daemon's thread goes on, epoll_wait leaves no socket out for ever, and the
\* programs read; a client that connects sends the five bytes the daemon waits
\* for, or goes away.
Fairness ==
  /\ LoopGoesOn
  /\ \A sid \in Sids : SF_vars(Polls("relay", sid))
  /\ \A i \in Ctrls : SF_vars(Polls("ctrl", i))
  /\ \A c \in Conns : WF_vars(Hear(c) /\ Others)
  /\ \A c \in Clients : WF_vars(conn[c].said = 0 /\ Say(c) /\ Others)

Spec == Init /\ [][Next]_vars

FairSpec == Spec /\ Fairness

-----------------------------------------------------------------------------
Items == [t : {"five", "header", "body", "byte", "reply", "stray"}, from : Conns \cup {None},
          n : Nat, sids : SUBSET Sids]

\* Every variable has its type.
Nio2TypeOK ==
  /\ pc \in {"epoll", "batch", "five", "dead"}
  /\ five \in Ctrls \cup {0}
  /\ \A e \in batch : e.kind \in {"listener", "ctrl", "relay"} /\ e.ev # {}
  /\ \A c \in Conns :
       /\ conn[c].link \in {"none", "waiting", "up", "closed"}
       /\ conn[c].end \in {"open", "fin", "rst"}
       /\ Len(conn[c].out) <= Room
       /\ {conn[c].in, conn[c].out, conn[c].got} \subseteq Seq(Items)
  /\ \A sid \in Sids :
       /\ relay[sid].status \in {"idle", "wait", "active"}
       /\ relay[sid].s \in Conns \cup {None}
       /\ relay[sid].peer \in Sids
       /\ Len(relay[sid].buf) <= L /\ relay[sid].x2 \in Int /\ relay[sid].x2 <= Len(relay[sid].buf)
  /\ relaycache \in Seq(Sids) /\ wpeers \subseteq Sids
  /\ \A i \in Ctrls :
       /\ ctrl[i].s \in Conns \cup {None}
       /\ ctrl[i].rcv \in Seq(Items)
       /\ ctrl[i].rcv # <<>> => Len(ctrl[i].rcv) <= 1 + ctrl[i].rcv[1].n
  /\ ctrlcache \in Seq(Ctrls) /\ ctrlist \in Seq(Ctrls)

OnceEach(s, S) ==
  /\ Len(s) = Cardinality(S)
  /\ {s[i] : i \in 1 .. Len(s)} = S

\* The caches hold exactly what is not in use, once each: what listrm takes off
\* relaycache is on it, and nothing is put on a list twice.
PoolsKept ==
  /\ OnceEach(relaycache, {sid \in Sids : relay[sid].status # "active"})
  /\ wpeers \subseteq {sid \in Sids : relay[sid].status = "wait"}
  /\ OnceEach(ctrlcache, {i \in Ctrls : ~InUse(i)})
  /\ OnceEach(ctrlist, {i \in Ctrls : InUse(i) /\ Complete(ctrl[i].rcv)})

\* Every connection that is up belongs to one control in use or to one active
\* relay, also while it goes from one to the other, and these hold no other.
SocketsOwned ==
  LET Owner(c) == {<<"ctrl", i>> : i \in {j \in Ctrls : InUse(j) /\ ctrl[j].s = c}}
                  \cup {<<"relay", sid>> : sid \in {x \in Sids : relay[x].s = c}}
  IN  /\ \A c \in Conns : Cardinality(Owner(c)) = IF conn[c].link = "up" THEN 1 ELSE 0
      /\ \A sid \in Sids : relay[sid].status = "active" <=> relay[sid].s # None

\* What comes behind the start message.
Sent(c) == SubSeq(Script(c), 4, conn[c].said)

Received(c) == conn[c].got \o conn[c].out

\* The clients that one answer brought together.
Partners(c, d) == c # d /\ conn[c].by = conn[d].by /\ conn[c].n = conn[d].n

\* Nobody was let in for a relay that had been shut.
NobodyLate == \A c \in Clients : ~conn[c].late

\* Nobody came with what another client had been started with.
NobodyAgain ==
  \A c, d \in Clients : Partners(c, d) /\ conn[c].by # None => conn[c].sid # conn[d].sid

\* A client receives what the other client of its session sent, from the first
\* byte on, in order, nothing twice and nothing of anybody else.  The library knows
\* a client by its sid alone, so it is so as long as nobody is late, when the peer
\* may be in another session, or comes again, when the sid may be of another.
BytesInOrder ==
  NobodyLate /\ NobodyAgain => \A c \in Clients : Received(c) # <<>> =>
    \E d \in Clients : Partners(c, d) /\ IsPrefix(Received(c), Sent(d))

Paired(r, p) ==
  /\ relay[r].status = "active" /\ relay[p].status = "active"
  /\ relay[r].peer = p /\ relay[p].peer = r

\* While both sides are there, nothing that one has sent is lost between the
\* sockets and nothing else comes in between: it is read, in the buffer, or still
\* to be read.  A late client's bytes would come in between.
NothingLostWhileUp ==
  NobodyLate => \A r, p \in Sids : Paired(r, p) /\ conn[relay[p].s].end = "open" =>
    Received(relay[p].s) \o Unwritten(relay[r]) \o conn[relay[r].s].in = Sent(relay[r].s)

\* What niostartrelay says of a relay that somebody has shut down before its
\* client came (nio2.c:283): the client is shut down, it never gets a relay.
LatePeerRefused == \A c \in Clients : ~conn[c].late

\* nioepoll comes back, also from a client whose first bytes it waits for.
LoopReturns == pc # "epoll" ~> pc \in {"epoll", "dead"}

Half(r) == Paired(r, relay[r].peer) /\ relay[r].x2 > 0

\* The program that the rest goes to sends something itself.
Speaks(r) ==
  \E c \in Clients : c = relay[relay[r].peer].s /\ conn'[c].said > conn[c].said

\* What could only be written in part goes out, unless the session ends first or
\* the program it goes to never stops sending: its socket is then readable again
\* and again, which nioepoll looks at before it looks whether it is writable.
HalfWrittenGoesOut ==
  \A r \in Sids : []<>(~Half(r) \/ pc = "dead") \/ []<><<Speaks(r)>>_vars

\* "Partial write so we must flush the buffer as soon as the peer becomes writable
\* again" (nio2.c:601): when the event of a socket says that it is writable, and it
\* still is, more of the rest is written to it.
FlushedWhenWritable ==
  [][\A e \in batch, r \in Sids :
       /\ RelayEvent(e) /\ "out" \in e.ev
       /\ Half(r) /\ relay[r].peer = e.id
       /\ conn[relay[e.id].s].end = "open" /\ Writable(conn, relay[e.id].s)
       => Len(Unwritten(relay'[r])) < Len(Unwritten(relay[r]))]_vars

\* A client that has sent its start message is made a relay or is shut out.
Starting(c) == conn[c].said >= 3 /\ \E i \in Ctrls : InUse(i) /\ ctrl[i].s = c

StartAnswered ==
  (\E c \in Clients : Starting(c)) ~> (\A c \in Clients : ~Starting(c)) \/ pc = "dead"
=============================================================================
