------------------------------ MODULE NioRelay ------------------------------
(***************************************************************************)
(* The relays of nio2.c, without TLS: a pool of them, each with one buffer *)
(* of L bytes for what its own socket has sent and its peer's has not been *)
(* written yet.  A handler reads and changes several relays, so it is an   *)
(* operator from one state of the pool to the next, applied by Nio2.       *)
(***************************************************************************)
EXTENDS RelayNet, SequencesExt

CONSTANTS MaxRelay,  \* nd->maxrelay
          L          \* nd->relaybuf

Sids == 0 .. MaxRelay - 1

ASSUME NioRelayAssumption == MaxRelay \in Nat \ {0} /\ L \in Nat \ {0}

VARIABLES relay,       \* of each sid, a struct nio_relay
          relaycache,  \* the sids whose relays are on the list of that name
          wpeers       \* the sids that the hash table has

relayVars == <<relay, relaycache, wpeers>>

\* s: its connection; without one, ev is NULL as well.  peer: before niogetpeer
\* sets it, nothing follows it.  out: EPOLLOUT is in its bits.  buf: the first x1
\* bytes of the buffer, x2 of which are written.  over: nioshutrelay was called for
\* it while it waited; ask: who was told its sid last, for which question (history).
NoRelay(sid) == [status |-> "idle", s |-> None, peer |-> sid, buf |-> <<>>, x2 |-> 0,
                 out |-> FALSE, over |-> FALSE, ask |-> [by |-> None, n |-> 0]]

RelayInit ==
  /\ relay = [sid \in Sids |-> NoRelay(sid)]
  /\ relaycache = [i \in 1 .. MaxRelay |-> i - 1]
  /\ wpeers = {}

\* The pool and the connections, for a handler to work on.
Pool == [relay |-> relay, cache |-> relaycache, hash |-> wpeers, conn |-> conn]

Becomes(p) ==
  /\ relay' = p.relay /\ relaycache' = p.cache /\ wpeers' = p.hash
  /\ conn' = p.conn

-----------------------------------------------------------------------------
\* niogetpeer: the first two idle relays of the cache wait for their clients.
\* With only one left it waits too, but nobody is given its sid.

\* The places of the idle relays on the cache, and all but the first.
Idle(p) == {i \in 1 .. Len(p.cache) : p.relay[p.cache[i]].status = "idle"}

Later(p) == Idle(p) \ {Min(Idle(p))}

Sid1(p) == p.cache[Min(Idle(p))]
Sid2(p) == p.cache[Min(Later(p))]

Waiting(r, peer, ask) == [r EXCEPT !.status = "wait", !.buf = <<>>, !.x2 = 0, !.peer = peer,
                                   !.over = FALSE, !.ask = ask]

Given(p) == IF Idle(p) = {} \/ Later(p) = {} THEN {} ELSE {Sid1(p), Sid2(p)}

\* Mutant: only one of the two is watched.
GetPeer_OneWay(p, ask) ==
  IF Given(p) = {} THEN p
  ELSE [p EXCEPT !.relay[Sid1(p)] = Waiting(@, Sid2(p), ask),
                 !.relay[Sid2(p)] = Waiting(@, @.peer, ask),
                 !.hash = @ \cup Given(p)]

GetPeer(p, ask) ==
  CASE Idle(p) = {} -> p
    [] Idle(p) # {} /\ Later(p) = {} -> [p EXCEPT !.relay[Sid1(p)] = Waiting(@, @.peer, ask)]
    [] Idle(p) # {} /\ Later(p) # {} ->
         [p EXCEPT !.relay[Sid1(p)] = Waiting(@, Sid2(p), ask),
                   !.relay[Sid2(p)] = Waiting(@, Sid1(p), ask),
                   !.hash = @ \cup Given(p)]

\* Mutant: the relay stays on the cache while it is active.
StartRelay_Cached(p, sid, c) ==
  [p EXCEPT !.hash = @ \ {sid},
            !.relay[sid] = [@ EXCEPT !.status = "active", !.s = c, !.out = FALSE],
            !.conn[c].late = p.relay[sid].over]

\* niostartrelay, for a sid in the hash table: the relay takes the control's
\* connection over.
StartRelay(p, sid, c) ==
  [p EXCEPT !.hash = @ \ {sid},
            !.cache = RemoveFirst(@, sid),
            !.relay[sid] = [@ EXCEPT !.status = "active", !.s = c, !.out = FALSE],
            !.conn[c].late = p.relay[sid].over]

-----------------------------------------------------------------------------
\* nioshutrelay.  A waiting relay has no socket yet: its branch, which would take
\* it out of the hash table, is behind a test that it never passes.
ShutRelay(p, sid) ==
  LET r == p.relay[sid]
  IN  CASE r.s = None ->
             [p EXCEPT !.relay[sid].over = r.status = "wait"]
        [] r.s # None /\ r.status = "active" ->
             [p EXCEPT !.relay[sid] = [NoRelay(sid) EXCEPT !.peer = r.peer],
                       !.cache = Append(@, sid),
                       !.conn = Shut(@, r.s)]
        [] r.s # None /\ r.status = "wait" ->
             [p EXCEPT !.relay[sid].status = "idle", !.hash = @ \ {sid}]

ShutBoth(p, sid) == ShutRelay(ShutRelay(p, sid), p.relay[sid].peer)

\* What is in front of a buffer.
stray == Item("stray", None, 0, {})

\* What is left to write: -1 is a place of x2 after a failed write.
Unwritten(r) ==
  [i \in 1 .. Len(r.buf) - r.x2 |->
     IF r.x2 + i \in 1 .. Len(r.buf) THEN r.buf[r.x2 + i] ELSE stray]

\* The write fails for ever: the other end was reset.
FlushFails(p, sid) ==
  LET c == p.relay[p.relay[sid].peer].s
  IN  c # None /\ p.relay[sid].buf # <<>> /\ p.conn[c].end = "rst"

\* Mutant: what was not written is forgotten.
Advanced_Drops(r, n) == [r EXCEPT !.buf = <<>>, !.x2 = 0]

\* cc bytes more of the buffer are written, or one less.
Advanced(r, cc) ==
  IF r.x2 + cc = Len(r.buf) THEN [r EXCEPT !.buf = <<>>, !.x2 = 0]
  ELSE [r EXCEPT !.x2 = @ + cc]

\* Mutant: nobody waits until the rest can be written.
Flush_Once(p, sid) ==
  LET r == p.relay[sid]
      c == p.relay[r.peer].s
      todo == Unwritten(r)
      n == Min({Len(todo), Room - Len(p.conn[c].out)})
  IN  IF c = None \/ r.buf = <<>> THEN p
      ELSE [p EXCEPT !.relay[sid] = Advanced(r, n),
                     !.conn = Written(@, c, SubSeq(todo, 1, n))]

\* nioflush2peer.  Only if all is written EPOLLOUT stays off.
Flush(p, sid) ==
  LET r == p.relay[sid]
      peer == r.peer
      c == p.relay[peer].s
      todo == Unwritten(r)
      n == IF p.conn[c].end = "open" THEN Min({Len(todo), Room - Len(p.conn[c].out)})
                                     ELSE Len(todo)
      wait == [p EXCEPT !.relay[peer].out = TRUE]
  IN  CASE c = None -> p
        [] c # None /\ r.buf = <<>> -> [p EXCEPT !.relay[peer].out = FALSE]
        [] FlushFails(p, sid) -> [wait EXCEPT !.relay[sid] = Advanced(@, -1)]
        [] OTHER ->
             [p EXCEPT !.relay[peer].out = n < Len(todo),
                       !.relay[sid] = Advanced(r, n),
                       !.conn = Written(@, c, SubSeq(todo, 1, n))]

\* niorelayread of n bytes, as many as there are and fit.
Read(p, sid) ==
  LET r == p.relay[sid]
      n == Min({Len(p.conn[r.s].in), L - Len(r.buf)})
  IN  [p EXCEPT !.relay[sid].buf = @ \o SubSeq(p.conn[r.s].in, 1, n),
                !.conn[r.s].in = SubSeq(@, n + 1, Len(@))]

\* niorelayread returns 0 or an error; with a full buffer it does not look.
AtEnd(p, sid) ==
  LET r == p.relay[sid]
  IN  Len(r.buf) < L /\ p.conn[r.s].in = <<>> /\ p.conn[r.s].end # "open"

\* niorelay.
Relay(p, sid) ==
  LET r == p.relay[sid]
      read == Read(p, sid)
  IN  CASE r.s = None -> p
        [] r.s # None /\ AtEnd(p, sid) -> ShutBoth(Flush(p, sid), sid)
        [] OTHER ->
             CASE read.relay[r.peer].status # "active" -> read
               [] FlushFails(read, sid) -> ShutBoth(Flush(Flush(read, sid), r.peer), sid)
               [] OTHER -> Flush(read, sid)

\* niofindidle, for relays of the hash table whose time is up: nioshutrelay of each.
\* None has a socket (PoolsKept, SocketsOwned), so a call touches its own relay only.
ShutIdle(p, expired) ==
  [p EXCEPT !.relay = [sid \in Sids |-> IF sid \in expired THEN ShutRelay(p, sid).relay[sid] ELSE @[sid]]]
=============================================================================
