----------------------------- MODULE Nio2Proofs -----------------------------
(***************************************************************************)
(* Proofs about nio2.c, for any pools, buffers and programs: the pools are *)
(* kept and every connection has one owner.                                *)
(***************************************************************************)
EXTENDS Nio2, TLAPS, FiniteSetTheorems, SequenceTheorems

-----------------------------------------------------------------------------
\* Types.

ConnRecs ==
  [link : {"none", "waiting", "up", "closed"}, end : {"open", "fin", "rst"},
   in : Seq(Items), out : Seq(Items), sid : Sids, by : Conns \cup {None}, n : Nat,
   late : BOOLEAN, said : Nat, got : Seq(Items)]

Asks == [by : Conns \cup {None}, n : Nat]

RelayRecs ==
  [status : {"idle", "wait", "active"}, s : Conns \cup {None}, peer : Sids,
   buf : Seq(Items), x2 : Int, out : BOOLEAN, over : BOOLEAN, ask : Asks]

CtrlRecs ==
  [s : Conns \cup {None}, rcv : Seq(Items),
   snd : Seq([reply : Items, done : BOOLEAN]), out : BOOLEAN]

Pools ==
  [relay : [Sids -> RelayRecs], cache : Seq(Sids), hash : SUBSET Sids,
   conn : [Conns -> ConnRecs]]

ControlPools ==
  [ctrl : [Ctrls -> CtrlRecs], cache : Seq(Ctrls), list : Seq(Ctrls),
   conn : [Conns -> ConnRecs]]

Evs == SUBSET {"in", "out", "err"}

Events ==
  [kind : {"listener"}, id : {0, 1}, ev : Evs]
    \cup [kind : {"ctrl"}, id : Ctrls, ev : Evs]
    \cup [kind : {"relay"}, id : Sids, ev : Evs]

-----------------------------------------------------------------------------
\* The inductive invariant.

On(s, x) == \E i \in 1 .. Len(s) : s[i] = x

NoneTwice(s) == \A i, j \in 1 .. Len(s) : s[i] = s[j] => i = j

RoomKept(k) == \A c \in Conns : Len(k[c].out) <= Room

\* The relays of a pool: each active one has a connection that is up, no other
\* has it, and the cache has those that are not active.
PoolOK(p) ==
  /\ p \in Pools
  /\ RoomKept(p.conn)
  /\ \A sid \in Sids :
       /\ Len(p.relay[sid].buf) <= L /\ p.relay[sid].x2 <= Len(p.relay[sid].buf)
       /\ p.relay[sid].status = "active" <=> p.relay[sid].s # None
       /\ p.relay[sid].s # None => p.conn[p.relay[sid].s].link = "up"
       /\ On(p.cache, sid) <=> p.relay[sid].status # "active"
       /\ sid \in p.hash => p.relay[sid].status = "wait"
  /\ \A r1, r2 \in Sids : p.relay[r1].s = p.relay[r2].s /\ p.relay[r1].s # None => r1 = r2
  /\ NoneTwice(p.cache)

\* The controls: each in use has a connection that is up, no other in use has it,
\* and those with a complete message are listed.
ControlsOK(q) ==
  /\ q \in ControlPools
  /\ RoomKept(q.conn)
  /\ \A i \in Ctrls :
       /\ ~On(q.cache, i) => q.ctrl[i].s # None /\ q.conn[q.ctrl[i].s].link = "up"
       /\ q.ctrl[i].rcv # <<>> => Len(q.ctrl[i].rcv) <= 1 + q.ctrl[i].rcv[1].n
       /\ On(q.list, i) <=> ~On(q.cache, i) /\ Complete(q.ctrl[i].rcv)
  /\ \A i, j \in Ctrls :
       ~On(q.cache, i) /\ ~On(q.cache, j) /\ q.ctrl[i].s = q.ctrl[j].s => i = j
  /\ NoneTwice(q.cache) /\ NoneTwice(q.list)

\* A control's event is still to be handled: its message was not complete when
\* epoll_wait returned, and if the event is only EPOLLOUT something can be written.
EventOK(q, e) ==
  e.kind = "ctrl" =>
    /\ ~On(q.cache, e.id) /\ ~Complete(q.ctrl[e.id].rcv)
    /\ {"err", "in"} \cap e.ev = {} => Writable(q.conn, q.ctrl[e.id].s)

BatchOK(q, b) ==
  /\ \A e \in b : e.ev # {} /\ EventOK(q, e)
  /\ \A e, f \in b : e.kind = "ctrl" /\ f.kind = "ctrl" /\ e.id = f.id => e = f

HeldByRelay(p, c) == \E sid \in Sids : p.relay[sid].s = c
HeldByCtrl(q, c) == \E i \in Ctrls : ~On(q.cache, i) /\ q.ctrl[i].s = c

\* Who has a connection.
OneOwner(p, q) ==
  \A c \in Conns :
    /\ ~(HeldByRelay(p, c) /\ HeldByCtrl(q, c))
    /\ q.conn[c].link = "up" => HeldByRelay(p, c) \/ HeldByCtrl(q, c)

LoopOK ==
  /\ pc \in {"epoll", "batch", "five", "dead"}
  /\ batch \subseteq Events
  /\ five \in Ctrls \cup {0}
  /\ pc = "five" => five \in Ctrls /\ ~On(ctrlcache, five)
  /\ pc = "epoll" => batch = {} /\ ctrlist = <<>>
  /\ handouts \subseteq [sid : Sids, by : Conns, n : Nat]

NioInv ==
  /\ PoolOK(Pool)
  /\ ControlsOK(Controls)
  /\ OneOwner(Pool, Controls)
  /\ BatchOK(Controls, batch)
  /\ LoopOK

-----------------------------------------------------------------------------
\* What a handler of relays may do with the connections.
Moves(p, q) ==
  \A c \in Conns :
    /\ HeldByRelay(q, c) => HeldByRelay(p, c)
    /\ ~HeldByRelay(p, c) => q.conn[c] = p.conn[c]
    /\ HeldByRelay(p, c) /\ ~HeldByRelay(q, c) => q.conn[c].link # "up"

LEMMA MovesOn ==
  ASSUME NEW p, NEW q, NEW r, Moves(p, q), Moves(q, r)
  PROVE  Moves(p, r)
  BY DEF Moves

LEMMA MovesNot ==
  ASSUME NEW p
  PROVE  Moves(p, p)
  BY DEF Moves

LEMMA RelayField ==
  ASSUME NEW p, PoolOK(p), NEW sid \in Sids
  PROVE  /\ p.relay[sid] \in RelayRecs
         /\ p.relay[sid].peer \in Sids
         /\ p.relay[sid].s \in Conns \cup {None}
         /\ p.relay[sid].buf \in Seq(Items)
         /\ p.relay[sid].x2 \in Int
         /\ p.relay[sid].s # None => p.relay[sid].s \in Conns
  BY DEF PoolOK, Pools, RelayRecs

LEMMA ConnField ==
  ASSUME NEW k \in [Conns -> ConnRecs], NEW c \in Conns
  PROVE  /\ k[c] \in ConnRecs
         /\ k[c].in \in Seq(Items) /\ k[c].out \in Seq(Items) /\ k[c].got \in Seq(Items)
         /\ Len(k[c].out) \in Nat /\ Len(k[c].in) \in Nat
  <1>1. k[c] \in ConnRecs
    OBVIOUS
  <1>2. k[c].in \in Seq(Items) /\ k[c].out \in Seq(Items) /\ k[c].got \in Seq(Items)
    BY <1>1 DEF ConnRecs
  <1> QED
    BY <1>1, <1>2, LenProperties

\* What is left of a connection when the library closes its end.
Closed(w, v) ==
  /\ w.link = "closed" /\ w.out = v.out /\ w.got = v.got /\ w.said = v.said
  /\ w.sid = v.sid /\ w.by = v.by /\ w.n = v.n /\ w.late = v.late

LEMMA ShutKeeps ==
  ASSUME NEW k \in [Conns -> ConnRecs], NEW c \in Conns, RoomKept(k)
  PROVE  /\ Shut(k, c) \in [Conns -> ConnRecs]
         /\ RoomKept(Shut(k, c))
         /\ Shut(k, c)[c].link = "closed"
         /\ \A d \in Conns : d # c => Shut(k, c)[d] = k[d]
         /\ Closed(Shut(k, c)[c], k[c])
  <1>1. k[c] \in ConnRecs /\ <<>> \in Seq(Items)
    BY EmptySeq
  <1>2. /\ \A d \in Conns : d # c => Shut(k, c)[d] = k[d]
        /\ Shut(k, c)[c] = [k[c] EXCEPT !.link = "closed", !.in = <<>>,
                              !.end = IF @ = "open" THEN @ ELSE "fin"]
        /\ DOMAIN Shut(k, c) = Conns
    BY DEF Shut
  <1>3. Shut(k, c)[c] \in ConnRecs /\ Shut(k, c)[c].link = "closed"
        /\ Shut(k, c)[c].out = k[c].out /\ Closed(Shut(k, c)[c], k[c])
    BY <1>1, <1>2 DEF ConnRecs, Closed
  <1>4. Shut(k, c) \in [Conns -> ConnRecs]
    BY <1>2, <1>3 DEF Shut
  <1> QED
    BY <1>2, <1>3, <1>4 DEF RoomKept

\* Some of the relays that wait are marked as shut, and nothing else changes.
Marked(p, q, M) ==
  /\ q.conn = p.conn /\ q.hash = p.hash
  /\ \A x \in Sids :
       /\ q.relay[x].s = p.relay[x].s /\ q.relay[x].status = p.relay[x].status
       /\ q.relay[x].peer = p.relay[x].peer /\ q.relay[x].ask = p.relay[x].ask
       /\ q.relay[x].buf = p.relay[x].buf /\ q.relay[x].x2 = p.relay[x].x2
       /\ x \in p.hash => (q.relay[x].over <=> p.relay[x].over \/ x \in M)

\* nioshutrelay of a relay without a socket changes nothing but over.
LEMMA ShutUnused ==
  ASSUME NEW p, PoolOK(p), NEW sid \in Sids, p.relay[sid].s = None
  PROVE  PoolOK(ShutRelay(p, sid)) /\ Moves(p, ShutRelay(p, sid)) /\ Marked(p, ShutRelay(p, sid), {sid})
  <1> DEFINE r == p.relay[sid]
             q == ShutRelay(p, sid)
  <1>1. q = [p EXCEPT !.relay[sid].over = r.status = "wait"]
    BY DEF ShutRelay
  <1>2. p \in Pools
    BY DEF PoolOK
  <1>3. /\ q.cache = p.cache /\ q.hash = p.hash /\ q.conn = p.conn
        /\ q.relay = [p.relay EXCEPT ![sid].over = r.status = "wait"]
        /\ q = [relay |-> q.relay, cache |-> q.cache, hash |-> q.hash, conn |-> q.conn]
    BY <1>1, <1>2 DEF Pools
  <1>4. r \in RelayRecs
    BY RelayField
  <1>5. (r.status = "wait") \in BOOLEAN
    BY Zenon
  <1>6. [r EXCEPT !.over = r.status = "wait"] \in RelayRecs
    BY <1>4, <1>5 DEF RelayRecs
  <1>7. q.relay \in [Sids -> RelayRecs]
    BY <1>2, <1>3, <1>6 DEF Pools
  <1>8. q \in Pools
    BY <1>2, <1>3, <1>7 DEF Pools
  <1>9. \A x \in Sids : /\ q.relay[x].s = p.relay[x].s /\ q.relay[x].buf = p.relay[x].buf
                        /\ q.relay[x].x2 = p.relay[x].x2 /\ q.relay[x].status = p.relay[x].status
    BY <1>2, <1>3, <1>4 DEF Pools, RelayRecs
  <1>10. PoolOK(q)
    BY <1>3, <1>8, <1>9 DEF PoolOK
  <1>11. Moves(p, q)
    BY <1>3, <1>9 DEF Moves, HeldByRelay
  <1>12. Marked(p, q, {sid})
    <2>1. \A x \in Sids : x # sid => q.relay[x] = p.relay[x]
      BY <1>2, <1>3 DEF Pools
    <2>2. /\ q.relay[sid].peer = r.peer /\ q.relay[sid].ask = r.ask
          /\ r.status = "wait" => q.relay[sid].over
      <3>1. PICK o \in BOOLEAN : o = (r.status = "wait")
        BY <1>5
      <3>2. q.relay[sid] = [r EXCEPT !.over = o]
        BY <1>2, <1>3, <3>1 DEF Pools
      <3>3. q.relay[sid].peer = r.peer /\ q.relay[sid].ask = r.ask /\ q.relay[sid].over = o
        BY <3>2, <1>4 DEF RelayRecs
      <3> QED
        BY <3>1, <3>3
    <2>3. sid \in p.hash => r.status = "wait"
      BY DEF PoolOK
    <2> QED
      BY <1>3, <1>9, <2>1, <2>2, <2>3 DEF Marked
  <1> QED
    BY <1>10, <1>11, <1>12

LEMMA AppendOnce ==
  ASSUME NEW S, NEW s \in Seq(S), NEW e \in S
  PROVE  /\ Append(s, e) \in Seq(S)
         /\ \A x : On(Append(s, e), x) <=> On(s, x) \/ x = e
         /\ NoneTwice(s) /\ ~On(s, e) => NoneTwice(Append(s, e))
  <1>1. PICK n \in Nat : n = Len(s)
    BY LenProperties
  <1>2. PICK t : t = Append(s, e)
    OBVIOUS
  <1>3. t \in Seq(S) /\ Len(t) = n + 1 /\ t[n + 1] = e /\ \A i \in 1 .. n : t[i] = s[i]
    BY <1>1, <1>2, AppendProperties
  <1>4. \A x : On(t, x) <=> On(s, x) \/ x = e
    BY <1>1, <1>3 DEF On
  <1>5. ASSUME NoneTwice(s), ~On(s, e)
        PROVE  NoneTwice(t)
    BY <1>1, <1>3, <1>5 DEF NoneTwice, On
  <1> QED
    BY <1>2, <1>3, <1>4, <1>5

LEMMA OnConcat ==
  ASSUME NEW S, NEW s \in Seq(S), NEW t \in Seq(S), NEW x
  PROVE  On(s \o t, x) <=> On(s, x) \/ On(t, x)
  <1>1. PICK n \in Nat, m \in Nat : n = Len(s) /\ m = Len(t)
    BY LenProperties
  <1>2. PICK u : u = s \o t
    OBVIOUS
  <1>3. Len(u) = n + m /\ \A i \in 1 .. n + m : u[i] = IF i <= n THEN s[i] ELSE t[i - n]
    BY <1>1, <1>2, ConcatProperties
  <1>4. ASSUME On(u, x)
        PROVE  On(s, x) \/ On(t, x)
    <2>1. PICK i \in 1 .. n + m : u[i] = x
      BY <1>3, <1>4 DEF On
    <2>2. CASE i <= n
      BY <2>1, <2>2, <1>1, <1>3 DEF On
    <2>3. CASE ~(i <= n)
      <3>1. PICK j \in 1 .. m : j = i - n
        <4>1. i - n \in 1 .. m
          BY <2>3, <1>1
        <4> QED
          BY <4>1, Zenon
      <3> QED
        BY <2>1, <2>3, <3>1, <1>1, <1>3 DEF On
    <2> QED
      BY <2>2, <2>3
  <1>5. ASSUME On(s, x)
        PROVE  On(u, x)
    <2>1. PICK i \in 1 .. n : s[i] = x
      BY <1>1, <1>5 DEF On
    <2>2. i \in 1 .. n + m /\ u[i] = x
      BY <2>1, <1>1, <1>3
    <2> QED
      BY <2>2, <1>3 DEF On
  <1>6. ASSUME On(t, x)
        PROVE  On(u, x)
    <2>1. PICK i \in 1 .. m : t[i] = x
      BY <1>1, <1>6 DEF On
    <2>2. PICK j \in 1 .. n + m : j = n + i
      BY <1>1
    <2>3. ~(j <= n) /\ j - n = i
      BY <2>2, <1>1
    <2>4. u[j] = x
      BY <2>1, <2>2, <2>3, <1>3
    <2> QED
      BY <2>4, <1>3 DEF On
  <1> QED
    BY <1>2, <1>4, <1>5, <1>6

LEMMA TailOnce ==
  ASSUME NEW S, NEW s \in Seq(S), s # <<>>
  PROVE  /\ Head(s) \in S /\ Tail(s) \in Seq(S)
         /\ On(s, Head(s))
         /\ NoneTwice(s) => /\ NoneTwice(Tail(s))
                            /\ \A x : On(Tail(s), x) <=> On(s, x) /\ x # Head(s)
  <1>1. PICK n \in Nat : n = Len(s)
    BY LenProperties
  <1>2. PICK t : t = Tail(s)
    OBVIOUS
  <1>3. n >= 1
    BY <1>1, EmptySeq
  <1>4. t \in Seq(S) /\ Len(t) = n - 1 /\ \A i \in 1 .. n - 1 : t[i] = s[i + 1]
    BY <1>1, <1>2, <1>3, HeadTailProperties
  <1>5. Head(s) = s[1] /\ Head(s) \in S
    BY HeadTailProperties, <1>1, <1>3
  <1>6. On(s, Head(s))
    BY <1>1, <1>3, <1>5 DEF On
  <1>7. ASSUME NoneTwice(s)
        PROVE  NoneTwice(t) /\ \A x : On(t, x) <=> On(s, x) /\ x # Head(s)
    <2>1. NoneTwice(t)
      BY <1>1, <1>4, <1>7 DEF NoneTwice
    <2>2. ASSUME NEW x, On(t, x)
          PROVE  On(s, x) /\ x # Head(s)
      <3>1. PICK i \in 1 .. n - 1 : t[i] = x
        BY <2>2, <1>4 DEF On
      <3>2. s[i + 1] = x /\ i + 1 \in 1 .. n /\ i + 1 # 1
        BY <3>1, <1>4
      <3> QED
        BY <3>2, <1>1, <1>3, <1>5, <1>7 DEF On, NoneTwice
    <2>3. ASSUME NEW x, On(s, x), x # Head(s)
          PROVE  On(t, x)
      <3>1. PICK i \in 1 .. n : s[i] = x
        BY <2>3, <1>1 DEF On
      <3>2. i # 1
        BY <3>1, <2>3, <1>5
      <3>3. PICK j \in 1 .. n - 1 : j = i - 1
        BY <3>2, <1>3
      <3>4. t[j] = x
        BY <3>1, <3>3, <1>4
      <3> QED
        BY <3>4, <1>4 DEF On
    <2> QED
      BY <2>1, <2>2, <2>3
  <1> QED
    BY <1>2, <1>4, <1>5, <1>6, <1>7

\* A relay and its connection end.
Ended(p, q, sid) ==
  LET c == p.relay[sid].s
  IN  /\ q.hash = p.hash
      /\ q.relay[sid].status = "idle" /\ q.relay[sid].s = None
      /\ q.relay[sid].peer = p.relay[sid].peer
      /\ q.relay[sid].buf = <<>> /\ q.relay[sid].x2 = 0
      /\ \A x \in Sids : x # sid => q.relay[x] = p.relay[x]
      /\ \A d \in Conns : d # c => q.conn[d] = p.conn[d]
      /\ Closed(q.conn[c], p.conn[c])

\* nioshutrelay of an active relay: the connection is closed, the relay is cached.
LEMMA ShutActive ==
  ASSUME NEW p, PoolOK(p), NEW sid \in Sids, p.relay[sid].s # None
  PROVE  PoolOK(ShutRelay(p, sid)) /\ Moves(p, ShutRelay(p, sid)) /\ Ended(p, ShutRelay(p, sid), sid)
  <1> DEFINE r == p.relay[sid]
  <1>1. PICK q : q = ShutRelay(p, sid)
    OBVIOUS
  <1>0. PICK new : new = [NoRelay(sid) EXCEPT !.peer = r.peer]
    OBVIOUS
  <1>2. p \in Pools /\ r \in RelayRecs /\ r.s \in Conns /\ RoomKept(p.conn)
        /\ p.conn \in [Conns -> ConnRecs]
    BY RelayField DEF PoolOK, Pools
  <1>3. r.status = "active" /\ p.conn[r.s].link = "up" /\ ~On(p.cache, sid)
        /\ sid \notin p.hash
    BY DEF PoolOK
  <1>4. q = [p EXCEPT !.relay[sid] = new, !.cache = Append(@, sid), !.conn = Shut(@, r.s)]
    BY <1>0, <1>1, <1>3 DEF ShutRelay
  <1>5. PICK k : k = Shut(p.conn, r.s)
    OBVIOUS
  <1>6. PICK a : a = Append(p.cache, sid)
    OBVIOUS
  <1>7. /\ q.cache = a /\ q.hash = p.hash /\ q.conn = k
        /\ q.relay = [p.relay EXCEPT ![sid] = new]
        /\ q = [relay |-> q.relay, cache |-> q.cache, hash |-> q.hash, conn |-> q.conn]
    BY <1>2, <1>4, <1>5, <1>6 DEF Pools
  <1>8. /\ k \in [Conns -> ConnRecs] /\ RoomKept(k) /\ k[r.s].link = "closed"
        /\ \A d \in Conns : d # r.s => k[d] = p.conn[d]
        /\ Closed(k[r.s], p.conn[r.s])
    BY <1>2, <1>5, ShutKeeps
  <1>9. a \in Seq(Sids) /\ NoneTwice(a) /\ \A x : On(a, x) <=> On(p.cache, x) \/ x = sid
    BY <1>2, <1>3, <1>6, AppendOnce DEF PoolOK, Pools
  <1>10. /\ new \in RelayRecs /\ new.s = None /\ new.status = "idle" /\ Len(new.buf) = 0 /\ new.x2 = 0
         /\ new.buf = <<>> /\ new.peer = r.peer
    <2>0. PICK ask \in Asks : ask = [by |-> None, n |-> 0]
      BY DEF Asks
    <2>1. new = [status |-> "idle", s |-> None, peer |-> r.peer, buf |-> <<>>, x2 |-> 0,
                 out |-> FALSE, over |-> FALSE, ask |-> ask]
      BY <1>0, <2>0 DEF NoRelay
    <2>2. r.peer \in Sids /\ <<>> \in Seq(Items) /\ Len(<<>>) = 0
      BY RelayField, EmptySeq
    <2> QED
      BY <2>1, <2>2 DEF RelayRecs
  <1>11. q \in Pools
    BY <1>2, <1>7, <1>8, <1>9, <1>10 DEF Pools
  <1>12. q.relay[sid] = new /\ \A x \in Sids : x # sid => q.relay[x] = p.relay[x]
    BY <1>2, <1>7 DEF Pools
  <1>13. \A x \in Sids : x # sid => p.relay[x].s # r.s \/ p.relay[x].s = None
    BY <1>2 DEF PoolOK
  <1>14. \A x \in Sids : x # sid => /\ q.relay[x].s # None => q.conn[q.relay[x].s] = p.conn[p.relay[x].s]
    BY <1>7, <1>8, <1>12, <1>13, RelayField
  <1>15. L >= 0
    BY NioRelayAssumption
  <1>16. PoolOK(q)
    <2>1. ASSUME NEW x \in Sids
          PROVE  /\ Len(q.relay[x].buf) <= L /\ q.relay[x].x2 <= Len(q.relay[x].buf)
                 /\ q.relay[x].status = "active" <=> q.relay[x].s # None
                 /\ q.relay[x].s # None => q.conn[q.relay[x].s].link = "up"
                 /\ On(q.cache, x) <=> q.relay[x].status # "active"
                 /\ x \in q.hash => q.relay[x].status = "wait"
      <3>1. CASE x = sid
        BY <3>1, <1>3, <1>7, <1>9, <1>10, <1>12, <1>15
      <3>2. CASE x # sid
        BY <3>2, <1>3, <1>7, <1>9, <1>12, <1>14 DEF PoolOK
      <3> QED
        BY <3>1, <3>2
    <2>2. \A r1, r2 \in Sids : q.relay[r1].s = q.relay[r2].s /\ q.relay[r1].s # None => r1 = r2
      BY <1>10, <1>12 DEF PoolOK
    <2> QED
      BY <2>1, <2>2, <1>7, <1>8, <1>9, <1>11 DEF PoolOK
  <1>17. Moves(p, q)
    <2>1. \A c \in Conns : HeldByRelay(q, c) <=> HeldByRelay(p, c) /\ c # r.s
      BY <1>2, <1>10, <1>12, <1>13, RelayNetAssumption DEF HeldByRelay
    <2>2. HeldByRelay(p, r.s)
      BY DEF HeldByRelay
    <2> QED
      BY <2>1, <2>2, <1>2, <1>7, <1>8 DEF Moves
  <1>18. Ended(p, q, sid)
    BY <1>7, <1>8, <1>10, <1>12 DEF Ended
  <1> QED
    BY <1>1, <1>16, <1>17, <1>18

LEMMA ShutRelayKeeps ==
  ASSUME NEW p, PoolOK(p), NEW sid \in Sids
  PROVE  PoolOK(ShutRelay(p, sid)) /\ Moves(p, ShutRelay(p, sid))
  BY ShutUnused, ShutActive

LEMMA ShutBothKeeps ==
  ASSUME NEW p, PoolOK(p), NEW sid \in Sids
  PROVE  PoolOK(ShutBoth(p, sid)) /\ Moves(p, ShutBoth(p, sid))
  <1>1. PICK q : q = ShutRelay(p, sid)
    OBVIOUS
  <1>2. PoolOK(q) /\ Moves(p, q)
    BY <1>1, ShutRelayKeeps
  <1>3. p.relay[sid].peer \in Sids
    BY RelayField
  <1>4. PoolOK(ShutRelay(q, p.relay[sid].peer)) /\ Moves(q, ShutRelay(q, p.relay[sid].peer))
    BY <1>2, <1>3, ShutRelayKeeps
  <1> QED
    BY <1>1, <1>2, <1>4, MovesOn DEF ShutBoth

-----------------------------------------------------------------------------
\* Writing and reading.

LEMMA MinOfTwo ==
  ASSUME NEW x \in Int, NEW y \in Int
  PROVE  Min({x, y}) \in {x, y} /\ Min({x, y}) <= x /\ Min({x, y}) <= y
  BY DEF Min

LEMMA StrayIsItem == stray \in Items
  BY DEF stray, Item, Items

LEMMA UnwrittenIs ==
  ASSUME NEW r \in RelayRecs, r.x2 <= Len(r.buf)
  PROVE  /\ Unwritten(r) \in Seq(Items)
         /\ Len(Unwritten(r)) = Len(r.buf) - r.x2
         /\ \A i \in 1 .. Len(r.buf) - r.x2 :
              r.x2 >= 0 => Unwritten(r)[i] = r.buf[r.x2 + i]
  <1>1. r.buf \in Seq(Items) /\ r.x2 \in Int
    BY DEF RelayRecs
  <1>2. PICK n \in Nat : n = Len(r.buf)
    BY <1>1, LenProperties
  <1>3. \A j \in 1 .. n : r.buf[j] \in Items
    BY <1>1, <1>2, ElementOfSeq
  <1>4. n - r.x2 \in Nat
    BY <1>1, <1>2
  <1>5. PICK m \in Nat : m = n - r.x2
    BY <1>4
  <1>6. Unwritten(r) = [i \in 1 .. m |-> IF r.x2 + i \in 1 .. n THEN r.buf[r.x2 + i] ELSE stray]
    BY <1>2, <1>5 DEF Unwritten
  <1>7. Unwritten(r) \in Seq(Items) /\ Len(Unwritten(r)) = m
    <2>1. \A i \in 1 .. m : (IF r.x2 + i \in 1 .. n THEN r.buf[r.x2 + i] ELSE stray) \in Items
      BY <1>3, StrayIsItem
    <2> QED
      BY <2>1, <1>5, <1>6, SMTT(30)
  <1>8. \A i \in 1 .. m : r.x2 >= 0 => Unwritten(r)[i] = r.buf[r.x2 + i]
    BY <1>1, <1>5, <1>6
  <1> QED
    BY <1>2, <1>5, <1>7, <1>8

Fits(k, c, items) == k[c].end = "open" => Len(items) <= Room - Len(k[c].out)

\* What a write leaves of a connection: all but what is to be read at the other end,
\* which gets the items if it is open.
SameSide(w, v) ==
  /\ w.link = v.link /\ w.in = v.in /\ w.sid = v.sid /\ w.by = v.by /\ w.n = v.n
  /\ w.late = v.late /\ w.said = v.said /\ w.got = v.got

Gets(w, v, items) ==
  /\ SameSide(w, v)
  /\ v.end = "open" => w.end = "open" /\ w.out = v.out \o items
  /\ v.end # "open" => w.end # "open" /\ w.out = v.out

LEMMA WrittenKeeps ==
  ASSUME NEW k \in [Conns -> ConnRecs], RoomKept(k), NEW c \in Conns, NEW items \in Seq(Items),
         Fits(k, c, items), NEW w, w = Written(k, c, items)
  PROVE  /\ w \in [Conns -> ConnRecs]
         /\ RoomKept(w)
         /\ \A d \in Conns : d # c => w[d] = k[d]
         /\ w[c].link = k[c].link
         /\ Gets(w[c], k[c], items)
  <1>1. w = Written(k, c, items)
    OBVIOUS
  <1>2. k[c] \in ConnRecs /\ k[c].out \in Seq(Items) /\ Len(k[c].out) \in Nat /\ Len(items) \in Nat
    BY ConnField, LenProperties
  <1>3. CASE k[c].end = "open"
    <2>1. PICK o : o = k[c].out \o items
      OBVIOUS
    <2>2. o \in Seq(Items) /\ Len(o) = Len(k[c].out) + Len(items)
      BY <2>1, <1>2, ConcatProperties
    <2>3. w = [k EXCEPT ![c].out = o]
      BY <1>1, <1>3, <2>1 DEF Written
    <2>4. [k[c] EXCEPT !.out = o] \in ConnRecs /\ [k[c] EXCEPT !.out = o].out = o
          /\ [k[c] EXCEPT !.out = o].link = k[c].link
          /\ SameSide([k[c] EXCEPT !.out = o], k[c]) /\ [k[c] EXCEPT !.out = o].end = "open"
      BY <1>2, <1>3, <2>2 DEF ConnRecs, SameSide
    <2>5. w[c] = [k[c] EXCEPT !.out = o] /\ \A d \in Conns : d # c => w[d] = k[d]
      BY <2>3
    <2>6. w \in [Conns -> ConnRecs]
      BY <2>3, <2>4
    <2>7. Len(o) <= Room
      BY <1>2, <1>3, <2>2, RelayNetAssumption DEF Fits
    <2>8. RoomKept(w)
      BY <2>4, <2>5, <2>7 DEF RoomKept
    <2>9. Gets(w[c], k[c], items)
      BY <1>3, <2>1, <2>4, <2>5 DEF Gets
    <2> QED
      BY <1>1, <1>3, <2>1, <2>4, <2>5, <2>6, <2>8, <2>9
  <1>4. CASE k[c].end # "open"
    <2>3. w = [k EXCEPT ![c].end = "rst"]
      BY <1>1, <1>4 DEF Written
    <2>4. [k[c] EXCEPT !.end = "rst"] \in ConnRecs /\ [k[c] EXCEPT !.end = "rst"].out = k[c].out
          /\ [k[c] EXCEPT !.end = "rst"].link = k[c].link
          /\ SameSide([k[c] EXCEPT !.end = "rst"], k[c]) /\ [k[c] EXCEPT !.end = "rst"].end = "rst"
      BY <1>2 DEF ConnRecs, SameSide
    <2>5. w[c] = [k[c] EXCEPT !.end = "rst"] /\ \A d \in Conns : d # c => w[d] = k[d]
      BY <2>3
    <2>6. w \in [Conns -> ConnRecs]
      BY <2>3, <2>4
    <2>8. RoomKept(w)
      BY <2>4, <2>5 DEF RoomKept
    <2>9. Gets(w[c], k[c], items)
      BY <1>4, <2>4, <2>5 DEF Gets
    <2> QED
      BY <1>1, <1>4, <2>4, <2>5, <2>6, <2>8, <2>9
  <1> QED
    BY <1>3, <1>4

\* Handlers that only move bytes: statuses, sockets, lists stay.
SameShape(p, q) ==
  /\ q \in Pools
  /\ q.cache = p.cache /\ q.hash = p.hash
  /\ \A x \in Sids :
       /\ q.relay[x].s = p.relay[x].s
       /\ q.relay[x].status = p.relay[x].status
       /\ Len(q.relay[x].buf) <= L /\ q.relay[x].x2 <= Len(q.relay[x].buf)
  /\ RoomKept(q.conn)
  /\ \A c \in Conns : q.conn[c].link = p.conn[c].link
  /\ \A c \in Conns : ~HeldByRelay(p, c) => q.conn[c] = p.conn[c]

LEMMA ShapeKeeps ==
  ASSUME NEW p, PoolOK(p), NEW q, SameShape(p, q)
  PROVE  PoolOK(q) /\ Moves(p, q)
  <1>1. \A x \in Sids : q.relay[x].s # None => q.conn[q.relay[x].s].link = p.conn[p.relay[x].s].link
    BY RelayField DEF SameShape
  <1>2. PoolOK(q)
    BY <1>1 DEF SameShape, PoolOK
  <1>3. Moves(p, q)
    BY DEF SameShape, Moves, HeldByRelay
  <1> QED
    BY <1>2, <1>3

\* What a relay is, but for its buffer and EPOLLOUT.
SameLink(r, w) ==
  r.s = w.s /\ r.status = w.status /\ r.peer = w.peer /\ r.over = w.over /\ r.ask = w.ask

SameBuffer(r, w) == r.buf = w.buf /\ r.x2 = w.x2

Changed(p, q, sid, new, k) ==
  /\ q.cache = p.cache /\ q.hash = p.hash /\ q.conn = k /\ q.relay[sid] = new
  /\ \A x \in Sids : x # sid => /\ SameLink(q.relay[x], p.relay[x])
                                /\ SameBuffer(q.relay[x], p.relay[x])

\* The change of one relay's buffer and of another's EPOLLOUT.
LEMMA RelayChange ==
  ASSUME NEW p, PoolOK(p), NEW sid \in Sids, NEW new \in RelayRecs,
         new.s = p.relay[sid].s, new.status = p.relay[sid].status,
         Len(new.buf) <= L, new.x2 <= Len(new.buf),
         NEW peer \in Sids, NEW out \in BOOLEAN,
         NEW k \in [Conns -> ConnRecs], RoomKept(k),
         \A c \in Conns : k[c].link = p.conn[c].link,
         \A c \in Conns : ~HeldByRelay(p, c) => k[c] = p.conn[c],
         NEW q, q = [p EXCEPT !.relay[peer].out = out, !.relay[sid] = new, !.conn = k]
  PROVE  PoolOK(q) /\ Moves(p, q) /\ Changed(p, q, sid, new, k)
  <1>1. p \in Pools /\ p.relay[peer] \in RelayRecs
    BY RelayField DEF PoolOK
  <1>2. PICK w : w = [p.relay[peer] EXCEPT !.out = out]
    OBVIOUS
  <1>3. w \in RelayRecs /\ w.s = p.relay[peer].s /\ w.status = p.relay[peer].status
        /\ w.buf = p.relay[peer].buf /\ w.x2 = p.relay[peer].x2
        /\ SameLink(w, p.relay[peer])
    BY <1>1, <1>2 DEF RelayRecs, SameLink
  <1>4. /\ q.cache = p.cache /\ q.hash = p.hash /\ q.conn = k
        /\ q.relay = [[p.relay EXCEPT ![peer] = w] EXCEPT ![sid] = new]
        /\ q = [relay |-> q.relay, cache |-> q.cache, hash |-> q.hash, conn |-> q.conn]
    BY <1>1, <1>2 DEF Pools
  <1>5. q.relay \in [Sids -> RelayRecs]
    BY <1>1, <1>3, <1>4 DEF Pools
  <1>6. q \in Pools
    BY <1>1, <1>4, <1>5 DEF Pools
  <1>7. \A x \in Sids : q.relay[x] = IF x = sid THEN new ELSE IF x = peer THEN w ELSE p.relay[x]
    BY <1>1, <1>4 DEF Pools
  <1>8. SameShape(p, q)
    BY <1>3, <1>4, <1>6, <1>7 DEF SameShape, PoolOK
  <1>9. Changed(p, q, sid, new, k)
    BY <1>3, <1>4, <1>7 DEF Changed, SameLink, SameBuffer
  <1> QED
    BY <1>8, <1>9, ShapeKeeps

LEMMA AdvancedIs ==
  ASSUME NEW r \in RelayRecs, r.x2 <= Len(r.buf), Len(r.buf) <= L,
         NEW cc \in Int, r.x2 + cc <= Len(r.buf)
  PROVE  /\ Advanced(r, cc) \in RelayRecs
         /\ Advanced(r, cc).s = r.s /\ Advanced(r, cc).status = r.status
         /\ Advanced(r, cc).peer = r.peer /\ Advanced(r, cc).over = r.over
         /\ Advanced(r, cc).ask = r.ask
         /\ Advanced(r, cc).x2 <= Len(Advanced(r, cc).buf)
         /\ Len(Advanced(r, cc).buf) <= L
         /\ r.x2 + cc = Len(r.buf) => Advanced(r, cc).buf = <<>> /\ Advanced(r, cc).x2 = 0
         /\ r.x2 + cc # Len(r.buf) => Advanced(r, cc).buf = r.buf /\ Advanced(r, cc).x2 = r.x2 + cc
  <1>1. r.buf \in Seq(Items) /\ r.x2 \in Int /\ <<>> \in Seq(Items) /\ Len(<<>>) = 0 /\ L >= 0
    BY EmptySeq, NioRelayAssumption DEF RelayRecs
  <1>2. CASE r.x2 + cc = Len(r.buf)
    <2>1. PICK e \in Seq(Items) : e = <<>> /\ Len(e) = 0
      BY <1>1
    <2>2. Advanced(r, cc) = [r EXCEPT !.buf = e, !.x2 = 0]
      BY <1>2, <2>1 DEF Advanced
    <2>3. PICK a : a = Advanced(r, cc)
      OBVIOUS
    <2>4. a \in RelayRecs /\ a.buf = e /\ a.x2 = 0 /\ a.s = r.s /\ a.status = r.status
          /\ a.peer = r.peer /\ a.over = r.over /\ a.ask = r.ask
      <3>1. a = [status |-> r.status, s |-> r.s, peer |-> r.peer, buf |-> e, x2 |-> 0,
                 out |-> r.out, over |-> r.over, ask |-> r.ask]
        BY <2>1, <2>2, <2>3 DEF RelayRecs
      <3> QED
        BY <2>1, <3>1 DEF RelayRecs
    <2> QED
      BY <1>1, <1>2, <2>1, <2>3, <2>4
  <1>3. CASE r.x2 + cc # Len(r.buf)
    <2>1. PICK x \in Int : x = r.x2 + cc
      BY <1>1
    <2>2. Advanced(r, cc) = [r EXCEPT !.x2 = x]
      BY <1>3, <2>1 DEF Advanced
    <2> QED
      BY <1>3, <2>1, <2>2 DEF RelayRecs
  <1> QED
    BY <1>2, <1>3

LEMMA PrefixIs ==
  ASSUME NEW S, NEW s \in Seq(S), NEW n \in 0 .. Len(s)
  PROVE  /\ SubSeq(s, 1, n) \in Seq(S) /\ Len(SubSeq(s, 1, n)) = n
         /\ SubSeq(s, n + 1, Len(s)) \in Seq(S) /\ Len(SubSeq(s, n + 1, Len(s))) = Len(s) - n
  <1>1. PICK m \in Nat : m = Len(s)
    BY LenProperties
  <1>2. \A i \in 1 .. m : s[i] \in S
    BY <1>1, ElementOfSeq
  <1>3. SubSeq(s, 1, n) \in Seq(S) /\ Len(SubSeq(s, 1, n)) = n
    BY <1>1, <1>2, SubSeqProperties
  <1>4. SubSeq(s, n + 1, m) \in Seq(S) /\ Len(SubSeq(s, n + 1, m)) = m - n
    BY <1>1, <1>2, SubSeqProperties
  <1> QED
    BY <1>1, <1>3, <1>4

LEMMA Halves ==
  ASSUME NEW S, NEW s \in Seq(S), NEW n \in 0 .. Len(s)
  PROVE  s = SubSeq(s, 1, n) \o SubSeq(s, n + 1, Len(s))
  <1>1. PICK m \in Nat : m = Len(s)
    BY LenProperties
  <1>2. 1 \in 1 .. m + 1 /\ n \in 1 - 1 .. m /\ m \in n .. m
    BY <1>1
  <1>3. SubSeq(s, 1, n) \o SubSeq(s, n + 1, m) = SubSeq(s, 1, m)
    BY <1>1, <1>2, ConcatAdjacentSubSeq
  <1> QED
    BY <1>1, <1>3, SubSeqFull

\* What is left after some bytes of the buffer are written.
LEMMA UnwrittenRest ==
  ASSUME NEW r \in RelayRecs, r.x2 <= Len(r.buf), Len(r.buf) <= L,
         NEW todo \in Seq(Items), todo = Unwritten(r), NEW m \in 0 .. Len(todo)
  PROVE  Unwritten(Advanced(r, m)) = SubSeq(todo, m + 1, Len(todo))
  <1>1. PICK n \in Nat : n = Len(r.buf)
    BY LenProperties DEF RelayRecs
  <1>2. PICK x \in Int : x = r.x2
    BY DEF RelayRecs
  <1>3. PICK u \in Nat : u = n - x
    BY <1>1, <1>2
  <1>4. Len(todo) = u /\ m \in 0 .. u
    BY <1>1, <1>2, <1>3, UnwrittenIs
  <1>5. PICK a : a = Advanced(r, m)
    OBVIOUS
  <1>6. /\ a \in RelayRecs /\ a.x2 <= Len(a.buf)
        /\ x + m = n => a.buf = <<>> /\ a.x2 = 0
        /\ x + m # n => a.buf = r.buf /\ a.x2 = x + m
    <2>1. m \in Int /\ r.x2 + m <= Len(r.buf)
      BY <1>1, <1>2, <1>3, <1>4
    <2> QED
      BY <2>1, <1>1, <1>2, <1>5, AdvancedIs
  <1>7. PICK rest : rest = SubSeq(todo, m + 1, u)
    OBVIOUS
  <1>8. rest \in Seq(Items) /\ Len(rest) = u - m
    BY <1>4, <1>7, PrefixIs
  <1>9. PICK v : v = Unwritten(a)
    OBVIOUS
  <1>10. v \in Seq(Items) /\ Len(v) = Len(a.buf) - a.x2
    BY <1>6, <1>9, UnwrittenIs
  <1>11. CASE x + m = n
    <2>1. m = u
      BY <1>3, <1>4, <1>11
    <2>2. Len(v) = 0 /\ Len(rest) = 0
      BY <2>1, <1>6, <1>8, <1>10, <1>11, EmptySeq
    <2>3. v = <<>> /\ rest = <<>>
      BY <2>2, <1>8, <1>10, EmptySeq
    <2> QED
      BY <2>3, <1>4, <1>5, <1>7, <1>9
  <1>12. CASE x + m # n
    <2>1. Len(v) = u - m
      <3>1. Len(a.buf) = n /\ a.x2 = x + m /\ n - (x + m) = u - m
        BY <1>1, <1>3, <1>4, <1>6, <1>12
      <3> QED
        BY <3>1, <1>10
    <2>2. \A i \in 1 .. u : todo[i] = IF x + i \in 1 .. n THEN r.buf[x + i] ELSE stray
      BY <1>1, <1>2, <1>3 DEF Unwritten
    <2>3. \A i \in 1 .. u - m : v[i] = IF x + m + i \in 1 .. n THEN r.buf[x + m + i] ELSE stray
      <3>1. a.buf = r.buf /\ a.x2 = x + m /\ n - (x + m) = u - m
        BY <1>3, <1>4, <1>6, <1>12
      <3> QED
        BY <3>1, <1>1, <1>9 DEF Unwritten
    <2>4. \A i \in 1 .. u - m : rest[i] = todo[m + i]
      <3>1. PICK k \in Int : k = m + 1
        BY <1>4
      <3>2. \A i \in k .. u : todo[i] \in Items
        BY <3>1, <1>4, ElementOfSeq
      <3>3. \A i \in 1 .. u - k + 1 : SubSeq(todo, k, u)[i] = todo[k + i - 1]
        BY <3>2, <1>3, SubSeqProperties
      <3>4. ASSUME NEW i \in 1 .. u - m
            PROVE  rest[i] = todo[m + i]
        <4>1. i \in 1 .. u - k + 1 /\ k + i - 1 = m + i
          BY <3>1, <1>4
        <4> QED
          BY <3>1, <3>3, <4>1, <1>7
      <3> QED
        BY <3>4
    <2>5. ASSUME NEW i \in 1 .. u - m
          PROVE  v[i] = rest[i]
      <3>1. PICK j \in 1 .. u : j = m + i
        BY <1>4
      <3>2. todo[j] = IF x + j \in 1 .. n THEN r.buf[x + j] ELSE stray
        BY <2>2
      <3>3. x + j = x + m + i
        BY <3>1, <1>4
      <3> QED
        BY <2>3, <2>4, <3>1, <3>2, <3>3
    <2>6. v = rest
      BY <2>1, <2>5, <1>8, <1>10, SeqEqual
    <2> QED
      BY <2>6, <1>4, <1>5, <1>7, <1>9
  <1> QED
    BY <1>11, <1>12

\* nioflush2peer of r's buffer to the connection c: its four ways.
LEMMA FlushNobody ==
  ASSUME NEW p, NEW sid, p.relay[p.relay[sid].peer].s = None
  PROVE  Flush(p, sid) = p
  BY Zenon DEF Flush, FlushFails

LEMMA FlushNothing ==
  ASSUME NEW p, NEW sid, p.relay[p.relay[sid].peer].s # None, p.relay[sid].buf = <<>>
  PROVE  Flush(p, sid) = [p EXCEPT !.relay[p.relay[sid].peer].out = FALSE]
  BY Zenon DEF Flush, FlushFails

LEMMA FlushFailing ==
  ASSUME NEW p, NEW sid, FlushFails(p, sid)
  PROVE  Flush(p, sid) = [[p EXCEPT !.relay[p.relay[sid].peer].out = TRUE]
                            EXCEPT !.relay[sid] = Advanced(@, -1)]
  BY Zenon DEF Flush, FlushFails

\* What the relay's buffer loses, the peer's connection gets if it is open.
Handed(r, w, v, u) ==
  /\ SameSide(u, v)
  /\ v.end # "open" => u.end # "open" /\ u.out = v.out
  /\ v.end = "open" => /\ u.end = "open"
                       /\ \E one \in Seq(Items) : /\ u.out = v.out \o one
                                                  /\ Unwritten(r) = one \o Unwritten(w)

Flushed(p, q, sid, c) ==
  /\ q.cache = p.cache /\ q.hash = p.hash
  /\ \A x \in Sids : /\ SameLink(q.relay[x], p.relay[x])
                     /\ x # sid => SameBuffer(q.relay[x], p.relay[x])
  /\ \A d \in Conns : d # c => q.conn[d] = p.conn[d]
  /\ \/ q.conn = p.conn /\ SameBuffer(q.relay[sid], p.relay[sid])
     \/ /\ c \in Conns /\ p.relay[sid].buf # <<>>
        /\ Handed(p.relay[sid], q.relay[sid], p.conn[c], q.conn[c])

LEMMA FlushKeeps ==
  ASSUME NEW p, PoolOK(p), NEW sid \in Sids
  PROVE  /\ PoolOK(Flush(p, sid)) /\ Moves(p, Flush(p, sid))
         /\ Flushed(p, Flush(p, sid), sid, p.relay[p.relay[sid].peer].s)
  <1>1. PICK q : q = Flush(p, sid)
    OBVIOUS
  <1>a. PICK r : r = p.relay[sid]
    OBVIOUS
  <1>b. PICK peer : peer = r.peer
    OBVIOUS
  <1>c. PICK c : c = p.relay[peer].s
    OBVIOUS
  <1>2. /\ p \in Pools /\ r \in RelayRecs /\ peer \in Sids /\ p.relay[peer] \in RelayRecs
        /\ p.relay \in [Sids -> RelayRecs] /\ p.conn \in [Conns -> ConnRecs]
        /\ RoomKept(p.conn) /\ Len(r.buf) <= L /\ r.x2 <= Len(r.buf)
        /\ r.buf \in Seq(Items) /\ r.x2 \in Int /\ Len(r.buf) \in Nat
    BY <1>a, <1>b, RelayField, LenProperties DEF PoolOK, Pools
  <1>d. c = p.relay[p.relay[sid].peer].s
    BY <1>a, <1>b, <1>c
  <1>3. CASE c = None
    <2>1. q = p
      BY <1>1, <1>3, <1>a, <1>b, <1>c, FlushNobody
    <2>2. Flushed(p, p, sid, c)
      BY DEF Flushed, SameLink, SameBuffer
    <2> QED
      BY <1>1, <1>d, <2>1, <2>2, MovesNot
  <1>4. CASE c # None /\ r.buf = <<>>
    <2>1. q = [p EXCEPT !.relay[peer].out = FALSE]
      BY <1>1, <1>4, <1>a, <1>b, <1>c, FlushNothing
    <2>2. PICK new \in RelayRecs : new = [p.relay[peer] EXCEPT !.out = FALSE]
      BY <1>2 DEF RelayRecs
    <2>3. q = [p EXCEPT !.relay[peer].out = FALSE, !.relay[peer] = new, !.conn = p.conn]
      BY <2>1, <2>2, <1>2 DEF Pools
    <2>4. new.s = p.relay[peer].s /\ new.status = p.relay[peer].status
          /\ new.buf = p.relay[peer].buf /\ new.x2 = p.relay[peer].x2
      BY <1>2, <2>2 DEF RelayRecs
    <2>5. Len(new.buf) <= L /\ new.x2 <= Len(new.buf)
      BY <1>2, <2>4 DEF PoolOK
    <2>6. PoolOK(q) /\ Moves(p, q) /\ Changed(p, q, peer, new, p.conn)
      BY <1>2, <2>3, <2>4, <2>5, RelayChange
    <2>7. SameLink(new, p.relay[peer]) /\ SameBuffer(new, p.relay[peer])
      BY <1>2, <2>2 DEF RelayRecs, SameLink, SameBuffer
    <2>8. Flushed(p, q, sid, c)
      BY <2>6, <2>7 DEF Flushed, Changed, SameBuffer
    <2> QED
      BY <1>1, <1>d, <2>6, <2>8
  <1>5. CASE FlushFails(p, sid)
    <2>1. q = [[p EXCEPT !.relay[peer].out = TRUE] EXCEPT !.relay[sid] = Advanced(@, -1)]
      <3>1. q = [[p EXCEPT !.relay[p.relay[sid].peer].out = TRUE]
                   EXCEPT !.relay[sid] = Advanced(@, -1)]
        BY <1>1, <1>5, FlushFailing
      <3> QED
        BY <3>1, <1>a, <1>b, Zenon
    <2>2. PICK w : w = IF sid = peer THEN [r EXCEPT !.out = TRUE] ELSE r
      OBVIOUS
    <2>3. w \in RelayRecs /\ w.buf = r.buf /\ w.x2 = r.x2 /\ w.s = r.s /\ w.status = r.status
      BY <1>2, <2>2 DEF RelayRecs
    <2>4. PICK new : new = Advanced(w, -1)
      OBVIOUS
    <2>5. /\ new \in RelayRecs /\ new.s = r.s /\ new.status = r.status
          /\ Len(new.buf) <= L /\ new.x2 <= Len(new.buf)
      BY <1>2, <2>3, <2>4, AdvancedIs
    <2>6. q = [p EXCEPT !.relay[peer].out = TRUE, !.relay[sid] = new, !.conn = p.conn]
      BY <1>2, <1>a, <2>1, <2>2, <2>4 DEF Pools
    <2>7. PoolOK(q) /\ Moves(p, q) /\ Changed(p, q, sid, new, p.conn)
      BY <1>2, <1>a, <2>5, <2>6, RelayChange
    <2>8. SameLink(new, r)
      <3>1. SameLink(w, r)
        BY <1>2, <2>2 DEF RelayRecs, SameLink
      <3>2. SameLink(new, w)
        BY <1>2, <2>3, <2>4, AdvancedIs DEF SameLink
      <3> QED
        BY <3>1, <3>2 DEF SameLink
    <2>9. c \in Conns /\ r.buf # <<>> /\ p.conn[c].end = "rst"
      <3>1. c # None /\ r.buf # <<>> /\ p.conn[c].end = "rst"
        BY <1>5, <1>a, <1>b, <1>c DEF FlushFails
      <3> QED
        BY <3>1, <1>2, <1>c DEF RelayRecs
    <2>10. Handed(r, new, p.conn[c], q.conn[c])
      BY <2>7, <2>9 DEF Changed, Handed, SameSide
    <2>11. Flushed(p, q, sid, c)
      BY <2>7, <2>8, <2>9, <2>10, <1>a DEF Flushed, Changed
    <2> QED
      BY <1>1, <1>d, <2>7, <2>11
  <1>6. CASE c # None /\ r.buf # <<>> /\ ~FlushFails(p, sid)
    <2>1. c \in Conns /\ p.conn[c] \in ConnRecs /\ Len(p.conn[c].out) \in Nat
      BY <1>2, <1>6, <1>c, ConnField DEF RelayRecs
    <2>2. PICK todo \in Seq(Items) : todo = Unwritten(r) /\ Len(todo) = Len(r.buf) - r.x2
      BY <1>2, UnwrittenIs
    <2>3. PICK m : m = IF p.conn[c].end = "open" THEN Min({Len(todo), Room - Len(p.conn[c].out)})
                                                 ELSE Len(todo)
      OBVIOUS
    <2>4. Len(todo) \in Nat /\ Room - Len(p.conn[c].out) \in Nat
      BY <1>2, <2>1, <2>2, LenProperties, RelayNetAssumption DEF RoomKept
    <2>5. PICK x \in Nat, y \in Nat : x = Len(todo) /\ y = Room - Len(p.conn[c].out)
      BY <2>4
    <2>6. m \in 0 .. x /\ (p.conn[c].end = "open" => m <= y)
      <3>1. Min({x, y}) \in {x, y} /\ Min({x, y}) <= x /\ Min({x, y}) <= y
        <4>1. x \in Int /\ y \in Int
          OBVIOUS
        <4> QED
          BY <4>1, MinOfTwo, Zenon
      <3>2. m = IF p.conn[c].end = "open" THEN Min({x, y}) ELSE x
        BY <2>3, <2>5
      <3> QED
        BY <3>1, <3>2
    <2>7. PICK new : new = Advanced(r, m)
      OBVIOUS
    <2>8. /\ new \in RelayRecs /\ new.s = r.s /\ new.status = r.status
          /\ Len(new.buf) <= L /\ new.x2 <= Len(new.buf)
      <3>1. m \in Int /\ r.x2 + m <= Len(r.buf)
        BY <1>2, <2>2, <2>5, <2>6
      <3> QED
        BY <3>1, <1>2, <2>7, AdvancedIs
    <2>9. PICK items : items = SubSeq(todo, 1, m)
      OBVIOUS
    <2>10. items \in Seq(Items) /\ Len(items) = m
      BY <2>5, <2>6, <2>9, PrefixIs
    <2>11. PICK k : k = Written(p.conn, c, items)
      OBVIOUS
    <2>12. /\ k \in [Conns -> ConnRecs] /\ RoomKept(k)
           /\ \A d \in Conns : d # c => k[d] = p.conn[d]
           /\ k[c].link = p.conn[c].link /\ Gets(k[c], p.conn[c], items)
      <3>1. Fits(p.conn, c, items)
        BY <2>5, <2>6, <2>10 DEF Fits
      <3> QED
        BY <3>1, <1>2, <2>1, <2>10, <2>11, WrittenKeeps
    <2>13. PICK out : out = (m < Len(todo))
      OBVIOUS
    <2>a. out \in BOOLEAN
      BY <2>5, <2>6, <2>13
    <2>14. q = [p EXCEPT !.relay[peer].out = out, !.relay[sid] = new, !.conn = k]
      <3>1. q = [p EXCEPT !.relay[peer].out = m < Len(todo),
                          !.relay[sid] = Advanced(r, m),
                          !.conn = Written(@, c, SubSeq(todo, 1, m))]
        <4>1. c = p.relay[p.relay[sid].peer].s /\ p.relay[sid].buf # <<>>
              /\ todo = Unwritten(p.relay[sid])
          BY <1>6, <1>a, <1>b, <1>c, <2>2
        <4>2. q = [p EXCEPT !.relay[p.relay[sid].peer].out = m < Len(todo),
                            !.relay[sid] = Advanced(p.relay[sid], m),
                            !.conn = Written(@, c, SubSeq(todo, 1, m))]
          <5>1. c # None /\ ~FlushFails(p, sid)
            BY <1>6
          <5> QED
            BY <1>1, <5>1, <4>1, <2>3, Zenon DEF Flush
        <4> QED
          BY <4>2, <1>a, <1>b, Zenon
      <3>2. q = [p EXCEPT !.relay[peer].out = m < Len(todo), !.relay[sid] = Advanced(r, m),
                          !.conn = Written(p.conn, c, SubSeq(todo, 1, m))]
        BY <3>1, <1>2 DEF Pools
      <3> QED
        BY <3>2, <2>7, <2>9, <2>11, <2>13, Zenon
    <2>15. HeldByRelay(p, c)
      BY <1>2, <1>c DEF HeldByRelay
    <2>16. \A d \in Conns : k[d].link = p.conn[d].link
      BY <2>12
    <2>17. \A d \in Conns : ~HeldByRelay(p, d) => k[d] = p.conn[d]
      BY <2>12, <2>15
    <2>18. PoolOK(q) /\ Moves(p, q) /\ Changed(p, q, sid, new, k)
      BY <1>2, <1>a, <2>8, <2>12, <2>a, <2>14, <2>16, <2>17, RelayChange
    <2>19. SameLink(new, r)
      <3>1. m \in Int /\ r.x2 + m <= Len(r.buf)
        BY <1>2, <2>2, <2>5, <2>6
      <3> QED
        BY <3>1, <1>2, <2>7, AdvancedIs DEF SameLink
    <2>20. todo = items \o Unwritten(new)
      <3>1. Unwritten(new) = SubSeq(todo, m + 1, Len(todo))
        BY <1>2, <2>2, <2>5, <2>6, <2>7, UnwrittenRest
      <3> QED
        BY <3>1, <2>5, <2>6, <2>9, Halves
    <2>21. Handed(r, new, p.conn[c], q.conn[c])
      BY <2>2, <2>10, <2>12, <2>18, <2>20 DEF Handed, Gets, Changed
    <2>22. Flushed(p, q, sid, c)
      BY <2>1, <2>12, <2>18, <2>19, <2>21, <1>6, <1>a DEF Flushed, Changed
    <2> QED
      BY <1>1, <1>d, <2>18, <2>22
  <1> QED
    BY <1>3, <1>4, <1>5, <1>6

\* niorelayread, of n bytes.
SameEnds(w, v) ==
  /\ w.link = v.link /\ w.end = v.end /\ w.sid = v.sid /\ w.by = v.by /\ w.n = v.n
  /\ w.late = v.late /\ w.said = v.said /\ w.got = v.got

\* The relay of r has read some bytes of its connection c, and nothing else changes.
WasRead(p, q, sid, r, c) ==
  /\ q.cache = p.cache /\ q.hash = p.hash
  /\ \A x \in Sids : x # sid => q.relay[x] = p.relay[x]
  /\ q.relay[sid].x2 = r.x2 /\ q.relay[sid].s = c /\ q.relay[sid].status = r.status
  /\ q.relay[sid].peer = r.peer /\ q.relay[sid].over = r.over /\ q.relay[sid].ask = r.ask
  /\ \A d \in Conns : d # c => q.conn[d] = p.conn[d]
  /\ SameEnds(q.conn[c], p.conn[c]) /\ q.conn[c].out = p.conn[c].out
  /\ \E n \in 0 .. Len(p.conn[c].in) :
       /\ q.relay[sid].buf = r.buf \o SubSeq(p.conn[c].in, 1, n)
       /\ q.conn[c].in = SubSeq(p.conn[c].in, n + 1, Len(p.conn[c].in))

LEMMA ReadIs ==
  ASSUME NEW p, PoolOK(p), NEW sid \in Sids, NEW r, r = p.relay[sid], NEW c \in Conns, c = r.s,
         NEW q, q = Read(p, sid)
  PROVE  PoolOK(q) /\ Moves(p, q) /\ WasRead(p, q, sid, r, c)
  <1>0. PICK in : in = p.conn[c].in
    OBVIOUS
  <1>1. /\ p \in Pools /\ r \in RelayRecs /\ p.conn \in [Conns -> ConnRecs]
        /\ RoomKept(p.conn) /\ Len(r.buf) <= L /\ r.x2 <= Len(r.buf)
        /\ r.buf \in Seq(Items) /\ Len(r.buf) \in Nat
        /\ p.conn[c] \in ConnRecs /\ in \in Seq(Items) /\ Len(in) \in Nat
    BY <1>0, RelayField, ConnField, LenProperties DEF PoolOK, Pools
  <1>2. PICK x \in Nat, y \in Nat : x = Len(in) /\ y = L - Len(r.buf)
    <2>0. Len(r.buf) \in Nat /\ Len(r.buf) <= L /\ L \in Nat
      BY <1>1, NioRelayAssumption
    <2>1. L - Len(r.buf) \in Nat
      BY <2>0
    <2> QED
      BY <2>1, <1>1
  <1>3. PICK n : n = Min({x, y})
    OBVIOUS
  <1>4. n \in 0 .. x /\ n <= y
    <2>1. x \in Int /\ y \in Int
      OBVIOUS
    <2>2. Min({x, y}) \in {x, y} /\ Min({x, y}) <= x /\ Min({x, y}) <= y
      BY <2>1, MinOfTwo, Zenon
    <2> QED
      BY <2>2, <1>3
  <1>6. PICK one, two : one = SubSeq(in, 1, n) /\ two = SubSeq(in, n + 1, x)
    OBVIOUS
  <1>7. one \in Seq(Items) /\ Len(one) = n /\ two \in Seq(Items)
    BY <1>1, <1>2, <1>4, <1>6, PrefixIs
  <1>8. PICK buf : buf = r.buf \o one
    OBVIOUS
  <1>9. buf \in Seq(Items) /\ Len(buf) = Len(r.buf) + n
    BY <1>1, <1>7, <1>8, ConcatProperties
  <1>10. PICK new : new = [r EXCEPT !.buf = buf]
    OBVIOUS
  <1>11. new \in RelayRecs /\ new.buf = buf /\ new.x2 = r.x2 /\ new.s = r.s
         /\ new.status = r.status /\ new.peer = r.peer /\ new.over = r.over /\ new.ask = r.ask
         /\ r.out \in BOOLEAN
    BY <1>1, <1>9, <1>10 DEF RelayRecs
  <1>12. PICK w : w = [p.conn[c] EXCEPT !.in = two]
    OBVIOUS
  <1>13. w \in ConnRecs /\ w.in = two /\ w.link = p.conn[c].link /\ w.out = p.conn[c].out
    BY <1>1, <1>7, <1>12 DEF ConnRecs
  <1>a. SameEnds(w, p.conn[c])
    BY <1>1, <1>12 DEF ConnRecs, SameEnds
  <1>14. PICK k : k = [p.conn EXCEPT ![c] = w]
    OBVIOUS
  <1>15. k \in [Conns -> ConnRecs] /\ k[c] = w /\ \A d \in Conns : d # c => k[d] = p.conn[d]
    BY <1>1, <1>13, <1>14
  <1>16. RoomKept(k) /\ \A d \in Conns : k[d].link = p.conn[d].link
    BY <1>1, <1>13, <1>15 DEF RoomKept
  <1>18. q = [p EXCEPT !.relay[sid] = new, !.conn = k]
    <2>1. q = [p EXCEPT !.relay[sid].buf = @ \o SubSeq(p.conn[c].in, 1, n),
                        !.conn[c].in = SubSeq(@, n + 1, Len(@))]
      BY <1>0, <1>2, <1>3, Zenon DEF Read
    <2> QED
      BY <2>1, <1>0, <1>1, <1>2, <1>6, <1>8, <1>10, <1>12, <1>14 DEF Pools
  <1>19. HeldByRelay(p, c)
    BY DEF HeldByRelay
  <1>20. \A d \in Conns : ~HeldByRelay(p, d) => k[d] = p.conn[d]
    BY <1>15, <1>19
  <1>21. Len(new.buf) <= L /\ new.x2 <= Len(new.buf) /\ r.x2 \in Int
    BY <1>1, <1>2, <1>4, <1>9, <1>11, NioRelayAssumption DEF RelayRecs
  <1>23. /\ q \in Pools
         /\ q.cache = p.cache /\ q.hash = p.hash /\ q.conn = k /\ q.relay[sid] = new
         /\ \A x0 \in Sids : x0 # sid => q.relay[x0] = p.relay[x0]
    <2>1. /\ q.cache = p.cache /\ q.hash = p.hash /\ q.conn = k
          /\ q.relay = [p.relay EXCEPT ![sid] = new]
          /\ q = [relay |-> q.relay, cache |-> q.cache, hash |-> q.hash, conn |-> q.conn]
      BY <1>1, <1>18 DEF Pools
    <2>2. p.relay \in [Sids -> RelayRecs] /\ p.cache \in Seq(Sids) /\ p.hash \in SUBSET Sids
      BY <1>1 DEF Pools
    <2>3. /\ q.relay[sid] = new
          /\ \A x0 \in Sids : x0 # sid => q.relay[x0] = p.relay[x0]
          /\ q.relay \in [Sids -> RelayRecs]
      BY <2>1, <2>2, <1>11
    <2>4. q \in Pools
      BY <2>1, <2>2, <2>3, <1>15 DEF Pools
    <2> QED
      BY <2>1, <2>3, <2>4
  <1>24. SameShape(p, q)
    BY <1>11, <1>16, <1>20, <1>21, <1>23 DEF SameShape, PoolOK
  <1>22. PoolOK(q) /\ Moves(p, q)
    BY <1>24, ShapeKeeps
  <1> QED
    BY <1>0, <1>2, <1>4, <1>6, <1>8, <1>11, <1>13, <1>a, <1>15, <1>22, <1>23 DEF WasRead

\* niorelay does one of these.
LEMMA RelayIs ==
  ASSUME NEW p, NEW sid, NEW r, r = p.relay[sid], NEW read, read = Read(p, sid)
  PROVE  /\ r.s = None => Relay(p, sid) = p
         /\ r.s # None /\ AtEnd(p, sid) => Relay(p, sid) = ShutBoth(Flush(p, sid), sid)
         /\ r.s # None /\ ~AtEnd(p, sid) =>
              \/ read.relay[r.peer].status # "active" /\ Relay(p, sid) = read
              \/ FlushFails(read, sid)
                 /\ Relay(p, sid) = ShutBoth(Flush(Flush(read, sid), r.peer), sid)
              \/ ~FlushFails(read, sid) /\ Relay(p, sid) = Flush(read, sid)
  <1>1. r.s = None => Relay(p, sid) = p
    BY Zenon DEF Relay
  <1>2. r.s # None /\ AtEnd(p, sid) => Relay(p, sid) = ShutBoth(Flush(p, sid), sid)
    BY Zenon DEF Relay
  <1>3. ASSUME r.s # None, ~AtEnd(p, sid)
        PROVE  \/ read.relay[r.peer].status # "active" /\ Relay(p, sid) = read
               \/ FlushFails(read, sid)
                  /\ Relay(p, sid) = ShutBoth(Flush(Flush(read, sid), r.peer), sid)
               \/ ~FlushFails(read, sid) /\ Relay(p, sid) = Flush(read, sid)
    <2>1. Relay(p, sid) =
            CASE read.relay[r.peer].status # "active" -> read
              [] FlushFails(read, sid) -> ShutBoth(Flush(Flush(read, sid), r.peer), sid)
              [] OTHER -> Flush(read, sid)
      BY <1>3, Zenon DEF Relay
    <2> QED
      BY <2>1
  <1> QED
    BY <1>1, <1>2, <1>3

LEMMA RelayKeeps ==
  ASSUME NEW p, PoolOK(p), NEW sid \in Sids
  PROVE  PoolOK(Relay(p, sid)) /\ Moves(p, Relay(p, sid))
  <1>1. PICK r : r = p.relay[sid]
    OBVIOUS
  <1>2. PICK read : read = Read(p, sid)
    OBVIOUS
  <1>3. r.peer \in Sids
    BY <1>1, RelayField
  <1>4. PICK f : f = Flush(p, sid)
    OBVIOUS
  <1>5. PoolOK(f) /\ Moves(p, f)
    BY <1>4, FlushKeeps
  <1>6. PoolOK(ShutBoth(f, sid)) /\ Moves(p, ShutBoth(f, sid))
    BY <1>5, ShutBothKeeps, MovesOn
  <1>7. ASSUME r.s # None
        PROVE  PoolOK(Relay(p, sid)) /\ Moves(p, Relay(p, sid))
    <2>1. PoolOK(read) /\ Moves(p, read)
      <3>1. r.s \in Conns
        BY <1>1, <1>7, RelayField
      <3> QED
        BY <3>1, <1>1, <1>2, ReadIs
    <2>2. PICK g : g = Flush(read, sid)
      OBVIOUS
    <2>3. PoolOK(g) /\ Moves(p, g)
      BY <2>1, <2>2, FlushKeeps, MovesOn
    <2>4. PICK h : h = Flush(g, r.peer)
      OBVIOUS
    <2>5. PoolOK(h) /\ Moves(p, h)
      BY <1>3, <2>3, <2>4, FlushKeeps, MovesOn
    <2>6. PoolOK(ShutBoth(h, sid)) /\ Moves(p, ShutBoth(h, sid))
      BY <2>5, ShutBothKeeps, MovesOn
    <2>7. Relay(p, sid) \in {ShutBoth(f, sid), read, ShutBoth(h, sid), g}
      BY <1>1, <1>2, <1>4, <1>7, <2>2, <2>4, RelayIs
    <2> QED
      BY <2>1, <2>3, <2>6, <2>7, <1>6
  <1>8. ASSUME r.s = None
        PROVE  Relay(p, sid) = p
    BY <1>1, <1>2, <1>8, RelayIs
  <1> QED
    BY <1>7, <1>8, MovesNot

-----------------------------------------------------------------------------
\* The pool's other operations: niogetpeer, niostartrelay and niofindidle.

LEMMA MinIn ==
  ASSUME NEW S \in SUBSET Nat, S # {}
  PROVE  Min(S) \in S /\ \A x \in S : Min(S) <= x
  <1>1. PICK m \in S : \A x \in S : ~(<<x, m>> \in OpToRel(<, Nat))
    BY NatLessThanWellFounded, WFMin
  <1>2. ASSUME NEW x \in S
        PROVE  m <= x
    <2>1. ASSUME x < m
          PROVE  FALSE
      <3>1. <<x, m>> \in OpToRel(<, Nat)
        BY <2>1 DEF OpToRel
      <3> QED
        BY <1>1, <3>1
    <2> QED
      BY <2>1
  <1> QED
    BY <1>2 DEF Min

\* The relays that niogetpeer takes are idle and two.
LEMMA TwoIdle ==
  ASSUME NEW p, PoolOK(p), Idle(p) # {}
  PROVE  /\ Sid1(p) \in Sids /\ p.relay[Sid1(p)].status = "idle"
         /\ Later(p) # {} => /\ Sid2(p) \in Sids /\ p.relay[Sid2(p)].status = "idle"
                             /\ Sid1(p) # Sid2(p)
  <1>1. p.cache \in Seq(Sids) /\ NoneTwice(p.cache)
    BY DEF PoolOK, Pools
  <1>2. PICK n \in Nat : n = Len(p.cache)
    BY <1>1, LenProperties
  <1>3. PICK I \in SUBSET (1 .. n) : I = Idle(p)
    BY <1>2 DEF Idle
  <1>4. PICK i : i = Min(I)
    OBVIOUS
  <1>5. i \in I /\ p.cache[i] \in Sids /\ p.relay[p.cache[i]].status = "idle"
    <2>1. i \in I
      BY <1>3, <1>4, MinIn
    <2> QED
      BY <2>1, <1>1, <1>2, <1>3, ElementOfSeq DEF Idle
  <1>6. ASSUME Later(p) # {}
        PROVE  /\ Sid2(p) \in Sids /\ p.relay[Sid2(p)].status = "idle"
               /\ p.cache[i] # Sid2(p)
    <2>1. PICK J \in SUBSET (1 .. n) : J = Later(p)
      BY <1>3 DEF Later
    <2>2. PICK j : j = Min(J)
      OBVIOUS
    <2>3. j \in J
      BY <2>1, <2>2, <1>6, MinIn
    <2>4. j \in I /\ j # i
      BY <2>1, <2>3, <1>3, <1>4 DEF Later
    <2>5. p.cache[j] \in Sids /\ p.relay[p.cache[j]].status = "idle"
      BY <2>4, <1>1, <1>2, <1>3, ElementOfSeq DEF Idle
    <2>6. p.cache[j] # p.cache[i]
      BY <2>4, <1>1, <1>2, <1>3, <1>5 DEF NoneTwice
    <2> QED
      BY <2>1, <2>2, <2>5, <2>6 DEF Sid2
  <1> QED
    BY <1>3, <1>4, <1>5, <1>6 DEF Sid1

LEMMA GivenAreSids ==
  ASSUME NEW p, PoolOK(p)
  PROVE  Given(p) \in SUBSET Sids
  BY TwoIdle DEF Given

LEMMA WaitingIs ==
  ASSUME NEW r \in RelayRecs, NEW peer \in Sids, NEW ask \in Asks, NEW w, w = Waiting(r, peer, ask)
  PROVE  /\ w \in RelayRecs /\ w.status = "wait" /\ w.s = r.s /\ w.peer = peer
         /\ w.buf = <<>> /\ Len(w.buf) = 0 /\ w.x2 = 0 /\ ~w.over /\ w.ask = ask
  <1>1. <<>> \in Seq(Items) /\ Len(<<>>) = 0
    BY EmptySeq
  <1>2. w = [status |-> "wait", s |-> r.s, peer |-> peer, buf |-> <<>>, x2 |-> 0,
             out |-> r.out, over |-> FALSE, ask |-> ask]
    BY DEF Waiting, RelayRecs
  <1> QED
    BY <1>1, <1>2 DEF RelayRecs

\* niogetpeer: nothing, or one relay that waits for nobody, or two that watch each
\* other.
LEMMA GetPeerIs ==
  ASSUME NEW p, PoolOK(p), NEW ask \in Asks, NEW q, q = GetPeer(p, ask)
  PROVE  /\ q \in Pools /\ q.cache = p.cache /\ q.conn = p.conn
         /\ \/ q = p /\ Given(p) = {}
            \/ \E a \in Sids :
                 /\ p.relay[a].status = "idle" /\ Given(p) = {}
                 /\ \A x \in Sids :
                      q.relay[x] = IF x = a THEN Waiting(p.relay[a], p.relay[a].peer, ask) ELSE p.relay[x]
                 /\ q.hash = p.hash
            \/ \E a, b \in Sids :
                 /\ a # b /\ p.relay[a].status = "idle" /\ p.relay[b].status = "idle"
                 /\ \A x \in Sids :
                      q.relay[x] = IF x = a THEN Waiting(p.relay[a], b, ask)
                                   ELSE IF x = b THEN Waiting(p.relay[b], a, ask) ELSE p.relay[x]
                 /\ q.hash = p.hash \cup {a, b} /\ Given(p) = {a, b}
  <1>1. p \in Pools /\ p.relay \in [Sids -> RelayRecs]
    BY DEF PoolOK, Pools
  <1>2. CASE Idle(p) = {}
    <2>1. q = p /\ Given(p) = {}
      BY <1>2, Zenon DEF GetPeer, Given
    <2> QED
      BY <1>1, <2>1
  <1>3. CASE Idle(p) # {} /\ Later(p) = {}
    <2>1. PICK a \in Sids : a = Sid1(p) /\ p.relay[a].status = "idle"
      BY <1>3, TwoIdle
    <2>2. PICK w : w = Waiting(p.relay[a], p.relay[a].peer, ask)
      OBVIOUS
    <2>3. w \in RelayRecs
      BY <2>2, RelayField, WaitingIs
    <2>4. q = [p EXCEPT !.relay[Sid1(p)] = Waiting(@, @.peer, ask)]
      BY <1>3, Zenon DEF GetPeer
    <2>5. q = [p EXCEPT !.relay[a] = w]
      BY <2>1, <2>2, <2>4, <1>1 DEF Pools
    <2>6. /\ q.cache = p.cache /\ q.conn = p.conn /\ q.hash = p.hash
          /\ q.relay = [p.relay EXCEPT ![a] = w]
          /\ q = [relay |-> q.relay, cache |-> q.cache, hash |-> q.hash, conn |-> q.conn]
      BY <2>5, <1>1 DEF Pools
    <2>7. q.relay \in [Sids -> RelayRecs]
      BY <2>3, <2>6, <1>1
    <2>8. q \in Pools
      BY <2>6, <2>7, <1>1 DEF Pools
    <2>9. \A x \in Sids : q.relay[x] = IF x = a THEN w ELSE p.relay[x]
      BY <2>6, <1>1
    <2>10. Given(p) = {}
      BY <1>3, Zenon DEF Given
    <2> QED
      BY <2>1, <2>2, <2>6, <2>8, <2>9, <2>10
  <1>4. CASE Idle(p) # {} /\ Later(p) # {}
    <2>1. PICK a, b \in Sids : /\ a = Sid1(p) /\ b = Sid2(p) /\ a # b
                               /\ p.relay[a].status = "idle" /\ p.relay[b].status = "idle"
      BY <1>4, TwoIdle
    <2>2. PICK w, v : w = Waiting(p.relay[a], b, ask) /\ v = Waiting(p.relay[b], a, ask)
      OBVIOUS
    <2>3. w \in RelayRecs /\ v \in RelayRecs
      BY <2>2, RelayField, WaitingIs
    <2>4. q = [p EXCEPT !.relay[Sid1(p)] = Waiting(@, Sid2(p), ask),
                        !.relay[Sid2(p)] = Waiting(@, Sid1(p), ask),
                        !.hash = @ \cup Given(p)]
      BY <1>4, Zenon DEF GetPeer
    <2>a. Given(p) = {a, b}
      BY <1>4, <2>1 DEF Given
    <2>5. q = [p EXCEPT !.relay[a] = w, !.relay[b] = v, !.hash = p.hash \cup {a, b}]
      BY <2>1, <2>2, <2>4, <2>a, <1>1 DEF Pools
    <2>6. /\ q.cache = p.cache /\ q.conn = p.conn /\ q.hash = p.hash \cup {a, b}
          /\ q.relay = [[p.relay EXCEPT ![a] = w] EXCEPT ![b] = v]
          /\ q = [relay |-> q.relay, cache |-> q.cache, hash |-> q.hash, conn |-> q.conn]
      BY <2>5, <1>1 DEF Pools
    <2>7. q.relay \in [Sids -> RelayRecs] /\ q.hash \in SUBSET Sids
      BY <2>3, <2>6, <1>1 DEF Pools
    <2>8. q \in Pools
      BY <2>6, <2>7, <1>1 DEF Pools
    <2>9. \A x \in Sids : q.relay[x] = IF x = a THEN w ELSE IF x = b THEN v ELSE p.relay[x]
      BY <2>1, <2>6, <1>1
    <2> QED
      BY <2>1, <2>2, <2>6, <2>8, <2>9, <2>a
  <1> QED
    BY <1>2, <1>3, <1>4

LEMMA GetPeerKeeps ==
  ASSUME NEW p, PoolOK(p), NEW ask \in Asks, NEW q, q = GetPeer(p, ask)
  PROVE  PoolOK(q) /\ q.conn = p.conn /\ q.cache = p.cache /\ \A x \in Sids : q.relay[x].s = p.relay[x].s
  <1> DEFINE Changes ==
        \A x \in Sids :
          /\ q.relay[x].s = p.relay[x].s
          /\ \/ q.relay[x] = p.relay[x]
             \/ /\ p.relay[x].status = "idle" /\ q.relay[x].status = "wait"
                /\ Len(q.relay[x].buf) = 0 /\ q.relay[x].x2 = 0
          /\ x \in q.hash => x \in p.hash \/ q.relay[x].status = "wait"
  <1>1. q \in Pools /\ q.cache = p.cache /\ q.conn = p.conn
    BY GetPeerIs
  <1>2. p \in Pools /\ L >= 0 /\ \A x \in Sids : p.relay[x] \in RelayRecs
    BY NioRelayAssumption, RelayField DEF PoolOK
  <1>3. Changes
    <2>1. ASSUME NEW r \in RelayRecs, NEW x \in Sids, NEW w, w = Waiting(r, x, ask)
          PROVE  w.s = r.s /\ w.status = "wait" /\ Len(w.buf) = 0 /\ w.x2 = 0
      BY <2>1, WaitingIs
    <2>2. ASSUME NEW a \in Sids, p.relay[a].status = "idle", q.hash = p.hash,
                 \A x \in Sids :
                   q.relay[x] = IF x = a THEN Waiting(p.relay[a], p.relay[a].peer, ask) ELSE p.relay[x]
          PROVE  Changes
      <3>1. p.relay[a] \in RelayRecs /\ p.relay[a].peer \in Sids
        BY RelayField
      <3>2. PICK w : w = Waiting(p.relay[a], p.relay[a].peer, ask)
        OBVIOUS
      <3>3. w.s = p.relay[a].s /\ w.status = "wait" /\ Len(w.buf) = 0 /\ w.x2 = 0
        BY <3>1, <3>2, <2>1
      <3>4. \A x \in Sids : q.relay[x] = IF x = a THEN w ELSE p.relay[x]
        BY <3>2, <2>2
      <3> QED
        BY <3>3, <3>4, <2>2
    <2>3. ASSUME NEW a \in Sids, NEW b \in Sids, a # b, p.relay[a].status = "idle",
                 p.relay[b].status = "idle", q.hash = p.hash \cup {a, b},
                 \A x \in Sids :
                   q.relay[x] = IF x = a THEN Waiting(p.relay[a], b, ask)
                                ELSE IF x = b THEN Waiting(p.relay[b], a, ask) ELSE p.relay[x]
          PROVE  Changes
      <3>1. p.relay[a] \in RelayRecs /\ p.relay[b] \in RelayRecs
        BY RelayField
      <3>2. PICK w, v : w = Waiting(p.relay[a], b, ask) /\ v = Waiting(p.relay[b], a, ask)
        OBVIOUS
      <3>3. /\ w.s = p.relay[a].s /\ w.status = "wait" /\ Len(w.buf) = 0 /\ w.x2 = 0
            /\ v.s = p.relay[b].s /\ v.status = "wait" /\ Len(v.buf) = 0 /\ v.x2 = 0
        BY <3>1, <3>2, <2>1
      <3>4. \A x \in Sids : q.relay[x] = IF x = a THEN w ELSE IF x = b THEN v ELSE p.relay[x]
        BY <3>2, <2>3
      <3> QED
        BY <3>3, <3>4, <2>3
    <2>4. CASE q = p
      BY <2>4
    <2> HIDE DEF Changes
    <2> QED
      BY <2>2, <2>3, <2>4, GetPeerIs
  <1>4. \A x \in Sids : (q.relay[x].status = "active") <=> (p.relay[x].status = "active")
    BY <1>3
  <1>5. \A x \in Sids :
          /\ Len(q.relay[x].buf) <= L /\ q.relay[x].x2 <= Len(q.relay[x].buf)
          /\ x \in q.hash => q.relay[x].status = "wait"
    BY <1>2, <1>3 DEF PoolOK
  <1>6. PoolOK(q)
    BY <1>1, <1>3, <1>4, <1>5 DEF PoolOK
  <1> QED
    BY <1>1, <1>3, <1>6

LEMMA RemoveOnce ==
  ASSUME NEW S, NEW s \in Seq(S), NEW e, On(s, e), NoneTwice(s)
  PROVE  /\ RemoveFirst(s, e) \in Seq(S)
         /\ NoneTwice(RemoveFirst(s, e))
         /\ \A x : On(RemoveFirst(s, e), x) <=> On(s, x) /\ x # e
  <1>1. PICK n \in Nat : n = Len(s)
    BY LenProperties
  <1>2. PICK I \in SUBSET (1 .. n) : I = {i \in 1 .. n : s[i] = e}
    OBVIOUS
  <1>3. PICK m : m = Min(I)
    OBVIOUS
  <1>4. m \in 1 .. n /\ s[m] = e
    <2>1. I # {}
      BY <1>1, <1>2 DEF On
    <2>2. m \in I
      BY <2>1, <1>3, MinIn
    <2> QED
      BY <2>2, <1>2
  <1>5. \A i \in 1 .. n : s[i] \in S
    BY <1>1, ElementOfSeq
  <1>6. PICK t : t = RemoveFirst(s, e)
    OBVIOUS
  <1>7. t = SubSeq(s, 1, m - 1) \o SubSeq(s, m + 1, n)
    <2>1. SelectInSeq(s, LAMBDA v : v = e) = m
      BY <1>1, <1>2, <1>3, <1>4 DEF SelectInSeq
    <2> QED
      BY <2>1, <1>1, <1>4, <1>6 DEF RemoveFirst, RemoveAt
  <1>8. PICK one, two : one = SubSeq(s, 1, m - 1) /\ two = SubSeq(s, m + 1, n)
    OBVIOUS
  <1>9. /\ one \in Seq(S) /\ Len(one) = m - 1 /\ \A i \in 1 .. m - 1 : one[i] = s[i]
    BY <1>4, <1>5, <1>8, SubSeqProperties
  <1>10. /\ two \in Seq(S) /\ Len(two) = n - m
         /\ \A i \in 1 .. n - m : two[i] = s[m + i]
    <2>1. PICK a \in Int : a = m + 1
      BY <1>4
    <2>2. \A i \in a .. n : s[i] \in S
      BY <2>1, <1>4, <1>5
    <2>3. /\ SubSeq(s, a, n) \in Seq(S)
          /\ Len(SubSeq(s, a, n)) = IF a <= n THEN n - a + 1 ELSE 0
          /\ \A i \in 1 .. n - a + 1 : SubSeq(s, a, n)[i] = s[a + i - 1]
      BY <2>2, SubSeqProperties
    <2> QED
      BY <2>1, <2>3, <1>4, <1>8
  <1>11. /\ t \in Seq(S) /\ Len(t) = n - 1
         /\ \A i \in 1 .. n - 1 : t[i] = IF i < m THEN s[i] ELSE s[i + 1]
    <2>1. /\ t \in Seq(S) /\ Len(t) = Len(one) + Len(two)
          /\ \A i \in 1 .. Len(one) + Len(two) :
               t[i] = IF i <= Len(one) THEN one[i] ELSE two[i - Len(one)]
      BY <1>7, <1>8, <1>9, <1>10, ConcatProperties, SMTT(30)
    <2>2. Len(t) = n - 1
      BY <2>1, <1>4, <1>9, <1>10
    <2>3. ASSUME NEW i \in 1 .. n - 1
          PROVE  t[i] = IF i < m THEN s[i] ELSE s[i + 1]
      <3>1. CASE i < m
        BY <3>1, <2>1, <1>4, <1>9, <1>10
      <3>2. CASE ~(i < m)
        <4>1. PICK j \in 1 .. n - m : j = i - (m - 1)
          BY <3>2, <1>4
        <4>2. t[i] = two[j]
          BY <3>2, <4>1, <2>1, <1>4, <1>9, <1>10
        <4>3. m + j = i + 1
          BY <4>1, <1>4
        <4> QED
          BY <3>2, <4>2, <4>3, <1>10
      <3> QED
        BY <3>1, <3>2
    <2> QED
      BY <2>1, <2>2, <2>3
  <1>12. NoneTwice(t)
    <2>1. ASSUME NEW i \in 1 .. n - 1, NEW j \in 1 .. n - 1, t[i] = t[j]
          PROVE  i = j
      BY <1>1, <1>4, <1>11, <2>1 DEF NoneTwice
    <2> QED
      BY <2>1, <1>11 DEF NoneTwice
  <1>13. ASSUME NEW x, On(t, x)
         PROVE  On(s, x) /\ x # e
    <2>1. PICK i \in 1 .. n - 1 : t[i] = x
      BY <1>11, <1>13 DEF On
    <2>2. PICK j \in 1 .. n : j = (IF i < m THEN i ELSE i + 1) /\ j # m /\ s[j] = x
      BY <2>1, <1>4, <1>11
    <2> QED
      BY <2>2, <1>1, <1>4 DEF On, NoneTwice
  <1>14. ASSUME NEW x, On(s, x), x # e
         PROVE  On(t, x)
    <2>1. PICK j \in 1 .. n : s[j] = x
      BY <1>1, <1>14 DEF On
    <2>2. j # m
      BY <2>1, <1>4, <1>14
    <2>3. PICK i \in 1 .. n - 1 : i = IF j < m THEN j ELSE j - 1
      BY <2>2, <1>4
    <2>4. t[i] = x
      BY <2>1, <2>2, <2>3, <1>4, <1>11
    <2> QED
      BY <2>4, <1>11 DEF On
  <1> QED
    BY <1>6, <1>11, <1>12, <1>13, <1>14

\* niostartrelay gives the connection c to a relay.
LEMMA StartRelayKeeps ==
  ASSUME NEW p, PoolOK(p), NEW sid \in p.hash, NEW c \in Conns,
         ~HeldByRelay(p, c), p.conn[c].link = "up",
         NEW q, q = StartRelay(p, sid, c)
  PROVE  /\ PoolOK(q)
         /\ \A d \in Conns : HeldByRelay(q, d) <=> HeldByRelay(p, d) \/ d = c
         /\ \A d \in Conns : d # c => q.conn[d] = p.conn[d]
         /\ \A d \in Conns : q.conn[d].link = p.conn[d].link
         /\ q.conn[c].in = p.conn[c].in /\ q.conn[c].out = p.conn[c].out
         /\ q.conn[c].end = p.conn[c].end /\ q.conn[c].got = p.conn[c].got
         /\ q.conn[c].said = p.conn[c].said /\ q.conn[c].sid = p.conn[c].sid
         /\ q.conn[c].by = p.conn[c].by /\ q.conn[c].n = p.conn[c].n
         /\ q.conn[c].late = p.relay[sid].over
         /\ q.hash = p.hash \ {sid}
         /\ \A x \in Sids : x # sid => q.relay[x] = p.relay[x]
         /\ q.relay[sid].status = "active" /\ q.relay[sid].s = c
         /\ q.relay[sid].peer = p.relay[sid].peer /\ q.relay[sid].ask = p.relay[sid].ask
         /\ SameBuffer(q.relay[sid], p.relay[sid])
  <1>1. /\ p \in Pools /\ sid \in Sids /\ p.relay[sid].status = "wait" /\ p.relay[sid].s = None
        /\ p.relay[sid] \in RelayRecs /\ p.conn[c] \in ConnRecs /\ On(p.cache, sid)
    <2>1. p \in Pools /\ p.hash \subseteq Sids
      BY DEF PoolOK, Pools
    <2>2. sid \in Sids
      BY <2>1
    <2>3. p.relay[sid] \in RelayRecs /\ p.conn[c] \in ConnRecs
      BY <2>1, <2>2 DEF Pools
    <2>4. p.relay[sid].status = "wait"
      BY <2>2 DEF PoolOK
    <2>5. p.relay[sid].s = None /\ On(p.cache, sid)
      BY <2>2, <2>4 DEF PoolOK
    <2> QED
      BY <2>1, <2>2, <2>3, <2>4, <2>5
  <1>2. PICK new : new = [p.relay[sid] EXCEPT !.status = "active", !.s = c, !.out = FALSE]
    OBVIOUS
  <1>3. new \in RelayRecs /\ new.status = "active" /\ new.s = c
        /\ new.buf = p.relay[sid].buf /\ new.x2 = p.relay[sid].x2
        /\ new.peer = p.relay[sid].peer /\ new.ask = p.relay[sid].ask
    BY <1>1, <1>2 DEF RelayRecs
  <1>4. PICK w : w = [p.conn[c] EXCEPT !.late = p.relay[sid].over]
    OBVIOUS
  <1>5. p.relay[sid].over \in BOOLEAN
    BY <1>1 DEF RelayRecs
  <1>6. w \in ConnRecs /\ w.link = p.conn[c].link /\ w.out = p.conn[c].out /\ w.in = p.conn[c].in
        /\ w.end = p.conn[c].end /\ w.got = p.conn[c].got /\ w.said = p.conn[c].said
        /\ w.sid = p.conn[c].sid /\ w.by = p.conn[c].by /\ w.n = p.conn[c].n
        /\ w.late = p.relay[sid].over
    BY <1>1, <1>4, <1>5 DEF ConnRecs
  <1>7. PICK cache : cache = RemoveFirst(p.cache, sid)
    OBVIOUS
  <1>8. /\ cache \in Seq(Sids) /\ NoneTwice(cache)
        /\ \A x : On(cache, x) <=> On(p.cache, x) /\ x # sid
    BY <1>1, <1>7, RemoveOnce DEF PoolOK, Pools
  <1>9. /\ q.cache = cache /\ q.hash = p.hash \ {sid}
        /\ q.relay = [p.relay EXCEPT ![sid] = new]
        /\ q.conn = [p.conn EXCEPT ![c] = w]
        /\ q = [relay |-> q.relay, cache |-> q.cache, hash |-> q.hash, conn |-> q.conn]
    BY <1>1, <1>2, <1>4, <1>7 DEF StartRelay, Pools
  <1>10. /\ q.relay \in [Sids -> RelayRecs] /\ q.conn \in [Conns -> ConnRecs]
         /\ q.relay[sid] = new /\ \A x \in Sids : x # sid => q.relay[x] = p.relay[x]
         /\ q.conn[c] = w /\ \A d \in Conns : d # c => q.conn[d] = p.conn[d]
    BY <1>1, <1>3, <1>6, <1>9 DEF Pools
  <1>11. q \in Pools
    BY <1>1, <1>8, <1>9, <1>10 DEF Pools
  <1>12. \A d \in Conns : q.conn[d].link = p.conn[d].link /\ q.conn[d].out = p.conn[d].out
    BY <1>6, <1>10
  <1>13. \A x \in Sids : p.relay[x].s # c
    BY DEF HeldByRelay
  <1>14. PoolOK(q)
    <2>1. \A x \in Sids : p.relay[x].s \in Conns \cup {None} /\ c # None
      BY RelayField, RelayNetAssumption
    <2>2. ASSUME NEW x \in Sids
          PROVE  /\ Len(q.relay[x].buf) <= L /\ q.relay[x].x2 <= Len(q.relay[x].buf)
                 /\ q.relay[x].status = "active" <=> q.relay[x].s # None
                 /\ q.relay[x].s # None => q.conn[q.relay[x].s].link = "up"
                 /\ On(q.cache, x) <=> q.relay[x].status # "active"
                 /\ x \in q.hash => q.relay[x].status = "wait"
      <3>1. CASE x = sid
        BY <3>1, <2>1, <1>1, <1>3, <1>8, <1>9, <1>10, <1>12 DEF PoolOK
      <3>2. CASE x # sid
        BY <3>2, <2>1, <1>8, <1>9, <1>10, <1>12 DEF PoolOK
      <3> QED
        BY <3>1, <3>2
    <2>3. \A r1, r2 \in Sids : q.relay[r1].s = q.relay[r2].s /\ q.relay[r1].s # None => r1 = r2
      BY <1>3, <1>10, <1>13 DEF PoolOK
    <2>4. RoomKept(q.conn)
      BY <1>12 DEF PoolOK, RoomKept
    <2> QED
      BY <2>2, <2>3, <2>4, <1>8, <1>9, <1>11 DEF PoolOK
  <1>15. \A d \in Conns : HeldByRelay(q, d) <=> HeldByRelay(p, d) \/ d = c
    BY <1>1, <1>3, <1>10, RelayNetAssumption DEF HeldByRelay
  <1> QED
    BY <1>3, <1>6, <1>9, <1>10, <1>12, <1>14, <1>15 DEF SameBuffer

\* niofindidle's calls of nioshutrelay only mark relays that wait.
LEMMA ShutIdleKeeps ==
  ASSUME NEW p, PoolOK(p), NEW expired \in SUBSET p.hash, NEW q, q = ShutIdle(p, expired)
  PROVE  PoolOK(q) /\ q.cache = p.cache /\ Marked(p, q, expired)
  <1>1. /\ p \in Pools /\ p.hash \in SUBSET Sids /\ p.relay \in [Sids -> RelayRecs]
        /\ \A x \in p.hash : p.relay[x].status = "wait" /\ p.relay[x].s = None
    <2>1. p \in Pools /\ p.hash \in SUBSET Sids /\ p.relay \in [Sids -> RelayRecs]
      BY DEF PoolOK, Pools
    <2>2. \A x \in Sids : x \in p.hash => p.relay[x].status = "wait"
      BY DEF PoolOK
    <2>3. \A x \in Sids : x \in p.hash => p.relay[x].s = None
      BY <2>2 DEF PoolOK
    <2> QED
      BY <2>1, <2>2, <2>3
  <1>2. ASSUME NEW x \in expired
        PROVE  ShutRelay(p, x).relay[x] = [p.relay[x] EXCEPT !.over = TRUE]
    <2>1. ShutRelay(p, x) = [p EXCEPT !.relay[x].over = p.relay[x].status = "wait"]
      BY <1>1 DEF ShutRelay
    <2>2. (p.relay[x].status = "wait") = TRUE
      BY <1>1
    <2> QED
      BY <2>1, <2>2, <1>1 DEF Pools
  <1>3. /\ q.conn = p.conn /\ q.cache = p.cache /\ q.hash = p.hash
        /\ q.relay = [x \in Sids |-> IF x \in expired THEN ShutRelay(p, x).relay[x] ELSE p.relay[x]]
        /\ q = [relay |-> q.relay, cache |-> q.cache, hash |-> q.hash, conn |-> q.conn]
    BY <1>1 DEF ShutIdle, Pools
  <1>4. \A x \in Sids : q.relay[x] = IF x \in expired THEN [p.relay[x] EXCEPT !.over = TRUE]
                                                      ELSE p.relay[x]
    BY <1>2, <1>3
  <1>5. ASSUME NEW x \in Sids
        PROVE  /\ q.relay[x] \in RelayRecs
               /\ q.relay[x].s = p.relay[x].s /\ q.relay[x].status = p.relay[x].status
               /\ q.relay[x].peer = p.relay[x].peer /\ q.relay[x].buf = p.relay[x].buf
               /\ q.relay[x].x2 = p.relay[x].x2 /\ q.relay[x].ask = p.relay[x].ask
               /\ q.relay[x].over <=> p.relay[x].over \/ x \in expired
    BY <1>1, <1>4 DEF RelayRecs
  <1>6. q.relay \in [Sids -> RelayRecs]
    BY <1>3, <1>5
  <1>7. q \in Pools
    BY <1>1, <1>3, <1>6 DEF Pools
  <1>8. PoolOK(q)
    BY <1>3, <1>5, <1>7 DEF PoolOK
  <1> QED
    BY <1>3, <1>5, <1>8 DEF Marked

-----------------------------------------------------------------------------
\* The controls.

LEMMA CtrlField ==
  ASSUME NEW q, ControlsOK(q), NEW i \in Ctrls
  PROVE  /\ q.ctrl[i] \in CtrlRecs
         /\ q.ctrl[i].s \in Conns \cup {None}
         /\ q.ctrl[i].rcv \in Seq(Items)
         /\ q.ctrl[i].snd \in Seq([reply : Items, done : BOOLEAN])
         /\ ~On(q.cache, i) => q.ctrl[i].s \in Conns /\ q.conn[q.ctrl[i].s].link = "up"
  <1>1. q.ctrl[i] \in CtrlRecs
    BY DEF ControlsOK, ControlPools
  <1>2. ~On(q.cache, i) => q.ctrl[i].s # None /\ q.conn[q.ctrl[i].s].link = "up"
    BY DEF ControlsOK
  <1> QED
    BY <1>1, <1>2 DEF CtrlRecs

LEMMA ControlsTypes ==
  ASSUME NEW q, ControlsOK(q)
  PROVE  /\ q \in ControlPools /\ q.ctrl \in [Ctrls -> CtrlRecs] /\ q.cache \in Seq(Ctrls)
         /\ q.list \in Seq(Ctrls) /\ q.conn \in [Conns -> ConnRecs] /\ RoomKept(q.conn)
  BY DEF ControlsOK, ControlPools

\* Control i, which has the connection c, is served: the others keep what they have.
Served(q, q2, i, c) ==
  /\ ControlsOK(q2)
  /\ \A d \in Conns : d # c => q2.conn[d] = q.conn[d]
  /\ \A j \in Ctrls : j # i => /\ q2.ctrl[j] = q.ctrl[j]
                               /\ On(q2.cache, j) <=> On(q.cache, j)

\* A reply that is to be written.
Owes(z, m) == \E j \in 1 .. Len(z.snd) : z.snd[j].reply = m

\* What a handler of the control i has done: closed the connection, read from it, or
\* written to it.
ClosedBy(q, q2, i, c) == On(q2.cache, i) /\ Closed(q2.conn[c], q.conn[c])

ReadBy(q, q2, i, c) ==
  /\ ~On(q2.cache, i) /\ q2.ctrl[i].s = c
  /\ q2.ctrl[i].snd = q.ctrl[i].snd /\ q.conn[c].in # <<>>
  /\ q2.ctrl[i].rcv = Append(q.ctrl[i].rcv, Head(q.conn[c].in))
  /\ q2.conn[c].in = Tail(q.conn[c].in)
  /\ SameEnds(q2.conn[c], q.conn[c]) /\ q2.conn[c].out = q.conn[c].out

WroteBy(q, q2, i, c) ==
  /\ ~On(q2.cache, i) /\ q2.ctrl[i].s = c /\ q2.ctrl[i].rcv = q.ctrl[i].rcv
  /\ q.ctrl[i].snd # <<>> /\ SameSide(q2.conn[c], q.conn[c])
  /\ \A m : Owes(q2.ctrl[i], m) => Owes(q.ctrl[i], m)
  /\ \A m : On(q2.conn[c].out, m) => On(q.conn[c].out, m) \/ Owes(q.ctrl[i], m)

LEMMA NoCtrlIs ==
  NoCtrl \in CtrlRecs /\ NoCtrl.rcv = <<>> /\ NoCtrl.s = None /\ NoCtrl.snd = <<>>
  <1>1. <<>> \in Seq(Items) /\ <<>> \in Seq([reply : Items, done : BOOLEAN])
    BY EmptySeq
  <1>2. NoCtrl \in CtrlRecs
    BY <1>1 DEF NoCtrl, CtrlRecs
  <1> QED
    BY <1>2 DEF NoCtrl

LEMMA NewCtrlIs ==
  ASSUME NEW s \in Conns \cup {None}, NEW new, new = [NoCtrl EXCEPT !.s = s]
  PROVE  new \in CtrlRecs /\ new.s = s /\ new.rcv = <<>> /\ new.snd = <<>>
  <1>1. PICK z \in CtrlRecs : z = NoCtrl /\ z.rcv = <<>> /\ z.snd = <<>>
    BY NoCtrlIs
  <1>2. new = [z EXCEPT !.s = s]
    BY <1>1
  <1> QED
    BY <1>1, <1>2 DEF CtrlRecs

\* A control in use whose message is not listed becomes free.
LEMMA CtrlReturns ==
  ASSUME NEW q, ControlsOK(q), NEW i \in Ctrls, ~On(q.cache, i), ~On(q.list, i),
         NEW c \in Conns, c = q.ctrl[i].s,
         NEW new \in CtrlRecs, new.rcv = <<>>,
         NEW k \in [Conns -> ConnRecs], RoomKept(k), \A d \in Conns : d # c => k[d] = q.conn[d],
         NEW q2, q2 = [ctrl |-> [q.ctrl EXCEPT ![i] = new], cache |-> Append(q.cache, i),
                       list |-> q.list, conn |-> k]
  PROVE  Served(q, q2, i, c) /\ On(q2.cache, i)
  <1>6. PICK cache : cache = Append(q.cache, i)
    OBVIOUS
  <1>7. /\ cache \in Seq(Ctrls) /\ NoneTwice(cache)
        /\ \A x : On(cache, x) <=> On(q.cache, x) \/ x = i
    <2>1. NoneTwice(q.cache) /\ q.cache \in Seq(Ctrls)
      BY ControlsTypes DEF ControlsOK
    <2> QED
      BY <2>1, <1>6, AppendOnce
  <1>10. /\ q2.ctrl = [q.ctrl EXCEPT ![i] = new] /\ q2.cache = cache /\ q2.list = q.list
         /\ q2.conn = k
         /\ q2 = [ctrl |-> q2.ctrl, cache |-> q2.cache, list |-> q2.list, conn |-> q2.conn]
    BY <1>6
  <1>11. /\ q2.ctrl \in [Ctrls -> CtrlRecs] /\ q2.ctrl[i] = new
         /\ \A j \in Ctrls : j # i => q2.ctrl[j] = q.ctrl[j]
    BY <1>10, ControlsTypes
  <1>12. q2 \in ControlPools
    BY <1>7, <1>10, <1>11, ControlsTypes DEF ControlPools
  <1>13. ASSUME NEW j \in Ctrls, ~On(cache, j)
         PROVE  j # i /\ ~On(q.cache, j) /\ q.ctrl[j].s # c /\ q.ctrl[j].s \in Conns
    <2>1. j # i /\ ~On(q.cache, j)
      BY <1>7, <1>13
    <2> QED
      BY <2>1, CtrlField DEF ControlsOK
  <1>14. ControlsOK(q2)
    <2>1. ASSUME NEW j \in Ctrls
          PROVE  /\ ~On(q2.cache, j) => q2.ctrl[j].s # None /\ q2.conn[q2.ctrl[j].s].link = "up"
                 /\ q2.ctrl[j].rcv # <<>> => Len(q2.ctrl[j].rcv) <= 1 + q2.ctrl[j].rcv[1].n
                 /\ On(q2.list, j) <=> ~On(q2.cache, j) /\ Complete(q2.ctrl[j].rcv)
      <3>1. ~On(q2.cache, j) => q2.ctrl[j].s # None /\ q2.conn[q2.ctrl[j].s].link = "up"
        BY <1>10, <1>11, <1>13, CtrlField, RelayNetAssumption, ZenonT(40)
      <3>2. q2.ctrl[j].rcv # <<>> => Len(q2.ctrl[j].rcv) <= 1 + q2.ctrl[j].rcv[1].n
        BY <1>11 DEF ControlsOK
      <3>3. On(q2.list, j) <=> ~On(q2.cache, j) /\ Complete(q2.ctrl[j].rcv)
        <4>1. ~Complete(new.rcv)
          BY DEF Complete
        <4> QED
          BY <4>1, <1>7, <1>10, <1>11 DEF ControlsOK
      <3> QED
        BY <3>1, <3>2, <3>3
    <2>2. \A j, m \in Ctrls :
            ~On(q2.cache, j) /\ ~On(q2.cache, m) /\ q2.ctrl[j].s = q2.ctrl[m].s => j = m
      BY <1>10, <1>11, <1>13, ZenonT(40) DEF ControlsOK
    <2>3. NoneTwice(q2.list) /\ RoomKept(q2.conn)
      BY <1>10 DEF ControlsOK
    <2> QED
      BY <2>1, <2>2, <2>3, <1>7, <1>10, <1>12 DEF ControlsOK
  <1>15. Served(q, q2, i, c)
    BY <1>7, <1>10, <1>11, <1>14 DEF Served
  <1> QED
    BY <1>7, <1>10, <1>15

\* The two ways nioshutctrl is called.
Shuts(q, i) == ShutCtrl(q, i, TRUE)
Frees(q, i) == ShutCtrl(q, i, FALSE)

LEMMA ShutsServes ==
  ASSUME NEW q, ControlsOK(q), NEW i \in Ctrls, ~On(q.cache, i), ~On(q.list, i),
         NEW c, c = q.ctrl[i].s, NEW q2, q2 = Shuts(q, i)
  PROVE  /\ Served(q, q2, i, c) /\ On(q2.cache, i) /\ q2.list = q.list /\ q2.conn[c].link = "closed"
         /\ ClosedBy(q, q2, i, c)
  <1>1. c \in Conns /\ c # None
    BY CtrlField, RelayNetAssumption
  <1>2. NoCtrl \in CtrlRecs /\ NoCtrl.rcv = <<>>
    BY NoCtrlIs
  <1>3. PICK k : k = Shut(q.conn, c)
    OBVIOUS
  <1>4. /\ k \in [Conns -> ConnRecs] /\ RoomKept(k)
        /\ \A d \in Conns : d # c => k[d] = q.conn[d]
        /\ k[c].link = "closed" /\ Closed(k[c], q.conn[c])
    BY <1>1, <1>3, ControlsTypes, ShutKeeps
  <1>5. PICK new \in CtrlRecs : new = NoCtrl /\ new.rcv = <<>>
    BY <1>2
  <1>6. q2 = [q EXCEPT !.ctrl[i] = NoCtrl, !.cache = Append(@, i), !.conn = Shut(@, c)]
    BY <1>1 DEF Shuts, ShutCtrl
  <1>7. q2 = [ctrl |-> [q.ctrl EXCEPT ![i] = new], cache |-> Append(q.cache, i),
              list |-> q.list, conn |-> k]
    <2>1. q \in ControlPools
      BY ControlsTypes
    <2> QED
      BY <2>1, <1>3, <1>5, <1>6 DEF ControlPools
  <1>8. Served(q, q2, i, c) /\ On(q2.cache, i)
    BY <1>1, <1>4, <1>5, <1>7, CtrlReturns
  <1>9. q2.list = q.list /\ q2.conn = k
    BY <1>7
  <1> QED
    BY <1>4, <1>8, <1>9 DEF ClosedBy

\* nioshutctrl of a control whose connection is a relay's now.
LEMMA FreesServes ==
  ASSUME NEW q, ControlsOK(q), NEW i \in Ctrls, ~On(q.cache, i), ~On(q.list, i),
         NEW c, c = q.ctrl[i].s, NEW q2, q2 = Frees(q, i)
  PROVE  Served(q, q2, i, c) /\ On(q2.cache, i) /\ q2.list = q.list /\ q2.conn = q.conn
  <1>1. c \in Conns /\ c # None
    BY CtrlField, RelayNetAssumption
  <1>2. PICK new : new = [NoCtrl EXCEPT !.s = c]
    OBVIOUS
  <1>3. new \in CtrlRecs /\ new.rcv = <<>>
    BY <1>1, <1>2, NewCtrlIs
  <1>6. q2 = [q EXCEPT !.ctrl[i] = [NoCtrl EXCEPT !.s = c], !.cache = Append(@, i)]
    BY <1>1, ControlsTypes DEF Frees, ShutCtrl
  <1>7. q2 = [ctrl |-> [q.ctrl EXCEPT ![i] = new], cache |-> Append(q.cache, i),
              list |-> q.list, conn |-> q.conn]
    <2>1. q \in ControlPools
      BY ControlsTypes
    <2> QED
      BY <2>1, <1>2, <1>6 DEF ControlPools
  <1>8. Served(q, q2, i, c) /\ On(q2.cache, i)
    BY <1>1, <1>3, <1>7, CtrlReturns, ControlsTypes
  <1>9. q2.list = q.list /\ q2.conn = q.conn
    BY <1>7
  <1> QED
    BY <1>8, <1>9

\* The change of a control, its list and its connection.
LEMMA CtrlChange ==
  ASSUME NEW q, ControlsOK(q), NEW i \in Ctrls, ~On(q.cache, i),
         NEW c \in Conns, c = q.ctrl[i].s,
         NEW new \in CtrlRecs, new.s = c,
         new.rcv # <<>> => Len(new.rcv) <= 1 + new.rcv[1].n,
         NEW list \in Seq(Ctrls), NoneTwice(list),
         \A j \in Ctrls : On(list, j) <=> IF j = i THEN Complete(new.rcv) ELSE On(q.list, j),
         NEW k \in [Conns -> ConnRecs], RoomKept(k), k[c].link = q.conn[c].link,
         \A d \in Conns : d # c => k[d] = q.conn[d],
         NEW q2, q2 = [ctrl |-> [q.ctrl EXCEPT ![i] = new], cache |-> q.cache,
                       list |-> list, conn |-> k]
  PROVE  Served(q, q2, i, c)
  <1>1. /\ q2.ctrl = [q.ctrl EXCEPT ![i] = new] /\ q2.cache = q.cache /\ q2.list = list
        /\ q2.conn = k
    OBVIOUS
  <1>2. /\ q2.ctrl \in [Ctrls -> CtrlRecs] /\ q2.ctrl[i] = new
        /\ \A j \in Ctrls : j # i => q2.ctrl[j] = q.ctrl[j]
    BY <1>1, ControlsTypes
  <1>3. q2 \in ControlPools
    BY <1>1, <1>2, ControlsTypes DEF ControlPools
  <1>4. \A j \in Ctrls : q2.ctrl[j].s = q.ctrl[j].s
    BY <1>2
  <1>5. \A d \in Conns : k[d].link = q.conn[d].link
    OBVIOUS
  <1>6. ControlsOK(q2)
    <2>1. ASSUME NEW j \in Ctrls
          PROVE  /\ ~On(q2.cache, j) => q2.ctrl[j].s # None /\ q2.conn[q2.ctrl[j].s].link = "up"
                 /\ q2.ctrl[j].rcv # <<>> => Len(q2.ctrl[j].rcv) <= 1 + q2.ctrl[j].rcv[1].n
                 /\ On(q2.list, j) <=> ~On(q2.cache, j) /\ Complete(q2.ctrl[j].rcv)
      <3>1. ~On(q2.cache, j) => q2.ctrl[j].s # None /\ q2.conn[q2.ctrl[j].s].link = "up"
        BY <1>1, <1>4, <1>5, CtrlField, RelayNetAssumption, SMTT(30)
      <3>2. q2.ctrl[j].rcv # <<>> => Len(q2.ctrl[j].rcv) <= 1 + q2.ctrl[j].rcv[1].n
        BY <1>2 DEF ControlsOK
      <3>3. On(q2.list, j) <=> ~On(q2.cache, j) /\ Complete(q2.ctrl[j].rcv)
        BY <1>1, <1>2 DEF ControlsOK
      <3> QED
        BY <3>1, <3>2, <3>3
    <2>2. \A j, m \in Ctrls :
            ~On(q2.cache, j) /\ ~On(q2.cache, m) /\ q2.ctrl[j].s = q2.ctrl[m].s => j = m
      BY <1>1, <1>4 DEF ControlsOK
    <2>3. NoneTwice(q2.list) /\ NoneTwice(q2.cache) /\ RoomKept(q2.conn)
      BY <1>1 DEF ControlsOK
    <2> QED
      BY <2>1, <2>2, <2>3, <1>3 DEF ControlsOK
  <1> QED
    BY <1>1, <1>2, <1>6 DEF Served

\* nioasyncread of a control whose message is not complete.
LEMMA AsyncReadServes ==
  ASSUME NEW q, ControlsOK(q), NEW i \in Ctrls, ~On(q.cache, i), ~Complete(q.ctrl[i].rcv),
         NEW c, c = q.ctrl[i].s, NEW q2, q2 = AsyncRead(q, i)
  PROVE  /\ Served(q, q2, i, c)
         /\ ClosedBy(q, q2, i, c) \/ ReadBy(q, q2, i, c)
  <1>1. c \in Conns /\ q.ctrl[i] \in CtrlRecs /\ q.ctrl[i].rcv \in Seq(Items) /\ ~On(q.list, i)
        /\ q.conn[c] \in ConnRecs /\ q.conn[c].in \in Seq(Items)
        /\ q.conn \in [Conns -> ConnRecs] /\ RoomKept(q.conn)
    BY CtrlField, ConnField, ControlsTypes DEF ControlsOK
  <1>2. CASE q.conn[c].in = <<>>
    <2>1. q2 = Shuts(q, i)
      BY <1>2 DEF AsyncRead, Shuts
    <2> QED
      <3>1. Served(q, q2, i, c) /\ ClosedBy(q, q2, i, c)
        BY <2>1, <1>1, ShutsServes
      <3> QED
        BY <3>1
  <1>3. CASE q.conn[c].in # <<>>
    <2>1. PICK h \in Items, t \in Seq(Items) : h = Head(q.conn[c].in) /\ t = Tail(q.conn[c].in)
      BY <1>1, <1>3, HeadTailProperties
    <2>2. PICK rcv \in Seq(Items) : rcv = Append(q.ctrl[i].rcv, h)
      BY <1>1, AppendProperties
    <2>3. PICK list : list = IF Complete(rcv) THEN Append(q.list, i) ELSE q.list
      OBVIOUS
    <2>4. /\ list \in Seq(Ctrls) /\ NoneTwice(list)
          /\ \A j \in Ctrls : On(list, j) <=> IF j = i THEN Complete(rcv) ELSE On(q.list, j)
      <3>1. q.list \in Seq(Ctrls) /\ NoneTwice(q.list)
        BY ControlsTypes DEF ControlsOK
      <3> QED
        BY <3>1, <2>3, <1>1, AppendOnce
    <2>5. PICK new : new = [q.ctrl[i] EXCEPT !.rcv = rcv]
      OBVIOUS
    <2>6. new \in CtrlRecs /\ new.s = c /\ new.rcv = rcv /\ new.snd = q.ctrl[i].snd
      BY <1>1, <2>2, <2>5 DEF CtrlRecs
    <2>7. PICK w : w = [q.conn[c] EXCEPT !.in = t]
      OBVIOUS
    <2>8. /\ w \in ConnRecs /\ w.link = q.conn[c].link /\ w.out = q.conn[c].out /\ w.in = t
          /\ SameEnds(w, q.conn[c])
      BY <1>1, <2>1, <2>7 DEF ConnRecs, SameEnds
    <2>9. PICK k : k = [q.conn EXCEPT ![c] = w]
      OBVIOUS
    <2>10. /\ k \in [Conns -> ConnRecs] /\ RoomKept(k) /\ k[c].link = q.conn[c].link /\ k[c] = w
           /\ \A d \in Conns : d # c => k[d] = q.conn[d]
      BY <1>1, <2>8, <2>9 DEF RoomKept
    <2>11. rcv # <<>> => Len(rcv) <= 1 + rcv[1].n
      <3>1. PICK n \in Nat : n = Len(q.ctrl[i].rcv)
        BY <1>1, LenProperties
      <3>2. /\ Len(rcv) = n + 1 /\ rcv[n + 1] = h
            /\ \A j \in 1 .. n : rcv[j] = q.ctrl[i].rcv[j]
        BY <1>1, <2>2, <3>1, AppendProperties, SMTT(30)
      <3>3. CASE n = 0
        <4>1. rcv[1] \in Items
          BY <3>2, <3>3
        <4>2. rcv[1].n \in Nat
          BY <4>1 DEF Items
        <4> QED
          BY <4>2, <3>2, <3>3
      <3>4. CASE n # 0
        <4>1. q.ctrl[i].rcv # <<>> /\ rcv[1] = q.ctrl[i].rcv[1] /\ rcv[1] \in Items
          BY <1>1, <3>1, <3>2, <3>4, EmptySeq, ElementOfSeq
        <4>2. PICK m \in Nat : m = rcv[1].n
          BY <4>1 DEF Items
        <4>3. n <= 1 + m /\ n # 1 + m
          BY <4>1, <4>2, <3>1 DEF ControlsOK, Complete
        <4> QED
          BY <4>2, <4>3, <3>2
      <3> QED
        BY <3>3, <3>4
    <2>12. q2 = [ctrl |-> [q.ctrl EXCEPT ![i] = new], cache |-> q.cache, list |-> list, conn |-> k]
      <3>1. q2 = [q EXCEPT !.ctrl[i].rcv = rcv, !.conn[c].in = Tail(@), !.list = list]
        BY <1>3, <2>1, <2>2, <2>3, ControlsTypes DEF AsyncRead
      <3> QED
        <4>1. q2 = [q EXCEPT !.ctrl[i] = new, !.conn = k, !.list = list]
          BY <3>1, <1>1, <2>1, <2>5, <2>7, <2>9, ControlsTypes DEF ControlPools
        <4>2. PICK f : f = [q.ctrl EXCEPT ![i] = new]
          OBVIOUS
        <4>3. q \in ControlPools
          BY ControlsTypes
        <4>4. q2 = [ctrl |-> f, cache |-> q.cache, list |-> list, conn |-> k]
          BY <4>1, <4>2, <4>3 DEF ControlPools
        <4> QED
          BY <4>2, <4>4
    <2>13. Served(q, q2, i, c)
      <3>1. new.rcv # <<>> => Len(new.rcv) <= 1 + new.rcv[1].n
        BY <2>6, <2>11
      <3>2. \A j \in Ctrls : On(list, j) <=> IF j = i THEN Complete(new.rcv) ELSE On(q.list, j)
        BY <2>4, <2>6
      <3> QED
        BY <1>1, <2>4, <2>6, <2>10, <2>12, <3>1, <3>2, CtrlChange
    <2>14. ReadBy(q, q2, i, c)
      <3>1. q2.cache = q.cache /\ q2.ctrl[i] = new /\ q2.conn[c] = w
        BY <2>10, <2>12, ControlsTypes
      <3> QED
        BY <3>1, <2>1, <2>2, <2>6, <2>8, <1>3 DEF ReadBy
    <2> QED
      BY <2>13, <2>14
  <1> QED
    BY <1>2, <1>3

\* nioasyncwrite and what nioepoll makes of it, when something can be written.
LEMMA AsyncWriteServes ==
  ASSUME NEW q, ControlsOK(q), NEW i \in Ctrls, ~On(q.cache, i), ~Complete(q.ctrl[i].rcv),
         NEW c, c = q.ctrl[i].s, Writable(q.conn, c), NEW q2, q2 = AsyncWrite(q, i)
  PROVE  /\ Served(q, q2, i, c)
         /\ ClosedBy(q, q2, i, c) \/ WroteBy(q, q2, i, c)
  <1> DEFINE Replies == [reply : Items, done : BOOLEAN]
  <1>1. /\ c \in Conns /\ q.ctrl[i] \in CtrlRecs /\ q.ctrl[i].snd \in Seq(Replies)
        /\ ~On(q.list, i)
        /\ q.conn[c] \in ConnRecs /\ q.conn[c].out \in Seq(Items) /\ Len(q.conn[c].out) \in Nat
        /\ q.conn \in [Conns -> ConnRecs] /\ RoomKept(q.conn)
    BY CtrlField, ConnField, ControlsTypes DEF ControlsOK
  <1>2. PICK snd \in Seq(Replies) : snd = q.ctrl[i].snd
    BY <1>1
  <1>3. PICK last : last = snd[Len(snd)]
    OBVIOUS
  <1>4. CASE snd = <<>> \/ last.done \/ q.conn[c].end = "rst"
    <2>1. q2 = Shuts(q, i)
      BY <1>2, <1>3, <1>4 DEF AsyncWrite, Shuts
    <2>2. Served(q, q2, i, c) /\ ClosedBy(q, q2, i, c)
      BY <2>1, <1>1, ShutsServes
    <2> QED
      BY <2>2
  <1>5. CASE ~(snd = <<>> \/ last.done \/ q.conn[c].end = "rst")
    <2>1. PICK n \in Nat : n = Len(snd)
      BY LenProperties
    <2>2. n \in 1 .. n /\ last \in Replies
      <3>1. snd # <<>>
        BY <1>5
      <3>2. n # 0
        BY <2>1, <3>1, EmptySeq
      <3>3. n \in 1 .. n
        BY <3>2
      <3>4. snd[n] \in Replies
        BY <2>1, <3>3, ElementOfSeq
      <3> QED
        BY <2>1, <3>3, <3>4, <1>3
    <2>3. PICK items : items = <<last.reply>>
      OBVIOUS
    <2>4. items \in Seq(Items) /\ Len(items) = 1
      BY <2>2, <2>3
    <2>5. Fits(q.conn, c, items)
      BY <1>1, <2>4, RelayNetAssumption DEF Fits, Writable
    <2>6. PICK k : k = Written(q.conn, c, items)
      OBVIOUS
    <2>7. /\ k \in [Conns -> ConnRecs] /\ RoomKept(k)
          /\ \A d \in Conns : d # c => k[d] = q.conn[d]
          /\ k[c].link = q.conn[c].link /\ Gets(k[c], q.conn[c], items)
      BY <1>1, <2>4, <2>5, <2>6, WrittenKeeps
    <2>8. PICK marked : marked = [snd EXCEPT ![n].done = TRUE]
      OBVIOUS
    <2>9. /\ marked \in Seq(Replies) /\ marked # <<>> /\ Len(marked) = n
          /\ \A j \in 1 .. n : marked[j].reply = snd[j].reply
      <3>1. PICK e : e = [snd[n] EXCEPT !.done = TRUE]
        OBVIOUS
      <3>2. e \in Replies
        BY <2>1, <2>2, <3>1, <1>3
      <3>3. marked = [snd EXCEPT ![n] = e]
        BY <2>8, <3>1
      <3>4. /\ marked \in Seq(Replies) /\ Len(marked) = n
            /\ \A j \in 1 .. n : marked[j] = IF j = n THEN e ELSE snd[j]
        BY <2>1, <2>2, <3>2, <3>3, ExceptSeq
      <3>5. e.reply = snd[n].reply
        BY <2>1, <2>2, <3>1, <1>3
      <3> QED
        BY <3>4, <3>5, <2>2, EmptySeq
    <2>10. PICK rest : rest = Tail(marked)
      OBVIOUS
    <2>11. rest \in Seq(Replies) /\ Len(rest) = n - 1 /\ \A j \in 1 .. n - 1 : rest[j] = marked[j + 1]
      BY <2>9, <2>10, HeadTailProperties
    <2>12. PICK out \in BOOLEAN : out = (rest # <<>>)
      OBVIOUS
    <2>13. PICK new : new = [q.ctrl[i] EXCEPT !.snd = rest, !.out = out]
      OBVIOUS
    <2>14. new \in CtrlRecs /\ new.s = c /\ new.rcv = q.ctrl[i].rcv /\ new.snd = rest
      BY <1>1, <2>11, <2>13 DEF CtrlRecs
    <2>15. q2 = [ctrl |-> [q.ctrl EXCEPT ![i] = new], cache |-> q.cache, list |-> q.list, conn |-> k]
      <3>1. q2 = [q EXCEPT !.conn = k, !.ctrl[i].snd = rest, !.ctrl[i].out = rest # <<>>]
        <4>1. rest = Tail([snd EXCEPT ![Len(snd)].done = TRUE])
          BY <2>1, <2>8, <2>10
        <4>2. q2 = [q EXCEPT !.conn = Written(@, c, items), !.ctrl[i].snd = rest,
                             !.ctrl[i].out = rest # <<>>]
          BY <4>1, <1>2, <1>3, <1>5, <2>3, Zenon DEF AsyncWrite
        <4> QED
          BY <4>2, <2>6
      <3>2. q2 = [q EXCEPT !.conn = k, !.ctrl[i].snd = rest, !.ctrl[i].out = out]
        BY <3>1, <2>12, Zenon
      <3>3. PICK f : f = [q.ctrl EXCEPT ![i] = new]
        OBVIOUS
      <3>4. q \in ControlPools /\ q.ctrl \in [Ctrls -> CtrlRecs]
        BY ControlsTypes
      <3>a. PICK g : g = [[q.ctrl EXCEPT ![i].snd = rest] EXCEPT ![i].out = out]
        OBVIOUS
      <3>b. g = f
        <4>1. new = [[q.ctrl[i] EXCEPT !.snd = rest] EXCEPT !.out = out]
          BY <2>13, <1>1
        <4>2. g = [q.ctrl EXCEPT ![i] = [[q.ctrl[i] EXCEPT !.snd = rest] EXCEPT !.out = out]]
          BY <3>a, <3>4
        <4> QED
          BY <4>1, <4>2, <3>3
      <3>5. q2 = [q EXCEPT !.conn = k, !.ctrl = f]
        BY <3>2, <3>4, <3>a, <3>b, ZenonT(40) DEF ControlPools
      <3>6. q2 = [ctrl |-> f, cache |-> q.cache, list |-> q.list, conn |-> k]
        BY <3>4, <3>5 DEF ControlPools
      <3> QED
        BY <3>3, <3>6
    <2>16. Served(q, q2, i, c)
      <3>1. q.list \in Seq(Ctrls) /\ NoneTwice(q.list)
        BY ControlsTypes DEF ControlsOK
      <3>2. new.rcv # <<>> => Len(new.rcv) <= 1 + new.rcv[1].n
        BY <2>14 DEF ControlsOK
      <3>3. \A j \in Ctrls : On(q.list, j) <=> IF j = i THEN Complete(new.rcv) ELSE On(q.list, j)
        BY <2>14, <1>1
      <3> QED
        BY <1>1, <2>7, <2>14, <2>15, <3>1, <3>2, <3>3, CtrlChange
    <2>17. WroteBy(q, q2, i, c)
      <3>1. q2.cache = q.cache /\ q2.ctrl[i] = new /\ q2.conn = k
        BY <2>15, ControlsTypes
      <3>2. ASSUME NEW m, Owes(new, m)
            PROVE  Owes(q.ctrl[i], m)
        <4>1. PICK j \in 1 .. n - 1 : rest[j].reply = m
          BY <3>2, <2>11, <2>14 DEF Owes
        <4>2. PICK x \in 1 .. n : x = j + 1
          BY <2>1
        <4>3. snd[x].reply = m
          BY <4>1, <4>2, <2>9, <2>11
        <4> QED
          BY <4>3, <2>1, <1>2 DEF Owes
      <3>3. ASSUME NEW m, On(k[c].out, m)
            PROVE  On(q.conn[c].out, m) \/ Owes(q.ctrl[i], m)
        <4>1. CASE k[c].out = q.conn[c].out
          BY <3>3, <4>1
        <4>2. CASE k[c].out = q.conn[c].out \o items
          <5>1. On(q.conn[c].out, m) \/ On(items, m)
            <6>1. PICK old \in Seq(Items) : old = q.conn[c].out
              BY <1>1
            <6>2. PICK more \in Seq(Items) : more = items
              BY <2>4
            <6>3. On(old \o more, m)
              BY <3>3, <4>2, <6>1, <6>2
            <6> QED
              BY <6>1, <6>2, <6>3, OnConcat
          <5>2. On(items, m) => m = snd[n].reply
            BY <2>1, <2>3, <2>4, <1>3 DEF On
          <5> QED
            BY <5>1, <5>2, <2>1, <2>2, <1>2 DEF Owes
        <4> QED
          BY <4>1, <4>2, <2>7 DEF Gets
      <3>4. SameSide(k[c], q.conn[c])
        BY <2>7 DEF Gets
      <3> QED
        BY <3>1, <3>2, <3>3, <3>4, <2>14, <1>2, <1>5 DEF WroteBy
    <2> QED
      BY <2>16, <2>17
  <1> QED
    BY <1>4, <1>5

\* The daemon takes the first control off the list and its message off the control.
TakenOff(q) == [q EXCEPT !.list = Tail(@), !.ctrl[Head(q.list)].rcv = <<>>]

LEMMA TakenServes ==
  ASSUME NEW q, ControlsOK(q), q.list # <<>>, NEW i, i = Head(q.list), NEW q2, q2 = TakenOff(q)
  PROVE  /\ i \in Ctrls /\ ~On(q.cache, i) /\ Complete(q.ctrl[i].rcv)
         /\ Served(q, q2, i, q.ctrl[i].s)
         /\ ~On(q2.cache, i) /\ ~On(q2.list, i) /\ q2.conn = q.conn
         /\ q2.ctrl[i].s = q.ctrl[i].s /\ q2.ctrl[i].rcv = <<>> /\ q2.ctrl[i].snd = q.ctrl[i].snd
  <1>1. q.list \in Seq(Ctrls) /\ NoneTwice(q.list)
    BY ControlsTypes DEF ControlsOK
  <1>2. PICK list : list = Tail(q.list)
    OBVIOUS
  <1>3. /\ i \in Ctrls /\ On(q.list, i) /\ list \in Seq(Ctrls) /\ NoneTwice(list)
        /\ \A x : On(list, x) <=> On(q.list, x) /\ x # i
    BY <1>1, <1>2, TailOnce
  <1>4. ~On(q.cache, i) /\ Complete(q.ctrl[i].rcv) /\ q.ctrl[i] \in CtrlRecs /\ q.ctrl[i].s \in Conns
    BY <1>3, CtrlField DEF ControlsOK
  <1>5. PICK e \in Seq(Items) : e = <<>>
    BY EmptySeq
  <1>6. PICK new : new = [q.ctrl[i] EXCEPT !.rcv = e]
    OBVIOUS
  <1>7. /\ new \in CtrlRecs /\ new.s = q.ctrl[i].s /\ new.rcv = <<>> /\ ~Complete(new.rcv)
        /\ new.snd = q.ctrl[i].snd
    <2>1. new \in CtrlRecs /\ new.s = q.ctrl[i].s /\ new.rcv = e /\ new.snd = q.ctrl[i].snd
      BY <1>4, <1>6 DEF CtrlRecs
    <2>2. ~Complete(e)
      BY <1>5 DEF Complete
    <2> QED
      BY <2>1, <2>2, <1>5
  <1>8. q2 = [ctrl |-> [q.ctrl EXCEPT ![i] = new], cache |-> q.cache, list |-> list, conn |-> q.conn]
    <2>1. q \in ControlPools
      BY ControlsTypes
    <2> QED
      BY <2>1, <1>2, <1>5, <1>6 DEF TakenOff, ControlPools
  <1>9. Served(q, q2, i, q.ctrl[i].s)
    <2>1. \A j \in Ctrls : On(list, j) <=> IF j = i THEN Complete(new.rcv) ELSE On(q.list, j)
      BY <1>3, <1>7
    <2>2. q.conn \in [Conns -> ConnRecs] /\ RoomKept(q.conn)
      BY ControlsTypes
    <2> QED
      BY <2>1, <2>2, <1>3, <1>4, <1>7, <1>8, CtrlChange
  <1>10. q2.cache = q.cache /\ q2.list = list /\ q2.conn = q.conn /\ q2.ctrl[i] = new
    BY <1>3, <1>8, ControlsTypes
  <1> QED
    BY <1>3, <1>4, <1>7, <1>9, <1>10

\* Nothing but the reply m more than before.
OwesMore(new, old, m) == \A x : Owes(new, x) => Owes(old, x) \/ x = m

\* niopreparewrite.
LEMMA PrepareWriteServes ==
  ASSUME NEW q, ControlsOK(q), NEW i \in Ctrls, ~On(q.cache, i), ~On(q.list, i),
         NEW reply \in Items, NEW q2, q2 = PrepareWrite(q, i, reply)
  PROVE  /\ Served(q, q2, i, q.ctrl[i].s)
         /\ ~On(q2.cache, i) /\ q2.conn = q.conn /\ q2.ctrl[i].s = q.ctrl[i].s
         /\ q2.ctrl[i].rcv = q.ctrl[i].rcv
         /\ OwesMore(q2.ctrl[i], q.ctrl[i], reply)
  <1> DEFINE Replies == [reply : Items, done : BOOLEAN]
  <1>1. /\ q.ctrl[i] \in CtrlRecs /\ q.ctrl[i].snd \in Seq(Replies) /\ q.ctrl[i].s \in Conns
        /\ q.list \in Seq(Ctrls) /\ NoneTwice(q.list)
        /\ q.conn \in [Conns -> ConnRecs] /\ RoomKept(q.conn) /\ q \in ControlPools
    BY CtrlField, ControlsTypes DEF ControlsOK
  <1>2. PICK e \in Replies : e = [reply |-> reply, done |-> FALSE]
    OBVIOUS
  <1>3. PICK snd \in Seq(Replies) : snd = Append(q.ctrl[i].snd, e)
    BY <1>1, AppendProperties
  <1>4. PICK new : new = [q.ctrl[i] EXCEPT !.out = TRUE, !.snd = snd]
    OBVIOUS
  <1>5. new \in CtrlRecs /\ new.s = q.ctrl[i].s /\ new.rcv = q.ctrl[i].rcv /\ new.snd = snd
    BY <1>1, <1>4 DEF CtrlRecs
  <1>6. q2 = [ctrl |-> [q.ctrl EXCEPT ![i] = new], cache |-> q.cache, list |-> q.list, conn |-> q.conn]
    BY <1>1, <1>2, <1>3, <1>4 DEF PrepareWrite, ControlPools
  <1>7. Served(q, q2, i, q.ctrl[i].s)
    <2>1. \A j \in Ctrls : On(q.list, j) <=> IF j = i THEN Complete(new.rcv) ELSE On(q.list, j)
      BY <1>5 DEF ControlsOK
    <2>2. new.rcv # <<>> => Len(new.rcv) <= 1 + new.rcv[1].n
      BY <1>5 DEF ControlsOK
    <2> QED
      BY <2>1, <2>2, <1>1, <1>5, <1>6, CtrlChange
  <1>8. q2.cache = q.cache /\ q2.conn = q.conn /\ q2.ctrl[i] = new
    BY <1>6, ControlsTypes
  <1>9. ASSUME NEW m, Owes(new, m)
        PROVE  Owes(q.ctrl[i], m) \/ m = reply
    <2>1. PICK n \in Nat : n = Len(q.ctrl[i].snd)
      BY <1>1, LenProperties
    <2>2. /\ Len(snd) = n + 1 /\ snd[n + 1] = e
          /\ \A j \in 1 .. n : snd[j] = q.ctrl[i].snd[j]
      BY <2>1, <1>1, <1>3, AppendProperties
    <2>3. PICK j \in 1 .. n + 1 : snd[j].reply = m
      BY <2>2, <1>5, <1>9 DEF Owes
    <2>4. CASE j = n + 1
      BY <2>2, <2>3, <2>4, <1>2
    <2>5. CASE j # n + 1
      <3>1. j \in 1 .. n
        BY <2>1, <2>5
      <3> QED
        BY <3>1, <2>1, <2>2, <2>3 DEF Owes
    <2> QED
      BY <2>4, <2>5
  <1> QED
    BY <1>5, <1>7, <1>8, <1>9 DEF OwesMore

-----------------------------------------------------------------------------
\* The relays and the controls together.

\* The connections change, but none gets up or down, and none can be written to
\* no longer.
PoolWith(p, k) == [relay |-> p.relay, cache |-> p.cache, hash |-> p.hash, conn |-> k]
ControlsWith(q, k) == [ctrl |-> q.ctrl, cache |-> q.cache, list |-> q.list, conn |-> k]

UpAlike(k, w) == \A d \in Conns : w[d].link = "up" <=> k[d].link = "up"

LEMMA ConnsChange ==
  ASSUME NEW p, PoolOK(p), NEW q, ControlsOK(q), OneOwner(p, q), q.conn = p.conn,
         NEW k \in [Conns -> ConnRecs], RoomKept(k),
         UpAlike(q.conn, k)
  PROVE  /\ PoolOK(PoolWith(p, k)) /\ ControlsOK(ControlsWith(q, k))
         /\ OneOwner(PoolWith(p, k), ControlsWith(q, k))
  <1>0. PICK p2, q2 : p2 = PoolWith(p, k) /\ q2 = ControlsWith(q, k)
    OBVIOUS
  <1>1. p2 \in Pools /\ q2 \in ControlPools
    BY <1>0, ControlsTypes DEF PoolOK, Pools, ControlPools, PoolWith, ControlsWith
  <1>2. /\ p2.relay = p.relay /\ p2.cache = p.cache /\ p2.hash = p.hash /\ p2.conn = k
        /\ q2.ctrl = q.ctrl /\ q2.cache = q.cache /\ q2.list = q.list /\ q2.conn = k
    BY <1>0 DEF PoolWith, ControlsWith
  <1>3. ASSUME NEW sid \in Sids, p.relay[sid].s # None
        PROVE  k[p.relay[sid].s].link = "up"
    <2>1. p.relay[sid].s \in Conns
      BY <1>3, RelayField
    <2>2. p.conn[p.relay[sid].s].link = "up"
      BY <1>3 DEF PoolOK
    <2> QED
      BY <2>1, <2>2 DEF UpAlike
  <1>4. PoolOK(p2)
    BY <1>1, <1>2, <1>3 DEF PoolOK
  <1>5. ASSUME NEW i \in Ctrls, ~On(q.cache, i)
        PROVE  q.ctrl[i].s # None /\ k[q.ctrl[i].s].link = "up"
    BY <1>5, CtrlField, RelayNetAssumption DEF UpAlike
  <1>6. ControlsOK(q2)
    BY <1>1, <1>2, <1>5 DEF ControlsOK
  <1>7. OneOwner(p2, q2)
    BY <1>2 DEF OneOwner, HeldByRelay, HeldByCtrl, UpAlike
  <1> QED
    BY <1>0, <1>4, <1>6, <1>7

LEMMA ConnsChangeEvents ==
  ASSUME NEW q, ControlsOK(q), NEW b \in SUBSET Events, BatchOK(q, b), NEW k,
         \A d \in Conns : Writable(q.conn, d) => Writable(k, d),
         NEW q2, q2 = [ctrl |-> q.ctrl, cache |-> q.cache, list |-> q.list, conn |-> k]
  PROVE  BatchOK(q2, b)
  <1>1. q2.ctrl = q.ctrl /\ q2.cache = q.cache /\ q2.conn = k
    OBVIOUS
  <1>2. ASSUME NEW e \in b
        PROVE  EventOK(q2, e)
    <2>1. ASSUME e.kind = "ctrl"
          PROVE  e.id \in Ctrls
      BY <2>1 DEF Events
    <2>2. EventOK(q, e)
      BY DEF BatchOK
    <2> QED
      BY <1>1, <2>1, <2>2, CtrlField DEF EventOK
  <1> QED
    BY <1>2 DEF BatchOK

\* A control is served: its connection, if it gives it up, is closed.
LEMMA ServedTogether ==
  ASSUME NEW p, PoolOK(p), NEW q, ControlsOK(q), OneOwner(p, q), q.conn = p.conn,
         NEW i \in Ctrls, ~On(q.cache, i), NEW c, c = q.ctrl[i].s,
         NEW q2, Served(q, q2, i, c),
         \/ On(q2.cache, i) /\ q2.conn[c].link = "closed"
         \/ ~On(q2.cache, i) /\ q2.ctrl[i].s = c,
         NEW p2, p2 = [relay |-> p.relay, cache |-> p.cache, hash |-> p.hash, conn |-> q2.conn]
  PROVE  PoolOK(p2) /\ OneOwner(p2, q2)
  <1>1. c \in Conns /\ q.conn[c].link = "up" /\ ControlsOK(q2)
    BY CtrlField DEF Served
  <1>2. q2.conn \in [Conns -> ConnRecs] /\ RoomKept(q2.conn)
    BY <1>1, ControlsTypes
  <1>3. ~HeldByRelay(p, c)
    BY <1>1 DEF OneOwner, HeldByCtrl
  <1>4. /\ p2.relay = p.relay /\ p2.cache = p.cache /\ p2.hash = p.hash /\ p2.conn = q2.conn
        /\ p2 \in Pools
    BY <1>2 DEF PoolOK, Pools
  <1>5. ASSUME NEW sid \in Sids, p.relay[sid].s # None
        PROVE  q2.conn[p.relay[sid].s].link = "up"
    <2>1. p.relay[sid].s \in Conns /\ p.relay[sid].s # c
      BY <1>3, <1>5, RelayField DEF HeldByRelay
    <2>2. p.conn[p.relay[sid].s].link = "up"
      BY <1>5 DEF PoolOK
    <2> QED
      BY <2>1, <2>2 DEF Served
  <1>6. PoolOK(p2)
    BY <1>2, <1>4, <1>5 DEF PoolOK
  <1>7. ASSUME NEW d \in Conns
        PROVE  /\ HeldByRelay(p2, d) <=> HeldByRelay(p, d)
               /\ d # c => (HeldByCtrl(q2, d) <=> HeldByCtrl(q, d)) /\ q2.conn[d] = q.conn[d]
               /\ q2.conn[c].link = "up" => HeldByCtrl(q2, c)
    <2>1. HeldByRelay(p2, d) <=> HeldByRelay(p, d)
      BY <1>4 DEF HeldByRelay
    <2>2. ASSUME d # c
          PROVE  HeldByCtrl(q2, d) <=> HeldByCtrl(q, d)
      BY <2>2 DEF Served, HeldByCtrl
    <2>3. ASSUME q2.conn[c].link = "up"
          PROVE  HeldByCtrl(q2, c)
      BY <2>3 DEF HeldByCtrl
    <2> QED
      BY <2>1, <2>2, <2>3 DEF Served
  <1>8. ASSUME NEW d \in Conns
        PROVE  /\ ~(HeldByRelay(p2, d) /\ HeldByCtrl(q2, d))
               /\ q2.conn[d].link = "up" => HeldByRelay(p2, d) \/ HeldByCtrl(q2, d)
    <2>1. CASE d = c
      BY <2>1, <1>3, <1>7
    <2>2. CASE d # c
      BY <2>2, <1>7 DEF OneOwner
    <2> QED
      BY <2>1, <2>2
  <1> QED
    BY <1>6, <1>8 DEF OneOwner

LEMMA ServedEvents ==
  ASSUME NEW q, ControlsOK(q), NEW b \in SUBSET Events, BatchOK(q, b),
         NEW i \in Ctrls, ~On(q.cache, i), NEW c, c = q.ctrl[i].s,
         NEW q2, Served(q, q2, i, c),
         \A e \in b : e.kind = "ctrl" => e.id # i
  PROVE  BatchOK(q2, b)
  <1>1. ASSUME NEW e \in b
        PROVE  EventOK(q2, e)
    <2>1. ASSUME e.kind = "ctrl"
          PROVE  /\ e.id \in Ctrls /\ e.id # i /\ ~On(q.cache, e.id)
                 /\ q.ctrl[e.id].s \in Conns /\ q.ctrl[e.id].s # c
      <3>1. e.id \in Ctrls /\ e.id # i /\ ~On(q.cache, e.id)
        BY <2>1 DEF BatchOK, EventOK, Events
      <3> QED
        BY <3>1, CtrlField DEF ControlsOK
    <2>2. EventOK(q, e)
      BY DEF BatchOK
    <2> QED
      BY <2>1, <2>2 DEF EventOK, Served, Writable
  <1> QED
    BY <1>1 DEF BatchOK

LEMMA ServedOn ==
  ASSUME NEW q, NEW r, NEW t, NEW i, NEW c, Served(q, r, i, c), Served(r, t, i, c)
  PROVE  Served(q, t, i, c)
  BY DEF Served

\* A handler of relays leaves the controls' connections alone.
LEMMA MovesTogether ==
  ASSUME NEW p, PoolOK(p), NEW q, ControlsOK(q), OneOwner(p, q), q.conn = p.conn,
         NEW p2, PoolOK(p2), Moves(p, p2),
         NEW q2, q2 = [ctrl |-> q.ctrl, cache |-> q.cache, list |-> q.list, conn |-> p2.conn],
         NEW b \in SUBSET Events, BatchOK(q, b)
  PROVE  ControlsOK(q2) /\ OneOwner(p2, q2) /\ BatchOK(q2, b)
  <1>1. /\ q2.ctrl = q.ctrl /\ q2.cache = q.cache /\ q2.list = q.list /\ q2.conn = p2.conn
        /\ p2.conn \in [Conns -> ConnRecs] /\ RoomKept(p2.conn)
    BY DEF PoolOK, Pools
  <1>2. q2 \in ControlPools
    BY <1>1, ControlsTypes DEF ControlPools
  <1>3. ASSUME NEW i \in Ctrls, ~On(q.cache, i)
        PROVE  /\ q.ctrl[i].s \in Conns /\ p2.conn[q.ctrl[i].s] = q.conn[q.ctrl[i].s]
               /\ q.conn[q.ctrl[i].s].link = "up"
    <2>1. q.ctrl[i].s \in Conns /\ q.conn[q.ctrl[i].s].link = "up"
      BY <1>3, CtrlField
    <2>2. ~HeldByRelay(p, q.ctrl[i].s)
      BY <2>1, <1>3 DEF OneOwner, HeldByCtrl
    <2> QED
      BY <2>1, <2>2 DEF Moves
  <1>4. ControlsOK(q2)
    BY <1>1, <1>2, <1>3, RelayNetAssumption DEF ControlsOK
  <1>5. OneOwner(p2, q2)
    BY <1>1 DEF OneOwner, HeldByCtrl, Moves
  <1>6. ASSUME NEW e \in b
        PROVE  EventOK(q2, e)
    <2>1. ASSUME e.kind = "ctrl"
          PROVE  e.id \in Ctrls
      BY <2>1 DEF Events
    <2>2. EventOK(q, e)
      BY DEF BatchOK
    <2> QED
      BY <1>1, <1>3, <2>1, <2>2 DEF EventOK, Writable
  <1>7. BatchOK(q2, b)
    BY <1>6 DEF BatchOK
  <1> QED
    BY <1>4, <1>5, <1>7

\* nioacceptctrl with no control left.
LEMMA RefusedIs ==
  ASSUME NEW k \in [Conns -> ConnRecs], RoomKept(k), NEW c \in Conns, k[c].link = "waiting",
         NEW w, w = Shut(k, c)
  PROVE  /\ w \in [Conns -> ConnRecs] /\ RoomKept(w)
         /\ \A d \in Conns : /\ w[d].link = "up" <=> k[d].link = "up"
                             /\ Writable(k, d) => Writable(w, d)
  <1>1. /\ w \in [Conns -> ConnRecs] /\ RoomKept(w) /\ w[c].link = "closed"
        /\ \A d \in Conns : d # c => w[d] = k[d]
    BY ShutKeeps
  <1>2. w[c].out = k[c].out /\ (w[c].end = "open" => k[c].end = "open")
    <2>1. k[c] \in ConnRecs
      OBVIOUS
    <2> QED
      BY <2>1 DEF Shut, ConnRecs
  <1> QED
    BY <1>1, <1>2 DEF Writable

\* The free control i has got the connection c.
Accepted(q, q2, i, c) ==
  /\ ~On(q2.cache, i) /\ q2.ctrl[i].s = c /\ q2.ctrl[i].rcv = <<>> /\ q2.ctrl[i].snd = <<>>
  /\ \A j \in Ctrls : j # i => q2.ctrl[j] = q.ctrl[j] /\ (On(q2.cache, j) <=> On(q.cache, j))
  /\ \A d \in Conns : d # c => q2.conn[d] = q.conn[d]
  /\ q2.conn[c] = [q.conn[c] EXCEPT !.link = "up"]

\* nioacceptctrl with one left.
LEMMA AcceptIs ==
  ASSUME NEW p, PoolOK(p), NEW q, ControlsOK(q), OneOwner(p, q), q.conn = p.conn,
         NEW c \in Conns, q.conn[c].link = "waiting", q.cache # <<>>,
         NEW i, i = Head(q.cache),
         NEW q2, q2 = AcceptCtrl(q, c),
         NEW b \in SUBSET Events, BatchOK(q, b)
  PROVE  /\ PoolOK(PoolWith(p, q2.conn)) /\ ControlsOK(q2) /\ OneOwner(PoolWith(p, q2.conn), q2)
         /\ BatchOK(q2, b)
         /\ i \in Ctrls /\ Accepted(q, q2, i, c)
  <1>0. PICK p2 : p2 = PoolWith(p, q2.conn)
    OBVIOUS
  <1>1. /\ q \in ControlPools /\ q.cache \in Seq(Ctrls) /\ q.conn \in [Conns -> ConnRecs]
        /\ q.ctrl \in [Ctrls -> CtrlRecs] /\ NoneTwice(q.cache) /\ NoneTwice(q.list)
    BY ControlsTypes DEF ControlsOK
  <1>2. PICK cache : cache = Tail(q.cache)
    OBVIOUS
  <1>3. /\ i \in Ctrls /\ On(q.cache, i) /\ cache \in Seq(Ctrls) /\ NoneTwice(cache)
        /\ \A x : On(cache, x) <=> On(q.cache, x) /\ x # i
    BY <1>1, <1>2, TailOnce
  <1>4. PICK new : new = [NoCtrl EXCEPT !.s = c]
    OBVIOUS
  <1>5. new \in CtrlRecs /\ new.s = c /\ new.rcv = <<>> /\ ~Complete(new.rcv) /\ new.snd = <<>>
    <2>1. new \in CtrlRecs /\ new.s = c /\ new.rcv = <<>> /\ new.snd = <<>>
      BY <1>4, NewCtrlIs
    <2> QED
      BY <2>1 DEF Complete
  <1>6. PICK w : w = [q.conn[c] EXCEPT !.link = "up"]
    OBVIOUS
  <1>7. q.conn[c] \in ConnRecs /\ w \in ConnRecs /\ w.link = "up" /\ w.out = q.conn[c].out
        /\ w.end = q.conn[c].end
    BY <1>1, <1>6 DEF ConnRecs
  <1>8. PICK k : k = [q.conn EXCEPT ![c] = w]
    OBVIOUS
  <1>9. /\ k \in [Conns -> ConnRecs] /\ k[c] = w /\ \A d \in Conns : d # c => k[d] = q.conn[d]
    BY <1>1, <1>7, <1>8
  <1>10. RoomKept(k)
    BY <1>7, <1>9, ControlsTypes DEF RoomKept
  <1>11. PICK f : f = [q.ctrl EXCEPT ![i] = new]
    OBVIOUS
  <1>12. f \in [Ctrls -> CtrlRecs] /\ f[i] = new /\ \A j \in Ctrls : j # i => f[j] = q.ctrl[j]
    BY <1>1, <1>3, <1>5, <1>11
  <1>13. q2 = [ctrl |-> f, cache |-> cache, list |-> q.list, conn |-> k]
    <2>1. q2 = [q EXCEPT !.cache = cache, !.ctrl[i] = new, !.conn[c].link = "up"]
      BY <1>2, <1>4 DEF AcceptCtrl
    <2>2. q2 = [q EXCEPT !.cache = cache, !.ctrl = f, !.conn = k]
      BY <2>1, <1>1, <1>6, <1>8, <1>11 DEF ControlPools
    <2> QED
      BY <2>2, <1>1 DEF ControlPools
  <1>14. /\ q2.ctrl = f /\ q2.cache = cache /\ q2.list = q.list /\ q2.conn = k
         /\ q2 \in ControlPools
    BY <1>1, <1>3, <1>9, <1>12, <1>13 DEF ControlPools
  <1>15. ASSUME NEW j \in Ctrls, ~On(cache, j), j # i
         PROVE  /\ ~On(q.cache, j) /\ q.ctrl[j].s # c /\ q.ctrl[j].s \in Conns
                /\ k[q.ctrl[j].s] = q.conn[q.ctrl[j].s] /\ q.conn[q.ctrl[j].s].link = "up"
    <2>1. ~On(q.cache, j)
      BY <1>3, <1>15
    <2>2. q.ctrl[j].s \in Conns /\ q.conn[q.ctrl[j].s].link = "up"
      BY <2>1, CtrlField
    <2> QED
      BY <2>1, <2>2, <1>9
  <1>16. ControlsOK(q2)
    <2>1. ASSUME NEW j \in Ctrls
          PROVE  /\ ~On(q2.cache, j) => q2.ctrl[j].s # None /\ q2.conn[q2.ctrl[j].s].link = "up"
                 /\ q2.ctrl[j].rcv # <<>> => Len(q2.ctrl[j].rcv) <= 1 + q2.ctrl[j].rcv[1].n
                 /\ On(q2.list, j) <=> ~On(q2.cache, j) /\ Complete(q2.ctrl[j].rcv)
      <3>1. CASE j = i
        <4>1. ~On(q.list, i)
          BY <1>3 DEF ControlsOK
        <4> QED
          BY <3>1, <4>1, <1>5, <1>7, <1>9, <1>12, <1>14, RelayNetAssumption
      <3>2. CASE j # i
        <4>1. q2.ctrl[j] = q.ctrl[j] /\ (On(q2.cache, j) <=> On(q.cache, j)) /\ q2.list = q.list
          BY <3>2, <1>3, <1>12, <1>14
        <4>2. ~On(q2.cache, j) => q2.ctrl[j].s # None /\ q2.conn[q2.ctrl[j].s].link = "up"
          BY <3>2, <4>1, <1>14, <1>15, RelayNetAssumption
        <4> QED
          BY <4>1, <4>2 DEF ControlsOK
      <3> QED
        BY <3>1, <3>2
    <2>2. \A j, m \in Ctrls :
            ~On(q2.cache, j) /\ ~On(q2.cache, m) /\ q2.ctrl[j].s = q2.ctrl[m].s => j = m
      <3>1. ASSUME NEW j \in Ctrls, NEW m \in Ctrls, ~On(cache, j), ~On(cache, m), f[j].s = f[m].s
            PROVE  j = m
        BY <3>1, <1>5, <1>12, <1>15 DEF ControlsOK
      <3> QED
        BY <3>1, <1>14
    <2> QED
      BY <2>1, <2>2, <1>1, <1>3, <1>10, <1>14 DEF ControlsOK
  <1>17. ~HeldByRelay(p, c)
    BY RelayNetAssumption DEF HeldByRelay, PoolOK
  <1>18. /\ p2.relay = p.relay /\ p2.cache = p.cache /\ p2.hash = p.hash /\ p2.conn = k
         /\ p2 \in Pools
    BY <1>0, <1>9, <1>14 DEF PoolOK, Pools, PoolWith
  <1>19. PoolOK(p2)
    <2>1. ASSUME NEW sid \in Sids, p.relay[sid].s # None
          PROVE  k[p.relay[sid].s].link = "up"
      <3>1. p.relay[sid].s \in Conns /\ p.conn[p.relay[sid].s].link = "up"
        BY <2>1, RelayField DEF PoolOK
      <3> QED
        BY <3>1, <1>9
    <2> QED
      BY <2>1, <1>10, <1>18 DEF PoolOK
  <1>20. OneOwner(p2, q2)
    <2>1. \A d \in Conns : HeldByRelay(p2, d) <=> HeldByRelay(p, d)
      BY <1>18 DEF HeldByRelay
    <2>2. \A d \in Conns : d # c => (HeldByCtrl(q2, d) <=> HeldByCtrl(q, d))
      <3>1. \A j \in Ctrls : j # i => f[j] = q.ctrl[j] /\ (On(cache, j) <=> On(q.cache, j))
        BY <1>3, <1>12
      <3> QED
        BY <3>1, <1>3, <1>5, <1>12, <1>14 DEF HeldByCtrl
    <2>3. HeldByCtrl(q2, c)
      BY <1>3, <1>5, <1>12, <1>14 DEF HeldByCtrl
    <2>4. ASSUME NEW d \in Conns
          PROVE  /\ ~(HeldByRelay(p2, d) /\ HeldByCtrl(q2, d))
                 /\ q2.conn[d].link = "up" => HeldByRelay(p2, d) \/ HeldByCtrl(q2, d)
      <3>1. CASE d = c
        BY <3>1, <2>1, <2>3, <1>17
      <3>2. CASE d # c
        BY <3>2, <2>1, <2>2, <1>9, <1>14 DEF OneOwner
      <3> QED
        BY <3>1, <3>2
    <2> QED
      BY <2>4 DEF OneOwner
  <1>21. BatchOK(q2, b)
    <2>1. ASSUME NEW e \in b
          PROVE  EventOK(q2, e)
      <3>1. EventOK(q, e) /\ (e.kind = "ctrl" => e.id \in Ctrls)
        BY DEF BatchOK, Events
      <3>2. ASSUME e.kind = "ctrl"
            PROVE  /\ ~On(cache, e.id) /\ e.id # i
        BY <3>1, <3>2, <1>3 DEF EventOK
      <3> QED
        BY <3>1, <3>2, <1>12, <1>14, <1>15 DEF EventOK, Writable
    <2> QED
      BY <2>1 DEF BatchOK
  <1>22. Accepted(q, q2, i, c)
    BY <1>3, <1>5, <1>6, <1>9, <1>12, <1>14 DEF Accepted
  <1> QED
    BY <1>0, <1>3, <1>14, <1>16, <1>19, <1>20, <1>21, <1>22

-----------------------------------------------------------------------------
\* The invariant is inductive.

LEMMA NioInvNext ==
  ASSUME NEW p, NEW q, PoolOK(p), ControlsOK(q), OneOwner(p, q), BatchOK(q, batch'), LoopOK',
         p = Pool', q = Controls'
  PROVE  NioInv'
  <1>1. PoolOK(Pool)'
    BY DEF PoolOK, Pool, Pools, RoomKept, On, NoneTwice, RelayRecs
  <1>2. ControlsOK(Controls)'
    BY DEF ControlsOK, Controls
  <1>3. OneOwner(Pool, Controls)'
    BY DEF OneOwner, Pool, Controls
  <1>4. BatchOK(Controls, batch)'
    BY DEF BatchOK, Controls
  <1> QED
    BY <1>1, <1>2, <1>3, <1>4 DEF NioInv

LEMMA HeldTypes ==
  ASSUME NioInv
  PROVE  /\ PoolOK(Pool) /\ ControlsOK(Controls) /\ OneOwner(Pool, Controls)
         /\ BatchOK(Controls, batch) /\ batch \in SUBSET Events
         /\ Pool.conn = conn /\ Pool.relay = relay /\ Pool.cache = relaycache /\ Pool.hash = wpeers
         /\ Controls.conn = conn /\ Controls.ctrl = ctrl /\ Controls.cache = ctrlcache
         /\ Controls.list = ctrlist
         /\ conn \in [Conns -> ConnRecs] /\ RoomKept(conn)
  <1>1. /\ PoolOK(Pool) /\ ControlsOK(Controls) /\ OneOwner(Pool, Controls)
        /\ BatchOK(Controls, batch) /\ batch \in SUBSET Events
    BY DEF NioInv, LoopOK
  <1>2. /\ Pool.conn = conn /\ Pool.relay = relay /\ Pool.cache = relaycache /\ Pool.hash = wpeers
        /\ Controls.conn = conn /\ Controls.ctrl = ctrl /\ Controls.cache = ctrlcache
        /\ Controls.list = ctrlist
    BY DEF Pool, Controls
  <1> QED
    BY <1>1, <1>2 DEF PoolOK, Pools

\* A handled event leaves what is still to be handled.
LEMMA FewerEvents ==
  ASSUME NEW q, NEW b \in SUBSET Events, BatchOK(q, b), NEW e
  PROVE  BatchOK(q, b \ {e})
  BY DEF BatchOK

LEMMA InitHolds ==
  ASSUME Init
  PROVE  NioInv
  <1>1. PICK e \in Seq(Items) : e = <<>> /\ Len(e) = 0
    BY EmptySeq
  <1>2. conn = [c \in Conns |-> Fresh] /\ Fresh \in ConnRecs /\ Fresh.link = "none" /\ Len(Fresh.out) = 0
    <2>1. 0 \in Sids
      BY NioRelayAssumption DEF Sids
    <2> QED
      BY <1>1, <2>1 DEF Init, NetInit, Fresh, ConnRecs
  <1>3. RoomKept(conn) /\ conn \in [Conns -> ConnRecs]
    BY <1>2, RelayNetAssumption DEF RoomKept
  <1>4. ASSUME NEW sid \in Sids
        PROVE  /\ relay[sid] \in RelayRecs /\ relay[sid].s = None /\ relay[sid].status = "idle"
               /\ Len(relay[sid].buf) = 0 /\ relay[sid].x2 = 0
    <2>1. relay[sid] = [status |-> "idle", s |-> None, peer |-> sid, buf |-> e, x2 |-> 0,
                        out |-> FALSE, over |-> FALSE, ask |-> [by |-> None, n |-> 0]]
      BY <1>1 DEF Init, RelayInit, NoRelay
    <2>2. [by |-> None, n |-> 0] \in Asks
      BY DEF Asks
    <2> QED
      BY <1>1, <2>1, <2>2 DEF RelayRecs
  <1>5. /\ relaycache \in Seq(Sids) /\ Len(relaycache) = MaxRelay /\ NoneTwice(relaycache)
        /\ \A sid \in Sids : On(relaycache, sid)
    <2>1. MaxRelay \in Nat /\ relaycache = [i \in 1 .. MaxRelay |-> i - 1]
      BY NioRelayAssumption DEF Init, RelayInit
    <2>2. \A i \in 1 .. MaxRelay : i - 1 \in Sids
      BY <2>1 DEF Sids
    <2>3. relaycache \in Seq(Sids) /\ Len(relaycache) = MaxRelay
      BY <2>1, <2>2
    <2>4. NoneTwice(relaycache)
      BY <2>1, <2>3 DEF NoneTwice
    <2>5. ASSUME NEW sid \in Sids
          PROVE  On(relaycache, sid)
      <3>1. PICK i \in 1 .. MaxRelay : i = sid + 1
        BY <2>1 DEF Sids
      <3>2. relaycache[i] = sid
        BY <2>1, <3>1 DEF Sids
      <3> QED
        BY <2>3, <3>2 DEF On
    <2> QED
      BY <2>3, <2>4, <2>5
  <1>6. PoolOK(Pool)
    <2>1. relay \in [Sids -> RelayRecs] /\ wpeers = {}
      BY <1>4 DEF Init, RelayInit
    <2>2. Pool \in Pools
      BY <2>1, <1>3, <1>5 DEF Pool, Pools
    <2> QED
      BY <2>1, <2>2, <1>3, <1>4, <1>5, NioRelayAssumption DEF PoolOK, Pool
  <1>7. /\ ctrlcache \in Seq(Ctrls) /\ Len(ctrlcache) = MaxCtrl /\ NoneTwice(ctrlcache)
        /\ \A i \in Ctrls : On(ctrlcache, i)
    <2>1. MaxCtrl \in Nat /\ ctrlcache = [i \in 1 .. MaxCtrl |-> i]
      BY NioCtrlAssumption DEF Init, CtrlInit
    <2>2. ctrlcache \in Seq(Ctrls) /\ Len(ctrlcache) = MaxCtrl
      BY <2>1 DEF Ctrls
    <2> QED
      BY <2>1, <2>2 DEF NoneTwice, On, Ctrls
  <1>8. ControlsOK(Controls)
    <2>1. /\ ctrl \in [Ctrls -> CtrlRecs] /\ \A i \in Ctrls : ctrl[i].rcv = <<>>
      BY NoCtrlIs DEF Init, CtrlInit
    <2>2. ctrlist \in Seq(Ctrls) /\ NoneTwice(ctrlist) /\ \A i : ~On(ctrlist, i)
      <3>1. ctrlist = <<>>
        BY DEF Init, CtrlInit
      <3>2. ctrlist \in Seq(Ctrls) /\ Len(ctrlist) = 0
        BY <3>1, EmptySeq
      <3> QED
        BY <3>2 DEF NoneTwice, On
    <2>3. Controls \in ControlPools
      BY <2>1, <2>2, <1>3, <1>7 DEF Controls, ControlPools
    <2> QED
      BY <2>1, <2>2, <2>3, <1>3, <1>7 DEF ControlsOK, Controls
  <1>9. OneOwner(Pool, Controls)
    BY <1>2, <1>4, RelayNetAssumption DEF OneOwner, HeldByRelay, Pool, Controls
  <1>10. BatchOK(Controls, batch) /\ LoopOK
    BY DEF Init, NetInit, CtrlInit, BatchOK, LoopOK
  <1> QED
    BY <1>6, <1>8, <1>9, <1>10 DEF NioInv

LEMMA PollHolds ==
  ASSUME NioInv, Poll
  PROVE  NioInv'
  <1>1. /\ pc = "epoll" /\ pc' = "batch" /\ five' = five /\ ctrlist = <<>>
        /\ Pool' = Pool /\ Controls' = Controls /\ handouts' = handouts
    BY DEF Poll, NioInv, LoopOK, netVars, relayVars, ctrlVars, Pool, Controls
  <1>2. batch' \subseteq {e \in Reported : e.ev # {}}
    BY DEF Poll, kSubset
  <1>3. ASSUME NEW k, NEW c, NEW out
        PROVE  Ready(c, out) \in Evs
    BY DEF Ready, Evs
  <1>4. \A i : InUse(i) <=> ~On(ctrlcache, i)
    BY DEF InUse, On
  <1>5. ASSUME NEW e \in batch'
        PROVE  /\ e \in Events /\ e.ev # {}
               /\ e.kind = "ctrl" =>
                    /\ ~On(ctrlcache, e.id) /\ e.id \in Ctrls
                    /\ e = Event("ctrl", e.id, Ready(ctrl[e.id].s, ctrl[e.id].out))
                    /\ e.ev = Ready(ctrl[e.id].s, ctrl[e.id].out)
    <2>1. CASE \E port \in {0, 1} : e = Event("listener", port, {"in"})
      BY <2>1 DEF Event, Events, Evs
    <2>2. CASE \E i \in Ctrls : InUse(i) /\ e = Event("ctrl", i, Ready(ctrl[i].s, ctrl[i].out))
      <3>1. PICK i \in Ctrls : InUse(i) /\ e = Event("ctrl", i, Ready(ctrl[i].s, ctrl[i].out))
        BY <2>2
      <3>2. PICK ev \in Evs : ev = Ready(ctrl[i].s, ctrl[i].out)
        BY <1>3
      <3>3. e = Event("ctrl", i, ev) /\ e.id = i /\ e.kind = "ctrl" /\ e.ev = ev
        BY <3>1, <3>2 DEF Event
      <3>4. e \in Events
        BY <3>3 DEF Event, Events
      <3> QED
        BY <3>1, <3>2, <3>3, <3>4, <1>2, <1>4
    <2>3. CASE \E r \in Sids : e = Event("relay", r, Ready(relay[r].s, relay[r].out))
      <3>1. PICK r \in Sids, ev \in Evs : e = Event("relay", r, ev)
        BY <2>3, <1>3
      <3> QED
        BY <3>1, <1>2 DEF Event, Events
    <2> QED
      BY <1>2, <2>1, <2>2, <2>3 DEF Reported
  <1>6. ASSUME NEW e \in batch'
        PROVE  EventOK(Controls, e)
    <2>1. ASSUME e.kind = "ctrl"
          PROVE  ~On(ctrlcache, e.id) /\ ~Complete(ctrl[e.id].rcv)
      <3>1. ~On(ctrlist, e.id)
        BY <1>1, EmptySeq DEF On
      <3> QED
        BY <2>1, <3>1, <1>5, HeldTypes DEF ControlsOK
    <2>2. ASSUME e.kind = "ctrl", {"err", "in"} \cap e.ev = {}
          PROVE  Writable(conn, ctrl[e.id].s)
      BY <2>2, <1>5 DEF Ready
    <2> QED
      BY <2>1, <2>2 DEF EventOK, Controls
  <1>7. BatchOK(Controls, batch')
    BY <1>5, <1>6 DEF BatchOK
  <1>8. LoopOK'
    BY <1>1, <1>5 DEF NioInv, LoopOK
  <1> QED
    BY <1>1, <1>7, <1>8, HeldTypes, NioInvNext

LEMMA AcceptHolds ==
  ASSUME NioInv, NEW e \in batch, AcceptEvent(e)
  PROVE  NioInv'
  <1>1. /\ pc = "batch" /\ batch' = batch \ {e} /\ e.id \in {0, 1} /\ handouts' = handouts
        /\ relay' = relay /\ relaycache' = relaycache /\ wpeers' = wpeers
    BY DEF AcceptEvent, Handle, NioInv, LoopOK, Events, relayVars
  <1>2. PICK c \in Backlog(e.id) : ControlsBecome(AcceptCtrl(Controls, c))
    BY DEF AcceptEvent
  <1>3. c \in Conns /\ conn[c].link = "waiting"
    BY DEF Backlog, Conns
  <1>4. PICK p, q : p = Pool /\ q = Controls
    OBVIOUS
  <1>5. PICK b \in SUBSET Events : b = batch' /\ BatchOK(q, b)
    BY <1>1, <1>4, HeldTypes, FewerEvents
  <1>6. /\ PoolOK(p) /\ ControlsOK(q) /\ OneOwner(p, q) /\ q.conn = p.conn /\ q.conn = conn
        /\ conn \in [Conns -> ConnRecs] /\ RoomKept(conn)
    BY <1>4, HeldTypes
  <1>7. PICK q2 : q2 = AcceptCtrl(q, c)
    OBVIOUS
  <1>8. ctrl' = q2.ctrl /\ ctrlcache' = q2.cache /\ ctrlist' = q2.list /\ conn' = q2.conn
    BY <1>2, <1>4, <1>7 DEF ControlsBecome
  <1>9. PICK p2 : p2 = [relay |-> p.relay, cache |-> p.cache, hash |-> p.hash, conn |-> q2.conn]
    OBVIOUS
  <1>10. p2 = Pool'
    BY <1>1, <1>4, <1>8, <1>9 DEF Pool
  <1>11. CASE ctrlcache = <<>>
    <2>1. PICK w : w = Shut(q.conn, c)
      OBVIOUS
    <2>2. q2 = [ctrl |-> q.ctrl, cache |-> q.cache, list |-> q.list, conn |-> w]
      <3>1. q.cache = <<>> /\ q \in ControlPools
        BY <1>4, <1>6, <1>11, ControlsTypes DEF Controls
      <3> QED
        BY <3>1, <2>1, <1>7 DEF AcceptCtrl, ControlPools
    <2>3. /\ w \in [Conns -> ConnRecs] /\ RoomKept(w)
          /\ \A d \in Conns : w[d].link = "up" <=> q.conn[d].link = "up"
          /\ \A d \in Conns : Writable(q.conn, d) => Writable(w, d)
      BY <2>1, <1>3, <1>6, RefusedIs
    <2>4. q2.conn = w
      BY <2>2
    <2>5. PoolOK(p2) /\ ControlsOK(q2) /\ OneOwner(p2, q2)
      <3>1. p2 = PoolWith(p, w) /\ q2 = ControlsWith(q, w)
        BY <2>2, <2>4, <1>9 DEF PoolWith, ControlsWith
      <3>2. UpAlike(q.conn, w)
        BY <2>3 DEF UpAlike
      <3> QED
        BY <3>1, <3>2, <2>3, <1>6, ConnsChange
    <2>6. BatchOK(q2, b)
      BY <2>2, <2>3, <1>5, <1>6, ConnsChangeEvents
    <2>7. q2 = Controls'
      BY <2>2, <1>8 DEF Controls
    <2>8. LoopOK'
      <3>1. pc' = pc /\ five' = five
        BY <1>11 DEF AcceptEvent
      <3> QED
        BY <3>1, <1>1 DEF NioInv, LoopOK
    <2> QED
      BY <2>5, <2>6, <2>7, <2>8, <1>5, <1>10, NioInvNext
  <1>12. CASE ctrlcache # <<>>
    <2>1. q.cache = ctrlcache
      BY <1>4 DEF Controls
    <2>2. PICK i : i = Head(q.cache)
      OBVIOUS
    <2>3. /\ PoolOK(p2) /\ ControlsOK(q2) /\ OneOwner(p2, q2) /\ BatchOK(q2, b)
          /\ i \in Ctrls /\ Accepted(q, q2, i, c)
      <3>1. q.conn[c].link = "waiting" /\ q.cache # <<>>
        BY <2>1, <1>3, <1>6, <1>12
      <3>2. p2 = PoolWith(p, q2.conn)
        BY <1>9 DEF PoolWith
      <3> QED
        BY <3>1, <3>2, <2>2, <1>3, <1>5, <1>6, <1>7, AcceptIs
    <2>4. q2 = Controls'
      <3>1. q2 \in ControlPools
        BY <2>3, ControlsTypes
      <3> QED
        BY <3>1, <1>8 DEF Controls, ControlPools
    <2>5. LoopOK'
      <3>1. \/ pc' = pc /\ five' = five
            \/ pc' = "five" /\ five' = i
        BY <2>1, <2>2 DEF AcceptEvent
      <3> QED
        BY <3>1, <2>3, <1>1, <1>8 DEF NioInv, LoopOK, Accepted
    <2> QED
      BY <2>3, <2>4, <2>5, <1>5, <1>10, NioInvNext
  <1> QED
    BY <1>11, <1>12

LEMMA AcceptFailsHolds ==
  ASSUME NioInv, NEW e \in batch, AcceptFails(e)
  PROVE  NioInv'
  <1>1. /\ pc' = pc /\ pc = "batch" /\ five' = five /\ batch' = batch \ {e} /\ handouts' = handouts
        /\ Pool' = Pool /\ Controls' = Controls /\ ctrlcache' = ctrlcache /\ ctrlist' = ctrlist
    BY DEF AcceptFails, Handle, netVars, relayVars, ctrlVars, Pool, Controls
  <1>2. BatchOK(Controls, batch')
    BY <1>1, HeldTypes, FewerEvents
  <1>3. LoopOK'
    BY <1>1 DEF NioInv, LoopOK
  <1> QED
    BY <1>1, <1>2, <1>3, HeldTypes, NioInvNext

LEMMA StaleOutHolds ==
  ASSUME NioInv, NEW e \in batch, StaleOut(e)
  PROVE  NioInv'
  <1>1. /\ pc' = "dead" /\ five' = five /\ batch' = batch \ {e} /\ handouts' = handouts
        /\ Pool' = Pool /\ Controls' = Controls /\ ctrlcache' = ctrlcache
    BY DEF StaleOut, Handle, netVars, relayVars, ctrlVars, Pool, Controls
  <1>2. BatchOK(Controls, batch')
    BY <1>1, HeldTypes, FewerEvents
  <1>3. LoopOK'
    BY <1>1 DEF NioInv, LoopOK
  <1> QED
    BY <1>1, <1>2, <1>3, HeldTypes, NioInvNext

LEMMA FiveBytesHolds ==
  ASSUME NioInv, FiveBytes
  PROVE  NioInv'
  <1>1. /\ pc = "five" /\ pc' = "batch" /\ five' = 0 /\ batch' = batch /\ handouts' = handouts
        /\ relay' = relay /\ relaycache' = relaycache /\ wpeers' = wpeers
    BY DEF FiveBytes, relayVars
  <1>2. PICK p, q : p = Pool /\ q = Controls
    OBVIOUS
  <1>3. /\ PoolOK(p) /\ ControlsOK(q) /\ OneOwner(p, q) /\ q.conn = p.conn /\ q.conn = conn
        /\ conn \in [Conns -> ConnRecs] /\ RoomKept(conn) /\ BatchOK(q, batch)
        /\ q.cache = ctrlcache /\ q.ctrl = ctrl
    BY <1>2, HeldTypes
  <1>4. PICK c \in Conns : c = ctrl[five].s
    <2>1. five \in Ctrls /\ ~On(q.cache, five)
      BY <1>1, <1>3 DEF NioInv, LoopOK
    <2> QED
      BY <2>1, <1>3, CtrlField
  <1>5. PICK in : in = IF conn[c].in = <<>> THEN conn[c].in ELSE Tail(conn[c].in)
    OBVIOUS
  <1>6. in \in Seq(Items)
    BY <1>3, <1>5, ConnField, HeadTailProperties
  <1>7. PICK w : w = [conn[c] EXCEPT !.in = in]
    OBVIOUS
  <1>8. w \in ConnRecs /\ w.link = conn[c].link /\ w.out = conn[c].out /\ w.end = conn[c].end
    BY <1>3, <1>6, <1>7, ZenonT(40) DEF ConnRecs
  <1>9. PICK k : k = [conn EXCEPT ![c] = w]
    OBVIOUS
  <1>10. k \in [Conns -> ConnRecs] /\ k[c] = w /\ \A d \in Conns : d # c => k[d] = conn[d]
    BY <1>3, <1>8, <1>9
  <1>11. \A d \in Conns : k[d].link = conn[d].link /\ k[d].out = conn[d].out /\ k[d].end = conn[d].end
    BY <1>8, <1>10
  <1>12. PICK q2 : q2 = [ctrl |-> q.ctrl, cache |-> q.cache, list |-> q.list, conn |-> k]
    OBVIOUS
  <1>13. q2 = ReadFive(q, c)
    <2>1. q \in ControlPools
      BY <1>3, ControlsTypes
    <2>2. ReadFive(q, c) = [q EXCEPT !.conn = k]
      BY <2>1, <1>3, <1>5, <1>7, <1>9 DEF ReadFive, ControlPools
    <2> QED
      BY <2>1, <2>2, <1>12 DEF ControlPools
  <1>14. ctrl' = q2.ctrl /\ ctrlcache' = q2.cache /\ ctrlist' = q2.list /\ conn' = k
    BY <1>2, <1>4, <1>12, <1>13 DEF FiveBytes, ControlsBecome
  <1>15. PICK p2 : p2 = [relay |-> p.relay, cache |-> p.cache, hash |-> p.hash, conn |-> k]
    OBVIOUS
  <1>16. p2 = Pool' /\ q2 = Controls'
    BY <1>1, <1>2, <1>12, <1>14, <1>15 DEF Pool, Controls
  <1>17. RoomKept(k)
    BY <1>3, <1>11 DEF RoomKept
  <1>18. PoolOK(p2) /\ ControlsOK(q2) /\ OneOwner(p2, q2)
    <2>1. p2 = PoolWith(p, k) /\ q2 = ControlsWith(q, k)
      BY <1>12, <1>15 DEF PoolWith, ControlsWith
    <2>2. UpAlike(q.conn, k)
      BY <1>3, <1>11 DEF UpAlike
    <2> QED
      BY <2>1, <2>2, <1>3, <1>10, <1>17, ConnsChange
  <1>19. BatchOK(q2, batch)
    <2>1. batch \in SUBSET Events
      BY HeldTypes
    <2> QED
      BY <2>1, <1>3, <1>11, <1>12, ConnsChangeEvents DEF Writable
  <1>20. LoopOK'
    BY <1>1 DEF NioInv, LoopOK
  <1> QED
    BY <1>1, <1>16, <1>18, <1>19, <1>20, NioInvNext

\* What the event of a control does: its control is served, and no other.
LEMMA CtrlEventIs ==
  ASSUME NioInv, NEW e \in batch, CtrlEvent(e), NEW q, q = Controls, NEW q2, q2 = Controls',
         NEW i, i = e.id, NEW c, c = q.ctrl[i].s
  PROVE  /\ i \in Ctrls /\ ~On(q.cache, i) /\ Served(q, q2, i, c)
         /\ ClosedBy(q, q2, i, c) \/ ReadBy(q, q2, i, c) \/ WroteBy(q, q2, i, c)
  <1>1. e.kind = "ctrl"
    BY DEF CtrlEvent
  <1>2. ControlsOK(q) /\ BatchOK(q, batch)
    BY HeldTypes
  <1>3. i \in Ctrls
    BY <1>1, HeldTypes DEF Events
  <1>4. /\ ~On(q.cache, i) /\ ~Complete(q.ctrl[i].rcv)
        /\ {"err", "in"} \cap e.ev = {} => Writable(q.conn, c)
    <2>1. EventOK(q, e)
      BY <1>2 DEF BatchOK
    <2> QED
      BY <2>1, <1>1 DEF EventOK
  <1>5. ~On(q.list, i)
    BY <1>2, <1>3, <1>4 DEF ControlsOK
  <1>6. PICK g : ControlsBecome(g)
                 /\ g = CASE "err" \in e.ev -> Shuts(q, i)
                           [] "err" \notin e.ev /\ "in" \in e.ev -> AsyncRead(q, i)
                           [] OTHER -> AsyncWrite(q, i)
    BY Zenon DEF CtrlEvent, Shuts
  <1>7. /\ Served(q, g, i, c)
        /\ ClosedBy(q, g, i, c) \/ ReadBy(q, g, i, c) \/ WroteBy(q, g, i, c)
    <2>1. CASE "err" \in e.ev
      <3>1. g = Shuts(q, i)
        BY <2>1, <1>6
      <3> QED
        BY <3>1, <1>2, <1>3, <1>4, <1>5, ShutsServes
    <2>2. CASE "err" \notin e.ev /\ "in" \in e.ev
      <3>1. g = AsyncRead(q, i)
        BY <2>2, <1>6, Zenon
      <3> QED
        BY <3>1, <1>2, <1>3, <1>4, AsyncReadServes
    <2>3. CASE "err" \notin e.ev /\ "in" \notin e.ev
      <3>1. g = AsyncWrite(q, i)
        BY <2>3, <1>6
      <3>2. Writable(q.conn, c)
        BY <2>3, <1>4
      <3> QED
        BY <3>1, <3>2, <1>2, <1>3, <1>4, AsyncWriteServes
    <2> QED
      BY <2>1, <2>2, <2>3
  <1>8. g = q2
    <2>1. g \in ControlPools
      BY <1>7, ControlsTypes DEF Served
    <2> QED
      BY <2>1, <1>6 DEF Controls, ControlsBecome, ControlPools
  <1> QED
    BY <1>3, <1>4, <1>7, <1>8

LEMMA CtrlEventHolds ==
  ASSUME NioInv, NEW e \in batch, CtrlEvent(e)
  PROVE  NioInv'
  <1>1. /\ pc = "batch" /\ pc' = pc /\ batch' = batch \ {e} /\ handouts' = handouts /\ five' = five
        /\ relay' = relay /\ relaycache' = relaycache /\ wpeers' = wpeers
        /\ e.kind = "ctrl"
    BY DEF CtrlEvent, Handle, relayVars
  <1>2. PICK p, q, q2 : p = Pool /\ q = Controls /\ q2 = Controls'
    OBVIOUS
  <1>3. /\ PoolOK(p) /\ ControlsOK(q) /\ OneOwner(p, q) /\ q.conn = p.conn
        /\ BatchOK(q, batch)
    BY <1>2, HeldTypes
  <1>4. PICK i, c : i = e.id /\ c = q.ctrl[i].s
    OBVIOUS
  <1>5. /\ i \in Ctrls /\ ~On(q.cache, i) /\ Served(q, q2, i, c)
        /\ ClosedBy(q, q2, i, c) \/ ReadBy(q, q2, i, c) \/ WroteBy(q, q2, i, c)
    BY <1>2, <1>4, CtrlEventIs
  <1>6. PICK p2 : p2 = [relay |-> p.relay, cache |-> p.cache, hash |-> p.hash, conn |-> q2.conn]
    OBVIOUS
  <1>7. PoolOK(p2) /\ ControlsOK(q2) /\ OneOwner(p2, q2)
    <2>1. \/ On(q2.cache, i) /\ q2.conn[c].link = "closed"
          \/ ~On(q2.cache, i) /\ q2.ctrl[i].s = c
      BY <1>5 DEF ClosedBy, Closed, ReadBy, WroteBy
    <2> QED
      BY <2>1, <1>3, <1>4, <1>5, <1>6, ServedTogether DEF Served
  <1>8. p2 = Pool'
    BY <1>1, <1>2, <1>6 DEF Pool, Controls
  <1>9. BatchOK(q2, batch')
    <2>1. BatchOK(q, batch') /\ batch' \in SUBSET Events
      BY <1>1, <1>3, HeldTypes, FewerEvents
    <2>2. \A f \in batch' : f.kind = "ctrl" => f.id # i
      BY <1>1, <1>3, <1>4 DEF BatchOK
    <2> QED
      BY <2>1, <2>2, <1>3, <1>4, <1>5, ServedEvents
  <1>10. LoopOK'
    BY <1>1 DEF NioInv, LoopOK
  <1> QED
    BY <1>2, <1>7, <1>8, <1>9, <1>10, NioInvNext

\* What the event of a relay does: it is shut with its peer, it reads, or its peer's
\* buffer is written to it.
RelayHandled(p, sid) ==
  {ShutBoth(p, sid), Relay(p, sid), Flush(p, p.relay[sid].peer)}

LEMMA RelayEventIs ==
  ASSUME NioInv, NEW e \in batch, RelayEvent(e), NEW p, p = Pool, NEW q, q = Controls,
         NEW p2, p2 = Pool', NEW q2, q2 = Controls'
  PROVE  /\ e.id \in Sids /\ p2 \in RelayHandled(p, e.id) /\ PoolOK(p2) /\ Moves(p, p2)
         /\ q2 = ControlsWith(q, p2.conn)
  <1>1. /\ ctrl' = ctrl /\ ctrlcache' = ctrlcache /\ ctrlist' = ctrlist /\ e.kind = "relay"
    BY DEF RelayEvent, ctrlVars
  <1>2. PoolOK(p)
    BY HeldTypes
  <1>3. PICK sid \in Sids : sid = e.id
    BY <1>1, HeldTypes DEF Events
  <1>4. PICK g : Becomes(g) /\ g \in RelayHandled(p, sid)
    <2>1. PICK g : Becomes(g) /\ g = CASE "err" \in e.ev -> ShutBoth(p, sid)
                                        [] "err" \notin e.ev /\ "in" \in e.ev -> Relay(p, sid)
                                        [] OTHER -> Flush(p, relay[sid].peer)
      BY <1>3, Zenon DEF RelayEvent
    <2>2. g \in {ShutBoth(p, sid), Relay(p, sid), Flush(p, relay[sid].peer)}
      BY <2>1
    <2> QED
      BY <2>1, <2>2 DEF Pool, RelayHandled
  <1>5. PoolOK(g) /\ Moves(p, g)
    <2>1. p.relay[sid].peer \in Sids
      BY <1>2, RelayField
    <2>2. PoolOK(Flush(p, p.relay[sid].peer)) /\ Moves(p, Flush(p, p.relay[sid].peer))
      BY <2>1, <1>2, FlushKeeps
    <2>3. PoolOK(ShutBoth(p, sid)) /\ Moves(p, ShutBoth(p, sid))
      BY <1>2, ShutBothKeeps
    <2>4. PoolOK(Relay(p, sid)) /\ Moves(p, Relay(p, sid))
      BY <1>2, RelayKeeps
    <2> QED
      BY <2>2, <2>3, <2>4, <1>4 DEF RelayHandled
  <1>6. g = p2
    <2>1. g \in Pools
      BY <1>5 DEF PoolOK
    <2> QED
      BY <2>1, <1>4 DEF Pool, Becomes, Pools
  <1>7. q2 = ControlsWith(q, p2.conn)
    BY <1>1 DEF Pool, Controls, ControlsWith
  <1> QED
    BY <1>3, <1>4, <1>5, <1>6, <1>7

LEMMA RelayEventHolds ==
  ASSUME NioInv, NEW e \in batch, RelayEvent(e)
  PROVE  NioInv'
  <1>1. pc = "batch" /\ pc' = pc /\ batch' = batch \ {e} /\ handouts' = handouts /\ five' = five
        /\ ctrlcache' = ctrlcache /\ ctrlist' = ctrlist
    BY DEF RelayEvent, Handle, ctrlVars
  <1>2. PICK p, q, p2, q2 : p = Pool /\ q = Controls /\ p2 = Pool' /\ q2 = Controls'
    OBVIOUS
  <1>3. /\ PoolOK(p) /\ ControlsOK(q) /\ OneOwner(p, q) /\ q.conn = p.conn
        /\ BatchOK(q, batch') /\ batch' \in SUBSET Events
    BY <1>1, <1>2, HeldTypes, FewerEvents
  <1>4. PoolOK(p2) /\ Moves(p, p2) /\ q2 = ControlsWith(q, p2.conn)
    BY <1>2, RelayEventIs
  <1>5. ControlsOK(q2) /\ OneOwner(p2, q2) /\ BatchOK(q2, batch')
    BY <1>3, <1>4, MovesTogether DEF ControlsWith
  <1>6. LoopOK'
    BY <1>1 DEF NioInv, LoopOK
  <1> QED
    BY <1>2, <1>4, <1>5, <1>6, NioInvNext

\* What an answer does: the control's message is taken off, the reply is to be written
\* and two relays, if there are so many, wait.
LEMMA AnswerIs ==
  ASSUME NioInv, AnswerController, NEW p, p = Pool, NEW q, q = Controls,
         NEW p2, p2 = Pool', NEW q2, q2 = Controls',
         NEW i, i = Head(q.list), NEW c, c = q.ctrl[i].s, NEW n, n = q.conn[c].said
  PROVE  /\ i \in Ctrls /\ ~On(q.cache, i) /\ c \in Conns /\ n \in Nat
         /\ Complete(q.ctrl[i].rcv) /\ Len(q.ctrl[i].rcv) = 1
         /\ p2 = GetPeer(p, [by |-> c, n |-> n])
         /\ Served(q, q2, i, c) /\ ~On(q2.cache, i) /\ q2.conn = q.conn
         /\ q2.ctrl[i].s = c /\ q2.ctrl[i].rcv = <<>>
         /\ OwesMore(q2.ctrl[i], q.ctrl[i], Reply(n, Given(p)))
  <1>1. ctrlist # <<>> /\ relaycache' = relaycache /\ Len(Message) = 1
    BY DEF AnswerController
  <1>2. /\ PoolOK(p) /\ ControlsOK(q) /\ OneOwner(p, q) /\ q.conn = p.conn /\ q.list = ctrlist
        /\ q.ctrl = ctrl /\ q.cache = ctrlcache /\ p.conn = conn
        /\ conn \in [Conns -> ConnRecs] /\ p.relay = relay /\ p.cache = relaycache
    BY HeldTypes
  <1>3. PICK t : t = TakenOff(q)
    OBVIOUS
  <1>4. /\ i \in Ctrls /\ ~On(q.cache, i) /\ Served(q, t, i, c) /\ Complete(q.ctrl[i].rcv)
        /\ ~On(t.cache, i) /\ ~On(t.list, i) /\ t.conn = q.conn /\ t.ctrl[i].s = c
        /\ t.ctrl[i].rcv = <<>> /\ t.ctrl[i].snd = q.ctrl[i].snd
    BY <1>1, <1>2, <1>3, TakenServes
  <1>5. c \in Conns /\ n \in Nat
    BY <1>2, <1>4, CtrlField DEF ConnRecs
  <1>6. Len(q.ctrl[i].rcv) = 1 /\ Head(ctrlist) = i /\ ctrl[i].s = c /\ conn[c].said = n
    BY <1>1, <1>2 DEF Message
  <1>7. PICK reply : reply = Reply(n, Given(p))
    OBVIOUS
  <1>8. reply \in Items
    <2>1. PICK S \in SUBSET Sids : S = Given(p)
      BY <1>2, GivenAreSids
    <2> QED
      BY <2>1, <1>5, <1>7 DEF Reply, Item, Items
  <1>9. PICK r2 : r2 = PrepareWrite(t, i, reply)
    OBVIOUS
  <1>10. /\ Served(t, r2, i, c) /\ ~On(r2.cache, i) /\ r2.conn = t.conn /\ r2.ctrl[i].s = c
         /\ r2.ctrl[i].rcv = <<>> /\ OwesMore(r2.ctrl[i], t.ctrl[i], reply)
    <2>1. ControlsOK(t)
      BY <1>4 DEF Served
    <2>2. /\ Served(t, r2, i, t.ctrl[i].s) /\ ~On(r2.cache, i) /\ r2.conn = t.conn
          /\ r2.ctrl[i].s = t.ctrl[i].s /\ r2.ctrl[i].rcv = t.ctrl[i].rcv
      BY <2>1, <1>4, <1>8, <1>9, PrepareWriteServes
    <2>3. OwesMore(r2.ctrl[i], t.ctrl[i], reply)
      BY <2>1, <1>4, <1>8, <1>9, PrepareWriteServes
    <2> QED
      BY <2>2, <2>3, <1>4
  <1>11. Served(q, r2, i, c) /\ ControlsOK(r2)
    BY <1>4, <1>10, ServedOn DEF Served
  <1>12. OwesMore(r2.ctrl[i], q.ctrl[i], reply)
    <2>1. \A m : Owes(t.ctrl[i], m) => Owes(q.ctrl[i], m)
      BY <1>4 DEF Owes
    <2> QED
      BY <2>1, <1>10 DEF OwesMore
  <1>13. ControlsBecome(r2)
    <2>1. Taken = t
      BY <1>2, <1>3 DEF Taken, TakenOff
    <2>2. ControlsBecome(PrepareWrite(Taken, i, Reply(conn[ctrl[i].s].said, Given(Pool))))
      BY <1>6 DEF AnswerController
    <2> QED
      BY <2>1, <2>2, <1>6, <1>7, <1>9
  <1>14. r2 = q2
    <2>1. r2 \in ControlPools
      BY <1>11, ControlsTypes
    <2> QED
      BY <2>1, <1>13 DEF Controls, ControlsBecome, ControlPools
  <1>15. conn' = conn
    BY <1>2, <1>4, <1>10, <1>13 DEF ControlsBecome
  <1>16. PICK ask \in Asks : ask = [by |-> c, n |-> n]
    BY <1>5 DEF Asks
  <1>17. PICK g : g = GetPeer(p, ask)
    OBVIOUS
  <1>18. g \in Pools /\ g.conn = conn /\ g.cache = relaycache
    BY <1>2, <1>17, GetPeerKeeps DEF PoolOK
  <1>19. relay' = g.relay /\ wpeers' = g.hash
    <2>1. /\ relay' = GetPeer(Pool, [by |-> c, n |-> n]).relay
          /\ wpeers' = GetPeer(Pool, [by |-> c, n |-> n]).hash
      BY <1>6 DEF AnswerController
    <2> QED
      BY <2>1, <1>16, <1>17
  <1>20. g = p2
    BY <1>1, <1>15, <1>18, <1>19 DEF Pool, Pools
  <1> QED
    BY <1>4, <1>5, <1>6, <1>7, <1>10, <1>11, <1>12, <1>14, <1>16, <1>17, <1>20

LEMMA AnswerHolds ==
  ASSUME NioInv, AnswerController
  PROVE  NioInv'
  <1>1. /\ pc = "batch" /\ pc' = pc /\ batch = {} /\ batch' = {} /\ handouts' = handouts /\ five' = five
    BY DEF AnswerController, Between, loopVars
  <1>2. PICK p, q, p2, q2 : p = Pool /\ q = Controls /\ p2 = Pool' /\ q2 = Controls'
    OBVIOUS
  <1>3. PoolOK(p) /\ ControlsOK(q) /\ OneOwner(p, q) /\ q.conn = p.conn
    BY <1>2, HeldTypes
  <1>4. PICK i, c, n : i = Head(q.list) /\ c = q.ctrl[i].s /\ n = q.conn[c].said
    OBVIOUS
  <1>5. /\ i \in Ctrls /\ ~On(q.cache, i) /\ c \in Conns /\ n \in Nat
        /\ p2 = GetPeer(p, [by |-> c, n |-> n])
        /\ Served(q, q2, i, c) /\ ~On(q2.cache, i) /\ q2.conn = q.conn /\ q2.ctrl[i].s = c
    BY <1>2, <1>4, AnswerIs
  <1>6. PoolOK(p2) /\ p2.conn = p.conn /\ \A x \in Sids : p2.relay[x].s = p.relay[x].s
    <2>1. PICK ask \in Asks : ask = [by |-> c, n |-> n]
      BY <1>5 DEF Asks
    <2> QED
      BY <2>1, <1>3, <1>5, GetPeerKeeps
  <1>7. OneOwner(p2, q2)
    <2>1. \A d \in Conns : HeldByRelay(p2, d) <=> HeldByRelay(p, d)
      BY <1>6 DEF HeldByRelay
    <2>2. \A d \in Conns : HeldByCtrl(q2, d) <=> HeldByCtrl(q, d)
      BY <1>4, <1>5 DEF Served, HeldByCtrl
    <2> QED
      BY <2>1, <2>2, <1>3, <1>5 DEF OneOwner
  <1>8. BatchOK(q2, batch')
    BY <1>1 DEF BatchOK
  <1>9. LoopOK'
    BY <1>1 DEF NioInv, LoopOK
  <1> QED
    BY <1>2, <1>5, <1>6, <1>7, <1>8, <1>9, NioInvNext DEF Served

\* The control i is freed and the others keep what they have.
Freed(q, q2, i) ==
  /\ On(q2.cache, i)
  /\ \A j \in Ctrls : j # i => q2.ctrl[j] = q.ctrl[j] /\ (On(q2.cache, j) <=> On(q.cache, j))

\* The connection goes from the control to the relay.
LEMMA HandOver ==
  ASSUME NEW p, PoolOK(p), NEW q, ControlsOK(q), OneOwner(p, q), q.conn = p.conn,
         NEW i \in Ctrls, ~On(q.cache, i), NEW c, c = q.ctrl[i].s,
         NEW t, Served(q, t, i, c), ~On(t.cache, i), ~On(t.list, i), t.conn = q.conn,
         t.ctrl[i].s = c,
         NEW sid \in p.hash,
         NEW p2, p2 = StartRelay(p, sid, c),
         NEW q2, q2 = Frees(ControlsWith(t, p2.conn), i)
  PROVE  /\ PoolOK(p2) /\ ControlsOK(q2) /\ OneOwner(p2, q2) /\ q2.conn = p2.conn
         /\ Freed(q, q2, i)
  <1>1. c \in Conns /\ q.conn[c].link = "up"
    BY CtrlField
  <1>2. ~HeldByRelay(p, c)
    BY <1>1 DEF OneOwner, HeldByCtrl
  <1>3. /\ PoolOK(p2)
        /\ \A d \in Conns : HeldByRelay(p2, d) <=> HeldByRelay(p, d) \/ d = c
        /\ \A d \in Conns : p2.conn[d].link = p.conn[d].link
    BY <1>1, <1>2, StartRelayKeeps
  <1>4. /\ p2.conn \in [Conns -> ConnRecs] /\ RoomKept(p2.conn) /\ UpAlike(t.conn, p2.conn)
        /\ ControlsOK(t)
    <2>1. p2.conn \in [Conns -> ConnRecs] /\ RoomKept(p2.conn)
      BY <1>3 DEF PoolOK, Pools
    <2>2. t.conn = p.conn
      OBVIOUS
    <2>3. UpAlike(t.conn, p2.conn)
      BY <2>2, <1>3 DEF UpAlike
    <2> QED
      BY <2>1, <2>3 DEF Served
  <1>5. OneOwner(p, t)
    <2>1. \A d \in Conns : HeldByCtrl(t, d) <=> HeldByCtrl(q, d)
      BY DEF Served, HeldByCtrl
    <2> QED
      BY <2>1 DEF OneOwner
  <1>6. PICK t2 : t2 = ControlsWith(t, p2.conn)
    OBVIOUS
  <1>7. ControlsOK(t2)
    BY <1>4, <1>5, <1>6, ConnsChange
  <1>8. /\ t2.ctrl = t.ctrl /\ t2.cache = t.cache /\ t2.list = t.list /\ t2.conn = p2.conn
    BY <1>6 DEF ControlsWith
  <1>9. Served(t2, q2, i, c) /\ On(q2.cache, i) /\ q2.conn = p2.conn
    <2>1. q2 = Frees(t2, i)
      BY <1>6
    <2>2. ~On(t2.cache, i) /\ ~On(t2.list, i) /\ c = t2.ctrl[i].s
      BY <1>8
    <2> QED
      BY <2>1, <2>2, <1>7, <1>8, FreesServes
  <1>10. \A j \in Ctrls : j # i => q2.ctrl[j] = q.ctrl[j] /\ (On(q2.cache, j) <=> On(q.cache, j))
    BY <1>8, <1>9 DEF Served
  <1>11. ASSUME NEW d \in Conns
         PROVE  HeldByCtrl(q2, d) <=> HeldByCtrl(q, d) /\ d # c
    <2>1. \A j \in Ctrls : ~On(q.cache, j) /\ q.ctrl[j].s = c => j = i
      BY DEF ControlsOK
    <2> QED
      BY <2>1, <1>9, <1>10 DEF HeldByCtrl
  <1>12. ASSUME NEW d \in Conns
         PROVE  /\ ~(HeldByRelay(p2, d) /\ HeldByCtrl(q2, d))
                /\ q2.conn[d].link = "up" => HeldByRelay(p2, d) \/ HeldByCtrl(q2, d)
    BY <1>2, <1>3, <1>9, <1>11 DEF OneOwner
  <1> QED
    BY <1>3, <1>9, <1>10, <1>12 DEF OneOwner, Served, Freed

\* What becomes of a start message: the relay takes the connection over, or, if its sid
\* is not in the hash table, the connection is closed.
Started(p, q, p2, q2, i, c, sid) ==
  /\ sid \in p.hash /\ p2 = StartRelay(p, sid, c)
  /\ PoolOK(p2) /\ ControlsOK(q2) /\ OneOwner(p2, q2) /\ q2.conn = p2.conn
  /\ Freed(q, q2, i)

Refused(p, q, p2, q2, i, c) ==
  /\ p2 = PoolWith(p, q2.conn) /\ Served(q, q2, i, c) /\ ClosedBy(q, q2, i, c)

LEMMA StartIs ==
  ASSUME NioInv, StartSession, NEW p, p = Pool, NEW q, q = Controls,
         NEW p2, p2 = Pool', NEW q2, q2 = Controls',
         NEW i, i = Head(q.list), NEW c, c = q.ctrl[i].s,
         NEW sid, sid = CHOOSE s \in q.ctrl[i].rcv[2].sids : TRUE
  PROVE  /\ i \in Ctrls /\ ~On(q.cache, i) /\ c \in Conns
         /\ Complete(q.ctrl[i].rcv) /\ Len(q.ctrl[i].rcv) = 2
         /\ Started(p, q, p2, q2, i, c, sid) \/ Refused(p, q, p2, q2, i, c)
  <1>1. ctrlist # <<>> /\ Len(Message) = 2
    BY DEF StartSession
  <1>2. /\ PoolOK(p) /\ ControlsOK(q) /\ OneOwner(p, q) /\ q.conn = p.conn /\ q.list = ctrlist
        /\ q.ctrl = ctrl /\ q.cache = ctrlcache /\ p.conn = conn /\ p.hash = wpeers
    BY HeldTypes
  <1>3. PICK t : t = TakenOff(q)
    OBVIOUS
  <1>4. /\ i \in Ctrls /\ ~On(q.cache, i) /\ Served(q, t, i, c) /\ Complete(q.ctrl[i].rcv)
        /\ ~On(t.cache, i) /\ ~On(t.list, i) /\ t.conn = q.conn /\ t.ctrl[i].s = c
    BY <1>1, <1>2, <1>3, TakenServes
  <1>5. c \in Conns
    BY <1>2, <1>4, CtrlField
  <1>6. i = Head(ctrlist) /\ Taken = t /\ c = ctrl[i].s
    BY <1>2, <1>3 DEF Taken, TakenOff
  <1>7. Message = q.ctrl[i].rcv
    BY <1>2 DEF Message
  <1>8. sid = CHOOSE s \in Message[2].sids : TRUE
    BY <1>7
  <1>9. IF sid \in wpeers
          THEN LET g == StartRelay(Pool, sid, c)
                   r == [t EXCEPT !.conn = g.conn]
               IN  /\ relay' = g.relay /\ relaycache' = g.cache /\ wpeers' = g.hash
                   /\ ControlsBecome(ShutCtrl(r, i, FALSE))
          ELSE /\ ControlsBecome(ShutCtrl(t, i, TRUE))
               /\ UNCHANGED relayVars
    BY <1>6, <1>8 DEF StartSession
  <1>10. CASE sid \in wpeers
    <2>1. PICK g : g = StartRelay(p, sid, c)
      OBVIOUS
    <2>2. PICK r : r = Frees(ControlsWith(t, g.conn), i)
      OBVIOUS
    <2>3. /\ PoolOK(g) /\ ControlsOK(r) /\ OneOwner(g, r) /\ r.conn = g.conn
          /\ Freed(q, r, i)
      <3>1. sid \in p.hash
        BY <1>2, <1>10
      <3>2. PoolOK(p) /\ ControlsOK(q) /\ OneOwner(p, q) /\ q.conn = p.conn
        BY <1>2
      <3>3. /\ i \in Ctrls /\ ~On(q.cache, i) /\ Served(q, t, i, c)
            /\ ~On(t.cache, i) /\ ~On(t.list, i) /\ t.conn = q.conn /\ t.ctrl[i].s = c
            /\ c = q.ctrl[i].s
        BY <1>4
      <3> QED
        BY ONLY <3>1, <3>2, <3>3, <2>1, <2>2, HandOver
    <2>4. [t EXCEPT !.conn = g.conn] = ControlsWith(t, g.conn)
      <3>1. t \in ControlPools
        BY <1>4, ControlsTypes DEF Served
      <3> QED
        BY <3>1 DEF ControlsWith, ControlPools
    <2>5. /\ relay' = g.relay /\ relaycache' = g.cache /\ wpeers' = g.hash
          /\ ControlsBecome(r)
      BY <2>1, <2>2, <2>4, <1>9, <1>10, Zenon DEF Frees
    <2>6. g = p2 /\ r = q2
      <3>1. g \in Pools /\ r \in ControlPools
        BY <2>3, ControlsTypes DEF PoolOK
      <3> QED
        BY <3>1, <2>3, <2>5 DEF Pool, Controls, ControlsBecome, Pools, ControlPools
    <2>7. Started(p, q, g, r, i, c, sid)
      BY <2>1, <2>3, <1>2, <1>10 DEF Started
    <2> QED
      BY <2>6, <2>7, <1>1, <1>4, <1>5, <1>7
  <1>11. CASE sid \notin wpeers
    <2>1. PICK r : r = Shuts(t, i)
      OBVIOUS
    <2>2. ControlsBecome(r) /\ UNCHANGED relayVars
      BY <2>1, <1>9, <1>11, Zenon DEF Shuts
    <2>3. Served(t, r, i, c) /\ ClosedBy(t, r, i, c)
      <3>1. ControlsOK(t)
        BY <1>4 DEF Served
      <3> QED
        BY <3>1, <2>1, <1>4, ShutsServes
    <2>4. Served(q, r, i, c) /\ ControlsOK(r) /\ ClosedBy(q, r, i, c)
      BY <2>3, <1>4, ServedOn DEF Served, ClosedBy
    <2>5. r = q2
      <3>1. r \in ControlPools
        BY <2>4, ControlsTypes
      <3> QED
        BY <3>1, <2>2 DEF Controls, ControlsBecome, ControlPools
    <2>6. p2 = PoolWith(p, q2.conn)
      BY <2>2 DEF Pool, Controls, PoolWith, relayVars
    <2> QED
      BY <2>4, <2>5, <2>6, <1>1, <1>4, <1>5, <1>7 DEF Refused
  <1> QED
    BY <1>10, <1>11

LEMMA StartHolds ==
  ASSUME NioInv, StartSession
  PROVE  NioInv'
  <1>1. /\ pc = "batch" /\ pc' = pc /\ batch = {} /\ batch' = {} /\ handouts' = handouts /\ five' = five
    BY DEF StartSession, Between, loopVars
  <1>2. PICK p, q, p2, q2 : p = Pool /\ q = Controls /\ p2 = Pool' /\ q2 = Controls'
    OBVIOUS
  <1>3. PoolOK(p) /\ ControlsOK(q) /\ OneOwner(p, q) /\ q.conn = p.conn
    BY <1>2, HeldTypes
  <1>4. PICK i, c : i = Head(q.list) /\ c = q.ctrl[i].s
    OBVIOUS
  <1>5. PICK sid : sid = CHOOSE s \in q.ctrl[i].rcv[2].sids : TRUE
    OBVIOUS
  <1>6. /\ i \in Ctrls /\ ~On(q.cache, i)
        /\ Started(p, q, p2, q2, i, c, sid) \/ Refused(p, q, p2, q2, i, c)
    BY <1>2, <1>4, <1>5, StartIs
  <1>7. PoolOK(p2) /\ ControlsOK(q2) /\ OneOwner(p2, q2)
    <2>1. CASE Started(p, q, p2, q2, i, c, sid)
      BY <2>1 DEF Started
    <2>2. CASE Refused(p, q, p2, q2, i, c)
      <3>1. Served(q, q2, i, c) /\ On(q2.cache, i) /\ q2.conn[c].link = "closed"
        BY <2>2 DEF Refused, ClosedBy, Closed
      <3>2. ControlsOK(q2) /\ p2 = PoolWith(p, q2.conn)
        BY <2>2, <3>1 DEF Refused, Served
      <3> QED
        BY <3>1, <3>2, <1>3, <1>4, <1>6, ServedTogether DEF PoolWith
    <2> QED
      BY <2>1, <2>2, <1>6
  <1>8. BatchOK(q2, batch')
    BY <1>1 DEF BatchOK
  <1>9. LoopOK'
    BY <1>1 DEF NioInv, LoopOK
  <1> QED
    BY <1>2, <1>7, <1>8, <1>9, NioInvNext

LEMMA FindIdleHolds ==
  ASSUME NioInv, FindIdle
  PROVE  NioInv'
  <1>1. /\ pc = "batch" /\ pc' = pc /\ batch' = batch /\ handouts' = handouts /\ five' = five
        /\ ctrl' = ctrl /\ ctrlcache' = ctrlcache /\ ctrlist' = ctrlist
    BY DEF FindIdle, Between, ctrlVars, loopVars
  <1>2. PICK p, q : p = Pool /\ q = Controls
    OBVIOUS
  <1>3. /\ PoolOK(p) /\ ControlsOK(q) /\ OneOwner(p, q) /\ q.conn = p.conn /\ p.conn = conn
        /\ BatchOK(q, batch) /\ p.hash = wpeers /\ q.ctrl = ctrl /\ q.cache = ctrlcache
    BY <1>2, HeldTypes
  <1>4. PICK expired \in SUBSET p.hash : Becomes(ShutIdle(p, expired))
    BY <1>2, <1>3 DEF FindIdle
  <1>5. PICK p2 : p2 = ShutIdle(p, expired)
    OBVIOUS
  <1>6. PoolOK(p2) /\ p2.conn = p.conn /\ \A x \in Sids : p2.relay[x].s = p.relay[x].s
    BY <1>3, <1>5, ShutIdleKeeps DEF Marked
  <1>7. OneOwner(p2, q)
    BY <1>3, <1>6 DEF OneOwner, HeldByRelay
  <1>8. p2 = Pool' /\ q = Controls'
    <2>1. p2 \in Pools
      BY <1>6 DEF PoolOK
    <2> QED
      BY <2>1, <1>1, <1>2, <1>3, <1>4, <1>5, <1>6 DEF Pool, Controls, Becomes, Pools
  <1>9. LoopOK'
    BY <1>1 DEF NioInv, LoopOK
  <1> QED
    BY <1>1, <1>3, <1>6, <1>7, <1>8, <1>9, NioInvNext

LEMMA AgainHolds ==
  ASSUME NioInv, Again
  PROVE  NioInv'
  <1>1. /\ pc' = "epoll" /\ batch = {} /\ batch' = {} /\ ctrlist = <<>> /\ five' = five
        /\ Pool' = Pool /\ Controls' = Controls /\ handouts' = handouts /\ ctrlist' = ctrlist
    BY DEF Again, Between, netVars, relayVars, ctrlVars, Pool, Controls
  <1>2. BatchOK(Controls, batch')
    BY <1>1 DEF BatchOK
  <1>3. LoopOK'
    BY <1>1 DEF NioInv, LoopOK
  <1> QED
    BY <1>1, <1>2, <1>3, HeldTypes, NioInvNext

-----------------------------------------------------------------------------
\* The programs.

LEMMA ScriptIs ==
  ASSUME NEW c \in Conns, conn[c].sid \in Sids
  PROVE  Script(c) \in Seq(Items)
  <1>1. ASSUME NEW t \in {"five", "header", "body", "byte"}, NEW n \in Nat, NEW S \in SUBSET Sids
        PROVE  Item(t, c, n, S) \in Items
    BY DEF Item, Items
  <1>2. CASE c \in Controllers
    <2>1. PICK h \in Items : h = Item("header", c, 0, {})
      BY <1>1
    <2>2. Script(c) = [i \in 1 .. MaxAsk |-> h]
      BY <2>1, <1>2 DEF Script
    <2> QED
      BY <2>1, <2>2, RelayNetAssumption
  <1>3. CASE c \notin Controllers
    <2>1. PICK f, h, b \in Items : /\ f = Item("five", c, 0, {}) /\ h = Item("header", c, 1, {})
                                   /\ b = Item("body", c, 0, {conn[c].sid})
      BY <1>1
    <2>2. PICK s : s = [i \in 1 .. Bytes[c] |-> Byte(c, i)]
      OBVIOUS
    <2>3. Bytes[c] \in Nat
      BY <1>3, RelayNetAssumption DEF Conns
    <2>4. \A i \in 1 .. Bytes[c] : Byte(c, i) \in Items
      BY <1>1, <2>3 DEF Byte
    <2>5. s \in Seq(Items)
      BY <2>2, <2>3, <2>4
    <2>6. Script(c) = <<f, h, b>> \o s
      BY <2>1, <2>2, <1>3 DEF Script
    <2>7. <<f, h, b>> \in Seq(Items)
      BY <2>1
    <2> QED
      BY <2>5, <2>6, <2>7, ConcatProperties
  <1> QED
    BY <1>2, <1>3

\* What a program does to its connection does not take it up or down, and what can
\* be written to stays so.
ConnGoesOn(r, w) ==
  /\ w \in ConnRecs
  /\ w.link = "up" <=> r.link = "up"
  /\ Len(w.out) <= Len(r.out)
  /\ r.end # "open" => w.end # "open"

LEMMA ProgramIs ==
  ASSUME NioInv, NEW c \in Conns, Program(c)
  PROVE  /\ \E w : conn' = [conn EXCEPT ![c] = w] /\ ConnGoesOn(conn[c], w)
         /\ handouts' \subseteq [sid : Sids, by : Conns, n : Nat]
  <1>1. /\ conn \in [Conns -> ConnRecs] /\ handouts \subseteq [sid : Sids, by : Conns, n : Nat]
    BY HeldTypes DEF NioInv, LoopOK
  <1>2. PICK r \in ConnRecs : r = conn[c]
    BY <1>1
  <1>3. /\ r.in \in Seq(Items) /\ r.out \in Seq(Items) /\ r.got \in Seq(Items) /\ r.said \in Nat
        /\ r.sid \in Sids /\ Len(r.out) \in Nat
    BY <1>1, <1>2, ConnField DEF ConnRecs
  <1>4. PICK e \in Seq(Items) : e = <<>> /\ Len(e) = 0
    BY EmptySeq
  <1>5. ASSUME Connect(c)
        PROVE  \E w : conn' = [conn EXCEPT ![c] = w] /\ ConnGoesOn(r, w)
    <2>1. r.link = "none"
      BY <1>2, <1>5 DEF Connect
    <2>2. CASE conn' = [conn EXCEPT ![c].link = "waiting"]
      <3>1. PICK w : w = [r EXCEPT !.link = "waiting"]
        OBVIOUS
      <3>a. w \in ConnRecs /\ w.link = "waiting" /\ w.out = r.out /\ w.end = r.end
        BY <3>1 DEF ConnRecs
      <3>2. ConnGoesOn(r, w)
        BY <2>1, <3>a, <1>3 DEF ConnGoesOn
      <3> QED
        BY <2>2, <3>1, <3>2, <1>1, <1>2
    <2>3. CASE \E h \in handouts : conn' = [conn EXCEPT ![c].link = "waiting", ![c].sid = h.sid,
                                                        ![c].by = h.by, ![c].n = h.n]
      <3>1. PICK h \in handouts : conn' = [conn EXCEPT ![c].link = "waiting", ![c].sid = h.sid,
                                                       ![c].by = h.by, ![c].n = h.n]
        BY <2>3
      <3>2. PICK w : w = [r EXCEPT !.link = "waiting", !.sid = h.sid, !.by = h.by, !.n = h.n]
        OBVIOUS
      <3>3. h.sid \in Sids /\ h.by \in Conns /\ h.n \in Nat
        BY <1>1
      <3>a. w \in ConnRecs /\ w.link = "waiting" /\ w.out = r.out /\ w.end = r.end
        BY <3>2, <3>3 DEF ConnRecs
      <3>4. ConnGoesOn(r, w)
        BY <2>1, <3>a, <1>3 DEF ConnGoesOn
      <3>5. conn' = [conn EXCEPT ![c] = w]
        BY <3>1, <3>2, <1>1, <1>2
      <3> QED
        BY <3>4, <3>5
    <2> QED
      BY <2>2, <2>3, <1>5 DEF Connect
  <1>6. ASSUME Say(c)
        PROVE  \E w : conn' = [conn EXCEPT ![c] = w] /\ ConnGoesOn(r, w)
    <2>1. PICK s \in Seq(Items) : s = Script(c)
      BY <1>2, <1>3, ScriptIs
    <2>2. r.said < Len(s)
      BY <2>1, <1>2, <1>6 DEF Say
    <2>3. s[r.said + 1] \in Items
      BY <2>2, <1>3, ElementOfSeq, LenProperties
    <2>4. PICK in : in = Append(r.in, s[r.said + 1])
      OBVIOUS
    <2>5. in \in Seq(Items)
      BY <2>3, <2>4, <1>3, AppendProperties
    <2>6. PICK w : w = [r EXCEPT !.said = r.said + 1, !.in = in]
      OBVIOUS
    <2>a. w \in ConnRecs /\ w.link = r.link /\ w.out = r.out /\ w.end = r.end
      <3>1. PICK n \in Nat : n = r.said + 1
        BY <1>3
      <3> QED
        BY <3>1, <2>5, <2>6 DEF ConnRecs
    <2>7. ConnGoesOn(r, w)
      BY <2>a, <1>3 DEF ConnGoesOn
    <2>8. conn' = [conn EXCEPT ![c].said = @ + 1, ![c].in = Append(@, s[conn[c].said + 1])]
      BY <2>1, <1>6 DEF Say
    <2>9. conn' = [conn EXCEPT ![c] = w]
      BY <2>4, <2>6, <2>8, <1>1, <1>2
    <2> QED
      BY <2>7, <2>9
  <1>7. ASSUME Hear(c)
        PROVE  \E w : conn' = [conn EXCEPT ![c] = w] /\ ConnGoesOn(r, w)
    <2>1. PICK got \in Seq(Items) : got = r.got \o r.out
      BY <1>3, ConcatProperties
    <2>2. PICK w : w = [r EXCEPT !.got = got, !.out = e]
      OBVIOUS
    <2>a. w \in ConnRecs /\ w.link = r.link /\ w.out = e /\ w.end = r.end
      BY <2>1, <2>2 DEF ConnRecs
    <2>3. ConnGoesOn(r, w)
      BY <2>a, <1>3, <1>4 DEF ConnGoesOn
    <2>4. conn' = [conn EXCEPT ![c].got = r.got \o r.out, ![c].out = e]
      BY <1>1, <1>2, <1>4, <1>7 DEF Hear
    <2>5. conn' = [conn EXCEPT ![c] = w]
      BY <2>1, <2>2, <2>4, <1>1, <1>2
    <2> QED
      BY <2>3, <2>5
  <1>8. ASSUME Leave(c)
        PROVE  \E w : conn' = [conn EXCEPT ![c] = w] /\ ConnGoesOn(r, w)
    <2>1. PICK how \in {"fin", "rst"} : conn' = [conn EXCEPT ![c].end = how, ![c].out = e]
      BY <1>4, <1>8 DEF Leave
    <2>2. PICK w : w = [r EXCEPT !.end = how, !.out = e]
      OBVIOUS
    <2>a. w \in ConnRecs /\ w.link = r.link /\ w.out = e /\ w.end \in {"fin", "rst"}
      BY <2>1, <2>2 DEF ConnRecs
    <2>3. ConnGoesOn(r, w)
      BY <2>a, <1>3, <1>4 DEF ConnGoesOn
    <2>4. conn' = [conn EXCEPT ![c] = w]
      BY <2>1, <2>2, <1>1, <1>2
    <2> QED
      BY <2>3, <2>4
  <1>9. handouts' \subseteq [sid : Sids, by : Conns, n : Nat]
    <2>1. ASSUME Hear(c)
          PROVE  handouts' \subseteq [sid : Sids, by : Conns, n : Nat]
      <3>1. \A i \in 1 .. Len(r.out) : r.out[i] \in Items
        BY <1>3, ElementOfSeq
      <3>2. \A i \in 1 .. Len(r.out) : r.out[i].sids \subseteq Sids /\ r.out[i].n \in Nat
        BY <3>1 DEF Items
      <3>3. handouts' = handouts \cup
              UNION {{[sid |-> s, by |-> c, n |-> r.out[i].n] : s \in r.out[i].sids} :
                       i \in 1 .. Len(r.out)}
        BY <2>1, <1>2 DEF Hear
      <3> QED
        BY <3>2, <3>3, <1>1
    <2>2. CASE handouts' = handouts
      BY <2>2, <1>1
    <2> QED
      BY <2>1, <2>2 DEF Program, Connect, Say, Leave
  <1> QED
    BY <1>2, <1>5, <1>6, <1>7, <1>8, <1>9 DEF Program

LEMMA ProgramHolds ==
  ASSUME NioInv, NEW c \in Conns, Program(c), Others
  PROVE  NioInv'
  <1>1. /\ pc' = pc /\ batch' = batch /\ five' = five
        /\ ctrl' = ctrl /\ ctrlcache' = ctrlcache /\ ctrlist' = ctrlist
        /\ relay' = relay /\ relaycache' = relaycache /\ wpeers' = wpeers
    BY DEF Others, relayVars, ctrlVars, loopVars
  <1>2. PICK p, q : p = Pool /\ q = Controls
    OBVIOUS
  <1>3. /\ PoolOK(p) /\ ControlsOK(q) /\ OneOwner(p, q) /\ q.conn = p.conn /\ q.conn = conn
        /\ BatchOK(q, batch) /\ batch \in SUBSET Events
        /\ conn \in [Conns -> ConnRecs] /\ RoomKept(conn)
    BY <1>2, HeldTypes
  <1>4. PICK w : conn' = [conn EXCEPT ![c] = w] /\ ConnGoesOn(conn[c], w)
    BY ProgramIs
  <1>5. PICK k : k = conn'
    OBVIOUS
  <1>6. k \in [Conns -> ConnRecs] /\ k[c] = w /\ \A d \in Conns : d # c => k[d] = conn[d]
    BY <1>3, <1>4, <1>5 DEF ConnGoesOn
  <1>7. /\ RoomKept(k) /\ UpAlike(q.conn, k)
        /\ \A d \in Conns : Writable(q.conn, d) => Writable(k, d)
    <2>1. ASSUME NEW d \in Conns
          PROVE  Len(k[d].out) <= Len(conn[d].out) /\ Len(k[d].out) \in Nat /\ Len(conn[d].out) \in Nat
      BY <1>3, <1>4, <1>6, ConnField DEF ConnGoesOn
    <2>2. ASSUME NEW d \in Conns
          PROVE  /\ k[d].link = "up" <=> conn[d].link = "up"
                 /\ conn[d].end # "open" => k[d].end # "open"
      BY <1>4, <1>6 DEF ConnGoesOn
    <2>3. Room \in Nat
      BY RelayNetAssumption
    <2>4. RoomKept(k)
      BY <2>1, <2>3, <1>3 DEF RoomKept
    <2>5. UpAlike(q.conn, k)
      BY <2>2, <1>3 DEF UpAlike
    <2>6. \A d \in Conns : Writable(q.conn, d) => Writable(k, d)
      BY <2>1, <2>2, <2>3, <1>3 DEF Writable
    <2> QED
      BY <2>4, <2>5, <2>6
  <1>8. PICK p2, q2 : p2 = PoolWith(p, k) /\ q2 = ControlsWith(q, k)
    OBVIOUS
  <1>9. PoolOK(p2) /\ ControlsOK(q2) /\ OneOwner(p2, q2)
    BY <1>3, <1>6, <1>7, <1>8, ConnsChange
  <1>10. BatchOK(q2, batch')
    BY <1>1, <1>3, <1>7, <1>8, ConnsChangeEvents DEF ControlsWith
  <1>11. p2 = Pool' /\ q2 = Controls'
    BY <1>1, <1>2, <1>5, <1>8 DEF PoolWith, ControlsWith, Pool, Controls
  <1>12. LoopOK'
    <2>1. handouts' \subseteq [sid : Sids, by : Conns, n : Nat]
      BY ProgramIs
    <2> QED
      BY <2>1, <1>1 DEF NioInv, LoopOK
  <1> QED
    BY <1>9, <1>10, <1>11, <1>12, NioInvNext

-----------------------------------------------------------------------------
LEMMA StepHolds ==
  ASSUME NioInv, [Next]_vars
  PROVE  NioInv'
  <1>1. CASE UNCHANGED vars
    <2>1. /\ Pool' = Pool /\ Controls' = Controls /\ batch' = batch /\ pc' = pc /\ five' = five
          /\ handouts' = handouts /\ ctrlcache' = ctrlcache /\ ctrlist' = ctrlist
      BY <1>1 DEF vars, netVars, relayVars, ctrlVars, loopVars, Pool, Controls
    <2>2. LoopOK'
      BY <2>1 DEF NioInv, LoopOK
    <2> QED
      BY <2>1, <2>2, HeldTypes, NioInvNext
  <1>2. CASE NioStep
    BY <1>2, PollHolds, FiveBytesHolds, AnswerHolds, StartHolds, AgainHolds, AcceptHolds,
       AcceptFailsHolds, CtrlEventHolds, RelayEventHolds, StaleOutHolds DEF NioStep
  <1>3. CASE FindIdle
    BY <1>3, FindIdleHolds
  <1>4. CASE \E c \in Conns : Program(c) /\ Others
    BY <1>4, ProgramHolds
  <1> QED
    BY <1>1, <1>2, <1>3, <1>4 DEF Next

\* nio2.c keeps its pools, its lists and the owners of its connections consistent.
THEOREM Nio2Inductive == Spec => []NioInv
  BY InitHolds, StepHolds, PTL DEF Spec

\* Every variable has its type (Nio2TypeOK), whatever the daemon, the programs and
\* the kernel do.
THEOREM Nio2TypeCorrect == Spec => []Nio2TypeOK
  <1>1. ASSUME NioInv
        PROVE  Nio2TypeOK
    <2>1. PICK p, q : p = Pool /\ q = Controls
      OBVIOUS
    <2>2. /\ PoolOK(p) /\ ControlsOK(q) /\ RoomKept(conn)
          /\ p.relay = relay /\ p.cache = relaycache /\ p.hash = wpeers
          /\ q.ctrl = ctrl /\ q.cache = ctrlcache /\ q.list = ctrlist
          /\ conn \in [Conns -> ConnRecs]
      BY <1>1, <2>1, HeldTypes
    <2>3. /\ pc \in {"epoll", "batch", "five", "dead"} /\ five \in Ctrls \cup {0}
          /\ \A e \in batch : e.kind \in {"listener", "ctrl", "relay"} /\ e.ev # {}
      <3>1. \A e \in batch : e.kind \in {"listener", "ctrl", "relay"}
        BY <1>1 DEF NioInv, LoopOK, Events
      <3> QED
        BY <3>1, <1>1 DEF NioInv, LoopOK, BatchOK
    <2>4. \A c \in Conns :
            /\ conn[c].link \in {"none", "waiting", "up", "closed"}
            /\ conn[c].end \in {"open", "fin", "rst"}
            /\ Len(conn[c].out) <= Room
            /\ {conn[c].in, conn[c].out, conn[c].got} \subseteq Seq(Items)
      BY <2>2 DEF RoomKept, ConnRecs
    <2>5. \A sid \in Sids :
            /\ relay[sid].status \in {"idle", "wait", "active"}
            /\ relay[sid].s \in Conns \cup {None}
            /\ relay[sid].peer \in Sids
            /\ Len(relay[sid].buf) <= L /\ relay[sid].x2 \in Int
            /\ relay[sid].x2 <= Len(relay[sid].buf)
      <3>1. \A sid \in Sids : relay[sid] \in RelayRecs
        BY <2>2, RelayField
      <3>2. \A sid \in Sids : /\ relay[sid].status \in {"idle", "wait", "active"}
                              /\ relay[sid].s \in Conns \cup {None}
                              /\ relay[sid].peer \in Sids /\ relay[sid].x2 \in Int
        BY <3>1 DEF RelayRecs
      <3>3. \A sid \in Sids : Len(relay[sid].buf) <= L /\ relay[sid].x2 <= Len(relay[sid].buf)
        BY <2>2 DEF PoolOK
      <3> QED
        BY <3>2, <3>3
    <2>6. /\ relaycache \in Seq(Sids) /\ wpeers \subseteq Sids
          /\ ctrlcache \in Seq(Ctrls) /\ ctrlist \in Seq(Ctrls)
      BY <2>2, ControlsTypes DEF PoolOK, Pools
    <2>7. \A i \in Ctrls :
            /\ ctrl[i].s \in Conns \cup {None}
            /\ ctrl[i].rcv \in Seq(Items)
            /\ ctrl[i].rcv # <<>> => Len(ctrl[i].rcv) <= 1 + ctrl[i].rcv[1].n
      BY <2>2, CtrlField DEF ControlsOK
    <2> QED
      BY <2>3, <2>4, <2>5, <2>6, <2>7 DEF Nio2TypeOK
  <1> QED
    BY <1>1, Nio2Inductive, PTL

LEMMA OnceIs ==
  ASSUME NEW T, NEW s \in Seq(T), NoneTwice(s), NEW S, \A x : x \in S <=> On(s, x)
  PROVE  OnceEach(s, S)
  <1>1. PICK n \in Nat : n = Len(s)
    BY LenProperties
  <1>2. {s[i] : i \in 1 .. n} = S
    BY <1>1 DEF On
  <1>3. PICK f : f = [i \in 1 .. n |-> s[i]]
    OBVIOUS
  <1>4. f \in Bijection(1 .. n, S)
    <2>1. f \in [1 .. n -> S] /\ \A i \in 1 .. n : f[i] = s[i]
      BY <1>2, <1>3
    <2>2. \A i, j \in 1 .. n : f[i] = f[j] => i = j
      BY <2>1, <1>1 DEF NoneTwice
    <2>3. \A x \in S : \E i \in 1 .. n : f[i] = x
      BY <2>1, <1>1 DEF On
    <2> QED
      <3>1. f \in Injection(1 .. n, S)
        BY <2>1, <2>2 DEF Injection, IsInjective
      <3>2. f \in Surjection(1 .. n, S)
        BY <2>1, <2>3 DEF Surjection
      <3> QED
        BY <3>1, <3>2 DEF Bijection
  <1>5. Cardinality(S) = n
    <2>1. ExistsBijection(1 .. n, S)
      BY <1>4 DEF ExistsBijection
    <2> QED
      BY <2>1, <1>1, FS_CountingElements
  <1> QED
    BY <1>1, <1>2, <1>5 DEF OnceEach

\* The caches hold exactly what is not in use, once each (PoolsKept): listrm finds
\* what niostartrelay takes off, and nothing is put on a list twice.
THEOREM PoolsAlwaysKept == Spec => []PoolsKept
  <1>1. ASSUME NioInv
        PROVE  PoolsKept
    <2>1. PICK p, q : p = Pool /\ q = Controls
      OBVIOUS
    <2>2. /\ PoolOK(p) /\ ControlsOK(q)
          /\ p.relay = relay /\ p.cache = relaycache /\ p.hash = wpeers
          /\ q.ctrl = ctrl /\ q.cache = ctrlcache /\ q.list = ctrlist
      BY <1>1, <2>1, HeldTypes
    <2>3. /\ relaycache \in Seq(Sids) /\ NoneTwice(relaycache)
          /\ ctrlcache \in Seq(Ctrls) /\ NoneTwice(ctrlcache)
          /\ ctrlist \in Seq(Ctrls) /\ NoneTwice(ctrlist) /\ wpeers \subseteq Sids
      BY <2>2, ControlsTypes DEF PoolOK, Pools, ControlsOK
    <2>4. \A i : InUse(i) <=> ~On(ctrlcache, i)
      BY DEF InUse, On
    <2>5. ASSUME NEW T, NEW s \in Seq(T), NEW x, On(s, x)
          PROVE  x \in T
      BY <2>5, ElementOfSeq DEF On
    <2>6. OnceEach(relaycache, {sid \in Sids : relay[sid].status # "active"})
      <3>1. \A x : x \in {sid \in Sids : relay[sid].status # "active"} <=> On(relaycache, x)
        BY <2>2, <2>3, <2>5 DEF PoolOK
      <3> QED
        BY <3>1, <2>3, OnceIs
    <2>7. OnceEach(ctrlcache, {i \in Ctrls : ~InUse(i)})
      <3>1. \A x : x \in {i \in Ctrls : ~InUse(i)} <=> On(ctrlcache, x)
        BY <2>3, <2>4, <2>5
      <3> QED
        BY <3>1, <2>3, OnceIs
    <2>8. OnceEach(ctrlist, {i \in Ctrls : InUse(i) /\ Complete(ctrl[i].rcv)})
      <3>1. \A x : x \in {i \in Ctrls : InUse(i) /\ Complete(ctrl[i].rcv)} <=> On(ctrlist, x)
        BY <2>2, <2>3, <2>4, <2>5 DEF ControlsOK
      <3> QED
        BY <3>1, <2>3, OnceIs
    <2>9. wpeers \subseteq {sid \in Sids : relay[sid].status = "wait"}
      BY <2>2, <2>3 DEF PoolOK
    <2> QED
      BY <2>6, <2>7, <2>8, <2>9 DEF PoolsKept
  <1> QED
    BY <1>1, Nio2Inductive, PTL

\* Every connection that is up has exactly one owner (SocketsOwned), a control in
\* use or an active relay, also while niostartrelay hands it over.
THEOREM SocketsAlwaysOwned == Spec => []SocketsOwned
  <1>1. ASSUME NioInv
        PROVE  SocketsOwned
    <2> DEFINE Owner(c) == {<<"ctrl", i>> : i \in {j \in Ctrls : InUse(j) /\ ctrl[j].s = c}}
                           \cup {<<"relay", sid>> : sid \in {x \in Sids : relay[x].s = c}}
    <2>1. PICK p, q : p = Pool /\ q = Controls
      OBVIOUS
    <2>2. /\ PoolOK(p) /\ ControlsOK(q) /\ OneOwner(p, q) /\ q.conn = conn /\ p.conn = conn
          /\ p.relay = relay /\ q.ctrl = ctrl /\ q.cache = ctrlcache
      BY <1>1, <2>1, HeldTypes
    <2>3. \A i : InUse(i) <=> ~On(ctrlcache, i)
      BY DEF InUse, On
    <2>4. ASSUME NEW c \in Conns
          PROVE  Cardinality(Owner(c)) = IF conn[c].link = "up" THEN 1 ELSE 0
      <3>1. CASE HeldByRelay(p, c)
        <4>1. PICK sid \in Sids : relay[sid].s = c
          BY <3>1, <2>2 DEF HeldByRelay
        <4>2. conn[c].link = "up" /\ ~HeldByCtrl(q, c)
          BY <4>1, <3>1, <2>2, RelayNetAssumption DEF PoolOK, OneOwner
        <4>3. \A x \in Sids : relay[x].s = c => x = sid
          BY <4>1, <2>2, RelayNetAssumption DEF PoolOK
        <4>4. Owner(c) = {<<"relay", sid>>}
          BY <4>1, <4>2, <4>3, <2>2, <2>3 DEF HeldByCtrl
        <4> QED
          BY <4>2, <4>4, FS_Singleton
      <3>2. CASE HeldByCtrl(q, c)
        <4>1. PICK i \in Ctrls : InUse(i) /\ ctrl[i].s = c
          BY <3>2, <2>2, <2>3 DEF HeldByCtrl
        <4>2. conn[c].link = "up" /\ ~HeldByRelay(p, c)
          BY <4>1, <3>2, <2>2, <2>3 DEF ControlsOK, OneOwner
        <4>3. \A j \in Ctrls : InUse(j) /\ ctrl[j].s = c => j = i
          BY <4>1, <2>2, <2>3 DEF ControlsOK
        <4>4. Owner(c) = {<<"ctrl", i>>}
          BY <4>1, <4>2, <4>3, <2>2 DEF HeldByRelay
        <4> QED
          BY <4>2, <4>4, FS_Singleton
      <3>3. CASE ~HeldByRelay(p, c) /\ ~HeldByCtrl(q, c)
        <4>1. conn[c].link # "up"
          BY <3>3, <2>2 DEF OneOwner
        <4>2. Owner(c) = {}
          BY <3>3, <2>2, <2>3 DEF HeldByRelay, HeldByCtrl
        <4> QED
          BY <4>1, <4>2, FS_EmptySet
      <3> QED
        BY <3>1, <3>2, <3>3
    <2>5. \A sid \in Sids : relay[sid].status = "active" <=> relay[sid].s # None
      BY <2>2 DEF PoolOK
    <2> QED
      BY <2>4, <2>5 DEF SocketsOwned
  <1> QED
    BY <1>1, Nio2Inductive, PTL

=============================================================================
