---------------------------- MODULE RelayProofs -----------------------------
(***************************************************************************)
(* Proofs about the sessions of nio2.c, for any pools, buffers and         *)
(* programs: what one side of a session sends reaches the other side, all  *)
(* of it, in order, and nobody else.                                       *)
(***************************************************************************)
EXTENDS Nio2Proofs

-----------------------------------------------------------------------------
\* What a program sends and what it is told, of the record w of its connection.

ScriptBy(c, sid) ==
  <<Item("five", c, 0, {}), Item("header", c, 1, {}), Item("body", c, 0, {sid})>>
    \o [i \in 1 .. Bytes[c] |-> Byte(c, i)]

\* What the client c has sent from the i-th item on; behind the start message.
From(c, w, i) == SubSeq(ScriptBy(c, w.sid), i, w.said)

SentOf(c, w) == From(c, w, 4)

Told(w) == w.got \o w.out

LEMMA ScriptByIs ==
  ASSUME NEW c \in Clients, NEW sid \in Sids, NEW T, T = ScriptBy(c, sid)
  PROVE  /\ T \in Seq(Items) /\ Bytes[c] \in Nat /\ Len(T) = 3 + Bytes[c]
         /\ T[2].n = 1 /\ T[3].sids = {sid}
         /\ \A i \in 4 .. Len(T) : T[i].sids = {}
  <1>1. ASSUME NEW t \in {"five", "header", "body", "byte"}, NEW n \in Nat, NEW S \in SUBSET Sids
        PROVE  Item(t, c, n, S) \in Items
    BY DEF Item, Items, Conns
  <1>2. PICK f, h, b \in Items : /\ f = Item("five", c, 0, {}) /\ h = Item("header", c, 1, {})
                                 /\ b = Item("body", c, 0, {sid})
    BY <1>1
  <1>3. h.n = 1 /\ b.sids = {sid}
    BY <1>2 DEF Item
  <1>4. PICK m \in Nat : m = Bytes[c]
    BY RelayNetAssumption
  <1>5. PICK s : s = [i \in 1 .. m |-> Byte(c, i)]
    OBVIOUS
  <1>6. ASSUME NEW i \in 1 .. m
        PROVE  Byte(c, i) \in Items /\ Byte(c, i).sids = {}
    <2>1. Byte(c, i) \in Items
      BY <1>1 DEF Byte
    <2> QED
      BY <2>1 DEF Byte, Item
  <1>7. s \in Seq(Items) /\ Len(s) = m
    BY <1>5, <1>6
  <1>8. PICK t : t = <<f, h, b>>
    OBVIOUS
  <1>9. t \in Seq(Items) /\ Len(t) = 3 /\ t[2] = h /\ t[3] = b
    BY <1>8
  <1>10. T = t \o s
    BY <1>2, <1>4, <1>5, <1>8 DEF ScriptBy
  <1>11. T \in Seq(Items) /\ Len(T) = 3 + m
         /\ \A i \in 1 .. 3 + m : T[i] = IF i <= 3 THEN t[i] ELSE s[i - 3]
    <2>1. /\ t \o s \in Seq(Items) /\ Len(t \o s) = Len(t) + Len(s)
          /\ \A i \in 1 .. Len(t) + Len(s) :
               (t \o s)[i] = IF i <= Len(t) THEN t[i] ELSE s[i - Len(t)]
      BY <1>7, <1>9, ConcatProperties
    <2> QED
      BY ONLY <2>1, <1>7, <1>9, <1>10
  <1>12. T[2] = h /\ T[3] = b
    BY <1>4, <1>9, <1>11
  <1>13. ASSUME NEW i \in 4 .. 3 + m
         PROVE  T[i].sids = {}
    <2>1. PICK j \in 1 .. m : j = i - 3
      BY <1>4
    <2>2. T[i] = Byte(c, j)
      BY <2>1, <1>4, <1>5, <1>11
    <2> QED
      BY <2>2, <1>6
  <1> QED
    BY <1>3, <1>4, <1>11, <1>12, <1>13

\* SubSeqs of what is sent.
LEMMA FromIs ==
  ASSUME NEW c \in Clients, NEW w \in ConnRecs, w.said <= 3 + Bytes[c], NEW i \in 1 .. 4,
         NEW f, f = From(c, w, i), NEW T, T = ScriptBy(c, w.sid)
  PROVE  /\ f \in Seq(Items)
         /\ Len(f) = IF i <= w.said THEN w.said - i + 1 ELSE 0
         /\ \A j \in 1 .. w.said - i + 1 : f[j] = T[i + j - 1]
         /\ i > w.said => f = <<>>
  <1>1. PICK n \in Nat : n = w.said
    BY DEF ConnRecs
  <1>2. w.sid \in Sids
    BY DEF ConnRecs
  <1>3. T \in Seq(Items) /\ Len(T) = 3 + Bytes[c] /\ Bytes[c] \in Nat
    BY <1>2, ScriptByIs
  <1>4. \A j \in i .. n : T[j] \in Items
    BY <1>1, <1>3, ElementOfSeq
  <1>5. f = SubSeq(T, i, n)
    BY <1>1 DEF From
  <1>6. /\ f \in Seq(Items) /\ Len(f) = IF i <= n THEN n - i + 1 ELSE 0
        /\ \A j \in 1 .. n - i + 1 : f[j] = T[i + j - 1]
    BY <1>1, <1>4, <1>5, SubSeqProperties
  <1>7. i > n => f = <<>>
    BY <1>1, <1>5, SubSeqEmpty
  <1> QED
    BY <1>1, <1>6, <1>7

LEMMA FromTail ==
  ASSUME NEW c \in Clients, NEW w \in ConnRecs, w.said <= 3 + Bytes[c], NEW i \in 1 .. 3,
         i <= w.said, NEW T, T = ScriptBy(c, w.sid)
  PROVE  From(c, w, i) = <<T[i]>> \o From(c, w, i + 1) /\ T[i] \in Items
  <1>1. PICK n \in Nat : n = w.said
    BY DEF ConnRecs
  <1>2. w.sid \in Sids
    BY DEF ConnRecs
  <1>3. T \in Seq(Items) /\ Len(T) = 3 + Bytes[c] /\ Bytes[c] \in Nat
    BY <1>2, ScriptByIs
  <1>4. i \in 1 .. Len(T) /\ n \in i .. Len(T)
    BY <1>1, <1>3
  <1>5. SubSeq(T, i, n) = <<T[i]>> \o SubSeq(T, i + 1, n)
    BY <1>3, <1>4, SubSeqRecursiveFirst
  <1>6. T[i] \in Items
    BY <1>3, <1>4, ElementOfSeq
  <1> QED
    BY <1>1, <1>5, <1>6 DEF From

LEMMA FromGrows ==
  ASSUME NEW c \in Clients, NEW w \in ConnRecs, NEW u \in ConnRecs, NEW i \in 1 .. 4,
         u.said = w.said + 1, u.said <= 3 + Bytes[c], i <= u.said, u.sid = w.sid,
         NEW T, T = ScriptBy(c, w.sid)
  PROVE  From(c, u, i) = From(c, w, i) \o <<T[u.said]>> /\ T[u.said] \in Items
  <1>1. PICK n \in Nat, m \in Nat : n = w.said /\ m = u.said
    BY DEF ConnRecs
  <1>2. w.sid \in Sids
    BY DEF ConnRecs
  <1>3. T \in Seq(Items) /\ Len(T) = 3 + Bytes[c] /\ Bytes[c] \in Nat
    BY <1>2, ScriptByIs
  <1>4. i \in 1 .. Len(T) /\ m \in i .. Len(T) /\ m - 1 = n
    BY <1>1, <1>3
  <1>5. SubSeq(T, i, m) = SubSeq(T, i, m - 1) \o <<T[m]>>
    BY <1>3, <1>4, SubSeqRecursiveSecond
  <1>6. T[m] \in Items
    BY <1>3, <1>4, ElementOfSeq
  <1> QED
    BY <1>1, <1>4, <1>5, <1>6 DEF From

-----------------------------------------------------------------------------
\* The inductive invariant.  First what holds whatever the controllers do: a client's
\* bytes wait in its connection, its control has the start message of it, and a relay's
\* client has sent all of that.

\* Nothing has been sent to the client yet.
Quiet(w) == w.got = <<>> /\ w.out = <<>> /\ ~w.late

NoBody(s) == \A j \in 1 .. Len(s) : s[j].n = 0

ProgramOK(c, w) ==
  /\ c \in Clients =>
       /\ w.said <= 3 + Bytes[c]
       /\ w.link = "none" => w = Fresh
       /\ w.link # "none" => w.by \in Conns
       /\ w.link = "waiting" => Quiet(w) /\ w.in = From(c, w, 1)
  /\ c \in Controllers /\ w.link # "closed" => NoBody(w.in)

ConnsOK(k) == \A c \in Conns : ProgramOK(c, k[c])

\* Of the control z of the connection w; for the waited one niosslaccept has not
\* read the first bytes.
CtrlOK(c, w, z, waited) ==
  /\ c \in Clients =>
       /\ Quiet(w) /\ z.snd = <<>>
       /\ waited => z.rcv = <<>> /\ w.in = From(c, w, 1)
       /\ ~waited => /\ z.rcv \o w.in = From(c, w, 2)
                     /\ w.said = 0 => w.end # "open"
  /\ c \in Controllers => NoBody(z.rcv)

CtrlsOK(q, waited) ==
  \A i \in Ctrls : ~On(q.cache, i) =>
    CtrlOK(q.ctrl[i].s, q.conn[q.ctrl[i].s], q.ctrl[i], waited = i)

RelaysOK(p) ==
  \A r \in Sids :
    /\ p.relay[r].s = None => p.relay[r].buf = <<>> /\ p.relay[r].x2 = 0
    /\ p.relay[r].s # None => p.relay[r].s \in Clients /\ p.conn[p.relay[r].s].said >= 3

\* Then what holds while nobody is late.  A relay is live while it is active or its
\* client may still come: its peer then is its own.
Live(p, r) == p.relay[r].status = "active" \/ (r \in p.hash /\ ~p.relay[r].over)

Linked(p, r, x) ==
  /\ x # r /\ p.relay[x].peer = r
  /\ p.relay[x].status = "active" \/ x \in p.hash
  /\ p.relay[x].ask = p.relay[r].ask

PairsOK(p) == \A r \in Sids : Live(p, r) => Linked(p, r, p.relay[r].peer)

\* An event of a relay that has been shut since does not shut anybody else.
PendingOK(p, b) ==
  \A e \in b : e.kind = "relay" =>
    p.relay[e.id].status = "active" \/ ~Live(p, p.relay[e.id].peer)

\* What has been sent is told, in the buffer or still to be read.
Carried(p, r) == Unwritten(p.relay[r]) \o p.conn[p.relay[r].s].in

Flows(p, r) ==
  LET c == p.relay[r].s
      d == p.relay[p.relay[r].peer].s
  IN  c # None =>
        /\ d = None => Told(p.conn[c]) = <<>> /\ Carried(p, r) = SentOf(c, p.conn[c])
        /\ d # None /\ p.conn[d].end = "open" =>
             Told(p.conn[d]) \o Carried(p, r) = SentOf(c, p.conn[c])

Relaying(p) == PairsOK(p) /\ \A r \in Sids : Flows(p, r)

-----------------------------------------------------------------------------
\* What no handler of relays changes, with or without late clients.
SameTicket(w, v) == w.sid = v.sid /\ w.by = v.by /\ w.n = v.n

Moved(p, q) ==
  /\ \A c \in Conns :
       /\ SameTicket(q.conn[c], p.conn[c])
       /\ q.conn[c].said = p.conn[c].said /\ q.conn[c].late = p.conn[c].late
       /\ q.conn[c].link # p.conn[c].link => q.conn[c].link = "closed"
  /\ \A r \in Sids :
       /\ q.relay[r].s \in {p.relay[r].s, None}
       /\ q.relay[r].status = p.relay[r].status => q.relay[r].ask = p.relay[r].ask
       /\ q.relay[r].status # p.relay[r].status =>
            /\ q.relay[r].status = "idle" /\ p.relay[r].s # None
            /\ q.conn[p.relay[r].s].link = "closed"

LEMMA MovedNot ==
  ASSUME NEW p
  PROVE  Moved(p, p)
  BY DEF Moved, SameTicket

LEMMA MovedOn ==
  ASSUME NEW p, PoolOK(p), NEW q, NEW t, Moved(p, q), Moved(q, t)
  PROVE  Moved(p, t)
  <1>1. ASSUME NEW c \in Conns
        PROVE  /\ SameTicket(t.conn[c], p.conn[c])
               /\ t.conn[c].said = p.conn[c].said /\ t.conn[c].late = p.conn[c].late
               /\ t.conn[c].link # p.conn[c].link => t.conn[c].link = "closed"
               /\ q.conn[c].link = "closed" => t.conn[c].link = "closed"
    BY DEF Moved, SameTicket
  <1>2. ASSUME NEW r \in Sids
        PROVE  /\ t.relay[r].s \in {p.relay[r].s, None}
               /\ t.relay[r].status = p.relay[r].status => t.relay[r].ask = p.relay[r].ask
    <2>1. p.relay[r].s # None => p.relay[r].status = "active"
      BY DEF PoolOK
    <2>2. \/ q.relay[r].status = p.relay[r].status /\ q.relay[r].ask = p.relay[r].ask
          \/ q.relay[r].status = "idle" /\ p.relay[r].status = "active"
      BY <2>1 DEF Moved
    <2>3. t.relay[r].s \in {p.relay[r].s, None}
      BY DEF Moved
    <2> QED
      BY <2>2, <2>3 DEF Moved
  <1>3. ASSUME NEW r \in Sids, t.relay[r].status # p.relay[r].status
        PROVE  /\ t.relay[r].status = "idle" /\ p.relay[r].s # None
               /\ t.conn[p.relay[r].s].link = "closed"
    <2>1. CASE q.relay[r].status # p.relay[r].status
      <3>1. /\ q.relay[r].status = "idle" /\ p.relay[r].s # None
            /\ q.conn[p.relay[r].s].link = "closed" /\ p.relay[r].s \in Conns
        BY <2>1, RelayField DEF Moved
      <3>2. t.relay[r].status = "idle"
        BY <3>1, <1>3 DEF Moved
      <3> QED
        BY <3>1, <3>2, <1>1
    <2>2. CASE q.relay[r].status = p.relay[r].status
      BY <2>2, <1>3 DEF Moved
    <2> QED
      BY <2>1, <2>2
  <1> QED
    BY <1>1, <1>2, <1>3 DEF Moved

LEMMA FlushMoves ==
  ASSUME NEW p, PoolOK(p), RelaysOK(p), NEW sid \in Sids, NEW q, q = Flush(p, sid)
  PROVE  PoolOK(q) /\ RelaysOK(q) /\ Moved(p, q)
  <1>1. PICK c : c = p.relay[p.relay[sid].peer].s
    OBVIOUS
  <1>2. PoolOK(q) /\ Flushed(p, q, sid, c)
    BY <1>1, FlushKeeps
  <1>3. ASSUME NEW d \in Conns
        PROVE  /\ SameTicket(q.conn[d], p.conn[d])
               /\ q.conn[d].said = p.conn[d].said /\ q.conn[d].late = p.conn[d].late
               /\ q.conn[d].link = p.conn[d].link
    BY <1>2 DEF Flushed, Handed, SameSide, SameTicket
  <1>4. \A r \in Sids : SameLink(q.relay[r], p.relay[r])
    BY <1>2 DEF Flushed
  <1>5. Moved(p, q)
    BY <1>3, <1>4 DEF Moved, SameLink
  <1>6. ASSUME NEW r \in Sids, p.relay[r].s = None
        PROVE  SameBuffer(q.relay[r], p.relay[r])
    BY <1>2, <1>6 DEF Flushed, RelaysOK
  <1>7. ASSUME NEW r \in Sids
        PROVE  /\ q.relay[r].s = None => q.relay[r].buf = <<>> /\ q.relay[r].x2 = 0
               /\ q.relay[r].s # None => q.relay[r].s \in Clients /\ q.conn[q.relay[r].s].said >= 3
    BY <1>3, <1>4, <1>6 DEF RelaysOK, SameLink, SameBuffer, Conns
  <1>8. RelaysOK(q)
    BY <1>7 DEF RelaysOK
  <1> QED
    BY <1>2, <1>5, <1>8

LEMMA ReadMoves ==
  ASSUME NEW p, PoolOK(p), RelaysOK(p), NEW sid \in Sids, p.relay[sid].s # None,
         NEW q, q = Read(p, sid)
  PROVE  PoolOK(q) /\ RelaysOK(q) /\ Moved(p, q)
  <1>1. PICK c \in Conns : c = p.relay[sid].s
    BY RelayField
  <1>2. /\ PoolOK(q)
        /\ \A x \in Sids : x # sid => q.relay[x] = p.relay[x]
        /\ q.relay[sid].s = c /\ q.relay[sid].status = p.relay[sid].status
        /\ q.relay[sid].ask = p.relay[sid].ask
        /\ \A d \in Conns : d # c => q.conn[d] = p.conn[d]
        /\ SameEnds(q.conn[c], p.conn[c])
    <2>1. PICK r : r = p.relay[sid]
      OBVIOUS
    <2>2. c = r.s
      BY <1>1, <2>1
    <2>3. PoolOK(q) /\ WasRead(p, q, sid, r, c)
      BY <2>1, <2>2, ReadIs
    <2> QED
      BY <2>1, <2>3 DEF WasRead
  <1>3. ASSUME NEW d \in Conns
        PROVE  /\ SameTicket(q.conn[d], p.conn[d])
               /\ q.conn[d].said = p.conn[d].said /\ q.conn[d].late = p.conn[d].late
               /\ q.conn[d].link = p.conn[d].link
    BY <1>2 DEF SameEnds, SameTicket
  <1>4. Moved(p, q)
    BY <1>1, <1>2, <1>3 DEF Moved
  <1>5. ASSUME NEW r \in Sids
        PROVE  /\ q.relay[r].s = None => q.relay[r].buf = <<>> /\ q.relay[r].x2 = 0
               /\ q.relay[r].s # None => q.relay[r].s \in Clients /\ q.conn[q.relay[r].s].said >= 3
    BY <1>1, <1>2, <1>3, RelayNetAssumption, SMTT(30) DEF RelaysOK, Conns
  <1>6. RelaysOK(q)
    BY <1>5 DEF RelaysOK
  <1> QED
    BY <1>2, <1>4, <1>6

LEMMA ShutMoves ==
  ASSUME NEW p, PoolOK(p), RelaysOK(p), NEW sid \in Sids, NEW q, q = ShutRelay(p, sid)
  PROVE  PoolOK(q) /\ RelaysOK(q) /\ Moved(p, q)
  <1>1. PoolOK(q)
    BY ShutRelayKeeps
  <1>2. CASE p.relay[sid].s = None
    <2>1. Marked(p, q, {sid})
      BY <1>2, ShutUnused
    <2>2. Moved(p, q)
      BY <2>1 DEF Marked, Moved, SameTicket
    <2>3. RelaysOK(q)
      BY <2>1 DEF Marked, RelaysOK
    <2> QED
      BY <1>1, <2>2, <2>3
  <1>3. CASE p.relay[sid].s # None
    <2>1. PICK c \in Conns : c = p.relay[sid].s
      BY <1>3, RelayField
    <2>2. Ended(p, q, sid)
      BY <1>3, ShutActive
    <2>3. /\ q.relay[sid].status = "idle" /\ q.relay[sid].s = None
          /\ q.relay[sid].buf = <<>> /\ q.relay[sid].x2 = 0
          /\ \A x \in Sids : x # sid => q.relay[x] = p.relay[x]
          /\ \A d \in Conns : d # c => q.conn[d] = p.conn[d]
          /\ Closed(q.conn[c], p.conn[c])
      BY <2>1, <2>2 DEF Ended
    <2>4. ASSUME NEW d \in Conns
          PROVE  /\ SameTicket(q.conn[d], p.conn[d])
                 /\ q.conn[d].said = p.conn[d].said /\ q.conn[d].late = p.conn[d].late
                 /\ q.conn[d].link # p.conn[d].link => q.conn[d].link = "closed"
      BY <2>3 DEF Closed, SameTicket
    <2>5. p.relay[sid].status = "active"
      BY <1>3 DEF PoolOK
    <2>6. q.conn[c].link = "closed"
      BY <2>3 DEF Closed
    <2>7. Moved(p, q)
      BY <1>3, <2>1, <2>3, <2>4, <2>5, <2>6 DEF Moved
    <2>8. ASSUME NEW r \in Sids
          PROVE  /\ q.relay[r].s = None => q.relay[r].buf = <<>> /\ q.relay[r].x2 = 0
                 /\ q.relay[r].s # None => q.relay[r].s \in Clients /\ q.conn[q.relay[r].s].said >= 3
      BY <2>3, <2>4, SMTT(30) DEF RelaysOK, Conns
    <2>9. RelaysOK(q)
      BY <2>8 DEF RelaysOK
    <2> QED
      BY <1>1, <2>7, <2>9
  <1> QED
    BY <1>2, <1>3

LEMMA ShutBothMoves ==
  ASSUME NEW p, PoolOK(p), RelaysOK(p), NEW sid \in Sids, NEW q, q = ShutBoth(p, sid)
  PROVE  PoolOK(q) /\ RelaysOK(q) /\ Moved(p, q)
  <1>1. PICK x \in Sids : x = p.relay[sid].peer
    BY RelayField
  <1>2. PICK t : t = ShutRelay(p, sid)
    OBVIOUS
  <1>3. PoolOK(t) /\ RelaysOK(t) /\ Moved(p, t)
    BY <1>2, ShutMoves
  <1>4. q = ShutRelay(t, x)
    BY <1>1, <1>2 DEF ShutBoth
  <1> QED
    BY <1>3, <1>4, ShutMoves, MovedOn

LEMMA RelayMoves ==
  ASSUME NEW p, PoolOK(p), RelaysOK(p), NEW sid \in Sids, NEW q, q = Relay(p, sid)
  PROVE  PoolOK(q) /\ RelaysOK(q) /\ Moved(p, q)
  <1>1. PICK r, read : r = p.relay[sid] /\ read = Read(p, sid)
    OBVIOUS
  <1>2. CASE r.s = None
    BY <1>1, <1>2, RelayIs, MovedNot
  <1>3. CASE r.s # None /\ AtEnd(p, sid)
    <2>1. PICK t : t = Flush(p, sid)
      OBVIOUS
    <2>2. q = ShutBoth(t, sid)
      BY <2>1, <1>1, <1>3, RelayIs
    <2>3. PoolOK(t) /\ RelaysOK(t) /\ Moved(p, t)
      BY <2>1, FlushMoves
    <2> QED
      BY <2>2, <2>3, ShutBothMoves, MovedOn
  <1>4. CASE r.s # None /\ ~AtEnd(p, sid)
    <2>1. PoolOK(read) /\ RelaysOK(read) /\ Moved(p, read) /\ r.peer \in Sids
      BY <1>1, <1>4, ReadMoves, RelayField
    <2>2. CASE q = read
      BY <2>1, <2>2
    <2>3. CASE q = Flush(read, sid)
      BY <2>1, <2>3, FlushMoves, MovedOn
    <2>4. CASE q = ShutBoth(Flush(Flush(read, sid), r.peer), sid)
      <3>1. PICK t : t = Flush(read, sid)
        OBVIOUS
      <3>2. PICK u : u = Flush(t, r.peer)
        OBVIOUS
      <3>3. PoolOK(t) /\ RelaysOK(t) /\ Moved(p, t)
        BY <2>1, <3>1, FlushMoves, MovedOn
      <3>4. PoolOK(u) /\ RelaysOK(u) /\ Moved(p, u)
        BY <2>1, <3>2, <3>3, FlushMoves, MovedOn
      <3>5. q = ShutBoth(u, sid)
        BY <2>4, <3>1, <3>2
      <3> QED
        BY <3>4, <3>5, ShutBothMoves, MovedOn
    <2> QED
      BY <2>2, <2>3, <2>4, <1>1, <1>4, RelayIs
  <1> QED
    BY <1>2, <1>3, <1>4

-----------------------------------------------------------------------------
\* What the handlers of relays keep while nobody is late.

\* No more relays are live; one that ends is not the peer of a live one.
Fewer(p, q) ==
  \A r \in Sids :
    /\ q.relay[r].peer = p.relay[r].peer
    /\ Live(q, r) => Live(p, r)
    /\ p.relay[r].status = "active" =>
         q.relay[r].status = "active" \/ ~Live(q, q.relay[r].peer)

LEMMA FewerNot ==
  ASSUME NEW p
  PROVE  Fewer(p, p)
  BY DEF Fewer

LEMMA FewerOn ==
  ASSUME NEW p, NEW q, PoolOK(q), NEW t, Fewer(p, q), Fewer(q, t)
  PROVE  Fewer(p, t)
  <1>1. ASSUME NEW r \in Sids
        PROVE  /\ t.relay[r].peer = p.relay[r].peer
               /\ Live(t, r) => Live(p, r)
               /\ p.relay[r].status = "active" =>
                    t.relay[r].status = "active" \/ ~Live(t, t.relay[r].peer)
    <2>1. q.relay[r].peer \in Sids /\ t.relay[r].peer = q.relay[r].peer
      BY RelayField DEF Fewer
    <2>2. Live(t, t.relay[r].peer) => Live(q, q.relay[r].peer)
      BY <2>1 DEF Fewer
    <2> QED
      BY <2>1, <2>2 DEF Fewer
  <1> QED
    BY <1>1 DEF Fewer

LEMMA PendingOn ==
  ASSUME NEW p, PoolOK(p), NEW q, Fewer(p, q), NEW b \in SUBSET Events, PendingOK(p, b)
  PROVE  PendingOK(q, b)
  <1>1. ASSUME NEW e \in b, e.kind = "relay"
        PROVE  q.relay[e.id].status = "active" \/ ~Live(q, q.relay[e.id].peer)
    <2>1. e.id \in Sids
      BY <1>1 DEF Events
    <2>2. p.relay[e.id].peer \in Sids
      BY <2>1, RelayField
    <2>3. p.relay[e.id].status = "active" \/ ~Live(p, p.relay[e.id].peer)
      BY <1>1 DEF PendingOK
    <2> QED
      BY <2>1, <2>2, <2>3 DEF Fewer
  <1> QED
    BY <1>1 DEF PendingOK

\* Then what holds while, besides, nobody comes again: each client has the relay that
\* it was promised, and what it is told is what its partner has sent.
GrantedOK(p) ==
  \A r \in Sids : p.relay[r].s # None =>
    /\ p.conn[p.relay[r].s].sid = r
    /\ p.conn[p.relay[r].s].by = p.relay[r].ask.by
    /\ p.conn[p.relay[r].s].n = p.relay[r].ask.n

FromPartner(k, c, d) ==
  /\ d # c /\ k[d].by = k[c].by /\ k[d].n = k[c].n
  /\ \E u \in Seq(Items) : Told(k[c]) \o u = SentOf(d, k[d])

DeliveredOK(k) ==
  \A c \in Clients : Told(k[c]) # <<>> => \E d \in Clients : FromPartner(k, c, d)

Meets(p) == GrantedOK(p) /\ DeliveredOK(p.conn)

-----------------------------------------------------------------------------
LEMMA SameUnwritten ==
  ASSUME NEW r, NEW w, SameBuffer(r, w)
  PROVE  Unwritten(r) = Unwritten(w)
  BY DEF SameBuffer, Unwritten

LEMMA SameSent ==
  ASSUME NEW c, NEW w, NEW v, w.sid = v.sid, w.said = v.said
  PROVE  SentOf(c, w) = SentOf(c, v)
  BY DEF SentOf, From

\* A flow between connections of which no more is told and no more is read.
LEMMA FlowsOn ==
  ASSUME NEW p, NEW q, NEW r, Flows(p, r),
         NEW c, c = p.relay[r].s, NEW x, x = p.relay[r].peer, NEW d, d = p.relay[x].s,
         q.relay[r].s = c, q.relay[r].peer = x, SameBuffer(q.relay[r], p.relay[r]),
         q.relay[x].s = d,
         c # None => /\ q.conn[c].in = p.conn[c].in
                     /\ q.conn[c].sid = p.conn[c].sid /\ q.conn[c].said = p.conn[c].said,
         c # None /\ d = None => Told(q.conn[c]) = Told(p.conn[c]),
         d # None /\ q.conn[d].end = "open" =>
           p.conn[d].end = "open" /\ Told(q.conn[d]) = Told(p.conn[d])
  PROVE  Flows(q, r)
  <1>1. CASE c # None
    <2>1. Carried(q, r) = Carried(p, r)
      BY <1>1, SameUnwritten DEF Carried
    <2>2. SentOf(c, q.conn[c]) = SentOf(c, p.conn[c])
      BY <1>1, SameSent
    <2>3. /\ d = None => Told(p.conn[c]) = <<>> /\ Carried(p, r) = SentOf(c, p.conn[c])
          /\ d # None /\ p.conn[d].end = "open" =>
               Told(p.conn[d]) \o Carried(p, r) = SentOf(c, p.conn[c])
      BY <1>1 DEF Flows
    <2>4. /\ d = None => Told(q.conn[c]) = <<>> /\ Carried(q, r) = SentOf(c, q.conn[c])
          /\ d # None /\ q.conn[d].end = "open" =>
               Told(q.conn[d]) \o Carried(q, r) = SentOf(c, q.conn[c])
      BY <1>1, <2>1, <2>2, <2>3
    <2> QED
      BY <2>4 DEF Flows
  <1>2. CASE c = None
    BY <1>2 DEF Flows
  <1> QED
    BY <1>1, <1>2

\* Clients to which nothing more is told, by clients that say nothing else.
LEMMA DeliveredOn ==
  ASSUME NEW k, NEW w, DeliveredOK(k), NEW c \in Clients, Told(w[c]) # <<>>,
         Told(w[c]) = Told(k[c]),
         \A d \in Clients : /\ w[d].by = k[d].by /\ w[d].n = k[d].n
                            /\ w[d].sid = k[d].sid /\ w[d].said = k[d].said
  PROVE  \E d \in Clients : FromPartner(w, c, d)
  <1>1. PICK d \in Clients : FromPartner(k, c, d)
    BY DEF DeliveredOK
  <1>2. SentOf(d, w[d]) = SentOf(d, k[d])
    BY SameSent
  <1>3. FromPartner(w, c, d)
    BY <1>1, <1>2 DEF FromPartner
  <1> QED
    BY <1>3

LEMMA ToldIs ==
  ASSUME NEW k \in [Conns -> ConnRecs], NEW c \in Conns
  PROVE  Told(k[c]) \in Seq(Items)
  BY ConnField, ConcatProperties DEF Told

LEMMA CarriedIs ==
  ASSUME NEW p, PoolOK(p), NEW r \in Sids, p.relay[r].s # None
  PROVE  /\ Unwritten(p.relay[r]) \in Seq(Items) /\ p.conn[p.relay[r].s].in \in Seq(Items)
         /\ Carried(p, r) \in Seq(Items)
  <1>1. Unwritten(p.relay[r]) \in Seq(Items)
    <2>1. p.relay[r] \in RelayRecs /\ p.relay[r].x2 <= Len(p.relay[r].buf)
      BY RelayField DEF PoolOK
    <2> QED
      BY <2>1, UnwrittenIs
  <1>2. p.conn[p.relay[r].s].in \in Seq(Items)
    <2>1. p.relay[r].s \in Conns /\ p.conn \in [Conns -> ConnRecs]
      BY RelayField DEF PoolOK, Pools
    <2> QED
      BY <2>1, ConnField
  <1> QED
    BY <1>1, <1>2, ConcatProperties DEF Carried

\* The provers reason about its instances as a whole.
Assoc(a, b, c) == (a \o b) \o c = a \o (b \o c)

LEMMA AssocItems == \A a, b, c \in Seq(Items) : Assoc(a, b, c)
  BY ConcatAssociative DEF Assoc

LEMMA ClosedItems == \A a, b \in Seq(Items) : a \o b \in Seq(Items)
  BY ConcatProperties

\* What goes from the buffer to the peer's connection is not lost on the way: of the
\* buffer c d, with e still to be read, c is handed on behind b.
Handing(a, b, c, d, e) == (a \o (b \o c)) \o (d \o e) = (a \o b) \o ((c \o d) \o e)

LEMMA HandOn ==
  ASSUME NEW a \in Seq(Items), NEW b \in Seq(Items), NEW c \in Seq(Items),
         NEW d \in Seq(Items), NEW e \in Seq(Items)
  PROVE  Handing(a, b, c, d, e)
  <1>1. PICK de : de = d \o e
    OBVIOUS
  <1>2. PICK ab : ab = a \o b
    OBVIOUS
  <1>3. de \in Seq(Items) /\ ab \in Seq(Items)
    BY <1>1, <1>2, ClosedItems, Zenon
  <1>4. Assoc(a, b, c) /\ Assoc(ab, c, de) /\ Assoc(c, d, e)
    BY <1>3, AssocItems, Zenon
  <1>5. (a \o b) \o c = a \o (b \o c) /\ (ab \o c) \o de = ab \o (c \o de)
    BY <1>4, Zenon DEF Assoc
  <1>6. (c \o d) \o e = c \o (d \o e)
    BY <1>4, Zenon DEF Assoc
  <1> QED
    BY <1>1, <1>2, <1>5, <1>6, Zenon DEF Handing

\* nioflush2peer.
LEMMA FlushRelays ==
  ASSUME NEW p, PoolOK(p), RelaysOK(p), Relaying(p), NEW sid \in Sids, NEW q, q = Flush(p, sid)
  PROVE  Relaying(q) /\ Fewer(p, q) /\ (Meets(p) => Meets(q))
  <1>1. PICK x \in Sids : x = p.relay[sid].peer
    BY RelayField
  <1>2. PICK c : c = p.relay[x].s
    OBVIOUS
  <1>3. PoolOK(q) /\ Flushed(p, q, sid, c) /\ Moved(p, q)
    BY <1>1, <1>2, FlushKeeps, FlushMoves
  <1>4. ASSUME NEW r \in Sids
        PROVE  /\ q.relay[r].s = p.relay[r].s /\ q.relay[r].status = p.relay[r].status
               /\ q.relay[r].peer = p.relay[r].peer /\ q.relay[r].ask = p.relay[r].ask
               /\ Live(q, r) <=> Live(p, r)
               /\ p.relay[r].peer \in Sids
    BY <1>3, RelayField DEF Flushed, SameLink, Live
  <1>5. PairsOK(q)
    BY <1>3, <1>4 DEF Relaying, PairsOK, Linked, Flushed
  <1>6. Fewer(p, q)
    BY <1>4 DEF Fewer
  <1>7. ASSUME NEW d \in Conns
        PROVE  /\ q.conn[d].by = p.conn[d].by /\ q.conn[d].n = p.conn[d].n
               /\ q.conn[d].sid = p.conn[d].sid /\ q.conn[d].said = p.conn[d].said
    BY <1>3 DEF Moved, SameTicket
  <1>8. GrantedOK(p) => GrantedOK(q)
    <2>1. ASSUME GrantedOK(p), NEW r \in Sids, q.relay[r].s # None
          PROVE  /\ q.conn[q.relay[r].s].sid = r
                 /\ q.conn[q.relay[r].s].by = q.relay[r].ask.by
                 /\ q.conn[q.relay[r].s].n = q.relay[r].ask.n
      <3>1. PICK d \in Conns : d = p.relay[r].s
        BY <2>1, <1>4, RelayField
      <3>2. d # None /\ q.relay[r].s = d
        BY <2>1, <3>1, <1>4
      <3>3. p.conn[d].sid = r /\ p.conn[d].by = p.relay[r].ask.by /\ p.conn[d].n = p.relay[r].ask.n
        BY <2>1, <3>1, <3>2 DEF GrantedOK
      <3>4. /\ q.conn[d].by = p.conn[d].by /\ q.conn[d].n = p.conn[d].n
            /\ q.conn[d].sid = p.conn[d].sid /\ q.relay[r].ask = p.relay[r].ask
        BY <3>1, <1>4, <1>7
      <3> QED
        BY <3>2, <3>3, <3>4
    <2> QED
      BY <2>1 DEF GrantedOK
  <1>9. CASE q.conn = p.conn /\ SameBuffer(q.relay[sid], p.relay[sid])
    <2>1. ASSUME NEW r \in Sids
          PROVE  Flows(q, r)
      <3>1. SameBuffer(q.relay[r], p.relay[r]) /\ Flows(p, r)
        BY <1>3, <1>9 DEF Flushed, Relaying
      <3> QED
        BY <3>1, <1>4, <1>9, FlowsOn
    <2> QED
      BY <2>1, <1>5, <1>6, <1>8, <1>9 DEF Relaying, Meets
  <1>10. CASE c \in Conns /\ p.relay[sid].buf # <<>>
              /\ Handed(p.relay[sid], q.relay[sid], p.conn[c], q.conn[c])
    <2>1. PICK c1 \in Clients : c1 = p.relay[sid].s
      BY <1>10 DEF RelaysOK
    <2>2. c1 \in Conns /\ c1 # None /\ c # None
      BY <2>1, <1>10, RelayNetAssumption DEF Conns
    <2>3. Linked(p, sid, x)
      BY <2>1, <2>2, <1>1 DEF Relaying, PairsOK, Live, PoolOK
    <2>4. x # sid /\ p.relay[x].peer = sid /\ p.relay[x].ask = p.relay[sid].ask
      BY <2>3 DEF Linked
    <2>5. \A r \in Sids : p.relay[r].s = c => r = x
      BY <2>2, <1>2 DEF PoolOK
    <2>6. c1 # c
      BY <2>1, <2>4, <2>5
    <2>7. \A d \in Conns : d # c => q.conn[d] = p.conn[d]
      BY <1>3 DEF Flushed
    <2>8. /\ q.conn[c].in = p.conn[c].in
          /\ q.conn[c].end = "open" <=> p.conn[c].end = "open"
          /\ p.conn[c].end # "open" => Told(q.conn[c]) = Told(p.conn[c])
      BY <1>10 DEF Handed, SameSide, Told
    <2>9. ASSUME q.conn[c].end = "open"
          PROVE  Told(q.conn[c]) \o Carried(q, sid) = SentOf(c1, q.conn[c1])
      <3>1. PICK one \in Seq(Items) : /\ q.conn[c].out = p.conn[c].out \o one
                                      /\ Unwritten(p.relay[sid]) = one \o Unwritten(q.relay[sid])
        BY <2>8, <2>9, <1>10 DEF Handed
      <3>2. q.conn[c].got = p.conn[c].got
        BY <1>10 DEF Handed, SameSide
      <3>3. PICK g \in Seq(Items), o \in Seq(Items) : g = p.conn[c].got /\ o = p.conn[c].out
        BY <1>10, ConnField DEF PoolOK, Pools
      <3>4. PICK w \in Seq(Items), i \in Seq(Items) :
                   w = Unwritten(q.relay[sid]) /\ i = q.conn[c1].in
        BY <2>1, <2>2, <1>3, <1>4, CarriedIs
      <3>5. Told(q.conn[c]) = g \o (o \o one)
        BY <3>1, <3>2, <3>3 DEF Told
      <3>6. Told(p.conn[c]) = g \o o
        BY <3>3 DEF Told
      <3>7. Carried(q, sid) = w \o i
        BY <2>1, <3>4, <1>4 DEF Carried
      <3>8. Carried(p, sid) = (one \o w) \o i
        BY <2>1, <2>2, <2>6, <2>7, <3>1, <3>4 DEF Carried
      <3>9. Told(p.conn[c]) \o Carried(p, sid) = SentOf(c1, p.conn[c1])
        BY <2>1, <2>2, <2>8, <2>9, <1>1, <1>2 DEF Relaying, Flows
      <3>10. q.conn[c1] = p.conn[c1]
        BY <2>2, <2>6, <2>7
      <3>11. Handing(g, o, one, w, i)
        BY <3>1, <3>3, <3>4, HandOn
      <3>12. (g \o (o \o one)) \o (w \o i) = (g \o o) \o ((one \o w) \o i)
        BY <3>11, Zenon DEF Handing
      <3> QED
        BY <3>5, <3>6, <3>7, <3>8, <3>9, <3>10, <3>12, Zenon
    <2>10. ASSUME NEW r \in Sids
           PROVE  Flows(q, r)
      <3>1. CASE r = sid
        <4>1. q.relay[r].s = c1 /\ q.relay[q.relay[r].peer].s = c
          BY <2>1, <3>1, <1>1, <1>2, <1>4
        <4> QED
          BY <4>1, <2>2, <2>9, <3>1 DEF Flows
      <3>2. CASE r = x
        <4>1. SameBuffer(q.relay[r], p.relay[r]) /\ Flows(p, r)
          BY <3>2, <2>4, <1>3 DEF Flushed, Relaying
        <4>2. q.relay[r].s = c /\ q.relay[r].peer = sid /\ q.relay[sid].s = c1
          BY <2>1, <2>4, <3>2, <1>2, <1>4
        <4>3. q.conn[c1] = p.conn[c1]
          BY <2>2, <2>6, <2>7
        <4> QED
          BY <4>1, <4>2, <4>3, <2>1, <2>2, <2>4, <2>8, <3>2, <1>2, <1>7, <1>10, FlowsOn
      <3>3. CASE r # sid /\ r # x
        <4>1. SameBuffer(q.relay[r], p.relay[r]) /\ Flows(p, r)
          BY <3>3, <1>3 DEF Flushed, Relaying
        <4>2. PICK c2, y, d : c2 = p.relay[r].s /\ y = p.relay[r].peer /\ d = p.relay[y].s
          OBVIOUS
        <4>3. y \in Sids /\ q.relay[r].s = c2 /\ q.relay[r].peer = y /\ q.relay[y].s = d
          BY <4>2, <1>4
        <4>4. c2 # None => c2 \in Conns /\ c2 # c /\ y # x
          <5>1. ASSUME c2 # None
                PROVE  y # x
            <6>1. Linked(p, r, y)
              BY <4>2, <5>1 DEF Relaying, PairsOK, Live, PoolOK
            <6> QED
              BY <6>1, <2>4, <3>3 DEF Linked
          <5> QED
            BY <5>1, <4>2, <2>5, <3>3, RelayField
        <4>5. CASE c2 = None
          BY <4>3, <4>5 DEF Flows
        <4>6. CASE c2 # None
          <5>1. d # None => d \in Conns /\ d # c
            BY <4>2, <4>3, <4>4, <4>6, <2>5, RelayField
          <5>2. q.conn[c2] = p.conn[c2] /\ (d # None => q.conn[d] = p.conn[d])
            BY <5>1, <4>4, <4>6, <2>7
          <5> QED
            BY <5>2, <4>1, <4>2, <4>3, FlowsOn
        <4> QED
          BY <4>5, <4>6
      <3> QED
        BY <3>1, <3>2, <3>3
    <2>11. ASSUME Meets(p)
           PROVE  DeliveredOK(q.conn)
      <3>1. ASSUME NEW e \in Clients, Told(q.conn[e]) # <<>>
            PROVE  \E d \in Clients : FromPartner(q.conn, e, d)
        <4>1. CASE Told(q.conn[e]) = Told(p.conn[e])
          <5>1. DeliveredOK(p.conn)
            BY <2>11 DEF Meets
          <5>2. \A d \in Clients : /\ q.conn[d].by = p.conn[d].by /\ q.conn[d].n = p.conn[d].n
                                   /\ q.conn[d].sid = p.conn[d].sid /\ q.conn[d].said = p.conn[d].said
            BY <1>7 DEF Conns
          <5> QED
            BY <5>1, <5>2, <4>1, <3>1, DeliveredOn
        <4>2. CASE Told(q.conn[e]) # Told(p.conn[e])
          <5>1. e = c /\ q.conn[c].end = "open"
            BY <4>2, <2>7, <2>8 DEF Conns
          <5>2. Told(q.conn[c]) \o Carried(q, sid) = SentOf(c1, q.conn[c1])
            BY <5>1, <2>9
          <5>3. Carried(q, sid) \in Seq(Items)
            BY <2>1, <2>2, <1>3, <1>4, CarriedIs
          <5>4. q.conn[c1].by = q.conn[c].by /\ q.conn[c1].n = q.conn[c].n
            <6>1. /\ p.conn[c1].by = p.relay[sid].ask.by /\ p.conn[c1].n = p.relay[sid].ask.n
                  /\ p.conn[c].by = p.relay[x].ask.by /\ p.conn[c].n = p.relay[x].ask.n
              BY <2>1, <2>2, <2>11, <1>2 DEF Meets, GrantedOK
            <6>2. p.conn[c1].by = p.conn[c].by /\ p.conn[c1].n = p.conn[c].n
              BY <6>1, <2>4
            <6> QED
              BY <6>2, <2>2, <1>7, <1>10
          <5>5. FromPartner(q.conn, e, c1)
            BY <5>1, <5>2, <5>3, <5>4, <2>6 DEF FromPartner
          <5> QED
            BY <5>5
        <4> QED
          BY <4>1, <4>2
      <3> QED
        BY <3>1 DEF DeliveredOK
    <2>12. Relaying(q)
      BY <2>10, <1>5 DEF Relaying
    <2> QED
      BY <2>11, <2>12, <1>6, <1>8 DEF Meets
  <1> QED
    BY <1>3, <1>9, <1>10 DEF Flushed

\* What is read comes behind what was in the buffer.
LEMMA UnwrittenMore ==
  ASSUME NEW r \in RelayRecs, r.x2 <= Len(r.buf), NEW w \in RelayRecs, w.x2 = r.x2,
         NEW one \in Seq(Items), w.buf = r.buf \o one
  PROVE  Unwritten(w) = Unwritten(r) \o one
  <1>1. PICK old \in Seq(Items) : old = r.buf
    BY DEF RelayRecs
  <1>2. PICK n \in Nat, m \in Nat, k \in Int : n = Len(old) /\ m = Len(one) /\ k = r.x2
    <2>1. Len(old) \in Nat /\ Len(one) \in Nat /\ r.x2 \in Int
      BY LenProperties DEF RelayRecs
    <2> QED
      BY <2>1
  <1>3. PICK new : new = old \o one
    OBVIOUS
  <1>4. /\ new \in Seq(Items) /\ Len(new) = n + m
        /\ \A i \in 1 .. n + m : new[i] = IF i <= n THEN old[i] ELSE one[i - n]
    BY <1>2, <1>3, ConcatProperties
  <1>5. k <= n /\ w.buf = new /\ w.x2 = k
    BY <1>1, <1>2, <1>3
  <1>6. PICK u : u = Unwritten(r)
    OBVIOUS
  <1>7. /\ u \in Seq(Items) /\ Len(u) = n - k
        /\ \A i \in 1 .. n - k : u[i] = IF k + i \in 1 .. n THEN old[k + i] ELSE stray
    <2>1. u \in Seq(Items) /\ Len(u) = n - k
      BY <1>1, <1>2, <1>6, UnwrittenIs
    <2>2. \A i \in 1 .. n - k : u[i] = IF k + i \in 1 .. n THEN old[k + i] ELSE stray
      BY <1>1, <1>2, <1>6 DEF Unwritten
    <2> QED
      BY <2>1, <2>2
  <1>8. PICK v : v = Unwritten(w)
    OBVIOUS
  <1>9. /\ v \in Seq(Items) /\ Len(v) = n + m - k
        /\ \A i \in 1 .. n + m - k : v[i] = IF k + i \in 1 .. n + m THEN new[k + i] ELSE stray
    <2>1. v \in Seq(Items) /\ Len(v) = n + m - k
      <3>1. w.x2 <= Len(w.buf)
        BY <1>2, <1>4, <1>5
      <3>2. v \in Seq(Items) /\ Len(v) = Len(w.buf) - w.x2
        BY <3>1, <1>8, UnwrittenIs
      <3> QED
        <4>1. Len(w.buf) = n + m
          BY <1>4, <1>5
        <4>2. Len(w.buf) - w.x2 = n + m - k
          BY ONLY <4>1, <1>2, <1>5, SMTT(30)
        <4> QED
          BY ONLY <3>2, <4>2
    <2>2. \A i \in 1 .. n + m - k : v[i] = IF k + i \in 1 .. n + m THEN new[k + i] ELSE stray
      BY <1>4, <1>5, <1>8 DEF Unwritten
    <2> QED
      BY <2>1, <2>2
  <1>10. PICK z : z = u \o one
    OBVIOUS
  <1>11. /\ z \in Seq(Items) /\ Len(z) = n + m - k
         /\ \A i \in 1 .. n + m - k : z[i] = IF i <= n - k THEN u[i] ELSE one[i - (n - k)]
    <2>1. /\ z \in Seq(Items) /\ Len(z) = Len(u) + Len(one)
          /\ \A i \in 1 .. Len(u) + Len(one) : z[i] = IF i <= Len(u) THEN u[i] ELSE one[i - Len(u)]
      <3>1. u \in Seq(Items)
        BY <1>7
      <3> QED
        BY ONLY <3>1, <1>10, one \in Seq(Items), ConcatProperties
    <2>2. Len(u) = n - k /\ Len(one) = m
      BY <1>2, <1>7, Zenon
    <2>3. (n - k) + m = n + m - k
      BY ONLY n \in Nat, m \in Nat, k \in Int
    <2>4. Len(u) + Len(one) = n + m - k
      BY ONLY <2>2, <2>3, Zenon
    <2> QED
      BY ONLY <2>1, <2>2, <2>4, Zenon
  <1>12. ASSUME NEW i \in 1 .. n + m - k
         PROVE  v[i] = z[i]
    <2>1. CASE i <= n - k
      <3>1. z[i] = IF k + i \in 1 .. n THEN old[k + i] ELSE stray
        BY <2>1, <1>5, <1>7, <1>11
      <3>2. v[i] = IF k + i \in 1 .. n THEN new[k + i] ELSE stray
        BY <2>1, <1>5, <1>9
      <3> QED
        BY <2>1, <3>1, <3>2, <1>4
    <2>2. CASE ~(i <= n - k)
      <3>1. PICK j \in 1 .. n + m : j = k + i
        BY <2>2, <1>5
      <3>2. v[i] = one[j - n]
        BY <2>2, <3>1, <1>4, <1>9
      <3>3. z[i] = one[i - (n - k)]
        BY <1>12, <2>2, <1>11, Zenon
      <3> QED
        BY <3>1, <3>2, <3>3
    <2> QED
      BY <2>1, <2>2
  <1>13. v = z
    BY <1>9, <1>11, <1>12, SeqEqual
  <1> QED
    BY <1>6, <1>8, <1>10, <1>13

\* niorelayread.
LEMMA ReadRelays ==
  ASSUME NEW p, PoolOK(p), RelaysOK(p), Relaying(p), NEW sid \in Sids, p.relay[sid].s # None,
         NEW q, q = Read(p, sid)
  PROVE  Relaying(q) /\ Fewer(p, q) /\ (Meets(p) => Meets(q))
  <1>1. PICK r : r = p.relay[sid]
    OBVIOUS
  <1>2. PICK c \in Conns : c = r.s
    BY <1>1, RelayField
  <1>3. PoolOK(q) /\ WasRead(p, q, sid, r, c) /\ Moved(p, q)
    BY <1>1, <1>2, ReadIs, ReadMoves
  <1>4. ASSUME NEW z \in Sids
        PROVE  /\ q.relay[z].s = p.relay[z].s /\ q.relay[z].status = p.relay[z].status
               /\ q.relay[z].peer = p.relay[z].peer /\ q.relay[z].ask = p.relay[z].ask
               /\ Live(q, z) <=> Live(p, z)
               /\ p.relay[z].peer \in Sids
               /\ z # sid => SameBuffer(q.relay[z], p.relay[z])
    BY <1>1, <1>2, <1>3, RelayField, ZenonT(40) DEF WasRead, Live, SameBuffer
  <1>5. PairsOK(q)
    BY <1>3, <1>4, SMTT(30) DEF Relaying, PairsOK, Linked, WasRead
  <1>6. Fewer(p, q)
    BY <1>4 DEF Fewer
  <1>7. ASSUME NEW d \in Conns
        PROVE  /\ q.conn[d].by = p.conn[d].by /\ q.conn[d].n = p.conn[d].n
               /\ q.conn[d].sid = p.conn[d].sid /\ q.conn[d].said = p.conn[d].said
               /\ q.conn[d].end = p.conn[d].end /\ Told(q.conn[d]) = Told(p.conn[d])
               /\ d # c => q.conn[d].in = p.conn[d].in
    BY <1>3, ZenonT(40) DEF WasRead, SameEnds, Told
  <1>8. ASSUME GrantedOK(p)
        PROVE  GrantedOK(q)
    <2>1. ASSUME NEW z \in Sids, q.relay[z].s # None
          PROVE  /\ q.conn[q.relay[z].s].sid = z
                 /\ q.conn[q.relay[z].s].by = q.relay[z].ask.by
                 /\ q.conn[q.relay[z].s].n = q.relay[z].ask.n
      <3>1. PICK d \in Conns : d = p.relay[z].s
        BY <2>1, <1>4, RelayField
      <3>2. d # None /\ q.relay[z].s = d
        BY <2>1, <3>1, <1>4
      <3>3. p.conn[d].sid = z /\ p.conn[d].by = p.relay[z].ask.by /\ p.conn[d].n = p.relay[z].ask.n
        BY <1>8, <3>1, <3>2 DEF GrantedOK
      <3> QED
        BY <3>2, <3>3, <1>4, <1>7
    <2> QED
      BY <2>1 DEF GrantedOK
  <1>9. ASSUME DeliveredOK(p.conn)
        PROVE  DeliveredOK(q.conn)
    <2>1. ASSUME NEW e \in Clients, Told(q.conn[e]) # <<>>
          PROVE  \E d \in Clients : FromPartner(q.conn, e, d)
      <3>1. \A d \in Clients : /\ q.conn[d].by = p.conn[d].by /\ q.conn[d].n = p.conn[d].n
                               /\ q.conn[d].sid = p.conn[d].sid /\ q.conn[d].said = p.conn[d].said
                               /\ Told(q.conn[d]) = Told(p.conn[d])
        BY <1>7 DEF Conns
      <3> QED
        BY <3>1, <2>1, <1>9, DeliveredOn
    <2> QED
      BY <2>1 DEF DeliveredOK
  <1>10. Carried(q, sid) = Carried(p, sid)
    <2>1. PICK in \in Seq(Items) : in = p.conn[c].in
      BY ConnField DEF PoolOK, Pools
    <2>2. PICK n \in 0 .. Len(in) : /\ q.relay[sid].buf = r.buf \o SubSeq(in, 1, n)
                                    /\ q.conn[c].in = SubSeq(in, n + 1, Len(in))
      BY <2>1, <1>3 DEF WasRead
    <2>3. PICK one, rest : one = SubSeq(in, 1, n) /\ rest = SubSeq(in, n + 1, Len(in))
      OBVIOUS
    <2>4. one \in Seq(Items) /\ rest \in Seq(Items)
      BY <2>2, <2>3, PrefixIs
    <2>5. in = one \o rest
      BY <2>2, <2>3, Halves
    <2>6. PICK w : w = q.relay[sid]
      OBVIOUS
    <2>7. /\ r \in RelayRecs /\ r.x2 <= Len(r.buf) /\ w \in RelayRecs /\ w.x2 = r.x2
          /\ w.buf = r.buf \o one /\ w.s = c
      <3>1. r \in RelayRecs /\ w \in RelayRecs
        <4>1. p.relay[sid] \in RelayRecs /\ q.relay[sid] \in RelayRecs
          BY <1>3, RelayField, Zenon
        <4> QED
          BY ONLY <4>1, <2>6, <1>1, Zenon
      <3>2. w.x2 = r.x2 /\ w.s = c
        BY <2>6, <1>1, <1>3 DEF WasRead
      <3>3. w.buf = r.buf \o one
        BY <2>2, <2>3, <2>6, Zenon
      <3>4. r.x2 <= Len(r.buf)
        BY <1>1 DEF PoolOK
      <3> QED
        BY <3>1, <3>2, <3>3, <3>4, Zenon
    <2>8. PICK x, y : x = Unwritten(r) /\ y = Unwritten(w)
      OBVIOUS
    <2>9. x \in Seq(Items)
      BY <2>7, <2>8, UnwrittenIs
    <2>10. y = x \o one
      BY <2>4, <2>7, <2>8, UnwrittenMore
    <2>11. (x \o one) \o rest = x \o (one \o rest)
      <3>1. Assoc(x, one, rest)
        BY <2>4, <2>9, AssocItems, Zenon
      <3> QED
        BY <3>1, Zenon DEF Assoc
    <2>12. Carried(p, sid) = x \o in
      BY <2>1, <2>8, <1>1, <1>2, Zenon DEF Carried
    <2>13. Carried(q, sid) = y \o rest
      <3>1. q.conn[c].in = rest /\ q.relay[sid].s = c
        BY <2>2, <2>3, <2>6, <2>7
      <3> QED
        BY <3>1, <2>6, <2>8, Zenon DEF Carried
    <2> QED
      BY <2>5, <2>10, <2>11, <2>12, <2>13, Zenon
  <1>11. ASSUME NEW z \in Sids
         PROVE  Flows(q, z)
    <2>1. PICK e, x, d : e = p.relay[z].s /\ x = p.relay[z].peer /\ d = p.relay[x].s
      OBVIOUS
    <2>2. /\ x \in Sids /\ q.relay[z].s = e /\ q.relay[z].peer = x /\ q.relay[x].s = d
          /\ e # None => e \in Conns
          /\ d # None => d \in Conns
      BY <2>1, <1>4, RelayField
    <2>3. Flows(p, z)
      BY DEF Relaying
    <2>4. CASE z = sid
      <3>1. e = c /\ e # None
        BY <2>1, <2>4, <1>1, <1>2
      <3>2. SentOf(e, q.conn[e]) = SentOf(e, p.conn[e])
        BY <3>1, <1>7, SameSent
      <3>3. /\ d = None => Told(p.conn[e]) = <<>> /\ Carried(p, z) = SentOf(e, p.conn[e])
            /\ d # None /\ p.conn[d].end = "open" =>
                 Told(p.conn[d]) \o Carried(p, z) = SentOf(e, p.conn[e])
        BY <2>1, <2>3, <3>1 DEF Flows
      <3>4. Told(q.conn[e]) = Told(p.conn[e])
        BY <3>1, <1>7
      <3>5. d # None => Told(q.conn[d]) = Told(p.conn[d]) /\ q.conn[d].end = p.conn[d].end
        BY <2>2, <1>7
      <3>6. Carried(q, z) = Carried(p, z)
        BY <2>4, <1>10
      <3>7. /\ d = None => Told(q.conn[e]) = <<>> /\ Carried(q, z) = SentOf(e, q.conn[e])
            /\ d # None /\ q.conn[d].end = "open" =>
                 Told(q.conn[d]) \o Carried(q, z) = SentOf(e, q.conn[e])
        BY <3>2, <3>3, <3>4, <3>5, <3>6, Zenon
      <3> QED
        BY <2>2, <3>7 DEF Flows
    <2>5. CASE z # sid
      <3>1. e # None => e # c
        BY <2>1, <2>5, <1>1, <1>2 DEF PoolOK
      <3>2. e # None => /\ q.conn[e].in = p.conn[e].in
                        /\ q.conn[e].sid = p.conn[e].sid /\ q.conn[e].said = p.conn[e].said
                        /\ Told(q.conn[e]) = Told(p.conn[e])
        BY <2>2, <3>1, <1>7
      <3>3. d # None => /\ Told(q.conn[d]) = Told(p.conn[d])
                        /\ q.conn[d].end = "open" => p.conn[d].end = "open"
        BY <2>2, <1>7
      <3>4. SameBuffer(q.relay[z], p.relay[z])
        BY <2>5, <1>4
      <3> QED
        BY <2>1, <2>2, <2>3, <3>2, <3>3, <3>4, FlowsOn
    <2> QED
      BY <2>4, <2>5
  <1> QED
    BY <1>5, <1>6, <1>8, <1>9, <1>11 DEF Relaying, Meets

\* Relays that wait and are marked as shut.
LEMMA MarkedRelays ==
  ASSUME NEW p, PoolOK(p), Relaying(p), NEW M, NEW q, Marked(p, q, M)
  PROVE  Relaying(q) /\ Fewer(p, q) /\ (Meets(p) => Meets(q))
  <1>1. ASSUME NEW r \in Sids
        PROVE  /\ q.relay[r].s = p.relay[r].s /\ q.relay[r].status = p.relay[r].status
               /\ q.relay[r].peer = p.relay[r].peer /\ q.relay[r].ask = p.relay[r].ask
               /\ SameBuffer(q.relay[r], p.relay[r])
               /\ Live(q, r) => Live(p, r)
               /\ p.relay[r].peer \in Sids
    BY RelayField DEF Marked, SameBuffer, Live
  <1>2. q.hash = p.hash /\ q.conn = p.conn
    BY DEF Marked
  <1>3. PairsOK(q)
    BY <1>1, <1>2 DEF Relaying, PairsOK, Linked
  <1>4. Fewer(p, q)
    BY <1>1 DEF Fewer
  <1>5. ASSUME NEW r \in Sids
        PROVE  Flows(q, r)
    <2>1. Flows(p, r)
      BY DEF Relaying
    <2> QED
      BY <2>1, <1>1, <1>2, FlowsOn
  <1>6. GrantedOK(p) => GrantedOK(q)
    BY <1>1, <1>2 DEF GrantedOK
  <1> QED
    BY <1>2, <1>3, <1>4, <1>5, <1>6 DEF Relaying, Meets

\* A pair of relays is over: the first was active.
Parted(p, q, sid, x) ==
  /\ q.hash = p.hash
  /\ q.relay[sid].s = None /\ q.relay[x].s = None /\ ~Live(q, sid) /\ ~Live(q, x)
  /\ q.relay[sid].peer = p.relay[sid].peer /\ q.relay[x].peer = p.relay[x].peer
  /\ \A r \in Sids : r # sid /\ r # x => q.relay[r] = p.relay[r]
  /\ \A e \in Conns :
       /\ e # p.relay[sid].s /\ e # p.relay[x].s => q.conn[e] = p.conn[e]
       /\ Told(q.conn[e]) = Told(p.conn[e]) /\ q.conn[e].said = p.conn[e].said
       /\ SameTicket(q.conn[e], p.conn[e])

LEMMA PartedRelays ==
  ASSUME NEW p, PoolOK(p), Relaying(p), NEW sid \in Sids, NEW x \in Sids, Linked(p, sid, x),
         x = p.relay[sid].peer, NEW q, Parted(p, q, sid, x)
  PROVE  Relaying(q) /\ Fewer(p, q) /\ (Meets(p) => Meets(q))
  <1>1. x # sid /\ p.relay[x].peer = sid
    BY DEF Linked
  <1>2. ASSUME NEW r \in Sids
        PROVE  /\ q.relay[r].peer = p.relay[r].peer /\ p.relay[r].peer \in Sids
               /\ Live(q, r) => r # sid /\ r # x /\ Live(p, r)
               /\ r # sid /\ r # x => q.relay[r] = p.relay[r]
               /\ q.relay[r].s # None => r # sid /\ r # x
    BY RelayField DEF Parted, Live
  <1>3. ASSUME NEW r \in Sids, Live(p, r), r # sid, r # x
        PROVE  p.relay[r].peer # sid /\ p.relay[r].peer # x
    <2>1. Linked(p, r, p.relay[r].peer)
      BY <1>3 DEF Relaying, PairsOK
    <2> QED
      BY <2>1, <1>1, <1>3 DEF Linked
  <1>4. ASSUME NEW r \in Sids, Live(q, r)
        PROVE  Linked(q, r, q.relay[r].peer)
    <2>1. PICK y \in Sids : y = p.relay[r].peer
      BY <1>2
    <2>2. r # sid /\ r # x /\ Live(p, r)
      BY <1>2, <1>4
    <2>3. Linked(p, r, y) /\ y # sid /\ y # x
      BY <2>1, <2>2, <1>3 DEF Relaying, PairsOK
    <2>4. q.relay[y] = p.relay[y] /\ q.relay[r] = p.relay[r] /\ q.hash = p.hash
      BY <2>2, <2>3, <1>2 DEF Parted
    <2> QED
      BY <2>1, <2>3, <2>4 DEF Linked
  <1>5. Fewer(p, q)
    <2>1. ASSUME NEW r \in Sids, p.relay[r].status = "active"
          PROVE  q.relay[r].status = "active" \/ ~Live(q, q.relay[r].peer)
      <3>1. CASE r = sid \/ r = x
        BY <3>1, <1>1, <1>2
      <3>2. CASE r # sid /\ r # x
        BY <3>2, <2>1, <1>2
      <3> QED
        BY <3>1, <3>2
    <2> QED
      BY <2>1, <1>2 DEF Fewer
  <1>6. ASSUME NEW r \in Sids
        PROVE  Flows(q, r)
    <2>1. CASE q.relay[r].s = None
      BY <2>1 DEF Flows
    <2>2. CASE q.relay[r].s # None
      <3>1. PICK y \in Sids : y = p.relay[r].peer
        BY <1>2
      <3>2. PICK c, d : c = p.relay[r].s /\ d = p.relay[y].s
        OBVIOUS
      <3>3. r # sid /\ r # x /\ q.relay[r] = p.relay[r] /\ c # None /\ Live(p, r)
        BY <2>2, <3>2, <1>2 DEF Live, PoolOK
      <3>4. y # sid /\ y # x /\ q.relay[y] = p.relay[y]
        BY <3>1, <3>3, <1>2, <1>3
      <3>5. q.conn[c] = p.conn[c]
        <4>1. c \in Conns /\ c # p.relay[sid].s /\ c # p.relay[x].s
          BY <3>2, <3>3, RelayField DEF PoolOK
        <4> QED
          BY <4>1 DEF Parted
      <3>6. d # None => q.conn[d] = p.conn[d]
        <4>1. d # None => d \in Conns /\ d # p.relay[sid].s /\ d # p.relay[x].s
          BY <3>2, <3>4, RelayField DEF PoolOK
        <4> QED
          BY <4>1 DEF Parted
      <3>7. Flows(p, r) /\ SameBuffer(q.relay[r], p.relay[r])
        BY <3>3 DEF Relaying, SameBuffer
      <3> QED
        BY <3>1, <3>2, <3>3, <3>4, <3>5, <3>6, <3>7, FlowsOn
    <2> QED
      BY <2>1, <2>2
  <1>7. ASSUME GrantedOK(p)
        PROVE  GrantedOK(q)
    <2>1. ASSUME NEW r \in Sids, q.relay[r].s # None
          PROVE  /\ q.conn[q.relay[r].s].sid = r
                 /\ q.conn[q.relay[r].s].by = q.relay[r].ask.by
                 /\ q.conn[q.relay[r].s].n = q.relay[r].ask.n
      <3>1. q.relay[r] = p.relay[r]
        BY <2>1, <1>2
      <3>2. PICK d \in Conns : d = p.relay[r].s
        BY <2>1, <3>1, RelayField
      <3>3. p.conn[d].sid = r /\ p.conn[d].by = p.relay[r].ask.by /\ p.conn[d].n = p.relay[r].ask.n
        BY <2>1, <1>7, <3>1, <3>2 DEF GrantedOK
      <3>4. SameTicket(q.conn[d], p.conn[d])
        BY DEF Parted
      <3> QED
        BY <3>1, <3>2, <3>3, <3>4 DEF SameTicket
    <2> QED
      BY <2>1 DEF GrantedOK
  <1>8. ASSUME DeliveredOK(p.conn)
        PROVE  DeliveredOK(q.conn)
    <2>1. ASSUME NEW e \in Clients, Told(q.conn[e]) # <<>>
          PROVE  \E d \in Clients : FromPartner(q.conn, e, d)
      <3>1. \A d \in Clients : /\ q.conn[d].by = p.conn[d].by /\ q.conn[d].n = p.conn[d].n
                               /\ q.conn[d].sid = p.conn[d].sid /\ q.conn[d].said = p.conn[d].said
                               /\ Told(q.conn[d]) = Told(p.conn[d])
        BY DEF Conns, Parted, SameTicket
      <3> QED
        BY <3>1, <2>1, <1>8, DeliveredOn
    <2> QED
      BY <2>1 DEF DeliveredOK
  <1> QED
    BY <1>4, <1>5, <1>6, <1>7, <1>8 DEF Relaying, PairsOK, Meets

LEMMA SameTold ==
  ASSUME NEW w, NEW v, Closed(w, v)
  PROVE  Told(w) = Told(v) /\ w.said = v.said /\ SameTicket(w, v)
  BY DEF Closed, Told, SameTicket

\* The two calls of nioshutrelay.
LEMMA ShutBothRelays ==
  ASSUME NEW p, PoolOK(p), RelaysOK(p), Relaying(p), NEW sid \in Sids,
         p.relay[sid].s # None \/ ~Live(p, p.relay[sid].peer), NEW q, q = ShutBoth(p, sid)
  PROVE  Relaying(q) /\ Fewer(p, q) /\ (Meets(p) => Meets(q))
  <1>1. PICK x \in Sids : x = p.relay[sid].peer
    BY RelayField
  <1>2. PICK t : t = ShutRelay(p, sid)
    OBVIOUS
  <1>3. PoolOK(t) /\ q = ShutRelay(t, x) /\ PoolOK(q)
    BY <1>1, <1>2, ShutRelayKeeps DEF ShutBoth
  <1>4. CASE p.relay[sid].s = None
    <2>1. Marked(p, t, {sid})
      BY <1>2, <1>4, ShutUnused
    <2>2. Relaying(t) /\ Fewer(p, t) /\ (Meets(p) => Meets(t))
      BY <2>1, MarkedRelays
    <2>3. p.relay[x].s = None
      BY <1>1, <1>4 DEF Live, PoolOK
    <2>4. t.relay[x].s = None
      BY <2>1, <2>3 DEF Marked
    <2>5. Marked(t, q, {x})
      BY <2>4, <1>3, ShutUnused
    <2>6. Relaying(q) /\ Fewer(t, q) /\ (Meets(t) => Meets(q))
      BY <2>2, <2>5, <1>3, MarkedRelays
    <2> QED
      BY <2>2, <2>6, <1>3, FewerOn
  <1>5. CASE p.relay[sid].s # None
    <2>1. PICK c \in Conns : c = p.relay[sid].s
      BY <1>5, RelayField
    <2>2. Linked(p, sid, x)
      BY <1>1, <1>5 DEF Relaying, PairsOK, Live, PoolOK
    <2>3. x # sid /\ (p.relay[x].status = "active" \/ x \in p.hash)
      BY <2>2 DEF Linked
    <2>4. Ended(p, t, sid)
      BY <1>2, <1>5, ShutActive
    <2>5. /\ t.hash = p.hash /\ t.relay[sid].status = "idle" /\ t.relay[sid].s = None
          /\ t.relay[sid].peer = p.relay[sid].peer
          /\ \A r \in Sids : r # sid => t.relay[r] = p.relay[r]
          /\ \A e \in Conns : e # c => t.conn[e] = p.conn[e]
          /\ Closed(t.conn[c], p.conn[c])
      BY <2>1, <2>4 DEF Ended
    <2>6. Parted(p, q, sid, x)
      <3>1. CASE p.relay[x].s = None
        <4>1. Marked(t, q, {x})
          BY <2>3, <2>5, <3>1, <1>3, ShutUnused
        <4>2. x \in p.hash
          BY <2>3, <3>1 DEF PoolOK
        <4>3. /\ q.conn = t.conn /\ q.hash = p.hash
              /\ q.relay[sid].s = None /\ q.relay[x].s = None
              /\ q.relay[sid].status = "idle" /\ q.relay[x].status = p.relay[x].status
              /\ q.relay[sid].peer = p.relay[sid].peer /\ q.relay[x].peer = p.relay[x].peer
              /\ q.relay[x].over
          BY <2>3, <2>5, <3>1, <4>1, <4>2 DEF Marked
        <4>4. \A r \in Sids : r # sid /\ r # x => q.relay[r] = p.relay[r]
          <5>1. q = [t EXCEPT !.relay[x].over = t.relay[x].status = "wait"]
            BY <2>3, <2>5, <3>1, <1>3 DEF ShutRelay
          <5>2. t.relay \in [Sids -> RelayRecs] /\ t \in Pools
            BY <1>3 DEF PoolOK, Pools
          <5>3. \A r \in Sids : r # x => q.relay[r] = t.relay[r]
            BY <5>1, <5>2 DEF Pools
          <5> QED
            BY <5>3, <2>5
        <4>5. ~Live(q, sid) /\ ~Live(q, x)
          BY <3>1, <4>3, <1>3 DEF Live, PoolOK
        <4>6. \A e \in Conns :
                /\ e # c /\ e # p.relay[x].s => q.conn[e] = p.conn[e]
                /\ Told(q.conn[e]) = Told(p.conn[e]) /\ q.conn[e].said = p.conn[e].said
                /\ SameTicket(q.conn[e], p.conn[e])
          BY <2>5, <4>3, SameTold DEF SameTicket
        <4> QED
          BY <2>1, <4>3, <4>4, <4>5, <4>6 DEF Parted
      <3>2. CASE p.relay[x].s # None
        <4>1. PICK d \in Conns : d = p.relay[x].s
          BY <3>2, RelayField
        <4>2. d # c /\ t.relay[x].s = d /\ d # None
          BY <2>1, <2>3, <2>5, <3>2, <4>1 DEF PoolOK
        <4>3. Ended(t, q, x)
          BY <4>2, <1>3, ShutActive
        <4>4. /\ q.hash = p.hash
              /\ q.relay[sid].s = None /\ q.relay[x].s = None
              /\ q.relay[sid].status = "idle" /\ q.relay[x].status = "idle"
              /\ q.relay[sid].peer = p.relay[sid].peer /\ q.relay[x].peer = p.relay[x].peer
              /\ \A r \in Sids : r # sid /\ r # x => q.relay[r] = p.relay[r]
              /\ \A e \in Conns : e # d => q.conn[e] = t.conn[e]
              /\ Closed(q.conn[d], t.conn[d])
          BY <2>3, <2>5, <4>2, <4>3 DEF Ended
        <4>5. ~Live(q, sid) /\ ~Live(q, x)
          BY <4>4, <1>3 DEF Live, PoolOK
        <4>6. t.conn[d] = p.conn[d]
          BY <2>5, <4>2
        <4>7. ASSUME NEW e \in Conns
              PROVE  /\ e # c /\ e # d => q.conn[e] = p.conn[e]
                     /\ Told(q.conn[e]) = Told(p.conn[e]) /\ q.conn[e].said = p.conn[e].said
                     /\ SameTicket(q.conn[e], p.conn[e])
          <5>1. CASE e = d
            BY <5>1, <4>4, <4>6, SameTold
          <5>2. CASE e # d /\ e = c
            BY <5>2, <4>4, <2>5, SameTold
          <5>3. CASE e # d /\ e # c
            BY <5>3, <4>4, <2>5 DEF SameTicket
          <5> QED
            BY <5>1, <5>2, <5>3
        <4> QED
          BY <2>1, <4>1, <4>4, <4>5, <4>7 DEF Parted
      <3> QED
        BY <3>1, <3>2
    <2> QED
      BY <2>2, <2>6, <1>1, PartedRelays
  <1> QED
    BY <1>4, <1>5

\* niorelay.
Keeps(p, q) == Relaying(q) /\ Fewer(p, q) /\ (Meets(p) => Meets(q))

LEMMA KeepsOn ==
  ASSUME NEW p, NEW q, PoolOK(q), NEW v, Keeps(p, q), Keeps(q, v)
  PROVE  Keeps(p, v)
  BY FewerOn DEF Keeps

LEMMA FlushStays ==
  ASSUME NEW p, PoolOK(p), RelaysOK(p), Relaying(p), NEW sid \in Sids, NEW q, q = Flush(p, sid)
  PROVE  /\ PoolOK(q) /\ RelaysOK(q) /\ Keeps(p, q)
         /\ \A r \in Sids : q.relay[r].s = p.relay[r].s /\ q.relay[r].peer = p.relay[r].peer
  <1>1. \A r \in Sids : q.relay[r].s = p.relay[r].s /\ q.relay[r].peer = p.relay[r].peer
    BY FlushKeeps DEF Flushed, SameLink
  <1> QED
    BY <1>1, FlushMoves, FlushRelays DEF Keeps

LEMMA RelayRelays ==
  ASSUME NEW p, PoolOK(p), RelaysOK(p), Relaying(p), NEW sid \in Sids, NEW q, q = Relay(p, sid)
  PROVE  Keeps(p, q)
  <1>1. PICK r, read : r = p.relay[sid] /\ read = Read(p, sid)
    OBVIOUS
  <1>2. CASE r.s = None
    <2>1. q = p
      BY <1>1, <1>2, RelayIs
    <2> QED
      BY <2>1, FewerNot DEF Keeps
  <1>3. CASE r.s # None /\ AtEnd(p, sid)
    <2>1. PICK f : f = Flush(p, sid)
      OBVIOUS
    <2>2. q = ShutBoth(f, sid)
      BY <2>1, <1>1, <1>3, RelayIs
    <2>3. PoolOK(f) /\ RelaysOK(f) /\ Keeps(p, f) /\ f.relay[sid].s # None
      BY <2>1, <1>1, <1>3, FlushStays
    <2>4. Keeps(f, q)
      BY <2>2, <2>3, ShutBothRelays DEF Keeps
    <2> QED
      BY <2>3, <2>4, KeepsOn
  <1>4. CASE r.s # None /\ ~AtEnd(p, sid)
    <2>1. PoolOK(read) /\ RelaysOK(read) /\ Keeps(p, read) /\ r.peer \in Sids
      BY <1>1, <1>4, ReadMoves, ReadRelays, RelayField DEF Keeps
    <2>2. read.relay[sid].s # None
      <3>1. PICK c \in Conns : c = r.s
        BY <1>1, <1>4, RelayField
      <3>2. WasRead(p, read, sid, r, c)
        BY <3>1, <1>1, ReadIs
      <3> QED
        BY <3>1, <3>2, <1>4 DEF WasRead
    <2>3. CASE q = read
      BY <2>1, <2>3
    <2>4. CASE q = Flush(read, sid)
      <3>1. Keeps(read, q)
        BY <2>1, <2>4, FlushStays DEF Keeps
      <3> QED
        BY <2>1, <3>1, KeepsOn
    <2>5. CASE q = ShutBoth(Flush(Flush(read, sid), r.peer), sid)
      <3>1. PICK f : f = Flush(read, sid)
        OBVIOUS
      <3>2. PICK g : g = Flush(f, r.peer)
        OBVIOUS
      <3>3. PoolOK(f) /\ RelaysOK(f) /\ Keeps(read, f) /\ f.relay[sid].s # None
        BY <2>1, <2>2, <3>1, FlushStays DEF Keeps
      <3>4. PoolOK(g) /\ RelaysOK(g) /\ Keeps(f, g) /\ g.relay[sid].s # None
        BY <2>1, <3>2, <3>3, FlushStays DEF Keeps
      <3>5. q = ShutBoth(g, sid)
        BY <2>5, <3>1, <3>2
      <3>6. Keeps(g, q)
        BY <3>4, <3>5, ShutBothRelays DEF Keeps
      <3> QED
        BY <2>1, <3>3, <3>4, <3>6, KeepsOn
    <2> QED
      BY <2>3, <2>4, <2>5, <1>1, <1>4, RelayIs
  <1> QED
    BY <1>2, <1>3, <1>4

-----------------------------------------------------------------------------
\* The invariant of the sessions.  A ticket is what an answer promises: a sid, to
\* whoever the controller gives it to.

NoneLate(k) == \A c \in Clients : ~k[c].late

NoneAgain(k) ==
  \A c, d \in Clients :
    c # d /\ k[c].by = k[d].by /\ k[c].n = k[d].n /\ k[c].by # None => k[c].sid # k[d].sid

Tickets == [sid : Sids, by : Conns, n : Nat]

HasTicket(w, h) == w.sid = h.sid /\ w.by = h.by /\ w.n = h.n

\* Its relay waits for this ticket or is its client's, or that client was here.
Promise(p, h) ==
  \/ p.relay[h.sid].status # "idle" /\ p.relay[h.sid].ask = [by |-> h.by, n |-> h.n]
  \/ \E d \in Clients : p.conn[d].link = "closed" /\ HasTicket(p.conn[d], h)

Offers(m, c, h) == h.sid \in m.sids /\ h.by = c /\ h.n = m.n

\* The ticket is on its way to the controller: written to it, or owed to it.
UnderWay(k, h) == \E c \in Controllers : \E m : On(k[c].out, m) /\ Offers(m, c, h)

Owed(q, h) ==
  \E i \in Ctrls : \E m : ~On(q.cache, i) /\ Owes(q.ctrl[i], m) /\ Offers(m, q.ctrl[i].s, h)

\* A client has come with it.
Brought(k, h) == \E c \in Clients : k[c].link # "none" /\ HasTicket(k[c], h)

Known(q, H, h) == h \in H \/ UnderWay(q.conn, h) \/ Owed(q, h) \/ Brought(q.conn, h)

PromisesOK(p, q, H) == \A h \in Tickets : Known(q, H, h) => Promise(p, h)

\* What holds of every step, what holds while nobody is late, and what holds while,
\* besides, nobody comes again.
Basics(p, q, waited) == ConnsOK(p.conn) /\ CtrlsOK(q, waited) /\ RelaysOK(p)

InTime(p, b) == NoneLate(p.conn) => Relaying(p) /\ PendingOK(p, b)

Once(p, q, H) == NoneLate(p.conn) /\ NoneAgain(p.conn) => Meets(p) /\ PromisesOK(p, q, H)

Facts(p, q, H, b, waited) == Basics(p, q, waited) /\ InTime(p, b) /\ Once(p, q, H)

\* The control whose client has not sent the five bytes.
Waited == IF pc = "five" THEN five ELSE 0

Sessions == NioInv /\ Facts(Pool, Controls, handouts, batch, Waited)

LEMMA SessionsNext ==
  ASSUME NEW p, NEW q, NEW waited, p = Pool', q = Controls', waited = Waited',
         NioInv', Facts(p, q, handouts', batch', waited)
  PROVE  Sessions'
  BY DEF Sessions

LEMMA NextTypes ==
  ASSUME NEW p, NEW q, p = Pool', q = Controls', NioInv'
  PROVE  PoolOK(p) /\ ControlsOK(q)
  BY DEF NioInv

-----------------------------------------------------------------------------
\* Steps that leave the relays alone and change one connection.

\* What a connection of a client may come to: more is sent, nothing more is told, and
\* if a relay has it, what is sent is to be read behind the rest.
Grows(c, v, w, held) ==
  /\ SameTicket(w, v) /\ w.said >= v.said
  /\ v.link = "closed" => w.link = "closed"
  /\ held /\ w.end = "open" => v.end = "open" /\ Told(w) = Told(v)
  /\ \E y \in Seq(Items) : Told(v) = Told(w) \o y
  /\ \E x \in Seq(Items) : SentOf(c, w) = SentOf(c, v) \o x /\ (held => w.in = v.in \o x)

\* It is opened.
Enters(v, w) == v = Fresh /\ w.said = v.said /\ Told(w) = <<>>

Change(c, v, w, held) ==
  /\ ProgramOK(c, w) /\ w.late = v.late
  /\ c \in Clients => Grows(c, v, w, held) \/ (Enters(v, w) /\ ~held)

\* The controls that have it, and the others.
CtrlSide(q, q2, c, waited, waited2) ==
  \A i \in Ctrls : ~On(q2.cache, i) =>
    IF q2.ctrl[i].s = c THEN CtrlOK(c, q2.conn[c], q2.ctrl[i], waited2 = i)
    ELSE ~On(q.cache, i) /\ q2.ctrl[i] = q.ctrl[i] /\ (waited2 = i <=> waited = i)

LEMMA NothingBehind == \A a \in Seq(Items) : a \o <<>> = a
  BY ConcatEmptySeq

LEMMA NothingBefore == \A a \in Seq(Items) : <<>> \o a = a
  BY ConcatEmptySeq

LEMMA EmptyHead ==
  ASSUME NEW a \in Seq(Items), NEW b \in Seq(Items), a \o b = <<>>
  PROVE  a = <<>>
  <1>1. Len(a \o b) = Len(a) + Len(b) /\ Len(a) \in Nat /\ Len(b) \in Nat
    BY ConcatProperties, LenProperties
  <1>2. Len(a \o b) = 0
    BY EmptySeq
  <1>3. Len(a) = 0
    BY ONLY <1>1, <1>2
  <1> QED
    BY <1>3, EmptySeq

LEMMA SentIs ==
  ASSUME NEW c \in Clients, NEW w \in ConnRecs, w.said <= 3 + Bytes[c]
  PROVE  SentOf(c, w) \in Seq(Items)
  BY FromIs DEF SentOf

LEMMA SameGrows ==
  ASSUME NEW c \in Clients, NEW v \in ConnRecs, v.said <= 3 + Bytes[c], NEW held
  PROVE  Grows(c, v, v, held)
  <1>1. PICK e \in Seq(Items) : e = <<>>
    BY EmptySeq
  <1>2. v.got \in Seq(Items) /\ v.out \in Seq(Items) /\ v.in \in Seq(Items) /\ v.said \in Nat
    BY DEF ConnRecs
  <1>3. Told(v) \in Seq(Items) /\ SentOf(c, v) \in Seq(Items)
    BY <1>2, ClosedItems, SentIs DEF Told
  <1>4. Told(v) = Told(v) \o e /\ SentOf(c, v) = SentOf(c, v) \o e /\ v.in = v.in \o e
    BY <1>1, <1>2, <1>3, NothingBehind, Zenon
  <1>5. v.said >= v.said
    BY <1>2
  <1> QED
    BY <1>1, <1>4, <1>5, Zenon DEF Grows, SameTicket

LEMMA FlowsGrow ==
  ASSUME NEW p, PoolOK(p), RelaysOK(p), ConnsOK(p.conn), Relaying(p),
         NEW q, PoolOK(q), q.relay = p.relay, q.hash = p.hash,
         \A r \in Sids : p.relay[r].s # None =>
           Grows(p.relay[r].s, p.conn[p.relay[r].s], q.conn[p.relay[r].s], TRUE)
  PROVE  Relaying(q)
  <1>1. PairsOK(q)
    BY DEF Relaying, PairsOK, Live, Linked
  <1>2. ASSUME NEW r \in Sids
        PROVE  Flows(q, r)
    <2>1. PICK c : c = p.relay[r].s
      OBVIOUS
    <2>2. PICK d : d = p.relay[p.relay[r].peer].s
      OBVIOUS
    <2>3. CASE c = None
      BY <2>1, <2>3 DEF Flows
    <2>4. CASE c # None
      <3>1. PICK v, w : v = p.conn[c] /\ w = q.conn[c]
        OBVIOUS
      <3>2. Grows(c, v, w, TRUE)
        BY <2>1, <2>4, <3>1
      <3>3. c \in Clients /\ c \in Conns /\ v \in ConnRecs /\ v.said <= 3 + Bytes[c]
        <4>1. c \in Clients /\ c \in Conns
          BY <2>1, <2>4 DEF RelaysOK, Conns
        <4> QED
          BY <4>1, <3>1 DEF ConnsOK, ProgramOK, PoolOK, Pools
      <3>4. PICK u \in Seq(Items) : u = Unwritten(p.relay[r])
        BY <2>1, <2>4, CarriedIs
      <3>5. PICK in \in Seq(Items), sent \in Seq(Items), told \in Seq(Items) :
                   in = v.in /\ sent = SentOf(c, v) /\ told = Told(v)
        <4>1. v.in \in Seq(Items) /\ v.got \in Seq(Items) /\ v.out \in Seq(Items)
          BY <3>3 DEF ConnRecs
        <4> QED
          BY <4>1, <3>3, SentIs, ClosedItems DEF Told
      <3>6. PICK x \in Seq(Items) : SentOf(c, w) = sent \o x /\ w.in = in \o x
        BY <3>2, <3>5 DEF Grows
      <3>7. PICK y \in Seq(Items) : told = Told(w) \o y
        BY <3>2, <3>5 DEF Grows
      <3>8. Carried(p, r) = u \o in
        BY <2>1, <3>1, <3>4, <3>5 DEF Carried
      <3>9. Carried(q, r) = (u \o in) \o x
        <4>1. Carried(q, r) = u \o (in \o x)
          BY <2>1, <3>1, <3>4, <3>6 DEF Carried
        <4>2. Assoc(u, in, x)
          BY AssocItems, Zenon
        <4> QED
          BY <4>1, <4>2, Zenon DEF Assoc
      <3>10. ASSUME d = None
             PROVE  Told(w) = <<>> /\ Carried(q, r) = SentOf(c, w)
        <4>1. told = <<>> /\ u \o in = sent
          BY <3>10, <2>1, <2>2, <2>4, <3>1, <3>5, <3>8 DEF Relaying, Flows
        <4>2. w \in ConnRecs
          BY <3>1, <3>3 DEF PoolOK, Pools
        <4>3. Told(w) \in Seq(Items)
          BY <4>2, ClosedItems DEF Told, ConnRecs
        <4>4. Told(w) = <<>>
          BY <4>1, <4>3, <3>7, EmptyHead
        <4> QED
          BY <4>1, <4>4, <3>6, <3>9
      <3>11. ASSUME d # None, q.conn[d].end = "open"
             PROVE  Told(q.conn[d]) \o Carried(q, r) = SentOf(c, w)
        <4>1. PICK s \in Sids : s = p.relay[r].peer
          BY RelayField
        <4>2. Grows(d, p.conn[d], q.conn[d], TRUE) /\ d \in Conns
          BY <4>1, <2>2, <3>11, RelayField
        <4>3. Told(q.conn[d]) = Told(p.conn[d]) /\ p.conn[d].end = "open"
          BY <4>2, <3>11 DEF Grows
        <4>4. PICK t \in Seq(Items) : t = Told(p.conn[d])
          BY <4>2, ToldIs DEF PoolOK, Pools
        <4>5. t \o (u \o in) = sent
          BY <4>3, <4>4, <3>11, <2>1, <2>2, <2>4, <3>1, <3>5, <3>8 DEF Relaying, Flows
        <4>6. PICK ui \in Seq(Items) : ui = u \o in
          BY ClosedItems, Zenon
        <4>7. (t \o ui) \o x = t \o (ui \o x)
          <5>1. Assoc(t, ui, x)
            BY <4>4, <4>6, <3>6, AssocItems, Zenon
          <5> QED
            BY <5>1, Zenon DEF Assoc
        <4> QED
          BY <4>3, <4>4, <4>5, <4>6, <4>7, <3>6, <3>9, Zenon
      <3> QED
        BY <2>1, <2>2, <2>4, <3>1, <3>10, <3>11 DEF Flows
    <2> QED
      BY <2>3, <2>4
  <1> QED
    BY <1>1, <1>2 DEF Relaying

LEMMA DeliveredGrow ==
  ASSUME NEW k \in [Conns -> ConnRecs], ConnsOK(k), DeliveredOK(k), NEW w \in [Conns -> ConnRecs],
         \A c \in Clients : Grows(c, k[c], w[c], FALSE) \/ Enters(k[c], w[c])
  PROVE  DeliveredOK(w)
  <1>1. ASSUME NEW e \in Clients, Told(w[e]) # <<>>
        PROVE  \E d \in Clients : FromPartner(w, e, d)
    <2>1. Grows(e, k[e], w[e], FALSE)
      BY <1>1 DEF Enters
    <2>2. Told(k[e]) \in Seq(Items) /\ Told(w[e]) \in Seq(Items)
      BY ToldIs DEF Conns
    <2>3. PICK y \in Seq(Items) : Told(k[e]) = Told(w[e]) \o y
      BY <2>1 DEF Grows
    <2>4. Told(k[e]) # <<>>
      BY <1>1, <2>2, <2>3, EmptyHead
    <2>5. PICK d \in Clients : FromPartner(k, e, d)
      BY <2>4 DEF DeliveredOK
    <2>6. k[e].by \in Conns
      <3>1. Told(Fresh) = <<>>
        BY NothingBefore, EmptySeq DEF Told, Fresh
      <3> QED
        BY <3>1, <2>4 DEF ConnsOK, ProgramOK, Conns
    <2>7. Grows(d, k[d], w[d], FALSE)
      <3>1. k[d].by # None
        BY <2>5, <2>6, RelayNetAssumption DEF FromPartner
      <3> QED
        <4>1. Fresh.by = None
          BY DEF Fresh
        <4> QED
          BY <3>1, <4>1 DEF Enters
    <2>8. PICK u \in Seq(Items) : Told(k[e]) \o u = SentOf(d, k[d])
      BY <2>5 DEF FromPartner
    <2>9. PICK x \in Seq(Items) : SentOf(d, w[d]) = SentOf(d, k[d]) \o x
      BY <2>7 DEF Grows
    <2>10. PICK t \in Seq(Items) : t = Told(w[e])
      BY <2>2
    <2>11. PICK yu \in Seq(Items) : yu = y \o u
      BY ClosedItems, Zenon
    <2>12. (t \o y) \o u = t \o yu
      <3>1. Assoc(t, y, u)
        BY AssocItems, Zenon
      <3> QED
        BY <3>1, <2>11, Zenon DEF Assoc
    <2>13. (t \o yu) \o x = t \o (yu \o x) /\ yu \o x \in Seq(Items)
      <3>1. yu \o x \in Seq(Items)
        BY ClosedItems, Zenon
      <3>2. Assoc(t, yu, x)
        BY AssocItems, Zenon
      <3> QED
        BY <3>1, <3>2, Zenon DEF Assoc
    <2>14. SentOf(d, w[d]) = t \o (yu \o x)
      BY <2>3, <2>8, <2>9, <2>10, <2>12, <2>13, Zenon
    <2>15. d # e /\ w[d].by = w[e].by /\ w[d].n = w[e].n
      BY <2>1, <2>5, <2>7 DEF FromPartner, Grows, SameTicket
    <2> QED
      BY <2>10, <2>13, <2>14, <2>15 DEF FromPartner
  <1> QED
    BY <1>1 DEF DeliveredOK

LEMMA SameGranted ==
  ASSUME NEW p, PoolOK(p), GrantedOK(p), NEW q, q.relay = p.relay,
         \A r \in Sids : p.relay[r].s # None =>
           SameTicket(q.conn[p.relay[r].s], p.conn[p.relay[r].s])
  PROVE  GrantedOK(q)
  <1>1. ASSUME NEW r \in Sids, q.relay[r].s # None
        PROVE  /\ q.conn[q.relay[r].s].sid = r
               /\ q.conn[q.relay[r].s].by = q.relay[r].ask.by
               /\ q.conn[q.relay[r].s].n = q.relay[r].ask.n
    <2>1. PICK d : d = p.relay[r].s
      OBVIOUS
    <2>2. p.conn[d].sid = r /\ p.conn[d].by = p.relay[r].ask.by /\ p.conn[d].n = p.relay[r].ask.n
      BY <2>1, <1>1 DEF GrantedOK
    <2>3. SameTicket(q.conn[d], p.conn[d])
      BY <2>1, <1>1
    <2> QED
      BY <2>1, <2>2, <2>3 DEF SameTicket
  <1> QED
    BY <1>1 DEF GrantedOK

LEMMA SamePromise ==
  ASSUME NEW p, NEW q, q.relay = p.relay,
         \A d \in Clients : p.conn[d].link = "closed" =>
           q.conn[d].link = "closed" /\ SameTicket(q.conn[d], p.conn[d]),
         NEW h, Promise(p, h)
  PROVE  Promise(q, h)
  BY DEF Promise, HasTicket, SameTicket

\* The step of one connection, which a control may have, a relay or nobody.
LEMMA SideStep ==
  ASSUME NEW p, PoolOK(p), NEW q, q.conn = p.conn, NEW H, NEW b, NEW waited,
         Facts(p, q, H, b, waited),
         NEW p2, PoolOK(p2), p2.relay = p.relay, p2.hash = p.hash,
         NEW q2, q2.conn = p2.conn, NEW H2, NEW b2, b2 \subseteq b, NEW waited2,
         NEW c \in Conns, \A d \in Conns : d # c => p2.conn[d] = p.conn[d],
         Change(c, p.conn[c], p2.conn[c], HeldByRelay(p, c)),
         CtrlSide(q, q2, c, waited, waited2),
         \A i \in Ctrls : ~On(q2.cache, i) => q2.ctrl[i].s \in Conns,
         Meets(p) => \A h \in Tickets : Known(q2, H2, h) => Known(q, H, h)
  PROVE  Facts(p2, q2, H2, b2, waited2)
  <1>1. ConnsOK(p.conn) /\ CtrlsOK(q, waited) /\ RelaysOK(p)
    BY DEF Facts, Basics
  <1>2. PICK k \in [Conns -> ConnRecs], k2 \in [Conns -> ConnRecs] : k = p.conn /\ k2 = p2.conn
    BY DEF PoolOK, Pools
  <1>3. PICK held : held = HeldByRelay(p, c)
    OBVIOUS
  <1>4. /\ ProgramOK(c, k2[c]) /\ k2[c].late = k[c].late
        /\ c \in Clients => Grows(c, k[c], k2[c], held) \/ (Enters(k[c], k2[c]) /\ ~held)
        /\ \A d \in Conns : d # c => k2[d] = k[d]
    BY <1>2, <1>3 DEF Change
  <1>5. ASSUME NEW d \in Clients
        PROVE  /\ d \in Conns /\ k2[d].said >= k[d].said
               /\ d # c => k2[d] = k[d]
               /\ Grows(d, k[d], k2[d], FALSE) \/ Enters(k[d], k2[d])
               /\ HeldByRelay(p, d) => Grows(d, k[d], k2[d], TRUE)
    <2>1. d \in Conns
      BY DEF Conns
    <2>2. k[d] \in ConnRecs /\ k[d].said <= 3 + Bytes[d] /\ k[d].said \in Nat
      BY <2>1, <1>1, <1>2 DEF ConnsOK, ProgramOK, ConnRecs
    <2>3. CASE d = c
      <3>1. k2[d].said >= k[d].said
        BY <2>2, <2>3, <1>4 DEF Grows, Enters
      <3> QED
        BY <3>1, <2>1, <2>3, <1>3, <1>4 DEF Grows
    <2>4. CASE d # c
      <3>1. k2[d] = k[d]
        BY <2>1, <2>4, <1>4
      <3>2. k[d].said >= k[d].said
        BY <2>2
      <3> QED
        BY <3>1, <3>2, <2>1, <2>2, <2>4, SameGrows
    <2> QED
      BY <2>3, <2>4
  <1>6. Basics(p2, q2, waited2)
    <2>1. ConnsOK(p2.conn)
      BY <1>1, <1>2, <1>4 DEF ConnsOK
    <2>2. ASSUME NEW i \in Ctrls, ~On(q2.cache, i)
          PROVE  CtrlOK(q2.ctrl[i].s, q2.conn[q2.ctrl[i].s], q2.ctrl[i], waited2 = i)
      <3>1. CASE q2.ctrl[i].s = c
        BY <2>2, <3>1 DEF CtrlSide
      <3>2. CASE q2.ctrl[i].s # c
        <4>1. ~On(q.cache, i) /\ q2.ctrl[i] = q.ctrl[i] /\ (waited2 = i <=> waited = i)
          BY <2>2, <3>2 DEF CtrlSide
        <4>2. CtrlOK(q.ctrl[i].s, q.conn[q.ctrl[i].s], q.ctrl[i], waited = i)
          BY <4>1, <1>1 DEF CtrlsOK
        <4>3. q2.conn[q2.ctrl[i].s] = q.conn[q.ctrl[i].s]
          BY <2>2, <3>2, <4>1
        <4> QED
          BY <4>1, <4>2, <4>3
      <3> QED
        BY <3>1, <3>2
    <2>3. ASSUME NEW r \in Sids, p.relay[r].s # None
          PROVE  p.relay[r].s \in Clients /\ p2.conn[p.relay[r].s].said >= 3
      <3>1. PICK d \in Clients : d = p.relay[r].s
        BY <2>3, <1>1 DEF RelaysOK
      <3>2. k[d].said >= 3 /\ k[d].said \in Nat /\ k2[d].said \in Nat
        BY <2>3, <3>1, <1>1, <1>2, <1>5 DEF RelaysOK, ConnRecs
      <3>3. PICK n \in Nat, m \in Nat : n = k[d].said /\ m = k2[d].said
        BY <3>2
      <3>4. m >= n
        <4>1. k2[d].said >= k[d].said
          BY <1>5
        <4> QED
          BY <4>1, <3>3
      <3>5. m >= 3
        BY <3>2, <3>3, <3>4
      <3> QED
        BY <3>1, <3>3, <3>5, <1>2
    <2>4. RelaysOK(p2)
      BY <2>3, <1>1 DEF RelaysOK
    <2> QED
      BY <2>1, <2>2, <2>4 DEF Basics, CtrlsOK
  <1>7. \A d \in Clients : k2[d].late = k[d].late
    BY <1>4, <1>5
  <1>8. NoneLate(k2) => NoneLate(k)
    BY <1>7 DEF NoneLate
  <1>9. ASSUME NEW r \in Sids, p.relay[r].s # None
        PROVE  Grows(p.relay[r].s, k[p.relay[r].s], k2[p.relay[r].s], TRUE)
    <2>1. PICK d \in Clients : d = p.relay[r].s
      BY <1>1, <1>9 DEF RelaysOK
    <2> QED
      BY <2>1, <1>5 DEF HeldByRelay
  <1>10. ASSUME NoneLate(k2)
         PROVE  Relaying(p2) /\ PendingOK(p2, b2)
    <2>1. Relaying(p) /\ PendingOK(p, b)
      BY <1>2, <1>8, <1>10 DEF Facts, InTime
    <2>2. Relaying(p2)
      BY <2>1, <1>1, <1>2, <1>9, FlowsGrow
    <2> QED
      BY <2>1, <2>2 DEF PendingOK, Live
  <1>11. ASSUME NoneLate(k2), NoneAgain(k2)
         PROVE  Meets(p2) /\ PromisesOK(p2, q2, H2)
    <2>1. NoneAgain(k)
      <3>1. ASSUME NEW d \in Clients, k[d].by # None
            PROVE  SameTicket(k2[d], k[d])
        <4>1. ~Enters(k[d], k2[d])
          BY <3>1 DEF Enters, Fresh
        <4> QED
          BY <4>1, <1>5 DEF Grows
      <3> QED
        BY <3>1, <1>11 DEF NoneAgain, SameTicket
    <2>2. GrantedOK(p) /\ DeliveredOK(k) /\ PromisesOK(p, q, H)
      BY <2>1, <1>2, <1>8, <1>11 DEF Facts, Once, Meets
    <2>3. GrantedOK(p2)
      BY <2>2, <1>2, <1>9, SameGranted DEF Grows
    <2>4. DeliveredOK(k2)
      BY <2>2, <1>1, <1>2, <1>5, DeliveredGrow
    <2>5. ASSUME NEW h \in Tickets, Known(q2, H2, h)
          PROVE  Promise(p2, h)
      <3>1. Promise(p, h)
        BY <2>2, <2>5, <1>2 DEF PromisesOK, Meets
      <3>2. ASSUME NEW d \in Clients, k[d].link = "closed"
            PROVE  k2[d].link = "closed" /\ SameTicket(k2[d], k[d])
        <4>1. ~Enters(k[d], k2[d])
          BY <3>2 DEF Enters, Fresh
        <4> QED
          BY <4>1, <3>2, <1>5 DEF Grows
      <3> QED
        BY <3>1, <3>2, <1>2, SamePromise
    <2> QED
      BY <2>3, <2>4, <2>5, <1>2 DEF Meets, PromisesOK
  <1> QED
    BY <1>2, <1>6, <1>10, <1>11 DEF Facts, InTime, Once

\* What a control or nobody has.
LEMMA QuietGrows ==
  ASSUME NEW c \in Clients, NEW v \in ConnRecs, v.said <= 3 + Bytes[c], NEW w,
         SameTicket(w, v), w.said = v.said, Told(w) = Told(v),
         v.link = "closed" => w.link = "closed", NEW held, ~held
  PROVE  Grows(c, v, w, held)
  <1>1. Grows(c, v, v, held)
    BY SameGrows
  <1>2. SentOf(c, w) = SentOf(c, v)
    BY SameSent DEF SameTicket
  <1> QED
    BY <1>1, <1>2 DEF Grows

\* Nothing is written to a controller that was not owed to it, no control owes more,
\* and nobody comes with another ticket.
WrittenWasOwed(q, q2, c) ==
  c \in Controllers => \A m : On(q2.conn[c].out, m) =>
    \/ On(q.conn[c].out, m)
    \/ \E i \in Ctrls : ~On(q.cache, i) /\ q.ctrl[i].s = c /\ Owes(q.ctrl[i], m)

NoMoreOwed(q, q2) ==
  \A i \in Ctrls : ~On(q2.cache, i) => \A m : Owes(q2.ctrl[i], m) =>
    ~On(q.cache, i) /\ q.ctrl[i].s = q2.ctrl[i].s /\ Owes(q.ctrl[i], m)

WasHere(v, w) == w.link # "none" => v.link # "none" /\ SameTicket(w, v)

LEMMA KnownOn ==
  ASSUME NEW q, NEW q2, NEW c \in Conns, \A d \in Conns : d # c => q2.conn[d] = q.conn[d],
         WrittenWasOwed(q, q2, c), NoMoreOwed(q, q2),
         c \in Clients => WasHere(q.conn[c], q2.conn[c]),
         NEW H, NEW h, Known(q2, H, h)
  PROVE  Known(q, H, h)
  <1>1. CASE h \in H
    BY <1>1 DEF Known
  <1>2. CASE UnderWay(q2.conn, h)
    <2>0. PICK d \in Controllers : \E m : On(q2.conn[d].out, m) /\ Offers(m, d, h)
      BY <1>2 DEF UnderWay
    <2>1. PICK m : On(q2.conn[d].out, m) /\ Offers(m, d, h)
      BY <2>0
    <2>2. CASE On(q.conn[d].out, m)
      BY <2>1, <2>2 DEF Known, UnderWay
    <2>3. CASE ~On(q.conn[d].out, m)
      <3>1. d = c
        BY <2>1, <2>3 DEF Conns
      <3>2. PICK i \in Ctrls : ~On(q.cache, i) /\ q.ctrl[i].s = c /\ Owes(q.ctrl[i], m)
        BY <2>1, <2>3, <3>1 DEF WrittenWasOwed
      <3> QED
        BY <2>1, <3>1, <3>2 DEF Known, Owed
    <2> QED
      BY <2>2, <2>3
  <1>3. CASE Owed(q2, h)
    BY <1>3 DEF Known, Owed, NoMoreOwed
  <1>4. CASE Brought(q2.conn, h)
    <2>1. PICK d \in Clients : q2.conn[d].link # "none" /\ HasTicket(q2.conn[d], h)
      BY <1>4 DEF Brought
    <2>2. q.conn[d].link # "none" /\ HasTicket(q.conn[d], h)
      BY <2>1 DEF HasTicket, SameTicket, Conns, WasHere
    <2> QED
      BY <2>2 DEF Known, Brought
  <1> QED
    BY <1>1, <1>2, <1>3, <1>4 DEF Known

-----------------------------------------------------------------------------
\* The invariant is inductive: one lemma for each action.

LEMMA SessionsInit ==
  ASSUME Init
  PROVE  Sessions
  <1>1. NioInv
    BY InitHolds
  <1>2. PICK p, q : p = Pool /\ q = Controls
    OBVIOUS
  <1>3. /\ PoolOK(p) /\ ControlsOK(q) /\ p.conn = conn /\ q.conn = conn /\ p.relay = relay
        /\ q.cache = ctrlcache /\ p.hash = wpeers
    BY <1>1, <1>2, HeldTypes
  <1>4. \A c \in Conns : conn[c] = Fresh
    BY DEF Init, NetInit
  <1>5. /\ Fresh.link = "none" /\ Fresh.said = 0 /\ Fresh.got = <<>> /\ Fresh.out = <<>> /\ Fresh.in = <<>>
        /\ Len(Fresh.in) = 0 /\ Len(Fresh.out) = 0 /\ Fresh.by = None
    BY EmptySeq DEF Fresh
  <1>6. ConnsOK(conn)
    <2>1. ASSUME NEW c \in Conns
          PROVE  ProgramOK(c, conn[c])
      <3>1. c \in Clients => 0 <= 3 + Bytes[c]
        BY RelayNetAssumption
      <3> QED
        BY <3>1, <1>4, <1>5 DEF ProgramOK, NoBody
    <2> QED
      BY <2>1 DEF ConnsOK
  <1>7. \A i \in Ctrls : On(q.cache, i)
    <2>1. q.cache = [i \in 1 .. MaxCtrl |-> i]
      BY <1>3 DEF Init, CtrlInit
    <2>2. MaxCtrl \in Nat /\ Len(q.cache) = MaxCtrl
      BY <2>1, NioCtrlAssumption
    <2> QED
      BY <2>1, <2>2 DEF On, Ctrls
  <1>8. ASSUME NEW r \in Sids
        PROVE  /\ p.relay[r].s = None /\ p.relay[r].buf = <<>> /\ p.relay[r].x2 = 0
               /\ p.relay[r].status = "idle"
    BY <1>3 DEF Init, RelayInit, NoRelay
  <1>9. Basics(p, q, Waited)
    BY <1>3, <1>6, <1>7, <1>8 DEF Basics, CtrlsOK, RelaysOK
  <1>10. InTime(p, batch)
    <2>1. p.hash = {} /\ batch = {}
      BY <1>3 DEF Init, RelayInit
    <2> QED
      BY <2>1, <1>8 DEF InTime, Relaying, PairsOK, Flows, Live, PendingOK
  <1>11. Meets(p)
    <2>1. Told(Fresh) = <<>>
      BY <1>5, EmptySeq, NothingBefore DEF Told
    <2>2. DeliveredOK(p.conn)
      BY <2>1, <1>3, <1>4 DEF DeliveredOK, Conns
    <2> QED
      BY <2>2, <1>8 DEF Meets, GrantedOK
  <1>12. ASSUME NEW h, Known(q, handouts, h)
         PROVE  FALSE
    <2>1. handouts = {}
      BY DEF Init, NetInit
    <2>2. ~UnderWay(q.conn, h)
      BY <1>3, <1>4, <1>5 DEF UnderWay, On, Conns
    <2>3. ~Brought(q.conn, h)
      BY <1>3, <1>4, <1>5 DEF Brought, Conns
    <2>4. ~Owed(q, h)
      BY <1>7 DEF Owed
    <2> QED
      BY <2>1, <2>2, <2>3, <2>4, <1>12 DEF Known
  <1> QED
    BY <1>1, <1>2, <1>9, <1>10, <1>11, <1>12 DEF Sessions, Facts, Once, PromisesOK

\* epoll_wait reports the relays that have a connection.  Nothing else happens then, nor
\* when a listener has nobody, when a relay is gone or before nioepoll is called again.
LEMMA StillSteps ==
  ASSUME Sessions, NioInv', Pool' = Pool, Controls' = Controls, handouts' = handouts,
         Waited' = Waited,
         \/ batch' \subseteq batch
         \/ \A e \in batch' : e.kind = "relay" => relay[e.id].status = "active"
  PROVE  Sessions'
  <1>1. PICK p, q, waited : p = Pool /\ q = Controls /\ waited = Waited
    OBVIOUS
  <1>2. Facts(p, q, handouts, batch, waited)
    BY <1>1 DEF Sessions
  <1>3. p.relay = relay
    BY <1>1 DEF Pool
  <1>4. PendingOK(p, batch) => PendingOK(p, batch')
    BY <1>3 DEF PendingOK
  <1>5. Facts(p, q, handouts', batch', waited)
    BY <1>2, <1>4 DEF Facts, InTime
  <1> QED
    BY <1>1, <1>5, SessionsNext

LEMMA PollSessions ==
  ASSUME Sessions, Poll, NioInv'
  PROVE  Sessions'
  <1>1. NioInv
    BY DEF Sessions
  <1>2. /\ Pool' = Pool /\ Controls' = Controls /\ handouts' = handouts /\ Waited' = Waited
        /\ batch' \subseteq {e \in Reported : e.ev # {}}
    BY DEF Poll, netVars, relayVars, ctrlVars, Pool, Controls, kSubset, Waited
  <1>3. ASSUME NEW e \in batch', e.kind = "relay"
        PROVE  relay[e.id].status = "active"
    <2>1. PICK r \in Sids : relay[r].s # None /\ e = Event("relay", r, Ready(relay[r].s, relay[r].out))
      BY <1>2, <1>3 DEF Reported, Event
    <2>2. e.id = r
      BY <2>1 DEF Event
    <2>3. PoolOK(Pool) /\ Pool.relay = relay
      BY <1>1, HeldTypes
    <2> QED
      BY <2>1, <2>2, <2>3 DEF PoolOK
  <1> QED
    BY <1>2, <1>3, StillSteps

LEMMA SideTypes ==
  ASSUME NioInv, NioInv', NEW p, p = Pool, NEW q, q = Controls, NEW p2, p2 = Pool', NEW q2, q2 = Controls',
         relay' = relay, wpeers' = wpeers
  PROVE  /\ PoolOK(p) /\ ControlsOK(q) /\ OneOwner(p, q) /\ p.conn = conn /\ q.conn = conn
         /\ p.relay = relay /\ q.ctrl = ctrl /\ q.cache = ctrlcache
         /\ PoolOK(p2) /\ ControlsOK(q2) /\ q2.conn = p2.conn /\ p2.conn = conn'
         /\ q2.ctrl = ctrl' /\ q2.cache = ctrlcache'
         /\ p2.relay = p.relay /\ p2.hash = p.hash
         /\ \A i \in Ctrls : ~On(q2.cache, i) => q2.ctrl[i].s \in Conns
  <1>1. PoolOK(p2) /\ ControlsOK(q2)
    BY NextTypes
  <1>2. \A i \in Ctrls : ~On(q2.cache, i) => q2.ctrl[i].s \in Conns
    BY <1>1, CtrlField
  <1>3. /\ q2.conn = p2.conn /\ p2.conn = conn' /\ q2.ctrl = ctrl' /\ q2.cache = ctrlcache'
        /\ p2.relay = p.relay /\ p2.hash = p.hash
    BY DEF Pool, Controls
  <1> QED
    BY <1>1, <1>2, <1>3, HeldTypes

LEMMA AcceptSessions ==
  ASSUME Sessions, NEW e \in batch, AcceptEvent(e), NioInv'
  PROVE  Sessions'
  <1>1. NioInv
    BY DEF Sessions
  <1>2. /\ pc = "batch" /\ batch' = batch \ {e} /\ e.id \in {0, 1} /\ handouts' = handouts
        /\ relay' = relay /\ relaycache' = relaycache /\ wpeers' = wpeers
    BY <1>1 DEF AcceptEvent, Handle, NioInv, LoopOK, Events, relayVars
  <1>3. PICK c \in Backlog(e.id) : ControlsBecome(AcceptCtrl(Controls, c))
    BY DEF AcceptEvent
  <1>4. /\ c \in Conns /\ conn[c].link = "waiting"
        /\ e.id = 1 => c \in Clients
        /\ e.id = 0 => c \in Controllers
    BY DEF Backlog, Conns
  <1>5. PICK p, q, p2, q2 : p = Pool /\ q = Controls /\ p2 = Pool' /\ q2 = Controls'
    OBVIOUS
  <1>6. /\ PoolOK(p) /\ ControlsOK(q) /\ OneOwner(p, q) /\ p.conn = conn /\ q.conn = conn
        /\ p.relay = relay /\ q.ctrl = ctrl /\ q.cache = ctrlcache
        /\ PoolOK(p2) /\ ControlsOK(q2) /\ q2.conn = p2.conn /\ p2.conn = conn'
        /\ q2.ctrl = ctrl' /\ q2.cache = ctrlcache'
        /\ p2.relay = p.relay /\ p2.hash = p.hash
        /\ \A i \in Ctrls : ~On(q2.cache, i) => q2.ctrl[i].s \in Conns
    BY <1>1, <1>2, <1>5, SideTypes
  <1>7. Facts(p, q, handouts, batch, 0)
    BY <1>2, <1>5 DEF Sessions, Waited
  <1>8. PICK v \in ConnRecs : v = conn[c]
    BY <1>4, <1>6 DEF PoolOK, Pools
  <1>9. /\ c \in Clients => v.said <= 3 + Bytes[c] /\ v.by \in Conns /\ Quiet(v) /\ v.in = From(c, v, 1)
        /\ c \in Controllers => NoBody(v.in)
    <2>1. ProgramOK(c, v)
      BY <1>4, <1>6, <1>7, <1>8 DEF Facts, Basics, ConnsOK
    <2> QED
      BY <2>1, <1>4, <1>8 DEF ProgramOK
  <1>10. /\ ~HeldByRelay(p, c)
         /\ \A i \in Ctrls : ~On(q.cache, i) => q.ctrl[i].s # c
    <2>1. v.link # "up"
      BY <1>4, <1>8
    <2>2. ~HeldByRelay(p, c)
      BY <2>1, <1>4, <1>6, <1>8, RelayNetAssumption DEF HeldByRelay, PoolOK
    <2> QED
      BY <2>1, <2>2, <1>6, <1>8 DEF ControlsOK
  <1>11. ctrl' = AcceptCtrl(q, c).ctrl /\ ctrlcache' = AcceptCtrl(q, c).cache /\ conn' = AcceptCtrl(q, c).conn
    BY <1>3, <1>5 DEF ControlsBecome
  <1>12. CASE ctrlcache = <<>>
    <2>1. q2.ctrl = q.ctrl /\ q2.cache = q.cache /\ q2.conn = Shut(conn, c)
      <3>1. AcceptCtrl(q, c) = [q EXCEPT !.conn = Shut(@, c)] /\ q \in ControlPools
        BY <1>6, <1>12, ControlsTypes DEF AcceptCtrl
      <3>2. /\ AcceptCtrl(q, c).ctrl = q.ctrl /\ AcceptCtrl(q, c).cache = q.cache
            /\ AcceptCtrl(q, c).conn = Shut(q.conn, c)
        BY <3>1 DEF ControlPools
      <3> QED
        BY <3>2, <1>6, <1>11
    <2>2. PICK w : w = q2.conn[c]
      OBVIOUS
    <2>3. Closed(w, v) /\ \A d \in Conns : d # c => q2.conn[d] = conn[d]
      <3>1. conn \in [Conns -> ConnRecs] /\ RoomKept(conn)
        BY <1>1, HeldTypes
      <3> QED
        BY <3>1, <2>1, <2>2, <1>4, <1>8, ShutKeeps
    <2>4. /\ SameTicket(w, v) /\ w.said = v.said /\ Told(w) = Told(v) /\ w.link = "closed"
          /\ w.late = v.late /\ w.by = v.by /\ w.out = v.out
      BY <2>3 DEF Closed, SameTicket, Told
    <2>5. Change(c, v, w, HeldByRelay(p, c))
      <3>1. ProgramOK(c, w)
        BY <2>4, <1>9 DEF ProgramOK
      <3>2. c \in Clients => Grows(c, v, w, HeldByRelay(p, c))
        BY <2>4, <1>9, <1>10, QuietGrows
      <3> QED
        BY <3>1, <3>2, <2>4, <1>10 DEF Change
    <2>6. CtrlSide(q, q2, c, 0, 0)
      BY <2>1, <1>10 DEF CtrlSide
    <2>7. ASSUME NEW h \in Tickets, Known(q2, handouts, h)
          PROVE  Known(q, handouts, h)
      <3>1. WrittenWasOwed(q, q2, c)
        BY <2>2, <2>4, <1>6, <1>8 DEF WrittenWasOwed
      <3>2. NoMoreOwed(q, q2)
        BY <2>1 DEF NoMoreOwed
      <3>3. WasHere(q.conn[c], q2.conn[c])
        BY <2>2, <2>4, <1>4, <1>6, <1>8 DEF WasHere
      <3> QED
        BY <3>1, <3>2, <3>3, <2>3, <2>7, <1>4, <1>6, KnownOn
    <2>8. Waited' = 0
      BY <1>2, <1>12 DEF AcceptEvent, Waited
    <2>9. Facts(p2, q2, handouts', batch', 0)
      <3>1. /\ batch' \subseteq batch /\ q.conn = p.conn /\ \A d \in Conns : d # c => p2.conn[d] = p.conn[d]
            /\ Change(c, p.conn[c], p2.conn[c], HeldByRelay(p, c))
        BY <2>2, <2>3, <2>5, <1>2, <1>6, <1>8
      <3> QED
        BY <3>1, <2>6, <2>7, <1>2, <1>4, <1>6, <1>7, SideStep
    <2> QED
      BY <2>8, <2>9, <1>5, SessionsNext
  <1>13. CASE ctrlcache # <<>>
    <2>1. PICK i : i = Head(q.cache)
      OBVIOUS
    <2>2. i \in Ctrls /\ Accepted(q, q2, i, c)
      <3>1. q.cache # <<>> /\ q.conn = p.conn /\ q.conn[c].link = "waiting" /\ BatchOK(q, batch)
            /\ batch \in SUBSET Events
        BY <1>1, <1>4, <1>5, <1>6, <1>13, HeldTypes
      <3>2. PICK g : g = AcceptCtrl(q, c)
        OBVIOUS
      <3>3. i \in Ctrls /\ Accepted(q, g, i, c)
        BY <3>1, <3>2, <2>1, <1>4, <1>6, AcceptIs
      <3>4. g.ctrl = q2.ctrl /\ g.cache = q2.cache /\ g.conn = q2.conn
        BY <3>2, <1>6, <1>11
      <3> QED
        BY <3>3, <3>4 DEF Accepted
    <2>3. PICK w : w = q2.conn[c]
      OBVIOUS
    <2>4. w = [v EXCEPT !.link = "up"] /\ \A d \in Conns : d # c => q2.conn[d] = conn[d]
      BY <2>2, <2>3, <1>6, <1>8 DEF Accepted
    <2>5. /\ SameTicket(w, v) /\ w.said = v.said /\ Told(w) = Told(v) /\ w.link = "up"
          /\ w.late = v.late /\ w.by = v.by /\ w.out = v.out /\ w.in = v.in /\ w.sid = v.sid
          /\ v.link = "waiting" /\ (Quiet(v) => Quiet(w)) /\ From(c, w, 1) = From(c, v, 1)
      BY <2>4, <1>4, <1>8 DEF ConnRecs, SameTicket, Told, Quiet, From
    <2>6. Change(c, v, w, HeldByRelay(p, c))
      <3>1. ProgramOK(c, w)
        BY <2>5, <1>9 DEF ProgramOK
      <3>2. c \in Clients => Grows(c, v, w, HeldByRelay(p, c))
        BY <2>5, <1>9, <1>10, QuietGrows
      <3> QED
        BY <3>1, <3>2, <2>5, <1>10 DEF Change
    <2>7. PICK waited : waited = Waited'
      OBVIOUS
    <2>8. waited = IF e.id = 1 THEN i ELSE 0
      BY <2>1, <2>7, <1>2, <1>6, <1>13 DEF AcceptEvent, Waited
    <2>9. i # 0 /\ \A j \in Ctrls : j # 0
      BY <2>2 DEF Ctrls
    <2>10. CtrlSide(q, q2, c, 0, waited)
      <3>1. ASSUME NEW j \in Ctrls, ~On(q2.cache, j), j # i
            PROVE  q2.ctrl[j].s # c /\ ~On(q.cache, j) /\ q2.ctrl[j] = q.ctrl[j] /\ waited # j /\ 0 # j
        <4>1. ~On(q.cache, j) /\ q2.ctrl[j] = q.ctrl[j]
          BY <3>1, <2>2 DEF Accepted
        <4> QED
          BY <4>1, <3>1, <2>8, <2>9, <1>10
      <3>2. CtrlOK(c, w, q2.ctrl[i], waited = i)
        <4>1. q2.ctrl[i].rcv = <<>> /\ q2.ctrl[i].snd = <<>> /\ Len(<<>>) = 0
          BY <2>2, EmptySeq DEF Accepted
        <4>2. c \in Clients => waited = i
          BY <2>8, <1>2, <1>4, RelayNetAssumption
        <4> QED
          BY <4>1, <4>2, <2>5, <1>9 DEF CtrlOK, NoBody
      <3>3. q2.ctrl[i].s = c
        BY <2>2 DEF Accepted
      <3> QED
        BY <3>1, <3>2, <3>3, <2>3 DEF CtrlSide
    <2>11. ASSUME NEW h \in Tickets, Known(q2, handouts, h)
           PROVE  Known(q, handouts, h)
      <3>1. WrittenWasOwed(q, q2, c)
        BY <2>3, <2>5, <1>6, <1>8 DEF WrittenWasOwed
      <3>2. ASSUME NEW j \in Ctrls, ~On(q2.cache, j), NEW m, Owes(q2.ctrl[j], m)
            PROVE  ~On(q.cache, j) /\ q.ctrl[j].s = q2.ctrl[j].s /\ Owes(q.ctrl[j], m)
        <4>1. ~Owes(q2.ctrl[i], m)
          BY <2>2, EmptySeq DEF Accepted, Owes
        <4> QED
          BY <4>1, <3>2, <2>2 DEF Accepted
      <3>3. NoMoreOwed(q, q2)
        BY <3>2 DEF NoMoreOwed
      <3>4. WasHere(q.conn[c], q2.conn[c])
        BY <2>3, <2>5, <1>4, <1>6, <1>8 DEF WasHere
      <3> QED
        BY <3>1, <3>3, <3>4, <2>4, <2>11, <1>4, <1>6, KnownOn
    <2>12. Facts(p2, q2, handouts', batch', waited)
      <3>1. /\ batch' \subseteq batch /\ q.conn = p.conn /\ \A d \in Conns : d # c => p2.conn[d] = p.conn[d]
            /\ Change(c, p.conn[c], p2.conn[c], HeldByRelay(p, c))
        BY <2>3, <2>4, <2>6, <1>2, <1>6, <1>8
      <3> QED
        BY <3>1, <2>10, <2>11, <1>2, <1>4, <1>6, <1>7, SideStep
    <2> QED
      BY <2>7, <2>12, <1>5, SessionsNext
  <1> QED
    BY <1>12, <1>13

-----------------------------------------------------------------------------
LEMMA NoBodyTail ==
  ASSUME NEW s \in Seq(Items), NoBody(s), s # <<>>
  PROVE  NoBody(Tail(s)) /\ Head(s).n = 0
  <1>1. PICK n \in Nat : n = Len(s)
    BY LenProperties
  <1>2. n >= 1
    BY <1>1, EmptySeq
  <1>3. Head(s) = s[1] /\ Len(Tail(s)) = n - 1 /\ \A j \in 1 .. n - 1 : Tail(s)[j] = s[j + 1]
    BY <1>1, <1>2, HeadTailProperties
  <1>4. \A j \in 1 .. n : s[j].n = 0
    BY <1>1 DEF NoBody
  <1> QED
    BY <1>2, <1>3, <1>4 DEF NoBody

LEMMA NoBodyAppend ==
  ASSUME NEW s \in Seq(Items), NoBody(s), NEW e \in Items, e.n = 0
  PROVE  NoBody(Append(s, e))
  <1>1. PICK n \in Nat : n = Len(s)
    BY LenProperties
  <1>2. PICK t : t = Append(s, e)
    OBVIOUS
  <1>3. Len(t) = n + 1 /\ t[n + 1] = e /\ \A j \in 1 .. n : t[j] = s[j]
    BY <1>1, <1>2, AppendProperties
  <1>4. \A j \in 1 .. n : s[j].n = 0
    BY <1>1 DEF NoBody
  <1>5. \A j \in 1 .. n + 1 : t[j].n = 0
    BY <1>1, <1>3, <1>4
  <1> QED
    BY <1>2, <1>3, <1>5 DEF NoBody

-----------------------------------------------------------------------------
\* A step of a control in use and its connection.
Beside(q, q2, i, c) ==
  /\ \A d \in Conns : d # c => q2.conn[d] = q.conn[d]
  /\ \A j \in Ctrls : j # i => q2.ctrl[j] = q.ctrl[j] /\ (On(q2.cache, j) <=> On(q.cache, j))

\* What becomes of the control i and its replies.
Controlled(q, q2, i, c, waited2) ==
  /\ ~On(q2.cache, i) => q2.ctrl[i].s = c /\ CtrlOK(c, q2.conn[c], q2.ctrl[i], waited2 = i)
  /\ \A m : ~On(q2.cache, i) /\ Owes(q2.ctrl[i], m) => Owes(q.ctrl[i], m)
  /\ c \in Controllers =>
       \A m : On(q2.conn[c].out, m) => On(q.conn[c].out, m) \/ Owes(q.ctrl[i], m)

LEMMA CtrlStep ==
  ASSUME Sessions, NioInv', relay' = relay, wpeers' = wpeers, batch' \subseteq batch,
         handouts' = handouts, NEW q, q = Controls, NEW q2, q2 = Controls',
         NEW i \in Ctrls, ~On(q.cache, i), NEW c, c = q.ctrl[i].s, Beside(q, q2, i, c),
         NEW waited, waited = Waited, waited \in {0, i},
         NEW waited2, waited2 = Waited', waited2 \in {0, i},
         Controlled(q, q2, i, c, waited2), Change(c, q.conn[c], q2.conn[c], FALSE)
  PROVE  Sessions'
  <1>1. NioInv
    BY DEF Sessions
  <1>2. PICK p, p2 : p = Pool /\ p2 = Pool'
    OBVIOUS
  <1>3. /\ PoolOK(p) /\ ControlsOK(q) /\ OneOwner(p, q) /\ p.conn = conn /\ q.conn = conn
        /\ PoolOK(p2) /\ ControlsOK(q2) /\ q2.conn = p2.conn
        /\ p2.relay = p.relay /\ p2.hash = p.hash
        /\ \A j \in Ctrls : ~On(q2.cache, j) => q2.ctrl[j].s \in Conns
    BY <1>1, <1>2, SideTypes
  <1>4. Facts(p, q, handouts, batch, waited)
    BY <1>2 DEF Sessions
  <1>5. c \in Conns /\ q.conn[c].link = "up"
    BY <1>3, CtrlField
  <1>6. ~HeldByRelay(p, c)
    BY <1>3, <1>5 DEF OneOwner, HeldByCtrl
  <1>7. Change(c, p.conn[c], p2.conn[c], HeldByRelay(p, c))
    <2>1. PICK held : held = HeldByRelay(p, c)
      OBVIOUS
    <2>2. ~held
      BY <2>1, <1>6
    <2>3. Change(c, q.conn[c], q2.conn[c], held)
      BY <2>2 DEF Change, Grows
    <2> QED
      BY <2>1, <2>3, <1>3
  <1>8. CtrlSide(q, q2, c, waited, waited2)
    <2>1. \A j \in Ctrls : j # 0
      BY DEF Ctrls
    <2>2. ASSUME NEW j \in Ctrls, ~On(q2.cache, j), j # i
          PROVE  /\ q2.ctrl[j].s # c /\ ~On(q.cache, j) /\ q2.ctrl[j] = q.ctrl[j]
                 /\ waited # j /\ waited2 # j
      <3>1. ~On(q.cache, j) /\ q2.ctrl[j] = q.ctrl[j]
        BY <2>2 DEF Beside
      <3>2. q.ctrl[j].s # c
        BY <2>2, <3>1, <1>3 DEF ControlsOK
      <3> QED
        BY <2>1, <2>2, <3>1, <3>2
    <2>3. ~On(q2.cache, i) => q2.ctrl[i].s = c /\ CtrlOK(c, q2.conn[c], q2.ctrl[i], waited2 = i)
      BY DEF Controlled
    <2>4. ASSUME NEW j \in Ctrls, ~On(q2.cache, j)
          PROVE  IF q2.ctrl[j].s = c THEN CtrlOK(c, q2.conn[c], q2.ctrl[j], waited2 = j)
                 ELSE ~On(q.cache, j) /\ q2.ctrl[j] = q.ctrl[j] /\ (waited2 = j <=> waited = j)
      <3>1. CASE j = i
        <4>1. q2.ctrl[j].s = c
          BY <2>3, <2>4, <3>1
        <4>2. CtrlOK(c, q2.conn[c], q2.ctrl[j], waited2 = j)
          BY <2>3, <2>4, <3>1
        <4> QED
          BY <4>1, <4>2
      <3>2. CASE j # i
        BY <2>2, <2>4, <3>2
      <3> QED
        BY <3>1, <3>2
    <2> QED
      BY <2>4 DEF CtrlSide
  <1>9. ASSUME NEW h \in Tickets, Known(q2, handouts, h)
        PROVE  Known(q, handouts, h)
    <2>1. WrittenWasOwed(q, q2, c)
      BY DEF WrittenWasOwed, Controlled
    <2>2. ASSUME NEW j \in Ctrls, ~On(q2.cache, j), NEW m, Owes(q2.ctrl[j], m)
          PROVE  ~On(q.cache, j) /\ q.ctrl[j].s = q2.ctrl[j].s /\ Owes(q.ctrl[j], m)
      <3>1. CASE j = i
        BY <2>2, <3>1 DEF Controlled
      <3>2. CASE j # i
        BY <2>2, <3>2 DEF Beside
      <3> QED
        BY <3>1, <3>2
    <2>3. NoMoreOwed(q, q2)
      BY <2>2 DEF NoMoreOwed
    <2>4. c \in Clients => WasHere(q.conn[c], q2.conn[c])
      <3>1. q.conn[c] # Fresh
        BY <1>5 DEF Fresh
      <3>2. c \in Clients => Grows(c, q.conn[c], q2.conn[c], FALSE)
        BY <3>1 DEF Change, Enters
      <3> QED
        BY <3>2, <1>5 DEF WasHere, Grows
    <2>5. \A d \in Conns : d # c => q2.conn[d] = q.conn[d]
      BY DEF Beside
    <2> QED
      BY <2>1, <2>3, <2>4, <2>5, <1>5, <1>9, KnownOn
  <1>10. Facts(p2, q2, handouts', batch', waited2)
    <2>1. /\ q.conn = p.conn /\ \A d \in Conns : d # c => p2.conn[d] = p.conn[d]
      BY <1>3 DEF Beside
    <2>2. \A h \in Tickets : Known(q2, handouts', h) => Known(q, handouts, h)
      BY <1>9
    <2> QED
      BY <2>1, <2>2, <1>3, <1>4, <1>5, <1>7, <1>8, SideStep
  <1> QED
    BY <1>2, <1>10, SessionsNext

\* niosslaccept has read the first bytes.
LEMMA FiveSessions ==
  ASSUME Sessions, FiveBytes, NioInv'
  PROVE  Sessions'
  <1>1. NioInv
    BY DEF Sessions
  <1>2. /\ pc = "five" /\ pc' = "batch" /\ batch' = batch /\ handouts' = handouts
        /\ relay' = relay /\ wpeers' = wpeers
    BY DEF FiveBytes, relayVars
  <1>3. PICK i : i = five
    OBVIOUS
  <1>4. PICK q, q2, c, waited : q = Controls /\ q2 = Controls' /\ c = q.ctrl[i].s /\ waited = Waited
    OBVIOUS
  <1>5. /\ ControlsOK(q) /\ q.conn = conn /\ q.ctrl = ctrl /\ q.cache = ctrlcache
        /\ conn \in [Conns -> ConnRecs]
    BY <1>1, <1>4, HeldTypes
  <1>6. i \in Ctrls /\ ~On(q.cache, i) /\ waited = i /\ i # 0
    BY <1>1, <1>2, <1>3, <1>4, <1>5 DEF NioInv, LoopOK, Waited, Ctrls
  <1>7. c \in Conns /\ conn[c].link = "up"
    BY <1>4, <1>5, <1>6, CtrlField
  <1>8. PICK v \in ConnRecs : v = conn[c]
    BY <1>5, <1>7
  <1>9. PICK in : in = IF v.in = <<>> THEN v.in ELSE Tail(v.in)
    OBVIOUS
  <1>10. PICK w : w = [v EXCEPT !.in = in]
    OBVIOUS
  <1>11. q2.ctrl = q.ctrl /\ q2.cache = q.cache /\ q2.conn = [conn EXCEPT ![c] = w]
    <2>1. q2.ctrl = ctrl' /\ q2.cache = ctrlcache' /\ q2.conn = conn'
      BY <1>4 DEF Controls
    <2>2. ControlsBecome(ReadFive(q, c))
      BY <1>3, <1>4, <1>5 DEF FiveBytes
    <2>3. q \in ControlPools
      BY <1>5, ControlsTypes
    <2>4. ReadFive(q, c) = [q EXCEPT !.conn = [conn EXCEPT ![c] = w]]
      BY <2>3, <1>5, <1>7, <1>8, <1>9, <1>10 DEF ReadFive, ControlPools
    <2> QED
      BY <2>1, <2>2, <2>3, <2>4 DEF ControlsBecome, ControlPools
  <1>12. q2.conn[c] = w /\ Beside(q, q2, i, c)
    BY <1>5, <1>7, <1>11 DEF Beside
  <1>13. /\ SameTicket(w, v) /\ w.said = v.said /\ Told(w) = Told(v) /\ w.link = v.link
         /\ w.late = v.late /\ w.by = v.by /\ w.out = v.out /\ w.in = in /\ w.sid = v.sid
         /\ w.end = v.end /\ (Quiet(v) => Quiet(w)) /\ From(c, w, 2) = From(c, v, 2)
    BY <1>10 DEF ConnRecs, SameTicket, Told, Quiet, From
  <1>14. ProgramOK(c, v) /\ CtrlOK(c, v, q.ctrl[i], TRUE)
    <2>1. Facts(Pool, q, handouts, batch, waited) /\ Pool.conn = conn
      BY <1>1, <1>4, HeldTypes DEF Sessions
    <2>2. CtrlOK(q.ctrl[i].s, q.conn[q.ctrl[i].s], q.ctrl[i], waited = i)
      BY <2>1, <1>6 DEF Facts, Basics, CtrlsOK
    <2> QED
      BY <2>1, <2>2, <1>4, <1>5, <1>6, <1>7, <1>8 DEF Facts, Basics, ConnsOK
  <1>15. v.in = <<>> => v.end # "open"
    BY <1>3, <1>4, <1>5, <1>8 DEF FiveBytes, Readable
  <1>16. ASSUME c \in Clients
         PROVE  /\ v.said <= 3 + Bytes[c] /\ in = From(c, v, 2) /\ (v.said = 0 => v.end # "open")
                /\ Quiet(w) /\ q.ctrl[i].snd = <<>> /\ q.ctrl[i].rcv = <<>>
    <2>1. v.said <= 3 + Bytes[c] /\ v.in = From(c, v, 1)
      BY <1>14, <1>16 DEF ProgramOK, CtrlOK
    <2>2. v.said \in Nat
      BY DEF ConnRecs
    <2>3. CASE v.said = 0
      <3>1. From(c, v, 1) = <<>> /\ From(c, v, 2) = <<>>
        BY <1>16, <2>1, <2>3, FromIs
      <3> QED
        BY <2>1, <3>1, <1>9, <1>13, <1>14, <1>15, <1>16 DEF CtrlOK
    <2>4. CASE v.said # 0
      <3>1. PICK x \in Items : From(c, v, 1) = <<x>> \o From(c, v, 2)
        <4>1. PICK j \in 1 .. 3 : j = 1 /\ j <= v.said /\ j + 1 = 2
          BY <2>2, <2>4
        <4>2. PICK T : T = ScriptBy(c, v.sid)
          OBVIOUS
        <4>3. From(c, v, j) = <<T[j]>> \o From(c, v, j + 1) /\ T[j] \in Items
          BY <4>1, <4>2, <1>16, <2>1, FromTail
        <4> QED
          BY <4>1, <4>3
      <3>2. PICK f \in Seq(Items) : f = From(c, v, 2)
        BY <1>16, <2>1, FromIs
      <3>3. v.in # <<>> /\ Tail(v.in) = f
        BY <3>1, <3>2, <2>1
      <3> QED
        BY <2>1, <2>4, <3>2, <3>3, <1>9, <1>13, <1>14, <1>16 DEF CtrlOK
    <2> QED
      BY <2>3, <2>4
  <1>17. ASSUME c \in Controllers
         PROVE  NoBody(in) /\ NoBody(q.ctrl[i].rcv)
    <2>1. NoBody(v.in) /\ NoBody(q.ctrl[i].rcv)
      BY <1>7, <1>8, <1>14, <1>17 DEF ProgramOK, CtrlOK
    <2>2. v.in \in Seq(Items)
      BY DEF ConnRecs
    <2> QED
      BY <2>1, <2>2, <1>9, NoBodyTail
  <1>18. Change(c, v, w, FALSE)
    <2>1. ProgramOK(c, w)
      BY <1>7, <1>8, <1>13, <1>14, <1>17 DEF ProgramOK
    <2>2. c \in Clients => Grows(c, v, w, FALSE)
      BY <1>13, <1>16, QuietGrows
    <2> QED
      BY <2>1, <2>2, <1>13 DEF Change
  <1>19. Controlled(q, q2, i, c, 0)
    <2>1. CtrlOK(c, w, q.ctrl[i], FALSE)
      <3>1. c \in Clients => <<>> \o w.in = From(c, w, 2)
        BY <1>13, <1>16, FromIs, NothingBefore
      <3> QED
        BY <3>1, <1>13, <1>16, <1>17 DEF CtrlOK
    <2> QED
      BY <2>1, <1>4, <1>5, <1>6, <1>8, <1>11, <1>12, <1>13 DEF Controlled
  <1>20. Waited' = 0
    BY <1>2 DEF Waited
  <1>21. Change(c, q.conn[c], q2.conn[c], FALSE)
    BY <1>5, <1>8, <1>12, <1>18
  <1> QED
    BY <1>2, <1>4, <1>6, <1>12, <1>19, <1>20, <1>21, CtrlStep

LEMMA HeadOver ==
  ASSUME NEW a \in Seq(Items), NEW b \in Seq(Items), b # <<>>
  PROVE  Append(a, Head(b)) \o Tail(b) = a \o b
  <1>1. PICK x \in Items, t \in Seq(Items) : x = Head(b) /\ t = Tail(b)
    BY HeadTailProperties
  <1>2. b = <<x>> \o t
    <2>1. Len(b) \in Nat /\ Len(b) # 0
      BY EmptySeq, LenProperties
    <2> QED
      BY <1>1
  <1>3. PICK h \in Seq(Items) : h = <<x>>
    <2>1. <<x>> \in Seq(Items)
      OBVIOUS
    <2> QED
      BY <2>1
  <1>4. Append(a, x) = a \o h
    BY <1>3
  <1>5. (a \o h) \o t = a \o (h \o t)
    <2>1. Assoc(a, h, t)
      BY AssocItems, Zenon
    <2> QED
      BY <2>1, Zenon DEF Assoc
  <1> QED
    BY <1>1, <1>2, <1>3, <1>4, <1>5

\* A connection that the library closes.
LEMMA ClosedChange ==
  ASSUME NEW c \in Conns, NEW v \in ConnRecs, NEW w, ProgramOK(c, v), v.link = "up", Closed(w, v)
  PROVE  Change(c, v, w, FALSE)
  <1>1. /\ SameTicket(w, v) /\ w.said = v.said /\ Told(w) = Told(v) /\ w.link = "closed"
        /\ w.late = v.late /\ w.by = v.by /\ w.out = v.out
    BY DEF Closed, SameTicket, Told
  <1>2. c \in Clients => v.said <= 3 + Bytes[c] /\ v.by \in Conns
    BY DEF ProgramOK
  <1>3. ProgramOK(c, w)
    BY <1>1, <1>2 DEF ProgramOK
  <1>4. c \in Clients => Grows(c, v, w, FALSE)
    BY <1>1, <1>2, QuietGrows
  <1> QED
    BY <1>1, <1>3, <1>4 DEF Change

\* nioasyncread, nioasyncwrite or nioshutctrl of a control.
LEMMA CtrlSessions ==
  ASSUME Sessions, NEW e \in batch, CtrlEvent(e), NioInv'
  PROVE  Sessions'
  <1>1. NioInv
    BY DEF Sessions
  <1>2. /\ pc = "batch" /\ pc' = "batch" /\ batch' \subseteq batch /\ handouts' = handouts
        /\ relay' = relay /\ wpeers' = wpeers
    BY DEF CtrlEvent, Handle, relayVars
  <1>3. PICK q, q2, i, c : q = Controls /\ q2 = Controls' /\ i = e.id /\ c = q.ctrl[i].s
    OBVIOUS
  <1>4. /\ i \in Ctrls /\ ~On(q.cache, i) /\ Served(q, q2, i, c)
        /\ ClosedBy(q, q2, i, c) \/ ReadBy(q, q2, i, c) \/ WroteBy(q, q2, i, c)
    BY <1>1, <1>3, CtrlEventIs
  <1>5. /\ ControlsOK(q) /\ q.conn = conn /\ conn \in [Conns -> ConnRecs]
        /\ q2.conn \in [Conns -> ConnRecs]
    BY <1>1, <1>3, <1>4, HeldTypes, ControlsTypes DEF Served
  <1>6. c \in Conns /\ conn[c].link = "up"
    BY <1>3, <1>4, <1>5, CtrlField
  <1>7. PICK v \in ConnRecs, w \in ConnRecs : v = q.conn[c] /\ w = q2.conn[c]
    BY <1>5, <1>6
  <1>8. PICK z, z2 : z = q.ctrl[i] /\ z2 = q2.ctrl[i]
    OBVIOUS
  <1>9. Waited = 0 /\ Waited' = 0 /\ i # 0
    BY <1>2, <1>4 DEF Waited, Ctrls
  <1>10. ProgramOK(c, v) /\ CtrlOK(c, v, z, FALSE)
    <2>1. Facts(Pool, q, handouts, batch, 0) /\ Pool.conn = conn
      BY <1>1, <1>3, <1>9, HeldTypes DEF Sessions
    <2>2. CtrlOK(q.ctrl[i].s, q.conn[q.ctrl[i].s], q.ctrl[i], 0 = i)
      BY <2>1, <1>4 DEF Facts, Basics, CtrlsOK
    <2> QED
      BY <2>1, <2>2, <1>3, <1>5, <1>6, <1>7, <1>8, <1>9 DEF Facts, Basics, ConnsOK
  <1>11. v.link = "up" /\ z.rcv \in Seq(Items) /\ v.in \in Seq(Items)
    BY <1>4, <1>5, <1>6, <1>7, <1>8, CtrlField DEF ConnRecs
  <1>12. c \in Clients => /\ v.said <= 3 + Bytes[c] /\ v.by \in Conns /\ Quiet(v) /\ z.snd = <<>>
                          /\ z.rcv \o v.in = From(c, v, 2) /\ (v.said = 0 => v.end # "open")
    BY <1>10, <1>11 DEF ProgramOK, CtrlOK
  <1>13. c \in Controllers => NoBody(v.in) /\ NoBody(z.rcv)
    BY <1>10, <1>11 DEF ProgramOK, CtrlOK
  <1>14. Change(c, v, w, FALSE) /\ Controlled(q, q2, i, c, 0)
    <2>1. CASE ClosedBy(q, q2, i, c)
      <3>1. On(q2.cache, i) /\ Closed(w, v)
        BY <2>1, <1>7 DEF ClosedBy
      <3>2. Change(c, v, w, FALSE)
        BY <3>1, <1>6, <1>10, <1>11, ClosedChange
      <3>3. w.out = v.out
        BY <3>1 DEF Closed
      <3>4. Controlled(q, q2, i, c, 0)
        BY <3>1, <3>3, <1>7 DEF Controlled
      <3> QED
        BY <3>2, <3>4
    <2>2. CASE ReadBy(q, q2, i, c)
      <3>1. /\ ~On(q2.cache, i) /\ z2.s = c /\ z2.snd = z.snd /\ v.in # <<>>
            /\ z2.rcv = Append(z.rcv, Head(v.in)) /\ w.in = Tail(v.in)
            /\ SameEnds(w, v) /\ w.out = v.out
        BY <2>2, <1>7, <1>8 DEF ReadBy
      <3>2. /\ SameTicket(w, v) /\ w.said = v.said /\ Told(w) = Told(v) /\ w.link = v.link
            /\ w.late = v.late /\ w.by = v.by /\ (Quiet(v) => Quiet(w)) /\ w.end = v.end
            /\ From(c, w, 2) = From(c, v, 2)
        BY <3>1 DEF SameEnds, SameTicket, Told, Quiet, From
      <3>3. Head(v.in) \in Items
        BY <3>1, <1>11, HeadTailProperties
      <3>4. c \in Controllers => NoBody(w.in) /\ NoBody(z2.rcv)
        BY <3>1, <3>3, <1>11, <1>13, NoBodyTail, NoBodyAppend
      <3>5. z2.rcv \o w.in = z.rcv \o v.in
        BY <3>1, <1>11, HeadOver
      <3>6. ProgramOK(c, w)
        BY <3>2, <3>4, <1>11, <1>12 DEF ProgramOK
      <3>7. c \in Clients => Grows(c, v, w, FALSE)
        BY <3>2, <1>12, QuietGrows
      <3>8. CtrlOK(c, w, z2, FALSE)
        BY <3>1, <3>2, <3>4, <3>5, <1>12 DEF CtrlOK
      <3>9. \A m : Owes(z2, m) => Owes(z, m)
        BY <3>1 DEF Owes
      <3>10. Controlled(q, q2, i, c, 0)
        BY <3>1, <3>8, <3>9, <1>7, <1>8, <1>9 DEF Controlled
      <3> QED
        BY <3>2, <3>6, <3>7, <3>10 DEF Change
    <2>3. CASE WroteBy(q, q2, i, c)
      <3>1. /\ ~On(q2.cache, i) /\ z2.s = c /\ z2.rcv = z.rcv /\ z.snd # <<>> /\ SameSide(w, v)
            /\ \A m : Owes(z2, m) => Owes(z, m)
            /\ \A m : On(w.out, m) => On(v.out, m) \/ Owes(z, m)
        BY <2>3, <1>7, <1>8 DEF WroteBy
      <3>2. c \in Controllers /\ c \notin Clients
        BY <3>1, <1>6, <1>12, RelayNetAssumption DEF Conns
      <3>3. w.link = v.link /\ w.in = v.in /\ w.late = v.late
        BY <3>1 DEF SameSide
      <3>4. Change(c, v, w, FALSE)
        BY <3>2, <3>3, <1>13 DEF Change, ProgramOK
      <3>5. CtrlOK(c, w, z2, FALSE)
        BY <3>1, <3>2, <1>13 DEF CtrlOK
      <3>6. Controlled(q, q2, i, c, 0)
        BY <3>1, <3>5, <1>7, <1>8, <1>9 DEF Controlled
      <3> QED
        BY <3>4, <3>6
    <2> QED
      BY <2>1, <2>2, <2>3, <1>4
  <1>15. Beside(q, q2, i, c)
    BY <1>4 DEF Served, Beside
  <1> QED
    BY <1>2, <1>3, <1>4, <1>7, <1>9, <1>14, <1>15, CtrlStep

-----------------------------------------------------------------------------
\* The programs' steps.

\* A connection of which no more is told and sent.
LEMMA SteadyGrows ==
  ASSUME NEW c \in Clients, NEW v \in ConnRecs, v.said <= 3 + Bytes[c], NEW w,
         SameTicket(w, v), w.said = v.said, Told(w) = Told(v), w.in = v.in, w.end = v.end,
         w.link = v.link, NEW held
  PROVE  Grows(c, v, w, held)
  <1>1. Grows(c, v, v, held)
    BY SameGrows
  <1>2. SentOf(c, w) = SentOf(c, v)
    BY SameSent DEF SameTicket
  <1> QED
    BY <1>1, <1>2 DEF Grows

\* Its control stays what it was.
Endures(c, v, w) ==
  \A z \in CtrlRecs : /\ CtrlOK(c, v, z, TRUE) => CtrlOK(c, w, z, TRUE)
                      /\ CtrlOK(c, v, z, FALSE) => CtrlOK(c, w, z, FALSE)

LEMMA ProgramStep ==
  ASSUME Sessions, NioInv', Others, NEW c \in Conns, NEW v \in ConnRecs, v = conn[c],
         NEW w, conn' = [conn EXCEPT ![c] = w],
         NEW p, p = Pool, NEW q, q = Controls, NEW q2, q2 = Controls',
         Change(c, v, w, HeldByRelay(p, c)), Endures(c, v, w),
         Meets(p) => \A h \in Tickets : Known(q2, handouts', h) => Known(q, handouts, h)
  PROVE  Sessions'
  <1>1. NioInv
    BY DEF Sessions
  <1>2. /\ pc' = pc /\ batch' = batch /\ five' = five
        /\ ctrl' = ctrl /\ ctrlcache' = ctrlcache /\ ctrlist' = ctrlist
        /\ relay' = relay /\ relaycache' = relaycache /\ wpeers' = wpeers
    BY DEF Others, relayVars, ctrlVars, loopVars
  <1>3. PICK p2 : p2 = Pool'
    OBVIOUS
  <1>4. /\ PoolOK(p) /\ ControlsOK(q) /\ OneOwner(p, q) /\ p.conn = conn /\ q.conn = conn
        /\ q.ctrl = ctrl /\ q.cache = ctrlcache
        /\ PoolOK(p2) /\ ControlsOK(q2) /\ q2.conn = p2.conn /\ p2.conn = conn'
        /\ q2.ctrl = ctrl' /\ q2.cache = ctrlcache'
        /\ p2.relay = p.relay /\ p2.hash = p.hash
        /\ \A i \in Ctrls : ~On(q2.cache, i) => q2.ctrl[i].s \in Conns
    BY <1>1, <1>2, <1>3, SideTypes
  <1>5. PICK waited : waited = Waited
    OBVIOUS
  <1>6. waited = Waited' /\ Facts(p, q, handouts, batch, waited)
    BY <1>2, <1>5 DEF Waited, Sessions
  <1>7. p2.conn[c] = w /\ \A d \in Conns : d # c => p2.conn[d] = p.conn[d]
    <2>1. p.conn \in [Conns -> ConnRecs]
      BY <1>4 DEF PoolOK, Pools
    <2> QED
      BY <2>1, <1>4
  <1>8. ASSUME NEW i \in Ctrls, ~On(q2.cache, i)
        PROVE  IF q2.ctrl[i].s = c THEN CtrlOK(c, q2.conn[c], q2.ctrl[i], waited = i)
               ELSE ~On(q.cache, i) /\ q2.ctrl[i] = q.ctrl[i] /\ (waited = i <=> waited = i)
    <2>1. ~On(q.cache, i) /\ q2.ctrl[i] = q.ctrl[i]
      BY <1>2, <1>4, <1>8
    <2>2. ASSUME q2.ctrl[i].s = c
          PROVE  CtrlOK(c, q2.conn[c], q2.ctrl[i], waited = i)
      <3>1. PICK z \in CtrlRecs : z = q.ctrl[i]
        BY <1>4, CtrlField
      <3>2. CtrlOK(q.ctrl[i].s, q.conn[q.ctrl[i].s], q.ctrl[i], waited = i)
        BY <2>1, <1>6 DEF Facts, Basics, CtrlsOK
      <3>3. CtrlOK(c, v, z, waited = i)
        BY <3>1, <3>2, <2>1, <2>2, <1>4
      <3>4. CtrlOK(c, w, z, waited = i)
        <4>1. CASE waited = i
          <5>1. CtrlOK(c, v, z, TRUE)
            BY <3>3, <4>1
          <5>2. CtrlOK(c, w, z, TRUE)
            BY <5>1 DEF Endures
          <5> QED
            BY <5>2, <4>1
        <4>2. CASE waited # i
          <5>1. CtrlOK(c, v, z, FALSE)
            BY <3>3, <4>2
          <5>2. CtrlOK(c, w, z, FALSE)
            BY <5>1 DEF Endures
          <5> QED
            BY <5>2, <4>2
        <4> QED
          BY <4>1, <4>2
      <3> QED
        BY <3>1, <3>4, <2>1, <1>4, <1>7
    <2> QED
      BY <2>1, <2>2
  <1>9. CtrlSide(q, q2, c, waited, waited)
    BY <1>8 DEF CtrlSide
  <1>10. Change(c, p.conn[c], p2.conn[c], HeldByRelay(p, c)) /\ q.conn = p.conn /\ batch' \subseteq batch
    BY <1>2, <1>4, <1>7
  <1>11. Facts(p2, q2, handouts', batch', waited)
    BY <1>4, <1>6, <1>7, <1>9, <1>10, SideStep, ZenonT(40)
  <1> QED
    BY <1>3, <1>6, <1>11, SessionsNext

\* What a program's step starts from.
LEMMA ProgramTypes ==
  ASSUME Sessions, NEW c \in Conns, NEW p, p = Pool, NEW q, q = Controls, NEW q2, q2 = Controls',
         Others
  PROVE  /\ conn \in [Conns -> ConnRecs] /\ conn[c] \in ConnRecs /\ p.conn = conn /\ q.conn = conn
         /\ q2.conn = conn' /\ q2.ctrl = q.ctrl /\ q2.cache = q.cache
         /\ PoolOK(p) /\ RelaysOK(p) /\ ProgramOK(c, conn[c])
         /\ handouts \subseteq Tickets
  <1>1. NioInv
    BY DEF Sessions
  <1>2. /\ conn \in [Conns -> ConnRecs] /\ conn[c] \in ConnRecs /\ p.conn = conn /\ q.conn = conn
        /\ PoolOK(p)
    BY <1>1, HeldTypes
  <1>3. q2.conn = conn' /\ q2.ctrl = q.ctrl /\ q2.cache = q.cache
    BY DEF Others, ctrlVars, Controls
  <1>4. handouts \subseteq Tickets
    BY <1>1 DEF NioInv, LoopOK, Tickets
  <1>5. RelaysOK(p) /\ ConnsOK(p.conn)
    BY DEF Sessions, Facts, Basics
  <1> QED
    BY <1>2, <1>3, <1>4, <1>5 DEF ConnsOK

LEMMA KnownStays ==
  ASSUME NEW q, NEW q2, q2.ctrl = q.ctrl, q2.cache = q.cache,
         NEW c \in Conns, \A d \in Conns : d # c => q2.conn[d] = q.conn[d],
         c \in Controllers => \A m : On(q2.conn[c].out, m) => On(q.conn[c].out, m),
         c \in Clients => WasHere(q.conn[c], q2.conn[c]),
         NEW H, NEW h, Known(q2, H, h)
  PROVE  Known(q, H, h)
  <1>1. WrittenWasOwed(q, q2, c) /\ NoMoreOwed(q, q2)
    BY DEF WrittenWasOwed, NoMoreOwed
  <1> QED
    BY <1>1, KnownOn

LEMMA ConnectSessions ==
  ASSUME Sessions, NEW c \in Conns, Connect(c), Others, NioInv'
  PROVE  Sessions'
  <1>1. PICK p, q, q2 : p = Pool /\ q = Controls /\ q2 = Controls'
    OBVIOUS
  <1>2. /\ conn \in [Conns -> ConnRecs] /\ p.conn = conn /\ q.conn = conn
        /\ q2.conn = conn' /\ q2.ctrl = q.ctrl /\ q2.cache = q.cache
        /\ PoolOK(p) /\ RelaysOK(p) /\ ProgramOK(c, conn[c])
        /\ handouts \subseteq Tickets
    BY <1>1, ProgramTypes
  <1>3. PICK v \in ConnRecs : v = conn[c]
    BY <1>2
  <1>4. v.link = "none" /\ handouts' = handouts
    BY <1>3 DEF Connect
  <1>5. ~HeldByRelay(p, c)
    BY <1>2, <1>3, <1>4, RelayNetAssumption DEF HeldByRelay, PoolOK
  <1>6. CASE c \in Controllers
    <2>1. PICK w : w = [v EXCEPT !.link = "waiting"]
      OBVIOUS
    <2>2. conn' = [conn EXCEPT ![c] = w]
      <3>1. c \notin Clients
        BY <1>6, RelayNetAssumption
      <3> QED
        BY <3>1, <2>1, <1>2, <1>3 DEF Connect
    <2>3. w.in = v.in /\ w.late = v.late /\ w.out = v.out /\ c \notin Clients
      BY <2>1, <1>6, RelayNetAssumption DEF ConnRecs
    <2>4. Change(c, v, w, HeldByRelay(p, c))
      BY <2>3, <1>2, <1>3, <1>4, <1>6 DEF Change, ProgramOK
    <2>5. Endures(c, v, w)
      BY <2>3 DEF Endures, CtrlOK
    <2>6. \A h \in Tickets : Known(q2, handouts', h) => Known(q, handouts, h)
      <3>1. q2.conn[c] = w /\ \A d \in Conns : d # c => q2.conn[d] = q.conn[d]
        BY <2>2, <1>2
      <3>2. /\ c \in Controllers => \A m : On(q2.conn[c].out, m) => On(q.conn[c].out, m)
            /\ c \in Clients => WasHere(q.conn[c], q2.conn[c])
        BY <3>1, <2>3, <1>2, <1>3
      <3> QED
        BY <3>1, <3>2, <1>2, <1>4, KnownStays
    <2> QED
      BY <2>2, <2>4, <2>5, <2>6, <1>1, <1>3, ProgramStep
  <1>7. CASE c \in Clients
    <2>1. c \notin Controllers
      BY <1>7, RelayNetAssumption
    <2>2. PICK h \in handouts : conn' = [conn EXCEPT ![c].link = "waiting", ![c].sid = h.sid,
                                                     ![c].by = h.by, ![c].n = h.n]
      BY <2>1 DEF Connect
    <2>3. PICK w : w = [v EXCEPT !.link = "waiting", !.sid = h.sid, !.by = h.by, !.n = h.n]
      OBVIOUS
    <2>4. conn' = [conn EXCEPT ![c] = w]
      BY <2>2, <2>3, <1>2, <1>3
    <2>5. h \in Tickets /\ h.sid \in Sids /\ h.by \in Conns /\ h.n \in Nat
      BY <1>2 DEF Tickets
    <2>6. v = Fresh
      BY <1>2, <1>3, <1>4, <1>7 DEF ProgramOK
    <2>7. /\ w.link = "waiting" /\ w.sid = h.sid /\ w.by = h.by /\ w.n = h.n /\ w.in = <<>>
          /\ w.got = <<>> /\ w.out = <<>> /\ ~w.late /\ w.late = v.late /\ w.said = 0 /\ v.said = 0
      BY <2>3, <2>6 DEF Fresh
    <2>8. w \in ConnRecs
      BY <2>3, <2>5 DEF ConnRecs
    <2>9. ProgramOK(c, w)
      <3>1. 0 <= 3 + Bytes[c]
        BY <1>7, RelayNetAssumption
      <3>2. From(c, w, 1) = <<>>
        BY <3>1, <2>7, <2>8, <1>7, FromIs
      <3> QED
        BY <3>1, <3>2, <2>1, <2>5, <2>7 DEF ProgramOK, Quiet
    <2>10. Told(w) = <<>>
      BY <2>7, EmptySeq, NothingBefore DEF Told
    <2>11. Change(c, v, w, HeldByRelay(p, c))
      BY <2>6, <2>7, <2>9, <2>10, <1>5 DEF Change, Enters
    <2>12. Endures(c, v, w)
      <3>1. \A z \in CtrlRecs : CtrlOK(c, v, z, FALSE) => FALSE
        BY <2>6, <1>7 DEF CtrlOK, Fresh
      <3>2. ASSUME NEW z \in CtrlRecs, CtrlOK(c, v, z, TRUE)
            PROVE  CtrlOK(c, w, z, TRUE)
        <4>1. Quiet(w)
          BY <2>7 DEF Quiet
        <4>2. From(c, w, 1) = <<>>
          <5>1. 0 <= 3 + Bytes[c]
            BY <1>7, RelayNetAssumption
          <5> QED
            BY <5>1, <2>7, <2>8, <1>7, FromIs
        <4> QED
          BY <4>1, <4>2, <3>2, <2>1, <2>7, <1>7 DEF CtrlOK
      <3> QED
        BY <3>1, <3>2 DEF Endures
    <2>13. ASSUME NEW t \in Tickets, Known(q2, handouts', t)
           PROVE  Known(q, handouts, t)
      <3>1. q2.conn[c] = w /\ \A d \in Conns : d # c => q2.conn[d] = q.conn[d]
        BY <2>4, <1>2
      <3>2. CASE HasTicket(w, t)
        <4>1. t.sid = h.sid /\ t.by = h.by /\ t.n = h.n
          BY <3>2, <2>7 DEF HasTicket
        <4>2. t = h
          BY <4>1, <2>5 DEF Tickets
        <4> QED
          BY <4>2 DEF Known
      <3>3. CASE ~HasTicket(w, t)
        <4>1. CASE t \in handouts
          BY <4>1 DEF Known
        <4>2. CASE UnderWay(q2.conn, t)
          <5>1. \A d \in Controllers : d # c /\ d \in Conns
            BY <2>1 DEF Conns
          <5>2. UnderWay(q.conn, t)
            BY <4>2, <5>1, <3>1 DEF UnderWay
          <5> QED
            BY <5>2 DEF Known
        <4>3. CASE Owed(q2, t)
          BY <4>3, <1>2 DEF Known, Owed
        <4>4. CASE Brought(q2.conn, t)
          <5>1. Brought(q.conn, t)
            BY <4>4, <3>1, <3>3 DEF Brought, Conns
          <5> QED
            BY <5>1 DEF Known
        <4> QED
          BY <4>1, <4>2, <4>3, <4>4, <2>13, <1>4 DEF Known
      <3> QED
        BY <3>2, <3>3
    <2>14. Meets(p) => \A t \in Tickets : Known(q2, handouts', t) => Known(q, handouts, t)
      BY <2>13
    <2> QED
      BY <2>4, <2>11, <2>12, <2>14, <1>1, <1>3, ProgramStep
  <1> QED
    BY <1>6, <1>7 DEF Conns

\* What a client says next is what its script has next.
LEMMA SaidIs ==
  ASSUME NEW c \in Clients, NEW v \in ConnRecs, NEW w \in ConnRecs, w.said = v.said + 1,
         w.said <= 3 + Bytes[c], w.sid = v.sid, NEW t, t = ScriptBy(c, v.sid)[w.said]
  PROVE  /\ t \in Items
         /\ \A i \in 1 .. 4 : i <= w.said => From(c, w, i) = Append(From(c, v, i), t)
         /\ w.said < 4 => SentOf(c, w) = <<>> /\ SentOf(c, v) = <<>>
  <1>1. PICK m \in Nat : m = v.said
    BY DEF ConnRecs
  <1>2. m + 1 <= 3 + Bytes[c] /\ Bytes[c] \in Nat
    BY <1>1, RelayNetAssumption
  <1>3. ASSUME NEW i \in 1 .. 4, i <= w.said
        PROVE  From(c, w, i) = Append(From(c, v, i), t) /\ t \in Items
    <2>1. From(c, w, i) = From(c, v, i) \o <<t>> /\ t \in Items
      BY <1>3, FromGrows, SMTT(30)
    <2>2. v.said <= 3 + Bytes[c]
      BY <1>1, <1>2
    <2>3. From(c, v, i) \in Seq(Items)
      BY <2>2, FromIs
    <2>4. PICK f \in Seq(Items) : f = From(c, v, i)
      BY <2>3
    <2>5. Append(f, t) = f \o <<t>>
      BY <2>1
    <2> QED
      BY <2>1, <2>4, <2>5
  <1>4. t \in Items
    <2>1. PICK i \in 1 .. 4 : i = 1 /\ i <= w.said
      BY <1>1
    <2> QED
      BY <2>1, <1>3
  <1>5. ASSUME w.said < 4
        PROVE  SentOf(c, w) = <<>> /\ SentOf(c, v) = <<>>
    <2>1. PICK i \in 1 .. 4 : i = 4 /\ i > w.said /\ i > v.said
      BY <1>1, <1>5
    <2>2. v.said <= 3 + Bytes[c]
      BY <1>1, <1>2
    <2>3. From(c, w, i) = <<>> /\ From(c, v, i) = <<>>
      BY <2>1, <2>2, FromIs
    <2> QED
      BY <2>1, <2>3 DEF SentOf
  <1> QED
    BY <1>3, <1>4, <1>5

\* A client that has a relay sends a byte behind what it sent before.
LEMMA SayGrows ==
  ASSUME NEW c \in Clients, NEW v \in ConnRecs, NEW w \in ConnRecs, w.said = v.said + 1,
         w.said <= 3 + Bytes[c], SameTicket(w, v), NEW t, t = ScriptBy(c, v.sid)[w.said],
         w.in = Append(v.in, t), Told(w) = Told(v), w.link = v.link, w.end = v.end,
         NEW held, held => v.said >= 3
  PROVE  Grows(c, v, w, held)
  <1>1. t \in Items /\ w.sid = v.sid
    BY SaidIs DEF SameTicket
  <1>2. PICK m \in Nat : m = v.said
    BY DEF ConnRecs
  <1>3. m + 1 <= 3 + Bytes[c] /\ Bytes[c] \in Nat
    BY <1>2, RelayNetAssumption
  <1>4. v.said <= 3 + Bytes[c]
    BY <1>2, <1>3
  <1>5. Grows(c, v, v, TRUE)
    BY <1>4, SameGrows
  <1>6. \E y \in Seq(Items) : Told(v) = Told(w) \o y
    BY <1>5 DEF Grows
  <1>7. \E x \in Seq(Items) : SentOf(c, w) = SentOf(c, v) \o x /\ (held => w.in = v.in \o x)
    <2>1. CASE m + 1 < 4
      <3>1. SentOf(c, w) = <<>> /\ SentOf(c, v) = <<>> /\ ~held
        BY <2>1, <1>1, <1>2, SaidIs
      <3>2. PICK x \in Seq(Items) : x = <<>>
        BY EmptySeq
      <3>3. x = x \o x
        BY <3>2, NothingBehind, Zenon
      <3> QED
        BY <3>1, <3>2, <3>3
    <2>2. CASE m + 1 >= 4
      <3>1. PICK i \in 1 .. 4 : i = 4 /\ i <= w.said
        BY <2>2, <1>2
      <3>2. From(c, w, i) = Append(From(c, v, i), t)
        BY <3>1, <1>1, SaidIs
      <3>3. SentOf(c, w) = Append(SentOf(c, v), t)
        BY <3>1, <3>2 DEF SentOf
      <3>4. PICK f \in Seq(Items), in \in Seq(Items) : f = SentOf(c, v) /\ in = v.in
        BY <1>4, SentIs DEF ConnRecs
      <3>5. PICK x \in Seq(Items) : x = <<t>>
        <4>1. <<t>> \in Seq(Items)
          BY <1>1
        <4> QED
          BY <4>1
      <3>6. Append(f, t) = f \o x /\ Append(in, t) = in \o x
        BY <3>5, <1>1, SMTT(30)
      <3> QED
        BY <3>3, <3>4, <3>5, <3>6
    <2>3. m + 1 < 4 \/ m + 1 >= 4
      BY <1>2
    <2> QED
      BY <2>1, <2>2, <2>3, Zenon
  <1>8. w.said >= v.said
    BY <1>2
  <1> QED
    BY <1>6, <1>7, <1>8 DEF Grows

LEMMA SaySessions ==
  ASSUME Sessions, NEW c \in Conns, Say(c), Others, NioInv'
  PROVE  Sessions'
  <1>1. PICK p, q, q2 : p = Pool /\ q = Controls /\ q2 = Controls'
    OBVIOUS
  <1>2. /\ conn \in [Conns -> ConnRecs] /\ p.conn = conn /\ q.conn = conn
        /\ q2.conn = conn' /\ q2.ctrl = q.ctrl /\ q2.cache = q.cache
        /\ PoolOK(p) /\ RelaysOK(p) /\ ProgramOK(c, conn[c])
    BY <1>1, ProgramTypes
  <1>3. PICK v \in ConnRecs : v = conn[c]
    BY <1>2
  <1>4. /\ v.link \in {"waiting", "up"} /\ v.end = "open" /\ handouts' = handouts
    BY <1>3 DEF Say, Alive
  <1>5. v.said \in Nat /\ v.in \in Seq(Items) /\ v.sid \in Sids
    BY DEF ConnRecs
  <1>6. PICK s \in Seq(Items) : s = Script(c)
    BY <1>2, <1>3, <1>5, ScriptIs
  <1>7. PICK n \in Nat : n = v.said + 1 /\ n <= Len(s)
    <2>1. v.said < Len(s) /\ Len(s) \in Nat
      BY <1>3, <1>6, LenProperties DEF Say
    <2> QED
      BY <2>1, <1>5
  <1>8. PICK t \in Items : t = s[n]
    BY <1>5, <1>7, ElementOfSeq
  <1>9. PICK in \in Seq(Items) : in = Append(v.in, t)
    BY <1>5, AppendProperties
  <1>10. PICK w : w = [v EXCEPT !.said = n, !.in = in]
    OBVIOUS
  <1>11. conn' = [conn EXCEPT ![c] = w]
    <2>1. conn' = [conn EXCEPT ![c].said = @ + 1, ![c].in = Append(@, s[conn[c].said + 1])]
      BY <1>6 DEF Say
    <2> QED
      BY <2>1, <1>2, <1>3, <1>7, <1>8, <1>9, <1>10
  <1>12. /\ w \in ConnRecs /\ SameTicket(w, v) /\ w.said = n /\ Told(w) = Told(v) /\ w.in = in
         /\ w.end = v.end /\ w.link = v.link /\ w.late = v.late /\ w.out = v.out /\ w.sid = v.sid
         /\ w.by = v.by /\ (Quiet(v) => Quiet(w))
    BY <1>9, <1>10 DEF ConnRecs, SameTicket, Told, Quiet
  <1>13. Change(c, v, w, HeldByRelay(p, c)) /\ Endures(c, v, w)
    <2>1. CASE c \in Controllers
      <3>1. c \notin Clients
        BY <2>1, RelayNetAssumption
      <3>2. t.n = 0
        <4>1. s = [i \in 1 .. MaxAsk |-> Item("header", c, 0, {})] /\ MaxAsk \in Nat
          BY <2>1, <1>6, RelayNetAssumption DEF Script
        <4>2. n \in 1 .. MaxAsk
          BY <4>1, <1>5, <1>7
        <4> QED
          BY <4>1, <4>2, <1>8 DEF Item
      <3>3. NoBody(w.in)
        <4>1. NoBody(v.in)
          BY <2>1, <1>2, <1>3, <1>4 DEF ProgramOK
        <4> QED
          BY <4>1, <3>2, <1>5, <1>9, <1>12, NoBodyAppend
      <3> QED
        BY <3>1, <3>3, <1>12 DEF Change, ProgramOK, Endures, CtrlOK
    <2>2. CASE c \in Clients
      <3>1. c \notin Controllers
        BY <2>2, RelayNetAssumption
      <3>2. s = ScriptBy(c, v.sid)
        BY <3>1, <1>3, <1>6 DEF Script, ScriptBy
      <3>3. w.said = v.said + 1 /\ w.said <= 3 + Bytes[c] /\ t = ScriptBy(c, v.sid)[w.said]
            /\ w.said \in Nat
        <4>1. Len(s) = 3 + Bytes[c]
          BY <2>2, <3>2, <1>5, ScriptByIs
        <4> QED
          BY <4>1, <3>2, <1>7, <1>8, <1>12
      <3>4. \A i \in 1 .. 4 : i <= w.said => From(c, w, i) = Append(From(c, v, i), t)
        BY <2>2, <3>3, <1>12, SaidIs, ZenonT(40)
      <3>5. From(c, w, 1) = Append(From(c, v, 1), t)
        <4>1. PICK i \in 1 .. 4 : i = 1 /\ i <= w.said
          BY <3>3, <1>5
        <4> QED
          BY <3>4, <4>1
      <3>6. HeldByRelay(p, c) => v.said >= 3
        <4>1. ASSUME NEW r \in Sids, p.relay[r].s = c
              PROVE  v.said >= 3
          <5>1. p.relay[r].s # None
            BY <4>1, RelayNetAssumption
          <5> QED
            BY <4>1, <5>1, <1>2, <1>3 DEF RelaysOK
        <4> QED
          BY <4>1 DEF HeldByRelay
      <3>7. Grows(c, v, w, HeldByRelay(p, c))
        <4>1. PICK held : held = HeldByRelay(p, c)
          OBVIOUS
        <4>2. held => v.said >= 3
          BY <4>1, <3>6
        <4>3. Grows(c, v, w, held)
          BY <2>2, <3>3, <4>2, <1>9, <1>12, SayGrows
        <4> QED
          BY <4>1, <4>3
      <3>8. ProgramOK(c, w)
        BY <3>1, <3>3, <3>5, <1>2, <1>3, <1>4, <1>9, <1>12 DEF ProgramOK
      <3>9. Endures(c, v, w)
        <4>1. ASSUME NEW z \in CtrlRecs, CtrlOK(c, v, z, TRUE)
              PROVE  CtrlOK(c, w, z, TRUE)
          BY <2>2, <3>1, <3>5, <4>1, <1>9, <1>12 DEF CtrlOK
        <4>2. ASSUME NEW z \in CtrlRecs, CtrlOK(c, v, z, FALSE)
              PROVE  CtrlOK(c, w, z, FALSE)
          <5>1. Quiet(v) /\ z.snd = <<>> /\ z.rcv \o v.in = From(c, v, 2) /\ v.said # 0
            BY <2>2, <4>2, <1>4 DEF CtrlOK
          <5>2. From(c, w, 2) = Append(From(c, v, 2), t)
            <6>1. PICK i \in 1 .. 4 : i = 2 /\ i <= w.said
              BY <3>3, <5>1, <1>5
            <6> QED
              BY <3>4, <6>1
          <5>3. z.rcv \o w.in = From(c, w, 2)
            <6>1. PICK rcv \in Seq(Items), vin \in Seq(Items), x \in Seq(Items) :
                         rcv = z.rcv /\ vin = v.in /\ x = <<t>>
              <7>1. <<t>> \in Seq(Items)
                OBVIOUS
              <7> QED
                BY <7>1, <1>5 DEF CtrlRecs
            <6>2. (rcv \o vin) \o x = rcv \o (vin \o x)
              <7>1. Assoc(rcv, vin, x)
                BY <6>1, AssocItems, Zenon
              <7> QED
                BY <7>1, Zenon DEF Assoc
            <6>3. rcv \o vin \in Seq(Items)
              BY <6>1, ClosedItems, Zenon
            <6>4. PICK u \in Seq(Items) : u = rcv \o vin
              BY <6>3
            <6>5. Append(vin, t) = vin \o x /\ Append(u, t) = u \o x
              BY <6>1, SMTT(30)
            <6> QED
              BY <6>1, <6>2, <6>4, <6>5, <5>1, <5>2, <1>9, <1>12
          <5>4. w.said # 0
            BY <3>3, <1>5
          <5> QED
            BY <5>1, <5>3, <5>4, <3>1, <1>12 DEF CtrlOK
        <4> QED
          BY <4>1, <4>2 DEF Endures
      <3> QED
        BY <3>7, <3>8, <3>9, <1>12 DEF Change
    <2> QED
      BY <2>1, <2>2 DEF Conns
  <1>14. \A h \in Tickets : Known(q2, handouts', h) => Known(q, handouts, h)
    <2>1. q2.conn[c] = w /\ \A d \in Conns : d # c => q2.conn[d] = q.conn[d]
      BY <1>2, <1>11
    <2>2. /\ c \in Controllers => \A m : On(q2.conn[c].out, m) => On(q.conn[c].out, m)
          /\ c \in Clients => WasHere(q.conn[c], q2.conn[c])
      BY <2>1, <1>2, <1>3, <1>12 DEF WasHere
    <2> QED
      BY <2>1, <2>2, <1>2, <1>4, KnownStays
  <1> QED
    BY <1>1, <1>3, <1>11, <1>13, <1>14, ProgramStep

\* What a client sends behind its start message gives no sids, and so what a client is
\* told.
LEMMA SentPlain ==
  ASSUME NEW c \in Clients, NEW w \in ConnRecs, w.said <= 3 + Bytes[c], NEW m, On(SentOf(c, w), m)
  PROVE  m.sids = {}
  <1>1. PICK n \in Nat : n = w.said
    BY DEF ConnRecs
  <1>2. PICK f, T : f = From(c, w, 4) /\ T = ScriptBy(c, w.sid)
    OBVIOUS
  <1>3. /\ Len(f) = IF 4 <= n THEN n - 4 + 1 ELSE 0
        /\ \A j \in 1 .. n - 4 + 1 : f[j] = T[4 + j - 1]
    <2>1. Len(f) = IF 4 <= w.said THEN w.said - 4 + 1 ELSE 0
      BY <1>2, FromIs
    <2>2. ASSUME NEW j \in 1 .. w.said - 4 + 1
          PROVE  f[j] = T[4 + j - 1]
      BY <1>2, FromIs
    <2> QED
      BY <2>1, <2>2, <1>1
  <1>4. w.sid \in Sids
    BY DEF ConnRecs
  <1>5. Len(T) = 3 + Bytes[c] /\ Bytes[c] \in Nat /\ \A i \in 4 .. Len(T) : T[i].sids = {}
    BY <1>2, <1>4, ScriptByIs
  <1>6. PICK j \in 1 .. Len(f) : f[j] = m
    BY <1>2 DEF SentOf, On
  <1>7. 4 <= n /\ j \in 1 .. n - 4 + 1
    BY <1>1, <1>3, <1>6
  <1>8. PICK i \in 4 .. Len(T) : i = 4 + j - 1
    BY <1>1, <1>5, <1>7
  <1>9. m = T[i]
    BY <1>3, <1>6, <1>7, <1>8
  <1> QED
    BY <1>5, <1>9

LEMMA ToldPlain ==
  ASSUME NEW k \in [Conns -> ConnRecs], ConnsOK(k), DeliveredOK(k), NEW c \in Clients,
         NEW m, On(k[c].out, m)
  PROVE  m.sids = {}
  <1>1. c \in Conns /\ k[c] \in ConnRecs
    BY DEF Conns
  <1>2. PICK got \in Seq(Items), out \in Seq(Items) : got = k[c].got /\ out = k[c].out
    BY <1>1 DEF ConnRecs
  <1>3. PICK told \in Seq(Items) : told = got \o out
    BY ClosedItems, Zenon
  <1>4. On(told, m)
    BY <1>2, <1>3, OnConcat
  <1>5. told = Told(k[c]) /\ told # <<>>
    <2>1. told # <<>>
      BY <1>4, EmptySeq DEF On
    <2> QED
      BY <2>1, <1>2, <1>3 DEF Told
  <1>6. PICK d \in Clients : FromPartner(k, c, d)
    BY <1>5 DEF DeliveredOK
  <1>7. PICK u \in Seq(Items) : told \o u = SentOf(d, k[d])
    BY <1>5, <1>6 DEF FromPartner
  <1>8. On(told \o u, m)
    BY <1>4, OnConcat
  <1>9. k[d] \in ConnRecs /\ k[d].said <= 3 + Bytes[d]
    BY DEF ConnsOK, ProgramOK, Conns
  <1> QED
    BY <1>7, <1>8, <1>9, SentPlain

LEMMA HearSessions ==
  ASSUME Sessions, NEW c \in Conns, Hear(c), Others, NioInv'
  PROVE  Sessions'
  <1>1. PICK p, q, q2 : p = Pool /\ q = Controls /\ q2 = Controls'
    OBVIOUS
  <1>2. /\ conn \in [Conns -> ConnRecs] /\ p.conn = conn /\ q.conn = conn
        /\ q2.conn = conn' /\ q2.ctrl = q.ctrl /\ q2.cache = q.cache
        /\ PoolOK(p) /\ RelaysOK(p) /\ ProgramOK(c, conn[c])
    BY <1>1, ProgramTypes
  <1>3. PICK v \in ConnRecs : v = conn[c]
    BY <1>2
  <1>4. PICK got \in Seq(Items), out \in Seq(Items), e \in Seq(Items) :
               got = v.got /\ out = v.out /\ e = <<>> /\ Len(e) = 0
    BY EmptySeq DEF ConnRecs
  <1>5. PICK told \in Seq(Items) : told = got \o out
    BY ClosedItems, Zenon
  <1>6. PICK w : w = [v EXCEPT !.got = told, !.out = e]
    OBVIOUS
  <1>7. conn' = [conn EXCEPT ![c] = w]
    <2>1. conn' = [conn EXCEPT ![c].got = told, ![c].out = e]
      BY <1>2, <1>3, <1>4, <1>5 DEF Hear
    <2> QED
      BY <2>1, <1>2, <1>3, <1>6
  <1>8. /\ SameTicket(w, v) /\ w.said = v.said /\ w.got = told /\ w.out = e /\ w.in = v.in
        /\ w.end = v.end /\ w.link = v.link /\ w.late = v.late
    BY <1>6 DEF ConnRecs, SameTicket
  <1>9. Told(w) = Told(v)
    <2>1. told \o e = told
      BY <1>4, NothingBehind, Zenon
    <2> QED
      BY <2>1, <1>4, <1>5, <1>8 DEF Told
  <1>10. v.out # <<>>
    BY <1>3 DEF Hear
  <1>11. Change(c, v, w, HeldByRelay(p, c)) /\ Endures(c, v, w)
    <2>1. CASE c \in Controllers
      <3>1. c \notin Clients
        BY <2>1, RelayNetAssumption
      <3> QED
        BY <3>1, <1>2, <1>3, <1>8 DEF Change, ProgramOK, Endures, CtrlOK
    <2>2. CASE c \in Clients
      <3>1. c \notin Controllers
        BY <2>2, RelayNetAssumption
      <3>2. ~Quiet(v) /\ v # Fresh
        BY <1>10 DEF Quiet, Fresh
      <3>3. v.said <= 3 + Bytes[c] /\ v.link # "none" /\ v.link # "waiting" /\ v.by \in Conns
        BY <2>2, <3>2, <1>2, <1>3 DEF ProgramOK
      <3>4. ProgramOK(c, w)
        BY <3>1, <3>3, <1>8 DEF ProgramOK, SameTicket
      <3>5. Endures(c, v, w)
        BY <2>2, <3>2 DEF Endures, CtrlOK
      <3>6. Grows(c, v, w, HeldByRelay(p, c))
        <4>1. PICK held : held = HeldByRelay(p, c)
          OBVIOUS
        <4>2. Grows(c, v, w, held)
          BY <2>2, <3>3, <1>8, <1>9, SteadyGrows
        <4> QED
          BY <4>1, <4>2
      <3> QED
        BY <3>4, <3>5, <3>6, <1>8 DEF Change
    <2> QED
      BY <2>1, <2>2 DEF Conns
  <1>12. ASSUME Meets(p), NEW h \in Tickets, Known(q2, handouts', h)
         PROVE  Known(q, handouts, h)
    <2>1. Known(q, handouts', h)
      <3>1. q2.conn[c] = w /\ \A d \in Conns : d # c => q2.conn[d] = q.conn[d]
        BY <1>2, <1>7
      <3>2. /\ c \in Controllers => \A m : On(q2.conn[c].out, m) => On(q.conn[c].out, m)
            /\ c \in Clients => WasHere(q.conn[c], q2.conn[c])
        <4>1. \A m : ~On(w.out, m)
          BY <1>4, <1>8 DEF On
        <4> QED
          BY <3>1, <4>1, <1>2, <1>3, <1>8 DEF WasHere
      <3> QED
        BY <3>1, <3>2, <1>2, <1>12, KnownStays
    <2>2. ASSUME h \in handouts', h \notin handouts
          PROVE  UnderWay(q.conn, h)
      <3>1. handouts' = handouts \cup
              UNION {{[sid |-> s, by |-> c, n |-> out[i].n] : s \in out[i].sids} :
                       i \in 1 .. Len(out)}
        BY <1>3, <1>4 DEF Hear
      <3>2. PICK i \in 1 .. Len(out) : h \in {[sid |-> s, by |-> c, n |-> out[i].n] : s \in out[i].sids}
        BY <2>2, <3>1
      <3>3. PICK s \in out[i].sids : h = [sid |-> s, by |-> c, n |-> out[i].n]
        BY <3>2
      <3>4. PICK m : m = out[i]
        OBVIOUS
      <3>5. On(q.conn[c].out, m) /\ Offers(m, c, h)
        BY <3>2, <3>3, <3>4, <1>2, <1>3, <1>4 DEF On, Offers
      <3>6. c \notin Clients
        <4>1. ASSUME c \in Clients
              PROVE  m.sids = {}
          <5>1. conn \in [Conns -> ConnRecs] /\ ConnsOK(conn) /\ DeliveredOK(conn)
            BY <1>1, <1>2, <1>12 DEF Sessions, Facts, Basics, Meets
          <5> QED
            BY <4>1, <5>1, <3>5, <1>2, ToldPlain
        <4> QED
          BY <4>1, <3>3, <3>4
      <3> QED
        BY <3>5, <3>6 DEF UnderWay, Conns
    <2> QED
      BY <2>1, <2>2 DEF Known
  <1>13. Meets(p) => \A h \in Tickets : Known(q2, handouts', h) => Known(q, handouts, h)
    BY <1>12
  <1> QED
    BY <1>1, <1>3, <1>7, <1>11, <1>13, ProgramStep

LEMMA LeaveSessions ==
  ASSUME Sessions, NEW c \in Conns, Leave(c), Others, NioInv'
  PROVE  Sessions'
  <1>1. PICK p, q, q2 : p = Pool /\ q = Controls /\ q2 = Controls'
    OBVIOUS
  <1>2. /\ conn \in [Conns -> ConnRecs] /\ p.conn = conn /\ q.conn = conn
        /\ q2.conn = conn' /\ q2.ctrl = q.ctrl /\ q2.cache = q.cache
        /\ PoolOK(p) /\ RelaysOK(p) /\ ProgramOK(c, conn[c])
    BY <1>1, ProgramTypes
  <1>3. PICK v \in ConnRecs : v = conn[c]
    BY <1>2
  <1>4. PICK got \in Seq(Items), out \in Seq(Items), in \in Seq(Items), e \in Seq(Items) :
               got = v.got /\ out = v.out /\ in = v.in /\ e = <<>> /\ Len(e) = 0
    BY EmptySeq DEF ConnRecs
  <1>5. PICK how \in {"fin", "rst"} : conn' = [conn EXCEPT ![c].end = how, ![c].out = e]
    BY <1>4 DEF Leave
  <1>6. PICK w : w = [v EXCEPT !.end = how, !.out = e]
    OBVIOUS
  <1>7. conn' = [conn EXCEPT ![c] = w] /\ handouts' = handouts
    BY <1>2, <1>3, <1>5, <1>6 DEF Leave
  <1>8. /\ SameTicket(w, v) /\ w.said = v.said /\ w.got = got /\ w.out = e /\ w.in = v.in
        /\ w.end # "open" /\ w.link = v.link /\ w.late = v.late /\ w.sid = v.sid
        /\ (Quiet(v) => Quiet(w)) /\ \A i : From(c, w, i) = From(c, v, i)
    BY <1>4, <1>6 DEF ConnRecs, SameTicket, Quiet, From
  <1>9. v.link # "none"
    BY <1>3 DEF Leave, Alive
  <1>10. Change(c, v, w, HeldByRelay(p, c)) /\ Endures(c, v, w)
    <2>1. CASE c \in Controllers
      <3>1. c \notin Clients
        BY <2>1, RelayNetAssumption
      <3> QED
        BY <3>1, <1>2, <1>3, <1>8 DEF Change, ProgramOK, Endures, CtrlOK
    <2>2. CASE c \in Clients
      <3>1. c \notin Controllers
        BY <2>2, RelayNetAssumption
      <3>2. v.said <= 3 + Bytes[c] /\ v.by \in Conns
        BY <2>2, <1>2, <1>3, <1>9 DEF ProgramOK
      <3>3. ProgramOK(c, w)
        BY <3>1, <3>2, <1>2, <1>3, <1>8, <1>9 DEF ProgramOK, SameTicket
      <3>4. Endures(c, v, w)
        BY <3>1, <1>8 DEF Endures, CtrlOK
      <3>5. Grows(c, v, w, HeldByRelay(p, c))
        <4>1. PICK held : held = HeldByRelay(p, c)
          OBVIOUS
        <4>2. Grows(c, v, v, held)
          BY <2>2, <3>2, SameGrows
        <4>3. SentOf(c, w) = SentOf(c, v)
          BY <1>8, SameSent DEF SameTicket
        <4>4. \E x \in Seq(Items) : SentOf(c, w) = SentOf(c, v) \o x /\ (held => w.in = v.in \o x)
          BY <4>2, <4>3, <1>8 DEF Grows
        <4>5. \E y \in Seq(Items) : Told(v) = Told(w) \o y
          <5>1. got \o e = got
            BY <1>4, NothingBehind, Zenon
          <5> QED
            BY <5>1, <1>4, <1>8 DEF Told
        <4>6. Grows(c, v, w, held)
          BY <4>2, <4>4, <4>5, <1>8 DEF Grows
        <4> QED
          BY <4>1, <4>6
      <3> QED
        BY <3>3, <3>4, <3>5, <1>8 DEF Change
    <2> QED
      BY <2>1, <2>2 DEF Conns
  <1>11. \A h \in Tickets : Known(q2, handouts', h) => Known(q, handouts, h)
    <2>1. q2.conn[c] = w /\ \A d \in Conns : d # c => q2.conn[d] = q.conn[d]
      BY <1>2, <1>7
    <2>2. /\ c \in Controllers => \A m : On(q2.conn[c].out, m) => On(q.conn[c].out, m)
          /\ c \in Clients => WasHere(q.conn[c], q2.conn[c])
      <3>1. \A m : ~On(w.out, m)
        BY <1>4, <1>8 DEF On
      <3> QED
        BY <2>1, <3>1, <1>2, <1>3, <1>8 DEF WasHere
    <2> QED
      BY <2>1, <2>2, <1>2, <1>7, KnownStays
  <1> QED
    BY <1>1, <1>3, <1>7, <1>10, <1>11, ProgramStep

-----------------------------------------------------------------------------
\* The steps of relays and their connections.

\* What a ticket is still good for.
LEMMA PromiseMoves ==
  ASSUME NEW p, PoolOK(p), RelaysOK(p), GrantedOK(p), NEW q, Moved(p, q),
         NEW h \in Tickets, Promise(p, h)
  PROVE  Promise(q, h)
  <1>1. PICK r \in Sids : r = h.sid
    BY DEF Tickets
  <1>2. CASE \E d \in Clients : p.conn[d].link = "closed" /\ HasTicket(p.conn[d], h)
    <2>1. PICK d \in Clients : p.conn[d].link = "closed" /\ HasTicket(p.conn[d], h)
      BY <1>2
    <2>2. d \in Conns
      BY DEF Conns
    <2>3. q.conn[d].link = "closed" /\ SameTicket(q.conn[d], p.conn[d])
      BY <2>1, <2>2 DEF Moved
    <2> QED
      BY <2>1, <2>3 DEF Promise, HasTicket, SameTicket
  <1>3. CASE p.relay[r].status # "idle" /\ p.relay[r].ask = [by |-> h.by, n |-> h.n]
    <2>1. CASE q.relay[r].status = p.relay[r].status
      BY <1>1, <1>3, <2>1 DEF Moved, Promise
    <2>2. CASE q.relay[r].status # p.relay[r].status
      <3>1. PICK d : d = p.relay[r].s
        OBVIOUS
      <3>2. d # None /\ q.conn[d].link = "closed"
        BY <2>2, <3>1 DEF Moved
      <3>3. d \in Clients /\ d \in Conns
        BY <3>1, <3>2 DEF RelaysOK, Conns
      <3>4. p.conn[d].sid = r /\ p.conn[d].by = p.relay[r].ask.by /\ p.conn[d].n = p.relay[r].ask.n
        BY <3>1, <3>2 DEF GrantedOK
      <3>5. HasTicket(p.conn[d], h)
        BY <3>4, <1>1, <1>3 DEF HasTicket
      <3>6. SameTicket(q.conn[d], p.conn[d])
        BY <3>3 DEF Moved
      <3> QED
        BY <3>2, <3>3, <3>5, <3>6 DEF Promise, HasTicket, SameTicket
    <2> QED
      BY <2>1, <2>2
  <1> QED
    BY <1>1, <1>2, <1>3 DEF Promise

LEMMA RelayStep ==
  ASSUME Sessions, NioInv', batch' \subseteq batch, handouts' = handouts, Waited' = Waited,
         NEW p, p = Pool, NEW q, q = Controls, NEW p2, p2 = Pool', NEW q2, q2 = Controls',
         q2 = ControlsWith(q, p2.conn),
         RelaysOK(p2), Moved(p, p2), Moves(p, p2), NoneLate(p.conn) => Keeps(p, p2)
  PROVE  Sessions'
  <1>1. NioInv
    BY DEF Sessions
  <1>2. /\ PoolOK(p) /\ ControlsOK(q) /\ OneOwner(p, q) /\ p.conn = q.conn
        /\ PoolOK(p2) /\ batch \in SUBSET Events
    BY <1>1, HeldTypes, NextTypes
  <1>3. PICK waited : waited = Waited
    OBVIOUS
  <1>4. Facts(p, q, handouts, batch, waited)
    BY <1>3 DEF Sessions
  <1>5. ConnsOK(p.conn) /\ CtrlsOK(q, waited) /\ RelaysOK(p)
    BY <1>4 DEF Facts, Basics
  <1>6. q2.ctrl = q.ctrl /\ q2.cache = q.cache /\ q2.conn = p2.conn
    BY DEF ControlsWith
  <1>7. \A c \in Conns : ~HeldByRelay(p, c) => p2.conn[c] = p.conn[c]
    BY DEF Moves
  <1>8. ASSUME NEW c \in Conns, HeldByRelay(p, c)
        PROVE  c \in Clients /\ c \notin Controllers /\ p.conn[c].link = "up"
    <2>1. PICK r \in Sids : p.relay[r].s = c
      BY <1>8 DEF HeldByRelay
    <2> QED
      BY <2>1, <1>2, <1>5, RelayNetAssumption DEF RelaysOK, PoolOK
  <1>9. ASSUME NEW c \in Conns
        PROVE  /\ SameTicket(p2.conn[c], p.conn[c])
               /\ p2.conn[c].said = p.conn[c].said /\ p2.conn[c].late = p.conn[c].late
               /\ p2.conn[c].link # p.conn[c].link => p2.conn[c].link = "closed"
               /\ c \in Controllers => p2.conn[c] = p.conn[c]
               /\ p2.conn[c].link # "none" => p.conn[c].link # "none"
    <2>1. HeldByRelay(p, c) => p.conn[c].link # "none"
      BY <1>8
    <2> QED
      BY <2>1, <1>7, <1>8 DEF Moved
  <1>10. ConnsOK(p2.conn)
    <2>1. ASSUME NEW c \in Conns
          PROVE  ProgramOK(c, p2.conn[c])
      <3>1. PICK v, w : v = p.conn[c] /\ w = p2.conn[c]
        OBVIOUS
      <3>2. ProgramOK(c, v)
        BY <3>1, <1>5 DEF ConnsOK
      <3>3. CASE HeldByRelay(p, c)
        <4>1. v.said <= 3 + Bytes[c] /\ v.by \in Conns /\ v.link = "up" /\ c \notin Controllers
          BY <3>1, <3>2, <3>3, <1>8 DEF ProgramOK
        <4>2. w.said = v.said /\ w.by = v.by /\ w.link \in {"up", "closed"}
          BY <3>1, <4>1, <1>9 DEF SameTicket
        <4> QED
          BY <3>1, <4>1, <4>2 DEF ProgramOK
      <3>4. CASE ~HeldByRelay(p, c)
        BY <3>1, <3>2, <3>4, <1>7
      <3> QED
        BY <3>3, <3>4
    <2> QED
      BY <2>1 DEF ConnsOK
  <1>11. CtrlsOK(q2, waited)
    <2>1. ASSUME NEW i \in Ctrls, ~On(q.cache, i)
          PROVE  p2.conn[q.ctrl[i].s] = p.conn[q.ctrl[i].s]
      <3>1. q.ctrl[i].s \in Conns
        BY <2>1, <1>2, CtrlField
      <3>2. ~HeldByRelay(p, q.ctrl[i].s)
        BY <2>1, <3>1, <1>2 DEF OneOwner, HeldByCtrl
      <3> QED
        BY <3>1, <3>2, <1>7
    <2> QED
      BY <2>1, <1>2, <1>5, <1>6 DEF CtrlsOK
  <1>12. \A c \in Clients : c \in Conns
    BY DEF Conns
  <1>13. NoneLate(p2.conn) => NoneLate(p.conn)
    BY <1>9, <1>12 DEF NoneLate
  <1>14. NoneAgain(p2.conn) => NoneAgain(p.conn)
    BY <1>9, <1>12 DEF NoneAgain, SameTicket
  <1>15. InTime(p2, batch')
    <2>1. ASSUME NoneLate(p2.conn)
          PROVE  Relaying(p2) /\ PendingOK(p2, batch')
      <3>1. Keeps(p, p2) /\ PendingOK(p, batch)
        BY <2>1, <1>4, <1>13 DEF Facts, InTime
      <3>2. PendingOK(p2, batch)
        BY <3>1, <1>2, PendingOn DEF Keeps
      <3> QED
        BY <3>1, <3>2 DEF Keeps, PendingOK
    <2> QED
      BY <2>1 DEF InTime
  <1>16. ASSUME NoneLate(p2.conn), NoneAgain(p2.conn)
         PROVE  Meets(p2) /\ PromisesOK(p2, q2, handouts)
    <2>1. Meets(p) /\ PromisesOK(p, q, handouts) /\ Keeps(p, p2)
      BY <1>4, <1>13, <1>14, <1>16 DEF Facts, Once
    <2>2. ASSUME NEW h \in Tickets, Known(q2, handouts, h)
          PROVE  Promise(p2, h)
      <3>1. UnderWay(q2.conn, h) => UnderWay(q.conn, h)
        BY <1>2, <1>6, <1>9 DEF UnderWay, Conns
      <3>2. Owed(q2, h) => Owed(q, h)
        BY <1>6 DEF Owed
      <3>3. Brought(q2.conn, h) => Brought(q.conn, h)
        BY <1>2, <1>6, <1>9, <1>12 DEF Brought, HasTicket, SameTicket
      <3>4. Known(q, handouts, h)
        BY <2>2, <3>1, <3>2, <3>3 DEF Known
      <3>5. Promise(p, h)
        BY <2>1, <3>4 DEF PromisesOK
      <3> QED
        BY <2>1, <3>5, <1>2, <1>5, PromiseMoves DEF Meets
    <2> QED
      BY <2>1, <2>2 DEF Keeps, PromisesOK
  <1>17. Facts(p2, q2, handouts', batch', waited)
    BY <1>10, <1>11, <1>15, <1>16 DEF Facts, Basics, Once
  <1> QED
    BY <1>3, <1>17, SessionsNext

\* niorelay, nioflush2peer or two calls of nioshutrelay.
LEMMA RelaySessions ==
  ASSUME Sessions, NEW e \in batch, RelayEvent(e), NioInv'
  PROVE  Sessions'
  <1>1. NioInv
    BY DEF Sessions
  <1>2. PICK p, q, p2, q2 : p = Pool /\ q = Controls /\ p2 = Pool' /\ q2 = Controls'
    OBVIOUS
  <1>3. /\ pc' = pc /\ batch' \subseteq batch /\ handouts' = handouts /\ five' = five
        /\ e.kind = "relay"
    BY DEF RelayEvent, Handle
  <1>4. PICK sid \in Sids : sid = e.id
    BY <1>1, <1>2, RelayEventIs
  <1>5. p2 \in RelayHandled(p, sid) /\ Moves(p, p2) /\ q2 = ControlsWith(q, p2.conn)
    BY <1>1, <1>2, <1>4, RelayEventIs
  <1>6. PoolOK(p) /\ p.relay[sid].peer \in Sids
    BY <1>1, <1>2, HeldTypes, RelayField
  <1>7. RelaysOK(p) /\ (NoneLate(p.conn) => Relaying(p) /\ PendingOK(p, batch))
    BY <1>2 DEF Sessions, Facts, Basics, InTime
  <1>8. RelaysOK(p2) /\ Moved(p, p2)
    BY <1>5, <1>6, <1>7, FlushMoves, ShutBothMoves, RelayMoves DEF RelayHandled
  <1>9. ASSUME NoneLate(p.conn)
        PROVE  Keeps(p, p2)
    <2>1. Relaying(p) /\ PendingOK(p, batch)
      BY <1>7, <1>9
    <2>2. p.relay[sid].s # None \/ ~Live(p, p.relay[sid].peer)
      BY <2>1, <1>3, <1>4, <1>6 DEF PendingOK, PoolOK
    <2>3. CASE p2 = ShutBoth(p, sid)
      BY <2>1, <2>2, <2>3, <1>6, <1>7, ShutBothRelays DEF Keeps
    <2>4. CASE p2 = Relay(p, sid)
      BY <2>1, <2>4, <1>6, <1>7, RelayRelays
    <2>5. CASE p2 = Flush(p, p.relay[sid].peer)
      BY <2>1, <2>5, <1>6, <1>7, FlushStays
    <2> QED
      BY <2>3, <2>4, <2>5, <1>5 DEF RelayHandled
  <1>10. Waited' = Waited
    BY <1>3 DEF Waited
  <1> QED
    BY <1>2, <1>3, <1>5, <1>8, <1>9, <1>10, RelayStep

\* niofindidle.
LEMMA FindIdleSessions ==
  ASSUME Sessions, FindIdle, NioInv'
  PROVE  Sessions'
  <1>1. NioInv
    BY DEF Sessions
  <1>2. PICK p, q, p2, q2 : p = Pool /\ q = Controls /\ p2 = Pool' /\ q2 = Controls'
    OBVIOUS
  <1>3. /\ pc' = pc /\ batch' = batch /\ handouts' = handouts /\ five' = five
        /\ ctrl' = ctrl /\ ctrlcache' = ctrlcache /\ ctrlist' = ctrlist
    BY DEF FindIdle, Between, ctrlVars, loopVars
  <1>4. PoolOK(p) /\ p.hash = wpeers
    BY <1>1, <1>2, HeldTypes
  <1>5. PICK expired \in SUBSET p.hash : Becomes(ShutIdle(p, expired))
    BY <1>2, <1>4 DEF FindIdle
  <1>6. PICK g : g = ShutIdle(p, expired)
    OBVIOUS
  <1>7. PoolOK(g) /\ Marked(p, g, expired)
    BY <1>4, <1>6, ShutIdleKeeps
  <1>8. g = p2
    <2>1. g \in Pools
      BY <1>7 DEF PoolOK
    <2> QED
      BY <2>1, <1>2, <1>5, <1>6 DEF Pool, Becomes, Pools
  <1>9. q2 = ControlsWith(q, p2.conn)
    BY <1>2, <1>3 DEF Pool, Controls, ControlsWith
  <1>10. RelaysOK(p) /\ (NoneLate(p.conn) => Relaying(p))
    BY <1>2 DEF Sessions, Facts, Basics, InTime
  <1>11. RelaysOK(p2) /\ Moved(p, p2) /\ Moves(p, p2)
    BY <1>7, <1>8, <1>10 DEF Marked, RelaysOK, Moved, SameTicket, Moves, HeldByRelay
  <1>12. NoneLate(p.conn) => Keeps(p, p2)
    BY <1>4, <1>7, <1>8, <1>10, MarkedRelays DEF Keeps
  <1>13. Waited' = Waited /\ batch' \subseteq batch
    BY <1>3 DEF Waited
  <1> QED
    BY <1>2, <1>3, <1>9, <1>11, <1>12, <1>13, RelayStep

-----------------------------------------------------------------------------
\* An answer.

\* A relay that niogetpeer leaves alone, and one that waits from now on.
Stayed(p, q, x) == q.relay[x] = p.relay[x] /\ (x \in q.hash <=> x \in p.hash)

Newly(p, q, x, ask) ==
  /\ p.relay[x].status = "idle" /\ q.relay[x].status = "wait" /\ q.relay[x].s = None
  /\ q.relay[x].buf = <<>> /\ q.relay[x].x2 = 0 /\ q.relay[x].ask = ask
  /\ x \in q.hash => Linked(q, x, q.relay[x].peer)

LEMMA PeersAre ==
  ASSUME NEW p, PoolOK(p), NEW ask \in Asks, NEW q, q = GetPeer(p, ask)
  PROVE  /\ \A x \in Sids : Stayed(p, q, x) \/ Newly(p, q, x, ask)
         /\ \A x \in Given(p) : x \in Sids /\ Newly(p, q, x, ask)
  <1>1. ASSUME NEW a \in Sids, p.relay[a].status = "idle"
        PROVE  p.relay[a] \in RelayRecs /\ p.relay[a].s = None /\ a \notin p.hash
    BY <1>1, RelayField DEF PoolOK
  <1>2. ASSUME q = p, Given(p) = {}
        PROVE  /\ \A x \in Sids : Stayed(p, q, x) \/ Newly(p, q, x, ask)
               /\ \A x \in Given(p) : x \in Sids /\ Newly(p, q, x, ask)
    BY <1>2 DEF Stayed
  <1>3. ASSUME NEW a \in Sids, p.relay[a].status = "idle", Given(p) = {}, q.hash = p.hash,
               \A x \in Sids :
                 q.relay[x] = IF x = a THEN Waiting(p.relay[a], p.relay[a].peer, ask) ELSE p.relay[x]
        PROVE  /\ \A x \in Sids : Stayed(p, q, x) \/ Newly(p, q, x, ask)
               /\ \A x \in Given(p) : x \in Sids /\ Newly(p, q, x, ask)
    <2>1. PICK w : w = Waiting(p.relay[a], p.relay[a].peer, ask)
      OBVIOUS
    <2>2. p.relay[a] \in RelayRecs /\ p.relay[a].s = None /\ a \notin p.hash /\ p.relay[a].peer \in Sids
      BY <1>1, <1>3, RelayField
    <2>3. w.status = "wait" /\ w.s = None /\ w.buf = <<>> /\ w.x2 = 0 /\ w.ask = ask
      BY <2>1, <2>2, WaitingIs
    <2>4. q.relay[a] = w
      BY <2>1, <1>3
    <2>5. Newly(p, q, a, ask)
      BY <2>2, <2>3, <2>4, <1>3 DEF Newly
    <2>6. \A x \in Sids : x # a => Stayed(p, q, x)
      BY <1>3 DEF Stayed
    <2> QED
      BY <2>5, <2>6, <1>3
  <1>4. ASSUME NEW a \in Sids, NEW b \in Sids, a # b, p.relay[a].status = "idle",
               p.relay[b].status = "idle", q.hash = p.hash \cup {a, b}, Given(p) = {a, b},
               \A x \in Sids :
                 q.relay[x] = IF x = a THEN Waiting(p.relay[a], b, ask)
                              ELSE IF x = b THEN Waiting(p.relay[b], a, ask) ELSE p.relay[x]
        PROVE  /\ \A x \in Sids : Stayed(p, q, x) \/ Newly(p, q, x, ask)
               /\ \A x \in Given(p) : x \in Sids /\ Newly(p, q, x, ask)
    <2>1. PICK w, v : w = Waiting(p.relay[a], b, ask) /\ v = Waiting(p.relay[b], a, ask)
      OBVIOUS
    <2>2. /\ p.relay[a] \in RelayRecs /\ p.relay[a].s = None
          /\ p.relay[b] \in RelayRecs /\ p.relay[b].s = None
      BY <1>1, <1>4
    <2>3. /\ w.status = "wait" /\ w.s = None /\ w.peer = b
          /\ w.buf = <<>> /\ w.x2 = 0 /\ w.ask = ask
          /\ v.status = "wait" /\ v.s = None /\ v.peer = a
          /\ v.buf = <<>> /\ v.x2 = 0 /\ v.ask = ask
      BY <2>1, <2>2, WaitingIs
    <2>4. q.relay[a] = w /\ q.relay[b] = v
      BY <2>1, <1>4
    <2>5. Linked(q, a, b) /\ Linked(q, b, a)
      BY <2>3, <2>4, <1>4 DEF Linked
    <2>6. Newly(p, q, a, ask) /\ Newly(p, q, b, ask)
      BY <2>2, <2>3, <2>4, <2>5, <1>4 DEF Newly
    <2>7. \A x \in Sids : x # a /\ x # b => Stayed(p, q, x)
      BY <1>4 DEF Stayed
    <2> QED
      BY <2>6, <2>7, <1>4
  <1> QED
    BY <1>2, <1>3, <1>4, GetPeerIs

LEMMA PeersRelays ==
  ASSUME NEW p, PoolOK(p), RelaysOK(p), NEW ask \in Asks, NEW q, q = GetPeer(p, ask)
  PROVE  /\ RelaysOK(q)
         /\ Relaying(p) => Relaying(q)
         /\ GrantedOK(p) => GrantedOK(q)
         /\ \A h \in Tickets : Promise(p, h) => Promise(q, h)
  <1>1. \A x \in Sids : Stayed(p, q, x) \/ Newly(p, q, x, ask)
    BY PeersAre
  <1>2. PoolOK(q) /\ q.conn = p.conn
    BY GetPeerKeeps
  <1>3. RelaysOK(q)
    BY <1>1, <1>2 DEF RelaysOK, Stayed, Newly
  <1>4. ASSUME NEW r \in Sids, Live(p, r), PairsOK(p)
        PROVE  /\ p.relay[r].peer \in Sids /\ Linked(p, r, p.relay[r].peer)
               /\ Stayed(p, q, p.relay[r].peer)
    <2>1. PICK x \in Sids : x = p.relay[r].peer
      BY RelayField
    <2>2. Linked(p, r, x)
      BY <2>1, <1>4 DEF PairsOK
    <2>3. p.relay[x].status # "idle"
      BY <2>2 DEF Linked, PoolOK
    <2> QED
      BY <2>1, <2>2, <2>3, <1>1 DEF Newly
  <1>5. ASSUME PairsOK(p)
        PROVE  PairsOK(q)
    <2>1. ASSUME NEW r \in Sids, Live(q, r)
          PROVE  Linked(q, r, q.relay[r].peer)
      <3>1. CASE Stayed(p, q, r)
        <4>1. Live(p, r) /\ q.relay[r] = p.relay[r]
          BY <2>1, <3>1 DEF Live, Stayed
        <4> QED
          BY <4>1, <1>4, <1>5 DEF Linked, Stayed
      <3>2. CASE Newly(p, q, r, ask)
        BY <2>1, <3>2 DEF Live, Newly
      <3> QED
        BY <3>1, <3>2, <1>1
    <2> QED
      BY <2>1 DEF PairsOK
  <1>6. ASSUME PairsOK(p), NEW r \in Sids, Flows(p, r)
        PROVE  Flows(q, r)
    <2>1. CASE q.relay[r].s = None
      BY <2>1 DEF Flows
    <2>2. CASE q.relay[r].s # None
      <3>1. q.relay[r] = p.relay[r]
        BY <2>2, <1>1 DEF Stayed, Newly
      <3>2. Live(p, r)
        BY <2>2, <3>1 DEF Live, PoolOK
      <3>3. q.relay[p.relay[r].peer] = p.relay[p.relay[r].peer]
        BY <3>2, <1>4, <1>6 DEF Stayed
      <3> QED
        BY <3>1, <3>3, <1>2, <1>6 DEF Flows, Carried
    <2> QED
      BY <2>1, <2>2
  <1>7. Relaying(p) => Relaying(q)
    BY <1>5, <1>6 DEF Relaying
  <1>8. GrantedOK(p) => GrantedOK(q)
    BY <1>1, <1>2 DEF GrantedOK, Stayed, Newly
  <1>9. ASSUME NEW h \in Tickets, Promise(p, h)
        PROVE  Promise(q, h)
    <2>1. h.sid \in Sids
      BY DEF Tickets
    <2>2. p.relay[h.sid].status # "idle" => q.relay[h.sid] = p.relay[h.sid]
      BY <2>1, <1>1 DEF Stayed, Newly
    <2> QED
      BY <2>2, <1>2, <1>9 DEF Promise
  <1> QED
    BY <1>3, <1>7, <1>8, <1>9

\* A client's first message: its header, or the header and its body.
LEMMA ClientsMessage ==
  ASSUME NEW c \in Clients, NEW w \in ConnRecs, w.said <= 3 + Bytes[c],
         NEW s \in Seq(Items), NEW u \in Seq(Items), s \o u = From(c, w, 2), s # <<>>
  PROVE  /\ s[1].n = 1
         /\ Len(s) = 2 => w.said >= 3 /\ s[2].sids = {w.sid} /\ u = SentOf(c, w)
  <1>1. PICK n \in Nat, m \in Nat, k \in Nat : n = w.said /\ m = Len(s) /\ k = Len(u)
    BY LenProperties DEF ConnRecs
  <1>2. PICK T : T = ScriptBy(c, w.sid)
    OBVIOUS
  <1>3. T[2].n = 1 /\ T[3].sids = {w.sid}
    BY <1>2, ScriptByIs, SMTT(30) DEF ConnRecs
  <1>4. PICK F : F = From(c, w, 2)
    OBVIOUS
  <1>5. /\ F \in Seq(Items) /\ Len(F) = IF 2 <= n THEN n - 1 ELSE 0
        /\ \A j \in 1 .. n - 1 : F[j] = T[j + 1]
    <2>1. 2 \in 1 .. 4
      OBVIOUS
    <2>2. /\ F \in Seq(Items) /\ Len(F) = IF 2 <= w.said THEN w.said - 2 + 1 ELSE 0
          /\ \A j \in 1 .. w.said - 2 + 1 : F[j] = T[2 + j - 1]
      BY <2>1, <1>2, <1>4, FromIs
    <2> QED
      BY <2>2, <1>1
  <1>6. m # 0
    BY <1>1, EmptySeq
  <1>7. /\ Len(F) = m + k
        /\ \A j \in 1 .. m + k : F[j] = IF j <= m THEN s[j] ELSE u[j - m]
    BY <1>1, <1>4, ConcatProperties
  <1>8. n >= 2 /\ m + k = n - 1
    BY <1>5, <1>6, <1>7
  <1>9. s[1].n = 1
    <2>1. F[1] = s[1] /\ F[1] = T[2]
      BY <1>5, <1>6, <1>7, <1>8
    <2> QED
      BY <2>1, <1>3
  <1>10. ASSUME m = 2
         PROVE  n >= 3 /\ s[2].sids = {w.sid} /\ u = SentOf(c, w)
    <2>1. n >= 3 /\ k = n - 3
      BY <1>8, <1>10
    <2>2. F[2] = s[2] /\ F[2] = T[3]
      BY <2>1, <1>5, <1>7, <1>10
    <2>3. PICK G : G = From(c, w, 4)
      OBVIOUS
    <2>4. /\ G \in Seq(Items) /\ Len(G) = IF 4 <= n THEN n - 3 ELSE 0
          /\ \A j \in 1 .. n - 3 : G[j] = T[j + 3]
      <3>1. 4 \in 1 .. 4
        OBVIOUS
      <3>2. /\ G \in Seq(Items) /\ Len(G) = IF 4 <= w.said THEN w.said - 4 + 1 ELSE 0
            /\ \A j \in 1 .. w.said - 4 + 1 : G[j] = T[4 + j - 1]
        BY <3>1, <2>3, <1>2, FromIs, SMTT(30)
      <3> QED
        BY <3>2, <1>1
    <2>5. Len(G) = k
      BY <2>1, <2>4
    <2>6. ASSUME NEW j \in 1 .. k
          PROVE  u[j] = G[j]
      <3>1. F[j + 2] = u[j] /\ F[j + 2] = T[j + 3]
        BY <2>1, <1>5, <1>7, <1>10
      <3>2. G[j] = T[j + 3]
        BY <2>1, <2>4
      <3> QED
        BY <3>1, <3>2
    <2>7. u = G
      BY <2>4, <2>5, <2>6, <1>1, SeqEqual
    <2> QED
      BY <2>1, <2>2, <2>3, <2>7, <1>3 DEF SentOf
  <1> QED
    BY <1>1, <1>9, <1>10

\* niogetpeer for a controller, and the reply.
LEMMA AnswerSessions ==
  ASSUME Sessions, AnswerController, NioInv'
  PROVE  Sessions'
  <1>1. NioInv
    BY DEF Sessions
  <1>2. PICK p, q, p2, q2 : p = Pool /\ q = Controls /\ p2 = Pool' /\ q2 = Controls'
    OBVIOUS
  <1>3. PICK i, c, n : i = Head(q.list) /\ c = q.ctrl[i].s /\ n = q.conn[c].said
    OBVIOUS
  <1>4. /\ i \in Ctrls /\ ~On(q.cache, i) /\ c \in Conns /\ n \in Nat
        /\ Complete(q.ctrl[i].rcv) /\ Len(q.ctrl[i].rcv) = 1
        /\ p2 = GetPeer(p, [by |-> c, n |-> n])
        /\ Served(q, q2, i, c) /\ ~On(q2.cache, i) /\ q2.conn = q.conn
        /\ q2.ctrl[i].s = c /\ q2.ctrl[i].rcv = <<>>
        /\ OwesMore(q2.ctrl[i], q.ctrl[i], Reply(n, Given(p)))
    BY <1>1, <1>2, <1>3, AnswerIs
  <1>5. PoolOK(p) /\ ControlsOK(q) /\ q.conn = p.conn
    BY <1>1, <1>2, HeldTypes
  <1>6. pc = "batch" /\ pc' = "batch" /\ batch' = {} /\ handouts' = handouts
    BY DEF AnswerController, Between, loopVars
  <1>7. Waited = 0 /\ Waited' = 0 /\ i # 0
    BY <1>4, <1>6 DEF Waited, Ctrls
  <1>8. Facts(p, q, handouts, batch, 0)
    BY <1>2, <1>7 DEF Sessions
  <1>9. ConnsOK(p.conn) /\ CtrlsOK(q, 0) /\ RelaysOK(p)
    BY <1>8 DEF Facts, Basics
  <1>10. PICK ask \in Asks : ask = [by |-> c, n |-> n]
    BY <1>4 DEF Asks
  <1>11. p2 = GetPeer(p, ask)
    BY <1>4, <1>10
  <1>12. PoolOK(p2) /\ p2.conn = p.conn
    BY <1>5, <1>11, GetPeerKeeps
  <1>13. /\ RelaysOK(p2)
         /\ Relaying(p) => Relaying(p2)
         /\ GrantedOK(p) => GrantedOK(p2)
         /\ \A h \in Tickets : Promise(p, h) => Promise(p2, h)
    BY <1>5, <1>9, <1>11, PeersRelays
  <1>14. c \in Controllers /\ c \notin Clients
    <2>1. PICK w \in ConnRecs, z \in CtrlRecs : w = q.conn[c] /\ z = q.ctrl[i]
      BY <1>4, <1>5, ControlsTypes
    <2>2. CtrlOK(c, w, z, FALSE) /\ ProgramOK(c, w) /\ w.link = "up"
      <3>1. CtrlOK(q.ctrl[i].s, q.conn[q.ctrl[i].s], q.ctrl[i], 0 = i)
        BY <1>4, <1>9 DEF CtrlsOK
      <3>2. q.conn[c].link = "up"
        BY <1>3, <1>4, <1>5, CtrlField
      <3> QED
        BY <3>1, <3>2, <2>1, <1>3, <1>4, <1>5, <1>7, <1>9 DEF ConnsOK
    <2>3. ASSUME c \in Clients
          PROVE  FALSE
      <3>1. /\ w.said <= 3 + Bytes[c] /\ z.rcv \o w.in = From(c, w, 2)
            /\ z.rcv \in Seq(Items) /\ w.in \in Seq(Items)
        BY <2>1, <2>2, <2>3, <1>4, <1>5, CtrlField DEF CtrlOK, ProgramOK, ConnRecs
      <3>2. z.rcv # <<>> /\ Len(z.rcv) = 1 + z.rcv[1].n
        BY <2>1, <1>4 DEF Complete
      <3>3. z.rcv[1].n = 1
        BY <2>3, <3>1, <3>2, ClientsMessage, ZenonT(40)
      <3>4. Len(z.rcv) = 1 + 1
        BY <3>2, <3>3
      <3>5. Len(z.rcv) = 1
        BY <2>1, <1>4
      <3> QED
        BY <3>4, <3>5
    <2> QED
      BY <2>3, <1>4, RelayNetAssumption DEF Conns
  <1>15. CtrlsOK(q2, 0)
    <2>1. ASSUME NEW j \in Ctrls, ~On(q2.cache, j), j # i
          PROVE  ~On(q.cache, j) /\ q2.ctrl[j] = q.ctrl[j]
      BY <2>1, <1>4 DEF Served
    <2>2. CtrlOK(c, q2.conn[c], q2.ctrl[i], FALSE)
      BY <1>4, <1>14 DEF CtrlOK, NoBody
    <2>3. ASSUME NEW j \in Ctrls, ~On(q2.cache, j)
          PROVE  CtrlOK(q2.ctrl[j].s, q2.conn[q2.ctrl[j].s], q2.ctrl[j], 0 = j)
      <3>1. CASE j = i
        BY <3>1, <2>2, <1>4, <1>7
      <3>2. CASE j # i
        <4>1. CtrlOK(q.ctrl[j].s, q.conn[q.ctrl[j].s], q.ctrl[j], 0 = j)
          BY <2>1, <2>3, <3>2, <1>9 DEF CtrlsOK
        <4> QED
          BY <4>1, <2>1, <2>3, <3>2, <1>4
      <3> QED
        BY <3>1, <3>2
    <2> QED
      BY <2>3 DEF CtrlsOK
  <1>16. ASSUME NEW h \in Tickets, Known(q2, handouts, h), ~Known(q, handouts, h)
         PROVE  h.sid \in Given(p) /\ h.by = c /\ h.n = n
    <2>1. Owed(q2, h) /\ ~Owed(q, h)
      BY <1>4, <1>16 DEF Known
    <2>a. PICK j \in Ctrls :
            \E m : ~On(q2.cache, j) /\ Owes(q2.ctrl[j], m) /\ Offers(m, q2.ctrl[j].s, h)
      BY <2>1 DEF Owed
    <2>2. PICK m : ~On(q2.cache, j) /\ Owes(q2.ctrl[j], m) /\ Offers(m, q2.ctrl[j].s, h)
      BY <2>a
    <2>3. j = i
      <3>1. CASE j # i
        <4>1. ~On(q.cache, j) /\ q2.ctrl[j] = q.ctrl[j]
          BY <2>2, <3>1, <1>4 DEF Served
        <4> QED
          BY <4>1, <2>1, <2>2 DEF Owed
      <3> QED
        BY <3>1
    <2>4. m = Reply(n, Given(p))
      BY <2>1, <2>2, <2>3, <1>3, <1>4 DEF Owed, OwesMore
    <2>5. m.sids = Given(p) /\ m.n = n
      BY <2>4 DEF Reply, Item
    <2> QED
      BY <2>2, <2>3, <2>5, <1>4 DEF Offers
  <1>17. ASSUME NoneLate(p2.conn), NoneAgain(p2.conn)
         PROVE  Meets(p2) /\ PromisesOK(p2, q2, handouts)
    <2>1. Meets(p) /\ PromisesOK(p, q, handouts)
      BY <1>8, <1>12, <1>17 DEF Facts, Once
    <2>2. ASSUME NEW h \in Tickets, Known(q2, handouts, h)
          PROVE  Promise(p2, h)
      <3>1. CASE Known(q, handouts, h)
        BY <3>1, <2>1, <1>13 DEF PromisesOK
      <3>2. CASE ~Known(q, handouts, h)
        <4>1. h.sid \in Given(p) /\ h.by = c /\ h.n = n
          BY <2>2, <3>2, <1>16
        <4>2. Newly(p, p2, h.sid, ask)
          BY <4>1, <1>5, <1>11, PeersAre
        <4> QED
          BY <4>1, <4>2, <1>10 DEF Newly, Promise
      <3> QED
        BY <3>1, <3>2
    <2> QED
      BY <2>1, <2>2, <1>12, <1>13 DEF Meets, PromisesOK
  <1>18. InTime(p2, batch')
    BY <1>6, <1>8, <1>12, <1>13 DEF Facts, InTime, PendingOK
  <1>19. Facts(p2, q2, handouts', batch', 0)
    BY <1>6, <1>9, <1>12, <1>13, <1>15, <1>17, <1>18 DEF Facts, Basics, Once
  <1> QED
    BY <1>2, <1>7, <1>19, SessionsNext

-----------------------------------------------------------------------------
\* A start message.

\* A connection in which only late may have changed.
Alike(w, v) ==
  /\ SameTicket(w, v) /\ w.link = v.link /\ w.end = v.end /\ w.in = v.in
  /\ w.out = v.out /\ w.got = v.got /\ w.said = v.said

\* What niostartrelay leaves of the relays and connections.
LEMMA StartIsAlike ==
  ASSUME NEW p, PoolOK(p), NEW sid \in p.hash, NEW c \in Conns,
         ~HeldByRelay(p, c), p.conn[c].link = "up",
         NEW q, q = StartRelay(p, sid, c)
  PROVE  /\ \A d \in Conns : Alike(q.conn[d], p.conn[d])
         /\ \A d \in Conns : d # c => q.conn[d] = p.conn[d]
         /\ q.conn[c].late = p.relay[sid].over
         /\ q.hash = p.hash \ {sid}
         /\ \A x \in Sids : x # sid => q.relay[x] = p.relay[x]
         /\ \A x \in Sids : /\ q.relay[x].peer = p.relay[x].peer
                            /\ q.relay[x].ask = p.relay[x].ask
                            /\ SameBuffer(q.relay[x], p.relay[x])
         /\ q.relay[sid].status = "active" /\ q.relay[sid].s = c
         /\ sid \in Sids /\ p.relay[sid].status = "wait" /\ p.relay[sid].s = None
  <1>1. sid \in Sids
    BY DEF PoolOK, Pools
  <1>2. p.relay[sid].status = "wait"
    BY <1>1 DEF PoolOK
  <1>3. p.relay[sid].s = None
    BY <1>1, <1>2 DEF PoolOK
  <1>4. /\ \A d \in Conns : d # c => q.conn[d] = p.conn[d]
        /\ q.conn[c].late = p.relay[sid].over
        /\ q.hash = p.hash \ {sid}
        /\ \A x \in Sids : x # sid => q.relay[x] = p.relay[x]
        /\ q.relay[sid].status = "active" /\ q.relay[sid].s = c
        /\ q.relay[sid].peer = p.relay[sid].peer /\ q.relay[sid].ask = p.relay[sid].ask
        /\ SameBuffer(q.relay[sid], p.relay[sid])
    BY StartRelayKeeps
  <1>5. Alike(q.conn[c], p.conn[c])
    BY StartRelayKeeps DEF Alike, SameTicket
  <1>6. \A d \in Conns : Alike(q.conn[d], p.conn[d])
    BY <1>4, <1>5 DEF Alike, SameTicket
  <1>7. \A x \in Sids : /\ q.relay[x].peer = p.relay[x].peer
                        /\ q.relay[x].ask = p.relay[x].ask
                        /\ SameBuffer(q.relay[x], p.relay[x])
    BY <1>4 DEF SameBuffer
  <1> QED
    BY <1>1, <1>2, <1>3, <1>4, <1>6, <1>7

LEMMA NothingUnwritten ==
  ASSUME NEW p, PoolOK(p), RelaysOK(p), NEW r \in Sids, p.relay[r].s = None
  PROVE  Unwritten(p.relay[r]) = <<>>
  <1>1. p.relay[r].buf = <<>> /\ p.relay[r].x2 = 0 /\ p.relay[r] \in RelayRecs
    BY RelayField DEF RelaysOK
  <1>2. Len(p.relay[r].buf) = 0
    BY <1>1, EmptySeq
  <1>3. Unwritten(p.relay[r]) \in Seq(Items) /\ Len(Unwritten(p.relay[r])) = 0
    BY <1>1, <1>2, UnwrittenIs
  <1> QED
    BY <1>3, EmptySeq

\* The client of the connection w comes with its sid, has sent the start message
\* and has been told nothing.
Comes(c, w, sid) ==
  c \in Clients /\ w.said >= 3 /\ w.sid = sid /\ Told(w) = <<>> /\ w.in = SentOf(c, w)

LEMMA StartRelays ==
  ASSUME NEW p, PoolOK(p), RelaysOK(p), NEW sid \in p.hash, NEW c \in Conns,
         ~HeldByRelay(p, c), p.conn[c].link = "up", Comes(c, p.conn[c], sid),
         NEW q, q = StartRelay(p, sid, c)
  PROVE  /\ RelaysOK(q)
         /\ Relaying(p) /\ ~p.relay[sid].over => Relaying(q)
         /\ GrantedOK(p) /\ p.relay[sid].ask = [by |-> p.conn[c].by, n |-> p.conn[c].n]
              => GrantedOK(q)
         /\ DeliveredOK(p.conn) => DeliveredOK(q.conn)
         /\ \A h \in Tickets : Promise(p, h) => Promise(q, h)
  <1>1. /\ \A d \in Conns : Alike(q.conn[d], p.conn[d])
        /\ \A d \in Conns : d # c => q.conn[d] = p.conn[d]
        /\ q.hash = p.hash \ {sid}
        /\ \A x \in Sids : x # sid => q.relay[x] = p.relay[x]
        /\ \A x \in Sids : /\ q.relay[x].peer = p.relay[x].peer
                           /\ q.relay[x].ask = p.relay[x].ask
                           /\ SameBuffer(q.relay[x], p.relay[x])
        /\ q.relay[sid].status = "active" /\ q.relay[sid].s = c
        /\ sid \in Sids /\ p.relay[sid].status = "wait" /\ p.relay[sid].s = None
    BY StartIsAlike
  <1>2. \A r \in Sids : p.relay[r].s # c
    BY DEF HeldByRelay
  <1>3. c \in Clients /\ c # None /\ \A d \in Clients : d \in Conns
    BY RelayNetAssumption DEF Comes, Conns
  <1>4. RelaysOK(q)
    <2>1. ASSUME NEW r \in Sids, r # sid
          PROVE  /\ q.relay[r].s = None => q.relay[r].buf = <<>> /\ q.relay[r].x2 = 0
                 /\ q.relay[r].s # None => q.relay[r].s \in Clients /\ q.conn[q.relay[r].s].said >= 3
      BY <2>1, <1>1, <1>3, SMTT(30) DEF RelaysOK, Alike
    <2>2. q.conn[c].said >= 3
      BY <1>1 DEF Comes, Alike
    <2> QED
      BY <2>1, <2>2, <1>1, <1>3 DEF RelaysOK
  <1>5. \A d \in Conns : /\ Told(q.conn[d]) = Told(p.conn[d]) /\ q.conn[d].in = p.conn[d].in
                         /\ q.conn[d].sid = p.conn[d].sid /\ q.conn[d].said = p.conn[d].said
                         /\ q.conn[d].by = p.conn[d].by /\ q.conn[d].n = p.conn[d].n
                         /\ q.conn[d].link = p.conn[d].link /\ q.conn[d].end = p.conn[d].end
    BY <1>1 DEF Alike, SameTicket, Told
  <1>6. ASSUME Relaying(p), ~p.relay[sid].over
        PROVE  Relaying(q)
    <2>1. ASSUME NEW r \in Sids, Live(q, r)
          PROVE  Live(p, r)
      BY <2>1, <1>1, <1>6 DEF Live
    <2>2. ASSUME NEW r \in Sids, Live(p, r)
          PROVE  p.relay[r].peer \in Sids /\ Linked(p, r, p.relay[r].peer)
      BY <2>2, <1>6, RelayField DEF Relaying, PairsOK
    <2>3. ASSUME NEW r \in Sids, Live(q, r)
          PROVE  Linked(q, r, q.relay[r].peer)
      <3>1. PICK x \in Sids : x = p.relay[r].peer
        BY RelayField
      <3>2. Linked(p, r, x)
        BY <2>1, <2>2, <2>3, <3>1
      <3>3. q.relay[x].status = "active" \/ x \in q.hash
        BY <3>2, <1>1 DEF Linked
      <3>4. x # r /\ q.relay[x].peer = r /\ q.relay[x].ask = q.relay[r].ask
        BY <3>2, <1>1 DEF Linked
      <3> QED
        BY <3>1, <3>3, <3>4, <1>1 DEF Linked
    <2>4. ASSUME NEW r \in Sids
          PROVE  Flows(q, r)
      <3>1. PICK x \in Sids : x = p.relay[r].peer
        BY RelayField
      <3>2. q.relay[r].peer = x /\ Unwritten(q.relay[r]) = Unwritten(p.relay[r])
        BY <3>1, <1>1, SameUnwritten
      <3>3. CASE q.relay[r].s = None
        BY <3>3 DEF Flows
      <3>4. CASE q.relay[r].s # None /\ r # sid
        <4>1. PICK f \in Conns : f = p.relay[r].s
          BY <3>4, <1>1, RelayField
        <4>2. q.relay[r].s = f /\ f # None
          BY <3>4, <4>1, <1>1
        <4>3. SentOf(f, q.conn[f]) = SentOf(f, p.conn[f]) /\ Carried(q, r) = Carried(p, r)
          <5>1. SentOf(f, q.conn[f]) = SentOf(f, p.conn[f])
            BY <1>5, SameSent
          <5>2. q.conn[f].in = p.conn[f].in
            BY <1>5
          <5>3. Carried(q, r) = Carried(p, r)
            BY <3>2, <4>1, <4>2, <5>2 DEF Carried
          <5> QED
            BY <5>1, <5>3
        <4>4. Flows(p, r)
          BY <1>6 DEF Relaying
        <4>5. CASE x # sid
          <5>1. PICK d : d = p.relay[x].s /\ d = q.relay[x].s
            BY <4>5, <1>1
          <5>2. d # None => d \in Conns
            BY <5>1, RelayField
          <5>3. /\ d = None => Told(p.conn[f]) = <<>> /\ Carried(p, r) = SentOf(f, p.conn[f])
                /\ d # None /\ p.conn[d].end = "open" =>
                     Told(p.conn[d]) \o Carried(p, r) = SentOf(f, p.conn[f])
            BY <3>1, <4>1, <4>2, <4>4, <5>1 DEF Flows
          <5>4. Told(q.conn[f]) = Told(p.conn[f])
            BY <1>5
          <5>5. d # None => Told(q.conn[d]) = Told(p.conn[d]) /\ q.conn[d].end = p.conn[d].end
            BY <5>2, <1>5
          <5>6. /\ d = None => Told(q.conn[f]) = <<>> /\ Carried(q, r) = SentOf(f, q.conn[f])
                /\ d # None /\ q.conn[d].end = "open" =>
                     Told(q.conn[d]) \o Carried(q, r) = SentOf(f, q.conn[f])
            BY <4>3, <5>3, <5>4, <5>5
          <5> QED
            BY <3>2, <4>2, <5>1, <5>6 DEF Flows
        <4>6. CASE x = sid
          <5>1. Carried(p, r) = SentOf(f, p.conn[f])
            BY <3>1, <4>1, <4>2, <4>4, <4>6, <1>1 DEF Flows
          <5>2. PICK s \in Seq(Items) : s = Carried(p, r)
            BY <4>1, <4>2, CarriedIs
          <5>3. <<>> \o s = s
            BY NothingBefore
          <5>4. Told(q.conn[c]) \o Carried(q, r) = SentOf(f, q.conn[f])
            BY <4>3, <5>1, <5>2, <5>3, <1>5 DEF Comes
          <5> QED
            BY <3>2, <4>2, <4>6, <5>4, <1>1, <1>3 DEF Flows
        <4> QED
          BY <4>5, <4>6
      <3>5. CASE r = sid
        <4>1. Live(p, sid)
          BY <1>6 DEF Live
        <4>2. Linked(p, sid, x)
          BY <3>1, <3>5, <4>1, <2>2
        <4>3. PICK d : d = p.relay[x].s
          OBVIOUS
        <4>4. q.relay[x].s = d /\ p.relay[x].peer = sid
          BY <3>5, <4>2, <4>3, <1>1 DEF Linked
        <4>5. PICK s \in Seq(Items) : s = p.conn[c].in
          <5>1. p.conn \in [Conns -> ConnRecs]
            BY DEF PoolOK, Pools
          <5> QED
            BY <5>1, ConnField
        <4>6. Carried(q, sid) = SentOf(c, q.conn[c])
          <5>1. Unwritten(p.relay[sid]) = <<>>
            BY <1>1, NothingUnwritten
          <5>2. SentOf(c, q.conn[c]) = SentOf(c, p.conn[c])
            BY <1>5, SameSent
          <5>3. <<>> \o s = s
            BY NothingBefore
          <5>4. Carried(q, sid) = <<>> \o s
            BY <3>2, <3>5, <4>5, <5>1, <1>1, <1>5, ZenonT(40) DEF Carried
          <5> QED
            BY <4>5, <5>2, <5>3, <5>4 DEF Comes
        <4>7. Told(q.conn[c]) = <<>>
          BY <1>5 DEF Comes
        <4>8. ASSUME d # None
              PROVE  Told(q.conn[d]) \o Carried(q, sid) = SentOf(c, q.conn[c])
          <5>1. Flows(p, x)
            BY <1>6 DEF Relaying
          <5>2. Told(p.conn[d]) = <<>>
            BY <4>3, <4>4, <4>8, <5>1, <1>1 DEF Flows
          <5>3. d \in Conns
            BY <4>3, <4>8, RelayField
          <5>4. Told(q.conn[d]) = <<>>
            BY <5>2, <5>3, <1>5
          <5>5. SentOf(c, q.conn[c]) = s
            BY <4>5, <1>5, SameSent DEF Comes
          <5>6. <<>> \o s = s
            BY NothingBefore
          <5> QED
            BY <4>6, <5>4, <5>5, <5>6
        <4> QED
          BY <3>2, <3>5, <4>4, <4>6, <4>7, <4>8, <1>1 DEF Flows
      <3> QED
        BY <3>3, <3>4, <3>5
    <2> QED
      BY <2>3, <2>4 DEF Relaying, PairsOK
  <1>7. ASSUME GrantedOK(p), p.relay[sid].ask = [by |-> p.conn[c].by, n |-> p.conn[c].n]
        PROVE  GrantedOK(q)
    <2>1. q.conn[c].sid = sid /\ q.conn[c].by = q.relay[sid].ask.by /\ q.conn[c].n = q.relay[sid].ask.n
      BY <1>1, <1>5, <1>7 DEF Comes
    <2>2. ASSUME NEW r \in Sids, r # sid, q.relay[r].s # None
          PROVE  /\ q.conn[q.relay[r].s].sid = r
                 /\ q.conn[q.relay[r].s].by = q.relay[r].ask.by
                 /\ q.conn[q.relay[r].s].n = q.relay[r].ask.n
      <3>1. PICK d \in Conns : d = p.relay[r].s /\ d = q.relay[r].s /\ d # None
        BY <2>2, <1>1, RelayField
      <3>2. p.conn[d].sid = r /\ p.conn[d].by = p.relay[r].ask.by /\ p.conn[d].n = p.relay[r].ask.n
        BY <3>1, <1>7 DEF GrantedOK
      <3> QED
        BY <3>1, <3>2, <2>2, <1>1, <1>5, SMTT(30)
    <2> QED
      BY <2>1, <2>2, <1>1 DEF GrantedOK
  <1>8. ASSUME DeliveredOK(p.conn)
        PROVE  DeliveredOK(q.conn)
    <2>1. ASSUME NEW d \in Clients, Told(q.conn[d]) # <<>>
          PROVE  \E e \in Clients : FromPartner(q.conn, d, e)
      BY <2>1, <1>3, <1>5, <1>8, DeliveredOn
    <2> QED
      BY <2>1 DEF DeliveredOK
  <1>9. ASSUME NEW h \in Tickets, Promise(p, h)
        PROVE  Promise(q, h)
    <2>1. h.sid \in Sids
      BY DEF Tickets
    <2>2. p.relay[h.sid].status # "idle" =>
            q.relay[h.sid].status # "idle" /\ q.relay[h.sid].ask = p.relay[h.sid].ask
      BY <2>1, <1>1
    <2> QED
      BY <2>2, <1>3, <1>5, <1>9 DEF Promise, HasTicket
  <1> QED
    BY <1>4, <1>6, <1>7, <1>8, <1>9

\* niostartrelay for a client, or nioshutctrl.
LEMMA StartSessions ==
  ASSUME Sessions, StartSession, NioInv'
  PROVE  Sessions'
  <1>1. NioInv
    BY DEF Sessions
  <1>2. PICK p, q, p2, q2 : p = Pool /\ q = Controls /\ p2 = Pool' /\ q2 = Controls'
    OBVIOUS
  <1>3. PICK i, c : i = Head(q.list) /\ c = q.ctrl[i].s
    OBVIOUS
  <1>4. PICK sid : sid = CHOOSE s \in q.ctrl[i].rcv[2].sids : TRUE
    OBVIOUS
  <1>5. /\ i \in Ctrls /\ ~On(q.cache, i) /\ c \in Conns
        /\ Complete(q.ctrl[i].rcv) /\ Len(q.ctrl[i].rcv) = 2
        /\ Started(p, q, p2, q2, i, c, sid) \/ Refused(p, q, p2, q2, i, c)
    BY <1>1, <1>2, <1>3, <1>4, StartIs
  <1>6. PoolOK(p) /\ ControlsOK(q) /\ OneOwner(p, q) /\ q.conn = p.conn
    BY <1>1, <1>2, HeldTypes
  <1>7. pc = "batch" /\ pc' = "batch" /\ batch = {} /\ batch' = {} /\ handouts' = handouts
    BY DEF StartSession, Between, loopVars
  <1>8. Waited = 0 /\ Waited' = 0 /\ i # 0
    BY <1>5, <1>7 DEF Waited, Ctrls
  <1>9. Facts(p, q, handouts, batch, 0)
    BY <1>2, <1>8 DEF Sessions
  <1>10. ConnsOK(p.conn) /\ CtrlsOK(q, 0) /\ RelaysOK(p)
    BY <1>9 DEF Facts, Basics
  <1>11. PICK w \in ConnRecs, z \in CtrlRecs : w = q.conn[c] /\ z = q.ctrl[i]
    BY <1>5, <1>6, ControlsTypes
  <1>12. w.link = "up"
    BY <1>3, <1>5, <1>6, <1>11, CtrlField
  <1>13. CtrlOK(c, w, z, FALSE) /\ ProgramOK(c, w)
    <2>1. CtrlOK(q.ctrl[i].s, q.conn[q.ctrl[i].s], q.ctrl[i], 0 = i)
      BY <1>5, <1>10 DEF CtrlsOK
    <2> QED
      BY <2>1, <1>3, <1>5, <1>6, <1>8, <1>10, <1>11 DEF ConnsOK
  <1>14. /\ z.rcv \in Seq(Items) /\ z.rcv # <<>> /\ Len(z.rcv) = 2 /\ Len(z.rcv) = 1 + z.rcv[1].n
         /\ w.in \in Seq(Items)
    BY <1>5, <1>11 DEF Complete, CtrlRecs, ConnRecs
  <1>15. c \in Clients /\ c \notin Controllers
    <2>1. ASSUME c \in Controllers
          PROVE  FALSE
      <3>1. z.rcv[1].n = 0
        BY <2>1, <1>13, <1>14 DEF CtrlOK, NoBody
      <3>2. Len(z.rcv) = 1 + 0
        BY <3>1, <1>14
      <3>3. Len(z.rcv) = 2
        BY <1>14
      <3> QED
        BY ONLY <3>2, <3>3
    <2> QED
      BY <2>1, <1>5 DEF Conns
  <1>16. /\ w.said <= 3 + Bytes[c] /\ w.by \in Conns /\ Quiet(w) /\ z.rcv \o w.in = From(c, w, 2)
    BY <1>12, <1>13, <1>15 DEF ProgramOK, CtrlOK
  <1>17. w.said >= 3 /\ z.rcv[2].sids = {w.sid} /\ w.in = SentOf(c, w)
    BY <1>14, <1>15, <1>16, ClientsMessage
  <1>18. sid = w.sid
    <2>1. sid = CHOOSE s \in {w.sid} : TRUE
      BY <1>4, <1>11, <1>17
    <2> QED
      BY <2>1
  <1>19. CASE Refused(p, q, p2, q2, i, c)
    <2>1. p2 = PoolWith(p, q2.conn) /\ Served(q, q2, i, c) /\ ClosedBy(q, q2, i, c)
      BY <1>19 DEF Refused
    <2>2. relay' = relay /\ wpeers' = wpeers
      BY <2>1, <1>2 DEF Pool, PoolWith
    <2>3. On(q2.cache, i) /\ Closed(q2.conn[c], w)
      BY <2>1, <1>11 DEF ClosedBy
    <2>4. Change(c, q.conn[c], q2.conn[c], FALSE)
      BY <2>3, <1>5, <1>11, <1>12, <1>13, ClosedChange
    <2>5. Controlled(q, q2, i, c, 0)
      BY <2>3, <1>15 DEF Controlled
    <2>6. Beside(q, q2, i, c)
      BY <2>1 DEF Served, Beside
    <2>7. batch' \subseteq batch
      BY <1>7
    <2> QED
      BY <2>2, <2>4, <2>5, <2>6, <2>7, <1>2, <1>3, <1>5, <1>7, <1>8, CtrlStep
  <1>20. CASE Started(p, q, p2, q2, i, c, sid)
    <2>1. /\ sid \in p.hash /\ p2 = StartRelay(p, sid, c)
          /\ PoolOK(p2) /\ ControlsOK(q2) /\ q2.conn = p2.conn
          /\ On(q2.cache, i)
          /\ \A j \in Ctrls : j # i => q2.ctrl[j] = q.ctrl[j] /\ (On(q2.cache, j) <=> On(q.cache, j))
      BY <1>20 DEF Started, Freed
    <2>2. ~HeldByRelay(p, c) /\ p.conn[c] = w
      BY <1>3, <1>5, <1>6, <1>11 DEF OneOwner, HeldByCtrl
    <2>3. Comes(c, p.conn[c], sid)
      <3>1. Told(w) = <<>>
        BY <1>16, EmptySeq, NothingBehind DEF Quiet, Told
      <3> QED
        BY <3>1, <2>2, <1>15, <1>17, <1>18 DEF Comes
    <2>4. /\ RelaysOK(p2)
          /\ Relaying(p) /\ ~p.relay[sid].over => Relaying(p2)
          /\ GrantedOK(p) /\ p.relay[sid].ask = [by |-> p.conn[c].by, n |-> p.conn[c].n]
               => GrantedOK(p2)
          /\ DeliveredOK(p.conn) => DeliveredOK(p2.conn)
      BY <2>1, <2>2, <2>3, <1>5, <1>6, <1>10, <1>12, StartRelays
    <2>a. \A h \in Tickets : Promise(p, h) => Promise(p2, h)
      BY <2>1, <2>2, <2>3, <1>5, <1>6, <1>10, <1>12, StartRelays, Zenon
    <2>5. /\ \A d \in Conns : Alike(p2.conn[d], p.conn[d])
          /\ \A d \in Conns : d # c => p2.conn[d] = p.conn[d]
          /\ p2.conn[c].late = p.relay[sid].over
      BY <2>1, <2>2, <1>5, <1>6, <1>12, StartIsAlike
    <2>6. \A d \in Clients : d \in Conns
      BY DEF Conns
    <2>7. ConnsOK(p2.conn)
      <3>1. ProgramOK(c, p2.conn[c])
        <4>1. p2.conn[c].said = w.said /\ p2.conn[c].link = "up" /\ p2.conn[c].by = w.by
          BY <2>2, <2>5, <1>5, <1>12 DEF Alike, SameTicket
        <4> QED
          BY <4>1, <1>15, <1>16 DEF ProgramOK
      <3> QED
        BY <3>1, <2>5, <1>10 DEF ConnsOK
    <2>8. CtrlsOK(q2, 0)
      <3>1. ASSUME NEW j \in Ctrls, ~On(q2.cache, j)
            PROVE  CtrlOK(q2.ctrl[j].s, q2.conn[q2.ctrl[j].s], q2.ctrl[j], 0 = j)
        <4>1. j # i /\ ~On(q.cache, j) /\ q2.ctrl[j] = q.ctrl[j]
          BY <2>1, <3>1
        <4>2. q.ctrl[j].s # c /\ q.ctrl[j].s \in Conns
          <5>1. q.ctrl[j].s # c
            BY <4>1, <1>3, <1>5, <1>6 DEF ControlsOK
          <5> QED
            BY <5>1, <4>1, <1>6, CtrlField
        <4>3. q2.conn[q.ctrl[j].s] = q.conn[q.ctrl[j].s]
          BY <4>2, <2>1, <2>5, <1>6
        <4>4. CtrlOK(q.ctrl[j].s, q.conn[q.ctrl[j].s], q.ctrl[j], 0 = j)
          BY <4>1, <1>10 DEF CtrlsOK
        <4> QED
          BY <4>1, <4>3, <4>4
      <3> QED
        BY <3>1 DEF CtrlsOK
    <2>9. ASSUME NoneLate(p2.conn)
          PROVE  NoneLate(p.conn) /\ ~p.relay[sid].over
      <3>1. \A d \in Clients : d # c => p2.conn[d] = p.conn[d]
        BY <2>5, <2>6
      <3>2. ~p.conn[c].late
        BY <2>2, <1>16 DEF Quiet
      <3> QED
        BY <3>1, <3>2, <2>5, <2>9, <1>15 DEF NoneLate
    <2>10. NoneAgain(p2.conn) => NoneAgain(p.conn)
      <3>1. \A d \in Clients : /\ p2.conn[d].by = p.conn[d].by /\ p2.conn[d].n = p.conn[d].n
                               /\ p2.conn[d].sid = p.conn[d].sid
        BY <2>5, <2>6 DEF Alike, SameTicket
      <3> QED
        BY <3>1 DEF NoneAgain
    <2>11. InTime(p2, batch')
      BY <2>4, <2>9, <1>7, <1>9 DEF Facts, InTime, PendingOK
    <2>12. ASSUME NEW h \in Tickets, Known(q2, handouts, h)
           PROVE  Known(q, handouts, h)
      <3>1. WrittenWasOwed(q, q2, c)
        BY <1>15 DEF WrittenWasOwed
      <3>2. NoMoreOwed(q, q2)
        BY <2>1 DEF NoMoreOwed
      <3>3. WasHere(q.conn[c], q2.conn[c])
        BY <2>1, <2>5, <1>5, <1>6 DEF WasHere, Alike
      <3>4. \A d \in Conns : d # c => q2.conn[d] = q.conn[d]
        BY <2>1, <2>5, <1>6
      <3> QED
        BY <3>1, <3>2, <3>3, <3>4, <2>12, <1>5, KnownOn
    <2>13. ASSUME NoneLate(p2.conn), NoneAgain(p2.conn)
           PROVE  Meets(p2) /\ PromisesOK(p2, q2, handouts)
      <3>1. NoneAgain(p.conn) /\ Meets(p) /\ PromisesOK(p, q, handouts)
        BY <2>9, <2>10, <2>13, <1>9 DEF Facts, Once
      <3>2. PICK h \in Tickets : h.sid = sid /\ h.by = w.by /\ h.n = w.n
        <4>1. sid \in Sids /\ w.by \in Conns /\ w.n \in Nat
          BY <1>16, <1>18 DEF ConnRecs
        <4>2. [sid |-> sid, by |-> w.by, n |-> w.n] \in Tickets
          BY <4>1 DEF Tickets
        <4> QED
          BY <4>2
      <3>3. Promise(p, h)
        <4>1. Brought(q.conn, h)
          BY <3>2, <1>11, <1>12, <1>15, <1>18 DEF Brought, HasTicket
        <4> QED
          BY <4>1, <3>1 DEF PromisesOK, Known
      <3>4. ASSUME NEW d \in Clients, p.conn[d].link = "closed", HasTicket(p.conn[d], h)
            PROVE  FALSE
        <4>1. d # c
          BY <3>4, <2>2, <1>12
        <4>2. /\ p.conn[d].by = p.conn[c].by /\ p.conn[d].n = p.conn[c].n
              /\ p.conn[d].sid = p.conn[c].sid
          BY <3>2, <3>4, <2>2, <1>18 DEF HasTicket
        <4>3. p.conn[d].by # None
          BY <4>2, <2>2, <1>16, RelayNetAssumption
        <4> QED
          BY <4>1, <4>2, <4>3, <3>1, <1>15 DEF NoneAgain
      <3>5. p.relay[sid].ask = [by |-> w.by, n |-> w.n]
        BY <3>2, <3>3, <3>4 DEF Promise
      <3>6. Meets(p2)
        BY <3>1, <3>5, <2>2, <2>4 DEF Meets
      <3> QED
        BY <3>1, <3>6, <2>a, <2>12 DEF PromisesOK
    <2>14. Facts(p2, q2, handouts', batch', 0)
      BY <2>4, <2>7, <2>8, <2>11, <2>13, <1>7 DEF Facts, Basics, Once
    <2> QED
      BY <2>14, <1>2, <1>8, SessionsNext
  <1> QED
    BY <1>5, <1>19, <1>20

-----------------------------------------------------------------------------
\* The invariant, and what it means for the programs.

LEMMA QuietSessions ==
  ASSUME Sessions, NioInv'
  PROVE  /\ Again => Sessions'
         /\ \A e \in batch : AcceptFails(e) \/ StaleOut(e) => Sessions'
         /\ UNCHANGED vars => Sessions'
  <1>1. ASSUME Again
        PROVE  Sessions'
    <2>1. /\ Pool' = Pool /\ Controls' = Controls /\ handouts' = handouts /\ Waited' = Waited
          /\ batch' \subseteq batch
      BY <1>1 DEF Again, Between, netVars, relayVars, ctrlVars, Pool, Controls, Waited
    <2> QED
      BY <2>1, StillSteps
  <1>2. ASSUME NEW e \in batch, AcceptFails(e) \/ StaleOut(e)
        PROVE  Sessions'
    <2>1. /\ Pool' = Pool /\ Controls' = Controls /\ handouts' = handouts /\ batch' \subseteq batch
      BY <1>2 DEF AcceptFails, StaleOut, Handle, netVars, relayVars, ctrlVars, Pool, Controls
    <2>2. pc = "batch" /\ pc' \in {"batch", "dead"}
      BY <1>2 DEF AcceptFails, StaleOut, Handle
    <2>3. Waited' = Waited
      BY <2>2 DEF Waited
    <2> QED
      BY <2>1, <2>3, StillSteps
  <1>3. ASSUME UNCHANGED vars
        PROVE  Sessions'
    <2>1. /\ Pool' = Pool /\ Controls' = Controls /\ handouts' = handouts /\ Waited' = Waited
          /\ batch' \subseteq batch
      BY <1>3 DEF vars, netVars, relayVars, ctrlVars, loopVars, Pool, Controls, Waited
    <2> QED
      BY <2>1, StillSteps
  <1> QED
    BY <1>1, <1>2, <1>3

LEMMA StepSessions ==
  ASSUME Sessions, [Next]_vars
  PROVE  Sessions'
  <1>1. NioInv'
    BY StepHolds DEF Sessions
  <1>2. CASE UNCHANGED vars
    BY <1>1, <1>2, QuietSessions
  <1>3. CASE NioStep
    <2>1. CASE Poll \/ FiveBytes \/ AnswerController \/ StartSession \/ Again
      BY <2>1, <1>1, PollSessions, FiveSessions, AnswerSessions, StartSessions, QuietSessions
    <2>2. ASSUME NEW e \in batch,
                 AcceptEvent(e) \/ AcceptFails(e) \/ CtrlEvent(e) \/ RelayEvent(e) \/ StaleOut(e)
          PROVE  Sessions'
      BY <2>2, <1>1, AcceptSessions, CtrlSessions, RelaySessions, QuietSessions
    <2> QED
      BY <2>1, <2>2, <1>3 DEF NioStep
  <1>4. CASE FindIdle
    BY <1>1, <1>4, FindIdleSessions
  <1>5. CASE \E c \in Conns : Program(c) /\ Others
    <2>1. PICK c \in Conns : Program(c) /\ Others
      BY <1>5
    <2> QED
      BY <2>1, <1>1, ConnectSessions, SaySessions, HearSessions, LeaveSessions DEF Program
  <1> QED
    BY <1>2, <1>3, <1>4, <1>5 DEF Next

\* Each client's bytes are where the code keeps them, each relay has its own peer and
\* each ticket its relay, as long as nobody is late and nobody comes again.
THEOREM SessionsInductive == Spec => []Sessions
  BY SessionsInit, StepSessions, PTL DEF Spec

LEMMA SentIsSentOf ==
  ASSUME NEW c \in Clients, NEW k, k = conn
  PROVE  Sent(c) = SentOf(c, k[c])
  <1>1. c \notin Controllers
    BY RelayNetAssumption
  <1>2. Script(c) = ScriptBy(c, k[c].sid)
    BY <1>1 DEF Script, ScriptBy
  <1> QED
    BY <1>2 DEF Sent, SentOf, From

LEMMA ReceivedIsTold ==
  ASSUME NEW c, NEW k, k = conn
  PROVE  Received(c) = Told(k[c])
  BY DEF Received, Told

LEMMA PrefixByRest ==
  ASSUME NEW s \in Seq(Items), s # <<>>, NEW u \in Seq(Items), NEW t, t = s \o u
  PROVE  IsPrefix(s, t)
  <1>1. PICK n \in Nat, m \in Nat : n = Len(s) /\ m = Len(u)
    BY LenProperties
  <1>2. Len(t) = n + m
    BY <1>1, ConcatProperties
  <1>3. 1 \in 1 .. Len(s) /\ n \in 1 .. Len(s)
    BY <1>1, EmptySeq
  <1>4. SubSeq(t, 1, n) = SubSeq(s, 1, n)
    BY <1>3, SubSeqOfConcat1
  <1> QED
    BY <1>1, <1>2, <1>4 DEF IsPrefix

\* While both clients of a session are connected nothing that one has sent is lost in
\* the library, repeated or mixed with something else (NothingLostWhileUp): what the
\* other was told, the relay's buffer and what is still to be read are all of it.
THEOREM NothingEverLost == Spec => []NothingLostWhileUp
  <1>1. ASSUME Sessions
        PROVE  NothingLostWhileUp
    <2>1. PICK q : q = Pool
      OBVIOUS
    <2>2. PoolOK(q) /\ q.conn = conn /\ q.relay = relay /\ conn \in [Conns -> ConnRecs]
      BY <1>1, <2>1, HeldTypes DEF Sessions
    <2>3. RelaysOK(q) /\ (NoneLate(conn) => Relaying(q))
      BY <1>1, <2>1, <2>2 DEF Sessions, Facts, Basics, InTime
    <2>4. ASSUME NobodyLate, NEW r \in Sids, NEW p \in Sids, Paired(r, p),
                 conn[relay[p].s].end = "open"
          PROVE  Received(relay[p].s) \o Unwritten(relay[r]) \o conn[relay[r].s].in = Sent(relay[r].s)
      <3>1. PICK c, d : c = relay[r].s /\ d = relay[p].s
        OBVIOUS
      <3>2. c # None /\ d # None
        BY <2>2, <2>4, <3>1 DEF Paired, PoolOK
      <3>3. c \in Clients /\ d \in Clients /\ d \in Conns
        BY <2>2, <2>3, <3>1, <3>2 DEF RelaysOK, Conns
      <3>4. Flows(q, r)
        BY <2>3, <2>4 DEF NobodyLate, NoneLate, Relaying
      <3>5. Told(conn[d]) \o Carried(q, r) = SentOf(c, conn[c])
        BY <2>2, <2>4, <3>1, <3>2, <3>4 DEF Flows, Paired
      <3>6. PICK t \in Seq(Items) : t = Told(conn[d])
        BY <2>2, <3>3, ToldIs
      <3>7. PICK u \in Seq(Items), s \in Seq(Items) : u = Unwritten(relay[r]) /\ s = conn[c].in
        BY <2>2, <3>1, <3>2, CarriedIs
      <3>8. Carried(q, r) = u \o s
        BY <2>2, <3>1, <3>7 DEF Carried
      <3>9. (t \o u) \o s = t \o (u \o s)
        <4>1. Assoc(t, u, s)
          BY AssocItems, Zenon
        <4> QED
          BY <4>1, Zenon DEF Assoc
      <3>10. Received(d) = t /\ Sent(c) = SentOf(c, conn[c])
        BY <3>3, <3>6, ReceivedIsTold, SentIsSentOf
      <3> QED
        BY <3>1, <3>5, <3>6, <3>7, <3>8, <3>9, <3>10
    <2> QED
      BY <2>4 DEF NothingLostWhileUp
  <1> QED
    BY <1>1, SessionsInductive, PTL

\* What a client receives is a prefix of what the other client of its session sent, as
\* long as nobody is late or comes again (BytesInOrder): no byte is lost, repeated,
\* reordered or delivered to a client of another session.
THEOREM BytesAlwaysInOrder == Spec => []BytesInOrder
  <1>1. ASSUME Sessions
        PROVE  BytesInOrder
    <2>1. PICK q : q = Pool
      OBVIOUS
    <2>2. q.conn = conn /\ conn \in [Conns -> ConnRecs]
      BY <1>1, <2>1, HeldTypes DEF Sessions
    <2>3. ASSUME NobodyLate, NobodyAgain
          PROVE  DeliveredOK(conn)
      <3>1. NoneLate(conn) /\ NoneAgain(conn)
        BY <2>3 DEF NobodyLate, NobodyAgain, NoneLate, NoneAgain, Partners
      <3> QED
        BY <1>1, <2>1, <2>2, <3>1 DEF Sessions, Facts, Once, Meets
    <2>4. ASSUME NobodyLate, NobodyAgain, NEW c \in Clients, Received(c) # <<>>
          PROVE  \E d \in Clients : Partners(c, d) /\ IsPrefix(Received(c), Sent(d))
      <3>1. Received(c) = Told(conn[c])
        BY ReceivedIsTold
      <3>2. PICK d \in Clients : FromPartner(conn, c, d)
        BY <2>3, <2>4, <3>1 DEF DeliveredOK
      <3>3. PICK u \in Seq(Items) : Told(conn[c]) \o u = SentOf(d, conn[d])
        BY <3>2 DEF FromPartner
      <3>4. PICK t \in Seq(Items) : t = Told(conn[c])
        BY <2>2, ToldIs DEF Conns
      <3>5. Sent(d) = t \o u
        BY <3>3, <3>4, SentIsSentOf
      <3>6. IsPrefix(t, Sent(d))
        BY <2>4, <3>1, <3>4, <3>5, PrefixByRest
      <3>7. Partners(c, d)
        BY <3>2 DEF FromPartner, Partners
      <3> QED
        BY <3>1, <3>4, <3>6, <3>7
    <2> QED
      BY <2>4 DEF BytesInOrder
  <1> QED
    BY <1>1, SessionsInductive, PTL

=============================================================================
