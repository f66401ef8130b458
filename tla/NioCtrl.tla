------------------------------ MODULE NioCtrl -------------------------------
(***************************************************************************)
(* The controls of nio2.c, without TLS: a pool of them, one for each       *)
(* connection that has been accepted and is not a relay.  Operators from   *)
(* one state of the pool to the next, like those of NioRelay.              *)
(***************************************************************************)
EXTENDS RelayNet

CONSTANT MaxCtrl  \* nd->maxctrl

Ctrls == 1 .. MaxCtrl

ASSUME NioCtrlAssumption == MaxCtrl \in Nat \ {0}

VARIABLES ctrl,       \* of each index, a struct nio_ctrl
          ctrlcache,  \* those that are free
          ctrlist     \* those with a message for the daemon

ctrlVars == <<ctrl, ctrlcache, ctrlist>>

\* rcv: what has been read of the message under way.  snd: replies, each with
\* done when its last byte is written.  out: EPOLLOUT is in its events.
NoCtrl == [s |-> None, rcv |-> <<>>, snd |-> <<>>, out |-> FALSE]

CtrlInit ==
  /\ ctrl = [i \in Ctrls |-> NoCtrl]
  /\ ctrlcache = [i \in 1 .. MaxCtrl |-> i]
  /\ ctrlist = <<>>

Controls == [ctrl |-> ctrl, cache |-> ctrlcache, list |-> ctrlist, conn |-> conn]

ControlsBecome(q) ==
  /\ ctrl' = q.ctrl /\ ctrlcache' = q.cache /\ ctrlist' = q.list
  /\ conn' = q.conn

-----------------------------------------------------------------------------
\* nioacceptctrl: without a free control the connection is closed at once.
AcceptCtrl(q, c) ==
  IF q.cache = <<>> THEN [q EXCEPT !.conn = Shut(@, c)]
  ELSE [q EXCEPT !.cache = Tail(@),
                 !.ctrl[Head(q.cache)] = [NoCtrl EXCEPT !.s = c],
                 !.conn[c].link = "up"]

\* read_five_bytes: a relay's client begins with them.
ReadFive(q, c) == [q EXCEPT !.conn[c].in = IF @ = <<>> THEN @ ELSE Tail(@)]

\* Mutant: a control whose connection has gone over to a relay closes it.
ShutCtrl_Always(q, i, shut) ==
  [q EXCEPT !.ctrl[i] = NoCtrl, !.cache = Append(@, i), !.conn = Shut(@, q.ctrl[i].s)]

\* nioshutctrl; with shut = 0 the connection belongs to a relay.
ShutCtrl(q, i, shut) ==
  IF q.ctrl[i].s = None THEN q
  ELSE [q EXCEPT !.ctrl[i] = IF shut THEN NoCtrl ELSE [NoCtrl EXCEPT !.s = q.ctrl[i].s],
                 !.cache = Append(@, i),
                 !.conn = IF shut THEN Shut(@, q.ctrl[i].s) ELSE @]

\* Mutant: the body's length is counted twice.
Complete_Longer(rcv) == rcv # <<>> /\ Len(rcv) = 1 + 2 * rcv[1].n

\* The header says whether a body follows.
Complete(rcv) == rcv # <<>> /\ Len(rcv) = 1 + rcv[1].n

\* Mutant: only a message without a body goes to the daemon.
AsyncRead_HeaderOnly(q, i) ==
  LET c == q.ctrl[i].s
      rcv == Append(q.ctrl[i].rcv, Head(q.conn[c].in))
  IN  IF q.conn[c].in = <<>> THEN ShutCtrl(q, i, TRUE)
      ELSE [q EXCEPT !.ctrl[i].rcv = rcv,
                     !.conn[c].in = Tail(@),
                     !.list = IF rcv[1].n = 0 THEN Append(@, i) ELSE @]

\* nioasyncread: the header, or the rest of the message it announces, and nothing
\* behind it.  What is complete goes to the daemon, which takes it off before the
\* next epoll_wait.
AsyncRead(q, i) ==
  LET c == q.ctrl[i].s
      rcv == Append(q.ctrl[i].rcv, Head(q.conn[c].in))
  IN  IF q.conn[c].in = <<>> THEN ShutCtrl(q, i, TRUE)
      ELSE [q EXCEPT !.ctrl[i].rcv = rcv,
                     !.conn[c].in = Tail(@),
                     !.list = IF Complete(rcv) THEN Append(@, i) ELSE @]

\* niopreparewrite.
PrepareWrite(q, i, reply) ==
  [q EXCEPT !.ctrl[i].out = TRUE,
            !.ctrl[i].snd = Append(@, [reply |-> reply, done |-> FALSE])]

\* nioasyncwrite and what nioepoll makes of its result.  The reply at the back is
\* written and the one at the front is taken off; nothing left of it to write, or
\* nobody to write to, and the control is shut.
AsyncWrite(q, i) ==
  LET snd == q.ctrl[i].snd
      last == snd[Len(snd)]
      rest == Tail([snd EXCEPT ![Len(snd)].done = TRUE])
  IN  IF snd = <<>> \/ last.done \/ q.conn[q.ctrl[i].s].end = "rst"
        THEN ShutCtrl(q, i, TRUE)
      ELSE [q EXCEPT !.conn = Written(@, q.ctrl[i].s, <<last.reply>>),
                     !.ctrl[i].snd = rest,
                     !.ctrl[i].out = rest # <<>>]
=============================================================================
