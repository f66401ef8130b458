------------------------------ MODULE Sockets ------------------------------
(***************************************************************************)
(* The kernel's side of the TCP connections between the broker daemon      *)
(* (resbd) and the processes that talk to it, and the wire format of       *)
(* libresb.h.  Every peer is one process and opens one connection in its   *)
(* life, so a connection is named by its peer; a restarted rbserver is     *)
(* another member of Servers.                                              *)
(*                                                                         *)
(* nio_readblock and nio_writeblock move whole headers (struct rb_header)  *)
(* and whole bodies, so a stream is a sequence of those.  The daemon binds *)
(* 127.0.0.1, where a reset answers a write before write() returns.        *)
(***************************************************************************)
EXTENDS Integers, Sequences, FiniteSets

CONSTANTS Servers,   \* rbserver processes
          Clients,   \* processes that call rb_broker_status or rb_broker_params
          MaxFd,     \* descriptors the daemon may hold for accepted connections
          NoPeer     \* what a free descriptor holds

Peers == Servers \cup Clients
Fd == 1 .. MaxFd

ASSUME SocketsAssumption ==
  /\ Servers \cap Clients = {}
  /\ NoPeer \notin Peers
  /\ MaxFd \in Nat \ {0}

VARIABLES listening,  \* the listening socket is open
          fds,        \* the daemon's descriptor table: Fd -> the peer at the other end
          link,       \* the daemon's end of a connection
          end,        \* the peer's end of it, as the daemon's kernel knows it
          up,         \* what the peer has written and the daemon has not read
          down        \* what the daemon has written and the peer has not read

netVars == <<listening, fds, link, end, up, down>>

-----------------------------------------------------------------------------
\* The wire format.  The enumerations all start at zero: BROKER_OK, the boot
\* request and the server's reply to it are one and the same number.

BROKER_STATUS == 0
BROKER_QUEUE_STATUS == 1
BROKER_PARAMS == 2
BROKER_SERVER_REGISTER == 3

BROKER_OK == 0

SERVER_BOOT_RESOURCES == 0
SERVER_RESOURCES_OK == 0

\* struct rb_header.  len counts the bytes of the body that follows, and in a
\* boot request the machines wanted; of a body's length only # 0 matters.
Header(op, len) == [t |-> "hdr", op |-> op, len |-> len, what |-> "header", n |-> 0]

\* The text of a body read as a header is no opcode and some length.
NoOpcode == 4

\* A body: what wrote it, and the integer its text starts with.
Body(what, n) == [t |-> "body", op |-> NoOpcode, len |-> 1, what |-> what, n |-> n]

Contents == {"header", "register", "machines", "status", "params"}

Msg == [t : {"hdr", "body"}, op : Nat, len : Nat, what : Contents, n : Nat]

-----------------------------------------------------------------------------
\* The daemon's end.

FreeFds == {f \in Fd : fds[f] = NoPeer}

\* accept() and every open() take the lowest free descriptor.
LowestFd == CHOOSE f \in FreeFds : \A g \in FreeFds : f <= g

Backlog == {p \in Peers : link[p] = "backlog"}

\* nio_readblock when the bytes are there.
Received(p) ==
  /\ up[p] # <<>>
  /\ up' = [up EXCEPT ![p] = Tail(@)]
  /\ UNCHANGED <<listening, fds, link, end, down>>

\* nio_readblock at end of file or on a reset connection: it returns -1, and
\* read() has taken the pending error off the socket.
ReadError(p) ==
  /\ up[p] = <<>>
  /\ end[p] # "open"
  /\ end' = IF end[p] = "rst" THEN [end EXCEPT ![p] = "broken"] ELSE end
  /\ UNCHANGED <<listening, fds, link, up, down>>

\* nio_writeblock.  A write to a peer that is gone succeeds, is lost and is
\* answered by a reset; a write that finds the reset pending fails; the next
\* one raises SIGPIPE, which nothing in the program handles.
Wrote(p, m) ==
  /\ end[p] \in {"open", "fin"}
  /\ down' = IF end[p] = "open" THEN [down EXCEPT ![p] = Append(@, m)] ELSE down
  /\ end' = IF end[p] = "fin" THEN [end EXCEPT ![p] = "broken"] ELSE end

WriteFails(p) == end[p] = "rst"

WriteError(p) ==
  /\ WriteFails(p)
  /\ end' = [end EXCEPT ![p] = "broken"]
  /\ UNCHANGED down

Sigpipe(p) == end[p] = "broken"

\* close(): whatever the daemon had not read is discarded.
Closed(f) ==
  /\ fds' = [fds EXCEPT ![f] = NoPeer]
  /\ link' = [link EXCEPT ![fds[f]] = "closed"]
  /\ up' = [up EXCEPT ![fds[f]] = <<>>]
  /\ UNCHANGED listening

\* The kernel closes every descriptor of a process that dies.
AllClosed ==
  /\ listening' = FALSE
  /\ fds' = [f \in Fd |-> NoPeer]
  /\ link' = [p \in Peers |-> IF link[p] = "none" THEN "none" ELSE "closed"]
  /\ up' = [p \in Peers |-> <<>>]
  /\ UNCHANGED <<end, down>>

-----------------------------------------------------------------------------
\* The peer's end.

\* connect() completes before accept() is called.
PeerConnect(p) ==
  /\ listening
  /\ link' = [link EXCEPT ![p] = "backlog"]
  /\ end' = [end EXCEPT ![p] = "open"]
  /\ UNCHANGED <<listening, fds, up, down>>

\* What is written to a connection the daemon has closed is lost.
PeerWrote(p, m) ==
  /\ up' = IF link[p] = "closed" THEN up ELSE [up EXCEPT ![p] = Append(@, m)]
  /\ UNCHANGED <<listening, fds, link, end, down>>

PeerReceived(p) ==
  /\ down[p] # <<>>
  /\ down' = [down EXCEPT ![p] = Tail(@)]
  /\ UNCHANGED <<listening, fds, link, end, up>>

PeerAtEof(p) == down[p] = <<>> /\ link[p] = "closed"

\* The peer closes with the messages of unread still in its receive buffer: a
\* reset if there are any, else an orderly end of file.
PeerClosed(p, unread) ==
  /\ end' = [end EXCEPT ![p] = IF unread # <<>> THEN "rst" ELSE "fin"]
  /\ down' = [down EXCEPT ![p] = <<>>]
  /\ UNCHANGED <<listening, fds, link, up>>

NetInit ==
  /\ listening = TRUE
  /\ fds = [f \in Fd |-> NoPeer]
  /\ link = [p \in Peers |-> "none"]
  /\ end = [p \in Peers |-> "none"]
  /\ up = [p \in Peers |-> <<>>]
  /\ down = [p \in Peers |-> <<>>]

NetTypeOK ==
  /\ listening \in BOOLEAN
  /\ fds \in [Fd -> Peers \cup {NoPeer}]
  /\ link \in [Peers -> {"none", "backlog", "up", "closed"}]
  /\ end \in [Peers -> {"none", "open", "fin", "rst", "broken"}]
  /\ up \in [Peers -> Seq(Msg)]
  /\ down \in [Peers -> Seq(Msg)]
=============================================================================
