------------------------------ MODULE RelayNet ------------------------------
(***************************************************************************)
(* What is on the other side of the relay library's sockets: the kernel    *)
(* and two kinds of programs, none of them in the repository.  A           *)
(* controller asks for a pair of relays; a client starts one of them, with *)
(* a sid a controller was given, and sends bytes to the client of the      *)
(* other.  A program opens one connection, which has its name.             *)
(***************************************************************************)
EXTENDS Integers, Sequences, FiniteSets

CONSTANTS Controllers, Clients,
          None,        \* no connection
          Bytes,       \* how many bytes a client may send: Clients -> Nat
          Room,        \* what the kernel holds for a program that does not read
          MaxAsk       \* how often a controller may ask

Conns == Controllers \cup Clients

ASSUME RelayNetAssumption ==
  /\ Controllers \cap Clients = {}
  /\ None \notin Conns
  /\ Bytes \in [Clients -> Nat]
  /\ Room \in Nat \ {0} /\ MaxAsk \in Nat

VARIABLES conn,     \* of each program: the two ends of its connection, what is under way
          handouts  \* the sids that controllers have been told

netVars == <<conn, handouts>>

\* link: the library's end.  end: the program's end, as the kernel knows it: fin
\* after a close, rst after a reset.  in, out: sent and not yet read by the
\* library and by the program.  sid, by, n: a client's relay and the controller and
\* the question it was given for; late: that relay had been shut (history).  said, got: how much it sent, what it received.
Fresh == [link |-> "none", end |-> "open", in |-> <<>>, out |-> <<>>,
          sid |-> 0, by |-> None, n |-> 0, late |-> FALSE,
          said |-> 0, got |-> <<>>]

\* What is sent: the five bytes that a client begins with (nio2.c:1929), a
\* header, its body, a byte to relay, a reply with the sids it gives.
Item(t, c, n, sids) == [t |-> t, from |-> c, n |-> n, sids |-> sids]

Byte(c, n) == Item("byte", c, n, {})

Reply(n, sids) == Item("reply", None, n, sids)

\* What a program sends one after the other; a header's n is hdr.len.
Script(c) ==
  IF c \in Controllers
    THEN [i \in 1 .. MaxAsk |-> Item("header", c, 0, {})]
    ELSE <<Item("five", c, 0, {}), Item("header", c, 1, {}), Item("body", c, 0, {conn[c].sid})>>
         \o [i \in 1 .. Bytes[c] |-> Byte(c, i)]

Readable(k, c) == k[c].in # <<>> \/ k[c].end # "open"

Writable(k, c) == Len(k[c].out) < Room \/ k[c].end # "open"

\* A closed program receives nothing of what is written to it, and answers with a
\* reset.
Written(k, c, items) ==
  IF k[c].end = "open" THEN [k EXCEPT ![c].out = @ \o items]
  ELSE [k EXCEPT ![c].end = "rst"]

\* The library closes its end; how the program left no longer matters.
Shut(k, c) == [k EXCEPT ![c].link = "closed", ![c].in = <<>>,
                        ![c].end = IF @ = "open" THEN @ ELSE "fin"]

-----------------------------------------------------------------------------
\* A client is started with any sid that was given, also with one that has been
\* used.
Connect(c) ==
  /\ conn[c].link = "none"
  /\ \/ c \in Controllers
        /\ conn' = [conn EXCEPT ![c].link = "waiting"]
     \/ c \in Clients
        /\ \E h \in handouts :
             conn' = [conn EXCEPT ![c].link = "waiting", ![c].sid = h.sid,
                                  ![c].by = h.by, ![c].n = h.n]
  /\ UNCHANGED handouts

Alive(c) == conn[c].link \in {"waiting", "up"} /\ conn[c].end = "open"

\* A controller asks one thing at a time (nio2.c:1484).
Say(c) ==
  /\ Alive(c)
  /\ conn[c].said < Len(Script(c))
  /\ c \in Controllers => conn[c].said = Len(conn[c].got)
  /\ conn' = [conn EXCEPT ![c].said = @ + 1,
                          ![c].in = Append(@, Script(c)[conn[c].said + 1])]
  /\ UNCHANGED handouts

Hear(c) ==
  /\ conn[c].out # <<>> /\ conn[c].end = "open"
  /\ conn' = [conn EXCEPT ![c].got = @ \o conn[c].out, ![c].out = <<>>]
  /\ handouts' = handouts \cup
       UNION {{[sid |-> s, by |-> c, n |-> conn[c].out[i].n] : s \in conn[c].out[i].sids} :
                i \in 1 .. Len(conn[c].out)}

\* The program closes its socket, or a client is gone with a reset; what it has
\* sent can still be read.  A controller that has asked MaxAsk times stays: a bound.
Leave(c) ==
  /\ Alive(c)
  /\ c \in Controllers => conn[c].said < MaxAsk
  /\ \E how \in IF c \in Clients THEN {"fin", "rst"} ELSE {"fin"} :
       conn' = [conn EXCEPT ![c].end = how, ![c].out = <<>>]
  /\ UNCHANGED handouts

NetInit == conn = [c \in Conns |-> Fresh] /\ handouts = {}

Program(c) == Connect(c) \/ Say(c) \/ Hear(c) \/ Leave(c)
=============================================================================
