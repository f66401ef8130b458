------------------------------- MODULE Framing -------------------------------
(***************************************************************************)
(* Headers and the bodies they announce, as they follow each other on one  *)
(* direction of a connection.                                              *)
(***************************************************************************)
EXTENDS Integers, Sequences

CONSTANTS BodySizes,  \* the lengths a header may announce
          MaxMsgs     \* bound: the messages of a connection

ASSUME FramingAssumption ==
  /\ BodySizes \subseteq Nat
  /\ MaxMsgs \in Nat

\* struct rb_header, and struct rb_message without it.
Header(len) == [t |-> "hdr", len |-> len]
Body(len) == [t |-> "body", len |-> len]

Message == [t : {"hdr", "body"}, len : Nat]

\* The length of the body that must come after the messages of s, 0 for none.
Owed(s) == IF s # <<>> /\ s[Len(s)].t = "hdr" THEN s[Len(s)].len ELSE 0

Allowed(s) ==
  IF Owed(s) # 0 THEN {Body(Owed(s))} ELSE {Header(n) : n \in BodySizes}
=============================================================================
