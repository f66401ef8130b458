------------------------------ MODULE Messages ------------------------------
(***************************************************************************)
(* What the programs build on: one direction of a connection moves whole   *)
(* headers and whole bodies, in order, and says so when there are no more. *)
(***************************************************************************)
EXTENDS Framing

VARIABLES sent,    \* messages the sender is done with
          got,     \* messages the receiver has
          sender,  \* "open" or "gone"
          receiver \* "open", "gone", or "error": it was told that nothing is left

msgVars == <<sent, got, sender, receiver>>

Send ==
  /\ sender = "open"
  /\ Len(sent) < MaxMsgs
  /\ \E m \in Allowed(sent) : sent' = Append(sent, m)
  /\ UNCHANGED <<got, sender, receiver>>

Receive ==
  /\ receiver = "open"
  /\ Len(got) < Len(sent)
  /\ got' = Append(got, sent[Len(got) + 1])
  /\ UNCHANGED <<sent, sender, receiver>>

\* Not before everything that was sent has been received.
ReceiveError ==
  /\ receiver = "open"
  /\ sender = "gone"
  /\ got = sent
  /\ receiver' = "error"
  /\ UNCHANGED <<sent, got, sender>>

SenderStops ==
  /\ sender = "open"
  /\ sender' = "gone"
  /\ UNCHANGED <<sent, got, receiver>>

ReceiverStops ==
  /\ receiver = "open"
  /\ receiver' = "gone"
  /\ UNCHANGED <<sent, got, sender>>

MsgInit ==
  /\ sent = <<>>
  /\ got = <<>>
  /\ sender = "open"
  /\ receiver = "open"

MsgNext == Send \/ Receive \/ ReceiveError \/ SenderStops \/ ReceiverStops

MsgSafe == MsgInit /\ [][MsgNext]_msgVars

MsgSpec == MsgSafe /\ WF_msgVars(Receive) /\ WF_msgVars(ReceiveError)
=============================================================================
