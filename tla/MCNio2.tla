------------------------------- MODULE MCNio2 -------------------------------
(***************************************************************************)
(* One controller and the two clients of its sessions, for TLC.            *)
(***************************************************************************)
EXTENDS Nio2, TLC

CONSTANTS ctl, a, b

OneController == {ctl}

TwoClients == {a, b}

TwoEach == [c \in {a, b} |-> 2]

SymmetricClients == Permutations({a, b})

BothWaysBytes == [c \in {a, b} |-> IF c = a THEN 2 ELSE 1]
=============================================================================
