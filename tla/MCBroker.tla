------------------------------ MODULE MCBroker ------------------------------
(***************************************************************************)
(* Small instances of BrokerSystem.                                        *)
(***************************************************************************)
EXTENDS Streams, TLC

CONSTANTS s1, s2, c1, c2

OneQueue == <<"batch">>
TwoQueues == <<"batch", "night">>
FiveTwo == [q \in QueueNames |-> <<5, 2>>]
OneUnset == [q \in QueueNames |-> IF q = "night" THEN <<0, 0>> ELSE <<5, 2>>]

SomeJobs == {-1, 4, 5}

FiveJobs == {5}

NoneOrFive == {-1, 5}

OneMachine == [s \in Servers |-> 1]

AskStatus == [c \in Clients |-> BROKER_STATUS]
AskBoth == (c1 :> BROKER_STATUS @@ c2 :> BROKER_PARAMS)
AskQueueToo == (c1 :> BROKER_QUEUE_STATUS @@ c2 :> BROKER_PARAMS)

SymmetricServers == Permutations(Servers)
=============================================================================
