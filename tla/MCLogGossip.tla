---------------------------- MODULE MCLogGossip ----------------------------
(***************************************************************************)
(* LOG gossip on small corpora: which faults may happen, and how often.    *)
(***************************************************************************)
EXTENDS LogGossip, TLC

NoFaults == [k \in Kinds |-> 0]

EachFault == [k \in Kinds |-> 1]

\* The puller's machine dies once, while it writes a replica.
TornReplicaFault == ("tornReplica" :> 1) @@ NoFaults

\* state.json is lost once.
LostStateFault == ("publisherCrash" :> 1) @@ ("lostState" :> 1) @@ NoFaults
=============================================================================
