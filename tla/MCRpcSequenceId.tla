-------------------------- MODULE MCRpcSequenceId ---------------------------
(* Instances of RpcSequenceId for TLC, with at most MaxTicks increments and  *)
(* as many calls, and at most MaxHeld handlers of a thread at a time.        *)
EXTENDS RpcSequenceId

CONSTANTS MaxTicks, MaxHeld

BoundedNext ==
    /\ Next
    /\ ticks' <= MaxTicks /\ gets' <= MaxTicks
    /\ \A t \in Threads : Cardinality(held'[t]) <= MaxHeld

BoundedSpec == Init /\ [][BoundedNext]_vars
=============================================================================
