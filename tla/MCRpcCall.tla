----------------------------- MODULE MCRpcCall ------------------------------
(* Instances of RpcCall for TLC. *)
EXTENDS RpcCall

CONSTANTS si1, si2, callA, callB, callC

\* One SI whose two calls are guarded: retries race with late responses.
OneSI == [x \in {callA, callB} |-> si1]
OneSIMethod == [x \in {callA, callB} |-> IF x = callA THEN {"succeeded", "async"} ELSE {"failed"}]

\* Two SIs, guarded and raw calls, every kind of answer.
TwoSIs == [x \in {callA, callB, callC} |-> IF x = callC THEN si2 ELSE si1]
TwoSIsMethod == [x \in {callA, callB, callC} |->
    CASE x = callA -> {"succeeded"}
      [] x = callB -> {"async", "method_not_found"}
      [] x = callC -> {"iface_not_found"}]
=============================================================================
