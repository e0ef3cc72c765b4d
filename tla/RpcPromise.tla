----------------------------- MODULE RpcPromise -----------------------------
(***************************************************************************)
(* What an rpc promises to the service interaction (SI) that makes it:     *)
(* one outcome per call, never changed; an outcome of the remote side only *)
(* if the remote side gave it; "timeout" only to a call wrapped by         *)
(* ___rpc(___ms(..), ___retry(..), ..); and calls are abandoned only       *)
(* together, when the SI that made them is torn down.  Sequence ids,       *)
(* retries, handlers, timers and messages do not appear here: RpcCall      *)
(* implements this module.                                                 *)
(***************************************************************************)

CONSTANTS SIs,      \* service interactions
          Calls,    \* the rpcs they may make
          SiOf,     \* the SI that makes a call
          Guarded   \* the calls with a timeout guard

VARIABLES
    outcome,   \* what the SI sees of each call
    answers    \* <<call, result>>: what the remote side has answered

promiseVars == <<outcome, answers>>

RemoteResults == {"succeeded", "failed", "iface_not_found", "method_not_found"}
Resolutions == RemoteResults \cup {"timeout"}
Unresolved == {"idle", "empty"}

PromiseInit == /\ outcome = [c \in Calls |-> "idle"]
               /\ answers = {}

Start(c) == /\ outcome[c] = "idle"
            /\ outcome' = [outcome EXCEPT ![c] = "empty"]
            /\ UNCHANGED answers

Answer(c, result) == /\ outcome[c] # "idle"
                     /\ answers' = answers \cup {<<c, result>>}
                     /\ UNCHANGED outcome

\* "failed" needs no answer: the request may be unsendable, the answer undecodable.
MayResolve(c, result) == \/ <<c, result>> \in answers
                         \/ result = "failed"
                         \/ result = "timeout" /\ c \in Guarded /\ outcome[c] = "empty"

Resolve(c, result) == /\ outcome[c] \in Unresolved
                      /\ outcome[c] = "idle" => result = "failed"
                      /\ MayResolve(c, result)
                      /\ outcome' = [outcome EXCEPT ![c] = result]
                      /\ UNCHANGED answers

Abandon(s) == /\ outcome' = [c \in Calls |->
                     IF SiOf[c] = s /\ outcome[c] \in Unresolved
                       THEN "abandoned" ELSE outcome[c]]
              /\ UNCHANGED answers

PromiseNext == \/ \E c \in Calls :
                     \/ Start(c)
                     \/ \E result \in RemoteResults : Answer(c, result)
                     \/ \E result \in Resolutions : Resolve(c, result)
               \/ \E s \in SIs : Abandon(s)

PromiseSpec == PromiseInit /\ [][PromiseNext]_promiseVars

=============================================================================
