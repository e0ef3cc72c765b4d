--------------------------- MODULE RpcSequenceId ----------------------------
(***************************************************************************)
(* RpcSequenceId::get() under threads, and the table its ids key.          *)
(*                                                                         *)
(* The counter is one atomic word shared by every thread of the process    *)
(* (a Singleton; in thread-local mode each thread plays one service), but  *)
(* get() increments, compares and reads it in separate steps.  The handler *)
(* table is thread-local.  Ids are Modulus values wide: 2^32 in the code.  *)
(*                                                                         *)
(* `ticks' counts the increments without wrapping: the counter holds       *)
(* ticks % Modulus.  An id in use is represented by the ticks it was read  *)
(* at, so that two uses of the same id stay distinct.  `gets' is a history *)
(* variable, read by properties only: the calls of get() begun.            *)
(***************************************************************************)
EXTENDS Integers, FiniteSets

CONSTANTS Threads, Modulus

ASSUME SequenceIdAssumption == Modulus \in Nat /\ Modulus > 1 /\ IsFiniteSet(Threads)

k_invalid_rpc_sequence_id == 0

VARIABLES ticks,    \* increments of sequence_id_ so far
          gets,     \* calls of get() so far
          pc,       \* where each thread is in get()
          held      \* the ids a thread has registered handlers for: when it got them

vars == <<ticks, gets, pc, held>>

IdAt(t) == t % Modulus
sequence_id_ == IdAt(ticks)

TypeOK == /\ ticks \in Nat /\ gets \in Nat
          /\ pc \in [Threads -> {"out", "compare", "skip", "read"}]
          /\ held \in [Threads -> SUBSET [tick : Nat, get : Nat]]

Init == /\ ticks = k_invalid_rpc_sequence_id /\ gets = 0
        /\ pc = [t \in Threads |-> "out"]
        /\ held = [t \in Threads |-> {}]

Goto(t, label) == pc' = [pc EXCEPT ![t] = label]

\* Faulty form of the next: the counter is not atomic, an increment made while
\* another thread is in get() is lost.
IncrementLost(t) == /\ pc[t] = "out"
                    /\ ticks' = IF \E u \in Threads \ {t} : pc[u] = "compare" THEN ticks ELSE ticks + 1
                    /\ gets' = gets + 1
                    /\ Goto(t, "compare")
                    /\ UNCHANGED held

\* ++sequence_id_
Increment(t) == /\ pc[t] = "out"
                /\ ticks' = ticks + 1 /\ gets' = gets + 1
                /\ Goto(t, "compare")
                /\ UNCHANGED held

Compare(t) == /\ pc[t] = "compare"
              /\ Goto(t, IF sequence_id_ = k_invalid_rpc_sequence_id THEN "skip" ELSE "read")
              /\ UNCHANGED <<ticks, gets, held>>

\* Faulty form of the next: the counter is set to the first valid id, whatever
\* other threads did to it since the comparison.
SkipToFirst(t) == /\ pc[t] = "skip"
                  /\ ticks' = (ticks - IdAt(ticks)) + 1
                  /\ Goto(t, "read")
                  /\ UNCHANGED <<gets, held>>

Skip(t) == /\ pc[t] = "skip"
           /\ ticks' = ticks + 1
           /\ Goto(t, "read")
           /\ UNCHANGED <<gets, held>>

\* The value read is returned and a handler registered under it.
ReadAndRegister(t) == /\ pc[t] = "read"
                      /\ held' = [held EXCEPT ![t] = @ \cup {[tick |-> ticks, get |-> gets]}]
                      /\ Goto(t, "out")
                      /\ UNCHANGED <<ticks, gets>>

\* A response, a timeout or the end of an SI removes a handler.
Unregister(t, h) == /\ held' = [held EXCEPT ![t] = @ \ {h}]
                    /\ UNCHANGED <<ticks, gets, pc>>

Next == \E t \in Threads :
            \/ Increment(t) \/ Compare(t) \/ Skip(t) \/ ReadAndRegister(t)
            \/ \E h \in held[t] : Unregister(t, h)

Spec == Init /\ [][Next]_vars

-----------------------------------------------------------------------------
\* A thread inside get() is past every id it holds, whatever other threads do
\* between its increment and its read: no id is given to it twice before the
\* counter wraps.
PastHeldIds ==
    \A t \in Threads : \A h \in held[t] :
        h.tick <= ticks /\ (pc[t] # "out" => h.tick < ticks)

\* A thread is given an id it still holds only after a whole round of calls of
\* get(), but for what threads skip at the invalid id: one at the wrap, and
\* one that was due before.  Only then register_rsp_Handler can meet its
\* own id: neither lost nor repeated increments shorten the round.
RepeatNeedsRound ==
    [][\A t \in Threads : \A new \in held'[t] \ held[t], h \in held[t] :
          IdAt(new.tick) = IdAt(h.tick) =>
              new.get - h.get > Modulus - 2 * Cardinality(Threads)]_vars

\* "skip value of k_invalid_rpc_sequence_id": get() never returns 0.
NeverInvalid ==
    \A t \in Threads : \A h \in held[t] : IdAt(h.tick) # k_invalid_rpc_sequence_id
=============================================================================
