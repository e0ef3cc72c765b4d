------------------------ MODULE RpcSequenceId_proofs ------------------------
(***************************************************************************)
(* Proofs about RpcSequenceId, for any threads and any width of the ids.   *)
(***************************************************************************)
EXTENDS RpcSequenceId, FiniteSetTheorems, TLAPS

IInv == TypeOK /\ PastHeldIds

\* The strengthening holds when the process starts: no increment has been made
\* and no thread holds an id (sequence_id_ starts at the invalid value).
LEMMA InitIInv == Init => IInv
  BY DEF Init, IInv, TypeOK, PastHeldIds, k_invalid_rpc_sequence_id

\* No step of get() by any thread, and no registration or removal of a handler,
\* breaks the strengthening.
LEMMA NextKeeps ==
    ASSUME IInv, [Next]_vars
    PROVE  IInv'
<1> USE DEF IInv, TypeOK, PastHeldIds, Goto
<1>1. ASSUME NEW t \in Threads, Increment(t) PROVE IInv'
  BY <1>1 DEF Increment
<1>2. ASSUME NEW t \in Threads, Compare(t) PROVE IInv'
  BY <1>2 DEF Compare
<1>3. ASSUME NEW t \in Threads, Skip(t) PROVE IInv'
  BY <1>3 DEF Skip
<1>4. ASSUME NEW t \in Threads, ReadAndRegister(t) PROVE IInv'
  BY <1>4 DEF ReadAndRegister
<1>5. ASSUME NEW t \in Threads, NEW h \in held[t], Unregister(t, h) PROVE IInv'
  BY <1>5 DEF Unregister
<1>6. CASE UNCHANGED vars
  BY <1>6 DEF vars
<1> QED
  BY <1>1, <1>2, <1>3, <1>4, <1>5, <1>6 DEF Next

\* The strengthening is an invariant, for any threads and any id width.
THEOREM Safety == Spec => []IInv
<1>1. Init => IInv
  BY InitIInv
<1>2. IInv /\ [Next]_vars => IInv'
  BY NextKeeps
<1> QED
  BY <1>1, <1>2, PTL DEF Spec

\* A thread inside RpcSequenceId::get() is always past every id it holds a
\* handler for, whatever other threads do between its steps.
THEOREM NeverTwice == Spec => []PastHeldIds
<1>1. IInv => PastHeldIds
  BY DEF IInv
<1> QED
  BY <1>1, Safety, PTL

\* Two different counts with the same id (the same remainder) lie at least one
\* whole round of the counter apart.
LEMMA SameIdApart ==
    ASSUME NEW a \in Nat, NEW b \in Nat, a > b, IdAt(a) = IdAt(b)
    PROVE  a - b >= Modulus
<1> DEFINE qa == a \div Modulus
           qb == b \div Modulus
<1>1. /\ qa \in Int /\ qb \in Int
      /\ a = Modulus * qa + IdAt(a) /\ b = Modulus * qb + IdAt(b)
      /\ IdAt(a) \in Int
  BY SequenceIdAssumption, Z3 DEF IdAt
<1> HIDE DEF qa, qb
<1>2. a - b = Modulus * (qa - qb)
  BY <1>1, SequenceIdAssumption, Z3
<1>3. qa - qb >= 1
  BY <1>1, <1>2, SequenceIdAssumption, Z3
<1> QED
  BY <1>1, <1>2, <1>3, SequenceIdAssumption, Z3

-----------------------------------------------------------------------------
(* Counting: increments are calls of get() and skips, and skips are few. *)

ThreadCount == Cardinality(Threads)
Skipping == {t \in Threads : pc[t] = "skip"}

\* The most that threads skip at the wraps up to a count: one each.
SkippedBy(a) == ThreadCount * (a \div Modulus)

\* How far the counter is past a held id: the calls since, what was skipped at
\* the wraps since, and what was due to be skipped when the id was given.
RoundOK ==
    \A t \in Threads : \A h \in held[t] :
        /\ h.get <= gets
        /\ sequence_id_ = 0 /\ h.tick # ticks =>
               ticks - h.tick < (gets - h.get) + (SkippedBy(ticks) - SkippedBy(h.tick))
        /\ sequence_id_ # 0 =>
               (ticks - h.tick) + Cardinality(Skipping)
                   < (gets - h.get) + (SkippedBy(ticks) - SkippedBy(h.tick)) + ThreadCount

\* The threads that skip are a part of all: not all if some thread does not, and
\* one less when one is through.
LEMMA SkippingCount ==
    ASSUME TypeOK
    PROVE  /\ ThreadCount \in Nat /\ Cardinality(Skipping) \in Nat
           /\ Cardinality(Skipping) <= ThreadCount
           /\ \A t \in Threads : pc[t] # "skip" => Cardinality(Skipping) < ThreadCount
           /\ \A t \in Threads : pc[t] = "skip" =>
                  /\ Cardinality(Skipping) >= 1
                  /\ Cardinality(Skipping \ {t}) = Cardinality(Skipping) - 1
<1>1. IsFiniteSet(Threads) /\ Skipping \subseteq Threads
  BY SequenceIdAssumption DEF Skipping
<1>2. /\ IsFiniteSet(Skipping) /\ Cardinality(Skipping) <= ThreadCount
      /\ ThreadCount = Cardinality(Skipping) => Skipping = Threads
  BY <1>1, FS_Subset DEF ThreadCount
<1>3. ThreadCount \in Nat /\ Cardinality(Skipping) \in Nat
  BY <1>1, <1>2, FS_CardinalityType DEF ThreadCount
<1>4. ASSUME NEW t \in Threads, pc[t] # "skip" PROVE Skipping # Threads
  BY <1>4 DEF Skipping
<1>5. ASSUME NEW t \in Threads, pc[t] = "skip"
      PROVE  /\ Cardinality(Skipping) >= 1
             /\ Cardinality(Skipping \ {t}) = Cardinality(Skipping) - 1
  <2>1. t \in Skipping
    BY <1>5 DEF Skipping
  <2>2. /\ Cardinality(Skipping \ {t}) = Cardinality(Skipping) - 1
        /\ IsFiniteSet(Skipping \ {t})
    BY <1>2, <2>1, FS_RemoveElement
  <2>3. Cardinality(Skipping \ {t}) \in Nat
    BY <2>2, FS_CardinalityType
  <2> QED BY <1>3, <2>2, <2>3
<1>6. \A t \in Threads : pc[t] # "skip" => Cardinality(Skipping) < ThreadCount
  BY <1>2, <1>3, <1>4
<1>7. \A t \in Threads : pc[t] = "skip" =>
          /\ Cardinality(Skipping) >= 1
          /\ Cardinality(Skipping \ {t}) = Cardinality(Skipping) - 1
  BY <1>5
<1> QED BY <1>2, <1>3, <1>6, <1>7

\* An increment adds a wrap exactly when it arrives at the invalid id.
LEMMA WrapCount ==
    ASSUME NEW a \in Nat, ThreadCount \in Nat
    PROVE  /\ SkippedBy(a) \in Int /\ IdAt(a) \in Int
           /\ IdAt(a + 1) = 0 => SkippedBy(a + 1) = SkippedBy(a) + ThreadCount
           /\ IdAt(a + 1) # 0 => SkippedBy(a + 1) = SkippedBy(a)
<1> DEFINE q == a \div Modulus
           p == (a + 1) \div Modulus
<1>1. /\ q \in Int /\ p \in Int
      /\ a = Modulus * q + IdAt(a) /\ a + 1 = Modulus * p + IdAt(a + 1)
      /\ IdAt(a) \in 0 .. Modulus - 1 /\ IdAt(a + 1) \in 0 .. Modulus - 1
  BY SequenceIdAssumption, Z3 DEF IdAt
<1>2. SkippedBy(a) = ThreadCount * q /\ SkippedBy(a + 1) = ThreadCount * p
  BY DEF SkippedBy
<1> HIDE DEF q, p
<1>3. Modulus * (p - q) = (1 + IdAt(a)) - IdAt(a + 1)
  BY <1>1, SequenceIdAssumption, Z3
<1>4. IdAt(a + 1) = 0 => p = q + 1
  BY <1>1, <1>3, SequenceIdAssumption, Z3
<1>5. IdAt(a + 1) # 0 => p = q
  BY <1>1, <1>3, SequenceIdAssumption, Z3
<1>6. ThreadCount * (q + 1) = ThreadCount * q + ThreadCount
  BY <1>1, Z3
<1>7. ThreadCount * q \in Int
  BY <1>1, Z3
<1> QED BY <1>1, <1>2, <1>4, <1>5, <1>6, <1>7

LEMMA RoundStep ==
    ASSUME IInv, RoundOK, [Next]_vars
    PROVE  RoundOK'
<1> USE DEF sequence_id_
<1>0. /\ ticks \in Nat /\ gets \in Nat /\ TypeOK
      /\ \A t \in Threads : \A h \in held[t] : h.tick \in Nat /\ h.get \in Nat
  BY DEF IInv, TypeOK
<1>1. /\ ThreadCount \in Nat /\ Cardinality(Skipping) \in Nat
      /\ Cardinality(Skipping) <= ThreadCount
      /\ \A t \in Threads : pc[t] # "skip" => Cardinality(Skipping) < ThreadCount
      /\ \A t \in Threads : pc[t] = "skip" =>
             /\ Cardinality(Skipping) >= 1
             /\ Cardinality(Skipping \ {t}) = Cardinality(Skipping) - 1
  BY <1>0, SkippingCount
<1>2. /\ SkippedBy(ticks) \in Int
      /\ IdAt(ticks + 1) = 0 => SkippedBy(ticks + 1) = SkippedBy(ticks) + ThreadCount
      /\ IdAt(ticks + 1) # 0 => SkippedBy(ticks + 1) = SkippedBy(ticks)
      /\ \A t \in Threads : \A h \in held[t] : SkippedBy(h.tick) \in Int
  BY <1>0, <1>1, WrapCount
<1>3. ASSUME NEW t \in Threads, Increment(t) PROVE RoundOK'
  <2>1. ticks' = ticks + 1 /\ gets' = gets + 1 /\ held' = held /\ Skipping' = Skipping
    BY <1>3, <1>0 DEF Increment, Goto, Skipping, TypeOK
  <2>2. Cardinality(Skipping) < ThreadCount
    BY <1>1, <1>3 DEF Increment
  <2>3. \A u \in Threads : \A h \in held[u] : h.tick <= ticks
    BY DEF IInv, PastHeldIds
  <2> QED BY <1>0, <1>1, <1>2, <2>1, <2>2, <2>3 DEF RoundOK
<1>4. ASSUME NEW t \in Threads, Compare(t) PROVE RoundOK'
  <2>1. ticks' = ticks /\ gets' = gets /\ held' = held
    BY <1>4 DEF Compare
  <2>2. IdAt(ticks) # 0 => Skipping' = Skipping
    BY <1>4, <1>0 DEF Compare, Goto, Skipping, TypeOK, k_invalid_rpc_sequence_id
  <2> QED BY <2>1, <2>2 DEF RoundOK
<1>5. ASSUME NEW t \in Threads, Skip(t) PROVE RoundOK'
  <2>1. ticks' = ticks + 1 /\ gets' = gets /\ held' = held /\ Skipping' = Skipping \ {t}
    BY <1>5, <1>0 DEF Skip, Goto, Skipping, TypeOK
  <2>2. Cardinality(Skipping') = Cardinality(Skipping) - 1 /\ Cardinality(Skipping) >= 1
    BY <1>1, <1>5, <2>1 DEF Skip
  <2>3. ASSUME NEW u \in Threads, NEW h \in held[u], h.tick = ticks
        PROVE  Cardinality(Skipping) < ThreadCount
    <3>1. pc[u] = "out"
      BY <1>0, <2>3 DEF IInv, PastHeldIds
    <3> QED BY <1>1, <3>1
  <2>4. \A u \in Threads : \A h \in held[u] : h.tick <= ticks
    BY DEF IInv, PastHeldIds
  <2> SUFFICES ASSUME NEW u \in Threads, NEW h \in held[u]
               PROVE  (/\ h.get <= gets
                       /\ sequence_id_ = 0 /\ h.tick # ticks =>
                              ticks - h.tick
                                  < (gets - h.get) + (SkippedBy(ticks) - SkippedBy(h.tick))
                       /\ sequence_id_ # 0 =>
                              (ticks - h.tick) + Cardinality(Skipping)
                                  < (gets - h.get) + (SkippedBy(ticks) - SkippedBy(h.tick))
                                    + ThreadCount)'
    BY <2>1 DEF RoundOK
  <2>5. CASE h.tick = ticks
    BY <1>0, <1>1, <1>2, <2>1, <2>2, <2>3, <2>5 DEF RoundOK
  <2>6. CASE h.tick # ticks
    BY <1>0, <1>1, <1>2, <2>1, <2>2, <2>4, <2>6 DEF RoundOK
  <2> QED BY <2>5, <2>6
<1>6. ASSUME NEW t \in Threads, ReadAndRegister(t) PROVE RoundOK'
  <2>1. ticks' = ticks /\ gets' = gets /\ Skipping' = Skipping
    BY <1>6, <1>0 DEF ReadAndRegister, Goto, Skipping, TypeOK
  <2>2. Cardinality(Skipping) < ThreadCount
    BY <1>1, <1>6 DEF ReadAndRegister
  <2>3. ASSUME NEW u \in Threads, NEW h \in held'[u], h \notin held[u]
        PROVE  h.tick = ticks /\ h.get = gets
    BY <1>6, <2>3, <1>0 DEF ReadAndRegister, TypeOK
  <2> QED BY <1>0, <1>1, <1>2, <2>1, <2>2, <2>3 DEF RoundOK
<1>7. ASSUME NEW t \in Threads, NEW h \in held[t], Unregister(t, h) PROVE RoundOK'
  <2>1. ticks' = ticks /\ gets' = gets /\ Skipping' = Skipping
    BY <1>7 DEF Unregister, Skipping
  <2>2. \A u \in Threads : held'[u] \subseteq held[u]
    BY <1>7, <1>0 DEF Unregister, TypeOK
  <2> QED BY <2>1, <2>2 DEF RoundOK
<1>8. CASE UNCHANGED vars
  BY <1>8 DEF vars, RoundOK, Skipping
<1> QED BY <1>3, <1>4, <1>5, <1>6, <1>7, <1>8 DEF Next

\* Whole rounds of the counter take whole rounds of calls, but for the skips.
LEMMA RoundsOfCalls ==
    ASSUME NEW n \in Nat, n >= 1, ThreadCount \in Nat, ThreadCount >= 1, NEW calls \in Nat,
           Modulus * n <= calls + ThreadCount * n + (ThreadCount - 1)
    PROVE  calls > Modulus - 2 * ThreadCount
<1>1. CASE Modulus >= ThreadCount
  <2> DEFINE d == Modulus - ThreadCount
  <2>1. d \in Nat /\ d * n = Modulus * n - ThreadCount * n
    BY <1>1, SequenceIdAssumption, Z3
  <2>2. Modulus * n \in Int /\ ThreadCount * n \in Int
    BY SequenceIdAssumption, Z3
  <2>3. d * n >= d
    BY <2>1, Z3
  <2> QED BY <2>1, <2>2, <2>3, SequenceIdAssumption
<1>2. CASE Modulus < ThreadCount
  BY <1>2, SequenceIdAssumption
<1> QED BY <1>1, <1>2, SequenceIdAssumption

\* A step that gives a thread an id it still holds comes a round of calls after
\* that id was given (the read at the end of get()).
LEMMA RepeatsApart ==
    ASSUME IInv, RoundOK, [Next]_vars, NEW t \in Threads,
           NEW new \in held'[t] \ held[t], NEW h \in held[t], IdAt(new.tick) = IdAt(h.tick)
    PROVE  new.get - h.get > Modulus - 2 * Cardinality(Threads)
<1>1. new.tick = ticks /\ new.get = gets /\ pc[t] = "read"
  BY DEF Next, Increment, Compare, Skip, ReadAndRegister, Unregister, vars, IInv, TypeOK
<1>2. /\ h.tick \in Nat /\ ticks \in Nat /\ h.tick < ticks
      /\ h.get \in Nat /\ gets \in Nat /\ h.get <= gets
  BY <1>1 DEF IInv, TypeOK, PastHeldIds, RoundOK
<1>3. /\ ThreadCount \in Nat /\ Cardinality(Skipping) \in Nat
      /\ Cardinality(Skipping) < ThreadCount /\ ThreadCount >= 1
  BY <1>1, SkippingCount DEF IInv
<1> DEFINE q == ticks \div Modulus
           p == h.tick \div Modulus
           n == q - p
<1>4. /\ p \in Int /\ q \in Int
      /\ ticks = Modulus * q + IdAt(ticks) /\ h.tick = Modulus * p + IdAt(h.tick)
      /\ IdAt(ticks) \in Int /\ IdAt(h.tick) \in Int
  BY <1>2, SequenceIdAssumption, Z3 DEF IdAt
<1>5. SkippedBy(ticks) = ThreadCount * q /\ SkippedBy(h.tick) = ThreadCount * p
  BY DEF SkippedBy
<1>6. (ticks - h.tick)
          <= (gets - h.get) + (SkippedBy(ticks) - SkippedBy(h.tick)) + (ThreadCount - 1)
  <2>1. SkippedBy(ticks) \in Int /\ SkippedBy(h.tick) \in Int
    BY <1>2, <1>3, WrapCount
  <2> QED BY <1>2, <1>3, <2>1 DEF RoundOK, sequence_id_
<1> HIDE DEF q, p
<1>7. ticks - h.tick = Modulus * n
  BY <1>1, <1>4, SequenceIdAssumption, Z3
<1>8. n \in Nat /\ n >= 1
  BY <1>2, <1>4, <1>7, SequenceIdAssumption, Z3
<1>9. ThreadCount * q - ThreadCount * p = ThreadCount * n
  BY <1>3, <1>4, Z3
<1> HIDE DEF n
<1>10. Modulus * n <= (gets - h.get) + ThreadCount * n + (ThreadCount - 1)
  BY <1>5, <1>6, <1>7, <1>9
<1>11. gets - h.get \in Nat
  BY <1>2
<1>12. gets - h.get > Modulus - 2 * ThreadCount
  BY <1>3, <1>8, <1>10, <1>11, RoundsOfCalls
<1> QED BY <1>1, <1>12 DEF ThreadCount

\* register_rsp_Handler meets an id already in its table only after a whole round
\* of calls of get() since that id was given, less what is skipped at the wrap:
\* no increment is lost or made twice between threads.
THEOREM RepeatsNeedRounds == Spec => RepeatNeedsRound
<1>1. Init => RoundOK
  BY DEF Init, RoundOK
<1>2. IInv /\ RoundOK /\ [Next]_vars => RoundOK'
  BY RoundStep
<1>3. IInv /\ RoundOK /\ [Next]_vars =>
          [\A t \in Threads : \A new \in held'[t] \ held[t], h \in held[t] :
              IdAt(new.tick) = IdAt(h.tick) =>
                  new.get - h.get > Modulus - 2 * Cardinality(Threads)]_vars
  BY RepeatsApart
<1> QED
  BY <1>1, <1>2, <1>3, Safety, PTL DEF Spec, RepeatNeedsRound

-----------------------------------------------------------------------------
SoleThread == \A t, u \in Threads : t = u

\* Nobody moves the counter between a sole thread's test for the invalid id and
\* its read.
ValidOK ==
    /\ NeverInvalid
    /\ \A t \in Threads : /\ pc[t] = "skip" => sequence_id_ = k_invalid_rpc_sequence_id
                          /\ pc[t] = "read" => sequence_id_ # k_invalid_rpc_sequence_id

\* The id after the invalid one is valid: the counter has two values at least.
LEMMA SkipIsEnough ==
    ASSUME NEW a \in Nat, IdAt(a) = k_invalid_rpc_sequence_id
    PROVE  IdAt(a + 1) # k_invalid_rpc_sequence_id
<1> SUFFICES ASSUME IdAt(a + 1) = k_invalid_rpc_sequence_id PROVE FALSE
  OBVIOUS
<1>1. a + 1 \in Nat /\ a + 1 > a /\ IdAt(a + 1) = IdAt(a)
  OBVIOUS
<1>2. (a + 1) - a >= Modulus
  BY <1>1, SameIdApart
<1> QED BY <1>2, SequenceIdAssumption

LEMMA ValidStep ==
    ASSUME SoleThread, IInv, ValidOK, [Next]_vars
    PROVE  ValidOK'
<1> USE DEF IInv, TypeOK, ValidOK, NeverInvalid, Goto, sequence_id_
<1>1. ASSUME NEW t \in Threads, Increment(t) PROVE ValidOK'
  <2>1. \A u \in Threads : u = t
    BY DEF SoleThread
  <2> QED BY <1>1, <2>1 DEF Increment
<1>2. ASSUME NEW t \in Threads, Compare(t) PROVE ValidOK'
  BY <1>2 DEF Compare
<1>3. ASSUME NEW t \in Threads, Skip(t) PROVE ValidOK'
  <2>1. \A u \in Threads : u = t
    BY DEF SoleThread
  <2>2. ticks \in Nat /\ IdAt(ticks) = k_invalid_rpc_sequence_id
    BY <1>3 DEF Skip
  <2>3. IdAt(ticks') # k_invalid_rpc_sequence_id
    BY <1>3, <2>2, SkipIsEnough DEF Skip
  <2> QED BY <1>3, <2>1, <2>3 DEF Skip
<1>4. ASSUME NEW t \in Threads, ReadAndRegister(t) PROVE ValidOK'
  BY <1>4 DEF ReadAndRegister
<1>5. ASSUME NEW t \in Threads, NEW h \in held[t], Unregister(t, h) PROVE ValidOK'
  BY <1>5 DEF Unregister
<1>6. CASE UNCHANGED vars
  BY <1>6 DEF vars
<1> QED BY <1>1, <1>2, <1>3, <1>4, <1>5, <1>6 DEF Next

\* While only one thread makes rpcs get() never returns the invalid id: what the
\* comment in it says is lost only with a second thread (RpcSequenceId::get).
THEOREM SoleThreadNeverInvalid == SoleThread /\ Spec => []NeverInvalid
<1>1. Init => ValidOK
  BY DEF Init, ValidOK, NeverInvalid
<1>2. SoleThread /\ IInv /\ ValidOK /\ [Next]_vars => ValidOK'
  BY ValidStep
<1>3. ValidOK => NeverInvalid
  BY DEF ValidOK
<1>4. ASSUME SoleThread PROVE Spec => []NeverInvalid
  <2>1. IInv /\ ValidOK /\ [Next]_vars => ValidOK'
    BY <1>2, <1>4
  <2> QED BY <1>1, <2>1, <1>3, Safety, PTL DEF Spec
<1> QED BY <1>4
=============================================================================
