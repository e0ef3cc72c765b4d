------------------------ MODULE TimerService_proofs -------------------------
(***************************************************************************)
(* Proofs about TimerService: types, the guard of pending attempts, whose  *)
(* timer times an attempt out, and how long the ports last, for any number *)
(* of attempts, ids and ports.                                             *)
(*                                                                         *)
(* The argument: handlers and pending attempts correspond (HandlersOk), so *)
(* while an attempt is pending no later one has its id; the canceled ids   *)
(* are those of answered attempts (CanceledOk); and a timer is known by    *)
(* the attempt that asked for it (ThreadsOk).  As long as there have been  *)
(* fewer attempts than ports from the first one on, entry_times counts the *)
(* threads, so every port is a new one (PortsOk).                          *)
(***************************************************************************)
EXTENDS TimerService, FiniteSetTheorems, TLAPS

HandlersOk ==
    /\ \A a \in Attempts : state[a] = "new" <=> a > made
    /\ \A a \in Attempts : Pending(a) => Id(a) \in DOMAIN id_func_map_ /\ id_func_map_[Id(a)] = a
    /\ \A a, b \in Attempts : Pending(a) /\ a < b /\ b <= made => Id(b) # Id(a)

CanceledOk ==
    /\ \A id \in canceled_timer_ids_ : \E b \in Attempts : state[b] = "answered" /\ Id(b) = id
    /\ \A b \in Attempts : state[b] = "answered" => Id(b) \in canceled_timer_ids_

ThreadsOk ==
    /\ \A a \in requests : a <= made /\ threads[a].at = "none"
    /\ \A t \in Attempts : threads[t].at # "none" => threads[t].ti = t /\ t <= made
    /\ \A t \in timeouts : threads[t].at = "idle"

OnItsWayOk == \A a \in Attempts : up /\ Pending(a) /\ ~Repeats(a) /\ a \notin lost => OnItsWay(a)

IInv == TypeOK /\ HandlersOk /\ CanceledOk /\ ThreadsOk /\ OnItsWayOk
-----------------------------------------------------------------------------
LEMMA ModRange == ASSUME NEW x \in Nat, NEW n \in Nat \ {0} PROVE x % n \in 0 .. n - 1
OBVIOUS

LEMMA PortType ==
    ASSUME NEW e \in 0 .. PortRange - 1
    PROVE  (FirstPort + e) % PortRange \in 0 .. PortRange - 1
<1>1. FirstPort \in Nat /\ PortRange \in Nat \ {0}
  BY TimerServiceAssumption
<1>2. FirstPort + e \in Nat
  BY <1>1
<1> QED BY <1>1, <1>2, ModRange

\* Ids are in 1 .. IdRange, and before they wrap an attempt is its own id.
LEMMA Ids ==
    /\ \A a \in Attempts : a \in Nat /\ Id(a) \in 1 .. IdRange
    /\ \A a \in Attempts : a <= IdRange => Id(a) = a
<1>1. /\ IdRange \in Nat \ {0} /\ MaxAttempts \in Nat
      /\ \A a \in Attempts : a \in Nat /\ a >= 1
  BY TimerServiceAssumption DEF Attempts
<1>2. ASSUME NEW a \in Attempts PROVE (a - 1) % IdRange \in 0 .. IdRange - 1
  BY <1>1
<1>3. ASSUME NEW a \in Attempts, a <= IdRange PROVE (a - 1) % IdRange = a - 1
  BY <1>1, <1>3
<1> QED BY <1>1, <1>2, <1>3 DEF Id

\* The next attempt is an attempt.
LEMMA NextAttempt ==
    ASSUME NEW m \in 0 .. MaxAttempts, m < MaxAttempts
    PROVE  m + 1 \in Attempts /\ m + 1 > m
BY TimerServiceAssumption DEF Attempts
-----------------------------------------------------------------------------
LEMMA InitIInv == Init => IInv
<1> SUFFICES ASSUME Init PROVE IInv
  OBVIOUS
<1> USE TimerServiceAssumption DEF Init
<1>1. TypeOK
  BY DEF TypeOK, Loops, Attempts, NoThread
<1>2. HandlersOk
  BY DEF HandlersOk, Attempts, Pending
<1>3. CanceledOk /\ ThreadsOk /\ OnItsWayOk
  BY DEF CanceledOk, ThreadsOk, OnItsWayOk, Pending, NoThread
<1> QED BY <1>1, <1>2, <1>3 DEF IInv

\* What TypeOK says of the handlers.
HandlersTyped ==
    /\ id_func_map_ \in [DOMAIN id_func_map_ -> Attempts]
    /\ \A id \in DOMAIN id_func_map_ : Id(id_func_map_[id]) = id /\ Pending(id_func_map_[id])

\* What it says of the other variables.
VarsTyped ==
    /\ made \in 0 .. MaxAttempts
    /\ state \in [Attempts -> {"new", "pending", "answered", "timeout", "released"}]
    /\ canceled_timer_ids_ \subseteq 1 .. IdRange
    /\ receiving \subseteq Loops
    /\ requests \subseteq Attempts
    /\ entry_times \in 0 .. PortRange - 1
    /\ threads \in [Attempts -> [at : {"none", "started", "bound", "asleep", "idle", "failed"},
                                 port : 0 .. PortRange - 1, ti : 0 .. MaxAttempts]]
    /\ timeouts \subseteq Attempts /\ lost \subseteq Attempts
    /\ up \in BOOLEAN

LEMMA TypeParts == /\ TypeOK <=> VarsTyped /\ HandlersTyped
                   /\ TypeOK' <=> VarsTyped' /\ HandlersTyped'
BY DEF TypeOK, VarsTyped, HandlersTyped

\* Whatever ends a pending attempt erases its handler and no other.
LEMMA AttemptEnds ==
    ASSUME TypeOK, HandlersOk, NEW a \in Attempts, Pending(a),
           NEW r \in {"answered", "timeout", "released"},
           state' = [state EXCEPT ![a] = r], id_func_map_' = Without(Id(a)), made' = made
    PROVE  HandlersTyped' /\ HandlersOk'
<1>1. state \in [Attempts -> {"new", "pending", "answered", "timeout", "released"}] /\ HandlersTyped
  BY DEF TypeOK, HandlersTyped
<1>2. \A b \in Attempts : Pending(b)' <=> Pending(b) /\ b # a
  BY <1>1 DEF Pending
<1>3. id_func_map_[Id(a)] = a
  BY DEF HandlersOk
<1>4. /\ DOMAIN id_func_map_' = DOMAIN id_func_map_ \ {Id(a)}
      /\ \A id \in DOMAIN id_func_map_' : id_func_map_'[id] = id_func_map_[id]
  BY DEF Without
<1>5. HandlersTyped'
  <2>1. ASSUME NEW id \in DOMAIN id_func_map_'
        PROVE  /\ id_func_map_'[id] \in Attempts /\ Id(id_func_map_'[id]) = id
               /\ state'[id_func_map_'[id]] = "pending"
    <3>1. id \in DOMAIN id_func_map_ /\ id # Id(a) /\ id_func_map_'[id] = id_func_map_[id]
      BY <1>4
    <3>2. id_func_map_[id] # a
      BY <3>1, <1>1 DEF HandlersTyped
    <3> QED BY <3>1, <3>2, <1>1, <1>2 DEF HandlersTyped, Pending
  <2>2. id_func_map_' = [id \in DOMAIN id_func_map_' |-> id_func_map_'[id]]
    BY DEF Without
  <2> QED BY <2>1, <2>2 DEF HandlersTyped, Pending
<1>6. \A b \in Attempts : Pending(b)' => Id(b) # Id(a)
  BY <1>2, <1>3 DEF HandlersOk
<1>7. \A b \in Attempts : state'[b] = "new" <=> state[b] = "new"
  BY <1>1 DEF Pending
<1> QED BY <1>2, <1>4, <1>5, <1>6, <1>7 DEF HandlersOk

\* The timeout of a pending attempt will not be ignored before ids repeat.
LEMMA PendingNotCanceled ==
    ASSUME IInv, NEW a \in Attempts, Pending(a), ~Repeats(a)
    PROVE  Id(a) \notin canceled_timer_ids_
<1> SUFFICES ASSUME Id(a) \in canceled_timer_ids_ PROVE FALSE
  OBVIOUS
<1>1. PICK b \in Attempts : state[b] = "answered" /\ Id(b) = Id(a)
  BY DEF IInv, CanceledOk
<1>2. b # a /\ b <= made
  BY <1>1, Ids DEF IInv, HandlersOk, TypeOK, Pending
<1>3. CASE b <= IdRange
  BY <1>1, <1>2, <1>3, Ids, TimerServiceAssumption DEF Repeats
<1>4. CASE b > IdRange
  BY <1>1, <1>2, <1>4, Ids, TimerServiceAssumption DEF Repeats, IInv, HandlersOk
<1> QED BY <1>3, <1>4, Ids, TimerServiceAssumption

LEMMA NextIInv == IInv /\ [Next]_vars => IInv'
<1> SUFFICES ASSUME IInv, [Next]_vars PROVE IInv'
  OBVIOUS
<1> USE TimerServiceAssumption, Ids, TypeParts DEF IInv
<1>a. ASSUME UNCHANGED serviceVars PROVE HandlersTyped' /\ HandlersOk' /\ CanceledOk'
  BY <1>a DEF serviceVars, HandlersTyped, HandlersOk, CanceledOk, Pending
<1>1. ASSUME Attempt PROVE IInv'
  <2> DEFINE n == made + 1
  <2>1. n \in Attempts /\ made' = n /\ state[n] = "new" /\ Id(n) \notin DOMAIN id_func_map_
    <3>1. made < MaxAttempts /\ made' = n /\ Id(n) \notin DOMAIN id_func_map_
      BY <1>1 DEF Attempt
    <3>2. made \in 0 .. MaxAttempts
      BY DEF VarsTyped
    <3>3. n \in Attempts /\ n > made
      BY <3>1, <3>2, NextAttempt
    <3> QED BY <3>1, <3>3 DEF HandlersOk
  <2>2. state' = [state EXCEPT ![n] = "pending"]
    BY <1>1, <2>1 DEF Attempt
  <2>3. /\ DOMAIN id_func_map_' = DOMAIN id_func_map_ \cup {Id(n)}
        /\ id_func_map_'[Id(n)] = n
        /\ \A id \in DOMAIN id_func_map_ : id_func_map_'[id] = id_func_map_[id]
        /\ id_func_map_' = [id \in DOMAIN id_func_map_' |-> id_func_map_'[id]]
    BY <1>1, <2>1 DEF Attempt
  <2>4. \A a \in Attempts : Pending(a)' <=> Pending(a) \/ a = n
    BY <2>1, <2>2 DEF Pending, VarsTyped
  <2>5. VarsTyped'
    <3>1. /\ requests' = requests \cup {n}
          /\ UNCHANGED <<canceled_timer_ids_, receiving, entry_times, threads, timeouts, up, lost>>
      BY <1>1, <2>1 DEF Attempt
    <3>2. n \in 0 .. MaxAttempts
      BY <2>1 DEF Attempts
    <3> HIDE DEF n
    <3> QED BY <2>1, <2>2, <3>1, <3>2 DEF VarsTyped
  <2>6. HandlersTyped'
    <3>1. ASSUME NEW id \in DOMAIN id_func_map_'
          PROVE  /\ id_func_map_'[id] \in Attempts /\ Id(id_func_map_'[id]) = id
                 /\ state'[id_func_map_'[id]] = "pending"
      <4>1. CASE id = Id(n)
        BY <4>1, <2>1, <2>3, <2>4 DEF Pending
      <4>2. CASE id # Id(n)
        BY <4>2, <2>1, <2>3, <2>4 DEF HandlersTyped, Pending
      <4> QED BY <4>1, <4>2
    <3> QED BY <3>1, <2>3 DEF HandlersTyped, Pending
  <2>7. HandlersOk'
    <3>1. ASSUME NEW a \in Attempts PROVE state'[a] = "new" <=> a > made'
      <4>1. CASE a = n
        BY <4>1, <2>1, <2>2 DEF VarsTyped
      <4>2. CASE a # n
        BY <4>2, <2>1, <2>2 DEF HandlersOk, VarsTyped
      <4> QED BY <4>1, <4>2
    <3>2. \A a \in Attempts : Pending(a)' => /\ Id(a) \in DOMAIN id_func_map_'
                                            /\ id_func_map_'[Id(a)] = a
      BY <2>1, <2>3, <2>4 DEF HandlersOk
    <3>3. ASSUME NEW a \in Attempts, NEW b \in Attempts, Pending(a)', a < b, b <= made'
          PROVE  Id(b) # Id(a)
      <4>1. a # n /\ Pending(a)
        BY <3>3, <2>1, <2>4 DEF VarsTyped
      <4>2. CASE b = n
        BY <4>1, <4>2, <2>1 DEF HandlersOk
      <4>3. CASE b # n
        BY <4>1, <4>3, <3>3, <2>1 DEF HandlersOk, VarsTyped
      <4> QED BY <4>2, <4>3
    <3> QED BY <3>1, <3>2, <3>3 DEF HandlersOk, Pending
  <2>8. CanceledOk'
    BY <1>1 DEF Attempt, TypeOK, HandlersOk, CanceledOk, Pending
  <2>9. ThreadsOk'
    <3>1. threads[n].at = "none" /\ n <= n /\ \A a \in Attempts : a <= made => a <= n
      BY <2>1 DEF ThreadsOk, HandlersOk, VarsTyped
    <3>2. requests' = requests \cup {n} /\ UNCHANGED <<threads, timeouts>> /\ made' = n
      BY <1>1, <2>1 DEF Attempt
    <3> HIDE DEF n
    <3> QED BY <3>1, <3>2 DEF ThreadsOk, VarsTyped
  <2>10. OnItsWayOk'
    BY <1>1, <2>1, <2>4 DEF Attempt, OnItsWayOk, OnItsWay, Repeats
  <2> QED BY <2>5, <2>6, <2>7, <2>8, <2>9, <2>10
<1>2. ASSUME NEW a \in Attempts, Respond(a) PROVE IInv'
  <2>1. HandlersTyped' /\ HandlersOk'
    BY <1>2, AttemptEnds, "answered" \in {"answered", "timeout", "released"} DEF Respond
  <2>2. VarsTyped'
    BY <1>2 DEF Respond, VarsTyped, CanceledWith
  <2>3. CanceledOk'
    BY <1>2 DEF Respond, VarsTyped, CanceledOk, CanceledWith, Pending
  <2>4. ThreadsOk' /\ OnItsWayOk'
    BY <1>2 DEF Respond, VarsTyped, ThreadsOk, OnItsWayOk, OnItsWay, Pending
  <2> QED BY <2>1, <2>2, <2>3, <2>4
<1>3. ASSUME NEW a \in Attempts, Release(a) PROVE IInv'
  <2>1. HandlersTyped' /\ HandlersOk'
    BY <1>3, AttemptEnds, "released" \in {"answered", "timeout", "released"} DEF Release
  <2>2. VarsTyped'
    BY <1>3 DEF Release, VarsTyped
  <2>3. CanceledOk'
    BY <1>3 DEF Release, VarsTyped, CanceledOk, Pending
  <2>4. ThreadsOk' /\ OnItsWayOk'
    BY <1>3 DEF Release, VarsTyped, ThreadsOk, OnItsWayOk, OnItsWay, Pending
  <2> QED BY <2>1, <2>2, <2>3, <2>4
<1>4. ASSUME NEW t \in Attempts, TimeoutArrives(t) PROVE IInv'
  <2>1. /\ threads[t].ti = t /\ t \in timeouts /\ timeouts' = timeouts \ {t}
        /\ UNCHANGED <<made, canceled_timer_ids_, requests, threads, lost, up>>
    BY <1>4 DEF TimeoutArrives, ThreadsOk
  <2>2. CASE ShouldIgnore(Id(t)) \/ Id(t) \notin DOMAIN id_func_map_
    <3>1. UNCHANGED serviceVars
      BY <1>4, <2>1, <2>2 DEF TimeoutArrives, serviceVars
    <3>2. VarsTyped'
      BY <1>4, <3>1 DEF TimeoutArrives, VarsTyped, serviceVars
    <3>3. ThreadsOk'
      BY <2>1 DEF ThreadsOk
    <3>4. ~Pending(t) \/ Repeats(t)
      BY <2>2, PendingNotCanceled DEF ShouldIgnore, HandlersOk
    <3>5. OnItsWayOk'
      BY <2>1, <3>1, <3>4 DEF OnItsWayOk, OnItsWay, serviceVars, Pending, ThreadsOk
    <3> QED BY <3>1, <3>2, <3>3, <3>5, <1>a
  <2>3. CASE ~ShouldIgnore(Id(t)) /\ Id(t) \in DOMAIN id_func_map_
    <3> DEFINE a == id_func_map_[Id(t)]
    <3>1. a \in Attempts /\ Pending(a) /\ Id(a) = Id(t)
      BY <2>3 DEF HandlersTyped
    <3>2. state' = [state EXCEPT ![a] = "timeout"] /\ id_func_map_' = Without(Id(a))
      BY <1>4, <2>1, <2>3, <3>1 DEF TimeoutArrives
    <3>3. HandlersTyped' /\ HandlersOk'
      BY <2>1, <3>1, <3>2, AttemptEnds, "timeout" \in {"answered", "timeout", "released"}
    <3>4. VarsTyped'
      BY <1>4, <3>1, <3>2 DEF TimeoutArrives, VarsTyped
    <3>5. CanceledOk'
      BY <2>1, <3>1, <3>2 DEF VarsTyped, CanceledOk, Pending
    <3>6. ThreadsOk'
      BY <2>1 DEF ThreadsOk
    <3>7. \A b \in Attempts : Pending(b)' => Pending(b) /\ b # t
      <4>1. Pending(t) => a = t
        BY <3>1 DEF HandlersOk
      <4> QED BY <3>1, <3>2, <4>1 DEF VarsTyped, Pending
    <3>8. OnItsWayOk'
      BY <2>1, <3>7 DEF OnItsWayOk, OnItsWay, ThreadsOk
    <3> QED BY <3>3, <3>4, <3>5, <3>6, <3>8
  <2> QED BY <2>2, <2>3
<1>5. ASSUME NEW a \in Attempts, SetTimer(a) PROVE IInv'
  <2>1. HandlersTyped' /\ HandlersOk' /\ CanceledOk'
    BY <1>5, <1>a DEF SetTimer
  <2>2. entry_times' \in 0 .. PortRange - 1
    BY <1>5 DEF SetTimer, NextEntry, VarsTyped
  <2>3. (FirstPort + entry_times') % PortRange \in 0 .. PortRange - 1
    BY <2>2, PortType
  <2>4. threads' = [threads EXCEPT ![a] = [at   |-> "started",
                                           port |-> (FirstPort + entry_times') % PortRange,
                                           ti   |-> a]]
    BY <1>5 DEF SetTimer, CapturedInfo
  <2>5. VarsTyped'
    <3>1. a \in 0 .. MaxAttempts
      BY DEF Attempts
    <3> QED BY <1>5, <2>2, <2>3, <2>4, <3>1 DEF SetTimer, VarsTyped, serviceVars
  <2>6. ThreadsOk'
    <3>1. \A t \in Attempts : t # a => threads'[t] = threads[t]
      BY <2>4 DEF VarsTyped
    <3>2. threads'[a].at = "started" /\ threads'[a].ti = a /\ a <= made /\ a \notin timeouts
      BY <1>5, <2>4 DEF SetTimer, VarsTyped, ThreadsOk
    <3> QED BY <1>5, <3>1, <3>2 DEF SetTimer, ThreadsOk, serviceVars
  <2>7. OnItsWayOk'
    BY <1>5, <2>4 DEF SetTimer, OnItsWayOk, OnItsWay, Repeats, VarsTyped, ThreadsOk, serviceVars, Pending
  <2> QED BY <2>1, <2>5, <2>6, <2>7
<1>6. ASSUME NEW t \in Attempts, Bind(t) PROVE IInv'
  <2>1. HandlersTyped' /\ HandlersOk' /\ CanceledOk'
    BY <1>6, <1>a DEF Bind
  <2>2. threads[t].ti = t /\ threads[t].at = "started"
    BY <1>6 DEF Bind, ThreadsOk
  <2>3. CASE up' = FALSE /\ lost' = lost /\ threads' = [threads EXCEPT ![t].at = "failed"]
    <3>1. VarsTyped'
      BY <1>6, <2>3 DEF Bind, VarsTyped, serviceVars
    <3>2. ThreadsOk'
      BY <1>6, <2>3 DEF Bind, ThreadsOk, VarsTyped, serviceVars
    <3>3. OnItsWayOk'
      BY <2>3 DEF OnItsWayOk
    <3> QED BY <2>1, <3>1, <3>2, <3>3
  <2>4. CASE up' = up /\ lost' = lost /\ threads' = [threads EXCEPT ![t].at = "bound"]
    <3>1. VarsTyped'
      BY <1>6, <2>4 DEF Bind, VarsTyped, serviceVars
    <3>2. ThreadsOk'
      BY <1>6, <2>4 DEF Bind, ThreadsOk, VarsTyped, serviceVars
    <3>3. OnItsWayOk'
      BY <1>6, <2>4 DEF Bind, OnItsWayOk, OnItsWay, ThreadsOk, VarsTyped, serviceVars, Pending
    <3> QED BY <2>1, <3>1, <3>2, <3>3
  <2>5. ASSUME NEW free \in 1 .. PortRange - 1, up' = up, lost' = lost \cup {threads[t].ti},
               threads' = [threads EXCEPT ![t].at = "idle", ![t].port = free]
        PROVE  IInv'
    <3>1. free \in 0 .. PortRange - 1
      BY TimerServiceAssumption
    <3>2. /\ threads'[t] = [at |-> "idle", port |-> free, ti |-> t]
          /\ \A u \in Attempts : u # t => threads'[u] = threads[u]
      BY <2>2, <2>5 DEF VarsTyped
    <3>3. VarsTyped'
      <4>1. threads' \in [Attempts -> [at : {"none", "started", "bound", "asleep", "idle", "failed"},
                                       port : 0 .. PortRange - 1, ti : 0 .. MaxAttempts]]
        BY <2>5, <3>1 DEF VarsTyped
      <4> QED BY <1>6, <2>2, <2>5, <4>1 DEF Bind, VarsTyped, serviceVars
    <3>4. ThreadsOk'
      BY <1>6, <2>2, <3>2 DEF Bind, ThreadsOk, VarsTyped, serviceVars
    <3>5. OnItsWayOk'
      BY <1>6, <2>2, <2>5, <3>2 DEF Bind, OnItsWayOk, OnItsWay, ThreadsOk, VarsTyped, serviceVars, Pending
    <3> QED BY <2>1, <3>3, <3>4, <3>5
  <2> QED BY <1>6, <2>3, <2>4, <2>5 DEF Bind, BindSucceeds, BindFails
<1>7. ASSUME NEW t \in Attempts, ReceiveInit(t) PROVE IInv'
  <2>1. HandlersTyped' /\ HandlersOk' /\ CanceledOk'
    BY <1>7, <1>a DEF ReceiveInit
  <2>2. VarsTyped'
    BY <1>7 DEF ReceiveInit, VarsTyped, ThreadsOk, serviceVars
  <2>3. ThreadsOk'
    BY <1>7 DEF ReceiveInit, ThreadsOk, VarsTyped, serviceVars
  <2>4. OnItsWayOk'
    BY <1>7 DEF ReceiveInit, OnItsWayOk, OnItsWay, ThreadsOk, VarsTyped, serviceVars, Pending
  <2> QED BY <2>1, <2>2, <2>3, <2>4
<1>8. ASSUME NEW t \in Attempts, MissInit(t) PROVE IInv'
  <2>1. HandlersTyped' /\ HandlersOk' /\ CanceledOk'
    BY <1>8, <1>a DEF MissInit
  <2>2. VarsTyped'
    BY <1>8 DEF MissInit, VarsTyped, ThreadsOk, serviceVars
  <2>3. ThreadsOk'
    BY <1>8 DEF MissInit, ThreadsOk, VarsTyped, serviceVars
  <2>4. OnItsWayOk'
    BY <1>8 DEF MissInit, OnItsWayOk, OnItsWay, ThreadsOk, VarsTyped, serviceVars, Pending
  <2> QED BY <2>1, <2>2, <2>3, <2>4
<1>9. ASSUME NEW t \in Attempts, Wake(t) PROVE IInv'
  <2>1. HandlersTyped' /\ HandlersOk' /\ CanceledOk'
    BY <1>9, <1>a DEF Wake
  <2>2. VarsTyped'
    BY <1>9 DEF Wake, VarsTyped, ThreadsOk, serviceVars
  <2>3. ThreadsOk'
    BY <1>9 DEF Wake, ThreadsOk, VarsTyped, serviceVars
  <2>4. OnItsWayOk'
    BY <1>9 DEF Wake, OnItsWayOk, OnItsWay, ThreadsOk, VarsTyped, serviceVars, Pending
  <2> QED BY <2>1, <2>2, <2>3, <2>4
<1>10. ASSUME Lose PROVE IInv'
  <2>1. HandlersTyped' /\ HandlersOk' /\ CanceledOk'
    BY <1>10, <1>a DEF Lose
  <2>2. VarsTyped'
    BY <1>10 DEF Lose, VarsTyped, ThreadsOk, serviceVars
  <2>3. ThreadsOk'
    BY <1>10 DEF Lose, ThreadsOk, serviceVars
  <2>4. OnItsWayOk'
    BY <1>10 DEF Lose, OnItsWayOk, OnItsWay, ThreadsOk, VarsTyped, serviceVars, Pending
  <2> QED BY <2>1, <2>2, <2>3, <2>4
<1>11. ASSUME NEW l \in Loops, ReceiveFails(l) PROVE IInv'
  <2>1. HandlersTyped' /\ HandlersOk' /\ CanceledOk'
    BY <1>11, <1>a DEF ReceiveFails
  <2>2. VarsTyped' /\ ThreadsOk' /\ OnItsWayOk'
    BY <1>11 DEF ReceiveFails, VarsTyped, ThreadsOk, OnItsWayOk, OnItsWay, serviceVars, Pending
  <2> QED BY <2>1, <2>2
<1>12. ASSUME UNCHANGED vars PROVE IInv'
  BY <1>12 DEF vars, TypeOK, HandlersOk, CanceledOk, ThreadsOk, OnItsWayOk, OnItsWay, Pending
<1> QED BY <1>1, <1>2, <1>3, <1>4, <1>5, <1>6, <1>7, <1>8, <1>9, <1>10, <1>11, <1>12 DEF Next

-----------------------------------------------------------------------------
\* The inductive invariant of TimerService (attempts, handlers, canceled ids, and
\* the threads of the timer service).
THEOREM Safety == Spec => []IInv
BY InitIInv, NextIInv, PTL DEF Spec

\* The variables of TimerService keep their types; handlers are those of pending
\* attempts.
THEOREM TypeCorrect == Spec => []TypeOK
<1>1. IInv => TypeOK
  BY DEF IInv
<1> QED BY <1>1, Safety, PTL

\* A pending attempt whose timer was not lost waits for a timeout that is on its
\* way and will not be ignored (set_timer, cancel_timer, should_ignore).
THEOREM PendingGuarded == Spec => []PendingIsGuarded
<1>1. IInv => PendingIsGuarded
  BY PendingNotCanceled DEF IInv, OnItsWayOk, PendingIsGuarded
<1> QED BY <1>1, Safety, PTL

\* An attempt is timed out by its own timer, or by one that a full round of ids
\* before was left running (on_timeout).
THEOREM OwnTimeouts == Spec => TimeoutIsOwn
<1> DEFINE Own == \A a \in Attempts : Pending(a) /\ state'[a] = "timeout" =>
                     \E t \in timeouts \ timeouts' :
                        t = a \/ (t < a /\ Id(t) = Id(a) /\ state[t] # "answered")
<1>1. IInv /\ [Next]_vars => [Own]_vars
  <2> SUFFICES ASSUME IInv, Next, NEW a \in Attempts, Pending(a), state'[a] = "timeout"
               PROVE  \E t \in timeouts \ timeouts' :
                         t = a \/ (t < a /\ Id(t) = Id(a) /\ state[t] # "answered")
    OBVIOUS
  <2> USE DEF IInv
  <2>1. PICK t \in Attempts : TimeoutArrives(t)
    BY DEF Next, Attempt, Respond, Release, SetTimer, Bind, BindSucceeds, BindFails, ReceiveInit, MissInit, Wake, Lose,
           ReceiveFails, serviceVars, TypeOK, Pending
  <2>2. t \in timeouts \ timeouts' /\ threads[t].ti = t /\ t <= made
    BY <2>1 DEF TimeoutArrives, ThreadsOk
  <2>3. Id(t) \notin canceled_timer_ids_ /\ Id(a) = Id(t)
    BY <2>1, <2>2 DEF TimeoutArrives, ShouldIgnore, TypeOK, Pending
  <2>4. state[t] # "answered" /\ ~(a < t)
    BY <2>2, <2>3 DEF CanceledOk, HandlersOk
  <2>5. t = a \/ t < a
    BY <2>4, Ids
  <2> QED BY <2>2, <2>3, <2>4, <2>5
<1> QED BY <1>1, Safety, PTL DEF Spec, TimeoutIsOwn

-----------------------------------------------------------------------------
\* The attempts a thread was started for.
Started == {t \in Attempts : threads[t].at # "none"}

FewAttempts == made < PortRange - FirstPort

\* With few attempts the threads have been counted, each has a port above
\* FirstPort of its own, and one that could not bind met a port of others.
PortsOk ==
    FewAttempts =>
        /\ entry_times = Cardinality(Started)
        /\ \A t \in Started : threads[t].port \in FirstPort + 1 .. FirstPort + entry_times
        /\ \A t, u \in Started : threads[t].port = threads[u].port => t = u
        /\ \A t \in Attempts : threads[t].at = "failed" => threads[t].port \in Others

\* The threads started are as many as there have been attempts, at most, and
\* fewer while one more is asked for.
LEMMA Counting ==
    ASSUME TypeOK, ThreadsOk
    PROVE  /\ IsFiniteSet(Started) /\ Cardinality(Started) \in Nat
           /\ Cardinality(Started) <= made
           /\ \A a \in requests : a \notin Started /\ Cardinality(Started) + 1 <= made
<1>1. made \in Nat /\ \A t \in Attempts : t \in Nat /\ t >= 1
  BY TimerServiceAssumption DEF TypeOK, Attempts
<1>2. Started \subseteq 1 .. made
  BY <1>1 DEF ThreadsOk, Started
<1>3. IsFiniteSet(1 .. made) /\ Cardinality(1 .. made) = made
  BY <1>1, FS_Interval
<1>4. IsFiniteSet(Started) /\ Cardinality(Started) <= made
  BY <1>2, <1>3, FS_Subset
<1>5. Cardinality(Started) \in Nat
  BY <1>4, FS_CardinalityType
<1>6. ASSUME NEW a \in requests PROVE a \notin Started /\ Cardinality(Started) + 1 <= made
  <2>1. a \notin Started /\ Started \cup {a} \subseteq 1 .. made
    BY <1>1, <1>2 DEF TypeOK, ThreadsOk, Started
  <2>2. Cardinality(Started \cup {a}) = Cardinality(Started) + 1
    BY <1>4, <2>1, FS_AddElement
  <2>3. Cardinality(Started \cup {a}) <= made
    BY <1>3, <2>1, FS_Subset
  <2> QED BY <2>1, <2>2, <2>3
<1> QED BY <1>4, <1>5, <1>6

\* The port of the next thread.
LEMMA NextPort ==
    ASSUME NEW e \in 1 .. PortRange - FirstPort - 1
    PROVE  (FirstPort + e) % PortRange = FirstPort + e
<1>1. /\ FirstPort \in Nat /\ PortRange \in Nat \ {0} /\ e \in Nat
      /\ FirstPort + e < PortRange
  BY TimerServiceAssumption
<1> QED BY <1>1

\* A step that starts no thread, moves no port, and at which none fails to bind.
LEMMA SamePorts ==
    ASSUME PortsOk, entry_times' = entry_times, made' \in {made, made + 1},
           made \in Nat, Started' = Started,
           \A t \in Attempts : /\ threads'[t].port = threads[t].port
                               /\ threads'[t].at = "failed" =>
                                      threads[t].at = "failed" \/ threads[t].port \in Others
    PROVE  PortsOk'
<1>1. FewAttempts' => FewAttempts
  BY TimerServiceAssumption DEF FewAttempts
<1>2. \A t \in Started : threads'[t].port = threads[t].port
  BY DEF Started
<1> QED BY <1>1, <1>2 DEF PortsOk

LEMMA PortsStep ==
    ASSUME IInv, PortsOk, [Next]_vars
    PROVE  PortsOk'
<1>1. TypeOK /\ ThreadsOk /\ made \in Nat
  BY TimerServiceAssumption DEF IInv, TypeOK
<1>2. ASSUME UNCHANGED <<entry_times, threads>>, made' \in {made, made + 1} PROVE PortsOk'
  BY <1>1, <1>2, SamePorts DEF Started
<1>3. ASSUME NEW t \in Attempts, NEW at \in {"bound", "asleep", "idle", "failed"},
             threads[t].at # "none", at = "failed" => threads[t].port \in Others,
             threads' = [threads EXCEPT ![t].at = at], UNCHANGED <<entry_times, made>>
      PROVE  PortsOk'
  <2>1. \A u \in Attempts : /\ threads'[u].port = threads[u].port
                            /\ threads'[u].at = "none" <=> threads[u].at = "none"
                            /\ threads'[u].at = "failed" =>
                                   threads[u].at = "failed" \/ threads[u].port \in Others
    BY <1>1, <1>3 DEF TypeOK
  <2> QED BY <1>1, <1>3, <2>1, SamePorts DEF Started
<1>4. CASE Attempt
  BY <1>2, <1>4 DEF Attempt
<1>5. ASSUME NEW a \in Attempts, Respond(a) \/ Release(a) \/ TimeoutArrives(a) PROVE PortsOk'
  BY <1>2, <1>5 DEF Respond, Release, TimeoutArrives
<1>6. ASSUME NEW a \in Attempts, SetTimer(a) PROVE PortsOk'
  <2>1. SUFFICES ASSUME FewAttempts PROVE PortsOk'
    BY <1>6 DEF SetTimer, serviceVars, PortsOk, FewAttempts
  <2>2. a \in requests /\ made' = made /\ entry_times' = NextEntry
    BY <1>6 DEF SetTimer, serviceVars
  <2> DEFINE e == entry_times + 1
             p == (FirstPort + e) % PortRange
  <2>3. a \notin Started /\ entry_times \in Nat /\ e <= made
    BY <1>1, <2>1, <2>2, Counting DEF PortsOk
  <2>4. e \in 1 .. PortRange - FirstPort - 1
    BY <1>1, <2>1, <2>3, TimerServiceAssumption DEF FewAttempts
  <2>5. entry_times' = e
    <3>1. e \in Nat /\ e < PortRange /\ PortRange \in Nat
      BY <2>4, TimerServiceAssumption
    <3> QED BY <2>2, <3>1 DEF NextEntry
  <2>6. /\ \A t \in Attempts : t # a => threads'[t] = threads[t]
        /\ threads'[a].at = "started" /\ threads'[a].port = p
    BY <1>1, <1>6, <2>5 DEF SetTimer, TypeOK
  <2> HIDE DEF e, p
  <2>7. Started' = Started \cup {a}
    BY <2>6 DEF Started
  <2>8. entry_times' = Cardinality(Started')
    BY <1>1, <2>1, <2>3, <2>5, <2>7, Counting, FS_AddElement DEF PortsOk, e
  <2>9. p = FirstPort + e
    BY <2>4, NextPort DEF p
  <2>10. /\ FirstPort + e \in FirstPort + 1 .. FirstPort + e
         /\ FirstPort + 1 .. FirstPort + entry_times \subseteq FirstPort + 1 .. FirstPort + e
         /\ FirstPort + e \notin FirstPort + 1 .. FirstPort + entry_times
    BY <2>3, TimerServiceAssumption DEF e
  <2>11. ASSUME NEW t \in Started'
         PROVE  threads'[t].port \in FirstPort + 1 .. FirstPort + e
    <3>1. CASE t = a
      BY <3>1, <2>6, <2>9, <2>10
    <3>2. CASE t # a
      BY <3>2, <2>1, <2>6, <2>7, <2>10 DEF PortsOk, Started
    <3> QED BY <3>1, <3>2
  <2>12. ASSUME NEW t \in Started', NEW u \in Started', threads'[t].port = threads'[u].port
         PROVE  t = u
    <3>1. ASSUME NEW v \in Started PROVE threads[v].port # p
      BY <3>1, <2>1, <2>9, <2>10 DEF PortsOk
    <3>2. CASE t # a /\ u # a
      BY <3>2, <2>1, <2>6, <2>7, <2>12 DEF PortsOk, Started
    <3>3. CASE t = a \/ u = a
      BY <3>1, <3>3, <2>6, <2>7, <2>12 DEF Started
    <3> QED BY <3>2, <3>3
  <2>13. ASSUME NEW t \in Attempts, threads'[t].at = "failed" PROVE threads'[t].port \in Others
    BY <2>1, <2>6, <2>13 DEF PortsOk
  <2> QED BY <2>1, <2>2, <2>5, <2>8, <2>11, <2>12, <2>13 DEF PortsOk
<1>7. ASSUME NEW t \in Attempts, Bind(t) PROVE PortsOk'
  <2>1. SUFFICES ASSUME FewAttempts PROVE PortsOk'
    BY <1>7 DEF Bind, serviceVars, PortsOk, FewAttempts
  <2>2. threads[t].at = "started" /\ UNCHANGED <<made, entry_times>>
    BY <1>7 DEF Bind, serviceVars
  <2>3. t \in Started /\ Bound \subseteq Started /\ t \notin Bound
    BY <2>2 DEF Started, Bound
  <2>4. threads[t].port # 0
    <3>1. threads[t].port \in FirstPort + 1 .. FirstPort + entry_times
      BY <2>1, <2>3 DEF PortsOk
    <3>2. entry_times \in Nat /\ FirstPort \in Nat
      BY <1>1, TimerServiceAssumption DEF TypeOK
    <3> QED BY <3>1, <3>2
  <2>5. threads[t].port \notin OwnPorts
    BY <2>1, <2>3 DEF PortsOk, OwnPorts
  <2>6. \/ threads' = [threads EXCEPT ![t].at = "bound"]
        \/ threads[t].port \in Others /\ threads' = [threads EXCEPT ![t].at = "failed"]
    BY <1>7, <2>4, <2>5 DEF Bind, BindSucceeds, BindFails
  <2> QED BY <1>3, <2>2, <2>6
<1>8. ASSUME NEW t \in Attempts, ReceiveInit(t) \/ MissInit(t) \/ Wake(t) PROVE PortsOk'
  <2>1. /\ threads[t].at # "none" /\ UNCHANGED <<entry_times, made>>
        /\ \E at \in {"bound", "asleep", "idle"} : threads' = [threads EXCEPT ![t].at = at]
    BY <1>8 DEF ReceiveInit, MissInit, Wake, serviceVars
  <2> QED BY <1>3, <2>1
<1>9. CASE Lose \/ (\E l \in Loops : ReceiveFails(l)) \/ UNCHANGED vars
  BY <1>2, <1>9 DEF Lose, ReceiveFails, vars, serviceVars
<1> QED BY <1>4, <1>5, <1>6, <1>7, <1>8, <1>9 DEF Next

\* A timer's thread finds its port held only by others, until there have been as
\* many attempts as ports from the first one on (temp_udp_port of set_timer),
\* whatever others hold and when.
THEOREM PortsLastHolds == Spec => []PortsLast
<1>1. Init => PortsOk
  <2> SUFFICES ASSUME Init PROVE PortsOk
    OBVIOUS
  <2>1. Started = {} /\ entry_times = 0 /\ \A t \in Attempts : threads[t].at = "none"
    BY DEF Init, Started, NoThread
  <2> QED BY <2>1, FS_EmptySet DEF PortsOk
<1>2. IInv /\ PortsOk /\ [Next]_vars => PortsOk'
  BY PortsStep
<1>3. IInv /\ PortsOk => PortsLast
  BY TimerServiceAssumption DEF IInv, TypeOK, PortsOk, PortsLast, FewAttempts
<1> QED BY <1>1, <1>2, <1>3, Safety, PTL DEF Spec
=============================================================================
