--------------------------- MODULE RpcCall_proofs ---------------------------
(***************************************************************************)
(* Proofs about RpcCall, for any number of SIs, calls and retries.         *)
(***************************************************************************)
EXTENDS RpcCall, FiniteSetTheorems, TLAPS

\* The event loop waits, or runs the code of an SI that has started; a
\* sink that is still registered in the turn of its response has its result.
TurnOK ==
    /\ \/ main = Idle
       \/ /\ main.at \in {"build", "cascade"}
          /\ main.si \in SIs
          /\ siState[main.si] # "new"
    /\ main.at = "build" => siState[main.si] = "open" /\ main.rsp = 0
    /\ Registered(main.rsp) => status[id_func_map_[main.rsp]] \in Resolved

\* A call not made yet has no registered cell; an SI not started has made none.
UnstartedCalls ==
    \A x \in Calls :
        /\ status[x] = "idle" => ~has_seq_id_[x]
        /\ siState[SiOf[x]] = "new" => status[x] = "idle"

\* Only guarded calls have timers, and only the endpoint's own requests exist,
\* one per id.
MessagesOK ==
    /\ \A id \in DOMAIN id_func_map_ :
          /\ id \in timers => id_func_map_[id] \in Guarded
          /\ [seq |-> id, call |-> id_func_map_[id]] \in reqs
    /\ \A r1, r2 \in reqs : r1.seq = r2.seq => r1 = r2
    /\ \A r \in reqs : status[r.call] # "idle"

IInv == /\ TypeOK
        /\ TurnOK
        /\ UnstartedCalls
        /\ MessagesOK
        /\ HandlersMatchCells
        /\ PendingCallCanEnd
        /\ ResolvedCallUnregistered

\* Tearing an SI down removes exactly the handlers of its cells (~RpcContext,
\* ~RspCellBase), because handlers and cells match.
LEMMA TearDownHandlers ==
    ASSUME TypeOK, HandlersMatchCells, NEW s \in SIs, TearDown(s)
    PROVE  /\ DOMAIN id_func_map_' = {id \in DOMAIN id_func_map_ : SiOf[id_func_map_[id]] # s}
           /\ \A id \in DOMAIN id_func_map_' : id_func_map_'[id] = id_func_map_[id]
           /\ id_func_map_' \in [DOMAIN id_func_map_' -> Calls]
           /\ has_seq_id_' \in [Calls -> BOOLEAN]
           /\ \A c \in Calls : has_seq_id_'[c] <=> has_seq_id_[c] /\ SiOf[c] # s
           /\ siState' = [siState EXCEPT ![s] = "released"]
<1> DEFINE gone == {seq_id_[c] : c \in {d \in CallsOf(s) : has_seq_id_[d]}}
<1>1. \A id \in DOMAIN id_func_map_ : id \in gone <=> SiOf[id_func_map_[id]] = s
  BY DEF TypeOK, HandlersMatchCells, CallsOf, Registered
<1>2. id_func_map_' = MapWithout(gone)
  BY DEF TearDown
<1> HIDE DEF gone
<1>3. /\ DOMAIN id_func_map_' = {id \in DOMAIN id_func_map_ : SiOf[id_func_map_[id]] # s}
      /\ \A id \in DOMAIN id_func_map_' : id_func_map_'[id] = id_func_map_[id]
      /\ id_func_map_' \in [DOMAIN id_func_map_' -> Calls]
  BY <1>1, <1>2 DEF TypeOK, MapWithout
<1>4. /\ has_seq_id_' \in [Calls -> BOOLEAN]
      /\ \A c \in Calls : has_seq_id_'[c] <=> has_seq_id_[c] /\ SiOf[c] # s
      /\ siState' = [siState EXCEPT ![s] = "released"]
  BY DEF TypeOK, TearDown
<1> QED
  BY <1>3, <1>4

\* A process that has made no rpc satisfies the invariant.
LEMMA InitIInv == Init => IInv
  BY RpcCallAssumption DEF Init, IInv, TypeOK, TurnOK, UnstartedCalls, MessagesOK,
     HandlersMatchCells, PendingCallCanEnd, ResolvedCallUnregistered, Registered, Resolved,
     Failures, Idle

\* An SI starts (run_si).
LEMMA StartSIKeeps ==
    ASSUME IInv, NEW s \in SIs, StartSI(s)
    PROVE  IInv'
<1> USE RpcCallAssumption DEF IInv
<1>1. TypeOK'
  BY DEF TypeOK, StartSI, Registered, Resolved, Failures, Idle, Turn, cellVars, netVars
<1>2. TurnOK'
  BY DEF TypeOK, TurnOK, HandlersMatchCells, ResolvedCallUnregistered, UnstartedCalls, StartSI, Registered, Resolved, Failures, Idle, Turn, cellVars, netVars
<1>3. UnstartedCalls'
  BY DEF TypeOK, TurnOK, UnstartedCalls, HandlersMatchCells, StartSI, Registered, Resolved, Failures, Idle, Turn, cellVars, netVars
<1>4. MessagesOK'
  BY DEF TypeOK, MessagesOK, UnstartedCalls, HandlersMatchCells, StartSI, Registered, Resolved, Failures, Idle, Turn, cellVars, netVars
<1>5. HandlersMatchCells'
  BY DEF TypeOK, TurnOK, HandlersMatchCells, UnstartedCalls, StartSI, Registered, Resolved, Failures, Idle, Turn, cellVars, netVars
<1>6. PendingCallCanEnd'
  BY DEF TypeOK, TurnOK, HandlersMatchCells, PendingCallCanEnd, ResolvedCallUnregistered, UnstartedCalls, StartSI, Registered, Resolved, Failures, Idle, Turn, cellVars, netVars
<1>7. ResolvedCallUnregistered'
  BY DEF TypeOK, TurnOK, HandlersMatchCells, ResolvedCallUnregistered, UnstartedCalls, StartSI, Registered, Resolved, Failures, Idle, Turn, cellVars, netVars
<1> QED
  BY <1>1, <1>2, <1>3, <1>4, <1>5, <1>6, <1>7

\* An SI makes an rpc and its request is sent (send_rpc_request_buf).
LEMMA StartCallSentKeeps ==
    ASSUME IInv, NEW c \in Calls, StartCall(c), Send(c, {})
    PROVE  IInv'
<1> USE RpcCallAssumption DEF IInv
<1>0. siState[SiOf[c]] \in {"open", "leaked"}
  BY DEF TypeOK, TurnOK, StartCall, Idle
<1>1. TypeOK'
  BY DEF TypeOK, StartCall, Send, TimersWith, Registered, Resolved, Failures, Idle, Turn, cellVars, netVars
<1>2. TurnOK'
  BY DEF TypeOK, TurnOK, HandlersMatchCells, ResolvedCallUnregistered, UnstartedCalls, StartCall, Send, TimersWith, Registered, Resolved, Failures, Idle, Turn, cellVars, netVars
<1>3. UnstartedCalls'
  BY <1>0 DEF TypeOK, TurnOK, UnstartedCalls, HandlersMatchCells, StartCall, Send, TimersWith, Registered, Resolved, Failures, Idle, Turn, cellVars, netVars
<1>4. MessagesOK'
  BY DEF TypeOK, MessagesOK, UnstartedCalls, HandlersMatchCells, StartCall, Send, TimersWith, Registered, Resolved, Failures, Idle, Turn, cellVars, netVars
<1>5. HandlersMatchCells'
  BY <1>0 DEF TypeOK, TurnOK, HandlersMatchCells, UnstartedCalls, StartCall, Send, TimersWith, Registered, Resolved, Failures, Idle, Turn, cellVars, netVars
<1>6. PendingCallCanEnd'
  BY DEF TypeOK, TurnOK, HandlersMatchCells, PendingCallCanEnd, ResolvedCallUnregistered, UnstartedCalls, StartCall, Send, TimersWith, Registered, Resolved, Failures, Idle, Turn, cellVars, netVars
<1>7. ResolvedCallUnregistered'
  BY DEF TypeOK, TurnOK, HandlersMatchCells, ResolvedCallUnregistered, UnstartedCalls, StartCall, Send, TimersWith, Registered, Resolved, Failures, Idle, Turn, cellVars, netVars
<1> QED
  BY <1>1, <1>2, <1>3, <1>4, <1>5, <1>6, <1>7

\* An SI makes an rpc that cannot be sent (encode_request_and_send).
LEMMA StartCallNotSentKeeps ==
    ASSUME IInv, NEW c \in Calls, StartCall(c), NotSent(c, {})
    PROVE  IInv'
<1> USE RpcCallAssumption DEF IInv
<1>0. siState[SiOf[c]] \in {"open", "leaked"}
  BY DEF TypeOK, TurnOK, StartCall, Idle
<1>1. TypeOK'
  BY DEF TypeOK, StartCall, NotSent, MapWithout, Registered, Resolved, Failures, Idle, Turn, cellVars, netVars
<1>2. TurnOK'
  BY DEF TypeOK, TurnOK, HandlersMatchCells, ResolvedCallUnregistered, UnstartedCalls, StartCall, NotSent, MapWithout, Registered, Resolved, Failures, Idle, Turn, cellVars, netVars
<1>3. UnstartedCalls'
  BY <1>0 DEF TypeOK, TurnOK, UnstartedCalls, HandlersMatchCells, StartCall, NotSent, MapWithout, Registered, Resolved, Failures, Idle, Turn, cellVars, netVars
<1>4. MessagesOK'
  BY DEF TypeOK, MessagesOK, UnstartedCalls, HandlersMatchCells, StartCall, NotSent, MapWithout, Registered, Resolved, Failures, Idle, Turn, cellVars, netVars
<1>5. HandlersMatchCells'
  BY DEF TypeOK, TurnOK, HandlersMatchCells, UnstartedCalls, StartCall, NotSent, MapWithout, Registered, Resolved, Failures, Idle, Turn, cellVars, netVars
<1>6. PendingCallCanEnd'
  BY DEF TypeOK, TurnOK, HandlersMatchCells, PendingCallCanEnd, ResolvedCallUnregistered, UnstartedCalls, StartCall, NotSent, MapWithout, Registered, Resolved, Failures, Idle, Turn, cellVars, netVars
<1>7. ResolvedCallUnregistered'
  BY DEF TypeOK, TurnOK, HandlersMatchCells, ResolvedCallUnregistered, UnstartedCalls, StartCall, NotSent, MapWithout, Registered, Resolved, Failures, Idle, Turn, cellVars, netVars
<1> QED
  BY <1>1, <1>2, <1>3, <1>4, <1>5, <1>6, <1>7

\* run_si returns and the SI stays, open or leaked.
LEMMA EndBuildOpenKeeps ==
    ASSUME IInv, EndBuild, UNCHANGED <<id_func_map_, has_seq_id_>>, siState' \in {siState, [siState EXCEPT ![main.si] = "leaked"]}
    PROVE  IInv'
<1> USE RpcCallAssumption DEF IInv
<1>1. TypeOK'
  BY DEF TypeOK, EndBuild, Registered, Resolved, Failures, Idle, Turn, cellVars, netVars
<1>2. TurnOK'
  BY DEF TypeOK, TurnOK, HandlersMatchCells, ResolvedCallUnregistered, UnstartedCalls, EndBuild, Registered, Resolved, Failures, Idle, Turn, cellVars, netVars
<1>3. UnstartedCalls'
  BY DEF TypeOK, TurnOK, UnstartedCalls, HandlersMatchCells, EndBuild, Registered, Resolved, Failures, Idle, Turn, cellVars, netVars
<1>4. MessagesOK'
  BY DEF TypeOK, MessagesOK, UnstartedCalls, HandlersMatchCells, EndBuild, Registered, Resolved, Failures, Idle, Turn, cellVars, netVars
<1>5. HandlersMatchCells'
  BY DEF TypeOK, TurnOK, HandlersMatchCells, UnstartedCalls, EndBuild, Registered, Resolved, Failures, Idle, Turn, cellVars, netVars
<1>6. PendingCallCanEnd'
  BY DEF TypeOK, TurnOK, HandlersMatchCells, PendingCallCanEnd, ResolvedCallUnregistered, UnstartedCalls, EndBuild, Registered, Resolved, Failures, Idle, Turn, cellVars, netVars
<1>7. ResolvedCallUnregistered'
  BY DEF TypeOK, TurnOK, HandlersMatchCells, ResolvedCallUnregistered, UnstartedCalls, EndBuild, Registered, Resolved, Failures, Idle, Turn, cellVars, netVars
<1> QED
  BY <1>1, <1>2, <1>3, <1>4, <1>5, <1>6, <1>7

\* run_si returns a value at once and the SI is deleted.
LEMMA EndBuildTearKeeps ==
    ASSUME IInv, EndBuild, TearDown(main.si)
    PROVE  IInv'
<1> USE RpcCallAssumption DEF IInv
<1>a. main.si \in SIs /\ siState[main.si] = "open"
  BY DEF TypeOK, TurnOK, EndBuild, FinishSI, Idle
<1>b. /\ DOMAIN id_func_map_' = {id \in DOMAIN id_func_map_ : SiOf[id_func_map_[id]] # main.si}
      /\ \A id \in DOMAIN id_func_map_' : id_func_map_'[id] = id_func_map_[id]
      /\ id_func_map_' \in [DOMAIN id_func_map_' -> Calls]
      /\ has_seq_id_' \in [Calls -> BOOLEAN]
      /\ \A c \in Calls : has_seq_id_'[c] <=> has_seq_id_[c] /\ SiOf[c] # main.si
      /\ siState' = [siState EXCEPT ![main.si] = "released"]
  BY <1>a, TearDownHandlers DEF EndBuild, FinishSI
<1>1. TypeOK'
  BY <1>a, <1>b DEF TypeOK, EndBuild, Registered, Resolved, Failures, Idle, Turn, cellVars, netVars
<1>2. TurnOK'
  BY <1>a, <1>b DEF TypeOK, TurnOK, HandlersMatchCells, ResolvedCallUnregistered, UnstartedCalls, EndBuild, Registered, Resolved, Failures, Idle, Turn, cellVars, netVars
<1>3. UnstartedCalls'
  BY <1>a, <1>b DEF TypeOK, TurnOK, UnstartedCalls, HandlersMatchCells, EndBuild, Registered, Resolved, Failures, Idle, Turn, cellVars, netVars
<1>4. MessagesOK'
  BY <1>a, <1>b DEF TypeOK, MessagesOK, UnstartedCalls, HandlersMatchCells, EndBuild, Registered, Resolved, Failures, Idle, Turn, cellVars, netVars
<1>5. HandlersMatchCells'
  BY <1>a, <1>b DEF TypeOK, TurnOK, HandlersMatchCells, UnstartedCalls, EndBuild, Registered, Resolved, Failures, Idle, Turn, cellVars, netVars
<1>6. PendingCallCanEnd'
  BY <1>a, <1>b DEF TypeOK, TurnOK, HandlersMatchCells, PendingCallCanEnd, ResolvedCallUnregistered, UnstartedCalls, EndBuild, Registered, Resolved, Failures, Idle, Turn, cellVars, netVars
<1>7. ResolvedCallUnregistered'
  BY <1>a, <1>b DEF TypeOK, TurnOK, HandlersMatchCells, ResolvedCallUnregistered, UnstartedCalls, EndBuild, Registered, Resolved, Failures, Idle, Turn, cellVars, netVars
<1> QED
  BY <1>1, <1>2, <1>3, <1>4, <1>5, <1>6, <1>7

\* The final action deletes the SI inside the turn of a response or timeout.
LEMMA FinishSIKeeps ==
    ASSUME IInv, FinishSI
    PROVE  IInv'
<1> USE RpcCallAssumption DEF IInv
<1>a. main.si \in SIs /\ siState[main.si] = "open"
  BY DEF TypeOK, TurnOK, EndBuild, FinishSI, Idle
<1>b. /\ DOMAIN id_func_map_' = {id \in DOMAIN id_func_map_ : SiOf[id_func_map_[id]] # main.si}
      /\ \A id \in DOMAIN id_func_map_' : id_func_map_'[id] = id_func_map_[id]
      /\ id_func_map_' \in [DOMAIN id_func_map_' -> Calls]
      /\ has_seq_id_' \in [Calls -> BOOLEAN]
      /\ \A c \in Calls : has_seq_id_'[c] <=> has_seq_id_[c] /\ SiOf[c] # main.si
      /\ siState' = [siState EXCEPT ![main.si] = "released"]
  BY <1>a, TearDownHandlers DEF EndBuild, FinishSI
<1>1. TypeOK'
  BY <1>a, <1>b DEF TypeOK, FinishSI, Registered, Resolved, Failures, Idle, Turn, cellVars, netVars
<1>2. TurnOK'
  BY <1>a, <1>b DEF TypeOK, TurnOK, HandlersMatchCells, ResolvedCallUnregistered, UnstartedCalls, FinishSI, Registered, Resolved, Failures, Idle, Turn, cellVars, netVars
<1>3. UnstartedCalls'
  BY <1>a, <1>b DEF TypeOK, TurnOK, UnstartedCalls, HandlersMatchCells, FinishSI, Registered, Resolved, Failures, Idle, Turn, cellVars, netVars
<1>4. MessagesOK'
  BY <1>a, <1>b DEF TypeOK, MessagesOK, UnstartedCalls, HandlersMatchCells, FinishSI, Registered, Resolved, Failures, Idle, Turn, cellVars, netVars
<1>5. HandlersMatchCells'
  BY <1>a, <1>b DEF TypeOK, TurnOK, HandlersMatchCells, UnstartedCalls, FinishSI, Registered, Resolved, Failures, Idle, Turn, cellVars, netVars
<1>6. PendingCallCanEnd'
  BY <1>a, <1>b DEF TypeOK, TurnOK, HandlersMatchCells, PendingCallCanEnd, ResolvedCallUnregistered, UnstartedCalls, FinishSI, Registered, Resolved, Failures, Idle, Turn, cellVars, netVars
<1>7. ResolvedCallUnregistered'
  BY <1>a, <1>b DEF TypeOK, TurnOK, HandlersMatchCells, ResolvedCallUnregistered, UnstartedCalls, FinishSI, Registered, Resolved, Failures, Idle, Turn, cellVars, netVars
<1> QED
  BY <1>1, <1>2, <1>3, <1>4, <1>5, <1>6, <1>7

\* A handler returns and deletes the entry of its response (handle_rpc_rsp).
LEMMA EndCascadeKeeps ==
    ASSUME IInv, EndCascade
    PROVE  IInv'
<1> USE RpcCallAssumption DEF IInv
<1>1. TypeOK'
  BY DEF TypeOK, EndCascade, delete_rsp_handler_if_exist, MapWithout, Registered, Resolved, Failures, Idle, Turn, cellVars, netVars
<1>2. TurnOK'
  BY DEF TypeOK, TurnOK, HandlersMatchCells, ResolvedCallUnregistered, UnstartedCalls, EndCascade, delete_rsp_handler_if_exist, MapWithout, Registered, Resolved, Failures, Idle, Turn, cellVars, netVars
<1>3. UnstartedCalls'
  BY DEF TypeOK, TurnOK, UnstartedCalls, HandlersMatchCells, EndCascade, delete_rsp_handler_if_exist, MapWithout, Registered, Resolved, Failures, Idle, Turn, cellVars, netVars
<1>4. MessagesOK'
  BY DEF TypeOK, MessagesOK, UnstartedCalls, HandlersMatchCells, EndCascade, delete_rsp_handler_if_exist, MapWithout, Registered, Resolved, Failures, Idle, Turn, cellVars, netVars
<1>5. HandlersMatchCells'
  <2>1. \A id \in DOMAIN id_func_map_' :
           /\ id \in DOMAIN id_func_map_ /\ id # main.rsp
           /\ id_func_map_'[id] = id_func_map_[id]
    BY DEF EndCascade, delete_rsp_handler_if_exist, MapWithout
  <2>2. ASSUME NEW id \in DOMAIN id_func_map_'
        PROVE  has_seq_id_'[id_func_map_[id]]
    <3>1. /\ id_func_map_[id] \in Calls /\ has_seq_id_[id_func_map_[id]]
          /\ seq_id_[id_func_map_[id]] = id
      BY <2>1 DEF TypeOK, HandlersMatchCells
    <3>2. ~(Registered(main.rsp) /\ id_func_map_[main.rsp] = id_func_map_[id])
      BY <2>1, <3>1 DEF HandlersMatchCells, Registered
    <3> QED
      BY <3>1, <3>2 DEF EndCascade, delete_rsp_handler_if_exist
  <2>3. ASSUME NEW c \in Calls, has_seq_id_'[c]
        PROVE  Registered(seq_id_[c])' /\ id_func_map_'[seq_id_[c]] = c
    <3>1. has_seq_id_[c] /\ seq_id_[c] \in DOMAIN id_func_map_ /\ id_func_map_[seq_id_[c]] = c
      BY <2>3 DEF EndCascade, delete_rsp_handler_if_exist, HandlersMatchCells, Registered
    <3>2. seq_id_[c] # main.rsp
      BY <2>3, <3>1 DEF EndCascade, delete_rsp_handler_if_exist, Registered
    <3> QED
      BY <3>1, <3>2 DEF EndCascade, delete_rsp_handler_if_exist, MapWithout, Registered
  <2> QED
    BY <2>1, <2>2, <2>3 DEF HandlersMatchCells, EndCascade, Registered
<1>6. PendingCallCanEnd'
  BY DEF TypeOK, TurnOK, HandlersMatchCells, PendingCallCanEnd, ResolvedCallUnregistered, UnstartedCalls, EndCascade, delete_rsp_handler_if_exist, MapWithout, Registered, Resolved, Failures, Idle, Turn, cellVars, netVars
<1>7. ResolvedCallUnregistered'
  <2> SUFFICES ASSUME NEW c \in Calls, status[c] \in Resolved, has_seq_id_'[c]
               PROVE  FALSE
    BY DEF ResolvedCallUnregistered, EndCascade
  <2>1. has_seq_id_[c] /\ ~(Registered(main.rsp) /\ id_func_map_[main.rsp] = c)
    BY DEF EndCascade, delete_rsp_handler_if_exist
  <2>2. main.rsp = seq_id_[c]
    BY <2>1 DEF ResolvedCallUnregistered
  <2> QED
    BY <2>1, <2>2 DEF HandlersMatchCells, Registered
<1> QED
  BY <1>1, <1>2, <1>3, <1>4, <1>5, <1>6, <1>7

\* A response resolves its call and starts the turn of its SI.
LEMMA OnRpcRspKeeps ==
    ASSUME IInv, NEW m \in rsps, OnRpcRsp(m)
    PROVE  IInv'
<1> USE RpcCallAssumption DEF IInv
<1> DEFINE c == id_func_map_[m.seq]
<1>a. /\ m.seq \in DOMAIN id_func_map_ /\ m.seq \in 1 .. sequence_id_ /\ c \in Calls
      /\ SiOf[c] \in SIs /\ siState[SiOf[c]] \in {"open", "leaked"}
      /\ seq_id_[c] = m.seq /\ has_seq_id_[c] /\ main = Idle
  <2>1. m.seq \in DOMAIN id_func_map_ /\ main = Idle
    BY DEF OnRpcRsp, Registered
  <2>2. m.seq \in 1 .. sequence_id_ /\ c \in Calls /\ SiOf[c] \in SIs
    BY <2>1 DEF TypeOK
  <2> QED
    BY <2>1, <2>2 DEF HandlersMatchCells
<1>b. PICK r \in Resolved : status' = [status EXCEPT ![c] = r]
  BY DEF TypeOK, OnRpcRsp, Resolved, Failures
<1>c. main' = [at |-> "cascade", si |-> SiOf[c], rsp |-> m.seq]
  BY DEF OnRpcRsp, Turn
<1>d. canceled_timer_ids_' \subseteq canceled_timer_ids_ \cup {m.seq}
  BY DEF OnRpcRsp, TimerCanceled
<1>e. UNCHANGED <<sequence_id_, id_func_map_, seq_id_, has_seq_id_, retry_times_, siState,
                  reqs, rsps, serving, timers>>
  BY DEF OnRpcRsp, netVars
<1> HIDE DEF c
<1>1. TypeOK'
  <2>1. status' \in [Calls -> {"idle", "empty"} \cup Resolved]
    BY <1>a, <1>b DEF TypeOK
  <2>2. main' \in [at : {"idle", "build", "cascade"}, si : SIs \cup {NoSI}, rsp : 0 .. sequence_id_]
    BY <1>a, <1>c
  <2>3. canceled_timer_ids_' \subseteq 1 .. sequence_id_
    BY <1>a, <1>d DEF TypeOK
  <2> QED
    BY <2>1, <2>2, <2>3, <1>e DEF TypeOK
<1>2. TurnOK'
  BY <1>a, <1>b, <1>c, <1>d, <1>e DEF TypeOK, TurnOK, HandlersMatchCells, ResolvedCallUnregistered, UnstartedCalls, Registered, Resolved, Failures
<1>3. UnstartedCalls'
  BY <1>a, <1>b, <1>c, <1>d, <1>e DEF TypeOK, TurnOK, UnstartedCalls, HandlersMatchCells, Registered, Resolved, Failures
<1>4. MessagesOK'
  BY <1>a, <1>b, <1>c, <1>d, <1>e DEF TypeOK, MessagesOK, UnstartedCalls, HandlersMatchCells, Registered, Resolved, Failures
<1>5. HandlersMatchCells'
  BY <1>a, <1>b, <1>c, <1>d, <1>e DEF TypeOK, TurnOK, HandlersMatchCells, UnstartedCalls, Registered, Resolved, Failures
<1>6. PendingCallCanEnd'
  BY <1>a, <1>b, <1>c, <1>d, <1>e DEF TypeOK, TurnOK, HandlersMatchCells, PendingCallCanEnd, ResolvedCallUnregistered, UnstartedCalls, Registered, Resolved, Failures
<1>7. ResolvedCallUnregistered'
  <2> SUFFICES ASSUME NEW x \in Calls, status'[x] \in Resolved, has_seq_id_[x], x # c
               PROVE  FALSE
    BY <1>a, <1>c, <1>e DEF ResolvedCallUnregistered
  <2>1. status[x] \in Resolved
    BY <1>a, <1>b DEF TypeOK
  <2>2. seq_id_[x] \in 1 .. sequence_id_
    BY DEF HandlersMatchCells, TypeOK, Registered
  <2> QED
    BY <2>1, <2>2, <1>a DEF ResolvedCallUnregistered, Idle, TypeOK
<1> QED
  BY <1>1, <1>2, <1>3, <1>4, <1>5, <1>6, <1>7

\* A timeout is answered by a retry that is sent (retry_rpc_if_need).
LEMMA RetrySentKeeps ==
    ASSUME IInv, NEW id \in timers, RetryAfterTimeout(id), Send(id_func_map_[id], {id}), main' = main
    PROVE  IInv'
<1> USE RpcCallAssumption DEF IInv
<1>1. TypeOK'
  BY DEF TypeOK, RetryAfterTimeout, TimeoutDelivered, RetryLeft, Send, TimersWith, Registered, Resolved, Failures, Idle, Turn, cellVars, netVars
<1>2. TurnOK'
  BY DEF TypeOK, TurnOK, HandlersMatchCells, ResolvedCallUnregistered, UnstartedCalls, RetryAfterTimeout, TimeoutDelivered, RetryLeft, Send, TimersWith, Registered, Resolved, Failures, Idle, Turn, cellVars, netVars
<1>3. UnstartedCalls'
  BY DEF TypeOK, TurnOK, UnstartedCalls, HandlersMatchCells, RetryAfterTimeout, TimeoutDelivered, RetryLeft, Send, TimersWith, Registered, Resolved, Failures, Idle, Turn, cellVars, netVars
<1>4. MessagesOK'
  BY DEF TypeOK, MessagesOK, UnstartedCalls, HandlersMatchCells, RetryAfterTimeout, TimeoutDelivered, RetryLeft, Send, TimersWith, Registered, Resolved, Failures, Idle, Turn, cellVars, netVars
<1>5. HandlersMatchCells'
  BY DEF TypeOK, TurnOK, HandlersMatchCells, UnstartedCalls, RetryAfterTimeout, TimeoutDelivered, RetryLeft, Send, TimersWith, Registered, Resolved, Failures, Idle, Turn, cellVars, netVars
<1>6. PendingCallCanEnd'
  BY DEF TypeOK, TurnOK, HandlersMatchCells, PendingCallCanEnd, ResolvedCallUnregistered, UnstartedCalls, RetryAfterTimeout, TimeoutDelivered, RetryLeft, Send, TimersWith, Registered, Resolved, Failures, Idle, Turn, cellVars, netVars
<1>7. ResolvedCallUnregistered'
  BY DEF TypeOK, TurnOK, HandlersMatchCells, ResolvedCallUnregistered, UnstartedCalls, RetryAfterTimeout, TimeoutDelivered, RetryLeft, Send, TimersWith, Registered, Resolved, Failures, Idle, Turn, cellVars, netVars
<1> QED
  BY <1>1, <1>2, <1>3, <1>4, <1>5, <1>6, <1>7

\* A timeout is answered by a retry that cannot be sent.
LEMMA RetryNotSentKeeps ==
    ASSUME IInv, NEW id \in timers, RetryAfterTimeout(id), NotSent(id_func_map_[id], {id}), main' = Turn("cascade", SiOf[id_func_map_[id]], 0)
    PROVE  IInv'
<1> USE RpcCallAssumption DEF IInv
<1>1. TypeOK'
  <2> DEFINE c == id_func_map_[id]
  <2>1. /\ c \in Calls /\ SiOf[c] \in SIs
    BY DEF TypeOK, RetryAfterTimeout, TimeoutDelivered, Registered
  <2>2. sequence_id_' \in Nat /\ sequence_id_ <= sequence_id_'
    BY DEF TypeOK, NotSent
  <2>3. retry_times_' \in [Calls -> 0 .. Retries]
    BY <2>1 DEF TypeOK, RetryAfterTimeout, RetryLeft
  <2>4. /\ DOMAIN id_func_map_' \subseteq DOMAIN id_func_map_
        /\ id_func_map_' \in [DOMAIN id_func_map_' -> Calls]
    BY DEF TypeOK, NotSent, MapWithout
  <2>5. /\ has_seq_id_' \in [Calls -> BOOLEAN]
        /\ status' \in [Calls -> {"idle", "empty"} \cup Resolved]
    BY <2>1 DEF TypeOK, NotSent, Resolved, Failures
  <2>6. main' \in [at : {"idle", "build", "cascade"}, si : SIs \cup {NoSI}, rsp : 0 .. sequence_id_']
    BY <2>1, <2>2 DEF Turn
  <2>7. UNCHANGED <<seq_id_, siState, reqs, rsps, serving, timers, canceled_timer_ids_>>
    BY DEF RetryAfterTimeout, NotSent
  <2> HIDE DEF c
  <2> QED
    BY <2>2, <2>3, <2>4, <2>5, <2>6, <2>7 DEF TypeOK
<1>2. TurnOK'
  <2> DEFINE c == id_func_map_[id]
  <2>1. id \in DOMAIN id_func_map_ /\ c \in Calls /\ SiOf[c] \in SIs
    BY DEF TypeOK, RetryAfterTimeout, TimeoutDelivered, Registered
  <2>2. siState[SiOf[c]] # "new" /\ siState' = siState
    BY <2>1 DEF HandlersMatchCells, RetryAfterTimeout
  <2>3. main'.at = "cascade" /\ main'.si = SiOf[c] /\ main'.rsp = 0
    BY DEF RetryAfterTimeout, Turn
  <2>4. 0 \notin DOMAIN id_func_map_'
    BY DEF TypeOK, RetryAfterTimeout, NotSent, MapWithout
  <2> HIDE DEF c
  <2> QED
    BY <2>1, <2>2, <2>3, <2>4 DEF TurnOK, Registered
<1>3. UnstartedCalls'
  BY DEF TypeOK, TurnOK, UnstartedCalls, HandlersMatchCells, RetryAfterTimeout, TimeoutDelivered, RetryLeft, NotSent, MapWithout, Registered, Resolved, Failures, Idle, Turn, cellVars, netVars
<1>4. MessagesOK'
  BY DEF TypeOK, MessagesOK, UnstartedCalls, HandlersMatchCells, RetryAfterTimeout, TimeoutDelivered, RetryLeft, NotSent, MapWithout, Registered, Resolved, Failures, Idle, Turn, cellVars, netVars
<1>5. HandlersMatchCells'
  BY DEF TypeOK, TurnOK, HandlersMatchCells, UnstartedCalls, RetryAfterTimeout, TimeoutDelivered, RetryLeft, NotSent, MapWithout, Registered, Resolved, Failures, Idle, Turn, cellVars, netVars
<1>6. PendingCallCanEnd'
  BY DEF TypeOK, TurnOK, HandlersMatchCells, PendingCallCanEnd, ResolvedCallUnregistered, UnstartedCalls, RetryAfterTimeout, TimeoutDelivered, RetryLeft, NotSent, MapWithout, Registered, Resolved, Failures, Idle, Turn, cellVars, netVars
<1>7. ResolvedCallUnregistered'
  BY DEF TypeOK, TurnOK, HandlersMatchCells, ResolvedCallUnregistered, UnstartedCalls, RetryAfterTimeout, TimeoutDelivered, RetryLeft, NotSent, MapWithout, Registered, Resolved, Failures, Idle, Turn, cellVars, netVars
<1> QED
  BY <1>1, <1>2, <1>3, <1>4, <1>5, <1>6, <1>7

\* A timeout ends a call that has no retry left.
LEMMA GiveUpKeeps ==
    ASSUME IInv, NEW id \in timers, GiveUpAfterTimeout(id)
    PROVE  IInv'
<1> USE RpcCallAssumption DEF IInv
<1>1. TypeOK'
  BY DEF TypeOK, GiveUpAfterTimeout, TimeoutDelivered, RetryLeft, MapWithout, Registered, Resolved, Failures, Idle, Turn, cellVars, netVars
<1>2. TurnOK'
  <2> DEFINE c == id_func_map_[id]
  <2>1. id \in DOMAIN id_func_map_ /\ c \in Calls /\ SiOf[c] \in SIs
    BY DEF TypeOK, GiveUpAfterTimeout, TimeoutDelivered, Registered
  <2>2. siState[SiOf[c]] # "new" /\ siState' = siState
    BY <2>1 DEF HandlersMatchCells, GiveUpAfterTimeout
  <2>3. main'.at = "cascade" /\ main'.si = SiOf[c] /\ main'.rsp = 0
    BY DEF GiveUpAfterTimeout, Turn
  <2>4. 0 \notin DOMAIN id_func_map_'
    BY DEF TypeOK, GiveUpAfterTimeout, MapWithout
  <2> HIDE DEF c
  <2> QED
    BY <2>1, <2>2, <2>3, <2>4 DEF TurnOK, Registered
<1>3. UnstartedCalls'
  BY DEF TypeOK, TurnOK, UnstartedCalls, HandlersMatchCells, GiveUpAfterTimeout, TimeoutDelivered, RetryLeft, MapWithout, Registered, Resolved, Failures, Idle, Turn, cellVars, netVars
<1>4. MessagesOK'
  BY DEF TypeOK, MessagesOK, UnstartedCalls, HandlersMatchCells, GiveUpAfterTimeout, TimeoutDelivered, RetryLeft, MapWithout, Registered, Resolved, Failures, Idle, Turn, cellVars, netVars
<1>5. HandlersMatchCells'
  BY DEF TypeOK, TurnOK, HandlersMatchCells, UnstartedCalls, GiveUpAfterTimeout, TimeoutDelivered, RetryLeft, MapWithout, Registered, Resolved, Failures, Idle, Turn, cellVars, netVars
<1>6. PendingCallCanEnd'
  BY DEF TypeOK, TurnOK, HandlersMatchCells, PendingCallCanEnd, ResolvedCallUnregistered, UnstartedCalls, GiveUpAfterTimeout, TimeoutDelivered, RetryLeft, MapWithout, Registered, Resolved, Failures, Idle, Turn, cellVars, netVars
<1>7. ResolvedCallUnregistered'
  BY DEF TypeOK, TurnOK, HandlersMatchCells, ResolvedCallUnregistered, UnstartedCalls, GiveUpAfterTimeout, TimeoutDelivered, RetryLeft, MapWithout, Registered, Resolved, Failures, Idle, Turn, cellVars, netVars
<1> QED
  BY <1>1, <1>2, <1>3, <1>4, <1>5, <1>6, <1>7

\* The remote endpoint handles a request.
LEMMA OnRpcReqKeeps ==
    ASSUME IInv, NEW m \in reqs, OnRpcReq(m)
    PROVE  IInv'
<1> USE RpcCallAssumption DEF IInv
<1>1. TypeOK'
  BY DEF TypeOK, OnRpcReq, Respond, Returns, Registered, Resolved, Failures, Idle, Turn, cellVars, netVars
<1>2. TurnOK'
  BY DEF TypeOK, TurnOK, HandlersMatchCells, ResolvedCallUnregistered, UnstartedCalls, OnRpcReq, Respond, Returns, Registered, Resolved, Failures, Idle, Turn, cellVars, netVars
<1>3. UnstartedCalls'
  BY DEF TypeOK, TurnOK, UnstartedCalls, HandlersMatchCells, OnRpcReq, Respond, Returns, Registered, Resolved, Failures, Idle, Turn, cellVars, netVars
<1>4. MessagesOK'
  BY DEF TypeOK, MessagesOK, UnstartedCalls, HandlersMatchCells, OnRpcReq, Respond, Returns, Registered, Resolved, Failures, Idle, Turn, cellVars, netVars
<1>5. HandlersMatchCells'
  BY DEF TypeOK, TurnOK, HandlersMatchCells, UnstartedCalls, OnRpcReq, Respond, Returns, Registered, Resolved, Failures, Idle, Turn, cellVars, netVars
<1>6. PendingCallCanEnd'
  BY DEF TypeOK, TurnOK, HandlersMatchCells, PendingCallCanEnd, ResolvedCallUnregistered, UnstartedCalls, OnRpcReq, Respond, Returns, Registered, Resolved, Failures, Idle, Turn, cellVars, netVars
<1>7. ResolvedCallUnregistered'
  BY DEF TypeOK, TurnOK, HandlersMatchCells, ResolvedCallUnregistered, UnstartedCalls, OnRpcReq, Respond, Returns, Registered, Resolved, Failures, Idle, Turn, cellVars, netVars
<1> QED
  BY <1>1, <1>2, <1>3, <1>4, <1>5, <1>6, <1>7

\* The SI behind an asynchronous method ends at the remote endpoint.
LEMMA AsyncMethodEndsKeeps ==
    ASSUME IInv, NEW id \in serving, AsyncMethodEnds(id)
    PROVE  IInv'
<1> USE RpcCallAssumption DEF IInv
<1>1. TypeOK'
  BY DEF TypeOK, AsyncMethodEnds, Respond, Registered, Resolved, Failures, Idle, Turn, cellVars, netVars
<1>2. TurnOK'
  BY DEF TypeOK, TurnOK, HandlersMatchCells, ResolvedCallUnregistered, UnstartedCalls, AsyncMethodEnds, Respond, Registered, Resolved, Failures, Idle, Turn, cellVars, netVars
<1>3. UnstartedCalls'
  BY DEF TypeOK, TurnOK, UnstartedCalls, HandlersMatchCells, AsyncMethodEnds, Respond, Registered, Resolved, Failures, Idle, Turn, cellVars, netVars
<1>4. MessagesOK'
  BY DEF TypeOK, MessagesOK, UnstartedCalls, HandlersMatchCells, AsyncMethodEnds, Respond, Registered, Resolved, Failures, Idle, Turn, cellVars, netVars
<1>5. HandlersMatchCells'
  BY DEF TypeOK, TurnOK, HandlersMatchCells, UnstartedCalls, AsyncMethodEnds, Respond, Registered, Resolved, Failures, Idle, Turn, cellVars, netVars
<1>6. PendingCallCanEnd'
  BY DEF TypeOK, TurnOK, HandlersMatchCells, PendingCallCanEnd, ResolvedCallUnregistered, UnstartedCalls, AsyncMethodEnds, Respond, Registered, Resolved, Failures, Idle, Turn, cellVars, netVars
<1>7. ResolvedCallUnregistered'
  BY DEF TypeOK, TurnOK, HandlersMatchCells, ResolvedCallUnregistered, UnstartedCalls, AsyncMethodEnds, Respond, Registered, Resolved, Failures, Idle, Turn, cellVars, netVars
<1> QED
  BY <1>1, <1>2, <1>3, <1>4, <1>5, <1>6, <1>7

\* The three ways run_si can return.
LEMMA EndBuildKeeps ==
    ASSUME IInv, EndBuild
    PROVE  IInv'
<1>1. CASE UNCHANGED <<siState, id_func_map_, has_seq_id_>>
  BY <1>1, EndBuildOpenKeeps
<1>2. CASE /\ siState' = [siState EXCEPT ![main.si] = "leaked"]
           /\ UNCHANGED <<id_func_map_, has_seq_id_>>
  BY <1>2, EndBuildOpenKeeps
<1>3. CASE TearDown(main.si)
  BY <1>3, EndBuildTearKeeps
<1> QED
  BY <1>1, <1>2, <1>3 DEF EndBuild

\* Every step of the endpoint keeps the invariant.
LEMMA NextKeeps ==
    ASSUME IInv, [Next]_vars
    PROVE  IInv'
<1>1. ASSUME NEW s \in SIs, StartSI(s) PROVE IInv'
  BY <1>1, StartSIKeeps
<1>2. ASSUME NEW c \in Calls, StartCall(c) PROVE IInv'
  BY <1>2, StartCallSentKeeps, StartCallNotSentKeeps DEF StartCall
<1>3. ASSUME EndBuild PROVE IInv'
  BY <1>3, EndBuildKeeps
<1>4. ASSUME FinishSI PROVE IInv'
  BY <1>4, FinishSIKeeps
<1>5. ASSUME EndCascade PROVE IInv'
  BY <1>5, EndCascadeKeeps
<1>6. ASSUME NEW m \in rsps, OnRpcRsp(m) PROVE IInv'
  BY <1>6, OnRpcRspKeeps
<1>7. ASSUME NEW id \in timers, RetryAfterTimeout(id) PROVE IInv'
  BY <1>7, RetrySentKeeps, RetryNotSentKeeps DEF RetryAfterTimeout
<1>8. ASSUME NEW id \in timers, GiveUpAfterTimeout(id) PROVE IInv'
  BY <1>8, GiveUpKeeps
<1>9. ASSUME NEW m \in reqs, OnRpcReq(m) PROVE IInv'
  BY <1>9, OnRpcReqKeeps
<1>10. ASSUME NEW id \in serving, AsyncMethodEnds(id) PROVE IInv'
  BY <1>10, AsyncMethodEndsKeeps
<1>11. ASSUME UNCHANGED vars PROVE IInv'
  BY <1>11 DEF vars, cellVars, netVars, IInv, TypeOK, TurnOK, UnstartedCalls, MessagesOK,
     HandlersMatchCells, PendingCallCanEnd, ResolvedCallUnregistered, Registered
<1> QED
  BY <1>1, <1>2, <1>3, <1>4, <1>5, <1>6, <1>7, <1>8, <1>9, <1>10, <1>11
     DEF Next, SIStep, HandlerStep, RemoteStep, OnRpcTimeout, DropLate

\* The inductive invariant holds in every reachable state of RpcCall.
THEOREM Safety == Spec => []IInv
<1>1. Init => IInv
  BY InitIInv
<1>2. IInv /\ [Next]_vars => IInv'
  BY NextKeeps
<1> QED
  BY <1>1, <1>2, PTL DEF Spec

\* Every variable keeps its type: ids in maps, messages and timers were given out.
THEOREM TypeCorrect == Spec => []TypeOK
<1>1. IInv => TypeOK
  BY DEF IInv
<1> QED
  BY <1>1, Safety, PTL

\* No response or timeout is ever dispatched to a deleted cell, and no deleted cell
\* leaves a handler behind (RspMsgHandler::id_func_map_).
THEOREM HandlersAreLive == Spec => []HandlersMatchCells
<1>1. IInv => HandlersMatchCells
  BY DEF IInv
<1> QED
  BY <1>1, Safety, PTL

\* A pending call of a living SI has a registered attempt, a guarded one a timer
\* nobody canceled (TimeoutCell).
THEOREM PendingCallsCanEnd == Spec => []PendingCallCanEnd
<1>1. IInv => PendingCallCanEnd
  BY DEF IInv
<1> QED
  BY <1>1, Safety, PTL

\* After the turn that resolved it a call has no handler (delete_rsp_handler_if_exist).
THEOREM ResolvedCallsUnregistered == Spec => []ResolvedCallUnregistered
<1>1. IInv => ResolvedCallUnregistered
  BY DEF IInv
<1> QED
  BY <1>1, Safety, PTL

\* Between turns a registered id belongs to the latest attempt of a pending call of
\* a living SI: the fact behind handle_rpc_rsp and on_rsp_handler_timeout.
LEMMA DeliveredToPending ==
    ASSUME IInv, main = Idle, NEW id \in DOMAIN id_func_map_
    PROVE  /\ id_func_map_[id] \in Calls
           /\ seq_id_[id_func_map_[id]] = id
           /\ status[id_func_map_[id]] = "empty"
           /\ siState[SiOf[id_func_map_[id]]] \in {"open", "leaked"}
  BY RpcCallAssumption DEF IInv, TypeOK, HandlersMatchCells, ResolvedCallUnregistered,
     UnstartedCalls, Registered, Idle

\* No step changes the outcome of a resolved call.
LEMMA ResolvedStays ==
    ASSUME IInv, [Next]_vars, NEW c \in Calls, status[c] \in Resolved
    PROVE  status'[c] = status[c]
<1> USE DEF IInv
<1>0. status[c] # "idle" /\ status[c] # "empty"
  BY DEF Resolved, Failures
<1>1. ASSUME NEW d \in Calls, StartCall(d) PROVE status'[c] = status[c]
  BY <1>0, <1>1 DEF StartCall, Send, NotSent, TypeOK
<1>2. ASSUME NEW m \in rsps, OnRpcRsp(m) PROVE status'[c] = status[c]
  BY <1>0, <1>2, DeliveredToPending DEF OnRpcRsp, Registered, TypeOK
<1>3. ASSUME NEW id \in timers, RetryAfterTimeout(id) PROVE status'[c] = status[c]
  BY <1>0, <1>3, DeliveredToPending
     DEF RetryAfterTimeout, TimeoutDelivered, Registered, Send, NotSent, TypeOK
<1>4. ASSUME NEW id \in timers, GiveUpAfterTimeout(id) PROVE status'[c] = status[c]
  BY <1>0, <1>4, DeliveredToPending DEF GiveUpAfterTimeout, TimeoutDelivered, Registered, TypeOK
<1>5. CASE UNCHANGED status
  BY <1>5
<1> QED
  BY <1>1, <1>2, <1>3, <1>4, <1>5
     DEF Next, SIStep, HandlerStep, RemoteStep, OnRpcTimeout, DropLate, StartSI, EndBuild,
         FinishSI, EndCascade, OnRpcReq, AsyncMethodEnds, vars, cellVars

\* The first outcome of a call is its last (Cell<T>, TimeoutCell).
THEOREM OutcomesAreFinal == Spec => OutcomeIsFinal
<1>1. IInv /\ [Next]_vars =>
          [\A c \in Calls : status[c] \in Resolved => status'[c] = status[c]]_vars
  BY ResolvedStays
<1> QED
  BY <1>1, Safety, PTL DEF Spec, OutcomeIsFinal

\* A step that cancels a timer is the arrival of the response it waited for.
LEMMA CanceledOnResponse ==
    ASSUME IInv, [Next]_vars, NEW id \in canceled_timer_ids_', id \notin canceled_timer_ids_
    PROVE  /\ \E m \in rsps : m.seq = id
           /\ \E c \in Calls : seq_id_[c] = id /\ status[c] = "empty" /\ status'[c] \in Resolved
<1>1. PICK m \in rsps : OnRpcRsp(m)
  BY DEF Next, SIStep, HandlerStep, RemoteStep, OnRpcTimeout, DropLate, StartSI, StartCall,
         EndBuild, FinishSI, EndCascade, RetryAfterTimeout, GiveUpAfterTimeout, OnRpcReq,
         AsyncMethodEnds, vars
<1> DEFINE c == id_func_map_[m.seq]
<1>2. /\ c \in Calls /\ seq_id_[c] = m.seq /\ status[c] = "empty"
  BY <1>1, DeliveredToPending DEF OnRpcRsp, Registered
<1>3. m.seq = id
  BY <1>1 DEF OnRpcRsp, TimerCanceled
<1>4. status'[c] \in Resolved
  BY <1>1, <1>2 DEF OnRpcRsp, IInv, TypeOK, Resolved, Failures
<1> QED
  BY <1>2, <1>3, <1>4

\* cancel_timer is called only for the attempt whose response resolves the call.
THEOREM CancelsAreAnswered == Spec => CancelOnlyAnswered
<1>1. IInv /\ [Next]_vars =>
          [\A id \in canceled_timer_ids_' \ canceled_timer_ids_ :
              /\ \E m \in rsps : m.seq = id
              /\ \E c \in Calls : seq_id_[c] = id /\ status[c] = "empty"
                                                  /\ status'[c] \in Resolved]_vars
  BY CanceledOnResponse
<1> QED
  BY <1>1, Safety, PTL DEF Spec, CancelOnlyAnswered

-----------------------------------------------------------------------------
\* The ids of the requests sent for a call, and the retries it starts with.
AttemptsOf(c) == {m.seq : m \in {r \in reqs : r.call = c}}
Allowed(c) == IF c \in Guarded THEN Retries ELSE 0

\* Requests and retries left make up the retries allowed and the first attempt, as
\* long as no response came; and so long every attempt has its timer running.
AttemptOK(c) ==
    /\ status[c] = "idle" => AttemptsOf(c) = {} /\ retry_times_[c] = Allowed(c)
    /\ status[c] \in {"empty", "timeout"} =>
          /\ IsFiniteSet(AttemptsOf(c))
          /\ Cardinality(AttemptsOf(c)) + retry_times_[c] = Allowed(c) + 1
          /\ AttemptsOf(c) \cap canceled_timer_ids_ = {}
          /\ c \in Guarded => AttemptsOf(c) \subseteq timers
    /\ status[c] = "timeout" => c \in Guarded /\ retry_times_[c] = 0 /\ ~has_seq_id_[c]

AttemptsOK == \A c \in Calls : AttemptOK(c)

\* A request is a new attempt of its call only.
LEMMA NewAttempt ==
    ASSUME TypeOK, NEW c \in Calls, NEW gone, Send(c, gone)
    PROVE  /\ AttemptsOf(c)' = AttemptsOf(c) \cup {sequence_id_ + 1}
           /\ \A d \in Calls \ {c} : AttemptsOf(d)' = AttemptsOf(d)
           /\ \A d \in Calls : sequence_id_ + 1 \notin AttemptsOf(d)
           /\ sequence_id_ + 1 \notin canceled_timer_ids_
<1> DEFINE r == [seq |-> sequence_id_ + 1, call |-> c]
<1>1. reqs' = reqs \cup {r} /\ r.seq = sequence_id_ + 1 /\ r.call = c
  BY DEF Send
<1> HIDE DEF r
<1>2. AttemptsOf(c)' = AttemptsOf(c) \cup {sequence_id_ + 1}
  BY <1>1 DEF AttemptsOf
<1>3. ASSUME NEW d \in Calls \ {c} PROVE AttemptsOf(d)' = AttemptsOf(d)
  BY <1>1 DEF AttemptsOf
<1>4. sequence_id_ + 1 \notin 1 .. sequence_id_
  BY DEF TypeOK
<1>5. \A d \in Calls : sequence_id_ + 1 \notin AttemptsOf(d)
  BY <1>4 DEF TypeOK, AttemptsOf
<1>6. sequence_id_ + 1 \notin canceled_timer_ids_
  BY <1>4 DEF TypeOK
<1> QED BY <1>2, <1>3, <1>5, <1>6

\* The call an id was sent for is the one registered under it.
LEMMA AttemptIsRegistered ==
    ASSUME IInv, NEW c \in Calls, NEW id \in AttemptsOf(c), Registered(id)
    PROVE  id_func_map_[id] = c /\ seq_id_[c] = id /\ has_seq_id_[c]
<1>1. [seq |-> id, call |-> id_func_map_[id]] \in reqs
  BY DEF IInv, MessagesOK, Registered
<1>2. PICK r \in reqs : r.call = c /\ r.seq = id
  BY DEF AttemptsOf
<1>3. id_func_map_[id] = c
  BY <1>1, <1>2 DEF IInv, MessagesOK
<1> QED BY <1>3 DEF IInv, HandlersMatchCells, Registered

\* A call whose status, retries and attempts a step leaves alone.
LEMMA SameAttempts ==
    ASSUME NEW c \in Calls, AttemptOK(c),
           status'[c] = status[c], retry_times_'[c] = retry_times_[c],
           has_seq_id_'[c] => has_seq_id_[c], AttemptsOf(c)' = AttemptsOf(c),
           timers \subseteq timers',
           status[c] \in {"empty", "timeout"} =>
               AttemptsOf(c) \cap canceled_timer_ids_' = {}
    PROVE  AttemptOK(c)'
BY DEF AttemptOK, Allowed

LEMMA TimersGrow ==
    ASSUME NEW c, NEW gone, Send(c, gone) \/ NotSent(c, gone)
    PROVE  timers \subseteq timers'
BY DEF Send, NotSent, TimersWith

\* A call that gets an outcome other than "timeout" is out of the count.
LEMMA OutOfCount ==
    ASSUME NEW c \in Calls, status'[c] \in Failures \cup {"succeeded"}
    PROVE  AttemptOK(c)'
BY DEF AttemptOK, Failures

LEMMA AttemptsStep ==
    ASSUME IInv, AttemptsOK, [Next]_vars, NEW c \in Calls
    PROVE  AttemptOK(c)'
<1>1. TypeOK /\ AttemptOK(c)
  BY DEF IInv, AttemptsOK
<1>2. ASSUME UNCHANGED <<status, retry_times_, reqs, timers, canceled_timer_ids_>>,
             has_seq_id_'[c] => has_seq_id_[c]
      PROVE  AttemptOK(c)'
  BY <1>1, <1>2, SameAttempts DEF AttemptsOf, AttemptOK
<1>3. ASSUME NEW d \in Calls, NEW gone, NotSent(d, gone), UNCHANGED canceled_timer_ids_,
             d # c => retry_times_'[c] = retry_times_[c]
      PROVE  AttemptOK(c)'
  <2>1. CASE d = c
    <3>1. status'[c] = "failed"
      BY <1>1, <1>3, <2>1 DEF NotSent, TypeOK
    <3> QED BY <3>1, OutOfCount DEF Failures
  <2>2. CASE d # c
    <3>1. status'[c] = status[c] /\ has_seq_id_'[c] = has_seq_id_[c] /\ reqs' = reqs
      BY <1>1, <1>3, <2>2 DEF NotSent, TypeOK
    <3> QED BY <1>1, <1>3, <2>2, <3>1, TimersGrow, SameAttempts DEF AttemptsOf, AttemptOK
  <2> QED BY <2>1, <2>2
<1>4. ASSUME NEW d \in Calls, NEW gone, Send(d, gone), d # c, UNCHANGED canceled_timer_ids_,
             retry_times_'[c] = retry_times_[c]
      PROVE  AttemptOK(c)'
  <2>1. status'[c] = status[c] /\ has_seq_id_'[c] = has_seq_id_[c]
    BY <1>1, <1>4 DEF Send, TypeOK
  <2>2. AttemptsOf(c)' = AttemptsOf(c)
    BY <1>1, <1>4, NewAttempt
  <2> QED BY <1>1, <1>4, <2>1, <2>2, TimersGrow, SameAttempts DEF AttemptOK
<1>5. ASSUME NEW gone, Send(c, gone), UNCHANGED canceled_timer_ids_,
             IsFiniteSet(AttemptsOf(c)),
             Cardinality(AttemptsOf(c)) + 1 + retry_times_'[c] = Allowed(c) + 1,
             AttemptsOf(c) \cap canceled_timer_ids_ = {},
             c \in Guarded => AttemptsOf(c) \subseteq timers
      PROVE  AttemptOK(c)'
  <2>1. status'[c] = "empty" /\ (c \in Guarded => timers' = timers \cup {sequence_id_ + 1})
    BY <1>1, <1>5 DEF Send, TypeOK, TimersWith
  <2>2. /\ AttemptsOf(c)' = AttemptsOf(c) \cup {sequence_id_ + 1}
        /\ sequence_id_ + 1 \notin AttemptsOf(c) /\ sequence_id_ + 1 \notin canceled_timer_ids_
    BY <1>1, <1>5, NewAttempt
  <2>3. IsFiniteSet(AttemptsOf(c)') /\ Cardinality(AttemptsOf(c)') = Cardinality(AttemptsOf(c)) + 1
    BY <1>5, <2>2, FS_AddElement
  <2> QED BY <1>5, <2>1, <2>2, <2>3 DEF AttemptOK, Allowed
<1>6. ASSUME NEW d \in Calls, StartCall(d) PROVE AttemptOK(c)'
  <2>1. status[d] = "idle" /\ UNCHANGED <<retry_times_, canceled_timer_ids_>>
    BY <1>6 DEF StartCall
  <2>2. CASE NotSent(d, {})
    BY <1>3, <2>1, <2>2
  <2>3. CASE Send(d, {}) /\ d # c
    BY <1>4, <2>1, <2>3
  <2>4. CASE Send(d, {}) /\ d = c
    <3>1. AttemptsOf(c) = {} /\ retry_times_'[c] = Allowed(c) /\ retry_times_[c] \in Nat
      BY <1>1, <2>1, <2>4, RpcCallAssumption DEF AttemptOK, TypeOK
    <3>2. IsFiniteSet(AttemptsOf(c)) /\ Cardinality(AttemptsOf(c)) = 0
      BY <3>1, FS_EmptySet
    <3>3. Cardinality(AttemptsOf(c)) + 1 + retry_times_'[c] = Allowed(c) + 1
      BY <2>1, <3>1, <3>2
    <3> QED BY <1>5, <2>1, <2>4, <3>1, <3>2, <3>3
  <2> QED BY <1>6, <2>2, <2>3, <2>4 DEF StartCall
<1>7. ASSUME NEW m \in rsps, OnRpcRsp(m) PROVE AttemptOK(c)'
  <2> DEFINE d == id_func_map_[m.seq]
  <2>1. Registered(m.seq) /\ d \in Calls /\ m.result \in Failures \cup {"succeeded"}
    BY <1>1, <1>7 DEF OnRpcRsp, Registered, TypeOK
  <2>2. CASE d = c
    <3>1. status'[c] \in {m.result, "failed"}
      BY <1>1, <1>7, <2>1, <2>2 DEF OnRpcRsp, TypeOK
    <3> QED BY <2>1, <3>1, OutOfCount DEF Failures
  <2>3. CASE d # c
    <3>1. /\ UNCHANGED <<has_seq_id_, retry_times_, reqs, timers>> /\ status'[c] = status[c]
          /\ canceled_timer_ids_' \subseteq canceled_timer_ids_ \cup {m.seq}
      BY <1>1, <1>7, <2>1, <2>3 DEF OnRpcRsp, TypeOK, netVars, TimerCanceled
    <3>2. m.seq \notin AttemptsOf(c)
      BY <2>1, <2>3, AttemptIsRegistered
    <3>3. status[c] \in {"empty", "timeout"} => AttemptsOf(c) \cap canceled_timer_ids_' = {}
      BY <1>1, <3>1, <3>2 DEF AttemptOK
    <3> QED BY <1>1, <3>1, <3>3, SameAttempts DEF AttemptsOf
  <2> QED BY <2>2, <2>3
<1>8. ASSUME NEW id \in timers, RetryAfterTimeout(id) PROVE AttemptOK(c)'
  <2>0. Registered(id) /\ main = Idle /\ UNCHANGED canceled_timer_ids_
    BY <1>8 DEF RetryAfterTimeout, TimeoutDelivered
  <2>1. PICK d \in Calls : d = id_func_map_[id] /\ status[d] = "empty"
    BY <2>0, DeliveredToPending DEF Registered
  <2>2. /\ retry_times_' = [retry_times_ EXCEPT ![d] = @ - 1]
        /\ Send(d, {id}) \/ NotSent(d, {id})
    BY <1>8, <2>1 DEF RetryAfterTimeout
  <2>3. d # c => retry_times_'[c] = retry_times_[c]
    BY <1>1, <2>2 DEF TypeOK
  <2>4. CASE NotSent(d, {id})
    BY <1>3, <2>0, <2>3, <2>4
  <2>5. CASE Send(d, {id}) /\ d # c
    BY <1>4, <2>0, <2>3, <2>5
  <2>6. CASE Send(d, {id}) /\ d = c
    <3>1. retry_times_'[c] = retry_times_[c] - 1 /\ retry_times_[c] \in Nat
      BY <1>1, <2>2, <2>6, RpcCallAssumption DEF TypeOK
    <3>2. /\ IsFiniteSet(AttemptsOf(c))
          /\ Cardinality(AttemptsOf(c)) + retry_times_[c] = Allowed(c) + 1
          /\ AttemptsOf(c) \cap canceled_timer_ids_ = {}
          /\ c \in Guarded => AttemptsOf(c) \subseteq timers
      BY <1>1, <2>1, <2>6 DEF AttemptOK
    <3>3. Cardinality(AttemptsOf(c)) \in Nat
      BY <3>2, FS_CardinalityType
    <3>4. Cardinality(AttemptsOf(c)) + 1 + retry_times_'[c] = Allowed(c) + 1
      BY <3>1, <3>2, <3>3
    <3> QED BY <1>5, <2>0, <2>6, <3>2, <3>4
  <2> QED BY <2>2, <2>4, <2>5, <2>6
<1>9. ASSUME NEW id \in timers, GiveUpAfterTimeout(id) PROVE AttemptOK(c)'
  <2>0. Registered(id) /\ main = Idle /\ UNCHANGED <<canceled_timer_ids_, timers, reqs, retry_times_>>
    BY <1>9 DEF GiveUpAfterTimeout, TimeoutDelivered, netVars
  <2>1. PICK d \in Calls : d = id_func_map_[id] /\ status[d] = "empty"
    BY <2>0, DeliveredToPending DEF Registered
  <2>2. /\ status' = [status EXCEPT ![d] = "timeout"] /\ ~RetryLeft(d)
        /\ has_seq_id_' = [has_seq_id_ EXCEPT ![d] = FALSE]
    BY <1>9, <2>1 DEF GiveUpAfterTimeout
  <2>3. AttemptsOf(c)' = AttemptsOf(c)
    BY <2>0 DEF AttemptsOf
  <2>4. CASE d # c
    BY <1>1, <2>0, <2>2, <2>3, <2>4, SameAttempts DEF TypeOK, AttemptOK
  <2>5. CASE d = c
    <3>1. c \in Guarded
      BY <2>0, <2>1, <2>5 DEF Registered, IInv, MessagesOK
    <3>2. status'[c] = "timeout" /\ ~has_seq_id_'[c] /\ retry_times_[c] = 0
      BY <1>1, <2>2, <2>5, RpcCallAssumption DEF TypeOK, RetryLeft
    <3> QED BY <1>1, <2>0, <2>1, <2>3, <2>5, <3>1, <3>2 DEF AttemptOK, Allowed
  <2> QED BY <2>4, <2>5
<1>10. CASE EndBuild \/ FinishSI \/ EndCascade
  <2>1. UNCHANGED <<status, retry_times_, reqs, timers, canceled_timer_ids_>>
    BY <1>10 DEF EndBuild, FinishSI, EndCascade, netVars
  <2>2. has_seq_id_'[c] => has_seq_id_[c]
    BY <1>10 DEF EndBuild, FinishSI, EndCascade, TearDown, delete_rsp_handler_if_exist
  <2> QED BY <1>2, <2>1, <2>2
<1>11. CASE \/ \E s \in SIs : StartSI(s)
            \/ \E m \in reqs : OnRpcReq(m)
            \/ \E id \in serving : AsyncMethodEnds(id)
            \/ UNCHANGED vars
  BY <1>2, <1>11 DEF StartSI, OnRpcReq, AsyncMethodEnds, vars, cellVars, netVars
<1> QED
  BY <1>6, <1>7, <1>8, <1>9, <1>10, <1>11
     DEF Next, SIStep, HandlerStep, RemoteStep, OnRpcTimeout, DropLate

\* A call ends with "timeout" only when its Retries + 1 requests have all been sent
\* and the timer of each ran out unanswered (retry_rpc_if_need, on_rsp_handler_timeout).
THEOREM TimeoutsAfterAllAttempts == Spec => []TimeoutAfterAllAttempts
<1>1. Init => AttemptsOK
  BY DEF Init, AttemptsOK, AttemptOK, AttemptsOf, Allowed
<1>2. IInv /\ AttemptsOK /\ [Next]_vars => AttemptsOK'
  BY AttemptsStep DEF AttemptsOK
<1>3. IInv /\ AttemptsOK => TimeoutAfterAllAttempts
  <2> SUFFICES ASSUME IInv, AttemptsOK, NEW c \in Calls, status[c] = "timeout"
               PROVE  /\ Cardinality(AttemptsOf(c)) = Retries + 1
                      /\ AttemptsOf(c) \subseteq timers \ canceled_timer_ids_
                      /\ \A id \in AttemptsOf(c) : ~Registered(id)
    BY DEF TimeoutAfterAllAttempts, AttemptsOf
  <2>1. AttemptOK(c)
    BY DEF AttemptsOK
  <2>2. Cardinality(AttemptsOf(c)) \in Nat
    BY <2>1, FS_CardinalityType DEF AttemptOK
  <2>3. Cardinality(AttemptsOf(c)) = Retries + 1
    BY <2>1, <2>2, RpcCallAssumption DEF AttemptOK, Allowed
  <2>4. AttemptsOf(c) \subseteq timers \ canceled_timer_ids_
    BY <2>1 DEF AttemptOK
  <2>5. \A id \in AttemptsOf(c) : ~Registered(id)
    BY <2>1, AttemptIsRegistered DEF AttemptOK
  <2> QED BY <2>3, <2>4, <2>5
<1> QED BY <1>1, <1>2, <1>3, Safety, PTL DEF Spec

-----------------------------------------------------------------------------
\* Sending a request, or nothing at all, changes no answer.
LEMMA SameAnswers ==
    ASSUME IInv, UNCHANGED rsps,
           \A r \in reqs' : r \in reqs \/ r.seq = sequence_id_ + 1, reqs \subseteq reqs'
    PROVE  UNCHANGED answers
<1>1. \A m \in rsps : m.seq # sequence_id_ + 1
  BY DEF IInv, TypeOK
<1> QED
  BY <1>1 DEF answers

\* A response adds the answer to the call of its request, or nothing.
LEMMA NewAnswer ==
    ASSUME IInv, UNCHANGED <<reqs, status, siState>>, NEW id, NEW result,
           result \in Failures \cup {"succeeded"}, Respond(id, result)
    PROVE  UNCHANGED answers \/ \E c \in Calls : Promise!Answer(c, result)
<1>0. UNCHANGED outcome
  BY DEF outcome
<1>1. CASE \A r \in reqs : r.seq # id
  BY <1>1 DEF answers, Respond
<1>2. ASSUME NEW r \in reqs, r.seq = id
      PROVE  Promise!Answer(r.call, result)
  <2>1. r.call \in Calls /\ status[r.call] # "idle"
    BY DEF IInv, TypeOK, MessagesOK
  <2>2. \A q \in reqs : q.seq = id => q = r
    BY <1>2 DEF IInv, MessagesOK
  <2>3. outcome[r.call] # "idle"
    BY <2>1 DEF outcome
  <2>4. answers' = answers \cup {<<r.call, result>>}
    <3>1. rsps' = rsps \cup {[seq |-> id, result |-> result]}
      BY DEF Respond
    <3>2. ASSUME NEW p \in answers' PROVE p \in answers \cup {<<r.call, result>>}
      BY <1>2, <2>2, <3>1, <3>2 DEF answers
    <3>3. ASSUME NEW p \in answers PROVE p \in answers'
      BY <3>1, <3>3 DEF answers
    <3>4. <<r.call, result>> \in answers'
      <4>1. [seq |-> id, result |-> result] \in rsps' /\ r \in reqs'
        BY <3>1
      <4>2. \E q \in reqs', m \in rsps' : q.seq = m.seq /\ q.call = r.call /\ m.result = result
        BY <1>2, <4>1
      <4> QED
        BY <2>1, <4>2 DEF answers
    <3> QED
      BY <3>2, <3>3, <3>4
  <2> QED
    BY <1>0, <2>3, <2>4 DEF Promise!Answer
<1> QED
  BY <1>1, <1>2 DEF IInv, TypeOK

\* Deleting the cells of an SI abandons its unresolved calls.
LEMMA TearDownAbandons ==
    ASSUME IInv, NEW s \in SIs, siState[s] # "released", TearDown(s),
           UNCHANGED <<status, reqs, rsps>>
    PROVE  Promise!Abandon(s)
<1>1. UNCHANGED answers
  BY DEF answers
<1>2. outcome' = [c \in Calls |->
          IF SiOf[c] = s /\ outcome[c] \in Promise!Unresolved THEN "abandoned" ELSE outcome[c]]
  BY RpcCallAssumption
     DEF outcome, IInv, TypeOK, TearDown, Promise!Unresolved, Resolved, Failures
<1> QED
  BY <1>1, <1>2 DEF Promise!Abandon

\* A call of a live SI that gets a result resolves, if the promise allows it.
LEMMA StatusResolves ==
    ASSUME IInv, NEW c \in Calls, NEW result \in Resolved,
           siState[SiOf[c]] # "released", status[c] \in {"idle", "empty"},
           status[c] = "idle" => result = "failed",
           \/ result = "failed"
           \/ <<c, result>> \in answers
           \/ result = "timeout" /\ c \in Guarded /\ status[c] = "empty",
           status' = [status EXCEPT ![c] = result],
           UNCHANGED <<siState, answers>>
    PROVE  Promise!Resolve(c, result)
<1>1. outcome[c] = status[c]
  BY DEF outcome
<1>2. outcome' = [outcome EXCEPT ![c] = result]
  BY DEF outcome, IInv, TypeOK
<1> QED
  BY <1>1, <1>2 DEF Promise!Resolve, Promise!MayResolve, Promise!Unresolved

\* Every step of the endpoint is a step of the promise, or invisible to it.
LEMMA StepKeepsPromise ==
    ASSUME IInv, [Next]_vars
    PROVE  [Promise!PromiseNext]_(Promise!promiseVars)
<1> USE DEF Promise!promiseVars
<1> DEFINE Stutter == UNCHANGED <<outcome, answers>>
<1>1. ASSUME NEW s \in SIs, StartSI(s) PROVE Stutter
  BY <1>1, RpcCallAssumption DEF StartSI, cellVars, netVars, outcome, answers, IInv, TypeOK
<1>2. ASSUME NEW c \in Calls, StartCall(c) PROVE Promise!PromiseNext
  <2>1. siState[SiOf[c]] # "released" /\ status[c] = "idle" /\ UNCHANGED <<siState, rsps>>
    BY <1>2 DEF StartCall
  <2>2. CASE Send(c, {})
    <3>1. UNCHANGED answers
      BY <2>1, <2>2, SameAnswers DEF Send
    <3>2. outcome[c] = "idle" /\ outcome' = [outcome EXCEPT ![c] = "empty"]
      BY <2>1, <2>2 DEF Send, outcome, IInv, TypeOK, Resolved, Failures
    <3> QED
      BY <3>1, <3>2 DEF Promise!PromiseNext, Promise!Start
  <2>3. CASE NotSent(c, {})
    <3>1. UNCHANGED answers
      BY <2>1, <2>3, SameAnswers DEF NotSent
    <3>2. Promise!Resolve(c, "failed")
      BY <2>1, <2>3, <3>1, StatusResolves DEF NotSent, Resolved, Failures
    <3> QED
      BY <3>2 DEF Promise!PromiseNext, Promise!Resolutions, Promise!RemoteResults
  <2> QED
    BY <1>2, <2>2, <2>3 DEF StartCall
<1>3. ASSUME EndBuild PROVE Stutter \/ Promise!PromiseNext
  <2>1. main.si \in SIs /\ siState[main.si] = "open" /\ UNCHANGED <<status, reqs, rsps>>
    BY <1>3 DEF EndBuild, IInv, TurnOK, Idle, netVars
  <2>2. CASE \/ UNCHANGED siState
             \/ siState' = [siState EXCEPT ![main.si] = "leaked"]
    BY <2>1, <2>2, RpcCallAssumption DEF outcome, answers, IInv, TypeOK
  <2>3. CASE TearDown(main.si)
    BY <2>1, <2>3, TearDownAbandons DEF Promise!PromiseNext
  <2> QED
    BY <1>3, <2>2, <2>3 DEF EndBuild
<1>4. ASSUME FinishSI PROVE Promise!PromiseNext
  <2>1. main.si \in SIs /\ siState[main.si] = "open" /\ UNCHANGED <<status, reqs, rsps>>
    BY <1>4 DEF FinishSI, IInv, TurnOK, Idle, netVars
  <2> QED
    BY <1>4, <2>1, TearDownAbandons DEF FinishSI, Promise!PromiseNext
<1>5. ASSUME EndCascade PROVE Stutter
  BY <1>5 DEF EndCascade, netVars, outcome, answers
<1>6. ASSUME NEW m \in rsps, OnRpcRsp(m) PROVE Promise!PromiseNext
  <2> DEFINE c == id_func_map_[m.seq]
  <2>1. /\ c \in Calls /\ status[c] = "empty" /\ siState[SiOf[c]] \in {"open", "leaked"}
    BY <1>6, DeliveredToPending DEF OnRpcRsp, Registered
  <2>2. /\ [seq |-> m.seq, call |-> c] \in reqs
        /\ m.result \in Failures \cup {"succeeded"}
    BY <1>6 DEF OnRpcRsp, Registered, IInv, TypeOK, MessagesOK
  <2>3. <<c, m.result>> \in answers
    BY <2>1, <2>2 DEF answers
  <2>4. UNCHANGED <<siState, answers>>
    BY <1>6 DEF OnRpcRsp, netVars, answers
  <2>5. PICK r \in {m.result, "failed"} : status' = [status EXCEPT ![c] = r]
    BY <1>6 DEF OnRpcRsp
  <2> HIDE DEF c
  <2>6. r \in Resolved /\ r \in Promise!Resolutions
    BY <2>2, <2>5 DEF Resolved, Failures, Promise!Resolutions, Promise!RemoteResults
  <2>7. Promise!Resolve(c, r)
    BY <2>1, <2>3, <2>4, <2>5, <2>6, StatusResolves
  <2> QED
    BY <2>1, <2>6, <2>7 DEF Promise!PromiseNext
<1>7. ASSUME NEW id \in timers, RetryAfterTimeout(id) PROVE Stutter \/ Promise!PromiseNext
  <2> DEFINE c == id_func_map_[id]
  <2>1. /\ c \in Calls /\ status[c] = "empty" /\ siState[SiOf[c]] \in {"open", "leaked"}
    BY <1>7, DeliveredToPending DEF RetryAfterTimeout, TimeoutDelivered, Registered
  <2>2. UNCHANGED <<siState, rsps>>
    BY <1>7 DEF RetryAfterTimeout
  <2>3. CASE Send(c, {id})
    <3>1. UNCHANGED answers
      BY <2>2, <2>3, SameAnswers DEF Send
    <3>2. UNCHANGED status
      BY <2>1, <2>3 DEF Send, IInv, TypeOK
    <3> QED
      BY <2>2, <3>1, <3>2 DEF outcome
  <2>4. CASE NotSent(c, {id})
    <3>1. UNCHANGED answers
      BY <2>2, <2>4, SameAnswers DEF NotSent
    <3>2. Promise!Resolve(c, "failed")
      BY <2>1, <2>2, <2>4, <3>1, StatusResolves DEF NotSent, Resolved, Failures
    <3> QED
      BY <2>1, <3>2 DEF Promise!PromiseNext, Promise!Resolutions, Promise!RemoteResults
  <2> QED
    BY <1>7, <2>3, <2>4 DEF RetryAfterTimeout
<1>8. ASSUME NEW id \in timers, GiveUpAfterTimeout(id) PROVE Promise!PromiseNext
  <2> DEFINE c == id_func_map_[id]
  <2>1. /\ c \in Calls /\ status[c] = "empty" /\ siState[SiOf[c]] \in {"open", "leaked"}
    BY <1>8, DeliveredToPending DEF GiveUpAfterTimeout, TimeoutDelivered, Registered
  <2>2. c \in Guarded
    BY <1>8 DEF GiveUpAfterTimeout, TimeoutDelivered, Registered, IInv, MessagesOK
  <2>3. status' = [status EXCEPT ![c] = "timeout"] /\ UNCHANGED <<siState, answers>>
    BY <1>8 DEF GiveUpAfterTimeout, netVars, answers
  <2> HIDE DEF c
  <2>4. Promise!Resolve(c, "timeout")
    BY <2>1, <2>2, <2>3, StatusResolves DEF Resolved
  <2> QED
    BY <2>1, <2>4 DEF Promise!PromiseNext, Promise!Resolutions
<1>9. ASSUME NEW m \in reqs, OnRpcReq(m) PROVE Stutter \/ Promise!PromiseNext
  <2>1. UNCHANGED <<reqs, status, siState, outcome>>
    BY <1>9 DEF OnRpcReq, cellVars, outcome
  <2>2. m.call \in Calls
    BY DEF IInv, TypeOK
  <2>3. CASE UNCHANGED rsps
    BY <2>1, <2>3 DEF answers
  <2>4. ASSUME NEW result \in Method[m.call] \ {"async"}, Respond(m.seq, result)
        PROVE  Stutter \/ Promise!PromiseNext
    <3>1. result \in Failures \cup {"succeeded"}
      BY <2>2, RpcCallAssumption DEF Returns
    <3>2. UNCHANGED answers \/ \E c \in Calls : Promise!Answer(c, result)
      BY <2>1, <2>4, <3>1, NewAnswer
    <3> QED
      BY <2>1, <3>1, <3>2 DEF Promise!PromiseNext, Promise!RemoteResults, Failures
  <2> QED
    BY <1>9, <2>3, <2>4 DEF OnRpcReq
<1>10. ASSUME NEW id \in serving, AsyncMethodEnds(id) PROVE Stutter \/ Promise!PromiseNext
  <2>1. UNCHANGED <<reqs, status, siState, outcome>>
    BY <1>10 DEF AsyncMethodEnds, cellVars, outcome
  <2>2. CASE UNCHANGED rsps
    BY <2>1, <2>2 DEF answers
  <2>3. CASE Respond(id, "succeeded")
    <3>1. UNCHANGED answers \/ \E c \in Calls : Promise!Answer(c, "succeeded")
      BY <2>1, <2>3, NewAnswer
    <3> QED
      BY <2>1, <3>1 DEF Promise!PromiseNext, Promise!RemoteResults
  <2> QED
    BY <1>10, <2>2, <2>3 DEF AsyncMethodEnds
<1>11. ASSUME UNCHANGED vars PROVE Stutter
  BY <1>11 DEF vars, cellVars, netVars, outcome, answers
<1> QED
  BY <1>1, <1>2, <1>3, <1>4, <1>5, <1>6, <1>7, <1>8, <1>9, <1>10, <1>11
     DEF Next, SIStep, HandlerStep, RemoteStep, OnRpcTimeout, DropLate

\* RpcCall implements RpcPromise: with its retries, late responses, timers and
\* teardown the endpoint keeps the promise of one final outcome per call.
THEOREM PromiseKept == Spec => KeepsPromise
<1>1. Init => Promise!PromiseInit
  BY RpcCallAssumption DEF Init, Promise!PromiseInit, outcome, answers, Resolved, Failures
<1>2. IInv /\ [Next]_vars => [Promise!PromiseNext]_(Promise!promiseVars)
  BY StepKeepsPromise
<1> QED
  BY <1>1, <1>2, Safety, PTL DEF Spec, KeepsPromise, Promise!PromiseSpec
=============================================================================
