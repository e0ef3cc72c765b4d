------------------------------ MODULE RpcCall -------------------------------
(***************************************************************************)
(* One rpc endpoint from request to outcome: the stub that registers a     *)
(* cell under a sequence id and sends the request, RspMsgHandler, which    *)
(* dispatches responses and timeouts to registered cells, TimeoutCell,     *)
(* which guards an rpc with a timer and retries it, the timer adapter, and *)
(* the teardown of the cells when the service interaction (SI) ends.       *)
(*                                                                         *)
(* The process is one event loop: a message is handled to its end before   *)
(* the next one.  A handler that resolves a call runs the SI's own code    *)
(* (derived cells and actions) before it returns; `main' tells whose code  *)
(* is running.  What an SI does with an outcome is left open: in a turn of *)
(* its own it may start any call not started yet, and it may finish.       *)
(*                                                                         *)
(* reqs, rsps and timers only grow, and any element may be delivered any   *)
(* number of times, in any order, or never: a datagram is lost, duplicated *)
(* or late without an action of its own.                                   *)
(***************************************************************************)
EXTENDS Integers, FiniteSets

CONSTANTS SIs,       \* service interactions run by this process
          Calls,     \* the rpcs they may make
          SiOf,      \* the SI a call belongs to
          Guarded,   \* calls made through ___rpc(___ms, ___retry, ..): TimeoutCell
          Retries,   \* retry_times of a guarded call
          Method,    \* what the remote method of a call may return
          NoSI       \* no SI: the event loop waits

Failures == {"failed", "iface_not_found", "method_not_found"}
Returns == Failures \cup {"succeeded", "async"}

ASSUME RpcCallAssumption ==
    /\ SiOf \in [Calls -> SIs]
    /\ Guarded \subseteq Calls
    /\ Retries \in Nat
    /\ Method \in [Calls -> SUBSET Returns]
    /\ NoSI \notin SIs

VARIABLES
    sequence_id_,         \* RpcSequenceId: the last id given
    id_func_map_,         \* RspMsgHandler: id -> the call whose rpc cell is the sink
    seq_id_,              \* id of the latest rpc cell of a call, 0 before the first
    has_seq_id_,          \* that cell believes it is registered
    status,               \* of the cell the SI holds: the TimeoutCell or the rpc cell
    retry_times_,         \* attempts a TimeoutCell has left
    siState,              \* "new", "open", "leaked" (ended, never torn down), "released"
    main,                 \* the turn of the event loop: [at, si, rsp]
    reqs,                 \* requests sent
    rsps,                 \* responses sent
    serving,              \* requests whose method returned a cell not ready yet
    timers,               \* ids a timer was set for
    canceled_timer_ids_   \* TimerMgr: ids whose timeout message is ignored

cellVars == <<seq_id_, has_seq_id_, status, retry_times_>>
netVars == <<reqs, rsps, serving>>
vars == <<sequence_id_, id_func_map_, cellVars, siState, main, netVars, timers,
          canceled_timer_ids_>>

-----------------------------------------------------------------------------
Resolved == {"succeeded", "timeout"} \cup Failures
Idle == [at |-> "idle", si |-> NoSI, rsp |-> 0]
Turn(at, s, id) == [at |-> at, si |-> s, rsp |-> id]
CallsOf(s) == {c \in Calls : SiOf[c] = s}
Registered(id) == id \in DOMAIN id_func_map_
MapWithout(ids) == [id \in DOMAIN id_func_map_ \ ids |-> id_func_map_[id]]

TypeOK ==
    /\ sequence_id_ \in Nat
    /\ DOMAIN id_func_map_ \subseteq 1 .. sequence_id_
    /\ id_func_map_ \in [DOMAIN id_func_map_ -> Calls]
    /\ seq_id_ \in [Calls -> 0 .. sequence_id_]
    /\ has_seq_id_ \in [Calls -> BOOLEAN]
    /\ status \in [Calls -> {"idle", "empty"} \cup Resolved]
    /\ retry_times_ \in [Calls -> 0 .. Retries]
    /\ siState \in [SIs -> {"new", "open", "leaked", "released"}]
    /\ main \in [at : {"idle", "build", "cascade"}, si : SIs \cup {NoSI}, rsp : 0 .. sequence_id_]
    /\ reqs \subseteq [seq : 1 .. sequence_id_, call : Calls]
    /\ rsps \subseteq [seq : 1 .. sequence_id_, result : Failures \cup {"succeeded"}]
    /\ serving \subseteq 1 .. sequence_id_
    /\ timers \subseteq 1 .. sequence_id_
    /\ canceled_timer_ids_ \subseteq 1 .. sequence_id_

Init ==
    /\ sequence_id_ = 0
    /\ id_func_map_ = [id \in {} |-> NoSI]
    /\ seq_id_ = [c \in Calls |-> 0]
    /\ has_seq_id_ = [c \in Calls |-> FALSE]
    /\ status = [c \in Calls |-> "idle"]
    /\ retry_times_ = [c \in Calls |-> IF c \in Guarded THEN Retries ELSE 0]
    /\ siState = [s \in SIs |-> "new"]
    /\ main = Idle
    /\ reqs = {} /\ rsps = {} /\ serving = {}
    /\ timers = {} /\ canceled_timer_ids_ = {}

-----------------------------------------------------------------------------
\* Faulty forms of the next: no timer for a retry; a timer for raw rpcs too.
TimersOfFirstAttempts(c, id) == IF c \in Guarded /\ seq_id_[c] = 0 THEN timers \cup {id} ELSE timers
TimersOfAllCalls(c, id) == timers \cup {id}

\* set_timer: only TimeoutCell sets one, for every attempt.
TimersWith(c, id) == IF c \in Guarded THEN timers \cup {id} ELSE timers

\* Faulty form of the next: cancels the timer of the latest rpc made.
TimerCanceledLatest(c, id) == canceled_timer_ids_ \cup {sequence_id_}

\* cancel_timer, by the action TimeoutCell binds to its rpc cell.
TimerCanceled(c, id) == IF c \in Guarded THEN canceled_timer_ids_ \cup {id} ELSE canceled_timer_ids_

\* The stub takes the next id, registers a new rpc cell under it (the ids of
\* `gone' have been erased before), sends the request; a TimeoutCell sets a timer.
Send(c, gone) ==
    LET id == sequence_id_ + 1
    IN  /\ sequence_id_' = id
        /\ id_func_map_' = [j \in (DOMAIN id_func_map_ \ gone) \cup {id} |->
                               IF j = id THEN c ELSE id_func_map_[j]]
        /\ seq_id_' = [seq_id_ EXCEPT ![c] = id]
        /\ has_seq_id_' = [has_seq_id_ EXCEPT ![c] = TRUE]
        /\ status' = [status EXCEPT ![c] = "empty"]
        /\ reqs' = reqs \cup {[seq |-> id, call |-> c]}
        /\ timers' = TimersWith(c, id)

\* Nothing is sent: the request is not encodable (no id is taken), or no
\* instance of the service is known and the registered cell is deleted again.
NotSent(c, gone) ==
    /\ sequence_id_' \in {sequence_id_, sequence_id_ + 1}
    /\ id_func_map_' = MapWithout(gone)
    /\ has_seq_id_' = [has_seq_id_ EXCEPT ![c] = FALSE]
    /\ status' = [status EXCEPT ![c] = "failed"]
    /\ UNCHANGED <<seq_id_, reqs, timers>>

\* Faulty form of the next: cells deleted without removing their handlers.
TearDownKeepsHandlers(s) ==
    /\ siState' = [siState EXCEPT ![s] = "released"]
    /\ UNCHANGED <<id_func_map_, has_seq_id_>>

\* The context and every cell it tracks are deleted; ~RspCellBase removes the
\* handler of each cell that still has a sequence id.
TearDown(s) ==
    /\ siState' = [siState EXCEPT ![s] = "released"]
    /\ id_func_map_' = MapWithout({seq_id_[c] : c \in {d \in CallsOf(s) : has_seq_id_[d]}})
    /\ has_seq_id_' = [c \in Calls |-> has_seq_id_[c] /\ SiOf[c] # s]

-----------------------------------------------------------------------------
StartSI(s) ==
    /\ main = Idle
    /\ siState[s] = "new"
    /\ siState' = [siState EXCEPT ![s] = "open"]
    /\ main' = Turn("build", s, 0)
    /\ UNCHANGED <<sequence_id_, id_func_map_, cellVars, netVars, timers, canceled_timer_ids_>>

\* The SI's code, in a turn of its own, makes an rpc.
StartCall(c) ==
    /\ main.si = SiOf[c]
    /\ siState[SiOf[c]] # "released"
    /\ status[c] = "idle"
    /\ Send(c, {}) \/ NotSent(c, {})
    /\ UNCHANGED <<retry_times_, siState, main, rsps, serving, canceled_timer_ids_>>

\* run_si returns the result cell: not ready (the final action is registered on
\* it), holding an error (the final action runs at once, before the context is
\* bound to it, and nothing is torn down), or holding a value (deleted at once).
EndBuild ==
    /\ main.at = "build"
    /\ main' = Idle
    /\ \/ UNCHANGED <<siState, id_func_map_, has_seq_id_>>
       \/ /\ siState' = [siState EXCEPT ![main.si] = "leaked"]
          /\ UNCHANGED <<id_func_map_, has_seq_id_>>
       \/ TearDown(main.si)
    /\ UNCHANGED <<sequence_id_, seq_id_, status, retry_times_, netVars, timers,
                   canceled_timer_ids_>>

\* In the turn of a response or a timeout the result cell becomes ready: the
\* final action answers and deletes it.  The handler has not returned yet.
FinishSI ==
    /\ main.at = "cascade"
    /\ siState[main.si] = "open"
    /\ TearDown(main.si)
    /\ UNCHANGED <<sequence_id_, seq_id_, status, retry_times_, main, netVars, timers,
                   canceled_timer_ids_>>

\* Faulty form of the next: the handler of a response is kept.
HandlersKept(id) == UNCHANGED <<id_func_map_, has_seq_id_>>

delete_rsp_handler_if_exist(id) ==
    /\ id_func_map_' = MapWithout({id})
    /\ has_seq_id_' = [c \in Calls |-> has_seq_id_[c] /\ ~(Registered(id) /\ id_func_map_[id] = c)]

\* The handler returns; after a response, delete_rsp_handler_if_exist.
EndCascade ==
    /\ main.at = "cascade"
    /\ main' = Idle
    /\ delete_rsp_handler_if_exist(main.rsp)
    /\ UNCHANGED <<sequence_id_, seq_id_, status, retry_times_, siState, netVars, timers,
                   canceled_timer_ids_>>

-----------------------------------------------------------------------------
\* handle_rpc_rsp.  The sink stays registered while the cells it feeds run.
OnRpcRsp(m) ==
    /\ main = Idle
    /\ Registered(m.seq)
    /\ LET c == id_func_map_[m.seq]
       IN  /\ \E decoded \in IF m.result = "succeeded" THEN BOOLEAN ELSE {TRUE} :
                 status' = [status EXCEPT ![c] = IF decoded THEN m.result ELSE "failed"]
           /\ canceled_timer_ids_' = TimerCanceled(c, m.seq)
           /\ main' = Turn("cascade", SiOf[c], m.seq)
    /\ UNCHANGED <<sequence_id_, id_func_map_, seq_id_, has_seq_id_, retry_times_, siState,
                   netVars, timers>>

\* A timeout message passes the loop's filter and finds its handler.
TimeoutDelivered(id) ==
    /\ main = Idle
    /\ id \notin canceled_timer_ids_
    /\ Registered(id)

\* Faulty forms of the next: one attempt too few; one too many.
RetryLeftMoreThanOne(c) == retry_times_[c] > 1
RetryLeftAlways(c) == retry_times_[c] >= 0

RetryLeft(c) == retry_times_[c] > 0

RetryAfterTimeout(id) ==
    /\ TimeoutDelivered(id)
    /\ LET c == id_func_map_[id]
       IN  /\ RetryLeft(c)
           /\ retry_times_' = [retry_times_ EXCEPT ![c] = @ - 1]
           /\ \/ Send(c, {id}) /\ UNCHANGED main
              \/ NotSent(c, {id}) /\ main' = Turn("cascade", SiOf[c], 0)
    /\ UNCHANGED <<siState, rsps, serving, canceled_timer_ids_>>

GiveUpAfterTimeout(id) ==
    /\ TimeoutDelivered(id)
    /\ LET c == id_func_map_[id]
       IN  /\ ~RetryLeft(c)
           /\ id_func_map_' = MapWithout({id})
           /\ has_seq_id_' = [has_seq_id_ EXCEPT ![c] = FALSE]
           /\ status' = [status EXCEPT ![c] = "timeout"]
           /\ main' = Turn("cascade", SiOf[c], 0)
    /\ UNCHANGED <<sequence_id_, seq_id_, retry_times_, siState, netVars, timers,
                   canceled_timer_ids_>>

OnRpcTimeout(id) == RetryAfterTimeout(id) \/ GiveUpAfterTimeout(id)

\* A response or timeout whose id has no handler any more, and a timeout that
\* was canceled, are dropped.
DropLate ==
    /\ main = Idle
    /\ \/ \E m \in rsps : ~Registered(m.seq)
       \/ \E id \in timers : id \in canceled_timer_ids_ \/ ~Registered(id)
    /\ UNCHANGED vars

-----------------------------------------------------------------------------
\* The remote endpoint: ReqMsgHandler answers at once, or the method's cell is
\* not ready and its final action answers later, if it has a value at all.
Respond(id, result) == rsps' = rsps \cup {[seq |-> id, result |-> result]}

OnRpcReq(m) ==
    /\ \/ \E result \in Method[m.call] \ {"async"} : Respond(m.seq, result) /\ UNCHANGED serving
       \/ /\ "async" \in Method[m.call]
          /\ serving' = serving \cup {m.seq}
          /\ UNCHANGED rsps
    /\ UNCHANGED <<sequence_id_, id_func_map_, cellVars, siState, main, reqs, timers,
                   canceled_timer_ids_>>

AsyncMethodEnds(id) ==
    /\ serving' = serving \ {id}
    /\ Respond(id, "succeeded") \/ UNCHANGED rsps
    /\ UNCHANGED <<sequence_id_, id_func_map_, cellVars, siState, main, reqs, timers,
                   canceled_timer_ids_>>

-----------------------------------------------------------------------------
SIStep == \/ \E s \in SIs : StartSI(s)
          \/ \E c \in Calls : StartCall(c)
          \/ EndBuild
          \/ FinishSI
          \/ EndCascade

HandlerStep == \/ \E m \in rsps : OnRpcRsp(m)
               \/ \E id \in timers : OnRpcTimeout(id)
               \/ DropLate

RemoteStep == \/ \E m \in reqs : OnRpcReq(m)
              \/ \E id \in serving : AsyncMethodEnds(id)

Next == SIStep \/ HandlerStep \/ RemoteStep

Spec == Init /\ [][Next]_vars

\* A handler returns, and the timer service delivers the timeout of every
\* timer set.  Nothing is assumed of requests, responses and remote methods.
Fairness == /\ WF_vars(EndBuild)
            /\ WF_vars(EndCascade)
            /\ WF_vars(\E id \in timers : OnRpcTimeout(id))

FairSpec == Spec /\ Fairness
-----------------------------------------------------------------------------
\* The handler map and the cells agree: a registered id leads to a cell that
\* is not deleted and carries that id, and a cell that will unregister itself
\* when deleted is registered.  A dangling sink would be called on the next
\* response (RspMsgHandler::handle_rpc_rsp, ~RspCellBase).
HandlersMatchCells ==
    /\ \A id \in DOMAIN id_func_map_ :
           LET c == id_func_map_[id]
           IN  /\ seq_id_[c] = id /\ has_seq_id_[c]
               /\ siState[SiOf[c]] \in {"open", "leaked"}
    /\ \A c \in Calls : has_seq_id_[c] => Registered(seq_id_[c]) /\ id_func_map_[seq_id_[c]] = c

\* While its SI lives, a call without an outcome has a registered attempt, and
\* a guarded one has a timer that nobody has canceled: whatever is lost, some
\* event can still end it (TimeoutCell::invoke_rpc_once, retry_rpc_if_need).
PendingCallCanEnd ==
    \A c \in Calls :
        status[c] = "empty" /\ siState[SiOf[c]] # "released" =>
            /\ has_seq_id_[c] /\ Registered(seq_id_[c])
            /\ c \in Guarded => seq_id_[c] \in timers \ canceled_timer_ids_

\* A call with an outcome keeps its handler only until the turn that resolved
\* it ends, so nothing arriving later reaches its cell (delete_rsp_handler_if_exist).
ResolvedCallUnregistered ==
    \A c \in Calls :
        status[c] \in Resolved /\ has_seq_id_[c] => main.rsp = seq_id_[c]

\* A call ends with "timeout" only when all its Retries + 1 requests were sent
\* and every one of them ran into its timer (retry_times_).
TimeoutAfterAllAttempts ==
    \A c \in Calls :
        status[c] = "timeout" =>
            LET attempts == {m.seq : m \in {r \in reqs : r.call = c}}
            IN  /\ Cardinality(attempts) = Retries + 1
                /\ attempts \subseteq timers \ canceled_timer_ids_
                /\ \A id \in attempts : ~Registered(id)

\* A resolved call keeps its outcome: a late, duplicated or retried response or
\* timeout never rewrites what the SI has acted on.
OutcomeIsFinal ==
    [][\A c \in Calls : status[c] \in Resolved => status'[c] = status[c]]_vars

\* A timer is canceled only by the response to the very attempt it guards, in
\* the turn of that response, and never while its call still waits.
CancelOnlyAnswered ==
    [][\A id \in canceled_timer_ids_' \ canceled_timer_ids_ :
          /\ \E m \in rsps : m.seq = id
          /\ \E c \in Calls : seq_id_[c] = id /\ status[c] = "empty" /\ status'[c] \in Resolved]_vars

\* A guarded call gets an outcome, or its SI ends first, though every request
\* and every response be lost.
GuardedCallEnds ==
    \A c \in Calls :
        c \in Guarded /\ status[c] = "empty"
            ~> status[c] \in Resolved \/ siState[SiOf[c]] = "released"

-----------------------------------------------------------------------------
\* What the SI sees of a call, and what the remote side has answered to any of
\* its attempts.
outcome == [c \in Calls |->
               IF siState[SiOf[c]] = "released" /\ status[c] \notin Resolved
                 THEN "abandoned" ELSE status[c]]
answers == {p \in Calls \X (Failures \cup {"succeeded"}) :
               \E r \in reqs, m \in rsps : r.seq = m.seq /\ r.call = p[1] /\ m.result = p[2]}

Promise == INSTANCE RpcPromise WITH outcome <- outcome, answers <- answers

\* Retries, handlers, timers and the network together keep the promise.
KeepsPromise == Promise!PromiseSpec
=============================================================================
