---------------------------- MODULE TimerService ----------------------------
(***************************************************************************)
(* The timers of rpc attempts, which RpcCall takes for granted.            *)
(*                                                                         *)
(* SimpleTimerAdapter sends a set-timer message to the timer service.  Its *)
(* loop starts a thread per message, and the thread a UDP channel on a     *)
(* port of its own.  The channel sends itself an "init"; receiving it the  *)
(* thread sleeps, sends the timeout message to the service, and stays.     *)
(* The service's loop ignores timeouts of canceled ids and hands the       *)
(* others to RspMsgHandler.                                                *)
(*                                                                         *)
(* All of this is datagrams on one host: lost or late, but not duplicated. *)
(* An attempt is known to the code by its id only, and ids wrap around.    *)
(***************************************************************************)
EXTENDS Naturals, FiniteSets

CONSTANTS
    MaxAttempts,   \* bound: rpc attempts made by the service
    IdRange,       \* the ids 1 .. IdRange in use before they repeat
    PortRange,     \* 2^16: ports, and the values of entry_times
    FirstPort,     \* 20000
    Others         \* ports that others on the host hold, at times or for ever

ASSUME TimerServiceAssumption ==
    /\ MaxAttempts \in Nat /\ IdRange \in Nat \ {0} /\ PortRange \in Nat \ {0}
    /\ FirstPort \in 1 .. PortRange - 1
    /\ Others \subseteq 1 .. PortRange - 1

Attempts == 1 .. MaxAttempts
Loops == {"service", "timer"}

VARIABLES
    made,                  \* attempts made so far
    state,                 \* of each attempt
    id_func_map_,          \* RspMsgHandler of the service: id -> attempt
    canceled_timer_ids_,   \* TimerMgr of the service
    receiving,             \* loops whose channel waits for its next message
    requests,              \* set-timer messages in flight
    entry_times,           \* SetTimerHandler
    threads,               \* [at, port, ti] of the thread started for an attempt's timer
    timeouts,              \* timeout messages in flight: the threads that sent them
    up,                    \* the timer service's process
    lost                   \* attempts whose timer was lost on its way

vars == <<made, state, id_func_map_, canceled_timer_ids_, receiving, requests, entry_times,
          threads, timeouts, up, lost>>
serviceVars == <<made, state, id_func_map_, canceled_timer_ids_>>

Id(a) == ((a - 1) % IdRange) + 1
Pending(a) == state[a] = "pending"
NoThread == [at |-> "none", port |-> 0, ti |-> 0]
Bound == {a \in Attempts : threads[a].at \in {"bound", "asleep", "idle"}}
OwnPorts == {threads[a].port : a \in Bound}

TypeOK ==
    /\ made \in 0 .. MaxAttempts
    /\ state \in [Attempts -> {"new", "pending", "answered", "timeout", "released"}]
    /\ id_func_map_ \in [DOMAIN id_func_map_ -> Attempts]
    /\ \A id \in DOMAIN id_func_map_ : Id(id_func_map_[id]) = id /\ Pending(id_func_map_[id])
    /\ canceled_timer_ids_ \subseteq 1 .. IdRange
    /\ receiving \subseteq Loops
    /\ requests \subseteq Attempts
    /\ entry_times \in 0 .. PortRange - 1
    /\ threads \in [Attempts -> [at : {"none", "started", "bound", "asleep", "idle", "failed"},
                                 port : 0 .. PortRange - 1, ti : 0 .. MaxAttempts]]
    /\ timeouts \subseteq Attempts /\ lost \subseteq Attempts
    /\ up \in BOOLEAN

Init ==
    /\ made = 0 /\ state = [a \in Attempts |-> "new"]
    /\ id_func_map_ = [id \in {} |-> 0] /\ canceled_timer_ids_ = {}
    /\ receiving = Loops /\ requests = {} /\ entry_times = 0
    /\ threads = [a \in Attempts |-> NoThread] /\ timeouts = {}
    /\ up = TRUE /\ lost = {}

-----------------------------------------------------------------------------
(* The service *)

\* Faulty form of the next: the handler stays.
WithoutNone(id) == id_func_map_

\* id_func_map_.erase.
Without(id) == [i \in DOMAIN id_func_map_ \ {id} |-> id_func_map_[i]]

\* invoke_rpc_once: a registered request, and a timer for it.  A second handler
\* under an id fails the assertion in register_rsp_Handler and ends the process.
Attempt ==
    /\ made < MaxAttempts
    /\ made' = made + 1
    /\ Id(made') \notin DOMAIN id_func_map_
    /\ state' = [state EXCEPT ![made'] = "pending"]
    /\ id_func_map_' = [i \in DOMAIN id_func_map_ \cup {Id(made')} |->
                           IF i = Id(made') THEN made' ELSE id_func_map_[i]]
    /\ requests' = requests \cup {made'}
    /\ UNCHANGED <<canceled_timer_ids_, receiving, entry_times, threads, timeouts, up, lost>>

\* Faulty form of the next: the id of the latest attempt is canceled.
CanceledWithLatest(a) == canceled_timer_ids_ \cup {Id(made)}

\* SimpleTimerAdapter::cancel_timer: nothing takes an id out again.
CanceledWith(a) == canceled_timer_ids_ \cup {Id(a)}

\* The response comes: the handler is erased and the timer canceled.
Respond(a) ==
    /\ Pending(a) /\ "service" \in receiving
    /\ state' = [state EXCEPT ![a] = "answered"]
    /\ id_func_map_' = Without(Id(a))
    /\ canceled_timer_ids_' = CanceledWith(a)
    /\ UNCHANGED <<made, receiving, requests, entry_times, threads, timeouts, up, lost>>

\* The SI ends first: ~RspCellBase erases the handler, the timer runs on.
Release(a) ==
    /\ Pending(a)
    /\ state' = [state EXCEPT ![a] = "released"]
    /\ id_func_map_' = Without(Id(a))
    /\ UNCHANGED <<made, canceled_timer_ids_, receiving, requests, entry_times, threads, timeouts,
                   up, lost>>

\* Faulty form of the next: the handler is looked up whatever was canceled.
ShouldIgnoreNone(id) == FALSE

\* TimerMgr::should_ignore.
ShouldIgnore(id) == id \in canceled_timer_ids_

\* The loop gets a timeout message: ignored, or RpcTimeoutHandler::on_timeout.
TimeoutArrives(t) ==
    LET id == Id(threads[t].ti)
    IN  /\ "service" \in receiving /\ t \in timeouts
        /\ timeouts' = timeouts \ {t}
        /\ IF ShouldIgnore(id) \/ id \notin DOMAIN id_func_map_
             THEN UNCHANGED <<state, id_func_map_>>
             ELSE /\ state' = [state EXCEPT ![id_func_map_[id]] = "timeout"]
                  /\ id_func_map_' = Without(id)
        /\ UNCHANGED <<made, canceled_timer_ids_, receiving, requests, entry_times, threads, up, lost>>

-----------------------------------------------------------------------------
(* The timer service *)

\* Faulty form of the next: the lambda refers to the message in the channel's
\* buffer, where the next one has come since.
CapturedInfoLatest(a) == made

\* The lambda of the thread has a copy of the message.
CapturedInfo(a) == a

\* Faulty form of the next: the counter stands still.
NextEntryStays == entry_times

\* An unsigned short.
NextEntry == (entry_times + 1) % PortRange

\* SetTimerHandler::set_timer: a thread per message.
SetTimer(a) ==
    /\ up /\ "timer" \in receiving /\ a \in requests
    /\ requests' = requests \ {a}
    /\ entry_times' = NextEntry
    /\ threads' = [threads EXCEPT ![a] = [at   |-> "started",
                                          port |-> (FirstPort + entry_times') % PortRange,
                                          ti   |-> CapturedInfo(a)]]
    /\ UNCHANGED <<serviceVars, receiving, timeouts, up, lost>>

\* The thread's UdpChannel opens its socket: on its port, and with port 0 on any
\* that is free, but the "init" it sends to port 0 goes nowhere.
BindSucceeds(t) ==
    \/ /\ threads[t].port \notin OwnPorts \cup {0}
       /\ threads' = [threads EXCEPT ![t].at = "bound"]
       /\ UNCHANGED lost
    \/ /\ threads[t].port = 0
       /\ \E free \in (1 .. PortRange - 1) \ OwnPorts :
              threads' = [threads EXCEPT ![t].at = "idle", ![t].port = free]
       /\ lost' = lost \cup {threads[t].ti}

\* The port is held, or no port is free: the exception leaves the thread and ends
\* the process.  Others need not hold the port at this very moment.
BindFails(t) ==
    LET held == OwnPorts \cup Others
    IN  /\ IF threads[t].port = 0 THEN 1 .. PortRange - 1 \subseteq held ELSE threads[t].port \in held
        /\ threads' = [threads EXCEPT ![t].at = "failed"]
        /\ up' = FALSE
        /\ UNCHANGED lost

Bind(t) ==
    /\ up /\ threads[t].at = "started"
    /\ (BindSucceeds(t) /\ UNCHANGED up) \/ BindFails(t)
    /\ UNCHANGED <<serviceVars, receiving, requests, entry_times, timeouts>>

\* The thread gets its "init" and sleeps.
ReceiveInit(t) ==
    /\ up /\ threads[t].at = "bound"
    /\ threads' = [threads EXCEPT ![t].at = "asleep"]
    /\ UNCHANGED <<serviceVars, receiving, requests, entry_times, timeouts, up, lost>>

\* "init" is lost, or followed in the uninitialized recv_buffer_ by a byte that
\* is not 0: the thread, and its port, wait for ever.
MissInit(t) ==
    /\ up /\ threads[t].at = "bound"
    /\ threads' = [threads EXCEPT ![t].at = "idle"]
    /\ lost' = lost \cup {threads[t].ti}
    /\ UNCHANGED <<serviceVars, receiving, requests, entry_times, timeouts, up>>

\* The time is over.  The thread keeps running its channel and its port.
Wake(t) ==
    /\ up /\ threads[t].at = "asleep"
    /\ threads' = [threads EXCEPT ![t].at = "idle"]
    /\ timeouts' = timeouts \cup {t}
    /\ UNCHANGED <<serviceVars, receiving, requests, entry_times, up, lost>>

-----------------------------------------------------------------------------
(* The network *)

Lose ==
    /\ \/ \E a \in requests : requests' = requests \ {a} /\ lost' = lost \cup {a} /\ UNCHANGED timeouts
       \/ \E t \in timeouts : /\ timeouts' = timeouts \ {t} /\ lost' = lost \cup {threads[t].ti}
                              /\ UNCHANGED requests
    /\ UNCHANGED <<serviceVars, receiving, entry_times, threads, up>>

\* handle_receive gets an error other than message_size: it does not receive again.
ReceiveFails(l) ==
    /\ l \in receiving
    /\ receiving' = receiving \ {l}
    /\ UNCHANGED <<serviceVars, requests, entry_times, threads, timeouts, up, lost>>

Next == \/ Attempt
        \/ \E a \in Attempts : \/ Respond(a) \/ Release(a) \/ TimeoutArrives(a)
                               \/ SetTimer(a) \/ Bind(a) \/ ReceiveInit(a) \/ MissInit(a) \/ Wake(a)
        \/ Lose
        \/ \E l \in Loops : ReceiveFails(l)

Spec == Init /\ [][Next]_vars

\* Both loops handle what has come, and threads run and wake.
FairSpec == /\ Spec
            /\ \A a \in Attempts : /\ WF_vars(TimeoutArrives(a))
                                   /\ WF_vars(SetTimer(a) \/ Bind(a) \/ ReceiveInit(a) \/ Wake(a))

-----------------------------------------------------------------------------
\* The timer of a is on its way: asked for, running, or sent.
OnItsWay(a) ==
    \/ a \in requests
    \/ \E t \in Attempts : /\ threads[t].ti = a
                           /\ threads[t].at \in {"started", "bound", "asleep"} \/ t \in timeouts

\* An attempt with the id of an earlier one.
Repeats(a) == a > IdRange

\* While the process of the timer service runs, a pending attempt is guarded: its
\* timer is on its way and will not be ignored, unless it was lost or the attempt
\* repeats an id, whatever ended meanwhile (cancel_timer, set_timer, should_ignore).
PendingIsGuarded ==
    \A a \in Attempts : up /\ Pending(a) /\ ~Repeats(a) /\ a \notin lost =>
        OnItsWay(a) /\ Id(a) \notin canceled_timer_ids_

\* An attempt times out by its own timer, or by that of an attempt a full round
\* of ids before that ended without its timer being canceled (on_timeout).
TimeoutIsOwn ==
    [][\A a \in Attempts : Pending(a) /\ state'[a] = "timeout" =>
          \E t \in timeouts \ timeouts' :
              t = a \/ (t < a /\ Id(t) = Id(a) /\ state[t] # "answered")]_vars

\* A timer's thread fails to bind, and ends the service of timers, only where
\* others hold its port: the threads do not come into each other's way before so
\* many timers that the ports from the first one on are used up (temp_udp_port).
PortsLast ==
    \A t \in Attempts : threads[t].at = "failed" =>
        threads[t].port \in Others \/ made >= PortRange - FirstPort

\* While both loops and the process run, a timer that is not lost ends the wait
\* of its attempt (the assumption of RpcCall's GuardedCallEnds).
TimerEndsWait ==
    \A a \in Attempts :
        (Pending(a) /\ ~Repeats(a)) ~> (~Pending(a) \/ a \in lost \/ ~up \/ receiving # Loops)
=============================================================================
