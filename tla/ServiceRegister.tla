-------------------------- MODULE ServiceRegister ---------------------------
(***************************************************************************)
(* ZkServiceRegister: the cache of service instances one process keeps of  *)
(* ZooKeeper.                                                              *)
(*                                                                         *)
(* Two threads work on it.  The main thread runs init() in the turn of its *)
(* first message, then tasks and rpcs one turn at a time.  The ZooKeeper   *)
(* client's thread delivers watch events: its callbacks read ZooKeeper,    *)
(* keep old_services_, and send what they read to the main thread as a     *)
(* task, in a datagram of the process to itself that may be lost.          *)
(*                                                                         *)
(* Of ZooKeeper itself only what the code uses is modelled: children of    *)
(* /services and of /services/<service>; a watch is set by the read of the *)
(* children and fires once, at their next change; events keep their order. *)
(* Service nodes are persistent and nothing in the code deletes them.  The *)
(* session of this process lasts.                                          *)
(***************************************************************************)
EXTENDS Integers, Sequences, FiniteSets, SequencesExt

CONSTANTS Services,
          Instances,    \* endpoints, ordered as service ids are
          Nodes,        \* nodes /services/<service>/<endpoint>@<session>
          Listeners, Listens,   \* SRListeners and the service each listens to
          Collected,    \* listeners made before the register exists
          Filtering,    \* a ServiceFilter is collected: service_x's version filter
          MaxChanges, MaxPicks  \* bounds: changes by other processes, rpcs resolved

ASSUME ServiceRegisterAssumption ==
    /\ "services" \notin Services
    /\ Instances \subseteq Nat /\ IsFiniteSet(Instances)   \* addresses and 16-bit ports
    /\ \A n \in Nodes : Len(n) = 2 /\ n[1] \in Instances
    /\ Listens \in [Listeners -> Services]
    /\ Collected \subseteq Listeners
    /\ Filtering \in BOOLEAN
    /\ MaxChanges \in Nat /\ MaxPicks \in Nat

VARIABLES
    zkRoot, zkServices, zkNodes,     \* ZooKeeper's tree
    servicesWatch, instancesWatch,   \* watches of this process that are set
    events,                          \* watch events not delivered yet, in order
    zk,                              \* the callback running: [at, services, todo]
    old_services_,
    main,                            \* the main thread: [at, services, todo]
    tasks,                           \* tasks in the main queue: <<service, instances>>
    lost,                            \* services whose latest task was lost
    services_cache_, round_robin_map_,
    listeners_map_, told,            \* registered listeners; what each was last told
    served,                          \* requests per instance since its cache entry was set
    initSawRoot, changes, picks

tree == <<zkRoot, zkServices, zkNodes>>
watches == <<servicesWatch, instancesWatch, events>>
cacheVars == <<services_cache_, listeners_map_, told, served>>
rrVars == <<round_robin_map_, picks>>
vars == <<tree, watches, zk, old_services_, main, tasks, lost, cacheVars, rrVars, initSawRoot,
          changes>>

Resting(at) == [at |-> at, services |-> {}, todo |-> {}]
Cached(s) == s \in DOMAIN services_cache_

TypeOK ==
    /\ zkRoot \in BOOLEAN /\ zkServices \subseteq Services
    /\ zkNodes \in [Services -> SUBSET Nodes]
    /\ servicesWatch \in BOOLEAN /\ instancesWatch \subseteq Services
    /\ events \in Seq(Services \cup {"services"})
    /\ zk \in [at : {"idle", "diff", "fetch"}, services : SUBSET Services, todo : SUBSET Services]
    /\ old_services_ \subseteq Services
    /\ main \in [at : {"start", "store", "fetch", "loop", "create", "enroll", "registered"},
                 services : SUBSET Services, todo : SUBSET Services]
    /\ tasks \in Seq(Services \X SUBSET Instances)
    /\ lost \subseteq Services
    /\ DOMAIN services_cache_ \subseteq Services
    /\ \A s \in DOMAIN services_cache_ : services_cache_[s] \subseteq Instances
    /\ round_robin_map_ \in [Services -> Nat]
    /\ listeners_map_ \in [Services -> SUBSET Listeners]
    /\ told \in [Listeners -> SUBSET Instances]
    /\ served \in [Services -> [Instances -> Nat]]

Init ==
    /\ zkRoot \in BOOLEAN /\ zkServices = {}
    /\ zkNodes = [s \in Services |-> {}]
    /\ servicesWatch = FALSE /\ instancesWatch = {} /\ events = <<>>
    /\ zk = Resting("idle") /\ old_services_ = {}
    /\ main = Resting("start") /\ tasks = <<>> /\ lost = {}
    /\ services_cache_ = [s \in {} |-> {}]
    /\ round_robin_map_ = [s \in Services |-> 0]
    /\ listeners_map_ = [s \in Services |-> {}]
    /\ told = [l \in Listeners |-> {}]
    /\ served = [s \in Services |-> [i \in Instances |-> 0]]
    /\ initSawRoot = FALSE /\ changes = 0 /\ picks = 0

-----------------------------------------------------------------------------
(* ZooKeeper *)

CreateServiceNode(s) ==
    /\ zkServices' = zkServices \cup {s}
    /\ IF s \notin zkServices /\ servicesWatch
         THEN servicesWatch' = FALSE /\ events' = Append(events, "services")
         ELSE UNCHANGED <<servicesWatch, events>>
    /\ UNCHANGED <<zkRoot, zkNodes, instancesWatch>>

SetNodes(s, nodes) ==
    /\ zkNodes' = [zkNodes EXCEPT ![s] = nodes]
    /\ IF nodes # zkNodes[s] /\ s \in instancesWatch
         THEN instancesWatch' = instancesWatch \ {s} /\ events' = Append(events, s)
         ELSE UNCHANGED <<instancesWatch, events>>
    /\ UNCHANGED <<zkRoot, zkServices, servicesWatch>>

\* Other processes register, and their sessions end, one node at a time.
Others ==
    /\ changes < MaxChanges
    /\ changes' = changes + 1
    /\ \/ ~zkRoot /\ zkRoot' = TRUE /\ UNCHANGED <<zkServices, zkNodes, watches>>
       \/ zkRoot /\ \E s \in Services \ zkServices : CreateServiceNode(s)
       \/ \E s \in zkServices, n \in Nodes : SetNodes(s, zkNodes[s] \cup {n}) /\ n \notin zkNodes[s]
       \/ \E s \in zkServices : \E n \in zkNodes[s] : SetNodes(s, zkNodes[s] \ {n})
    /\ UNCHANGED <<zk, old_services_, main, tasks, lost, cacheVars, rrVars, initSawRoot>>

-----------------------------------------------------------------------------
\* The endpoints of the nodes, each once, in whichever sessions it is registered.
strings_to_instances(nodes) == {n[1] : n \in nodes}

\* The children of /services, read with a watch.  Before the root exists the read
\* finds nothing and leaves no watch.
WatchServices == servicesWatch' = (servicesWatch \/ zkRoot)

\* Faulty form of the next: read without setting the watch again.
WatchOnce(s) == UNCHANGED instancesWatch

WatchInstances(s) == instancesWatch' = instancesWatch \cup {s}

FirstOf(instances) == CHOOSE i \in instances : \A j \in instances : i <= j

\* The collected filters.  ServiceVersionFilter drops the first of several.
Filtered(instances) ==
    IF Filtering /\ Cardinality(instances) > 1 THEN instances \ {FirstOf(instances)} ELSE instances

\* Faulty form of the next: nobody is told.
CacheWithoutNotice(s, instances) ==
    /\ services_cache_' = [t \in DOMAIN services_cache_ \cup {s} |->
                               IF t = s THEN instances ELSE services_cache_[t]]
    /\ served' = [served EXCEPT ![s] = [i \in Instances |-> 0]]
    /\ UNCHANGED told

\* services_cache_[service_name] = ..; do_notify_listeners.
CacheAndNotify(s, instances) ==
    /\ services_cache_' = [t \in DOMAIN services_cache_ \cup {s} |->
                               IF t = s THEN instances ELSE services_cache_[t]]
    /\ served' = [served EXCEPT ![s] = [i \in Instances |-> 0]]
    /\ told' = [l \in Listeners |-> IF l \in listeners_map_[s] THEN instances ELSE told[l]]

-----------------------------------------------------------------------------
(* The main thread: init() *)

\* The collected listeners are registered (the cache is empty, none is told), and
\* the services are read.
InitReadsServices ==
    /\ main.at = "start"
    /\ listeners_map_' = [s \in Services |-> {l \in Collected : Listens[l] = s}]
    /\ WatchServices
    /\ initSawRoot' = zkRoot
    /\ main' = [at |-> "store", services |-> zkServices, todo |-> zkServices]
    /\ UNCHANGED <<tree, instancesWatch, events, zk, old_services_, tasks, lost,
                   services_cache_, told, served, rrVars, changes>>

InitStoresServices ==
    /\ main.at = "store"
    /\ old_services_' = main.services
    /\ main' = [main EXCEPT !.at = "fetch"]
    /\ UNCHANGED <<tree, watches, zk, tasks, lost, cacheVars, rrVars, initSawRoot, changes>>

InitFetches(s) ==
    /\ main.at = "fetch" /\ s \in main.todo
    /\ WatchInstances(s)
    /\ CacheAndNotify(s, Filtered(strings_to_instances(zkNodes[s])))
    /\ main' = [main EXCEPT !.todo = @ \ {s}]
    /\ UNCHANGED <<tree, servicesWatch, events, zk, old_services_, tasks, lost, listeners_map_,
                   rrVars, initSawRoot, changes>>

InitEnds ==
    /\ main.at = "fetch" /\ main.todo = {}
    /\ main' = Resting("loop")
    /\ UNCHANGED <<tree, watches, zk, old_services_, tasks, lost, cacheVars, rrVars, initSawRoot,
                   changes>>

-----------------------------------------------------------------------------
(* The ZooKeeper client's thread *)

\* fetch_and_update_instances: read with a watch, and dispatch to the main queue.
FetchAndDispatch(s) ==
    /\ WatchInstances(s)
    /\ \/ /\ tasks' = Append(tasks, <<s, strings_to_instances(zkNodes[s])>>)
          /\ lost' = lost \ {s}
       \/ /\ lost' = lost \cup {s}
          /\ UNCHANGED tasks

Deliver == zk.at = "idle" /\ events # <<>> /\ events' = Tail(events)

\* instance_child_watcher_fn
OnInstanceEvent ==
    /\ Deliver
    /\ Head(events) # "services"
    /\ FetchAndDispatch(Head(events))
    /\ UNCHANGED <<tree, servicesWatch, zk, old_services_, main, cacheVars, rrVars, initSawRoot,
                   changes>>

\* service_child_watcher_fn, to the read of the services
OnServicesEvent ==
    /\ Deliver
    /\ Head(events) = "services"
    /\ WatchServices
    /\ zk' = [at |-> "diff", services |-> zkServices, todo |-> {}]
    /\ UNCHANGED <<tree, instancesWatch, old_services_, main, tasks, lost, cacheVars, rrVars,
                   initSawRoot, changes>>

\* Faulty form of the next: old_services_ is brought up to date before.
ChangedAfterStore == {}

Changed == (zk.services \ old_services_) \cup (old_services_ \ zk.services)

DiffServices ==
    /\ zk.at = "diff"
    /\ zk' = [zk EXCEPT !.at = "fetch", !.todo = Changed]
    /\ UNCHANGED <<tree, watches, old_services_, main, tasks, lost, cacheVars, rrVars,
                   initSawRoot, changes>>

FetchChanged(s) ==
    /\ zk.at = "fetch" /\ s \in zk.todo
    /\ FetchAndDispatch(s)
    /\ zk' = [zk EXCEPT !.todo = @ \ {s}]
    /\ UNCHANGED <<tree, servicesWatch, events, old_services_, main, cacheVars, rrVars,
                   initSawRoot, changes>>

StoreServices ==
    /\ zk.at = "fetch" /\ zk.todo = {}
    /\ old_services_' = zk.services
    /\ zk' = Resting("idle")
    /\ UNCHANGED <<tree, watches, main, tasks, lost, cacheVars, rrVars, initSawRoot, changes>>

-----------------------------------------------------------------------------
(* The main thread: its turns after init() *)

InLoop == main.at \in {"loop", "registered"}

RunTask ==
    /\ InLoop /\ tasks # <<>>
    /\ CacheAndNotify(Head(tasks)[1], Head(tasks)[2])
    /\ tasks' = Tail(tasks)
    /\ UNCHANGED <<tree, watches, zk, old_services_, main, lost, listeners_map_, rrVars,
                   initSawRoot, changes>>

\* register_service, once: the root and its watch; the service; the ephemeral node.
RegisterReadsServices ==
    /\ main.at = "loop"
    /\ main' = Resting("create")
    /\ zkRoot' = TRUE
    /\ servicesWatch' = TRUE
    /\ UNCHANGED <<zkServices, zkNodes, instancesWatch, events, zk, old_services_, tasks, lost,
                   cacheVars, rrVars, initSawRoot, changes>>

RegisterCreatesService(s) ==
    /\ main.at = "create"
    /\ main' = [main EXCEPT !.at = "enroll", !.todo = {s}]
    /\ CreateServiceNode(s)
    /\ UNCHANGED <<zk, old_services_, tasks, lost, cacheVars, rrVars, initSawRoot, changes>>

RegisterEnrolls(n) ==
    /\ main.at = "enroll"
    /\ \E s \in main.todo : SetNodes(s, zkNodes[s] \cup {n})
    /\ main' = Resting("registered")
    /\ UNCHANGED <<zk, old_services_, tasks, lost, cacheVars, rrVars, initSawRoot, changes>>

register_listener(l) ==
    LET s == Listens[l]
    IN  /\ InLoop
        /\ listeners_map_' = [listeners_map_ EXCEPT ![s] = @ \cup {l}]
        /\ told' = IF Cached(s)
                     THEN [k \in Listeners |-> IF k \in listeners_map_'[s] THEN services_cache_[s]
                                                                          ELSE told[k]]
                     ELSE told
        /\ UNCHANGED <<tree, watches, zk, old_services_, main, tasks, lost, services_cache_,
                       served, rrVars, initSawRoot, changes>>

unregister_listener(l) ==
    /\ InLoop
    /\ listeners_map_' = [listeners_map_ EXCEPT ![Listens[l]] = @ \ {l}]
    /\ UNCHANGED <<tree, watches, zk, old_services_, main, tasks, lost, services_cache_, told,
                   served, rrVars, initSawRoot, changes>>

\* Faulty forms of the next: the index stays; it is moved back.
NextIndexSame(s) == UNCHANGED round_robin_map_
NextIndexBack(s) == round_robin_map_' = [round_robin_map_ EXCEPT ![s] = @ - 1]

NextIndex(s) ==
    round_robin_map_' = IF Cardinality(services_cache_[s]) > 1
                          THEN [round_robin_map_ EXCEPT ![s] = @ + 1] ELSE round_robin_map_

\* An rpc is resolved by service_name_to_id: round robin over the cached instances.
service_name_to_id(s) ==
    /\ InLoop /\ picks < MaxPicks
    /\ Cached(s)
    /\ LET instances == services_cache_[s]
           index == round_robin_map_[s] % Cardinality(instances)
           picked == CHOOSE i \in instances : Cardinality({j \in instances : j < i}) = index
       IN  /\ instances # {}
           /\ served' = [served EXCEPT ![s][picked] = @ + 1]
    /\ NextIndex(s)
    /\ picks' = picks + 1
    /\ UNCHANGED <<tree, watches, zk, old_services_, main, tasks, lost, services_cache_,
                   listeners_map_, told, initSawRoot, changes>>

-----------------------------------------------------------------------------
InitStep == InitReadsServices \/ InitStoresServices \/ (\E s \in Services : InitFetches(s)) \/ InitEnds

ZkThreadStep == OnInstanceEvent \/ OnServicesEvent \/ DiffServices
                    \/ (\E s \in Services : FetchChanged(s)) \/ StoreServices

RegisterStep == \/ RegisterReadsServices
                \/ \E s \in Services : RegisterCreatesService(s)
                \/ \E n \in Nodes : RegisterEnrolls(n)

ListenerStep == \E l \in Listeners : register_listener(l) \/ unregister_listener(l)

Next == \/ InitStep \/ ZkThreadStep \/ RunTask \/ RegisterStep \/ ListenerStep
        \/ \E s \in Services : service_name_to_id(s)
        \/ Others

Spec == Init /\ [][Next]_vars

\* Both threads run on; a registration that began goes on.
FairSpec == /\ Spec /\ WF_vars(InitStep) /\ WF_vars(ZkThreadStep) /\ WF_vars(RunTask)
            /\ WF_vars(main.at \in {"create", "enroll"} /\ RegisterStep)

-----------------------------------------------------------------------------
IsCurrent(s, instances) ==
    LET now == strings_to_instances(zkNodes[s]) IN instances \in {now, Filtered(now)}

Stale(s) == ~IsCurrent(s, IF Cached(s) THEN services_cache_[s] ELSE {})

LatestTaskIsCurrent(s) ==
    \E i \in DOMAIN tasks :
        /\ tasks[i][1] = s /\ IsCurrent(s, tasks[i][2])
        /\ \A j \in DOMAIN tasks : j > i => tasks[j][1] # s

WillBeFetched(s) ==
    \/ "services" \in Range(events) /\ s \notin old_services_
    \/ zk.at = "diff" /\ s \in Changed
    \/ zk.at = "fetch" /\ s \in zk.todo

\* The cache of a process that found /services differs from ZooKeeper only while
\* news is under way: an event to deliver, a fetch to make, a task to run; or the
\* latest task was lost.  Init's reads on the main thread race with the callbacks'
\* reads, yet an older answer never stays (init, fetch_and_update_instances).
StaleOnlyIfPending ==
    \A s \in zkServices :
        initSawRoot /\ main.at \notin {"start", "store", "fetch"} /\ Stale(s) =>
            \/ s \in Range(events) \cup lost
            \/ WillBeFetched(s)
            \/ LatestTaskIsCurrent(s)

\* Between turns every registered listener has been told what the cache holds,
\* whether it registered before, during or after the change (do_notify_listeners).
ListenersInSync ==
    \A s \in DOMAIN services_cache_ : \A l \in listeners_map_[s] : told[l] = services_cache_[s]

\* While the instances of a service stay, requests spread evenly over them,
\* wherever the index stood when they were cached (service_name_to_id).
RoundRobinBalanced ==
    \A s \in DOMAIN services_cache_ : \A i, j \in services_cache_[s] :
        served[s][i] <= served[s][j] + 1

\* "owned by zk client thread": the main thread is never about to write
\* old_services_ while a callback is about to read or write it.
OldServicesOwned ==
    ~(main.at = "store" /\ (zk.at = "diff" \/ (zk.at = "fetch" /\ zk.todo = {})))

\* When other processes come to rest, the cache of a process that found /services
\* comes to agree with ZooKeeper, but for services whose latest task was lost.
Converges == <>[](initSawRoot => \A s \in zkServices : Stale(s) => s \in lost)
=============================================================================
