----------------------- MODULE ServiceRegister_proofs -----------------------
(***************************************************************************)
(* Proofs about ServiceRegister: types, that the cache is stale only while *)
(* news is under way, that listeners know what the cache holds, and that   *)
(* the round robin is even, for any number of services, nodes, listeners   *)
(* and changes.                                                            *)
(*                                                                         *)
(* The argument about staleness: a service once reached by init or by the  *)
(* callbacks keeps its watch set or an event queued (Fetched), and while   *)
(* the watch is all there is, the latest task, or the cache if there is no *)
(* task, is what ZooKeeper has (WatchedIsCurrent).  A service not reached  *)
(* yet is one a services event, or the callback running, will come to      *)
(* (UnreachedIsPending), because old_services_ holds reached services only *)
(* (OldIsReached) and the root's watch stays (RootWatched).                *)
(***************************************************************************)
EXTENDS ServiceRegister, FiniteSetTheorems, TLAPS

HasTask(s) == \E i \in DOMAIN tasks : tasks[i][1] = s

\* The instances of s have been read with a watch, and a change is noticed.
Fetched(s) == s \in instancesWatch \/ s \in Range(events)

InitWillFetch(s) == main.at \in {"store", "fetch"} /\ s \in main.todo

Reached(s) == Fetched(s) \/ InitWillFetch(s)

WatchedIsCurrent ==
    \A s \in Services :
        s \in instancesWatch /\ s \notin Range(events) \cup lost =>
            LatestTaskIsCurrent(s) \/ (~HasTask(s) /\ ~Stale(s))

TasksAreFetched == \A s \in Services : HasTask(s) => Fetched(s)

RootWatched == initSawRoot => zkRoot /\ (servicesWatch \/ "services" \in Range(events))

OldIsReached ==
    /\ \A s \in old_services_ : Reached(s)
    /\ main.at = "store" => main.todo = main.services
    /\ zk.at = "fetch" => \A s \in zk.services : s \in zk.todo \/ Reached(s)

UnreachedIsPending ==
    \A s \in zkServices :
        initSawRoot /\ ~Reached(s) =>
            \/ "services" \in Range(events)
            \/ zk.at = "diff" /\ s \in zk.services
            \/ zk.at = "fetch" /\ s \in zk.todo

NewsInv == /\ TypeOK /\ WatchedIsCurrent /\ TasksAreFetched /\ RootWatched /\ OldIsReached
           /\ UnreachedIsPending
-----------------------------------------------------------------------------
LEMMA AppendRange ==
    ASSUME NEW S, NEW q \in Seq(S), NEW e \in S
    PROVE  Append(q, e) \in Seq(S) /\ Range(Append(q, e)) = Range(q) \cup {e}
<1>1. /\ Append(q, e) \in Seq(S) /\ Len(q) \in Nat /\ DOMAIN q = 1 .. Len(q)
      /\ DOMAIN Append(q, e) = 1 .. Len(q) + 1
  OBVIOUS
<1>2. ASSUME NEW i \in DOMAIN q PROVE i \in DOMAIN Append(q, e) /\ Append(q, e)[i] = q[i]
  BY <1>1
<1>3. Len(q) + 1 \in DOMAIN Append(q, e) /\ Append(q, e)[Len(q) + 1] = e
  BY <1>1
<1>4. ASSUME NEW i \in DOMAIN Append(q, e) PROVE i \in DOMAIN q \/ i = Len(q) + 1
  BY <1>1
<1> QED BY <1>1, <1>2, <1>3, <1>4 DEF Range

LEMMA TailRange ==
    ASSUME NEW S, NEW q \in Seq(S), q # <<>>
    PROVE  /\ Tail(q) \in Seq(S) /\ Head(q) \in S
           /\ Range(q) = Range(Tail(q)) \cup {Head(q)}
<1>1. /\ Tail(q) \in Seq(S) /\ Head(q) \in S /\ Head(q) = q[1]
      /\ Len(q) \in Nat \ {0} /\ DOMAIN q = 1 .. Len(q)
      /\ DOMAIN Tail(q) = 1 .. Len(q) - 1
  OBVIOUS
<1>2. ASSUME NEW i \in DOMAIN Tail(q) PROVE i + 1 \in DOMAIN q /\ Tail(q)[i] = q[i + 1]
  BY <1>1
<1>3. ASSUME NEW i \in DOMAIN q, i # 1 PROVE i - 1 \in DOMAIN Tail(q) /\ Tail(q)[i - 1] = q[i]
  BY <1>1, <1>3
<1>4. 1 \in DOMAIN q
  BY <1>1
<1>5. Range(Tail(q)) \cup {Head(q)} \subseteq Range(q)
  BY <1>1, <1>2, <1>4 DEF Range
<1>6. ASSUME NEW i \in DOMAIN q PROVE q[i] \in Range(Tail(q)) \cup {Head(q)}
  BY <1>1, <1>3 DEF Range
<1>7. Range(q) \subseteq Range(Tail(q)) \cup {Head(q)}
  BY <1>6 DEF Range
<1> QED BY <1>1, <1>5, <1>7

LEMMA EndpointsAreInstances ==
    ASSUME NEW nodes \in SUBSET Nodes
    PROVE  /\ strings_to_instances(nodes) \in SUBSET Instances
           /\ Filtered(strings_to_instances(nodes)) \in SUBSET Instances
BY ServiceRegisterAssumption DEF strings_to_instances, Filtered

\* What the operations on ZooKeeper leave in the variables.
ZkTypes == /\ zkRoot \in BOOLEAN /\ zkServices \subseteq Services
           /\ zkNodes \in [Services -> SUBSET Nodes]
           /\ servicesWatch \in BOOLEAN /\ instancesWatch \subseteq Services
           /\ events \in Seq(Services \cup {"services"})

LEMMA CreateType ==
    ASSUME ZkTypes, NEW s \in Services, CreateServiceNode(s)
    PROVE  ZkTypes'
<1>1. Append(events, "services") \in Seq(Services \cup {"services"})
  BY AppendRange DEF ZkTypes
<1> QED BY <1>1 DEF ZkTypes, CreateServiceNode

LEMMA SetType ==
    ASSUME ZkTypes, NEW s \in Services, NEW nodes \in SUBSET Nodes, SetNodes(s, nodes)
    PROVE  ZkTypes'
<1>1. Append(events, s) \in Seq(Services \cup {"services"})
  BY AppendRange DEF ZkTypes
<1> QED BY <1>1 DEF ZkTypes, SetNodes

LEMMA FetchType ==
    ASSUME TypeOK, NEW s \in Services, FetchAndDispatch(s)
    PROVE  /\ instancesWatch' \subseteq Services
           /\ tasks' \in Seq(Services \X SUBSET Instances) /\ lost' \subseteq Services
<1>1. zkNodes[s] \in SUBSET Nodes
  BY DEF TypeOK
<1>2. <<s, strings_to_instances(zkNodes[s])>> \in Services \X SUBSET Instances
  BY <1>1, EndpointsAreInstances
<1>3. Append(tasks, <<s, strings_to_instances(zkNodes[s])>>) \in Seq(Services \X SUBSET Instances)
  BY <1>2, AppendRange DEF TypeOK
<1> QED BY <1>3 DEF TypeOK, FetchAndDispatch, WatchInstances

CacheTypes == /\ DOMAIN services_cache_ \subseteq Services
              /\ \A s \in DOMAIN services_cache_ : services_cache_[s] \subseteq Instances
              /\ told \in [Listeners -> SUBSET Instances]
              /\ served \in [Services -> [Instances -> Nat]]

LEMMA CacheType ==
    ASSUME TypeOK, NEW s \in Services, NEW instances \in SUBSET Instances,
           CacheAndNotify(s, instances)
    PROVE  CacheTypes'
BY DEF TypeOK, CacheAndNotify, CacheTypes

LEMMA TypeInit == Init => TypeOK
<1> SUFFICES ASSUME Init PROVE TypeOK
  OBVIOUS
<1>1. DOMAIN services_cache_ = {}
  BY DEF Init
<1>2. events \in Seq(Services \cup {"services"}) /\ tasks \in Seq(Services \X SUBSET Instances)
  BY DEF Init
<1>3. /\ round_robin_map_ \in [Services -> Nat]
      /\ served \in [Services -> [Instances -> Nat]]
      /\ listeners_map_ \in [Services -> SUBSET Listeners]
      /\ told \in [Listeners -> SUBSET Instances]
      /\ zkNodes \in [Services -> SUBSET Nodes]
  BY DEF Init
<1> QED BY <1>1, <1>2, <1>3 DEF Init, TypeOK, Resting

LEMMA TypeStep == TypeOK /\ [Next]_vars => TypeOK'
<1> SUFFICES ASSUME TypeOK, [Next]_vars PROVE TypeOK'
  OBVIOUS
<1> USE DEF vars, tree, watches, cacheVars, rrVars
<1>0. ZkTypes /\ CacheTypes
  BY DEF TypeOK, ZkTypes, CacheTypes
<1>1. CASE InitStep
  <2>1. CASE InitReadsServices
    <3>1. listeners_map_' \in [Services -> SUBSET Listeners]
      BY <2>1, ServiceRegisterAssumption DEF InitReadsServices
    <3>2. main'.at = "store" /\ main' = [at |-> "store", services |-> zkServices, todo |-> zkServices]
      BY <2>1 DEF InitReadsServices
    <3>3. servicesWatch' \in BOOLEAN
      BY <2>1 DEF InitReadsServices, WatchServices, TypeOK
    <3> QED BY <2>1, <3>1, <3>2, <3>3 DEF TypeOK, InitReadsServices
  <2>2. CASE InitStoresServices
    BY <2>2 DEF TypeOK, InitStoresServices
  <2>3. ASSUME NEW s \in Services, InitFetches(s) PROVE TypeOK'
    <3>1. CacheTypes'
      BY <2>3, CacheType, EndpointsAreInstances DEF InitFetches, TypeOK
    <3> QED BY <2>3, <3>1 DEF TypeOK, InitFetches, WatchInstances, CacheTypes
  <2>4. CASE InitEnds
    BY <2>4 DEF TypeOK, InitEnds, Resting
  <2> QED BY <1>1, <2>1, <2>2, <2>3, <2>4 DEF InitStep
<1>2. CASE ZkThreadStep
  <2>1. CASE OnInstanceEvent
    <3>1. Head(events) \in Services /\ events' \in Seq(Services \cup {"services"})
      BY <2>1, TailRange DEF OnInstanceEvent, Deliver, TypeOK
    <3>2. FetchAndDispatch(Head(events))
      BY <2>1 DEF OnInstanceEvent
    <3> HIDE DEF TypeOK
    <3>3. /\ instancesWatch' \subseteq Services
          /\ tasks' \in Seq(Services \X SUBSET Instances) /\ lost' \subseteq Services
      BY <3>1, <3>2, FetchType
    <3> QED BY <2>1, <3>1, <3>3 DEF TypeOK, OnInstanceEvent
  <2>2. CASE OnServicesEvent
    <3>1. events' \in Seq(Services \cup {"services"})
      BY <2>2, TailRange DEF OnServicesEvent, Deliver, TypeOK
    <3> QED BY <2>2, <3>1 DEF TypeOK, OnServicesEvent, WatchServices
  <2>3. CASE DiffServices
    BY <2>3 DEF TypeOK, DiffServices, Changed
  <2>4. ASSUME NEW s \in Services, FetchChanged(s) PROVE TypeOK'
    <3>1. /\ instancesWatch' \subseteq Services
          /\ tasks' \in Seq(Services \X SUBSET Instances) /\ lost' \subseteq Services
      BY <2>4, FetchType DEF FetchChanged
    <3> QED BY <2>4, <3>1 DEF TypeOK, FetchChanged
  <2>5. CASE StoreServices
    BY <2>5 DEF TypeOK, StoreServices, Resting
  <2> QED BY <1>2, <2>1, <2>2, <2>3, <2>4, <2>5 DEF ZkThreadStep
<1>3. CASE RunTask
  <2>1. /\ Head(tasks) \in Services \X SUBSET Instances
        /\ tasks' \in Seq(Services \X SUBSET Instances)
    BY <1>3, TailRange DEF RunTask, TypeOK
  <2>2. CacheTypes'
    BY <1>3, <2>1, CacheType DEF RunTask
  <2> QED BY <1>3, <2>1, <2>2 DEF TypeOK, RunTask, CacheTypes
<1>4. CASE RegisterStep
  <2>1. CASE RegisterReadsServices
    BY <2>1 DEF TypeOK, RegisterReadsServices, Resting
  <2>2. ASSUME NEW s \in Services, RegisterCreatesService(s) PROVE TypeOK'
    <3>1. ZkTypes'
      BY <1>0, <2>2, CreateType DEF RegisterCreatesService
    <3> QED BY <2>2, <3>1 DEF TypeOK, RegisterCreatesService, ZkTypes
  <2>3. ASSUME NEW n \in Nodes, RegisterEnrolls(n) PROVE TypeOK'
    <3>1. PICK s \in main.todo : SetNodes(s, zkNodes[s] \cup {n})
      BY <2>3 DEF RegisterEnrolls
    <3>2. s \in Services /\ zkNodes[s] \cup {n} \in SUBSET Nodes
      BY DEF TypeOK
    <3>3. ZkTypes'
      BY <1>0, <3>1, <3>2, SetType
    <3> QED BY <2>3, <3>3 DEF TypeOK, RegisterEnrolls, ZkTypes, Resting
  <2> QED BY <1>4, <2>1, <2>2, <2>3 DEF RegisterStep
<1>5. CASE ListenerStep
  <2>1. PICK l \in Listeners : register_listener(l) \/ unregister_listener(l)
    BY <1>5 DEF ListenerStep
  <2>2. Listens[l] \in Services
    BY ServiceRegisterAssumption
  <2>3. CASE register_listener(l)
    BY <2>2, <2>3 DEF TypeOK, register_listener, Cached
  <2>4. CASE unregister_listener(l)
    BY <2>2, <2>4 DEF TypeOK, unregister_listener
  <2> QED BY <2>1, <2>3, <2>4
<1>6. ASSUME NEW s \in Services, service_name_to_id(s) PROVE TypeOK'
  <2>1. served' \in [Services -> [Instances -> Nat]]
    <3>1. PICK i : served' = [served EXCEPT ![s][i] = @ + 1]
      BY <1>6 DEF service_name_to_id
    <3>2. served[s] \in [Instances -> Nat]
      BY DEF TypeOK
    <3>3. [served[s] EXCEPT ![i] = @ + 1] \in [Instances -> Nat]
      <4>1. CASE i \in Instances
        BY <3>2, <4>1
      <4>2. CASE i \notin Instances
        <5>1. [served[s] EXCEPT ![i] = @ + 1] = served[s]
          BY <3>2, <4>2, Zenon
        <5> QED BY <3>2, <5>1
      <4> QED BY <4>1, <4>2
    <3>4. served' = [served EXCEPT ![s] = [served[s] EXCEPT ![i] = @ + 1]]
      BY <3>1
    <3> QED BY <3>3, <3>4 DEF TypeOK
  <2>2. round_robin_map_' \in [Services -> Nat]
    BY <1>6 DEF TypeOK, service_name_to_id, NextIndex
  <2> QED BY <1>6, <2>1, <2>2 DEF TypeOK, service_name_to_id
<1>7. CASE Others
  <2>1. ASSUME NEW s \in zkServices, NEW n, n \in Nodes \/ n \in zkNodes[s],
               SetNodes(s, zkNodes[s] \cup {n}) \/ SetNodes(s, zkNodes[s] \ {n})
        PROVE  ZkTypes'
    <3>1. /\ s \in Services /\ zkNodes[s] \cup {n} \in SUBSET Nodes
          /\ zkNodes[s] \ {n} \in SUBSET Nodes
      BY <2>1 DEF TypeOK
    <3> QED BY <1>0, <2>1, <3>1, SetType
  <2>2. ASSUME NEW s \in Services, CreateServiceNode(s) PROVE ZkTypes'
    BY <1>0, <2>2, CreateType
  <2>3. ASSUME zkRoot' = TRUE, UNCHANGED <<zkServices, zkNodes, watches>> PROVE ZkTypes'
    BY <1>0, <2>3 DEF ZkTypes
  <2>4. ZkTypes'
    BY <1>7, <2>1, <2>2, <2>3 DEF Others
  <2> QED BY <1>7, <2>4 DEF TypeOK, Others, ZkTypes
<1>8. CASE UNCHANGED vars
  BY <1>8 DEF TypeOK
<1> QED BY <1>1, <1>2, <1>3, <1>4, <1>5, <1>6, <1>7, <1>8 DEF Next

\* The variables keep their types (all of the class's and the module's state).
THEOREM TypeCorrect == Spec => []TypeOK
<1> QED BY TypeInit, TypeStep, PTL DEF Spec
-----------------------------------------------------------------------------
(* The task queue: a task is the latest of its service until the next one. *)

LEMMA TaskAdded ==
    ASSUME TypeOK, NEW s \in Services, NEW t \in Services, NEW I \in SUBSET Instances,
           tasks' = Append(tasks, <<t, I>>)
    PROVE  /\ HasTask(s)' => HasTask(s) \/ s = t
           /\ s # t /\ zkNodes'[s] = zkNodes[s] /\ LatestTaskIsCurrent(s) => LatestTaskIsCurrent(s)'
           /\ IsCurrent(t, I)' => LatestTaskIsCurrent(t)'
<1>1. /\ Len(tasks) \in Nat /\ DOMAIN tasks = 1 .. Len(tasks)
      /\ DOMAIN tasks' = 1 .. Len(tasks) + 1
      /\ \A i \in DOMAIN tasks : tasks'[i] = tasks[i]
      /\ tasks'[Len(tasks) + 1] = <<t, I>>
  BY DEF TypeOK
<1>2. HasTask(s)' => HasTask(s) \/ s = t
  BY <1>1 DEF HasTask
<1>3. ASSUME s # t, zkNodes'[s] = zkNodes[s], LatestTaskIsCurrent(s)
      PROVE  LatestTaskIsCurrent(s)'
  <2>1. PICK i \in DOMAIN tasks : /\ tasks[i][1] = s /\ IsCurrent(s, tasks[i][2])
                                  /\ \A j \in DOMAIN tasks : j > i => tasks[j][1] # s
    BY <1>3 DEF LatestTaskIsCurrent
  <2>2. i \in DOMAIN tasks' /\ tasks'[i][1] = s /\ IsCurrent(s, tasks[i][2])'
    BY <1>1, <1>3, <2>1 DEF IsCurrent
  <2>3. ASSUME NEW j \in DOMAIN tasks', j > i PROVE tasks'[j][1] # s
    <3>1. CASE j \in DOMAIN tasks
      BY <1>1, <2>1, <2>3, <3>1
    <3>2. CASE j = Len(tasks) + 1
      BY <1>1, <1>3, <3>2
    <3> QED BY <1>1, <3>1, <3>2
  <2> QED BY <2>2, <2>3 DEF LatestTaskIsCurrent
<1>4. ASSUME IsCurrent(t, I)' PROVE LatestTaskIsCurrent(t)'
  <2>1. Len(tasks) + 1 \in DOMAIN tasks' /\ \A j \in DOMAIN tasks' : ~(j > Len(tasks) + 1)
    BY <1>1
  <2>2. tasks'[Len(tasks) + 1][1] = t /\ tasks'[Len(tasks) + 1][2] = I
    BY <1>1
  <2> QED BY <1>4, <2>1, <2>2 DEF LatestTaskIsCurrent
<1> QED BY <1>2, <1>3, <1>4

LEMMA TaskTaken ==
    ASSUME TypeOK, NEW s \in Services, tasks # <<>>, tasks' = Tail(tasks),
           zkNodes'[s] = zkNodes[s]
    PROVE  /\ HasTask(s)' => HasTask(s)
           /\ HasTask(s) => HasTask(s)' \/ Head(tasks)[1] = s
           /\ LatestTaskIsCurrent(s) =>
                  \/ LatestTaskIsCurrent(s)'
                  \/ ~HasTask(s)' /\ Head(tasks)[1] = s /\ IsCurrent(s, Head(tasks)[2])
<1>1. /\ Len(tasks) \in Nat \ {0} /\ DOMAIN tasks = 1 .. Len(tasks)
      /\ DOMAIN tasks' = 1 .. Len(tasks) - 1
      /\ Head(tasks) = tasks[1]
  BY DEF TypeOK
<1>2. ASSUME NEW i \in DOMAIN tasks' PROVE i + 1 \in DOMAIN tasks /\ tasks'[i] = tasks[i + 1]
  BY <1>1 DEF TypeOK
<1>3. ASSUME NEW i \in DOMAIN tasks, i # 1 PROVE i - 1 \in DOMAIN tasks' /\ tasks'[i - 1] = tasks[i]
  BY <1>1, <1>3 DEF TypeOK
<1>4. HasTask(s)' => HasTask(s)
  BY <1>2 DEF HasTask
<1>5. HasTask(s) => HasTask(s)' \/ Head(tasks)[1] = s
  BY <1>1, <1>3 DEF HasTask
<1>6. ASSUME LatestTaskIsCurrent(s)
      PROVE  \/ LatestTaskIsCurrent(s)'
             \/ ~HasTask(s)' /\ Head(tasks)[1] = s /\ IsCurrent(s, Head(tasks)[2])
  <2>1. PICK i \in DOMAIN tasks : /\ tasks[i][1] = s /\ IsCurrent(s, tasks[i][2])
                                  /\ \A j \in DOMAIN tasks : j > i => tasks[j][1] # s
    BY <1>6 DEF LatestTaskIsCurrent
  <2>2. ASSUME NEW k \in DOMAIN tasks', k + 1 > i PROVE tasks'[k][1] # s
    BY <1>2, <2>1, <2>2
  <2>3. CASE i = 1
    <3>1. ~HasTask(s)'
      BY <1>1, <2>2, <2>3 DEF HasTask
    <3> QED BY <1>1, <2>1, <2>3, <3>1
  <2>4. CASE i # 1
    <3>1. i - 1 \in DOMAIN tasks' /\ tasks'[i - 1] = tasks[i]
      BY <1>3, <2>4
    <3>2. \A k \in DOMAIN tasks' : k > i - 1 => tasks'[k][1] # s
      BY <1>1, <2>2
    <3>3. IsCurrent(s, tasks[i - 1][2])'
      BY <2>1, <3>1 DEF IsCurrent
    <3>4. tasks'[i - 1][1] = s
      BY <2>1, <3>1
    <3> QED BY <3>1, <3>2, <3>3, <3>4 DEF LatestTaskIsCurrent
  <2> QED BY <2>3, <2>4
<1> QED BY <1>4, <1>5, <1>6

\* An event is queued, of a service or of the services.
LEMMA EventAdded ==
    ASSUME TypeOK, NEW e \in Services \cup {"services"}
    PROVE  Range(Append(events, e)) = Range(events) \cup {e}
<1>1. events \in Seq(Services \cup {"services"})
  BY DEF TypeOK
<1> QED BY <1>1, AppendRange

\* What a step can do to the news of the services' instances.
QuietStep == /\ UNCHANGED <<zkNodes, instancesWatch, lost, tasks, services_cache_>>
             /\ \A s \in Services : s \in Range(events) => s \in Range(events')

NodesStep == \E s \in Services : /\ \E nodes \in SUBSET Nodes : SetNodes(s, nodes)
                                 /\ UNCHANGED <<lost, tasks, services_cache_>>

FetchStep ==
    \E s \in Services :
        /\ FetchAndDispatch(s)
        /\ UNCHANGED <<zkNodes, services_cache_>>
        /\ \A t \in Services : t \in Range(events) => t \in Range(events') \/ t = s

LEMMA NewsSteps ==
    ASSUME TypeOK, [Next]_vars
    PROVE  QuietStep \/ NodesStep \/ FetchStep \/ (\E s \in Services : InitFetches(s)) \/ RunTask
<1> USE DEF vars, tree, watches, cacheVars, rrVars
<1>1. CASE InitStep
  BY <1>1 DEF InitStep, InitReadsServices, InitStoresServices, InitEnds, QuietStep
<1>2. CASE ZkThreadStep
  <2>1. CASE OnInstanceEvent
    <3>1. Head(events) \in Services /\ Range(events) = Range(events') \cup {Head(events)}
      BY <2>1, TailRange DEF OnInstanceEvent, Deliver, TypeOK
    <3> QED BY <2>1, <3>1 DEF OnInstanceEvent, FetchStep
  <2>2. CASE OnServicesEvent
    <3>1. Range(events) = Range(events') \cup {"services"}
      BY <2>2, TailRange DEF OnServicesEvent, Deliver, TypeOK
    <3> QED BY <2>2, <3>1, ServiceRegisterAssumption DEF OnServicesEvent, QuietStep
  <2>3. ASSUME NEW s \in Services, FetchChanged(s) PROVE FetchStep
    BY <2>3 DEF FetchChanged, FetchStep
  <2>4. CASE DiffServices \/ StoreServices
    BY <2>4 DEF DiffServices, StoreServices, QuietStep
  <2> QED BY <1>2, <2>1, <2>2, <2>3, <2>4 DEF ZkThreadStep
<1>3. CASE RegisterStep
  <2>1. CASE RegisterReadsServices
    BY <2>1 DEF RegisterReadsServices, QuietStep
  <2>2. ASSUME NEW s \in Services, RegisterCreatesService(s) PROVE QuietStep
    <3>1. Range(Append(events, "services")) = Range(events) \cup {"services"}
      BY EventAdded
    <3> QED BY <2>2, <3>1 DEF RegisterCreatesService, CreateServiceNode, QuietStep
  <2>3. ASSUME NEW n \in Nodes, RegisterEnrolls(n) PROVE NodesStep
    BY <2>3 DEF RegisterEnrolls, NodesStep, TypeOK
  <2> QED BY <1>3, <2>1, <2>2, <2>3 DEF RegisterStep
<1>4. CASE ListenerStep
  BY <1>4 DEF ListenerStep, register_listener, unregister_listener, QuietStep
<1>5. ASSUME NEW s \in Services, service_name_to_id(s) PROVE QuietStep
  BY <1>5 DEF service_name_to_id, QuietStep
<1>6. CASE Others
  <2>1. ASSUME NEW s \in Services, CreateServiceNode(s) PROVE \A t \in Services :
                   t \in Range(events) => t \in Range(events')
    <3>1. Range(Append(events, "services")) = Range(events) \cup {"services"}
      BY EventAdded
    <3> QED BY <2>1, <3>1 DEF CreateServiceNode
  <2>2. CASE ~zkRoot /\ zkRoot' = TRUE /\ UNCHANGED <<zkServices, zkNodes, watches>>
    BY <1>6, <2>2 DEF Others, QuietStep
  <2>3. CASE \E s \in Services \ zkServices : CreateServiceNode(s)
    BY <1>6, <2>1, <2>3 DEF Others, QuietStep, CreateServiceNode
  <2>4. CASE \E s \in zkServices, n \in Nodes : SetNodes(s, zkNodes[s] \cup {n}) /\ n \notin zkNodes[s]
    BY <1>6, <2>4 DEF Others, NodesStep, TypeOK
  <2>5. CASE \E s \in zkServices : \E n \in zkNodes[s] : SetNodes(s, zkNodes[s] \ {n})
    BY <1>6, <2>5 DEF Others, NodesStep, TypeOK
  <2> QED BY <1>6, <2>2, <2>3, <2>4, <2>5 DEF Others
<1>7. CASE UNCHANGED vars
  BY <1>7 DEF QuietStep
<1> QED BY <1>1, <1>2, <1>3, <1>4, <1>5, <1>6, <1>7 DEF Next

\* A change after a fetch is always noticed.
LEMMA FetchedStays ==
    ASSUME TypeOK, [Next]_vars, NEW s \in Services, Fetched(s)
    PROVE  Fetched(s)'
<1>1. CASE QuietStep
  BY <1>1 DEF QuietStep, Fetched
<1>2. CASE NodesStep
  <2>1. \A t \in Services : Range(Append(events, t)) = Range(events) \cup {t}
    BY EventAdded
  <2> QED BY <1>2, <2>1 DEF NodesStep, SetNodes, Fetched
<1>3. CASE FetchStep
  BY <1>3 DEF FetchStep, FetchAndDispatch, WatchInstances, Fetched
<1>4. ASSUME NEW t \in Services, InitFetches(t) PROVE Fetched(s)'
  BY <1>4 DEF InitFetches, WatchInstances, Fetched
<1>5. CASE RunTask
  BY <1>5 DEF RunTask, watches, Fetched
<1> QED BY <1>1, <1>2, <1>3, <1>4, <1>5, NewsSteps

LEMMA TasksAreFetchedStep ==
    ASSUME TypeOK, TasksAreFetched, [Next]_vars
    PROVE  TasksAreFetched'
<1> SUFFICES ASSUME NEW s \in Services, HasTask(s)' PROVE Fetched(s)'
  BY DEF TasksAreFetched
<1>1. CASE HasTask(s)
  BY <1>1, FetchedStays DEF TasksAreFetched
<1>2. CASE QuietStep
  BY <1>1, <1>2 DEF QuietStep, HasTask
<1>3. CASE NodesStep
  BY <1>1, <1>3 DEF NodesStep, HasTask
<1>4. CASE FetchStep
  <2>1. PICK t \in Services : FetchAndDispatch(t)
    BY <1>4 DEF FetchStep
  <2>2. Fetched(t)'
    BY <2>1 DEF FetchAndDispatch, WatchInstances, Fetched
  <2>3. strings_to_instances(zkNodes[t]) \in SUBSET Instances
    BY EndpointsAreInstances DEF TypeOK
  <2>4. CASE tasks' = Append(tasks, <<t, strings_to_instances(zkNodes[t])>>)
    BY <1>1, <2>2, <2>3, <2>4, TaskAdded
  <2>5. CASE UNCHANGED tasks
    BY <1>1, <2>5 DEF HasTask
  <2> QED BY <2>1, <2>4, <2>5 DEF FetchAndDispatch
<1>5. ASSUME NEW t \in Services, InitFetches(t) PROVE HasTask(s)
  BY <1>5 DEF InitFetches, HasTask
<1>6. CASE RunTask
  BY <1>1, <1>6, TaskTaken DEF RunTask, tree
<1> QED BY <1>1, <1>2, <1>3, <1>4, <1>5, <1>6, NewsSteps

\* A cache entry and what ZooKeeper has stay as they are.
LEMMA StaleSame ==
    ASSUME NEW s \in Services, zkNodes'[s] = zkNodes[s], Cached(s)' <=> Cached(s),
           Cached(s) => services_cache_'[s] = services_cache_[s]
    PROVE  Stale(s)' <=> Stale(s)
BY DEF Stale, IsCurrent, Cached

LEMMA TasksSame ==
    ASSUME NEW s \in Services, zkNodes'[s] = zkNodes[s], UNCHANGED tasks
    PROVE  /\ HasTask(s)' <=> HasTask(s)
           /\ LatestTaskIsCurrent(s)' <=> LatestTaskIsCurrent(s)
BY DEF HasTask, LatestTaskIsCurrent, IsCurrent

LEMMA WatchedIsCurrentStep ==
    ASSUME TypeOK, WatchedIsCurrent, TasksAreFetched, [Next]_vars
    PROVE  WatchedIsCurrent'
<1> SUFFICES ASSUME NEW s \in Services,
                    s \in instancesWatch', s \notin Range(events') \cup lost'
             PROVE  LatestTaskIsCurrent(s)' \/ (~HasTask(s)' /\ ~Stale(s)')
  BY DEF WatchedIsCurrent
<1>1. CASE QuietStep
  <2>1. s \in instancesWatch /\ s \notin Range(events) \cup lost
    BY <1>1 DEF QuietStep
  <2>2. Stale(s)' <=> Stale(s)
    BY <1>1, StaleSame DEF QuietStep, Cached
  <2>3. /\ HasTask(s)' <=> HasTask(s)
        /\ LatestTaskIsCurrent(s)' <=> LatestTaskIsCurrent(s)
    BY <1>1, TasksSame DEF QuietStep
  <2> QED BY <2>1, <2>2, <2>3 DEF WatchedIsCurrent
<1>2. CASE NodesStep
  <2>1. PICK t \in Services, nodes \in SUBSET Nodes :
            SetNodes(t, nodes) /\ UNCHANGED <<lost, tasks, services_cache_>>
    BY <1>2 DEF NodesStep
  <2>2. Range(Append(events, t)) = Range(events) \cup {t}
    BY EventAdded
  <2>3. s \in instancesWatch /\ s \notin Range(events) \cup lost
    BY <2>1, <2>2 DEF SetNodes
  <2>4. zkNodes'[s] = zkNodes[s]
    BY <2>1, <2>2, <2>3 DEF SetNodes, TypeOK
  <2>5. Stale(s)' <=> Stale(s)
    BY <2>1, <2>4, StaleSame DEF Cached
  <2>6. /\ HasTask(s)' <=> HasTask(s)
        /\ LatestTaskIsCurrent(s)' <=> LatestTaskIsCurrent(s)
    BY <2>1, <2>4, TasksSame
  <2> QED BY <2>3, <2>5, <2>6 DEF WatchedIsCurrent
<1>3. CASE FetchStep
  <2>1. PICK t \in Services :
            /\ FetchAndDispatch(t)
            /\ UNCHANGED <<zkNodes, services_cache_>>
            /\ \A u \in Services : u \in Range(events) => u \in Range(events') \/ u = t
    BY <1>3 DEF FetchStep
  <2>2. PICK I \in SUBSET Instances : I = strings_to_instances(zkNodes[t])
    BY EndpointsAreInstances DEF TypeOK
  <2>3. CASE s = t
    <3>1. tasks' = Append(tasks, <<t, I>>)
      BY <2>1, <2>2, <2>3 DEF FetchAndDispatch
    <3>2. IsCurrent(t, I)'
      BY <2>1, <2>2 DEF IsCurrent
    <3> QED BY <2>3, <3>1, <3>2, TaskAdded
  <2>4. CASE s # t
    <3>1. s \in instancesWatch /\ s \notin Range(events) \cup lost
      BY <2>1, <2>4 DEF FetchAndDispatch, WatchInstances
    <3>2. Stale(s)' <=> Stale(s)
      BY <2>1, StaleSame DEF Cached
    <3>3. /\ HasTask(s)' => HasTask(s)
          /\ LatestTaskIsCurrent(s) => LatestTaskIsCurrent(s)'
      <4>1. CASE tasks' = Append(tasks, <<t, I>>)
        BY <2>1, <2>2, <2>4, <4>1, TaskAdded
      <4>2. CASE UNCHANGED tasks
        BY <2>1, <4>2, TasksSame
      <4> QED BY <2>1, <2>2, <4>1, <4>2 DEF FetchAndDispatch
    <3> QED BY <3>1, <3>2, <3>3 DEF WatchedIsCurrent
  <2> QED BY <2>3, <2>4
<1>4. ASSUME NEW t \in Services, InitFetches(t)
      PROVE  LatestTaskIsCurrent(s)' \/ (~HasTask(s)' /\ ~Stale(s)')
  <2>1. UNCHANGED <<zkNodes, tasks, events, lost>>
    BY <1>4 DEF InitFetches, tree
  <2>2. /\ HasTask(s)' <=> HasTask(s)
        /\ LatestTaskIsCurrent(s)' <=> LatestTaskIsCurrent(s)
    BY <2>1, TasksSame
  <2>3. CASE s = t
    <3>1. ~Stale(s)'
      BY <1>4, <2>1, <2>3 DEF InitFetches, CacheAndNotify, Stale, IsCurrent, Cached
    <3>2. HasTask(s) => s \in instancesWatch
      BY <2>1 DEF TasksAreFetched, Fetched
    <3> QED BY <2>1, <2>2, <3>1, <3>2 DEF WatchedIsCurrent
  <2>4. CASE s # t
    <3>1. s \in instancesWatch
      BY <1>4, <2>4 DEF InitFetches, WatchInstances
    <3>2. Stale(s)' <=> Stale(s)
      BY <1>4, <2>1, <2>4, StaleSame DEF InitFetches, CacheAndNotify, Cached
    <3> QED BY <2>1, <2>2, <3>1, <3>2 DEF WatchedIsCurrent
  <2> QED BY <2>3, <2>4
<1>5. CASE RunTask
  <2>1. /\ UNCHANGED <<zkNodes, instancesWatch, events, lost>>
        /\ tasks # <<>> /\ tasks' = Tail(tasks)
        /\ CacheAndNotify(Head(tasks)[1], Head(tasks)[2])
    BY <1>5 DEF RunTask, tree, watches
  <2>2. LatestTaskIsCurrent(s) \/ (~HasTask(s) /\ ~Stale(s))
    BY <2>1 DEF WatchedIsCurrent
  <2>3. Head(tasks) \in Services \X SUBSET Instances
    BY <2>1, TailRange DEF TypeOK
  <2>4. Head(tasks)[1] # s => (Stale(s)' <=> Stale(s))
    BY <2>1, <2>3, StaleSame DEF CacheAndNotify, Cached
  <2>5. ~HasTask(s) => Head(tasks)[1] # s
    BY <2>1 DEF TypeOK, HasTask
  <2>6. CASE LatestTaskIsCurrent(s)
    <3>1. Head(tasks)[1] = s /\ IsCurrent(s, Head(tasks)[2]) => ~Stale(s)'
      BY <2>1 DEF CacheAndNotify, Stale, IsCurrent, Cached
    <3> QED BY <2>1, <2>6, <3>1, TaskTaken
  <2>7. CASE ~HasTask(s) /\ ~Stale(s)
    BY <2>1, <2>4, <2>5, <2>7, TaskTaken
  <2> QED BY <2>2, <2>6, <2>7
<1> QED BY <1>1, <1>2, <1>3, <1>4, <1>5, NewsSteps

-----------------------------------------------------------------------------
(* Services come and go in three places: main, the callback, ZooKeeper. *)

\* What a step of init leaves of the services it has still to fetch.
LEMMA ReachedStays ==
    ASSUME TypeOK, [Next]_vars, NEW s \in Services, Reached(s)
    PROVE  Reached(s)'
<1> USE DEF vars, tree, watches, cacheVars, rrVars, Reached, InitWillFetch
<1>1. CASE Fetched(s)
  BY <1>1, FetchedStays
<1>2. SUFFICES ASSUME InitWillFetch(s) PROVE Reached(s)'
  BY <1>1
<1>3. CASE InitStep
  <2>1. ASSUME NEW t \in Services, InitFetches(t) PROVE Reached(s)'
    BY <1>2, <2>1 DEF InitFetches, WatchInstances, Fetched, TypeOK
  <2>2. CASE InitStoresServices
    BY <1>2, <2>2 DEF InitStoresServices, TypeOK
  <2> QED BY <1>2, <1>3, <2>1, <2>2 DEF InitStep, InitReadsServices, InitEnds
<1>4. CASE ZkThreadStep
  BY <1>2, <1>4 DEF ZkThreadStep, OnInstanceEvent, OnServicesEvent, DiffServices, FetchChanged,
                    StoreServices
<1>5. CASE RunTask \/ RegisterStep \/ ListenerStep \/ Others \/ UNCHANGED vars
           \/ \E t \in Services : service_name_to_id(t)
  BY <1>2, <1>5 DEF RunTask, InLoop, RegisterStep, RegisterReadsServices, RegisterCreatesService,
                    RegisterEnrolls, ListenerStep, register_listener, unregister_listener, Others,
                    service_name_to_id
<1> QED BY <1>3, <1>4, <1>5 DEF Next

\* The root stays, and its watch until an event is queued.
LEMMA RootWatchedStep ==
    ASSUME TypeOK, RootWatched, [Next]_vars
    PROVE  RootWatched'
<1> USE DEF vars, tree, watches, cacheVars, rrVars, RootWatched
<1>1. CASE InitStep
  BY <1>1 DEF InitStep, InitReadsServices, WatchServices, InitStoresServices, InitFetches, InitEnds
<1>2. CASE ZkThreadStep
  <2>1. CASE OnInstanceEvent
    <3>1. Range(events) = Range(events') \cup {Head(events)} /\ Head(events) # "services"
      BY <2>1, TailRange DEF OnInstanceEvent, Deliver, TypeOK
    <3> QED BY <2>1, <3>1 DEF OnInstanceEvent
  <2> QED BY <1>2, <2>1 DEF ZkThreadStep, OnServicesEvent, WatchServices, DiffServices,
                            FetchChanged, StoreServices
<1>3. \A e \in Services \cup {"services"} : Range(Append(events, e)) = Range(events) \cup {e}
  BY EventAdded
<1>4. ASSUME NEW s \in Services, CreateServiceNode(s), UNCHANGED initSawRoot PROVE RootWatched'
  BY <1>3, <1>4 DEF CreateServiceNode
<1>5. ASSUME NEW s \in Services, NEW nodes, SetNodes(s, nodes), UNCHANGED initSawRoot
      PROVE  RootWatched'
  BY <1>3, <1>5 DEF SetNodes
<1>6. CASE RegisterStep
  <2>1. ASSUME NEW s \in Services, RegisterCreatesService(s) PROVE RootWatched'
    BY <1>4, <2>1 DEF RegisterCreatesService
  <2>2. ASSUME NEW n \in Nodes, RegisterEnrolls(n) PROVE RootWatched'
    BY <1>5, <2>2 DEF RegisterEnrolls, TypeOK
  <2> QED BY <1>6, <2>1, <2>2 DEF RegisterStep, RegisterReadsServices
<1>7. CASE Others
  <2>1. ASSUME NEW s \in zkServices, NEW nodes, SetNodes(s, nodes) PROVE RootWatched'
    BY <1>5, <1>7, <2>1 DEF Others, TypeOK
  <2> QED BY <1>4, <1>7, <2>1 DEF Others
<1>8. CASE RunTask \/ ListenerStep \/ (\E t \in Services : service_name_to_id(t)) \/ UNCHANGED vars
  BY <1>8 DEF RunTask, ListenerStep, register_listener, unregister_listener, service_name_to_id
<1> QED BY <1>1, <1>2, <1>6, <1>7, <1>8 DEF Next

\* old_services_ only ever holds services that were reached.
LEMMA OldIsReachedStep ==
    ASSUME TypeOK, OldIsReached, [Next]_vars
    PROVE  OldIsReached'
<1> USE DEF vars, tree, watches, cacheVars, rrVars
<1>1. \A s \in Services : Reached(s) => Reached(s)'
  BY ReachedStays
<1>2. ASSUME UNCHANGED <<zk, old_services_>>, main'.at # "store" PROVE OldIsReached'
  BY <1>1, <1>2 DEF OldIsReached, TypeOK
<1>3. CASE InitStep
  <2>1. CASE InitReadsServices
    <3>1. main' = [at |-> "store", services |-> zkServices, todo |-> zkServices]
          /\ UNCHANGED <<zk, old_services_>>
      BY <2>1 DEF InitReadsServices
    <3> QED BY <1>1, <3>1 DEF OldIsReached, TypeOK
  <2>2. CASE InitStoresServices
    <3>1. /\ old_services_' = main.services /\ main.todo = main.services
          /\ main'.at = "fetch" /\ main'.todo = main.todo /\ UNCHANGED zk
      BY <2>2 DEF InitStoresServices, OldIsReached, TypeOK
    <3>2. \A s \in old_services_' : Reached(s)'
      BY <3>1 DEF Reached, InitWillFetch
    <3> QED BY <1>1, <3>1, <3>2 DEF OldIsReached, TypeOK
  <2>3. ASSUME NEW s \in Services, InitFetches(s) PROVE OldIsReached'
    BY <1>2, <2>3 DEF InitFetches, TypeOK
  <2>4. CASE InitEnds
    BY <1>2, <2>4 DEF InitEnds, Resting
  <2> QED BY <1>3, <2>1, <2>2, <2>3, <2>4 DEF InitStep
<1>4. CASE ZkThreadStep
  <2>1. CASE OnInstanceEvent
    BY <1>1, <2>1 DEF OnInstanceEvent, OldIsReached, TypeOK
  <2>2. CASE OnServicesEvent
    BY <1>1, <2>2 DEF OnServicesEvent, OldIsReached, TypeOK
  <2>3. CASE DiffServices
    <3>1. /\ zk'.services = zk.services /\ zk'.todo = Changed
          /\ UNCHANGED <<main, old_services_>>
      BY <2>3 DEF DiffServices, TypeOK
    <3>2. \A s \in zk'.services : s \in zk'.todo \/ Reached(s)'
      BY <1>1, <3>1 DEF Changed, OldIsReached, TypeOK
    <3> QED BY <1>1, <3>1, <3>2 DEF OldIsReached, TypeOK
  <2>4. ASSUME NEW t \in Services, FetchChanged(t) PROVE OldIsReached'
    <3>1. /\ zk'.services = zk.services /\ zk'.todo = zk.todo \ {t} /\ zk'.at = "fetch"
          /\ UNCHANGED <<main, old_services_>> /\ zk.at = "fetch"
      BY <2>4 DEF FetchChanged, TypeOK
    <3>2. Reached(t)'
      BY <2>4 DEF FetchChanged, FetchAndDispatch, WatchInstances, Reached, Fetched
    <3>3. \A s \in zk'.services : s \in zk'.todo \/ Reached(s)'
      BY <1>1, <3>1, <3>2 DEF OldIsReached, TypeOK
    <3> QED BY <1>1, <3>1, <3>3 DEF OldIsReached, TypeOK
  <2>5. CASE StoreServices
    <3>1. \A s \in zk.services : Reached(s)
      BY <2>5 DEF StoreServices, OldIsReached
    <3> QED BY <1>1, <2>5, <3>1 DEF StoreServices, OldIsReached, TypeOK, Resting
  <2> QED BY <1>4, <2>1, <2>2, <2>3, <2>4, <2>5 DEF ZkThreadStep
<1>5. CASE RunTask \/ RegisterStep \/ ListenerStep \/ (\E t \in Services : service_name_to_id(t))
  <2>1. CASE RunTask \/ ListenerStep \/ (\E t \in Services : service_name_to_id(t))
    BY <1>2, <2>1 DEF RunTask, InLoop, ListenerStep, register_listener, unregister_listener,
                      service_name_to_id
  <2>2. CASE RegisterReadsServices
    BY <1>2, <2>2 DEF RegisterReadsServices, Resting
  <2>3. ASSUME NEW s \in Services, RegisterCreatesService(s) PROVE OldIsReached'
    BY <1>2, <2>3 DEF RegisterCreatesService, TypeOK
  <2>4. ASSUME NEW n \in Nodes, RegisterEnrolls(n) PROVE OldIsReached'
    BY <1>2, <2>4 DEF RegisterEnrolls, Resting
  <2> QED BY <1>5, <2>1, <2>2, <2>3, <2>4 DEF RegisterStep
<1>6. CASE Others \/ UNCHANGED vars
  BY <1>1, <1>6 DEF Others, OldIsReached, TypeOK
<1> QED BY <1>3, <1>4, <1>5, <1>6 DEF Next

LEMMA UnreachedIsPendingStep ==
    ASSUME TypeOK, OldIsReached, RootWatched, UnreachedIsPending, [Next]_vars
    PROVE  UnreachedIsPending'
<1> USE DEF vars, tree, watches, cacheVars, rrVars
<1> DEFINE Pending(s) == \/ "services" \in Range(events)
                         \/ zk.at = "diff" /\ s \in zk.services
                         \/ zk.at = "fetch" /\ s \in zk.todo
<1> SUFFICES ASSUME NEW s \in zkServices', initSawRoot', ~Reached(s)' PROVE Pending(s)'
  BY DEF UnreachedIsPending
<1>0. s \in Services
  BY TypeStep DEF TypeOK
<1>1. ~Reached(s)
  BY <1>0, ReachedStays
<1>2. initSawRoot /\ s \in zkServices => Pending(s)
  BY <1>1 DEF UnreachedIsPending
<1> HIDE DEF TypeOK
<1>3. CASE InitStep
  <2>1. ~InitReadsServices
    <3>1. InitReadsServices => main'.at = "store" /\ main'.todo = zkServices'
      BY DEF InitReadsServices
    <3> QED BY <3>1 DEF Reached, InitWillFetch
  <2> QED BY <1>2, <1>3, <2>1 DEF InitStep, InitStoresServices, InitFetches, InitEnds
<1>4. CASE ZkThreadStep
  <2>1. CASE OnInstanceEvent
    <3>1. Range(events) = Range(events') \cup {Head(events)} /\ Head(events) # "services"
      BY <2>1, TailRange DEF OnInstanceEvent, Deliver, TypeOK
    <3> QED BY <1>2, <2>1, <3>1 DEF OnInstanceEvent
  <2>2. CASE OnServicesEvent
    BY <2>2 DEF OnServicesEvent
  <2>3. CASE DiffServices
    <3>1. s \notin old_services_
      BY <1>1 DEF OldIsReached
    <3>2. zk'.at = "fetch" /\ zk'.todo = Changed
      BY <2>3 DEF DiffServices, TypeOK
    <3> QED BY <1>2, <2>3, <3>1, <3>2 DEF DiffServices, Changed
  <2>4. ASSUME NEW t \in Services, FetchChanged(t) PROVE Pending(s)'
    <3>1. s # t
      BY <2>4 DEF FetchChanged, FetchAndDispatch, WatchInstances, Reached, Fetched
    <3>2. zk'.at = zk.at /\ zk'.todo = zk.todo \ {t} /\ zk.at = "fetch"
      BY <2>4 DEF FetchChanged, TypeOK
    <3> QED BY <1>2, <2>4, <3>1, <3>2 DEF FetchChanged
  <2>5. CASE StoreServices
    BY <1>2, <2>5 DEF StoreServices
  <2> QED BY <1>4, <2>1, <2>2, <2>3, <2>4, <2>5 DEF ZkThreadStep
<1>5. \A e \in Services \cup {"services"} : Range(Append(events, e)) = Range(events) \cup {e}
  BY EventAdded
<1>6. ASSUME NEW t \in Services, CreateServiceNode(t), UNCHANGED <<zk, initSawRoot>> PROVE Pending(s)'
  BY <1>2, <1>5, <1>6 DEF CreateServiceNode, RootWatched
<1>7. ASSUME NEW t \in Services, NEW nodes, SetNodes(t, nodes), UNCHANGED <<zk, initSawRoot>>
      PROVE  Pending(s)'
  BY <1>2, <1>5, <1>7 DEF SetNodes
<1>8. CASE RegisterStep
  <2>1. ASSUME NEW t \in Services, RegisterCreatesService(t) PROVE Pending(s)'
    BY <1>6, <2>1 DEF RegisterCreatesService
  <2>2. ASSUME NEW n \in Nodes, RegisterEnrolls(n) PROVE Pending(s)'
    <3>1. main.todo \subseteq Services
      BY DEF TypeOK
    <3> QED BY <1>7, <2>2, <3>1 DEF RegisterEnrolls
  <2> QED BY <1>2, <1>8, <2>1, <2>2 DEF RegisterStep, RegisterReadsServices
<1>9. CASE Others
  <2>1. zkServices \subseteq Services
    BY DEF TypeOK
  <2>2. ASSUME NEW t \in zkServices, NEW nodes, SetNodes(t, nodes) PROVE Pending(s)'
    BY <1>7, <1>9, <2>1, <2>2 DEF Others
  <2> QED BY <1>2, <1>6, <1>9, <2>2 DEF Others
<1>10. CASE RunTask \/ ListenerStep \/ (\E t \in Services : service_name_to_id(t)) \/ UNCHANGED vars
  BY <1>2, <1>10 DEF RunTask, ListenerStep, register_listener, unregister_listener,
                     service_name_to_id
<1> QED BY <1>3, <1>4, <1>8, <1>9, <1>10 DEF Next

LEMMA NewsInit == Init => NewsInv
<1> SUFFICES ASSUME Init PROVE NewsInv
  OBVIOUS
<1>1. Range(events) = {} /\ DOMAIN tasks = {}
  BY DEF Init, Range
<1>2. WatchedIsCurrent /\ TasksAreFetched
  BY <1>1 DEF Init, WatchedIsCurrent, TasksAreFetched, HasTask
<1>3. RootWatched /\ OldIsReached /\ UnreachedIsPending
  BY DEF Init, RootWatched, OldIsReached, UnreachedIsPending, Resting
<1> QED BY <1>2, <1>3, TypeInit DEF NewsInv

LEMMA NewsStep == NewsInv /\ [Next]_vars => NewsInv'
BY TypeStep, WatchedIsCurrentStep, TasksAreFetchedStep, RootWatchedStep, OldIsReachedStep,
   UnreachedIsPendingStep DEF NewsInv

LEMMA NewsGives == NewsInv => StaleOnlyIfPending
<1> SUFFICES ASSUME NewsInv, NEW s \in zkServices, initSawRoot,
                    main.at \notin {"start", "store", "fetch"}, Stale(s),
                    s \notin Range(events) \cup lost
             PROVE  WillBeFetched(s) \/ LatestTaskIsCurrent(s)
  BY DEF StaleOnlyIfPending
<1>1. s \in Services
  BY DEF NewsInv, TypeOK
<1>2. CASE s \in instancesWatch
  BY <1>1, <1>2 DEF NewsInv, WatchedIsCurrent
<1>3. CASE s \notin instancesWatch
  <2>1. ~Reached(s)
    BY <1>3 DEF Reached, Fetched, InitWillFetch
  <2>2. s \notin old_services_
    BY <2>1 DEF NewsInv, OldIsReached
  <2> QED BY <2>1, <2>2 DEF NewsInv, UnreachedIsPending, WillBeFetched, Changed
<1> QED BY <1>2, <1>3

\* Once init is done and found /services, the cache differs from ZooKeeper only
\* while an event, a fetch or a task is under way, or the latest task was lost.
THEOREM StaleOnlyIfPendingHolds == Spec => []StaleOnlyIfPending
<1> QED BY NewsInit, NewsStep, NewsGives, PTL DEF Spec
-----------------------------------------------------------------------------
(* Listeners.  Nothing is cached before init registers the collected ones. *)

ListenersInv ==
    /\ TypeOK /\ ListenersInSync
    /\ main.at = "start" => DOMAIN services_cache_ = {}
    /\ \A s \in Services : \A l \in listeners_map_[s] : Listens[l] = s

LEMMA ListenersInit == Init => ListenersInv
<1> SUFFICES ASSUME Init PROVE ListenersInv
  OBVIOUS
<1>1. DOMAIN services_cache_ = {} /\ \A s \in Services : listeners_map_[s] = {}
  BY DEF Init
<1> QED BY <1>1, TypeInit DEF ListenersInv, ListenersInSync

\* Who listens to s is told; the listeners of another service are others.
LEMMA NotifyStep ==
    ASSUME ListenersInv, NEW s \in Services, NEW instances, CacheAndNotify(s, instances),
           UNCHANGED listeners_map_
    PROVE  ListenersInSync'
<1> SUFFICES ASSUME NEW t \in DOMAIN services_cache_', NEW l \in listeners_map_[t]
             PROVE  told'[l] = services_cache_'[t]
  BY DEF ListenersInSync
<1>1. t \in Services
  BY DEF CacheAndNotify, ListenersInv, TypeOK
<1>2. l \in Listeners /\ (l \in listeners_map_[s] => s = t)
  BY <1>1 DEF ListenersInv, TypeOK
<1>3. CASE t = s
  BY <1>2, <1>3 DEF CacheAndNotify
<1>4. CASE t # s
  BY <1>2, <1>4 DEF CacheAndNotify, ListenersInv, ListenersInSync
<1> QED BY <1>3, <1>4

LEMMA ListenersStep == ListenersInv /\ [Next]_vars => ListenersInv'
<1> SUFFICES ASSUME ListenersInv, [Next]_vars PROVE ListenersInv'
  OBVIOUS
<1> USE DEF vars, tree, watches, cacheVars, rrVars
<1>0. TypeOK /\ TypeOK'
  BY TypeStep DEF ListenersInv
<1>1. ASSUME UNCHANGED cacheVars, main'.at # "start" \/ main' = main PROVE ListenersInv'
  BY <1>0, <1>1 DEF ListenersInv, ListenersInSync
<1>2. CASE InitStep
  <2>1. CASE InitReadsServices
    <3>1. DOMAIN services_cache_' = {} /\ main'.at = "store"
      BY <2>1 DEF InitReadsServices, ListenersInv
    <3>2. \A s \in Services : \A l \in listeners_map_'[s] : Listens[l] = s
      BY <2>1 DEF InitReadsServices
    <3> QED BY <1>0, <3>1, <3>2 DEF ListenersInv, ListenersInSync
  <2>2. ASSUME NEW s \in Services, InitFetches(s) PROVE ListenersInv'
    <3>1. main'.at = "fetch" /\ UNCHANGED listeners_map_
      BY <1>0, <2>2 DEF InitFetches, TypeOK
    <3>2. ListenersInSync'
      BY <2>2, <3>1, NotifyStep DEF InitFetches
    <3> QED BY <1>0, <3>1, <3>2 DEF ListenersInv
  <2>3. CASE InitStoresServices
    BY <1>0, <1>1, <2>3 DEF InitStoresServices, TypeOK
  <2>4. CASE InitEnds
    BY <1>1, <2>4 DEF InitEnds, Resting
  <2> QED BY <1>2, <2>1, <2>2, <2>3, <2>4 DEF InitStep
<1>3. CASE ZkThreadStep
  BY <1>1, <1>3 DEF ZkThreadStep, OnInstanceEvent, OnServicesEvent, DiffServices, FetchChanged,
                    StoreServices
<1>4. CASE RunTask
  <2>1. Head(tasks)[1] \in Services
    BY <1>0, <1>4, TailRange DEF RunTask, TypeOK
  <2>2. ListenersInSync' /\ main'.at # "start" /\ UNCHANGED listeners_map_
    BY <1>4, <2>1, NotifyStep DEF RunTask, InLoop
  <2> QED BY <1>0, <2>2 DEF ListenersInv
<1>5. CASE RegisterStep
  <2>1. CASE RegisterReadsServices
    BY <1>1, <2>1 DEF RegisterReadsServices, Resting
  <2>2. ASSUME NEW s \in Services, RegisterCreatesService(s) PROVE ListenersInv'
    BY <1>0, <1>1, <2>2 DEF RegisterCreatesService, TypeOK
  <2>3. ASSUME NEW n \in Nodes, RegisterEnrolls(n) PROVE ListenersInv'
    BY <1>1, <2>3 DEF RegisterEnrolls, Resting
  <2> QED BY <1>5, <2>1, <2>2, <2>3 DEF RegisterStep
<1>6. CASE ListenerStep
  <2>1. PICK l \in Listeners : register_listener(l) \/ unregister_listener(l)
    BY <1>6 DEF ListenerStep
  <2>2. Listens[l] \in Services
    BY ServiceRegisterAssumption
  <2>3. main'.at # "start" /\ UNCHANGED services_cache_
    BY <2>1 DEF register_listener, unregister_listener, InLoop
  <2>4. ASSUME NEW s \in Services, NEW k \in listeners_map_'[s] PROVE Listens[k] = s
    <3>1. k \in listeners_map_[s] \/ (k = l /\ s = Listens[l])
      BY <1>0, <2>1, <2>2, <2>4 DEF register_listener, unregister_listener, TypeOK
    <3> QED BY <3>1 DEF ListenersInv
  <2>5. ASSUME NEW s \in DOMAIN services_cache_, NEW k \in listeners_map_'[s]
        PROVE  told'[k] = services_cache_[s]
    <3>1. s \in Services /\ k \in Listeners /\ Listens[k] = s
      BY <1>0, <2>3, <2>4, <2>5 DEF TypeOK
    <3>2. CASE unregister_listener(l)
      <4>1. k \in listeners_map_[s] /\ told' = told
        BY <1>0, <2>5, <3>1, <3>2 DEF unregister_listener, TypeOK
      <4> QED BY <4>1 DEF ListenersInv, ListenersInSync
    <3>3. CASE register_listener(l) /\ s = Listens[l]
      BY <1>0, <2>5, <3>1, <3>3 DEF register_listener, Cached, TypeOK
    <3>4. CASE register_listener(l) /\ s # Listens[l]
      <4>1. k \in listeners_map_[s]
        BY <1>0, <2>5, <3>1, <3>4 DEF register_listener, TypeOK
      <4>2. k \notin listeners_map_'[Listens[l]]
        BY <2>2, <2>4, <3>1, <3>4
      <4>3. told'[k] = told[k]
        BY <1>0, <3>1, <3>4, <4>2 DEF register_listener, TypeOK
      <4> QED BY <4>1, <4>3 DEF ListenersInv, ListenersInSync
    <3> QED BY <2>1, <3>2, <3>3, <3>4
  <2> QED BY <1>0, <2>3, <2>4, <2>5 DEF ListenersInv, ListenersInSync
<1>7. CASE Others \/ UNCHANGED vars \/ (\E s \in Services : service_name_to_id(s))
  <2>1. UNCHANGED <<services_cache_, listeners_map_, told, main>>
    BY <1>7 DEF Others, service_name_to_id
  <2> QED BY <1>0, <2>1 DEF ListenersInv, ListenersInSync
<1> QED BY <1>2, <1>3, <1>4, <1>5, <1>6, <1>7 DEF Next

\* Every registered listener has been told what the cache holds of its service.
THEOREM ListenersInSyncHolds == Spec => []ListenersInSync
<1>1. ListenersInv => ListenersInSync
  BY DEF ListenersInv
<1> QED BY <1>1, ListenersInit, ListenersStep, PTL DEF Spec
-----------------------------------------------------------------------------
(* Round robin.  The instances of a service in their order, each at its rank; *)
(* from where the index stands, those served next have been served least.     *)

Rank(S, i) == Cardinality({j \in S : j < i})

\* Each instance has a rank of its own, and each rank is some instance's.
LEMMA Ranks ==
    ASSUME NEW S \in SUBSET Nat, IsFiniteSet(S)
    PROVE  /\ Cardinality(S) \in Nat
           /\ \A i \in S : Rank(S, i) \in 0 .. Cardinality(S) - 1
           /\ \A i, j \in S : i < j => Rank(S, i) < Rank(S, j)
           /\ \A r \in 0 .. Cardinality(S) - 1 : \E i \in S : Rank(S, i) = r
<1> DEFINE Below(i) == {j \in S : j < i}
           n == Cardinality(S)
<1>1. n \in Nat
  BY FS_CardinalityType
<1>2. ASSUME NEW i \in S
      PROVE  IsFiniteSet(Below(i)) /\ Rank(S, i) \in 0 .. n - 1
  <2>1. IsFiniteSet(Below(i)) /\ Cardinality(Below(i)) \in Nat
    BY FS_Subset, FS_CardinalityType
  <2>2. Cardinality(Below(i)) <= n /\ (Cardinality(Below(i)) = n => Below(i) = S)
    BY FS_Subset, Below(i) \in SUBSET S
  <2>3. Below(i) # S
    OBVIOUS
  <2>4. Rank(S, i) = Cardinality(Below(i))
    BY DEF Rank
  <2> HIDE DEF Below, n
  <2> QED BY <1>1, <2>1, <2>2, <2>3, <2>4
<1>3. ASSUME NEW i \in S, NEW j \in S, i < j PROVE Rank(S, i) < Rank(S, j)
  <2>1. Below(i) \in SUBSET Below(j) /\ i \in Below(j) /\ i \notin Below(i)
    <3>1. i \in Nat /\ j \in Nat /\ \A k \in S : k \in Nat /\ (k < i => k < j)
      BY <1>3
    <3>2. \A k \in Below(i) : k \in Below(j)
      BY <3>1
    <3>3. ~(i < i)
      BY <3>1
    <3> QED BY <1>3, <3>2, <3>3
  <2>2. IsFiniteSet(Below(j)) /\ Cardinality(Below(i)) \in Nat /\ Cardinality(Below(j)) \in Nat
    BY <1>2, FS_CardinalityType
  <2>3. /\ Cardinality(Below(i)) <= Cardinality(Below(j))
        /\ Cardinality(Below(j)) = Cardinality(Below(i)) => Below(j) = Below(i)
    BY <2>1, <2>2, FS_Subset
  <2>4. Rank(S, i) = Cardinality(Below(i)) /\ Rank(S, j) = Cardinality(Below(j))
    BY DEF Rank
  <2> HIDE DEF Below
  <2> QED BY <2>1, <2>2, <2>3, <2>4
<1>4. ASSUME NEW r \in 0 .. n - 1 PROVE \E i \in S : Rank(S, i) = r
  <2> DEFINE f == [i \in S |-> Rank(S, i)]
  <2>1. f \in [S -> 0 .. n - 1]
    BY <1>2
  <2>2. ASSUME NEW i \in S, NEW j \in S, f[i] = f[j] PROVE i = j
    <3>1. Rank(S, i) = Rank(S, j)
      BY <2>2
    <3>2. i \in Nat /\ j \in Nat
      OBVIOUS
    <3>3. ~(i < j) /\ ~(j < i)
      <4>1. Rank(S, i) \in 0 .. n - 1
        BY <1>2
      <4>2. ~(Rank(S, i) < Rank(S, i))
        BY <1>1, <4>1
      <4> QED BY <1>3, <3>1, <4>2
    <3> QED BY <3>2, <3>3
  <2>3. f \in Injection(S, 0 .. n - 1)
    BY <2>1, <2>2 DEF Injection, IsInjective
  <2>4. IsFiniteSet(0 .. n - 1) /\ Cardinality(0 .. n - 1) = n
    BY <1>1, FS_Interval
  <2>5. f \in Surjection(S, 0 .. n - 1)
    <3> HIDE DEF f
    <3> QED BY <2>3, <2>4, FS_Injection
  <2>6. \E i \in S : f[i] = r
    BY <2>5 DEF Surjection
  <2> QED BY <2>6
<1> QED BY <1>1, <1>2, <1>3, <1>4

LEMMA TimesMonotonic == ASSUME NEW a \in Int, NEW b \in Int, NEW n \in Nat, a <= b PROVE a * n <= b * n
OBVIOUS

LEMMA QuotientIsUnique ==
    ASSUME NEW q \in Int, NEW k \in Int, NEW n \in Nat \ {0}, NEW p \in 0 .. n - 1,
           NEW m \in 0 .. n - 1, q * n + p = k * n + m
    PROVE  p = m
<1>0. q * n \in Int /\ k * n \in Int /\ (q + 1) * n = q * n + n /\ (k + 1) * n = k * n + n
  OBVIOUS
<1>1. ~(q < k)
  <2>1. q < k => (q + 1) * n <= k * n
    BY TimesMonotonic
  <2> QED BY <1>0, <2>1
<1>2. ~(k < q)
  <2>1. k < q => (k + 1) * n <= q * n
    BY TimesMonotonic
  <2> QED BY <1>0, <2>1
<1>3. q = k
  BY <1>1, <1>2
<1> QED BY <1>0, <1>3

\* An index taken modulo n goes round.
LEMMA NextMod ==
    ASSUME NEW r \in Nat, NEW n \in Nat \ {0}
    PROVE  /\ r % n \in 0 .. n - 1
           /\ (r + 1) % n = IF r % n = n - 1 THEN 0 ELSE (r % n) + 1
<1>1. PICK q \in Nat, p \in 0 .. n - 1 : q = r \div n /\ p = r % n
  OBVIOUS
<1>2. PICK k \in Nat, m \in 0 .. n - 1 : k = (r + 1) \div n /\ m = (r + 1) % n
  OBVIOUS
<1>3. q * n \in Int /\ (q + 1) * n = q * n + n
  OBVIOUS
<1>4. k * n + m = q * n + p + 1
  <2>1. r = q * n + p
    BY <1>1
  <2>2. r + 1 = k * n + m
    BY <1>2
  <2> QED BY <2>1, <2>2
<1>5. CASE p = n - 1
  <2>1. k * n + m = (q + 1) * n + 0
    BY <1>3, <1>4, <1>5
  <2>2. q + 1 \in Int /\ 0 \in 0 .. n - 1
    OBVIOUS
  <2>3. m = 0
    BY <2>1, <2>2, QuotientIsUnique
  <2> QED BY <1>1, <1>2, <1>5, <2>3
<1>6. CASE p # n - 1
  <2>1. k * n + m = q * n + (p + 1) /\ p + 1 \in 0 .. n - 1
    BY <1>3, <1>4, <1>6
  <2> QED BY <1>1, <1>2, <1>6, <2>1, QuotientIsUnique
<1> QED BY <1>5, <1>6

Index(s) == round_robin_map_[s] % Cardinality(services_cache_[s])

\* i is to be served before j when the index goes round from where it stands.
Precedes(s, i, j) ==
    LET S == services_cache_[s]
    IN  IF Rank(S, i) >= Index(s) <=> Rank(S, j) >= Index(s)
          THEN Rank(S, i) < Rank(S, j)
          ELSE Rank(S, i) >= Index(s)

ServedInOrder ==
    \A s \in DOMAIN services_cache_ : \A i, j \in services_cache_[s] :
        Precedes(s, i, j) => /\ served[s][i] <= served[s][j]
                             /\ served[s][j] <= served[s][i] + 1

LEMMA CachedRanks ==
    ASSUME TypeOK, NEW s \in DOMAIN services_cache_
    PROVE  /\ s \in Services /\ services_cache_[s] \in SUBSET Nat
           /\ IsFiniteSet(services_cache_[s])
BY ServiceRegisterAssumption, FS_Subset DEF TypeOK

LEMMA OrderGivesBalance ==
    ASSUME TypeOK, ServedInOrder
    PROVE  RoundRobinBalanced
<1> SUFFICES ASSUME NEW s \in DOMAIN services_cache_,
                    NEW i \in services_cache_[s], NEW j \in services_cache_[s]
             PROVE  served[s][i] <= served[s][j] + 1
  BY DEF RoundRobinBalanced
<1> DEFINE S == services_cache_[s]
<1>1. s \in Services /\ S \in SUBSET Nat /\ IsFiniteSet(S)
  BY CachedRanks
<1>2. served[s][i] \in Nat /\ served[s][j] \in Nat
  BY <1>1 DEF TypeOK
<1>3. CASE i = j
  BY <1>2, <1>3
<1>4. CASE i # j
  <2>1. /\ i \in Nat /\ j \in Nat /\ Rank(S, i) \in Int /\ Rank(S, j) \in Int
        /\ i < j => Rank(S, i) < Rank(S, j)
        /\ j < i => Rank(S, j) < Rank(S, i)
    BY <1>1, Ranks
  <2>2. Rank(S, i) < Rank(S, j) \/ Rank(S, j) < Rank(S, i)
    BY <1>4, <2>1
  <2>3. Precedes(s, i, j) \/ Precedes(s, j, i)
    BY <2>1, <2>2 DEF Precedes
  <2> QED BY <1>2, <2>3 DEF ServedInOrder
<1> QED BY <1>3, <1>4

\* The instance at the index is served and becomes the last in line.
LEMMA PickStep ==
    ASSUME TypeOK, ServedInOrder, NEW s \in Services, service_name_to_id(s)
    PROVE  ServedInOrder'
<1> DEFINE S == services_cache_[s]
           n == Cardinality(S)
           p == Index(s)
           picked == CHOOSE i \in S : Cardinality({j \in S : j < i}) = p
<1>1. /\ s \in DOMAIN services_cache_ /\ S # {}
      /\ served' = [served EXCEPT ![s][picked] = @ + 1]
      /\ UNCHANGED services_cache_ /\ NextIndex(s)
  BY DEF service_name_to_id, cacheVars, Cached, Index
<1>2. /\ S \in SUBSET Nat /\ S \in SUBSET Instances /\ IsFiniteSet(S) /\ n \in Nat \ {0}
  BY <1>1, CachedRanks, FS_CardinalityType, FS_EmptySet DEF TypeOK
<1>3. /\ \A i \in S : Rank(S, i) \in 0 .. n - 1
      /\ \A i, j \in S : i < j => Rank(S, i) < Rank(S, j)
      /\ \E i \in S : Rank(S, i) = p
      /\ p \in 0 .. n - 1 /\ round_robin_map_[s] \in Nat
  <2>1. round_robin_map_[s] \in Nat /\ p \in 0 .. n - 1
    BY <1>2, NextMod DEF TypeOK, Index
  <2> HIDE DEF p
  <2> QED BY <1>2, <2>1, Ranks
<1>4. picked \in S /\ Rank(S, picked) = p
  BY <1>3 DEF Rank
<1> HIDE DEF picked
<1> SUFFICES ASSUME NEW t \in DOMAIN services_cache_,
                    NEW i \in services_cache_[t], NEW j \in services_cache_[t],
                    Precedes(t, i, j)'
             PROVE  served'[t][i] <= served'[t][j] /\ served'[t][j] <= served'[t][i] + 1
  BY <1>1 DEF ServedInOrder
<1>5. t \in Services /\ i \in Instances /\ j \in Instances
  BY DEF TypeOK
<1>6. CASE t # s
  <2>1. round_robin_map_'[t] = round_robin_map_[t] /\ served'[t] = served[t]
    BY <1>1, <1>5, <1>6 DEF NextIndex, TypeOK
  <2>2. Precedes(t, i, j)
    BY <1>1, <2>1 DEF Precedes, Index
  <2> QED BY <2>1, <2>2 DEF ServedInOrder
<1>7. CASE t = s
  <2> DEFINE ri == Rank(S, i)
             rj == Rank(S, j)
  <2>1. ri \in 0 .. n - 1 /\ rj \in 0 .. n - 1 /\ ri # rj
    <3>1. ri # rj
      BY <1>1, <1>3, <1>7 DEF Precedes
    <3> QED BY <1>3, <1>7, <3>1
  <2>2. n > 1
    BY <1>2, <2>1
  <2>3. Index(s)' = IF p = n - 1 THEN 0 ELSE p + 1
    <3>1. round_robin_map_'[s] = round_robin_map_[s] + 1
      BY <1>1, <2>2 DEF NextIndex, TypeOK
    <3> QED BY <1>1, <1>2, <1>3, <3>1, NextMod DEF Index
  <2>4. /\ served[s][i] \in Nat /\ served[s][j] \in Nat
        /\ served'[s][i] = IF i = picked THEN served[s][i] + 1 ELSE served[s][i]
        /\ served'[s][j] = IF j = picked THEN served[s][j] + 1 ELSE served[s][j]
    BY <1>1, <1>5 DEF TypeOK
  <2>5. (i = picked <=> ri = p) /\ (j = picked <=> rj = p)
    <3>1. \A k \in S : Rank(S, k) = p => k = picked
      BY <1>2, <1>3, <1>4
    <3> QED BY <1>4, <1>7, <3>1
  <2>6. IF ri >= Index(s)' <=> rj >= Index(s)' THEN ri < rj ELSE ri >= Index(s)'
    BY <1>1, <1>7 DEF Precedes
  <2>7. /\ Precedes(s, i, j) <=> IF ri >= p <=> rj >= p THEN ri < rj ELSE ri >= p
        /\ Precedes(s, j, i) <=> IF rj >= p <=> ri >= p THEN rj < ri ELSE rj >= p
    BY DEF Precedes
  <2>8. /\ Precedes(s, i, j) => served[s][i] <= served[s][j] /\ served[s][j] <= served[s][i] + 1
        /\ Precedes(s, j, i) => served[s][j] <= served[s][i] /\ served[s][i] <= served[s][j] + 1
    BY <1>1, <1>7 DEF ServedInOrder
  <2>9. ri # p
    <3> HIDE DEF ri, rj, p, n
    <3> QED BY <1>2, <1>3, <2>1, <2>3, <2>6
  <2>10. CASE rj = p
    <3>1. Precedes(s, j, i)
      <4> HIDE DEF ri, rj, p, n
      <4> QED BY <1>3, <2>1, <2>7, <2>10
    <3> QED BY <1>7, <2>4, <2>5, <2>8, <2>9, <2>10, <3>1
  <2>11. CASE rj # p
    <3>1. Precedes(s, i, j)
      <4> HIDE DEF ri, rj, p, n
      <4> QED BY <1>2, <1>3, <2>1, <2>3, <2>6, <2>7, <2>9, <2>11
    <3> QED BY <1>7, <2>4, <2>5, <2>8, <2>9, <2>11, <3>1
  <2> QED BY <2>10, <2>11
<1> QED BY <1>6, <1>7

\* A cache entry that is set starts a count of its own.
LEMMA CacheStep ==
    ASSUME TypeOK, ServedInOrder, NEW s \in Services, NEW instances \in SUBSET Instances,
           CacheAndNotify(s, instances), UNCHANGED round_robin_map_
    PROVE  ServedInOrder'
<1> SUFFICES ASSUME NEW t \in DOMAIN services_cache_',
                    NEW i \in services_cache_'[t], NEW j \in services_cache_'[t],
                    Precedes(t, i, j)'
             PROVE  served'[t][i] <= served'[t][j] /\ served'[t][j] <= served'[t][i] + 1
  BY DEF ServedInOrder
<1>1. CASE t = s
  <2>1. i \in Instances /\ j \in Instances
    BY <1>1 DEF CacheAndNotify
  <2>2. served'[t] = [k \in Instances |-> 0]
    BY <1>1 DEF CacheAndNotify, TypeOK
  <2> QED BY <2>1, <2>2
<1>2. CASE t # s
  <2>1. /\ t \in DOMAIN services_cache_ /\ services_cache_'[t] = services_cache_[t]
        /\ t \in Services /\ served'[t] = served[t]
    BY <1>2 DEF CacheAndNotify, TypeOK
  <2>2. Precedes(t, i, j)
    BY <2>1 DEF Precedes, Index
  <2> QED BY <2>1, <2>2 DEF ServedInOrder
<1> QED BY <1>1, <1>2

LEMMA ServedInOrderStep == TypeOK /\ ServedInOrder /\ [Next]_vars => ServedInOrder'
<1> SUFFICES ASSUME TypeOK, ServedInOrder, [Next]_vars PROVE ServedInOrder'
  OBVIOUS
<1> USE DEF vars, tree, watches, cacheVars, rrVars
<1>1. ASSUME UNCHANGED <<services_cache_, served, round_robin_map_>> PROVE ServedInOrder'
  BY <1>1 DEF ServedInOrder, Precedes, Index
<1>2. ASSUME NEW s \in Services, InitFetches(s) PROVE ServedInOrder'
  <2>1. Filtered(strings_to_instances(zkNodes[s])) \in SUBSET Instances
    BY EndpointsAreInstances DEF TypeOK
  <2> QED BY <1>2, <2>1, CacheStep DEF InitFetches
<1>3. CASE InitReadsServices \/ InitStoresServices \/ InitEnds
  BY <1>1, <1>3 DEF InitReadsServices, InitStoresServices, InitEnds
<1>4. CASE ZkThreadStep
  BY <1>1, <1>4 DEF ZkThreadStep, OnInstanceEvent, OnServicesEvent, DiffServices, FetchChanged,
                    StoreServices
<1>5. CASE RunTask
  <2>1. Head(tasks) \in Services \X SUBSET Instances
    BY <1>5, TailRange DEF RunTask, TypeOK
  <2> QED BY <1>5, <2>1, CacheStep DEF RunTask
<1>6. CASE RegisterStep
  BY <1>1, <1>6 DEF RegisterStep, RegisterReadsServices, RegisterCreatesService, RegisterEnrolls
<1>7. CASE ListenerStep
  BY <1>1, <1>7 DEF ListenerStep, register_listener, unregister_listener
<1>8. CASE Others \/ UNCHANGED vars
  BY <1>1, <1>8 DEF Others
<1> QED BY <1>2, <1>3, <1>4, <1>5, <1>6, <1>7, <1>8, PickStep DEF Next, InitStep

\* While the instances of a service stay, no instance is ever served two requests
\* more than another, wherever the index stood when they were cached.
THEOREM RoundRobinBalancedHolds == Spec => []RoundRobinBalanced
<1>1. Init => ServedInOrder
  <2>1. Init => DOMAIN services_cache_ = {}
    BY DEF Init
  <2> QED BY <2>1 DEF ServedInOrder
<1> QED BY <1>1, TypeInit, TypeStep, ServedInOrderStep, OrderGivesBalance, PTL DEF Spec
=============================================================================
