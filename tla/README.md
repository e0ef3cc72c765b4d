# msgrpc: a TLA+ verification project

msgrpc is a C++ library for asynchronous remote procedure calls over message
passing. A *service interaction* (SI) is a function that makes rpcs and wires
their results into a graph of cells; the library sends the requests, matches
the responses, retries after timeouts, evaluates the graph, answers the SI's
caller and frees everything. These modules model that machinery from the
source under `src/`, TLC checks them on small instances, and TLAPS proves the
main facts for every instance.

## 1. The system

One process (or, in thread-local mode, one thread) is one event loop over a UDP
socket. A message is handled to its end before the next one. Everything the
library does happens in such a *turn*, except the callbacks of the ZooKeeper
client, which run on a thread of their own.

```
 SI code --- stub ---- RpcSequenceId            remote process
   |          |  \____ RspMsgHandler <--- rsp --- ReqMsgHandler --- method / SI
 cells <------+--------/    ^                        ^
   |          \__ timer ____/ (timeout message)      |
   |                                                 |
   +--- service resolver --- ZkServiceRegister ... ZooKeeper
```

| Component | State | Operations | What makes it correct |
|---|---|---|---|
| Rpc stub (`iface_stub_base`) | none of its own | take an id, register a new cell, resolve the service, send | a cell whose request is not sent is unregistered again |
| `RspMsgHandler` | `id_func_map_`: id -> sink | register, dispatch a response, dispatch a timeout, remove | no dangling sink; a resolved call is out of reach of late messages |
| `TimeoutCell` | `retry_times_`, `is_rpc_started_`, `timeout_cell_` | start, cancel, retry, give up | an outcome whatever is lost; "timeout" only after every attempt |
| `TimerMgr`, timer adapter | `canceled_timer_ids_` | set, cancel, filter | only the answered attempt's timer is canceled |
| `SetTimerHandler`, timer service | `entry_times`, a thread and a port per timer | start, bind, sleep, send the timeout | a pending attempt's timer comes and is its own |
| `RpcSequenceId` | an atomic counter shared by all threads | `get` | never the invalid id, never an id in use |
| Cells (`cell_base.h`, `cell.h`, derived cells and actions) | value or error, listeners | register, set, update | no lost update, one value, nothing touched after release |
| Final action, `RpcContext` | cells and actions to release | answer the caller, release | the caller is answered exactly once |
| `ReqMsgHandler`, `InterfaceImplBaseT` | none; cells of unfinished methods | find the interface, invoke, answer | (answers are the environment of the caller's properties) |
| `ZkServiceRegister` | cache, watches, `old_services_`, listeners, round-robin index | init, register, callbacks, tasks, resolve | the cache follows ZooKeeper, listeners follow the cache |
| UDP channel | socket, receive buffer | open, init, receive, send | a loop receives until an error |
| IDL macros, Thrift codec | `__isset` bits; a buffer per thread | assign, copy, compare, write, read; encode, decode | what is decoded equals what was encoded, also between versions of a struct |
| Config, interface repository, loggers, demo services | configuration | set once, look up | not modelled, see section 8 |

How they interact: the SI calls the stub, which registers the cell with
`RspMsgHandler` and sends. A response calls the cell through the handler map; the
cell calls its listeners, listeners resolve more cells, and the last of them may be the
final action, which deletes the cells whose code is still on the stack. A timeout
message takes the same road through `on_rsp_handler_timeout`, and the listener that
`TimeoutCell` put on its rpc cell makes the next attempt. The ZooKeeper thread talks to
the event loop by datagrams the process sends to itself.

What is hard here, and to test: messages lost, duplicated and late against
retries that change ids; teardown in the middle of a cascade; callbacks nested
in callbacks; three-step use of one atomic counter; two threads reading
ZooKeeper and applying what they read at different times; wraparound of ids and ports;
objects that are decoded into twice, and peers with other versions of a struct. `PROJECT.json`
lists each hazard at its line, with the property that covers it or why none does.

## 2. The modules

| Module | Models | State and steps |
|---|---|---|
| `RpcPromise` | abstract: what a call promises its SI | outcome of each call, answers of the remote side |
| `RpcCall` | stub, handler table, timeout cell, timers, teardown, the remote side, the network | `id_func_map_`, `seq_id_`, `has_seq_id_`, `status`, `retry_times_`, `canceled_timer_ids_` as in the code; `main`, whose code runs; `reqs`, `rsps`, `timers`, sets of messages |
| `RpcSequenceId` | `get()` under threads, ids of a given width | counter, where each thread is, ids it holds |
| `CellGraph` | the dataflow of one SI with its call stack | the SI's graph, cells, listeners, stack frames, release |
| `ServiceRegister` | `ZkServiceRegister` with its two threads, tasks, listeners and ZooKeeper | tree, watches, events, callbacks, task queue, cache |
| `TimerService` | the timers of attempts, from `set_timer` to `on_timeout`: set-timer messages, the threads of the timer service and their ports, canceled ids, ids that repeat | `id_func_map_`, `canceled_timer_ids_`, `entry_times`, `threads`, messages, the loops that still receive |
| `ThriftStruct` | the structs the IDL macros expand to and the classes the Thrift compiler generated, and the codec of a thread | objects (`val`, `isset`), the encoder's buffer |
| `RpcCall_proofs`, `RpcSequenceId_proofs`, `TimerService_proofs`, `CellGraph_proofs`, `ServiceRegister_proofs` | the theorems about the module each extends, for every value of its constants | inductive invariants, section 6 |
| `ThriftStruct_proofs`, `ThriftSets_proofs`, `ThriftRoundTrip_proofs` | the theorems about `ThriftStruct`, each module extending the one before; the second has lemmas about sets only | inductive invariants, lemmas about reading and writing, section 6 |
| `MC*` | instances for TLC | |

`RpcCall` composes the stub, the handler table, the timeout cell, the timer adapter and the
remote endpoint, and implements `RpcPromise` (`KeepsPromise`). It leaves open what an SI
does with an outcome: any call not yet started may be started, and the SI may finish, in any
turn in which its code runs. `CellGraph` is the other half: what SI code does in a turn,
with rpcs resolved in any order. The two meet in the turns: `FinishSI` and `EndBuild` of
`RpcCall` abstract `UpdateFinal` and `EndBuild` of `CellGraph`, and the fairness
`CellGraph` assumes of guarded rpcs is `GuardedCallEnds` of `RpcCall`. `TimerService` opens what
`RpcCall` takes for granted, that a timer set and not canceled comes: an attempt there is
`invoke_rpc_once` of `RpcCall` and its outcome one of the three ways a handler is erased, and the
ids, which in `RpcCall` never repeat, wrap around.

How actions correspond to code: one action is one handler run as far as it goes without
calling user code. `OnRpcRsp` is `handle_rpc_rsp` up to `set_rpc_rsp`, with the cancel its
listener makes; the SI's code then runs as `StartCall` and `FinishSI` steps; `EndCascade` is
the rest, `delete_rsp_handler_if_exist`. `RetryAfterTimeout` and `GiveUpAfterTimeout` are
`on_rsp_handler_timeout` with the two branches of `retry_rpc_if_need`; `NotSent` in the
former is an attempt that cannot be sent and fails the call. In `CellGraph` every update is a
step, because what lies on the stack below is the point; `Track` is what `derive_action` has left to do when
the action it made has run. The logic of an asynchronous cell may return a cell that waits for an rpc or one that
is ready, and what graph it builds for it is left open; likewise what a derived cell decides, so the case of a `merge_logic`
that stays undecided when its inputs fail (case500) is the application's and is not among the models' derived cells,
which may decide early and do decide once all inputs are ready. In `ServiceRegister` each access to
ZooKeeper or to `old_services_` is a step; a task or a listener call is a whole turn. A read of
ZooKeeper and the send of its task are one step: the send touches nothing the other steps see
before the main thread takes the task.

In `TimerService` a step is the handling of a message, a start or a wake of a thread, or a loss. What
`MissInit` stands for is in the code twice: the "init" a channel sends to itself may be
dropped, and `strcmp` reads on behind the datagram, which carries no end of string, into a
buffer nobody has initialized. `Bind` succeeds on a port that no thread of the service holds, on any free
one if the port is 0, and fails on one that is held: the exception leaves the thread's function, and C++
ends the process. `Others` are the ports that sockets of other processes may hold, anywhere in the range
(nothing in `set_timer_handler.h` or `UdpChannel.h` keeps them from it); a port in it may be held or free at
each bind.

In `ThriftStruct` a class is what its functions do per field: which cases `read` has, which fields
are always written, compared and required, whether a set is cleared first. A message is a
function from the ids of the fields written to their wire types and values: a class writes its
fields in the order of their ids, so the order needs no place of its own. `Encode` and `Decode` are whole
calls; a decode that throws leaves the object as far as it was read, where "as far as" is `Reached`: the
fields, or elements, up to the first error.

A datagram is cut off at the size of the buffer (`handle_receive` goes on after `message_size`). `CutShort`
takes the last fields and the stop byte away, and `ReadShort` gives every object a read of the rest may leave: as far
as whole fields came, or with a part of the first lost field. What a part of a field leaves is `TornField`:
for a list, which is resized first, its whole elements, perhaps one torn, and default ones behind; for a set
or a map the elements that came, and a map also the key of the value that was torn; for a struct what its own
`ReadShort` says. A scalar comes whole or not at all.

Values are nested: a struct has lists of structs, and so on. A definition for fields
(`ReadField`) comes to a part of a value by an operator constant (`ElemRead`), and `MCThriftStruct` makes that
the definition for values (`ElemRead <- AnyRead`, which is `ReadValue`; likewise for `ElemTorn`, `ElemDefault`,
`ElemEqual`, `ElemWrite`, `ElemFits`, `ElemApart`): the recursion of the code goes through the constants, and no operator is
declared recursive. `Types` are the types the classes are made of, and `Depth` says
that none is made of itself.

Messages: in `RpcCall` the sets only grow and any element may be received any number of
times in any order or never, so loss, duplication and reordering need no actions. Decoding
is a choice between success and failure; payloads do not appear.

Definitions whose comment calls them a *faulty form* are not used by the
specifications: each is a plausible bug, substituted for the definition after it to show
that a property notices (`PROJECT.json`, mutants).

## 3. What the runs check

| Run | Instance | Shows |
|---|---|---|
| `call_retry` | 1 SI, 2 guarded calls, 1 retry, with fairness | the six safety properties of `RpcCall`; a guarded call ends though everything be lost |
| `call_promise` | 2 SIs, 1 guarded and 2 raw calls, all answers | `RpcCall` implements `RpcPromise`; SIs do not touch each other's handlers |
| `id_threads` | 2 threads, ids modulo 6, 14 increments, 2 ids held each | a thread is past every id it holds; a call meets an id held only after a round of calls |
| `id_invalid` | 2 threads, ids modulo 4 | violated: finding 3 |
| `graph_all` | every graph of 1 to 3 nodes (534), 240 diamonds, case500, case701, with fairness | no lost update, one answer, values written once; orderly SIs release safely; without timeout cells the result is handed on |
| `graph_giveup`, `graph_lateaction`, `graph_async` | case700; an action behind the result; an asynchronous cell as the result | violated: findings 1, 2 and 5 |
| `zk_cache` | 2 services, 2 instances, 3 changes by others, lossy tasks, 2 requests, with fairness | the cache is stale only while news is under way, listeners agree with it, round robin is even; the cache converges, but for lost tasks |
| `zk_owned` | 1 instance | violated: finding 4 |
| `timers` | 3 attempts, 2 ids, 5 ports of which others may hold 1, with fairness | a pending attempt is guarded and timed out by its own timer, the service's threads do not take each other's ports early, a timer that is not lost ends the wait |
| `codec_exchange` | 2 objects, 9 pairs of classes, 2 assignments or cut messages | round trips, versions, used objects, failed reads, the encoder's buffer |

Bounds and why they are enough. *Retries* = 1 makes both branches of the retry happen and an
answer to attempt 1 arrive during attempt 2; two calls per SI make one call's messages meet
the other's registration, and two SIs one's teardown meet the other's handlers. Ids modulo 6 wrap
twice within 14 increments, which is enough for two threads to stand at every pair of
positions at the wrap and to go once round from there. `RepeatNeedsRound` counts calls: two threads may skip an id
at each end of the round, so with 6 ids, 2 or fewer calls in between are what must not happen, and the faulty
`SkipToFirst` makes it happen. `MaxTicks`, and `MaxHeld` for the ids a thread holds, are the bounds of those runs. `Graphs` is a set, and the
graph is chosen in the initial state: with three nodes every kind of node meets every
other as input, as listener beside it and as result; the diamonds add two ways from one rpc
to the result, and the two test graphs add depth. `WellFormed` says which graphs the
code can build, with two restrictions of its own: no cell is listed twice as an input of one
node, and asynchronous cells have one input. `MaxChanges` = 3 lets a service and an instance
appear and go, before, while and after init and a callback are half done; `MaxPicks` = 2
reaches the second of two instances and the index beyond one that left. `/services` may be
there at the start or not. The nodes others create in `zk_cache` are three pairs of endpoint and
session, one endpoint registered twice.

In `timers`, three attempts over `IdRange` = 2 make the third repeat the first one's id; the ports are 1 to
4, the threads' start behind `FirstPort` = 2 at 3, and go on with 4, which is in `Others`, and 0: the
counter passes through a port that is free, one that another process may hold, and port 0, for which the
system picks any that is free, also the one a later thread is to have.
`PendingIsGuarded` and `TimerEndsWait` are stated of attempts that do not repeat an id, as a
repeated id may have been canceled for good (`canceled_timer_ids_` is never pruned): that is what
the code gives, not what one would want.

In `codec_exchange`, `Touched` are field ids chosen so that each kind of field occurs: the fields of
the small structs (1 to 3), and of `ResponseData` required scalars (1 to 3), a required struct and a
list of structs (10, 12), and an optional list, set of structs and map of structs (13, 15, 17). `MaxChanges` = 2 puts a
value into either object or two into one, before or after the first message, or one value with a message cut off:
every read of a whole message into an object that a cut one left half read is then reached. `Values` has
structs that differ in a set member, in an unset one, and in none, and the sets of up to two of them
that a `std::set` can hold; lists of structs come in both orders. `Cuts` = {0, 1, 2}: all fields come, or at least a part of the
last is lost, or of the last two, whichever kind of field that is. `DefaultSize` = 2 makes a message of one struct fit and
others grow the buffer.

`CHECK_DEADLOCK FALSE` everywhere: an event loop without messages
waits, and bounded runs end.

`Orderly` is the rule under which release is safe: of the listeners of a cell only the one created
last may lead to the result, and no guarded rpc and no asynchronous cell does. case500 keeps it; case700, case701 and
case1000 do not, as in each a guarded rpc feeds the result (finding 1), nor does an SI like that of
`test_zookeeper.cpp:88-96`, whose result comes from an asynchronous cell: it is safe only as long as the cell its logic
returns is not ready (finding 5). The model lets a derived
cell decide on any of its inputs, so the rule is sufficient and not necessary.

`RoundTripKeeps` asks of an object that it is `Apart`: in each of its sets, the elements
still have their order when the members that are not set are taken for 0, as they
arrive. Without that the round trip fails in two ways, and both need only `es_i16` assigned without
its bit, which generated classes allow: elements that only such a member tells apart become one, and
{1 with an unset 1, 1 with a set 0} come back in the other order, in which `operator==` of `std::set`
compares them. That the elements differ after the trip is therefore not enough.

Two things the code takes for granted are taken for granted here. What the application assigns to a set is one,
by the `std::set` type itself. And `read` ignores the element types that `readListBegin`, `readSetBegin` and
`readMapBegin` hand it (`thrift_types.h:134`, `:168`, `:207`), so nothing is claimed of peers that disagree on them:
`RoundTripKeeps` asks that the fields' types fit, `VersionsUnderstand` is about structs of scalars.

The generated `ResponseData` is left out of that as a reader of absent fields (`Fits`): its `write` and `operator==` go over
every field, `__isset` or not (`api_types.cpp:572-706`), so an optional field that was not set comes back set and empty
from a peer that uses the class. The tests send it in the other direction only.

`MarkedCameWhole` is what an application may rely on after a failed read, and the object half of it is
`UsedObjectsOverwritten`: the half-read object is decoded into again, and holds of the first message only what a
message read whole would have left too.

`SIEnds` leaves timeout cells out: in case701, if the guarded rpc fails with an error
other than a timeout, its timeout cell stays empty, the rollback rpcs never start, and the
joining cell waits for them. "Handed on" is not "sent": `invoke_templated_method` sends
no response when the result is an error (see the hazards).

## 4. Fairness

`RpcCall!Fairness`: a turn ends (`EndBuild`, `EndCascade`: handlers do not block), and the
timer service delivers a timeout that is set and not canceled. Nothing is assumed of
requests, responses or remote methods. That the adapter does so is `TimerEndsWait` of
`TimerService`, with its exceptions: a datagram lost, the process of the timer service ended
by a port, a loop that stopped receiving. `TimerService!FairSpec` itself says that a loop
handles what has come and that threads run and wake; losses and errors are never
fair, and responses need not come. `CellGraph!FairSpec`: code runs on, and each rpc in flight is resolved;
for guarded rpcs that is `GuardedCallEnds`, for raw ones an assumption, as the code
gives no such guarantee. `ServiceRegister!FairSpec`: both threads run on. The changes of
other processes are not fair; they are bounded, which is what "come to rest" means.
`ThriftStruct` has no liveness: every operation is a call that returns.

## 5. Findings

1. `graph_giveup`: when the last timeout ends the SI, `retry_rpc_if_need` reads `timeout_cell_` of
   the deleted `TimeoutCell` (`timeout_cell.h:70`).
2. `graph_lateaction`: `evaluate_all_derived_cells` goes on after the final action deleted the cell
   (`cell_base.h:48-50`), if a listener stands behind the one that feeds the result.
3. `id_invalid`: with two threads `get()` can return the invalid id it means to skip.
4. `zk_owned`: `init` writes `old_services_`, "owned by zk client thread", on the main thread
   while a callback may use it.
5. `graph_async`: the logic of an asynchronous cell may return a cell that is ready (`cell_with_value`, `cell.h:72`); the
   constructor of the action made for it then runs at once, the final action may delete the context, and `derive_action`
   tracks the action in it (`derived_action.h:57`).

In a build, what follows 1, 2, 4 and 5 is undefined. In the model, 1, 2 and 5 set a flag
and the turn goes on or ends; 4 is an assignment in either order, and `StaleOnlyIfPending` and
`Converges` say the cache is right in both orders, not that a torn vector is harmless.

## 6. Proofs

Every invariant and action property that the passing runs check is a theorem here, and so is the
refinement of `RpcPromise`. They hold for every value of the constants, from the assumptions in the modules
only (and `Tied`, below). Parts of those are there for the proofs, and all are true of the program: the
instances others may register are a finite set (the round robin divides by their number); "services",
the name of the event on the root, is not the name of a service; types are not made of themselves
(`Depth`), and the elements of a set are scalars or structs that begin with two (`IsOrdered`), which is what
`operator<` is written for.

Each module has an inductive invariant, checked by TLC on the module's instances before it was
proved; `Init`, every action and stuttering are lemmas or cases of their own.

**`RpcCall`**

```
IInv == TypeOK /\ TurnOK /\ UnstartedCalls /\ MessagesOK
          /\ HandlersMatchCells /\ PendingCallCanEnd /\ ResolvedCallUnregistered
```

The last three are properties of the runs and not inductive alone. `TurnOK` says whose turn it can be (an SI being
built is open; a cascade belongs to an SI that has started, and the sink still registered under its
response has its result). `UnstartedCalls` says a call not started has no registered cell, and an
SI not started no such call. `MessagesOK` says that only guarded calls have timers and that each
registered id is that of the one request sent under it. `TearDownHandlers` carries the handler map
through the end of an SI. From `IInv` follow the three invariants, `OutcomeIsFinal`, `CancelOnlyAnswered`,
and `PromiseKept`: every step is a step of `RpcPromise` under `outcome` and `answers`, or
leaves both unchanged.

`TimeoutAfterAllAttempts` needs a second one, `AttemptsOK`: while a call has no response, the number of
its requests and the retries it has left make up the retries allowed and one, and none of
the timers of its requests is canceled. A canceled id belongs to the attempt a response came
for, and so to one call only (`AttemptIsRegistered`).

**`RpcSequenceId`**: `PastHeldIds` with `TypeOK` is inductive for any number of threads. That ids repeat only
after a round of *calls* needs more: the counter also moves by skips. `RoundOK` bounds, for each id held, the
increments since it was read by the calls since then and the skips, which are at most one per thread for each
wrap (a thread that skips has compared at the invalid id), those still to come counted; `RepeatsApart` turns that into
the round less two per thread. For one thread
`ValidOK` is inductive too, so `NeverInvalid`, which `id_invalid` violates with two threads, holds with
one: finding 3 is about the interleaving and not about the wrap.

**`TimerService`**

```
IInv == TypeOK /\ HandlersOk /\ CanceledOk /\ ThreadsOk /\ OnItsWayOk
```

`PendingIsGuarded` is not inductive: a cancel or a timeout of another attempt could break it.
`HandlersOk` says handlers and pending attempts correspond, so that no attempt made later has
the id of a pending one; `CanceledOk` that the canceled ids are exactly those of answered
attempts; `ThreadsOk` that a thread carries the attempt it was started for, which was asked for once.
`AttemptEnds` proves once, for response, release and timeout, that erasing a handler keeps the
first. From `IInv` follow `PendingGuarded` (via `PendingNotCanceled`: an answered attempt with
the same id would make this one repeat it) and `OwnTimeouts`. `PortsLast` adds `PortsOk`: as long as there have been
fewer attempts than ports behind the first one, `entry_times` has not wrapped and is the number of threads
started (`Counting`), each thread has a port of its own, none is 0, and one that failed has a port in `Others`, about which
nothing is assumed.

**`CellGraph`**

```
IInv == TypeOK /\ CellsOk /\ FramesOk /\ ListedOk /\ RegisteredOk /\ PendingOk /\ AsyncOk
```

The properties speak of turns that have ended, or of one flag; the invariant has to say what
holds in the middle of any nesting of updates. `FramesOk` describes the stack: a registration or a giving up
lies at the bottom only, an update on top only, each cell is evaluated by one frame at most, and a loop's
size is that of the list it runs over. `ListedOk` says that a cell lists the nodes it is an input
of, once each, in the order of their creation and the final action last; `RegisteredOk` that an existing
listener is listed by each input, unless that input is ready or its registration is still to come; `PendingOk`
that what could go on has a notification pending in some frame (`NoLostUpdate` is this with an
empty stack); `AsyncOk` that an asynchronous cell is notified once, so that it makes one rpc and its
answer is written once. The step is proved invariant by invariant: `Moves`, `Stays`,
`FrameMoves`, `Origins` and `Lists` say once what any step does to cells, to frames (kept, moved on,
pushed) and to lists, and the step lemmas cite them instead of the actions.

`OrderlyGraphSafe` adds `OrderOk`: in an orderly graph, what lies above a frame with listeners left
to update, above a giving up or above an action to be tracked does not lead to the result, so the final action can run only when every
loop below it has ended. `LeadsToResult` is stated as membership in every set closed under the inputs of
what has led so far, which needs no recursion.

**`ServiceRegister`**: three invariants over one `TypeOK`. `NewsInv` is behind `StaleOnlyIfPending`: a
service that init or a callback has reached keeps a watch or has an event queued (`TasksAreFetched`,
`OldIsReached`); while the watch is all there is, the latest task, or without a task the cache, is what
ZooKeeper has (`WatchedIsCurrent`); a service not reached yet is one that an event of the root, or the
callback running, will come to (`UnreachedIsPending`, `RootWatched`). It holds in both orders of the
race of finding 4. `ListenersInv` adds to `ListenersInSync` that nothing is cached before init registers the
collected listeners. `ServedInOrder` says that of two cached instances the one whose turn comes first has been
served as often as the other or once less; a request serves the first in line and makes it the last, for which
ranks are counted (`CachedRanks`, `PickStep`) and the index taken modulo their number.

**`ThriftStruct`**

```
IInv == TypeOK /\ ResetGivesDefault /\ BufferGivenBack
```

`ResetGivesDefault` says that the encoder resets to the default size or still has it: what
`BufferGivenBack` needs to survive the next `Encode`. How far a buffer doubles
(`GrownEnough`) rests on powers of two, of which the prover has no axiom that serves; they are the
cardinalities of the sets of subsets of 1 .. n, and `PowerStep` follows from the library's facts about those.

The other three invariants say what `Read` and `Write` compute, and follow from `TypeOK` in every
state. Those that go into nested values have the hypothesis `Tied`: the operator constants are the operators
`MCThriftStruct` gives for them, at each type in `Types`. With `Depth` that is a definition by recursion,
so for any `Types` and `Depth` there are operators that satisfy it. Induction is then over the depth of types, and it
needs no induction theorem: of the types that fail a claim one has the least depth (`SmallestNat`), its
parts keep the claim, and a lemma says it does so then too.

- `VersionsUnderstandHolds`: without an error every field with a case and the right type arrives
  (`ReadWithoutErrors`), and scalars give no error (`ScalarsAreShared`).
- `UsedObjectsOverwrittenHolds`: whether a read throws does not depend on what the object held
  (`OkIgnoresOld`, by depth), so a fresh object reads without errors as well; a set that is not cleared
  keeps its elements and gains those that came and have no equivalent there (`InsertedAnyway`).
- `MarkedCameWholeHolds`: whatever cut, `ReadShort` marks a field only where `Read` of the fields that came does
  (`TornIsNotLeft`: a torn field throws before its bit is set), and `Read` marks only fields it has read
  without errors (`MarkedByRead`).
- `RoundTripKeepsHolds`: `Kept`, case by case of `TypeKept`. A set is the hard one. `operator<` puts a set in one
  order only (`InOrderEnumerates` by ranks, `InOrderIs`), and the keys of what arrives, there and back,
  are those `Apart` speaks of (`KeySent`), so no element is dropped and the k-th element written is
  compared with the k-th that came back (`SetKept`).

Only model-checked, and why:

- liveness (`GuardedCallEnds`, `SIEnds`, `Converges`, `TimerEndsWait`): the prover has no rule for
  fairness and ENABLED. Its safety half is proved: `PendingCallCanEnd` and `PendingIsGuarded` say that
  what ends the wait is there, `NoLostUpdate` and `StaleOnlyIfPending` that no news is forgotten.
- that the operators `MCThriftStruct` gives for the constants of `ThriftStruct` are `Tied`: the prover cannot define an
  operator by recursion over types; TLC evaluates them by definition.
- the properties of the runs that expect a violation, but for the two complements above
  (`OrderlyGraphSafe`, which has its three counterexamples in findings 1, 2 and 5, and `NeverInvalid` for one thread).

## 7. Plan

In this order; the first ten are built.

1. `RpcPromise`, `RpcCall` and their proofs: the core.
2. `RpcSequenceId` and its proofs.
3. `CellGraph`: dataflow and release.
4. `ServiceRegister`: the cache and its threads.
5. `ThriftStruct`: structs, generated classes, codec.
6. `TimerService` and its proofs: loss of set-timer and timeout messages, ids and ports that wrap.
7. Proofs about `ServiceRegister`.
8. Proofs about `CellGraph`, for every graph.
9. The counting arguments: `TimeoutAfterAllAttempts` and `PortsLast`.
10. `ThriftStruct` for the prover, `Read` and `Write` stated without recursive operators, and its proofs.
11. The remote side as a module: an SI invoked by a request, which calls on
    (service_x to service_y to service_z), composed with `RpcCall` at both ends.
12. The end of a ZooKeeper session, when the code does something about it.

## 8. Not modelled

Configuration and singletons (set once), the interface repository (filled before main; a missing
interface is an answer in `RpcCall`), loggers and demo services. Of the UDP channel, the contents of
buffers and `close_all_channels`, which tests use to stop. Of the structs, printing, the getters'
asserts, and byte layout. `RpcSequenceId::reset` and `TimerMgr::reset` are called by tests between
services. Of ZooKeeper, only children and
child watches; the connection and session of the process last, and service nodes are
never deleted, as nothing in the code deletes them. In thread-local mode all services of a
process share one `ZkServiceRegister`; the model is of process mode, where there is one event
loop. The race on asio's socket object between the two threads is listed as a hazard only.
