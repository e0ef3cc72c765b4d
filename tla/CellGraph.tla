----------------------------- MODULE CellGraph ------------------------------
(***************************************************************************)
(* The dataflow of one service interaction (SI): cells, the listeners they *)
(* update, and the call stack on which updates nest.                       *)
(*                                                                         *)
(* The SI's function creates the nodes of graph in order; each registers   *)
(* with its inputs and may be updated at once if an input is ready.  Then  *)
(* responses and timeouts resolve rpcs one at a time, each in a turn of    *)
(* its own: a cell that becomes ready updates its listeners, which may     *)
(* make other cells ready, and the final action, listening to Result,      *)
(* deletes every cell, while callers below it on the stack have not        *)
(* returned yet.  What those callers touch next is the subject here.       *)
(*                                                                         *)
(* How an rpc is resolved (messages, timers, retries) is module RpcCall.   *)
(* The logic of a derived cell is any function that decides at the latest  *)
(* when all its inputs are ready.                                          *)
(***************************************************************************)
EXTENDS Integers, Sequences, Functions

CONSTANTS Graphs,  \* the graphs of the SIs considered
          Final    \* the final action

\* A graph: its nodes are numbered in the order the SI's function creates them,
\* n has kind[n] and listens to the cells inputs[n] in that order (a "timeout"
\* cell: the TimeoutCell it belongs to); the function returns cell result.
Kinds == {"rpc", "guarded", "timeout", "derived", "async", "action"}

\* What the code can build: inputs exist, and are cells; a TimeoutCell has one
\* timeout cell.  Asynchronous cells have one input, as all in the repository.
WellFormed(g) ==
    /\ g.kind \in Seq(Kinds)
    /\ g.inputs \in [1 .. Len(g.kind) -> Seq(1 .. Len(g.kind))]
    /\ \A n \in 1 .. Len(g.kind) :
          /\ IsInjective(g.inputs[n])
          /\ \A i \in 1 .. Len(g.inputs[n]) :
                g.inputs[n][i] \in 1 .. n - 1 /\ g.kind[g.inputs[n][i]] # "action"
          /\ g.kind[n] = "rpc" => g.inputs[n] = <<>>
          /\ g.kind[n] \in {"derived", "action"} => g.inputs[n] # <<>>
          /\ g.kind[n] = "async" => Len(g.inputs[n]) = 1
          /\ g.kind[n] = "timeout" =>
                /\ Len(g.inputs[n]) = 1 /\ g.kind[g.inputs[n][1]] = "guarded"
                /\ \A m \in 1 .. n - 1 : g.kind[m] = "timeout" => g.inputs[m] # g.inputs[n]
    /\ g.result \in 1 .. Len(g.kind) /\ g.kind[g.result] \notin {"timeout", "action"}

ASSUME GraphsAssumption ==
    /\ \A g \in Graphs : WellFormed(g)
    /\ \A g \in Graphs : Final \notin 1 .. Len(g.kind)

VARIABLES
    graph,           \* the graph of this SI; never changes
    created,         \* how many nodes exist
    status,          \* cell -> "empty", "value", "error"
    is_rpc_started_, \* TimeoutCells that have made their rpc
    flights,         \* cell -> rpcs in flight that will set it
    updatables_,     \* cell -> its listeners
    stack,           \* frames of the running turn, innermost last
    phase,           \* "build", "open", "leaked", "released"
    answered,        \* times the result was handed on, by the final action or at once
    useAfterRelease  \* code of a deleted object has read it

vars == <<graph, created, status, is_rpc_started_, flights, updatables_, stack, phase, answered,
          useAfterRelease>>

-----------------------------------------------------------------------------
Nodes == 1 .. Len(graph.kind)
Kind == graph.kind
Inputs == graph.inputs
Result == graph.result
Cells == {n \in Nodes : Kind[n] # "action"}
Ready == {"value", "error"}

Frame(op, n, next, size) == [op |-> op, of |-> n, next |-> next, size |-> size]
Top == stack[Len(stack)]
Below == SubSeq(stack, 1, Len(stack) - 1)
Running(op) == stack # <<>> /\ Top.op = op
Waiting == stack = <<>> /\ phase # "build"
IsReady(c) == status[c] \in Ready
AllReady(n) == \A i \in 1 .. Len(Inputs[n]) : IsReady(Inputs[n][i])

Evaluation(c) == Frame("evaluate", c, 1, Len(updatables_[c]))

\* set_value or set_failed_reason: the listeners known by then will be updated.
SetCell(c, result, callers) ==
    /\ status' = [status EXCEPT ![c] = result]
    /\ stack' = Append(callers, Evaluation(c))

TypeOK ==
    /\ graph \in Graphs
    /\ created \in 0 .. Len(Kind)
    /\ status \in [Cells -> Ready \cup {"empty"}]
    /\ is_rpc_started_ \subseteq Cells
    /\ flights \in [Cells -> Nat]
    /\ updatables_ \in [Cells -> Seq(Nodes \cup {Final})]
    /\ stack \in Seq([op : {"register", "evaluate", "update", "track", "giveUp"},
                      of : Nodes \cup {Final}, next : Nat, size : Nat])
    /\ phase \in {"build", "open", "leaked", "released"}
    /\ answered \in Nat
    /\ useAfterRelease \in BOOLEAN

Init ==
    /\ graph \in Graphs
    /\ created = 0
    /\ status = [c \in Cells |-> "empty"]
    /\ is_rpc_started_ = {}
    /\ flights = [c \in Cells |-> 0]
    /\ updatables_ = [c \in Cells |-> <<>>]
    /\ stack = <<>>
    /\ phase = "build"
    /\ answered = 0
    /\ useAfterRelease = FALSE

-----------------------------------------------------------------------------
\* An rpc is sent, or fails on the spot with a cell that holds the error.
StartRpc(c, callers) ==
    \/ /\ flights' = [flights EXCEPT ![c] = @ + 1]
       /\ stack' = callers
       /\ UNCHANGED status
    \/ /\ SetCell(c, "error", callers)
       /\ UNCHANGED flights

\* The next statement of the SI's function creates a node: an rpc without
\* inputs starts in its constructor, other nodes register with their inputs.
Create ==
    /\ phase = "build" /\ stack = <<>> /\ created < Len(Kind)
    /\ created' = created + 1
    /\ LET n == created + 1
       IN  \/ /\ Kind[n] = "rpc" \/ (Kind[n] = "guarded" /\ Inputs[n] = <<>>)
              /\ StartRpc(n, <<>>)
              /\ is_rpc_started_' = is_rpc_started_ \cup {n}
           \/ /\ Kind[n] \in {"derived", "async", "action", "guarded"} /\ Inputs[n] # <<>>
              /\ stack' = <<Frame("register", n, 1, Len(Inputs[n]))>>
              /\ UNCHANGED <<status, flights, is_rpc_started_>>
           \/ /\ Kind[n] = "timeout"
              /\ UNCHANGED <<status, flights, stack, is_rpc_started_>>
    /\ UNCHANGED <<updatables_, phase, answered, useAfterRelease>>

\* Faulty form of the next: a ready cell does not update a new listener.
ListenLater(n, c, callers) ==
    /\ updatables_' = [updatables_ EXCEPT ![c] = Append(@, n)]
    /\ stack' = callers

\* register_listener
Listen(n, c, callers) ==
    IF IsReady(c)
      THEN /\ stack' = Append(callers, Frame("update", n, 0, 0))
           /\ UNCHANGED updatables_
      ELSE /\ updatables_' = [updatables_ EXCEPT ![c] = Append(@, n)]
           /\ stack' = callers

Register ==
    /\ Running("register")
    /\ IF Top.next > Top.size
         THEN stack' = Below /\ UNCHANGED updatables_
         ELSE Listen(Top.of, Inputs[Top.of][Top.next],
                     Append(Below, [Top EXCEPT !.next = @ + 1]))
    /\ UNCHANGED <<created, status, is_rpc_started_, flights, phase, answered, useAfterRelease>>

-----------------------------------------------------------------------------
\* Faulty forms of the next: the size is read again after each update; the last
\* listener is missed.
EvaluateRereadsSize ==
    /\ Running("evaluate")
    /\ IF phase = "released"
         THEN stack' = <<>> /\ useAfterRelease' = TRUE
         ELSE /\ stack' = IF Top.next > Top.size THEN Below
                ELSE Below \o <<[Top EXCEPT !.next = @ + 1],
                                Frame("update", updatables_[Top.of][Top.next], 0, 0)>>
              /\ UNCHANGED useAfterRelease
    /\ UNCHANGED <<created, status, is_rpc_started_, flights, updatables_, phase, answered>>

EvaluateMissesLast ==
    /\ Running("evaluate")
    /\ stack' = IF Top.next >= Top.size THEN Below
                ELSE Below \o <<[Top EXCEPT !.next = @ + 1],
                                Frame("update", updatables_[Top.of][Top.next], 0, 0)>>
    /\ UNCHANGED <<created, status, is_rpc_started_, flights, updatables_, phase, answered,
                   useAfterRelease>>

\* evaluate_all_derived_cells: the size is a local, the listeners are read from
\* the cell.  If the cell is gone the next read is undefined; here it ends the turn.
Evaluate ==
    /\ Running("evaluate")
    /\ \/ Top.next > Top.size /\ stack' = Below /\ UNCHANGED useAfterRelease
       \/ /\ Top.next <= Top.size /\ phase = "released"
          /\ stack' = <<>> /\ useAfterRelease' = TRUE
       \/ /\ Top.next <= Top.size /\ phase # "released"
          /\ stack' = Below \o <<[Top EXCEPT !.next = @ + 1],
                                 Frame("update", updatables_[Top.of][Top.next], 0, 0)>>
          /\ UNCHANGED useAfterRelease
    /\ UNCHANGED <<created, status, is_rpc_started_, flights, updatables_, phase, answered>>

Return == stack' = Below /\ UNCHANGED <<status, is_rpc_started_, flights>>

\* Faulty form of the next: the logic of a cell that is ready runs again.
UpdateDerivedAgain(n) ==
    \E result \in Ready : SetCell(n, result, Below) /\ UNCHANGED <<is_rpc_started_, flights>>

UpdateDerived(n) ==
    \/ /\ IsReady(n) \/ ~AllReady(n)
       /\ Return
    \/ /\ ~IsReady(n)
       /\ \E result \in Ready : SetCell(n, result, Below)
       /\ UNCHANGED <<is_rpc_started_, flights>>

\* TimeoutCell::update: f_ may return no cell while an input is empty.
UpdateGuarded(n) ==
    \/ /\ IsReady(n) \/ n \in is_rpc_started_ \/ ~AllReady(n)
       /\ Return
    \/ /\ ~IsReady(n) /\ n \notin is_rpc_started_
       /\ is_rpc_started_' = is_rpc_started_ \cup {n}
       /\ StartRpc(n, Below)

\* DerivedAsyncCell::update runs its logic each time it is updated while empty;
\* the cell it follows may wait for an rpc, or hold a value or an error already.
\* With a value the action made by derive_action runs, and sets this cell, before
\* the context tracks it.
UpdateAsync(n) ==
    \/ IsReady(n) /\ Return
    \/ /\ ~IsReady(n)
       /\ \/ StartRpc(n, Below)
          \/ SetCell(n, "value", Append(Below, Frame("track", n, 0, 0))) /\ UNCHANGED flights
       /\ UNCHANGED is_rpc_started_

Update ==
    /\ Running("update")
    /\ Top.of # Final
    /\ CASE Kind[Top.of] = "derived" -> UpdateDerived(Top.of)
         [] Kind[Top.of] = "guarded" -> UpdateGuarded(Top.of)
         [] Kind[Top.of] = "async"   -> UpdateAsync(Top.of)
         [] Kind[Top.of] = "action"  -> Return
    /\ UNCHANGED <<created, updatables_, phase, answered, useAfterRelease>>

\* The rest of derive_action: ctxt.track(action), on the context of the SI.
Track ==
    /\ Running("track")
    /\ useAfterRelease' = (useAfterRelease \/ phase = "released")
    /\ stack' = Below
    /\ UNCHANGED <<created, status, is_rpc_started_, flights, updatables_, phase, answered>>

\* The final action answers the SI's caller and deletes the result cell, and
\* with it the context and every cell and action the context tracks.
UpdateFinal ==
    /\ Running("update")
    /\ Top.of = Final
    /\ answered' = answered + 1
    /\ phase' = "released"
    /\ stack' = Below
    /\ UNCHANGED <<created, status, is_rpc_started_, flights, updatables_, useAfterRelease>>

-----------------------------------------------------------------------------
\* Faulty form of the next: the final action is registered though it has run.
EndBuildRegistersAnyway ==
    /\ phase = "build" /\ stack = <<>> /\ created = Len(Kind)
    /\ phase' = "open"
    /\ answered' = IF IsReady(Result) THEN 1 ELSE 0
    /\ stack' = IF IsReady(Result) THEN <<Frame("update", Final, 0, 0)>> ELSE <<>>
    /\ updatables_' = [updatables_ EXCEPT ![Result] = Append(@, Final)]
    /\ UNCHANGED <<created, status, is_rpc_started_, flights, useAfterRelease>>

\* The function returns.  On an empty result the final action is registered.  A
\* value is sent and deleted at once by invoke_templated_method; a final action
\* given a ready cell runs before it knows the cell it should delete.
EndBuild ==
    /\ phase = "build" /\ stack = <<>> /\ created = Len(Kind)
    /\ \/ /\ ~IsReady(Result)
          /\ updatables_' = [updatables_ EXCEPT ![Result] = Append(@, Final)]
          /\ phase' = "open"
          /\ UNCHANGED answered
       \/ /\ IsReady(Result)
          /\ phase' \in {"leaked"} \cup (IF status[Result] = "value" THEN {"released"} ELSE {})
          /\ answered' = answered + 1
          /\ UNCHANGED updatables_
    /\ UNCHANGED <<created, status, is_rpc_started_, flights, stack, useAfterRelease>>

\* Faulty form of the next: a response is taken for a cell with no rpc in flight.
OnResponseAnytime(c) ==
    /\ Waiting /\ phase # "released"
    /\ flights' = [flights EXCEPT ![c] = @ - 1]
    /\ \E result \in Ready : SetCell(c, result, <<>>)
    /\ UNCHANGED <<created, is_rpc_started_, updatables_, phase, answered, useAfterRelease>>

\* A response arrives for an rpc in flight; handlers of deleted cells are gone.
OnResponse(c) ==
    /\ Waiting /\ phase # "released" /\ flights[c] > 0
    /\ flights' = [flights EXCEPT ![c] = @ - 1]
    /\ \E result \in Ready : SetCell(c, result, <<>>)
    /\ UNCHANGED <<created, is_rpc_started_, updatables_, phase, answered, useAfterRelease>>

\* The last attempt of a TimeoutCell times out, or of the one an asynchronous cell
\* follows: the cell fails, its listeners run, and only then the timeout cell of
\* the TimeoutCell is looked at.
OnLastTimeout(c) ==
    /\ Waiting /\ phase # "released" /\ flights[c] > 0 /\ Kind[c] \in {"guarded", "async"}
    /\ flights' = [flights EXCEPT ![c] = @ - 1]
    /\ SetCell(c, "error", <<Frame("giveUp", c, 0, 0)>>)
    /\ UNCHANGED <<created, is_rpc_started_, updatables_, phase, answered, useAfterRelease>>

TimeoutCellsOf(c) == {n \in 1 .. created : Kind[n] = "timeout" /\ Inputs[n][1] = c}

\* The rest of retry_rpc_if_need: timeout_cell_, if the SI asked for one, is set.
GiveUp ==
    /\ Running("giveUp")
    /\ useAfterRelease' = (useAfterRelease \/ phase = "released")
    /\ IF phase = "released" \/ TimeoutCellsOf(Top.of) = {}
         THEN stack' = Below /\ UNCHANGED status
         ELSE \E n \in TimeoutCellsOf(Top.of) : SetCell(n, "value", Below)
    /\ UNCHANGED <<created, is_rpc_started_, flights, updatables_, phase, answered>>

TurnStep ==
    /\ Create \/ Register \/ Evaluate \/ Update \/ Track \/ UpdateFinal \/ EndBuild \/ GiveUp
    /\ UNCHANGED graph
Resolution ==
    /\ \E c \in Cells : OnResponse(c) \/ OnLastTimeout(c)
    /\ UNCHANGED graph

Next == TurnStep \/ Resolution

Spec == Init /\ [][Next]_vars

\* Code runs on, and every rpc in flight is resolved: what RpcCall shows of
\* guarded calls (GuardedCallEnds), and an assumption for raw ones.
FairSpec == Spec /\ WF_vars(TurnStep) /\ WF_vars(Resolution)

-----------------------------------------------------------------------------
\* "if not final action, may trigger self's destruction, can not continue
\* running" (derived_action.h:39): nothing on the stack touches a cell once the
\* final action, running above it, has deleted the SI.
NoUseAfterRelease == ~useAfterRelease

\* LeadsToResult(n): setting n may resolve the result in the same turn; the
\* least set with the result and the inputs of what it has leads to it.
LeadsToResult(n) ==
    \A S \in SUBSET Nodes :
        Result \in S /\ (\A m \in S : Kind[m] # "timeout" => Range(Inputs[m]) \subseteq S) => n \in S

Listeners(c) == {n \in Nodes : Kind[n] # "timeout" /\ c \in Range(Inputs[n])}

\* The SI's author keeps two rules: of the listeners of a cell only the one
\* created last may lead to the result, and no guarded rpc and no asynchronous
\* cell does.
Orderly ==
    /\ \A c \in Cells : \A n \in Listeners(c) :
          Kind[n] # "action" /\ LeadsToResult(n) => \A m \in Listeners(c) : m <= n
    /\ \A c \in Cells : Kind[c] \in {"guarded", "async"} => ~LeadsToResult(c)

\* For an orderly SI the loops of CellStatus::evaluate_all_derived_cells,
\* TimeoutCell::retry_rpc_if_need and derive_action survive the deletion of what
\* they run on: whatever nests above them, they touch nothing that is gone.
OrderlyGraphSafe == NoUseAfterRelease \/ ~Orderly

\* The result is handed on exactly once: not while the SI is being built or
\* waits; after it ended, once, by whichever of the paths (DerivedAction::update,
\* invoke_templated_method).
AnsweredOnce == answered = IF phase \in {"build", "open"} THEN 0 ELSE 1

\* Between turns no notification is pending or lost: once its inputs are ready a
\* derived cell is ready, a guarded rpc was started, an asynchronous cell is
\* ready or follows an rpc; and a result that is ready has ended the SI
\* (CellStatus::register_listener, evaluate_all_derived_cells).
NoLostUpdate ==
    Waiting /\ phase # "released" =>
        /\ \A n \in Nodes : AllReady(n) =>
              CASE Kind[n] = "derived" -> IsReady(n)
                [] Kind[n] = "guarded" -> n \in is_rpc_started_
                [] Kind[n] = "async"   -> IsReady(n) \/ flights[n] > 0
                [] OTHER -> TRUE
        /\ IsReady(Result) => phase = "leaked"

\* A cell that is ready keeps its value or error, however often it is updated
\* and whatever nests inside the update (DerivedCell, TimeoutCell::update).
WriteOnce == [][\A c \in Cells : IsReady(c) => status'[c] = status[c]]_vars

\* If every rpc in flight is resolved, the result is handed on, for every graph
\* without timeout cells (register_listener, evaluate_all_derived_cells).
SIEnds == (\A n \in Nodes : Kind[n] # "timeout") => <>(answered = 1)
=============================================================================
