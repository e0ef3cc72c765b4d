-------------------------- MODULE CellGraph_proofs --------------------------
(***************************************************************************)
(* Proofs about CellGraph: types, that an SI answers once, that a cell is  *)
(* written once, that no notification is lost, and that an orderly graph   *)
(* touches nothing the final action deleted, for every graph.              *)
(*                                                                         *)
(* The argument: the stack is a chain of evaluations, and of trackings,    *)
(* over at most one registration or giving up, with at most one update on  *)
(* top (FramesOk); a listener is in the list of each input it waits for,   *)
(* once, in the order of creation (ListedOk, RegisteredOk); so when a cell *)
(* becomes ready each listener has a notification pending (PendingOk), and *)
(* an asynchronous cell has only one (AsyncOk).  In an orderly graph what  *)
(* has listeners left to update, or an action left to track, stands below  *)
(* no cell that leads to the result (OrderOk).                             *)
(***************************************************************************)
EXTENDS CellGraph, TLAPS

Op(i) == stack[i].op
Of(i) == stack[i].of
ListenerKinds == {"guarded", "derived", "async", "action"}

\* The registration of n has input k still before it.
RegisterPending(n, k) ==
    \E i \in DOMAIN stack : Op(i) = "register" /\ Of(i) = n /\ stack[i].next <= k

\* The evaluation in frame i has n still to update.
EvaluatePending(i, n) ==
    /\ Op(i) = "evaluate"
    /\ \E k \in DOMAIN updatables_[Of(i)] : k >= stack[i].next /\ updatables_[Of(i)][k] = n

Pending(n) ==
    \/ \E i \in DOMAIN stack : Op(i) = "update" /\ Of(i) = n
    \/ \E i \in DOMAIN stack : EvaluatePending(i, n)
    \/ n \in Nodes /\ RegisterPending(n, Len(Inputs[n]))

\* A node that does not exist yet has no state; a cell waits for what it asked for.
CellsOk ==
    /\ phase # "build" => created = Len(Kind)
    /\ \A c \in Cells : IsReady(c) \/ flights[c] > 0 \/ c \in is_rpc_started_ => c <= created
    /\ \A c \in Cells : flights[c] > 0 => /\ flights[c] = 1 /\ ~IsReady(c)
                                          /\ Kind[c] \in {"rpc", "guarded", "async"}
    /\ \A c \in Cells : Kind[c] = "guarded" /\ (IsReady(c) \/ flights[c] > 0) => c \in is_rpc_started_
    /\ \A c \in Cells : Kind[c] = "timeout" /\ IsReady(c) => IsReady(Inputs[c][1])

RegisterOk(i) ==
    LET n == Of(i)
    IN  /\ i = 1 /\ phase = "build" /\ n = created /\ n \in Nodes
        /\ Kind[n] \in ListenerKinds
        /\ stack[i].size = Len(Inputs[n]) /\ stack[i].next \in 1 .. stack[i].size + 1
        /\ \A k \in DOMAIN Inputs[n] : k >= stack[i].next => n \notin Range(updatables_[Inputs[n][k]])

EvaluateOk(i) ==
    /\ Of(i) \in Cells /\ IsReady(Of(i))
    /\ stack[i].size = Len(updatables_[Of(i)]) /\ stack[i].next \in 1 .. stack[i].size + 1
    /\ \A j \in DOMAIN stack : Op(j) = "evaluate" /\ Of(j) = Of(i) => j = i

UpdateOk(i) ==
    /\ i = Len(stack) /\ phase # "released"
    /\ Of(i) = Final => phase = "open"
    /\ Of(i) # Final => Of(i) \in 1 .. created /\ Kind[Of(i)] \in ListenerKinds

GiveUpOk(i) ==
    /\ i = 1 /\ phase # "build"
    /\ Of(i) \in Cells /\ Kind[Of(i)] \in {"guarded", "async"} /\ IsReady(Of(i))
    /\ \A n \in TimeoutCellsOf(Of(i)) : ~IsReady(n)

FrameOk(i) ==
    /\ Op(i) = "register" => RegisterOk(i)
    /\ Op(i) = "evaluate" => EvaluateOk(i)
    /\ Op(i) = "update" => UpdateOk(i)
    /\ Op(i) = "giveUp" => GiveUpOk(i)

FramesOk == \A i \in DOMAIN stack : FrameOk(i)

\* The listeners of a cell, in the order of their creation; the final action last.
ListedOk ==
    \A c \in Cells : \A i \in DOMAIN updatables_[c] :
        LET n == updatables_[c][i]
        IN  /\ n = Final => c = Result /\ phase \in {"open", "released"}
            /\ n # Final => n \in 1 .. created /\ c \in Range(Inputs[n]) /\ Kind[n] \in ListenerKinds
            /\ \A j \in DOMAIN updatables_[c] :
                  j > i => n # Final /\ (updatables_[c][j] = Final \/ n < updatables_[c][j])

RegisteredOk ==
    /\ \A n \in 1 .. created : Kind[n] \in ListenerKinds =>
          \A k \in DOMAIN Inputs[n] :
              \/ IsReady(Inputs[n][k])
              \/ n \in Range(updatables_[Inputs[n][k]])
              \/ RegisterPending(n, k)
    /\ phase = "open" => IsReady(Result) \/ Final \in Range(updatables_[Result])

PendingOk ==
    phase # "released" =>
        /\ \A n \in 1 .. created : AllReady(n) =>
              /\ Kind[n] = "derived" => IsReady(n) \/ Pending(n)
              /\ Kind[n] = "guarded" => n \in is_rpc_started_ \/ Pending(n)
              /\ Kind[n] = "async" => IsReady(n) \/ flights[n] > 0 \/ Pending(n)
        /\ phase = "open" /\ IsReady(Result) => Pending(Final)

\* n has been told, or will be told, by its input.
Awaits(n) == \/ Pending(n)
             \/ n \in Range(updatables_[Inputs[n][1]]) /\ ~IsReady(Inputs[n][1])

AsyncOk ==
    \A n \in Cells : Kind[n] = "async" =>
        /\ Awaits(n) => flights[n] = 0 /\ ~IsReady(n)
        /\ (\E i \in DOMAIN stack : Op(i) = "update" /\ Of(i) = n) =>
               /\ IsReady(Inputs[n][1])
               /\ ~RegisterPending(n, 1)
               /\ \A i \in DOMAIN stack : ~EvaluatePending(i, n)

Leads(n) == n = Final \/ (n \in Nodes /\ Kind[n] # "action" /\ LeadsToResult(n))

\* Frame i has listeners left to update, a timeout cell to look at, or an action to
\* give to the context.
Unfinished(i) ==
    \/ Op(i) = "evaluate" /\ stack[i].next <= stack[i].size
    \/ Op(i) \in {"giveUp", "track"}

OrderOk ==
    Orderly =>
        /\ ~useAfterRelease
        /\ \A i, j \in DOMAIN stack : i < j /\ Unfinished(i) => ~Leads(Of(j))
        /\ \A i \in DOMAIN stack : Op(i) \in {"giveUp", "track"} => ~Leads(Of(i))
        /\ phase = "released" => \A i \in DOMAIN stack : Op(i) = "evaluate" /\ ~Unfinished(i)

IInv == /\ TypeOK /\ CellsOk /\ FramesOk /\ ListedOk /\ RegisteredOk /\ PendingOk /\ AsyncOk
-----------------------------------------------------------------------------
Frames == [op : {"register", "evaluate", "update", "track", "giveUp"},
           of : Nodes \cup {Final}, next : Nat, size : Nat]

\* What WellFormed says of the graph at hand.
LEMMA GraphFacts ==
    ASSUME graph \in Graphs
    PROVE  /\ Len(Kind) \in Nat /\ Nodes = 1 .. Len(Kind) /\ Cells \subseteq Nodes
           /\ \A n \in Nodes : n \in Nat /\ Kind[n] \in Kinds /\ (n \in Cells <=> Kind[n] # "action")
           /\ Result \in Cells /\ Kind[Result] \notin {"timeout", "action"}
           /\ Final \notin Nodes
           /\ \A n \in Nodes : Inputs[n] \in Seq(Nodes)
           /\ \A n \in Nodes : \A i \in DOMAIN Inputs[n] : Inputs[n][i] \in Cells /\ Inputs[n][i] < n
           /\ \A n \in Nodes : \A i, j \in DOMAIN Inputs[n] : Inputs[n][i] = Inputs[n][j] => i = j
<1>1. WellFormed(graph) /\ Final \notin 1 .. Len(graph.kind)
  BY GraphsAssumption
<1>2. graph.kind \in Seq(Kinds) /\ Len(graph.kind) \in Nat /\ Nodes = 1 .. Len(graph.kind)
  BY <1>1 DEF WellFormed, Nodes
<1>3. \A n \in Nodes : graph.kind[n] \in Kinds
  BY <1>2
<1>4. \A n \in Nodes : graph.inputs[n] \in Seq(Nodes)
  BY <1>1, <1>2 DEF WellFormed
<1>5. ASSUME NEW n \in Nodes, NEW i \in DOMAIN graph.inputs[n]
      PROVE  /\ graph.inputs[n][i] \in Nodes /\ graph.inputs[n][i] < n
             /\ graph.kind[graph.inputs[n][i]] # "action"
  <2>1. i \in 1 .. Len(graph.inputs[n])
    BY <1>4
  <2>2. graph.inputs[n][i] \in 1 .. n - 1
    BY <1>1, <1>2, <2>1 DEF WellFormed
  <2> QED BY <1>1, <1>2, <2>1, <2>2 DEF WellFormed
<1>6. \A n \in Nodes : IsInjective(graph.inputs[n])
  BY <1>1, <1>2 DEF WellFormed
<1>7. graph.result \in Nodes /\ graph.kind[graph.result] \notin {"timeout", "action"}
  BY <1>1, <1>2 DEF WellFormed
<1>8. \A n \in Nodes : \A i, j \in DOMAIN Inputs[n] : Inputs[n][i] = Inputs[n][j] => i = j
  BY <1>6 DEF Inputs, IsInjective
<1>9. \A n \in Nodes : \A i \in DOMAIN Inputs[n] : Inputs[n][i] \in Cells /\ Inputs[n][i] < n
  BY <1>5 DEF Inputs, Kind, Cells
<1>10. \A n \in Nodes : n \in Nat /\ Kind[n] \in Kinds /\ (n \in Cells <=> Kind[n] # "action")
  BY <1>2, <1>3 DEF Kind, Cells
<1> QED BY <1>1, <1>2, <1>4, <1>7, <1>8, <1>9, <1>10 DEF Kind, Inputs, Result, Cells

\* Which nodes have inputs.
LEMMA InputFacts ==
    ASSUME graph \in Graphs, NEW n \in Nodes
    PROVE  /\ Kind[n] = "rpc" => Inputs[n] = <<>>
           /\ Kind[n] \in {"derived", "action"} => Inputs[n] # <<>>
           /\ Kind[n] \in {"async", "timeout"} => Len(Inputs[n]) = 1 /\ 1 \in DOMAIN Inputs[n]
           /\ Kind[n] = "timeout" => Kind[Inputs[n][1]] = "guarded"
<1>1. WellFormed(graph) /\ n \in 1 .. Len(graph.kind)
  BY GraphsAssumption DEF Nodes
<1>2. Inputs[n] \in Seq(Nodes)
  BY GraphFacts
<1>3. Len(Inputs[n]) = 1 => 1 \in DOMAIN Inputs[n]
  BY <1>2
<1> QED BY <1>1, <1>3 DEF WellFormed, Kind, Inputs

LEMMA SameGraph ==
    ASSUME UNCHANGED graph
    PROVE  /\ Kind' = Kind /\ Inputs' = Inputs /\ Result' = Result
           /\ Nodes' = Nodes /\ Cells' = Cells /\ Frames' = Frames
BY DEF Kind, Inputs, Result, Nodes, Cells, Frames

\* The stack without its top, and what is pushed on it.
LEMMA StackFacts ==
    ASSUME TypeOK
    PROVE  /\ stack \in Seq(Frames) /\ Len(stack) \in Nat /\ DOMAIN stack = 1 .. Len(stack)
           /\ stack # <<>> => /\ Len(stack) \in Nat \ {0} /\ Top \in Frames
                              /\ Below \in Seq(Frames) /\ Len(Below) = Len(stack) - 1
                              /\ \A i \in 1 .. Len(stack) - 1 : Below[i] = stack[i]
<1>1. stack \in Seq(Frames) /\ Len(stack) \in Nat /\ DOMAIN stack = 1 .. Len(stack)
  BY DEF TypeOK, Frames
<1>2. ASSUME stack # <<>>
      PROVE  /\ Len(stack) \in Nat \ {0} /\ Top \in Frames
             /\ Below \in Seq(Frames) /\ Len(Below) = Len(stack) - 1
             /\ \A i \in 1 .. Len(stack) - 1 : Below[i] = stack[i]
  BY <1>1, <1>2 DEF Top, Below
<1> QED BY <1>1, <1>2

LEMMA PushFacts ==
    ASSUME NEW S, NEW q \in Seq(S), NEW f \in S
    PROVE  /\ Append(q, f) \in Seq(S) /\ Len(Append(q, f)) = Len(q) + 1 /\ Len(q) \in Nat
           /\ DOMAIN q = 1 .. Len(q) /\ DOMAIN Append(q, f) = 1 .. Len(q) + 1
           /\ \A i \in 1 .. Len(q) : Append(q, f)[i] = q[i]
           /\ Append(q, f)[Len(q) + 1] = f
OBVIOUS

LEMMA PushTwoFacts ==
    ASSUME NEW S, NEW q \in Seq(S), NEW f \in S, NEW g \in S
    PROVE  /\ q \o <<f, g>> = Append(Append(q, f), g)
           /\ q \o <<f, g>> \in Seq(S)
OBVIOUS

LEMMA FrameType ==
    ASSUME NEW op \in {"register", "evaluate", "update", "track", "giveUp"},
           NEW n \in Nodes \cup {Final}, NEW next \in Nat, NEW size \in Nat
    PROVE  Frame(op, n, next, size) \in Frames
BY DEF Frame, Frames
-----------------------------------------------------------------------------
(* Every step is one of nine moves. *)

Starts(c) == is_rpc_started_' = IF Kind[c] \in {"rpc", "guarded"} THEN is_rpc_started_ \cup {c}
                                                                  ELSE is_rpc_started_

\* c is created, or its update is on top; nothing else is in flight for it.
ByCreation(c) == /\ phase = "build" /\ stack = <<>> /\ Kind[c] \in {"rpc", "guarded"}
                 /\ Inputs[c] = <<>> /\ c = created + 1 /\ created' = c
                 /\ Starts(c) /\ flights[c] = 0

ByUpdate(c) == /\ Running("update") /\ Top.of = c /\ Kind[c] \in {"derived", "guarded", "async"}
               /\ Starts(c) /\ flights[c] = 0
               /\ Kind[c] = "guarded" => c \notin is_rpc_started_
               /\ UNCHANGED created

ByGivingUp(c) == /\ Running("giveUp") /\ Kind[c] = "timeout" /\ Inputs[c][1] = Top.of
                 /\ flights[c] = 0 /\ UNCHANGED <<created, is_rpc_started_>>

ByResolution(c) == /\ stack = <<>> /\ phase # "build" /\ flights[c] = 1
                   /\ UNCHANGED <<created, is_rpc_started_>>

\* c becomes ready.
Settle(c, callers) ==
    /\ c \in Cells /\ ~IsReady(c) /\ phase # "released" /\ created \in Nat /\ c <= created'
    /\ \E result \in Ready : status' = [status EXCEPT ![c] = result]
    /\ flights' = [flights EXCEPT ![c] = 0]
    /\ stack' = Append(callers, Evaluation(c))
    /\ UNCHANGED <<updatables_, phase, answered, useAfterRelease>>
    /\ \/ ByCreation(c) /\ callers = <<>>
       \/ ByUpdate(c) /\ callers = Below
       \/ ByGivingUp(c) /\ callers = Below
       \/ ByResolution(c) /\ callers = <<>>
       \/ /\ ByUpdate(c) /\ Kind[c] = "async"
          /\ callers = Append(Below, Frame("track", c, 0, 0))
       \/ /\ ByResolution(c) /\ Kind[c] \in {"guarded", "async"}
          /\ callers = <<Frame("giveUp", c, 0, 0)>>

\* An rpc that will set c is sent.
Call(c) ==
    /\ c \in Cells /\ ~IsReady(c) /\ phase # "released" /\ c <= created'
    /\ flights' = [flights EXCEPT ![c] = 1]
    /\ UNCHANGED <<status, updatables_, phase, answered, useAfterRelease>>
    /\ \/ ByCreation(c) /\ stack' = <<>>
       \/ ByUpdate(c) /\ Kind[c] \in {"guarded", "async"} /\ stack' = Below

NewNode(n) ==
    /\ phase = "build" /\ stack = <<>> /\ n = created + 1 /\ n \in Nodes
    /\ created' = n
    /\ \/ /\ Kind[n] \in ListenerKinds /\ Inputs[n] # <<>>
          /\ stack' = <<Frame("register", n, 1, Len(Inputs[n]))>>
       \/ Kind[n] = "timeout" /\ stack' = <<>>
    /\ UNCHANGED <<status, is_rpc_started_, flights, updatables_, phase, answered, useAfterRelease>>

UpdateReturns ==
    /\ Running("update") /\ Top.of \in Nodes
    /\ \/ Kind[Top.of] = "action" \/ IsReady(Top.of)
       \/ Kind[Top.of] = "derived" /\ ~AllReady(Top.of)
       \/ Kind[Top.of] = "guarded" /\ (Top.of \in is_rpc_started_ \/ ~AllReady(Top.of))
    /\ stack' = Below
    /\ UNCHANGED <<created, status, is_rpc_started_, flights, updatables_, phase, answered,
                   useAfterRelease>>

\* What runs on below a cell that was set: the rest of a giving up, a tracking.
CallerEnds ==
    /\ Running("giveUp") \/ Running("track")
    /\ useAfterRelease' = (useAfterRelease \/ phase = "released")
    /\ stack' = Below
    /\ UNCHANGED <<created, status, is_rpc_started_, flights, updatables_, phase, answered>>

\* A frame of the stack, and what is known of its update when it is on top.
LEMMA TopFacts ==
    ASSUME IInv, stack # <<>>
    PROVE  /\ Len(stack) \in DOMAIN stack /\ Top = stack[Len(stack)]
           /\ Top.op = "register" => RegisterOk(Len(stack))
           /\ Top.op = "evaluate" => EvaluateOk(Len(stack))
           /\ Top.op = "update" => UpdateOk(Len(stack)) /\ Pending(Top.of)
           /\ Top.op = "giveUp" => GiveUpOk(Len(stack))
<1>1. Len(stack) \in DOMAIN stack /\ Top = stack[Len(stack)]
  BY StackFacts DEF IInv, Top
<1> QED BY <1>1 DEF IInv, FramesOk, FrameOk, Op, Of, Pending

LEMMA UpdateMoves ==
    ASSUME IInv, Update
    PROVE  \/ \E c \in Cells : Call(c) \/ \E callers : Settle(c, callers)
           \/ UpdateReturns
<1> DEFINE n == Top.of
<1>1. /\ TypeOK /\ graph \in Graphs /\ stack # <<>> /\ Top.op = "update" /\ n # Final
      /\ Len(stack) \in DOMAIN stack /\ UpdateOk(Len(stack)) /\ Pending(n)
  BY TopFacts DEF Update, Running, IInv, TypeOK
<1>2. /\ n \in 1 .. created /\ created \in 0 .. Len(Kind) /\ n \in Nodes /\ n <= created
      /\ Kind[n] \in ListenerKinds
  BY <1>1, GraphFacts DEF UpdateOk, Of, Top, TypeOK
<1>3. phase # "released"
  BY <1>1 DEF UpdateOk
<1>4. flights \in [Cells -> Nat] /\ created \in Nat
  BY <1>1, <1>2, GraphFacts DEF TypeOK
<1>5. UNCHANGED <<created, updatables_, phase, answered, useAfterRelease>>
  BY DEF Update
<1>6. n \in Cells => (Kind[n] = "async" => flights[n] = 0 /\ ~IsReady(n))
  BY <1>1 DEF IInv, AsyncOk, Awaits
<1>7. n \in Cells => (Kind[n] = "guarded" /\ n \notin is_rpc_started_ => flights[n] = 0 /\ ~IsReady(n))
  BY <1>4 DEF IInv, CellsOk
<1>8. n \in Cells => (Kind[n] = "derived" => flights[n] = 0)
  BY <1>4 DEF IInv, CellsOk
<1>9. Kind[n] # "action" => n \in Cells
  BY <1>1, <1>2, GraphFacts
<1>10. Running("update")
  BY DEF Update
<1>11. flights[n] = 0 /\ n \in Cells => flights = [flights EXCEPT ![n] = 0]
                                      /\ [flights EXCEPT ![n] = @ + 1] = [flights EXCEPT ![n] = 1]
  BY <1>4
<1> HIDE DEF n
<1>12. CASE Kind[n] = "action"
  BY <1>2, <1>5, <1>10, <1>12 DEF Update, Return, UpdateReturns, n
<1>13. CASE Kind[n] = "derived"
  <2>1. UpdateDerived(n)
    BY <1>13 DEF Update, n
  <2>2. CASE (IsReady(n) \/ ~AllReady(n)) /\ Return
    BY <1>2, <1>5, <1>10, <1>13, <2>2 DEF Return, UpdateReturns, n
  <2>3. ASSUME ~IsReady(n), NEW result \in Ready, SetCell(n, result, Below),
               UNCHANGED <<is_rpc_started_, flights>>
        PROVE  Settle(n, Below)
    <3>1. ByUpdate(n)
      BY <1>5, <1>8, <1>9, <1>10, <1>13, <2>3 DEF ByUpdate, Starts, n
    <3> QED BY <1>2, <1>3, <1>4, <1>5, <1>8, <1>9, <1>11, <1>13, <2>3, <3>1 DEF Settle, SetCell
  <2> QED BY <1>9, <1>13, <2>1, <2>2, <2>3 DEF UpdateDerived
<1>14. ASSUME Kind[n] \in {"guarded", "async"}, ~IsReady(n), Starts(n), StartRpc(n, Below),
              Kind[n] = "guarded" => n \notin is_rpc_started_
       PROVE  Settle(n, Below) \/ Call(n)
  <2>1. n \in Cells /\ flights[n] = 0
    BY <1>6, <1>7, <1>9, <1>14
  <2>2. ByUpdate(n)
    BY <1>5, <1>10, <1>14, <2>1 DEF ByUpdate, n
  <2>3. CASE flights' = [flights EXCEPT ![n] = @ + 1] /\ stack' = Below /\ UNCHANGED status
    BY <1>2, <1>3, <1>5, <1>11, <1>14, <2>1, <2>2, <2>3 DEF Call
  <2>4. CASE SetCell(n, "error", Below) /\ UNCHANGED flights
    BY <1>2, <1>3, <1>4, <1>5, <1>11, <1>14, <2>1, <2>2, <2>4 DEF Settle, SetCell, Ready
  <2> QED BY <1>14, <2>3, <2>4 DEF StartRpc
<1>15. CASE Kind[n] = "guarded"
  <2>1. UpdateGuarded(n)
    BY <1>15 DEF Update, n
  <2>2. CASE (IsReady(n) \/ n \in is_rpc_started_ \/ ~AllReady(n)) /\ Return
    BY <1>2, <1>5, <1>10, <1>15, <2>2 DEF Return, UpdateReturns, n
  <2>3. CASE /\ ~IsReady(n) /\ n \notin is_rpc_started_
             /\ is_rpc_started_' = is_rpc_started_ \cup {n} /\ StartRpc(n, Below)
    BY <1>9, <1>14, <1>15, <2>3 DEF Starts
  <2> QED BY <2>1, <2>2, <2>3 DEF UpdateGuarded
<1>16. CASE Kind[n] = "async"
  <2>1. UpdateAsync(n)
    BY <1>16 DEF Update, n
  <2>2. CASE IsReady(n) /\ Return
    BY <1>2, <1>5, <1>10, <2>2 DEF Return, UpdateReturns, n
  <2>3. CASE ~IsReady(n) /\ StartRpc(n, Below) /\ UNCHANGED is_rpc_started_
    BY <1>9, <1>14, <1>16, <2>3 DEF Starts
  <2> DEFINE tracking == Append(Below, Frame("track", n, 0, 0))
  <2>4. CASE ~IsReady(n) /\ SetCell(n, "value", tracking) /\ UNCHANGED <<flights, is_rpc_started_>>
    <3>1. ByUpdate(n)
      BY <1>5, <1>6, <1>9, <1>10, <1>16, <2>4 DEF ByUpdate, Starts, n
    <3>2. Settle(n, tracking)
      BY <1>2, <1>3, <1>4, <1>5, <1>6, <1>9, <1>11, <1>16, <2>4, <3>1 DEF Settle, SetCell, Ready
    <3> QED BY <1>9, <1>16, <3>2
  <2> QED BY <2>1, <2>2, <2>3, <2>4 DEF UpdateAsync
<1> QED BY <1>2, <1>12, <1>13, <1>15, <1>16 DEF ListenerKinds

LEMMA CreateMoves ==
    ASSUME IInv, Create
    PROVE  \/ \E c \in Cells : Settle(c, <<>>) \/ Call(c)
           \/ \E n \in Nodes : NewNode(n)
<1> DEFINE n == created + 1
<1>1. /\ TypeOK /\ graph \in Graphs /\ phase = "build" /\ stack = <<>> /\ created' = n
      /\ UNCHANGED <<updatables_, phase, answered, useAfterRelease>>
  BY DEF Create, IInv, TypeOK
<1>2. created \in Nat /\ n \in Nodes /\ ~(n <= created)
  BY <1>1, GraphFacts DEF Create, TypeOK
<1>3. Kind[n] # "action" => n \in Cells /\ ~IsReady(n) /\ flights[n] = 0
  <2>1. n \in Cells => ~IsReady(n) /\ ~(flights[n] > 0) /\ flights[n] \in Nat
    BY <1>1, <1>2 DEF IInv, CellsOk, TypeOK
  <2> QED BY <1>1, <1>2, <2>1, GraphFacts
<1>4. n \in Cells /\ flights[n] = 0 => flights = [flights EXCEPT ![n] = 0]
                                      /\ [flights EXCEPT ![n] = @ + 1] = [flights EXCEPT ![n] = 1]
  BY <1>1 DEF TypeOK
<1>5. n = created + 1 /\ n <= n
  BY <1>2
<1> HIDE DEF n
<1>6. CASE /\ Kind[n] = "rpc" \/ (Kind[n] = "guarded" /\ Inputs[n] = <<>>)
           /\ StartRpc(n, <<>>) /\ is_rpc_started_' = is_rpc_started_ \cup {n}
  <2>1. ByCreation(n) /\ Kind[n] \in {"rpc", "guarded"}
    BY <1>1, <1>2, <1>3, <1>5, <1>6, InputFacts DEF ByCreation, Starts
  <2>2. CASE flights' = [flights EXCEPT ![n] = @ + 1] /\ stack' = <<>> /\ UNCHANGED status
    BY <1>1, <1>3, <1>4, <1>5, <1>6, <2>1, <2>2 DEF Call
  <2>3. CASE SetCell(n, "error", <<>>) /\ UNCHANGED flights
    BY <1>1, <1>2, <1>3, <1>4, <1>5, <1>6, <2>1, <2>3 DEF Settle, SetCell, Ready
  <2> QED BY <1>3, <1>6, <2>2, <2>3 DEF StartRpc
<1>7. CASE \/ /\ Kind[n] \in ListenerKinds /\ Inputs[n] # <<>>
              /\ stack' = <<Frame("register", n, 1, Len(Inputs[n]))>>
              /\ UNCHANGED <<status, flights, is_rpc_started_>>
           \/ Kind[n] = "timeout" /\ UNCHANGED <<status, flights, stack, is_rpc_started_>>
  BY <1>1, <1>2, <1>5, <1>7 DEF NewNode
<1> QED BY <1>6, <1>7 DEF Create, ListenerKinds, n

LEMMA GiveUpMoves ==
    ASSUME IInv, GiveUp
    PROVE  (\E c \in Cells : Settle(c, Below)) \/ CallerEnds
<1>1. /\ TypeOK /\ graph \in Graphs /\ Running("giveUp") /\ GiveUpOk(Len(stack))
      /\ Of(Len(stack)) = Top.of
  BY TopFacts DEF GiveUp, Running, IInv, TypeOK, Of
<1>2. CASE stack' = Below /\ UNCHANGED status
  BY <1>1, <1>2 DEF GiveUp, CallerEnds
<1>3. ASSUME phase # "released", NEW c \in TimeoutCellsOf(Top.of), SetCell(c, "value", Below)
      PROVE  c \in Cells /\ Settle(c, Below)
  <2>1. c \in 1 .. created /\ Kind[c] = "timeout" /\ Inputs[c][1] = Top.of
    BY DEF TimeoutCellsOf
  <2>2. created \in Nat /\ created' = created /\ c \in Nodes /\ c \in Cells /\ c <= created'
    <3>1. created \in 0 .. Len(Kind) /\ created' = created
      BY <1>1 DEF GiveUp, TypeOK
    <3> QED BY <1>1, <2>1, <3>1, GraphFacts
  <2>3. ~IsReady(c)
    BY <1>1, <1>3 DEF GiveUpOk
  <2>4. flights \in [Cells -> Nat] /\ flights[c] = 0
    <3>1. flights \in [Cells -> Nat]
      BY <1>1 DEF TypeOK
    <3>2. ~(flights[c] > 0)
      BY <2>1, <2>2 DEF IInv, CellsOk
    <3> QED BY <2>2, <3>1, <3>2
  <2>5. flights' = [flights EXCEPT ![c] = 0]
    BY <2>4 DEF GiveUp
  <2>6. ByGivingUp(c) /\ useAfterRelease' = useAfterRelease
    BY <1>1, <1>3, <2>1, <2>4 DEF GiveUp, ByGivingUp, TypeOK
  <2> QED BY <1>3, <2>2, <2>3, <2>5, <2>6 DEF GiveUp, Settle, SetCell, Ready
<1> QED BY <1>2, <1>3 DEF GiveUp

LEMMA ResolutionMoves ==
    ASSUME IInv, NEW c \in Cells, OnResponse(c) \/ OnLastTimeout(c)
    PROVE  Settle(c, <<>>) \/ Settle(c, <<Frame("giveUp", c, 0, 0)>>)
<1>1. /\ TypeOK /\ graph \in Graphs /\ stack = <<>> /\ phase # "build" /\ phase # "released"
      /\ UNCHANGED <<created, is_rpc_started_, updatables_, phase, answered, useAfterRelease>>
  BY DEF OnResponse, OnLastTimeout, Waiting, IInv, TypeOK
<1>2. flights[c] = 1 /\ ~IsReady(c) /\ c <= created /\ created \in Nat
  BY <1>1, GraphFacts DEF OnResponse, OnLastTimeout, IInv, CellsOk, TypeOK
<1>3. flights' = [flights EXCEPT ![c] = 0]
  BY <1>1, <1>2 DEF OnResponse, OnLastTimeout, TypeOK
<1>4. ByResolution(c)
  BY <1>1, <1>2 DEF ByResolution
<1>5. CASE OnResponse(c)
  BY <1>1, <1>2, <1>3, <1>4, <1>5 DEF OnResponse, Settle, SetCell
<1>6. CASE OnLastTimeout(c)
  BY <1>1, <1>2, <1>3, <1>4, <1>6 DEF OnLastTimeout, Settle, SetCell, Ready
<1> QED BY <1>5, <1>6

LEMMA Moves ==
    ASSUME IInv, Next
    PROVE  /\ UNCHANGED graph
           /\ \/ \E c \in Cells : Call(c) \/ \E callers : Settle(c, callers)
              \/ \E n \in Nodes : NewNode(n)
              \/ Register \/ Evaluate \/ UpdateReturns \/ UpdateFinal \/ EndBuild \/ CallerEnds
<1>1. Track => CallerEnds
  BY DEF Track, CallerEnds
<1> QED BY <1>1, UpdateMoves, CreateMoves, GiveUpMoves, ResolutionMoves DEF Next, TurnStep, Resolution
-----------------------------------------------------------------------------
LEMMA SettleType ==
    ASSUME TypeOK, NEW c \in Cells, NEW callers, Settle(c, callers), UNCHANGED graph
    PROVE  /\ callers \in Seq(Frames) /\ Evaluation(c) \in Frames
           /\ TypeOK'
<1>1. graph \in Graphs /\ c \in Nodes
  BY GraphFacts DEF TypeOK
<1>2. updatables_[c] \in Seq(Nodes \cup {Final}) /\ Len(updatables_[c]) \in Nat
  BY DEF TypeOK
<1>3. /\ Evaluation(c) \in Frames
      /\ Frame("giveUp", c, 0, 0) \in Frames /\ Frame("track", c, 0, 0) \in Frames
  BY <1>1, <1>2, FrameType DEF Evaluation
<1>4. callers \in Seq(Frames)
  <2>1. <<>> \in Seq(Frames) /\ <<Frame("giveUp", c, 0, 0)>> \in Seq(Frames)
    BY <1>3
  <2>2. stack # <<>> => Below \in Seq(Frames) /\ Append(Below, Frame("track", c, 0, 0)) \in Seq(Frames)
    BY <1>3, StackFacts, PushFacts
  <2> QED BY <2>1, <2>2 DEF Settle, ByUpdate, ByGivingUp, Running
<1>5. stack' \in Seq(Frames)
  BY <1>3, <1>4, PushFacts DEF Settle
<1>6. created' \in 0 .. Len(Kind) /\ is_rpc_started_' \subseteq Cells
  BY <1>1, GraphFacts DEF TypeOK, Settle, ByCreation, ByUpdate, ByGivingUp, ByResolution, Starts
<1>7. status' \in [Cells -> Ready \cup {"empty"}] /\ flights' \in [Cells -> Nat]
  BY DEF TypeOK, Settle
<1>8. TypeOK'
  BY <1>5, <1>6, <1>7, SameGraph DEF TypeOK, Settle, Frames
<1> QED BY <1>3, <1>4, <1>8

LEMMA CallType ==
    ASSUME TypeOK, NEW c \in Cells, Call(c), UNCHANGED graph
    PROVE  TypeOK'
<1>1. graph \in Graphs /\ c \in Nodes
  BY GraphFacts DEF TypeOK
<1>2. stack' \in Seq(Frames)
  <2>1. stack # <<>> => Below \in Seq(Frames)
    BY StackFacts
  <2>2. <<>> \in Seq(Frames)
    OBVIOUS
  <2> QED BY <2>1, <2>2 DEF Call, ByUpdate, Running
<1>3. created' \in 0 .. Len(Kind) /\ is_rpc_started_' \subseteq Cells
  BY <1>1, GraphFacts DEF TypeOK, Call, ByCreation, ByUpdate, Starts
<1>4. flights' \in [Cells -> Nat]
  BY DEF TypeOK, Call
<1> QED BY <1>2, <1>3, <1>4, SameGraph DEF TypeOK, Call, Frames

\* The top frame moves on to its next listener or input.
Onward == [Top EXCEPT !.next = @ + 1]

LEMMA OnwardFacts ==
    ASSUME Top \in Frames
    PROVE  /\ Onward \in Frames
           /\ Onward.op = Top.op /\ Onward.of = Top.of /\ Onward.size = Top.size
           /\ Onward.next = Top.next + 1 /\ Top.next \in Nat /\ Top.size \in Nat
<1>1. PICK f \in Frames : f = Top
  OBVIOUS
<1>2. [f EXCEPT !.next = @ + 1] = [op |-> f.op, of |-> f.of, next |-> f.next + 1, size |-> f.size]
  BY DEF Frames
<1>3. Onward = [op |-> f.op, of |-> f.of, next |-> f.next + 1, size |-> f.size]
  BY <1>1, <1>2 DEF Onward
<1> QED BY <1>1, <1>3 DEF Frames

\* A notification is pushed on the frame it comes from.
Notifies(n) == /\ stack # <<>> /\ Top.next <= Top.size
               /\ stack' = Append(Append(Below, Onward), Frame("update", n, 0, 0))

LEMMA NotifyFacts ==
    ASSUME TypeOK, NEW n \in Nodes \cup {Final}, Notifies(n)
    PROVE  /\ Onward \in Frames /\ stack' \in Seq(Frames)
           /\ Len(stack') = Len(stack) + 1 /\ DOMAIN stack' = 1 .. Len(stack) + 1
           /\ \A i \in 1 .. Len(stack) - 1 : stack'[i] = stack[i]
           /\ stack'[Len(stack)] = Onward
           /\ stack'[Len(stack) + 1] = Frame("update", n, 0, 0)
<1>1. /\ Len(stack) \in Nat \ {0} /\ Top \in Frames
      /\ Below \in Seq(Frames) /\ Len(Below) = Len(stack) - 1
      /\ \A i \in 1 .. Len(stack) - 1 : Below[i] = stack[i]
  <2>1. stack # <<>>
    BY DEF Notifies
  <2> QED BY <2>1, StackFacts
<1>2. Onward \in Frames
  BY <1>1, OnwardFacts
<1>3. Frame("update", n, 0, 0) \in Frames
  BY FrameType
<1>4. PICK q \in Seq(Frames) : q = Append(Below, Onward)
  BY <1>1, <1>2, PushFacts
<1>5. /\ Len(q) = Len(stack) /\ q[Len(stack)] = Onward
      /\ \A i \in 1 .. Len(stack) - 1 : q[i] = stack[i]
  BY <1>1, <1>2, <1>4, PushFacts
<1>6. stack' = Append(q, Frame("update", n, 0, 0))
  BY <1>4 DEF Notifies
<1>7. /\ stack' \in Seq(Frames)
      /\ Len(stack') = Len(stack) + 1 /\ DOMAIN stack' = 1 .. Len(stack) + 1
      /\ \A i \in 1 .. Len(stack) : stack'[i] = q[i]
      /\ stack'[Len(stack) + 1] = Frame("update", n, 0, 0)
  BY <1>3, <1>5, <1>6, PushFacts
<1> QED BY <1>1, <1>2, <1>5, <1>7

\* The last frame is over.
LEMMA PopFacts ==
    ASSUME TypeOK, stack # <<>>, stack' = Below
    PROVE  /\ stack' \in Seq(Frames) /\ DOMAIN stack' = 1 .. Len(stack) - 1
           /\ Len(stack') = Len(stack) - 1 /\ Len(stack) \in Nat \ {0}
           /\ \A i \in 1 .. Len(stack) - 1 : stack'[i] = stack[i]
<1>1. Len(stack) \in Nat \ {0}
  BY StackFacts
<1>2. /\ Below \in Seq(Frames) /\ Len(Below) = Len(stack) - 1
      /\ \A i \in 1 .. Len(stack) - 1 : Below[i] = stack[i]
  BY StackFacts
<1> QED BY <1>1, <1>2

\* Evaluate ends, reads what is gone, or notifies the next listener.
EvaluateEnds == /\ Running("evaluate") /\ Top.next > Top.size /\ stack' = Below
                /\ UNCHANGED useAfterRelease

EvaluateGone == /\ Running("evaluate") /\ Top.next <= Top.size /\ phase = "released"
                /\ stack' = <<>> /\ useAfterRelease' = TRUE

EvaluateNext(n) == /\ Running("evaluate") /\ phase # "released" /\ Notifies(n)
                   /\ Top.of \in Cells /\ Top.next \in DOMAIN updatables_[Top.of]
                   /\ n = updatables_[Top.of][Top.next]
                   /\ UNCHANGED useAfterRelease

LEMMA EvaluateMoves ==
    ASSUME IInv, Evaluate
    PROVE  /\ UNCHANGED <<created, status, is_rpc_started_, flights, updatables_, phase, answered>>
           /\ EvaluateEnds \/ EvaluateGone \/ \E n \in Nodes \cup {Final} : EvaluateNext(n)
<1>1. TypeOK /\ stack # <<>> /\ EvaluateOk(Len(stack)) /\ Top = stack[Len(stack)]
  BY TopFacts DEF Evaluate, Running, IInv
<1>2. ASSUME Top.next <= Top.size
      PROVE  /\ Top.of \in Cells /\ Top.next \in DOMAIN updatables_[Top.of]
             /\ updatables_[Top.of][Top.next] \in Nodes \cup {Final}
  <2>1. /\ Top.of \in Cells /\ Top.size = Len(updatables_[Top.of])
        /\ Top.next \in 1 .. Top.size + 1
    BY <1>1 DEF EvaluateOk, Of
  <2>2. updatables_[Top.of] \in Seq(Nodes \cup {Final})
    BY <1>1, <2>1 DEF TypeOK
  <2>3. Top.next \in 1 .. Len(updatables_[Top.of])
    BY <1>2, <2>1, <2>2
  <2> QED BY <2>1, <2>2, <2>3
<1>3. ASSUME Top.next <= Top.size, phase # "released", UNCHANGED useAfterRelease,
             stack' = Below \o <<[Top EXCEPT !.next = @ + 1],
                                 Frame("update", updatables_[Top.of][Top.next], 0, 0)>>
      PROVE  \E n \in Nodes \cup {Final} : EvaluateNext(n)
  <2>1. PICK n \in Nodes \cup {Final} : n = updatables_[Top.of][Top.next]
    BY <1>2, <1>3
  <2>2. Onward \in Frames /\ Frame("update", n, 0, 0) \in Frames /\ Below \in Seq(Frames)
    BY <1>1, StackFacts, FrameType, OnwardFacts
  <2>3. stack' = Append(Append(Below, Onward), Frame("update", n, 0, 0))
    BY <1>3, <2>1, <2>2, PushTwoFacts DEF Onward
  <2> QED BY <1>1, <1>2, <1>3, <2>1, <2>3 DEF EvaluateNext, Notifies, Evaluate
<1> QED BY <1>3 DEF Evaluate, EvaluateEnds, EvaluateGone

\* Register ends, notifies at once, or puts the node in the list of the input.
RegisterEnds == /\ Running("register") /\ Top.next > Top.size /\ stack' = Below
                /\ UNCHANGED updatables_

RegisterNotifies(n, c) == /\ n = Top.of /\ c = Inputs[n][Top.next] /\ IsReady(c)
                          /\ Notifies(n) /\ UNCHANGED updatables_

RegisterLists(n, c) == /\ n = Top.of /\ c = Inputs[n][Top.next] /\ ~IsReady(c)
                       /\ updatables_' = [updatables_ EXCEPT ![c] = Append(@, n)]
                       /\ stack' = <<Onward>>

LEMMA RegisterMoves ==
    ASSUME IInv, Register
    PROVE  /\ UNCHANGED <<created, status, is_rpc_started_, flights, phase, answered, useAfterRelease>>
           /\ Running("register") /\ Len(stack) = 1 /\ Onward \in Frames
           /\ \/ RegisterEnds
              \/ /\ Top.next <= Top.size /\ Top.next \in DOMAIN Inputs[Top.of]
                 /\ \E n \in Nodes, c \in Cells : RegisterNotifies(n, c) \/ RegisterLists(n, c)
<1>1. /\ TypeOK /\ graph \in Graphs /\ stack # <<>> /\ RegisterOk(Len(stack))
      /\ Top = stack[Len(stack)] /\ Top \in Frames
      /\ UNCHANGED <<created, status, is_rpc_started_, flights, phase, answered, useAfterRelease>>
  BY TopFacts, StackFacts DEF Register, Running, IInv, TypeOK
<1>2. Onward \in Frames /\ Len(stack) = 1 /\ Below = <<>>
  <2>1. Len(stack) = 1 /\ Len(Below) = 0 /\ Below \in Seq(Frames)
    BY <1>1, StackFacts DEF RegisterOk
  <2> QED BY <1>1, <2>1, OnwardFacts
<1>3. /\ Top.of \in Nodes /\ Top.size = Len(Inputs[Top.of]) /\ Top.next \in 1 .. Top.size + 1
  BY <1>1 DEF RegisterOk, Of
<1>4. ASSUME ~(Top.next > Top.size), NEW c, c = Inputs[Top.of][Top.next],
             Listen(Top.of, c, Append(Below, Onward))
      PROVE  /\ Top.next <= Top.size /\ Top.next \in DOMAIN Inputs[Top.of]
             /\ c \in Cells /\ (RegisterNotifies(Top.of, c) \/ RegisterLists(Top.of, c))
  <2>1. Inputs[Top.of] \in Seq(Nodes) /\ Top.size \in Nat
    BY <1>1, <1>3, GraphFacts
  <2>2. Top.next <= Top.size /\ Top.next \in DOMAIN Inputs[Top.of]
    BY <1>3, <1>4, <2>1
  <2>3. c \in Cells
    BY <1>1, <1>3, <1>4, <2>2, GraphFacts
  <2>4. Append(Below, Onward) = <<Onward>>
    BY <1>2
  <2> QED BY <1>1, <1>4, <2>2, <2>3, <2>4 DEF Listen, RegisterNotifies, RegisterLists, Notifies
<1>5. CASE Top.next > Top.size
  BY <1>1, <1>2, <1>5 DEF Register, RegisterEnds
<1>6. CASE ~(Top.next > Top.size)
  <2>1. Listen(Top.of, Inputs[Top.of][Top.next], Append(Below, Onward))
    BY <1>6 DEF Register, Onward
  <2> QED BY <1>1, <1>2, <1>3, <1>4, <1>6, <2>1 DEF Register
<1> QED BY <1>5, <1>6
-----------------------------------------------------------------------------
LEMMA TypeStep == IInv /\ [Next]_vars => TypeOK'
<1> SUFFICES ASSUME IInv, [Next]_vars PROVE TypeOK'
  OBVIOUS
<1>0. TypeOK /\ graph \in Graphs
  BY DEF IInv, TypeOK
<1>1. CASE UNCHANGED vars
  BY <1>0, <1>1 DEF TypeOK, vars, Cells, Nodes, Kind
<1>2. SUFFICES ASSUME Next PROVE TypeOK'
  BY <1>1
<1>3. UNCHANGED graph
  BY <1>2, Moves
<1>4. /\ Kind' = Kind /\ Inputs' = Inputs /\ Result' = Result
      /\ Nodes' = Nodes /\ Cells' = Cells /\ Frames' = Frames
  BY <1>3, SameGraph
<1>5. ASSUME stack' \in Seq(Frames), created' \in 0 .. Len(Kind),
             status' \in [Cells -> Ready \cup {"empty"}], is_rpc_started_' \subseteq Cells,
             flights' \in [Cells -> Nat], updatables_' \in [Cells -> Seq(Nodes \cup {Final})],
             phase' \in {"build", "open", "leaked", "released"}, answered' \in Nat,
             useAfterRelease' \in BOOLEAN
      PROVE  TypeOK'
  BY <1>0, <1>3, <1>4, <1>5 DEF TypeOK, Frames
<1>6. ASSUME NEW c \in Cells, Call(c) PROVE TypeOK'
  BY <1>0, <1>3, <1>6, CallType
<1>7. ASSUME NEW c \in Cells, NEW callers, Settle(c, callers) PROVE TypeOK'
  BY <1>0, <1>3, <1>7, SettleType
<1>8. ASSUME NEW n \in Nodes, NewNode(n) PROVE TypeOK'
  <2>1. Inputs[n] \in Seq(Nodes) /\ created' \in 0 .. Len(Kind)
    BY <1>0, <1>8, GraphFacts DEF NewNode
  <2>2. Frame("register", n, 1, Len(Inputs[n])) \in Frames
    BY <2>1, FrameType
  <2>3. <<>> \in Seq(Frames) /\ <<Frame("register", n, 1, Len(Inputs[n]))>> \in Seq(Frames)
    BY <2>2
  <2>4. stack' \in Seq(Frames)
    BY <1>8, <2>3 DEF NewNode
  <2> QED BY <1>0, <1>5, <1>8, <2>1, <2>4 DEF NewNode, TypeOK
<1>9. CASE Register
  <2>1. /\ UNCHANGED <<created, status, is_rpc_started_, flights, phase, answered, useAfterRelease>>
        /\ Running("register") /\ Onward \in Frames
    BY <1>9, RegisterMoves
  <2>2. CASE RegisterEnds
    <3>1. stack' \in Seq(Frames)
      BY <1>0, <2>2, PopFacts DEF RegisterEnds, Running
    <3> QED BY <1>0, <1>5, <2>1, <2>2, <3>1 DEF RegisterEnds, TypeOK
  <2>3. ASSUME NEW n \in Nodes, NEW c \in Cells, RegisterNotifies(n, c) PROVE TypeOK'
    <3>1. stack' \in Seq(Frames)
      BY <1>0, <2>3, NotifyFacts DEF RegisterNotifies
    <3> QED BY <1>0, <1>5, <2>1, <2>3, <3>1 DEF RegisterNotifies, TypeOK
  <2>4. ASSUME NEW n \in Nodes, NEW c \in Cells, RegisterLists(n, c) PROVE TypeOK'
    <3>1. updatables_' \in [Cells -> Seq(Nodes \cup {Final})]
      <4>1. updatables_[c] \in Seq(Nodes \cup {Final})
        BY <1>0 DEF TypeOK
      <4>2. Append(updatables_[c], n) \in Seq(Nodes \cup {Final})
        BY <4>1, PushFacts
      <4> QED BY <1>0, <2>4, <4>2 DEF RegisterLists, TypeOK
    <3>2. stack' \in Seq(Frames)
      BY <2>1, <2>4 DEF RegisterLists
    <3> QED BY <1>0, <1>5, <2>1, <3>1, <3>2 DEF TypeOK
  <2> QED BY <1>9, <2>2, <2>3, <2>4, RegisterMoves
<1>10. CASE Evaluate
  <2>1. UNCHANGED <<created, status, is_rpc_started_, flights, updatables_, phase, answered>>
    BY <1>10, EvaluateMoves
  <2>2. stack' \in Seq(Frames) /\ useAfterRelease' \in BOOLEAN
    <3>1. CASE EvaluateEnds
      BY <1>0, <3>1, PopFacts DEF EvaluateEnds, Running, TypeOK
    <3>2. CASE EvaluateGone
      BY <3>2 DEF EvaluateGone
    <3>3. ASSUME NEW n \in Nodes \cup {Final}, EvaluateNext(n)
          PROVE  stack' \in Seq(Frames) /\ useAfterRelease' \in BOOLEAN
      BY <1>0, <3>3, NotifyFacts DEF EvaluateNext, TypeOK
    <3> QED BY <1>10, <3>1, <3>2, <3>3, EvaluateMoves
  <2> QED BY <1>0, <1>5, <2>1, <2>2 DEF TypeOK
<1>11. CASE UpdateReturns \/ UpdateFinal \/ CallerEnds
  <2>0. stack # <<>> /\ stack' = Below
    BY <1>11 DEF UpdateReturns, UpdateFinal, CallerEnds, Running
  <2>1. stack' \in Seq(Frames)
    BY <1>0, <2>0, PopFacts
  <2>2. /\ UNCHANGED <<created, status, is_rpc_started_, flights, updatables_>>
        /\ phase' \in {phase, "released"} /\ answered' \in {answered, answered + 1}
        /\ useAfterRelease' \in BOOLEAN
    BY <1>0, <1>11 DEF UpdateReturns, UpdateFinal, CallerEnds, TypeOK
  <2> QED BY <1>0, <1>5, <2>1, <2>2 DEF TypeOK
<1>12. CASE EndBuild
  <2>1. updatables_' \in [Cells -> Seq(Nodes \cup {Final})]
    <3>1. Result \in Cells /\ updatables_[Result] \in Seq(Nodes \cup {Final})
      BY <1>0, GraphFacts DEF TypeOK
    <3>2. Append(updatables_[Result], Final) \in Seq(Nodes \cup {Final})
      BY <3>1, PushFacts
    <3> QED BY <1>0, <1>12, <3>2 DEF EndBuild, TypeOK
  <2>2. /\ phase' \in {"build", "open", "leaked", "released"} /\ answered' \in Nat
        /\ stack' \in Seq(Frames)
    BY <1>0, <1>12 DEF EndBuild, TypeOK, Frames
  <2> QED BY <1>0, <1>5, <1>12, <2>1, <2>2 DEF EndBuild, TypeOK
<1> QED BY <1>2, <1>6, <1>7, <1>8, <1>9, <1>10, <1>11, <1>12, Moves

\* What no step takes back.
LEMMA Stays ==
    ASSUME IInv, Next
    PROVE  /\ \A c \in Cells : IsReady(c) => /\ status'[c] = status[c]
                                             /\ updatables_'[c] = updatables_[c]
           /\ \A c \in Cells : ~IsReady(c) /\ status'[c] # status[c] =>
                  \E callers : Settle(c, callers)
           /\ is_rpc_started_ \subseteq is_rpc_started_'
           /\ stack # <<>> => /\ created' = created
                              /\ phase' = phase \/ UpdateFinal
           /\ phase # "build" => phase' # "build" /\ created' = created
           /\ created' \in {created, created + 1}
<1> USE DEF Call, Settle, ByCreation, ByUpdate, ByGivingUp, ByResolution, Starts, NewNode,
            UpdateReturns, CallerEnds
<1>0. TypeOK /\ Result \in Cells
  BY GraphFacts DEF IInv, TypeOK
<1>1. CASE Register
  <2>1. UNCHANGED <<created, status, is_rpc_started_, phase>>
    BY <1>1, RegisterMoves
  <2>2. \A c \in Cells : IsReady(c) => updatables_'[c] = updatables_[c]
    BY <1>0, <1>1, RegisterMoves DEF RegisterEnds, RegisterNotifies, RegisterLists, TypeOK
  <2> QED BY <2>1, <2>2
<1>2. CASE Evaluate
  BY <1>2, EvaluateMoves
<1>3. CASE EndBuild
  BY <1>0, <1>3 DEF EndBuild, TypeOK
<1>4. CASE UpdateFinal
  BY <1>4 DEF UpdateFinal
<1>5. ASSUME NEW c \in Cells, NEW callers, Settle(c, callers)
      PROVE  /\ \A d \in Cells : d # c => status'[d] = status[d]
             /\ ~IsReady(c) /\ UNCHANGED <<updatables_, phase>>
             /\ is_rpc_started_ \subseteq is_rpc_started_'
             /\ (stack # <<>> \/ phase # "build") => created' = created
             /\ created' \in {created, created + 1}
  BY <1>0, <1>5 DEF TypeOK, Running
<1>6. ASSUME NEW c \in Cells, Call(c)
      PROVE  /\ UNCHANGED <<status, updatables_, phase>>
             /\ is_rpc_started_ \subseteq is_rpc_started_'
             /\ (stack # <<>> \/ phase # "build") => created' = created
             /\ created' \in {created, created + 1}
  BY <1>0, <1>6 DEF TypeOK, Running
<1>7. CASE UpdateReturns \/ CallerEnds \/ (\E n \in Nodes : NewNode(n))
  BY <1>7
<1>8. CASE \E c \in Cells : \E callers : Settle(c, callers)
  <2> HIDE DEF Call, Settle, ByCreation, ByUpdate, ByGivingUp, ByResolution
  <2> QED BY <1>5, <1>8
<1>9. CASE \E c \in Cells : Call(c)
  <2> HIDE DEF Call, Settle, ByCreation, ByUpdate, ByGivingUp, ByResolution
  <2> QED BY <1>6, <1>9
<1> HIDE DEF Call, Settle, ByCreation, ByUpdate, ByGivingUp, ByResolution, Starts, NewNode,
             UpdateReturns, CallerEnds
<1> QED BY <1>1, <1>2, <1>3, <1>4, <1>7, <1>8, <1>9, Moves
-----------------------------------------------------------------------------
(* Where the frames of the next stack come from. *)

Kept(j) == j \in DOMAIN stack /\ j < Len(stack) /\ stack'[j] = stack[j]

MovedOn(j) == /\ j \in DOMAIN stack /\ j = Len(stack) /\ Top.next <= Top.size
              /\ Top.op \in {"register", "evaluate"} /\ stack'[j] = Onward

Told(j, n) == /\ j = Len(stack) + 1 /\ stack'[j] = Frame("update", n, 0, 0)
              /\ \/ Evaluate /\ EvaluateNext(n)
                 \/ Register /\ \E c \in Cells : RegisterNotifies(n, c)

Settled(j, c) == /\ j = Len(stack') /\ stack'[j] = Evaluation(c)
                 /\ \E callers : Settle(c, callers)

GivingUp(j, c) == /\ j = 1 /\ Kind[c] \in {"guarded", "async"}
                  /\ stack'[j] = Frame("giveUp", c, 0, 0)
                  /\ ByResolution(c) /\ Settle(c, <<Frame("giveUp", c, 0, 0)>>)

Tracking(j, c) == /\ Kind[c] = "async" /\ stack'[j] = Frame("track", c, 0, 0)
                  /\ \E callers : Settle(c, callers)

Registers(j, n) == /\ j = 1 /\ stack'[j] = Frame("register", n, 1, Len(Inputs[n]))
                   /\ NewNode(n) /\ Kind[n] \in ListenerKinds /\ Inputs[n] # <<>>

Comes(j) == \/ Kept(j) \/ MovedOn(j) \/ \E n \in Nodes \cup {Final} : Told(j, n)
            \/ \E c \in Cells : Settled(j, c) \/ GivingUp(j, c) \/ Tracking(j, c)
            \/ \E n \in Nodes : Registers(j, n)

\* No frame but the top one goes, unless the cell evaluated is gone.
Goes(i) == i < Len(stack) => (i \in DOMAIN stack' /\ Kept(i)) \/ EvaluateGone

LEMMA PopFrames ==
    ASSUME TypeOK, stack # <<>>, stack' = Below
    PROVE  (\A j \in DOMAIN stack' : Comes(j)) /\ (\A i \in DOMAIN stack : Goes(i))
<1>1. /\ DOMAIN stack' = 1 .. Len(stack) - 1 /\ DOMAIN stack = 1 .. Len(stack)
      /\ \A i \in 1 .. Len(stack) - 1 : stack'[i] = stack[i]
      /\ Len(stack) \in Nat
  BY PopFacts, StackFacts
<1> QED BY <1>1 DEF Comes, Goes, Kept

LEMMA NotifyFrames ==
    ASSUME TypeOK, NEW n \in Nodes \cup {Final}, Notifies(n), Top.op \in {"register", "evaluate"},
           \/ Evaluate /\ EvaluateNext(n)
           \/ Register /\ \E c \in Cells : RegisterNotifies(n, c)
    PROVE  (\A j \in DOMAIN stack' : Comes(j)) /\ (\A i \in DOMAIN stack : Goes(i))
<1>1. /\ DOMAIN stack' = 1 .. Len(stack) + 1 /\ DOMAIN stack = 1 .. Len(stack) /\ Len(stack) \in Nat
      /\ \A i \in 1 .. Len(stack) - 1 : stack'[i] = stack[i]
      /\ stack'[Len(stack)] = Onward
      /\ stack'[Len(stack) + 1] = Frame("update", n, 0, 0)
      /\ stack # <<>> /\ Top.next <= Top.size
  BY NotifyFacts, StackFacts DEF Notifies
<1>2. ASSUME NEW j \in DOMAIN stack' PROVE Comes(j)
  <2>1. CASE j < Len(stack)
    BY <1>1, <2>1 DEF Comes, Kept
  <2>2. CASE j = Len(stack)
    <3>1. MovedOn(j)
      BY <1>1, <2>2 DEF MovedOn
    <3> QED BY <3>1 DEF Comes
  <2>3. CASE j = Len(stack) + 1
    <3>1. Told(j, n)
      BY <1>1, <2>3 DEF Told
    <3> QED BY <3>1 DEF Comes
  <2> QED BY <1>1, <2>1, <2>2, <2>3
<1> QED BY <1>1, <1>2 DEF Goes, Kept

LEMMA SettleFrames ==
    ASSUME IInv, NEW c \in Cells, NEW callers, Settle(c, callers), UNCHANGED graph
    PROVE  /\ (\A j \in DOMAIN stack' : Comes(j)) /\ (\A i \in DOMAIN stack : Goes(i))
           /\ Len(stack') \in DOMAIN stack' /\ Settled(Len(stack'), c)
<1>0. TypeOK /\ callers \in Seq(Frames) /\ Evaluation(c) \in Frames
  BY SettleType DEF IInv
<1>1. /\ DOMAIN stack' = 1 .. Len(callers) + 1 /\ Len(stack') = Len(callers) + 1
      /\ \A j \in 1 .. Len(callers) : stack'[j] = callers[j]
      /\ stack'[Len(callers) + 1] = Evaluation(c) /\ Len(callers) \in Nat
  BY <1>0, PushFacts DEF Settle
<1>2. Settled(Len(stack'), c) /\ Len(stack') \in DOMAIN stack'
  BY <1>1 DEF Settled
<1>3. CASE callers = Below /\ stack # <<>>
  <2>1. /\ Len(callers) = Len(stack) - 1 /\ DOMAIN stack = 1 .. Len(stack) /\ Len(stack) \in Nat
        /\ \A i \in 1 .. Len(stack) - 1 : callers[i] = stack[i]
    BY <1>0, <1>3, StackFacts
  <2>2. \A i \in 1 .. Len(stack) - 1 : Kept(i) /\ i \in DOMAIN stack'
    BY <1>1, <2>1 DEF Kept
  <2> QED BY <1>1, <1>2, <2>1, <2>2 DEF Comes, Goes
<1>4. CASE callers = <<>> /\ stack = <<>>
  BY <1>1, <1>2, <1>4 DEF Comes, Goes
<1>5. CASE /\ ByResolution(c) /\ Kind[c] \in {"guarded", "async"} /\ stack = <<>>
           /\ callers = <<Frame("giveUp", c, 0, 0)>>
  <2>1. Len(callers) = 1 /\ callers[1] = Frame("giveUp", c, 0, 0)
    BY <1>5
  <2>2. GivingUp(1, c)
    BY <1>1, <1>5, <2>1 DEF GivingUp
  <2> QED BY <1>1, <1>2, <1>5, <2>1, <2>2 DEF Comes, Goes
<1>6. CASE Kind[c] = "async" /\ stack # <<>> /\ callers = Append(Below, Frame("track", c, 0, 0))
  <2>1. /\ Below \in Seq(Frames) /\ Len(Below) = Len(stack) - 1
        /\ DOMAIN stack = 1 .. Len(stack) /\ Len(stack) \in Nat
        /\ \A i \in 1 .. Len(stack) - 1 : Below[i] = stack[i]
    BY <1>0, <1>6, StackFacts
  <2>2. Frame("track", c, 0, 0) \in Frames
    <3>1. c \in Nodes
      BY <1>0, GraphFacts DEF TypeOK
    <3> QED BY <3>1, FrameType
  <2>3. /\ Len(callers) = Len(stack) /\ callers[Len(stack)] = Frame("track", c, 0, 0)
        /\ \A i \in 1 .. Len(stack) - 1 : callers[i] = stack[i]
    BY <1>6, <2>1, <2>2, PushFacts
  <2>4. \A i \in 1 .. Len(stack) - 1 : Kept(i) /\ i \in DOMAIN stack'
    BY <1>1, <2>1, <2>3 DEF Kept
  <2>5. Len(stack) # 0 /\ Tracking(Len(stack), c)
    BY <1>0, <1>1, <1>6, <2>1, <2>3, StackFacts DEF Tracking
  <2> QED BY <1>1, <1>2, <1>6, <2>1, <2>3, <2>4, <2>5 DEF Comes, Goes
<1> QED BY <1>3, <1>4, <1>5, <1>6 DEF Settle, ByCreation, ByUpdate, ByGivingUp, ByResolution, Running

\* A registration that puts its node into a list has not come to its end.
LEMMA ListingIsNoEnd ==
    ASSUME TypeOK, NEW n \in Nodes, NEW c \in Cells, RegisterLists(n, c)
    PROVE  ~RegisterEnds
<1>1. updatables_ \in [Cells -> Seq(Nodes \cup {Final})]
  BY DEF TypeOK
<1>2. updatables_' = [updatables_ EXCEPT ![c] = Append(updatables_[c], n)]
  BY DEF RegisterLists
<1>3. Len(updatables_'[c]) = Len(updatables_[c]) + 1 /\ Len(updatables_[c]) \in Nat
  BY <1>1, <1>2
<1>4. updatables_' # updatables_
  BY <1>3
<1> QED BY <1>4 DEF RegisterEnds

LEMMA FrameMoves ==
    ASSUME IInv, Next
    PROVE  (\A j \in DOMAIN stack' : Comes(j)) /\ (\A i \in DOMAIN stack : Goes(i))
<1>0. TypeOK /\ UNCHANGED graph /\ DOMAIN <<>> = {}
  BY Moves DEF IInv
<1>1. ASSUME NEW c \in Cells, NEW callers, Settle(c, callers)
      PROVE  (\A j \in DOMAIN stack' : Comes(j)) /\ (\A i \in DOMAIN stack : Goes(i))
  BY <1>0, <1>1, SettleFrames
<1>2. CASE UpdateReturns \/ UpdateFinal \/ CallerEnds \/ RegisterEnds \/ EvaluateEnds
  <2>1. stack # <<>> /\ stack' = Below
    BY <1>2 DEF UpdateReturns, UpdateFinal, CallerEnds, RegisterEnds, EvaluateEnds, Running
  <2> QED BY <1>0, <2>1, PopFrames
<1>3. ASSUME NEW c \in Cells, Call(c)
      PROVE  (\A j \in DOMAIN stack' : Comes(j)) /\ (\A i \in DOMAIN stack : Goes(i))
  <2>1. CASE stack = <<>> /\ stack' = <<>>
    BY <1>0, <2>1 DEF Goes
  <2>2. CASE stack # <<>> /\ stack' = Below
    BY <1>0, <2>2, PopFrames
  <2> QED BY <1>3, <2>1, <2>2 DEF Call, ByCreation, ByUpdate, Running
<1>4. ASSUME NEW n \in Nodes, NewNode(n)
      PROVE  (\A j \in DOMAIN stack' : Comes(j)) /\ (\A i \in DOMAIN stack : Goes(i))
  <2>1. stack = <<>>
    BY <1>4 DEF NewNode
  <2>2. CASE stack' = <<>>
    BY <1>0, <2>1, <2>2 DEF Goes
  <2>3. CASE /\ Kind[n] \in ListenerKinds /\ Inputs[n] # <<>>
             /\ stack' = <<Frame("register", n, 1, Len(Inputs[n]))>>
    <3>1. DOMAIN stack' = {1} /\ Registers(1, n)
      BY <1>4, <2>3 DEF Registers
    <3> QED BY <1>0, <2>1, <3>1 DEF Goes, Comes
  <2> QED BY <1>4, <2>2, <2>3 DEF NewNode
<1>5. CASE EndBuild
  BY <1>0, <1>5 DEF EndBuild, Goes
<1>6. CASE EvaluateGone
  BY <1>0, <1>6 DEF EvaluateGone, Goes
<1>7. ASSUME Evaluate, NEW n \in Nodes \cup {Final}, EvaluateNext(n)
      PROVE  (\A j \in DOMAIN stack' : Comes(j)) /\ (\A i \in DOMAIN stack : Goes(i))
  BY <1>0, <1>7, NotifyFrames DEF EvaluateNext, Running
<1>8. ASSUME Register, NEW n \in Nodes, NEW c \in Cells, RegisterNotifies(n, c)
      PROVE  (\A j \in DOMAIN stack' : Comes(j)) /\ (\A i \in DOMAIN stack : Goes(i))
  <2>1. Notifies(n) /\ Top.op = "register"
    BY <1>8 DEF RegisterNotifies, Register, Running
  <2> QED BY <1>0, <1>8, <2>1, NotifyFrames
<1>9. ASSUME Register, NEW n \in Nodes, NEW c \in Cells, RegisterLists(n, c)
      PROVE  (\A j \in DOMAIN stack' : Comes(j)) /\ (\A i \in DOMAIN stack : Goes(i))
  <2>1. /\ Len(stack) = 1 /\ DOMAIN stack = {1} /\ stack' = <<Onward>> /\ Top.op = "register"
        /\ Top.next <= Top.size
    <3>1. DOMAIN stack = 1 .. Len(stack) /\ Len(stack) = 1 /\ Running("register")
      BY <1>0, <1>9, RegisterMoves, StackFacts
    <3>2. ~RegisterEnds => Top.next <= Top.size
      BY <1>9, RegisterMoves
    <3>3. ~RegisterEnds
      BY <1>0, <1>9, ListingIsNoEnd
    <3> QED BY <1>9, <3>1, <3>2, <3>3 DEF Running, RegisterLists
  <2>2. DOMAIN stack' = {1} /\ stack'[1] = Onward
    BY <2>1
  <2>3. MovedOn(1)
    BY <2>1, <2>2 DEF MovedOn
  <2> QED BY <2>1, <2>2, <2>3 DEF Comes, Goes
<1>10. CASE Register
  BY <1>2, <1>8, <1>9, <1>10, RegisterMoves
<1>11. CASE Evaluate
  BY <1>2, <1>6, <1>7, <1>11, EvaluateMoves
<1> QED BY <1>1, <1>2, <1>3, <1>4, <1>5, <1>10, <1>11, Moves
-----------------------------------------------------------------------------
(* The lists of listeners only grow, and so does what is ready. *)

\* n is put at the end of the list of c.
Joins(n, c) ==
    \/ Register /\ RegisterLists(n, c) /\ n \in Nodes
    \/ EndBuild /\ n = Final /\ c = Result /\ phase' = "open" /\ ~IsReady(Result)

LEMMA Lists ==
    ASSUME IInv, Next
    PROVE  \/ UNCHANGED updatables_
           \/ \E n \in Nodes \cup {Final}, c \in Cells :
                 Joins(n, c) /\ updatables_' = [updatables_ EXCEPT ![c] = Append(@, n)]
<1>1. Result \in Cells
  BY GraphFacts DEF IInv, TypeOK
<1>2. CASE EndBuild
  BY <1>1, <1>2 DEF EndBuild, Joins
<1>3. CASE Register
  <2>1. ASSUME NEW n \in Nodes, NEW c \in Cells, RegisterLists(n, c)
        PROVE  Joins(n, c) /\ updatables_' = [updatables_ EXCEPT ![c] = Append(@, n)]
    BY <1>3, <2>1 DEF Joins, RegisterLists
  <2> QED BY <1>3, <2>1, RegisterMoves DEF RegisterEnds, RegisterNotifies
<1>4. CASE Evaluate
  BY <1>4, EvaluateMoves
<1> QED BY <1>2, <1>3, <1>4, Moves DEF Call, Settle, NewNode, UpdateReturns, UpdateFinal, CallerEnds

LEMMA ListsGrow ==
    ASSUME IInv, Next, NEW c \in Cells
    PROVE  /\ DOMAIN updatables_[c] = 1 .. Len(updatables_[c]) /\ Len(updatables_[c]) \in Nat
           /\ \A i \in DOMAIN updatables_[c] :
                 i \in DOMAIN updatables_'[c] /\ updatables_'[c][i] = updatables_[c][i]
           /\ Range(updatables_[c]) \subseteq Range(updatables_'[c])
           /\ \A i \in DOMAIN updatables_'[c] :
                 \/ i \in DOMAIN updatables_[c] /\ updatables_'[c][i] = updatables_[c][i]
                 \/ /\ Joins(updatables_'[c][i], c) /\ i = Len(updatables_[c]) + 1
                    /\ DOMAIN updatables_'[c] = 1 .. Len(updatables_[c]) + 1
<1>1. /\ updatables_ \in [Cells -> Seq(Nodes \cup {Final})]
      /\ updatables_[c] \in Seq(Nodes \cup {Final})
      /\ DOMAIN updatables_[c] = 1 .. Len(updatables_[c]) /\ Len(updatables_[c]) \in Nat
  BY DEF IInv, TypeOK
<1>2. CASE updatables_'[c] = updatables_[c]
  BY <1>1, <1>2
<1>3. ASSUME NEW n \in Nodes \cup {Final}, NEW d \in Cells, Joins(n, d),
             updatables_' = [updatables_ EXCEPT ![d] = Append(@, n)]
      PROVE  /\ \A i \in DOMAIN updatables_[c] :
                    i \in DOMAIN updatables_'[c] /\ updatables_'[c][i] = updatables_[c][i]
             /\ \A i \in DOMAIN updatables_'[c] :
                    \/ i \in DOMAIN updatables_[c] /\ updatables_'[c][i] = updatables_[c][i]
                    \/ /\ Joins(updatables_'[c][i], c) /\ i = Len(updatables_[c]) + 1
                       /\ DOMAIN updatables_'[c] = 1 .. Len(updatables_[c]) + 1
  <2>1. CASE d # c
    BY <1>1, <1>2, <1>3, <2>1
  <2>2. CASE d = c
    <3>1. updatables_'[c] = Append(updatables_[c], n)
      BY <1>1, <1>3, <2>2
    <3>2. /\ DOMAIN updatables_'[c] = 1 .. Len(updatables_[c]) + 1
          /\ \A i \in 1 .. Len(updatables_[c]) : updatables_'[c][i] = updatables_[c][i]
          /\ updatables_'[c][Len(updatables_[c]) + 1] = n
      BY <1>1, <3>1, PushFacts
    <3> QED BY <1>1, <1>3, <2>2, <3>2
  <2> QED BY <2>1, <2>2
<1>4. /\ \A i \in DOMAIN updatables_[c] :
            i \in DOMAIN updatables_'[c] /\ updatables_'[c][i] = updatables_[c][i]
      /\ \A i \in DOMAIN updatables_'[c] :
            \/ i \in DOMAIN updatables_[c] /\ updatables_'[c][i] = updatables_[c][i]
            \/ /\ Joins(updatables_'[c][i], c) /\ i = Len(updatables_[c]) + 1
               /\ DOMAIN updatables_'[c] = 1 .. Len(updatables_[c]) + 1
  BY <1>2, <1>3, Lists
<1>5. Range(updatables_[c]) \subseteq Range(updatables_'[c])
  BY <1>4 DEF Range
<1> QED BY <1>1, <1>4, <1>5

LEMMA PhaseMoves ==
    ASSUME IInv, Next
    PROVE  \/ UNCHANGED phase
           \/ EndBuild /\ phase = "build" /\ stack = <<>>
           \/ UpdateFinal /\ phase = "open" /\ phase' = "released"
<1>1. CASE UpdateFinal
  BY <1>1, TopFacts DEF UpdateFinal, Running, UpdateOk, Of
<1>2. CASE EndBuild
  BY <1>2 DEF EndBuild
<1>3. CASE Register
  BY <1>3, RegisterMoves
<1>4. CASE Evaluate
  BY <1>4, EvaluateMoves
<1> QED BY <1>1, <1>2, <1>3, <1>4, Moves DEF Call, Settle, NewNode, UpdateReturns, CallerEnds

\* What a node whose registration is on top knows of itself.
LEMMA JoinFacts ==
    ASSUME IInv, NEW n \in Nodes, NEW c \in Cells, Register, RegisterLists(n, c)
    PROVE  /\ n = created /\ created \in Nat /\ n \in 1 .. created /\ phase = "build"
           /\ Kind[n] \in ListenerKinds /\ c \in Range(Inputs[n]) /\ n # Final
           /\ n \notin Range(updatables_[c]) /\ ~IsReady(c)
           /\ Top.next \in DOMAIN Inputs[n] /\ c = Inputs[n][Top.next] /\ Len(stack) = 1
<1>1. TypeOK /\ graph \in Graphs /\ Running("register") /\ Len(stack) = 1 /\ RegisterOk(Len(stack))
      /\ Of(Len(stack)) = Top.of /\ stack[Len(stack)] = Top
  BY RegisterMoves, TopFacts DEF IInv, TypeOK, Running, Of
<1>2. Top.next \in DOMAIN Inputs[n] /\ n = Top.of
  <2>1. ~RegisterEnds
    BY <1>1, ListingIsNoEnd
  <2> QED BY <2>1, RegisterMoves DEF RegisterLists
<1>3. Top.next <= Top.next /\ created \in Nat /\ n \in 1 .. Len(Kind)
  <2>1. Top.next \in Nat
    BY <1>1, <1>2, GraphFacts
  <2> QED BY <1>1, <2>1, GraphFacts DEF TypeOK
<1>4. /\ phase = "build" /\ n = created /\ Kind[n] \in ListenerKinds
      /\ \A k \in DOMAIN Inputs[n] : k >= Top.next => n \notin Range(updatables_[Inputs[n][k]])
  BY <1>1, <1>2 DEF RegisterOk
<1>5. c = Inputs[n][Top.next] /\ ~IsReady(c)
  BY <1>2 DEF RegisterLists
<1>6. c \in Range(Inputs[n]) /\ n \notin Range(updatables_[c])
  <2>1. Inputs[n][Top.next] \in Range(Inputs[n])
    BY <1>2 DEF Range
  <2>2. Top.next >= Top.next
    BY <1>3
  <2> QED BY <1>2, <1>4, <1>5, <2>1, <2>2
<1>7. n # Final /\ n \in 1 .. created
  BY <1>1, <1>3, <1>4, GraphFacts
<1> QED BY <1>1, <1>2, <1>3, <1>4, <1>5, <1>6, <1>7

LEMMA ListedStep ==
    ASSUME IInv, Next
    PROVE  ListedOk'
<1>1. TypeOK /\ graph \in Graphs /\ UNCHANGED graph
  BY Moves DEF IInv, TypeOK
<1>2. Kind' = Kind /\ Inputs' = Inputs /\ Result' = Result /\ Nodes' = Nodes /\ Cells' = Cells
  BY <1>1, SameGraph
<1>3. created \in Nat /\ created' \in {created, created + 1}
  BY <1>1, GraphFacts, Stays DEF TypeOK
<1>4. ASSUME NEW c \in Cells, NEW i \in DOMAIN updatables_'[c], NEW n, n = updatables_'[c][i]
      PROVE  /\ n = Final => c = Result /\ phase' \in {"open", "released"}
             /\ n # Final => /\ n \in 1 .. created' /\ c \in Range(Inputs[n])
                             /\ Kind[n] \in ListenerKinds
             /\ \A j \in DOMAIN updatables_'[c] :
                   j > i => n # Final /\ (updatables_'[c][j] = Final \/ n < updatables_'[c][j])
  <2>1. CASE i \in DOMAIN updatables_[c] /\ n = updatables_[c][i]
    <3>1. /\ n = Final => c = Result /\ phase \in {"open", "released"}
          /\ n # Final => /\ n \in 1 .. created /\ c \in Range(Inputs[n])
                          /\ Kind[n] \in ListenerKinds
          /\ \A j \in DOMAIN updatables_[c] :
                j > i => n # Final /\ (updatables_[c][j] = Final \/ n < updatables_[c][j])
      BY <2>1 DEF IInv, ListedOk
    <3>2. phase \in {"open", "released"} => phase' \in {"open", "released"}
      BY PhaseMoves
    <3>3. ASSUME NEW j \in DOMAIN updatables_'[c], j > i
          PROVE  n # Final /\ (updatables_'[c][j] = Final \/ n < updatables_'[c][j])
      <4>1. CASE j \in DOMAIN updatables_[c] /\ updatables_'[c][j] = updatables_[c][j]
        BY <3>1, <3>3, <4>1
      <4>2. ASSUME NEW m, m = updatables_'[c][j], Joins(m, c)
            PROVE  n # Final /\ (m = Final \/ n < m)
        <5>1. phase = "build"
          BY <4>2, JoinFacts DEF Joins, EndBuild
        <5>2. n # Final /\ n \in 1 .. created
          BY <3>1, <5>1
        <5>3. CASE m = Final
          BY <5>2, <5>3
        <5>4. CASE Register /\ RegisterLists(m, c) /\ m \in Nodes
          <6>1. m = created /\ m \notin Range(updatables_[c])
            BY <5>4, JoinFacts
          <6>2. n # m
            BY <2>1, <6>1 DEF Range
          <6> QED BY <1>3, <5>2, <6>1, <6>2
        <5> QED BY <4>2, <5>3, <5>4 DEF Joins
      <4> QED BY <4>1, <4>2, ListsGrow
    <3> QED BY <1>3, <3>1, <3>2, <3>3
  <2>2. CASE /\ Joins(n, c) /\ i = Len(updatables_[c]) + 1
             /\ DOMAIN updatables_'[c] = 1 .. Len(updatables_[c]) + 1
    <3>1. \A j \in DOMAIN updatables_'[c] : ~(j > i)
      BY <2>2, ListsGrow
    <3>2. CASE Register /\ RegisterLists(n, c) /\ n \in Nodes
      BY <1>3, <3>1, <3>2, JoinFacts
    <3>3. CASE n = Final /\ c = Result /\ phase' = "open"
      BY <3>1, <3>3
    <3> QED BY <2>2, <3>2, <3>3 DEF Joins
  <2> QED BY <1>4, <2>1, <2>2, ListsGrow
<1> QED BY <1>2, <1>4 DEF ListedOk
LEMMA SettleFacts ==
    ASSUME IInv, NEW c \in Cells, NEW callers, Settle(c, callers)
    PROVE  /\ status'[c] \in Ready /\ flights'[c] = 0 /\ c <= created'
           /\ \A d \in Cells : d # c => status'[d] = status[d] /\ flights'[d] = flights[d]
           /\ Kind[c] = "guarded" => c \in is_rpc_started_'
           /\ Kind[c] = "timeout" => Running("giveUp") /\ Top.of = Inputs[c][1] /\ Len(stack) = 1
           /\ created' \in {created, created + 1} /\ created \in Nat
           /\ \A d \in is_rpc_started_' : d \in is_rpc_started_ \/ d = c
           /\ is_rpc_started_ \subseteq is_rpc_started_'
<1>1. /\ status \in [Cells -> Ready \cup {"empty"}] /\ flights \in [Cells -> Nat]
      /\ flights[c] \in Nat
  BY DEF IInv, TypeOK
<1>2. \A d \in is_rpc_started_' : d \in is_rpc_started_ \/ d = c
  BY DEF Settle, ByCreation, ByUpdate, ByGivingUp, ByResolution, Starts
<1>3. is_rpc_started_ \subseteq is_rpc_started_'
  BY DEF Settle, ByCreation, ByUpdate, ByGivingUp, ByResolution, Starts
<1>4. created' \in {created, created + 1} /\ created \in Nat /\ c <= created'
  BY DEF Settle, ByCreation, ByUpdate, ByGivingUp, ByResolution
<1>5. flights[c] = 1 => Kind[c] \in {"rpc", "guarded", "async"}
                        /\ (Kind[c] = "guarded" => c \in is_rpc_started_)
  BY <1>1 DEF IInv, CellsOk
<1>6. Kind[c] = "guarded" => c \in is_rpc_started_'
  BY <1>5 DEF Settle, ByCreation, ByUpdate, ByGivingUp, ByResolution, Starts
<1>7. Kind[c] = "timeout" => Running("giveUp") /\ Top.of = Inputs[c][1] /\ Len(stack) = 1
  <2>1. Kind[c] = "timeout" => ByGivingUp(c)
    BY <1>5 DEF Settle, ByCreation, ByUpdate, ByResolution
  <2>2. ByGivingUp(c) => Running("giveUp") /\ Top.of = Inputs[c][1]
    BY DEF ByGivingUp
  <2>3. Running("giveUp") => Len(stack) = 1
    BY TopFacts DEF Running, GiveUpOk
  <2> QED BY <2>1, <2>2, <2>3
<1>8. /\ status'[c] \in Ready /\ flights'[c] = 0
      /\ \A d \in Cells : d # c => status'[d] = status[d] /\ flights'[d] = flights[d]
  BY <1>1 DEF Settle
<1> QED BY <1>2, <1>3, <1>4, <1>6, <1>7, <1>8

LEMMA CallFacts ==
    ASSUME IInv, NEW c \in Cells, Call(c)
    PROVE  /\ flights'[c] = 1 /\ ~IsReady(c) /\ c <= created' /\ UNCHANGED status
           /\ Kind[c] \in {"rpc", "guarded", "async"}
           /\ \A d \in Cells : d # c => flights'[d] = flights[d]
           /\ Kind[c] = "guarded" => c \in is_rpc_started_'
           /\ created' \in {created, created + 1} /\ created \in Nat
           /\ \A d \in is_rpc_started_' : d \in is_rpc_started_ \/ d = c
           /\ is_rpc_started_ \subseteq is_rpc_started_'
<1>1. flights \in [Cells -> Nat] /\ created \in Nat
  BY GraphFacts DEF IInv, TypeOK
<1>2. /\ Kind[c] \in {"rpc", "guarded", "async"}
      /\ Kind[c] = "guarded" => c \in is_rpc_started_'
      /\ \A d \in is_rpc_started_' : d \in is_rpc_started_ \/ d = c
      /\ is_rpc_started_ \subseteq is_rpc_started_'
      /\ created' \in {created, created + 1}
  BY DEF Call, ByCreation, ByUpdate, Starts
<1> QED BY <1>1, <1>2 DEF Call

LEMMA CellsStep ==
    ASSUME IInv, Next
    PROVE  CellsOk'
<1>1. /\ TypeOK /\ graph \in Graphs /\ UNCHANGED graph /\ CellsOk
      /\ created \in Nat /\ created' \in {created, created + 1} /\ flights \in [Cells -> Nat]
  <2>1. TypeOK /\ graph \in Graphs /\ CellsOk /\ created \in Nat /\ flights \in [Cells -> Nat]
    BY DEF IInv, TypeOK
  <2>2. UNCHANGED graph
    BY Moves
  <2> QED BY <2>1, <2>2, Stays
<1>2. Kind' = Kind /\ Inputs' = Inputs /\ Result' = Result /\ Nodes' = Nodes /\ Cells' = Cells
  BY <1>1, SameGraph
<1>3. phase' # "build" => created' = Len(Kind)
  <2>1. CASE EndBuild
    BY <2>1 DEF EndBuild
  <2>2. CASE phase # "build"
    BY <1>1, <2>2, Stays DEF CellsOk
  <2> QED BY <2>1, <2>2, PhaseMoves
<1>4. ASSUME NEW c \in Cells, NEW callers, Settle(c, callers), NEW d \in Cells
      PROVE  /\ status'[d] \in Ready \/ flights'[d] > 0 \/ d \in is_rpc_started_' => d <= created'
             /\ flights'[d] > 0 => /\ flights'[d] = 1 /\ status'[d] \notin Ready
                                   /\ Kind[d] \in {"rpc", "guarded", "async"}
             /\ Kind[d] = "guarded" /\ (status'[d] \in Ready \/ flights'[d] > 0)
                   => d \in is_rpc_started_'
             /\ Kind[d] = "timeout" /\ status'[d] \in Ready => status'[Inputs[d][1]] \in Ready
  <2>1. /\ status'[c] \in Ready /\ flights'[c] = 0 /\ c <= created'
        /\ \A e \in Cells : e # c => status'[e] = status[e] /\ flights'[e] = flights[e]
        /\ Kind[c] = "guarded" => c \in is_rpc_started_'
        /\ \A e \in is_rpc_started_' : e \in is_rpc_started_ \/ e = c
        /\ is_rpc_started_ \subseteq is_rpc_started_'
    BY <1>4, SettleFacts
  <2>2. ASSUME Kind[d] = "timeout", status'[d] \in Ready PROVE status'[Inputs[d][1]] \in Ready
    <3>1. Inputs[d][1] \in Cells
      BY <1>1, <2>2, GraphFacts, InputFacts
    <3>2. CASE d = c
      <4>1. GiveUpOk(Len(stack)) /\ Of(Len(stack)) = Inputs[d][1]
        BY <1>4, <2>2, <3>2, SettleFacts, TopFacts DEF Running, Of
      <4> QED BY <3>1, <4>1, <2>1 DEF GiveUpOk, IsReady
    <3>3. CASE d # c
      BY <1>1, <2>1, <2>2, <3>1, <3>3 DEF CellsOk, IsReady
    <3> QED BY <3>2, <3>3
  <2>3. CASE d = c
    BY <2>1, <2>2, <2>3
  <2>4. CASE d # c
    <3>1. d <= created => d <= created'
      BY <1>1, GraphFacts
    <3> QED BY <1>1, <2>1, <2>2, <2>4, <3>1 DEF CellsOk, IsReady
  <2> QED BY <2>3, <2>4
<1>5. ASSUME NEW c \in Cells, Call(c), NEW d \in Cells
      PROVE  /\ status'[d] \in Ready \/ flights'[d] > 0 \/ d \in is_rpc_started_' => d <= created'
             /\ flights'[d] > 0 => /\ flights'[d] = 1 /\ status'[d] \notin Ready
                                   /\ Kind[d] \in {"rpc", "guarded", "async"}
             /\ Kind[d] = "guarded" /\ (status'[d] \in Ready \/ flights'[d] > 0)
                   => d \in is_rpc_started_'
             /\ Kind[d] = "timeout" /\ status'[d] \in Ready => status'[Inputs[d][1]] \in Ready
  <2>1. d <= created => d <= created'
    BY <1>1, GraphFacts
  <2>2. CASE d = c
    BY <1>5, <2>2, CallFacts DEF IsReady
  <2>3. CASE d # c
    BY <1>1, <1>5, <2>1, <2>3, CallFacts DEF CellsOk, IsReady
  <2> QED BY <2>2, <2>3
<1>6. CASE UNCHANGED <<status, flights, is_rpc_started_>>
  <2>1. \A d \in Cells : d <= created => d <= created'
    BY <1>1, GraphFacts
  <2> QED BY <1>1, <1>2, <1>3, <1>6, <2>1 DEF CellsOk, IsReady
<1>7. CASE UpdateReturns \/ UpdateFinal \/ EndBuild \/ CallerEnds \/ \E n \in Nodes : NewNode(n)
  BY <1>6, <1>7 DEF UpdateReturns, UpdateFinal, EndBuild, CallerEnds, NewNode
<1>8. CASE Register \/ Evaluate
  BY <1>6, <1>8, RegisterMoves, EvaluateMoves
<1>9. CASE \E c \in Cells : Call(c) \/ \E callers : Settle(c, callers)
  BY <1>2, <1>3, <1>4, <1>5, <1>9 DEF CellsOk, IsReady
<1> QED BY <1>7, <1>8, <1>9, Moves
LEMMA NextFrames ==
    ASSUME IInv, Next
    PROVE  /\ stack' \in Seq(Frames) /\ DOMAIN stack' = 1 .. Len(stack') /\ Len(stack') \in Nat
           /\ \A j \in DOMAIN stack' : stack'[j] \in Frames
<1>1. UNCHANGED graph /\ TypeOK'
  BY Moves, TypeStep
<1>2. stack' \in Seq(Frames')
  BY <1>1 DEF TypeOK, Frames
<1> QED BY <1>1, <1>2, SameGraph
-----------------------------------------------------------------------------
Old(j) == /\ j \in DOMAIN stack /\ (Kept(j) \/ MovedOn(j))
          /\ stack'[j].op = stack[j].op /\ stack'[j].of = stack[j].of
          /\ stack'[j].size = stack[j].size /\ stack[j].next \in Nat
          /\ stack'[j].next = IF MovedOn(j) THEN stack[j].next + 1 ELSE stack[j].next

LEMMA Origins ==
    ASSUME IInv, Next, NEW j \in DOMAIN stack'
    PROVE  /\ Kept(j) \/ MovedOn(j) => Old(j)
           /\ stack'[j].op = "register" => Old(j) \/ \E n \in Nodes : Registers(j, n)
           /\ stack'[j].op = "evaluate" => Old(j) \/ \E c \in Cells : Settled(j, c)
           /\ stack'[j].op = "update" => \E n \in Nodes \cup {Final} : Told(j, n)
           /\ stack'[j].op = "giveUp" => Kept(j) \/ \E c \in Cells : GivingUp(j, c)
           /\ stack'[j].op = "track" => Kept(j) \/ \E c \in Cells : Tracking(j, c)
<1>1. TypeOK /\ Comes(j)
  BY FrameMoves DEF IInv
<1>2. ASSUME Kept(j)
      PROVE  Old(j) /\ stack'[j].op # "update"
  <2>0. j \in DOMAIN stack /\ stack'[j] = stack[j] /\ j < Len(stack)
    BY <1>2 DEF Kept
  <2>1. stack[j] \in Frames /\ j # Len(stack)
    <3>1. stack \in Seq(Frames) /\ Len(stack) \in Nat /\ DOMAIN stack = 1 .. Len(stack)
      BY <1>1, StackFacts
    <3> QED BY <2>0, <3>1
  <2>2. ~MovedOn(j) /\ stack[j].next \in Nat
    BY <2>0, <2>1 DEF MovedOn, Frames
  <2>3. stack[j].op # "update"
    BY <2>0, <2>1 DEF IInv, FramesOk, FrameOk, UpdateOk, Op
  <2> QED BY <1>2, <2>0, <2>2, <2>3 DEF Old
<1>3. ASSUME MovedOn(j)
      PROVE  Old(j) /\ stack'[j].op \in {"register", "evaluate"}
  <2>1. j \in DOMAIN stack /\ Top = stack[j] /\ Top \in Frames /\ stack'[j] = Onward
    <3>1. stack # <<>>
      BY <1>3 DEF MovedOn
    <3> QED BY <1>1, <1>3, <3>1, StackFacts DEF MovedOn, Top
  <2>2. /\ Onward.op = Top.op /\ Onward.of = Top.of /\ Onward.size = Top.size
        /\ Onward.next = Top.next + 1 /\ Top.next \in Nat
    BY <2>1, OnwardFacts
  <2> QED BY <1>3, <2>1, <2>2 DEF Old, MovedOn
<1>4. ASSUME NEW n \in Nodes \cup {Final}, Told(j, n) PROVE stack'[j].op = "update"
  BY <1>4 DEF Told, Frame
<1>5. ASSUME NEW c \in Cells, Settled(j, c) PROVE stack'[j].op = "evaluate"
  BY <1>5 DEF Settled, Evaluation, Frame
<1>6. ASSUME NEW c \in Cells, GivingUp(j, c) PROVE stack'[j].op = "giveUp"
  BY <1>6 DEF GivingUp, Frame
<1>7. ASSUME NEW n \in Nodes, Registers(j, n) PROVE stack'[j].op = "register"
  BY <1>7 DEF Registers, Frame
<1>10. ASSUME NEW c \in Cells, Tracking(j, c) PROVE stack'[j].op = "track"
  BY <1>10 DEF Tracking, Frame
<1>8. /\ stack'[j].op = "register" => Old(j) \/ \E n \in Nodes : Registers(j, n)
      /\ stack'[j].op = "evaluate" => Old(j) \/ \E c \in Cells : Settled(j, c)
  BY <1>1, <1>2, <1>3, <1>4, <1>5, <1>6, <1>7, <1>10 DEF Comes
<1>9. /\ stack'[j].op = "update" => \E n \in Nodes \cup {Final} : Told(j, n)
      /\ stack'[j].op = "giveUp" => Kept(j) \/ \E c \in Cells : GivingUp(j, c)
      /\ stack'[j].op = "track" => Kept(j) \/ \E c \in Cells : Tracking(j, c)
  BY <1>1, <1>2, <1>3, <1>4, <1>5, <1>6, <1>7, <1>10 DEF Comes
<1> QED BY <1>2, <1>3, <1>8, <1>9

\* The next stack evaluates no cell twice.
LEMMA OneEvaluation ==
    ASSUME IInv, Next, NEW j \in DOMAIN stack', NEW k \in DOMAIN stack',
           stack'[j].op = "evaluate", stack'[k].op = "evaluate", stack'[j].of = stack'[k].of
    PROVE  j = k
<1>1. ASSUME NEW i \in DOMAIN stack', stack'[i].op = "evaluate", Old(i)
      PROVE  i \in DOMAIN stack /\ EvaluateOk(i) /\ Op(i) = "evaluate" /\ Of(i) = stack'[i].of
  BY <1>1 DEF IInv, FramesOk, FrameOk, Old, Op, Of
<1>2. ASSUME NEW i \in DOMAIN stack', NEW c \in Cells, Settled(i, c)
      PROVE  i = Len(stack') /\ stack'[i].of = c /\ ~IsReady(c)
  BY <1>2 DEF Settled, Evaluation, Frame, Settle
<1>3. CASE Old(j) /\ Old(k)
  BY <1>1, <1>3 DEF EvaluateOk
<1>4. ASSUME NEW c \in Cells, Settled(j, c) PROVE j = k
  BY <1>1, <1>2, <1>4, Origins DEF EvaluateOk
<1>5. ASSUME NEW c \in Cells, Settled(k, c) PROVE j = k
  BY <1>1, <1>2, <1>5, Origins DEF EvaluateOk
<1> QED BY <1>3, <1>4, <1>5, Origins

\* A notification is for a listener of the cell evaluated, or the node created last.
LEMMA ToldFacts ==
    ASSUME IInv, NEW n \in Nodes \cup {Final}, NEW j, Told(j, n)
    PROVE  /\ j = Len(stack) + 1 /\ Len(stack) \in DOMAIN stack /\ Top = stack[Len(stack)]
           /\ Len(stack') = j /\ UNCHANGED <<created, status, phase, updatables_>>
           /\ Top.next <= Top.size /\ Top.next \in Nat /\ Top.size \in Nat
           /\ phase # "released" /\ Notifies(n)
           /\ n = Final => phase = "open"
           /\ n # Final => n \in 1 .. created /\ Kind[n] \in ListenerKinds
           /\ \/ /\ Evaluate /\ EvaluateOk(Len(stack)) /\ Top.op = "evaluate"
                 /\ Top.of \in Cells /\ Top.next \in DOMAIN updatables_[Top.of]
                 /\ n = updatables_[Top.of][Top.next]
              \/ /\ Register /\ RegisterOk(Len(stack)) /\ Top.op = "register" /\ n = Top.of
                 /\ Top.next \in DOMAIN Inputs[n] /\ IsReady(Inputs[n][Top.next])
                 /\ Len(stack) = 1
<1>1. TypeOK /\ graph \in Graphs /\ created \in Nat /\ Notifies(n) /\ stack # <<>>
  <2>1. TypeOK /\ graph \in Graphs /\ created \in 0 .. Len(Kind)
    BY DEF IInv, TypeOK
  <2>2. Notifies(n)
    BY DEF Told, EvaluateNext, RegisterNotifies
  <2> QED BY <2>1, <2>2, GraphFacts DEF Notifies
<1>2. /\ Len(stack) \in DOMAIN stack /\ Top = stack[Len(stack)]
      /\ Top.next \in Nat /\ Top.size \in Nat /\ Top.next <= Top.size
      /\ Len(stack') = Len(stack) + 1
  <2>1. Top \in Frames
    BY <1>1, StackFacts
  <2> QED BY <1>1, <2>1, TopFacts, NotifyFacts DEF Frames, Notifies
<1>3. CASE Evaluate /\ EvaluateNext(n)
  <2>1. /\ Top.op = "evaluate" /\ phase # "released" /\ Top.of \in Cells
        /\ Top.next \in DOMAIN updatables_[Top.of] /\ n = updatables_[Top.of][Top.next]
    BY <1>3 DEF EvaluateNext, Running
  <2>2. EvaluateOk(Len(stack))
    BY <1>1, <2>1, TopFacts
  <2>3. /\ n = Final => phase = "open"
        /\ n # Final => n \in 1 .. created /\ Kind[n] \in ListenerKinds
    BY <2>1 DEF IInv, ListedOk
  <2>4. UNCHANGED <<created, status, phase, updatables_>>
    BY <1>3, EvaluateMoves
  <2> QED BY <1>1, <1>2, <1>3, <2>1, <2>2, <2>3, <2>4 DEF Told
<1>4. ASSUME Register, NEW c \in Cells, RegisterNotifies(n, c)
      PROVE  /\ UNCHANGED <<created, status, phase, updatables_>>
             /\ phase = "build" /\ RegisterOk(Len(stack)) /\ Top.op = "register" /\ n = Top.of
             /\ n \in 1 .. created /\ n # Final /\ Kind[n] \in ListenerKinds
             /\ Top.next \in DOMAIN Inputs[n] /\ IsReady(Inputs[n][Top.next]) /\ Len(stack) = 1
  <2>1. /\ UNCHANGED <<created, status, phase>> /\ Top.op = "register" /\ Len(stack) = 1
    BY <1>4, RegisterMoves DEF Running
  <2>2. RegisterOk(Len(stack))
    BY <1>1, <2>1, TopFacts
  <2>3. n = Top.of /\ IsReady(Inputs[n][Top.next]) /\ UNCHANGED updatables_
    BY <1>4 DEF RegisterNotifies
  <2>4. /\ phase = "build" /\ n = created /\ n \in Nodes /\ Kind[n] \in ListenerKinds
        /\ Top.size = Len(Inputs[n]) /\ Top.next \in 1 .. Top.size + 1
    BY <1>2, <2>2, <2>3 DEF RegisterOk, Of
  <2>5. Inputs[n] \in Seq(Nodes) /\ n # Final /\ n \in 1 .. created
    BY <1>1, <2>4, GraphFacts
  <2> QED BY <1>2, <2>1, <2>2, <2>3, <2>4, <2>5
<1> QED BY <1>1, <1>2, <1>3, <1>4 DEF Told
-----------------------------------------------------------------------------
LEMMA KeptFrame ==
    ASSUME IInv, Next, NEW j \in DOMAIN stack', Kept(j)
    PROVE  FrameOk(j)'
<1>1. /\ TypeOK /\ graph \in Graphs /\ UNCHANGED graph /\ stack # <<>> /\ Len(stack) \in Nat
      /\ j \in DOMAIN stack /\ j < Len(stack) /\ stack'[j] = stack[j] /\ j # Len(stack) /\ j \in Nat
  <2>1. TypeOK /\ graph \in Graphs /\ UNCHANGED graph
    BY Moves DEF IInv, TypeOK
  <2>2. DOMAIN stack = 1 .. Len(stack) /\ Len(stack) \in Nat
    BY <2>1, StackFacts
  <2>3. j \in DOMAIN stack /\ j < Len(stack) /\ stack'[j] = stack[j]
    BY DEF Kept
  <2> QED BY <2>1, <2>2, <2>3
<1>2. Kind' = Kind /\ Inputs' = Inputs /\ Result' = Result /\ Nodes' = Nodes /\ Cells' = Cells
  BY <1>1, SameGraph
<1>3. FrameOk(j) /\ created' = created
  BY <1>1, Stays DEF IInv, FramesOk
<1>4. UNCHANGED updatables_
  <2>1. Len(stack) # 1
    BY <1>1, StackFacts
  <2>2. ASSUME NEW n, NEW c \in Cells, Joins(n, c) PROVE FALSE
    BY <1>1, <2>1, <2>2, JoinFacts DEF Joins, EndBuild
  <2> QED BY <2>2, Lists
<1>5. \A c \in Cells : IsReady(c) => status'[c] \in Ready
  BY Stays DEF IsReady
<1>6. CASE Op(j) = "register"
  <2>1. RegisterOk(j)
    BY <1>3, <1>6 DEF FrameOk
  <2>2. phase' = phase
    BY <1>1, <2>1, PhaseMoves DEF RegisterOk
  <2>3. RegisterOk(j)'
    BY <1>1, <1>2, <1>3, <1>4, <2>1, <2>2 DEF RegisterOk, Of
  <2> QED BY <1>1, <1>6, <2>3 DEF FrameOk, Op
<1>7. CASE Op(j) = "evaluate"
  <2>1. EvaluateOk(j)
    BY <1>3, <1>7 DEF FrameOk
  <2>2. \A k \in DOMAIN stack' : stack'[k].op = "evaluate" /\ stack'[k].of = Of(j) => k = j
    BY <1>1, <1>7, OneEvaluation DEF Op, Of
  <2>3. EvaluateOk(j)'
    BY <1>1, <1>2, <1>4, <1>5, <2>1, <2>2 DEF EvaluateOk, Of, Op, IsReady
  <2> QED BY <1>1, <1>7, <2>3 DEF FrameOk, Op
<1>8. CASE Op(j) = "update"
  BY <1>1, <1>3, <1>8 DEF FrameOk, UpdateOk
<1>9. CASE Op(j) = "giveUp"
  <2>1. GiveUpOk(j)
    BY <1>3, <1>9 DEF FrameOk
  <2>2. phase' # "build" /\ TimeoutCellsOf(Of(j))' = TimeoutCellsOf(Of(j))
    BY <1>1, <1>2, <1>3, <2>1, Stays DEF GiveUpOk, TimeoutCellsOf, Of
  <2>3. ASSUME NEW n \in TimeoutCellsOf(Of(j)) PROVE status'[n] \notin Ready
    <3>1. n \in Cells /\ Kind[n] = "timeout"
      <4>1. n \in 1 .. created /\ Kind[n] = "timeout" /\ created \in 0 .. Len(Kind)
        BY <1>1 DEF TimeoutCellsOf, TypeOK
      <4> QED BY <1>1, <4>1, GraphFacts
    <3>2. ~IsReady(n)
      BY <2>1 DEF GiveUpOk
    <3>3. ~\E callers : Settle(n, callers)
      BY <1>1, <2>1, <3>1, SettleFacts DEF GiveUpOk
    <3> QED BY <3>1, <3>2, <3>3, Stays DEF IsReady
  <2>4. GiveUpOk(j)'
    BY <1>1, <1>2, <1>5, <2>1, <2>2, <2>3 DEF GiveUpOk, Of, IsReady
  <2> QED BY <1>1, <1>9, <2>4 DEF FrameOk, Op
<1>11. CASE Op(j) = "track"
  BY <1>1, <1>11 DEF FrameOk, Op
<1>10. Op(j) \in {"register", "evaluate", "update", "track", "giveUp"}
  <2>1. stack[j] \in Frames
    BY <1>1, StackFacts
  <2> QED BY <2>1 DEF Frames, Op
<1> QED BY <1>6, <1>7, <1>8, <1>9, <1>10, <1>11

LEMMA MovedFrame ==
    ASSUME IInv, Next, NEW j \in DOMAIN stack', MovedOn(j)
    PROVE  FrameOk(j)'
<1>1. /\ TypeOK /\ graph \in Graphs /\ UNCHANGED graph /\ stack # <<>>
      /\ j \in DOMAIN stack /\ j = Len(stack) /\ stack[j] = Top /\ Old(j)
      /\ stack'[j].next = Top.next + 1 /\ Top.next \in Nat /\ Top.next <= Top.size
  <2>1. TypeOK /\ graph \in Graphs
    BY DEF IInv, TypeOK
  <2>2. UNCHANGED graph
    BY Moves
  <2>3. Old(j)
    BY Origins
  <2>4. j \in DOMAIN stack /\ stack[j].next \in Nat /\ stack'[j].next = stack[j].next + 1
    BY <2>3 DEF Old
  <2>5. j = Len(stack) /\ stack # <<>> /\ Top.next <= Top.size
    BY <2>4 DEF MovedOn
  <2>6. stack[j] = Top
    BY <2>5 DEF Top
  <2> QED BY <2>1, <2>2, <2>3, <2>4, <2>5, <2>6
<1>2. Kind' = Kind /\ Inputs' = Inputs /\ Result' = Result /\ Nodes' = Nodes /\ Cells' = Cells
  BY <1>1, SameGraph
<1>3. FrameOk(j) /\ created' = created
  BY <1>1, Stays DEF IInv, FramesOk
<1>4. stack'[j].op = Top.op /\ stack'[j].of = Top.of /\ stack'[j].size = Top.size
  BY <1>1 DEF Old
<1>5. CASE Top.op = "register"
  <2>1. RegisterOk(j) /\ Of(j) = Top.of
    BY <1>1, <1>3, <1>5 DEF FrameOk, Op, Of
  <2>2. phase' = phase
    BY <1>1, <2>1, PhaseMoves DEF RegisterOk
  <2>3. Top.size \in Nat /\ stack'[j].next \in 1 .. Top.size + 1
    <3>1. Top.next \in 1 .. Top.size + 1 /\ Top.size = Len(Inputs[Top.of])
      BY <1>1, <2>1 DEF RegisterOk
    <3>2. Inputs[Top.of] \in Seq(Nodes)
      BY <1>1, <2>1, GraphFacts DEF RegisterOk
    <3> QED BY <1>1, <3>1, <3>2
  <2>4. ASSUME NEW k \in DOMAIN Inputs[Top.of], k >= stack'[j].next
        PROVE  Top.of \notin Range(updatables_'[Inputs[Top.of][k]])
    <3>1. Inputs[Top.of][k] \in Cells /\ k \in Nat /\ Top.of \in Nodes /\ Top.of # Final
      <4>1. Top.of \in Nodes
        BY <2>1 DEF RegisterOk
      <4> QED BY <1>1, <4>1, GraphFacts
    <3>2. Top.of \notin Range(updatables_[Inputs[Top.of][k]])
      <4>1. k >= Top.next
        BY <1>1, <2>4, <3>1
      <4> QED BY <1>1, <2>1, <4>1 DEF RegisterOk
    <3>3. ~Joins(Top.of, Inputs[Top.of][k])
      <4>1. SUFFICES ASSUME Register, RegisterLists(Top.of, Inputs[Top.of][k]) PROVE FALSE
        BY <3>1 DEF Joins
      <4>2. Top.next \in DOMAIN Inputs[Top.of] /\ Inputs[Top.of][k] = Inputs[Top.of][Top.next]
        BY <3>1, <4>1, JoinFacts
      <4>3. k = Top.next
        BY <1>1, <3>1, <4>2, GraphFacts
      <4> QED BY <1>1, <2>4, <3>1, <4>3
    <3> QED BY <3>1, <3>2, <3>3, ListsGrow DEF Range
  <2>5. RegisterOk(j)'
    BY <1>1, <1>2, <1>3, <1>4, <2>1, <2>2, <2>3, <2>4 DEF RegisterOk, Of
  <2> QED BY <1>4, <1>5, <2>5 DEF FrameOk, Op
<1>6. CASE Top.op = "evaluate"
  <2>1. EvaluateOk(j) /\ Of(j) = Top.of
    BY <1>1, <1>3, <1>6 DEF FrameOk, Op, Of
  <2>2. status'[Top.of] \in Ready /\ updatables_'[Top.of] = updatables_[Top.of]
    BY <2>1, Stays DEF EvaluateOk, IsReady
  <2>3. \A k \in DOMAIN stack' : stack'[k].op = "evaluate" /\ stack'[k].of = Top.of => k = j
    BY <1>4, <1>6, OneEvaluation
  <2>4. Top.size = Len(updatables_'[Top.of]) /\ stack'[j].next \in 1 .. Top.size + 1
    <3>1. Top.next \in 1 .. Top.size + 1 /\ Top.size = Len(updatables_[Top.of])
      BY <1>1, <2>1 DEF EvaluateOk
    <3>2. Len(updatables_[Top.of]) \in Nat
      BY <2>1, ListsGrow DEF EvaluateOk
    <3> QED BY <1>1, <2>2, <3>1, <3>2
  <2>5. EvaluateOk(j)'
    BY <1>2, <1>4, <2>1, <2>2, <2>3, <2>4 DEF EvaluateOk, Of, Op, IsReady
  <2> QED BY <1>4, <1>6, <2>5 DEF FrameOk, Op
<1> QED BY <1>5, <1>6 DEF MovedOn
LEMMA ToldFrame ==
    ASSUME IInv, Next, NEW j \in DOMAIN stack', NEW n \in Nodes \cup {Final}, Told(j, n)
    PROVE  FrameOk(j)'
<1>1. UNCHANGED graph /\ stack'[j].op = "update" /\ stack'[j].of = n
  BY Moves DEF Told, Frame
<1>2. Kind' = Kind /\ Nodes' = Nodes
  BY <1>1, SameGraph
<1>3. /\ j = Len(stack') /\ phase' # "released" /\ (n = Final => phase' = "open")
      /\ n # Final => n \in 1 .. created' /\ Kind[n] \in ListenerKinds
  <2>1. UNCHANGED <<created, phase>>
    BY ToldFacts
  <2>2. /\ j = Len(stack') /\ phase # "released" /\ (n = Final => phase = "open")
        /\ n # Final => n \in 1 .. created /\ Kind[n] \in ListenerKinds
    BY ToldFacts
  <2> QED BY <2>1, <2>2
<1> QED BY <1>1, <1>2, <1>3 DEF FrameOk, UpdateOk, Op, Of

LEMMA SettledFrame ==
    ASSUME IInv, Next, NEW j \in DOMAIN stack', NEW c \in Cells, Settled(j, c)
    PROVE  FrameOk(j)'
<1>1. /\ UNCHANGED graph /\ stack'[j].op = "evaluate" /\ stack'[j].of = c
      /\ stack'[j].next = 1 /\ stack'[j].size = Len(updatables_[c])
  BY Moves DEF Settled, Evaluation, Frame
<1>2. Cells' = Cells
  BY <1>1, SameGraph
<1>3. status'[c] \in Ready /\ UNCHANGED updatables_
  <2>1. PICK callers : Settle(c, callers)
    BY DEF Settled
  <2> QED BY <2>1, SettleFacts DEF Settle
<1>4. Len(updatables_[c]) \in Nat
  BY ListsGrow
<1>5. \A k \in DOMAIN stack' : stack'[k].op = "evaluate" /\ stack'[k].of = c => k = j
  BY <1>1, OneEvaluation
<1>6. EvaluateOk(j)'
  BY <1>1, <1>2, <1>3, <1>4, <1>5 DEF EvaluateOk, Op, Of, IsReady
<1> QED BY <1>1, <1>6 DEF FrameOk, Op

LEMMA GivingUpFrame ==
    ASSUME IInv, Next, NEW j \in DOMAIN stack', NEW c \in Cells, GivingUp(j, c)
    PROVE  FrameOk(j)'
<1>1. /\ UNCHANGED graph /\ stack'[j].op = "giveUp" /\ stack'[j].of = c /\ j = 1
      /\ TypeOK /\ graph \in Graphs
  BY Moves DEF GivingUp, Frame, IInv, TypeOK
<1>2. Kind' = Kind /\ Inputs' = Inputs /\ Cells' = Cells
  BY <1>1, SameGraph
<1>3. /\ phase' # "build" /\ created' = created /\ Kind[c] \in {"guarded", "async"}
      /\ Settle(c, <<Frame("giveUp", c, 0, 0)>>) /\ ~IsReady(c)
  BY DEF GivingUp, ByResolution, Settle
<1>4. TimeoutCellsOf(c)' = TimeoutCellsOf(c)
  BY <1>2, <1>3 DEF TimeoutCellsOf
<1>5. ASSUME NEW n \in TimeoutCellsOf(c) PROVE status'[n] \notin Ready
  <2>1. n \in Cells /\ Kind[n] = "timeout" /\ Inputs[n][1] = c
    <3>1. n \in 1 .. created /\ Kind[n] = "timeout" /\ Inputs[n][1] = c
      BY DEF TimeoutCellsOf
    <3>2. created \in 0 .. Len(Kind)
      BY <1>1 DEF TypeOK
    <3> QED BY <1>1, <3>1, <3>2, GraphFacts
  <2>2. ~IsReady(n) /\ n # c
    BY <1>3, <2>1 DEF IInv, CellsOk
  <2> QED BY <1>3, <2>1, <2>2, SettleFacts DEF IsReady
<1>6. GiveUpOk(j)'
  BY <1>1, <1>2, <1>3, <1>4, <1>5, SettleFacts DEF GiveUpOk, Of, IsReady
<1> QED BY <1>1, <1>6 DEF FrameOk, Op

LEMMA TrackingFrame ==
    ASSUME NEW j \in DOMAIN stack', NEW c \in Cells, Tracking(j, c)
    PROVE  FrameOk(j)'
<1>1. stack'[j].op = "track"
  BY DEF Tracking, Frame
<1> QED BY <1>1 DEF FrameOk, Op

LEMMA RegistersFrame ==
    ASSUME IInv, Next, NEW j \in DOMAIN stack', NEW n \in Nodes, Registers(j, n)
    PROVE  FrameOk(j)'
<1>1. /\ UNCHANGED graph /\ stack'[j].op = "register" /\ stack'[j].of = n /\ j = 1
      /\ stack'[j].next = 1 /\ stack'[j].size = Len(Inputs[n])
      /\ TypeOK /\ graph \in Graphs
  BY Moves DEF Registers, Frame, IInv, TypeOK
<1>2. Kind' = Kind /\ Inputs' = Inputs /\ Nodes' = Nodes
  BY <1>1, SameGraph
<1>3. /\ phase' = "build" /\ created' = n /\ Kind[n] \in ListenerKinds
      /\ n = created + 1 /\ UNCHANGED updatables_
  BY DEF Registers, NewNode
<1>4. ASSUME NEW k \in DOMAIN Inputs[n] PROVE n \notin Range(updatables_[Inputs[n][k]])
  <2>1. Inputs[n][k] \in Cells /\ n # Final /\ created \in Nat
    <3>1. created \in 0 .. Len(Kind)
      BY <1>1 DEF TypeOK
    <3> QED BY <1>1, <3>1, GraphFacts
  <2>2. \A m \in Range(updatables_[Inputs[n][k]]) : m # Final => m \in 1 .. created
    BY <2>1 DEF IInv, ListedOk, Range
  <2> QED BY <1>3, <2>1, <2>2
<1>5. Inputs[n] \in Seq(Nodes)
  BY <1>1, GraphFacts
<1>6. RegisterOk(j)'
  BY <1>1, <1>2, <1>3, <1>4, <1>5 DEF RegisterOk, Of
<1> QED BY <1>1, <1>6 DEF FrameOk, Op

LEMMA FramesStep ==
    ASSUME IInv, Next
    PROVE  FramesOk'
<1>1. ASSUME NEW j \in DOMAIN stack' PROVE FrameOk(j)'
  BY FrameMoves, KeptFrame, MovedFrame, ToldFrame, SettledFrame, GivingUpFrame, TrackingFrame,
     RegistersFrame DEF Comes
<1> QED BY <1>1 DEF FramesOk
-----------------------------------------------------------------------------
\* A registration goes on until every input before the last was seen.
LEMMA RegisterPendingStays ==
    ASSUME IInv, Next, NEW n \in Nodes, NEW k \in DOMAIN Inputs[n], RegisterPending(n, k)
    PROVE  \/ RegisterPending(n, k)'
           \/ Register /\ RegisterNotifies(n, Inputs[n][k])
           \/ Register /\ RegisterLists(n, Inputs[n][k])
<1>1. PICK i \in DOMAIN stack : Op(i) = "register" /\ Of(i) = n /\ stack[i].next <= k
  BY DEF RegisterPending
<1>2. /\ TypeOK /\ graph \in Graphs /\ RegisterOk(i) /\ i = 1 /\ k \in Nat
      /\ stack[i].next \in Nat /\ stack[i].size = Len(Inputs[n]) /\ k <= Len(Inputs[n])
      /\ stack # <<>> /\ Len(stack) \in Nat /\ DOMAIN stack = 1 .. Len(stack)
  <2>1. TypeOK /\ graph \in Graphs /\ RegisterOk(i)
    BY <1>1 DEF IInv, TypeOK, FramesOk, FrameOk
  <2>2. Inputs[n] \in Seq(Nodes)
    BY <2>1, GraphFacts
  <2>3. Len(stack) \in Nat /\ DOMAIN stack = 1 .. Len(stack)
    BY <2>1, StackFacts
  <2>4. stack # <<>>
    BY <2>3
  <2> QED BY <1>1, <2>1, <2>2, <2>3, <2>4 DEF RegisterOk, Of
<1>3. CASE i < Len(stack)
  <2>1. ~EvaluateGone
    BY <1>2 DEF EvaluateGone, RegisterOk
  <2>2. i \in DOMAIN stack' /\ stack'[i] = stack[i]
    BY <1>3, <2>1, FrameMoves DEF Goes, Kept
  <2> QED BY <1>1, <2>2 DEF RegisterPending, Op, Of
<1>4. CASE i = Len(stack)
  <2>1. Top = stack[i] /\ Top.op = "register" /\ Top.of = n /\ stack # <<>>
    BY <1>1, <1>2, <1>4 DEF Top, Op, Of
  <2>2. Register
    <3>1. CASE Create \/ Evaluate \/ Update \/ UpdateFinal \/ Track \/ EndBuild \/ GiveUp
      BY <2>1, <3>1 DEF Create, Evaluate, Update, UpdateFinal, Track, EndBuild, GiveUp, Running
    <3>2. CASE Resolution
      BY <2>1, <3>2 DEF Resolution, OnResponse, OnLastTimeout, Waiting
    <3> QED BY <3>1, <3>2 DEF Next, TurnStep
  <2>3. ~RegisterEnds
    BY <1>1, <1>2, <2>1 DEF RegisterEnds
  <2>4. PICK m \in Nodes, c \in Cells : RegisterNotifies(m, c) \/ RegisterLists(m, c)
    BY <2>2, <2>3, RegisterMoves
  <2>5. m = n /\ c = Inputs[n][Top.next]
    BY <2>1, <2>4 DEF RegisterNotifies, RegisterLists
  <2>6. CASE Top.next = k
    BY <2>2, <2>4, <2>5, <2>6
  <2>7. CASE Top.next # k
    <3>1. Top.next + 1 <= k /\ Onward.next = Top.next + 1 /\ Onward.op = "register" /\ Onward.of = n
      BY <1>1, <1>2, <2>1, <2>7, OnwardFacts, StackFacts
    <3>2. 1 \in DOMAIN stack' /\ stack'[1] = Onward
      <4>1. CASE RegisterNotifies(m, c)
        <5>1. Notifies(m)
          BY <4>1 DEF RegisterNotifies
        <5>2. DOMAIN stack' = 1 .. Len(stack) + 1 /\ stack'[Len(stack)] = Onward
          BY <1>2, <5>1, NotifyFacts
        <5>3. Len(stack) = 1
          BY <1>2, <1>4
        <5> QED BY <5>2, <5>3
      <4>2. CASE RegisterLists(m, c)
        BY <4>2 DEF RegisterLists
      <4> QED BY <2>4, <4>1, <4>2
    <3> QED BY <3>1, <3>2 DEF RegisterPending, Op, Of
  <2> QED BY <2>6, <2>7
<1>5. i < Len(stack) \/ i = Len(stack)
  BY <1>1, <1>2
<1> QED BY <1>3, <1>4, <1>5
LEMMA CreatedMoves ==
    ASSUME IInv, Next, created' # created
    PROVE  \/ \E n \in Nodes : n = created' /\ NewNode(n)
           \/ \E c \in Cells : /\ c = created' /\ ByCreation(c)
                               /\ Call(c) \/ \E callers : Settle(c, callers)
<1>1. CASE Register \/ Evaluate
  BY <1>1, RegisterMoves, EvaluateMoves
<1>2. CASE UpdateReturns \/ UpdateFinal \/ EndBuild \/ CallerEnds
  BY <1>2 DEF UpdateReturns, UpdateFinal, EndBuild, CallerEnds
<1>3. ASSUME NEW c \in Cells, Call(c) \/ \E callers : Settle(c, callers)
      PROVE  c = created' /\ ByCreation(c)
  BY <1>3 DEF Call, Settle, ByCreation, ByUpdate, ByGivingUp, ByResolution
<1>4. ASSUME NEW n \in Nodes, NewNode(n) PROVE n = created'
  BY <1>4 DEF NewNode
<1> QED BY <1>1, <1>2, <1>3, <1>4, Moves

LEMMA RegisteredStep ==
    ASSUME IInv, Next
    PROVE  RegisteredOk'
<1>1. /\ TypeOK /\ graph \in Graphs /\ UNCHANGED graph /\ RegisteredOk /\ Result \in Cells
      /\ created \in Nat /\ created \in 0 .. Len(Kind) /\ created' \in {created, created + 1}
  <2>1. TypeOK /\ graph \in Graphs /\ RegisteredOk /\ created \in 0 .. Len(Kind)
    BY DEF IInv, TypeOK
  <2>2. Len(Kind) \in Nat /\ Result \in Cells
    BY <2>1, GraphFacts
  <2>3. UNCHANGED graph
    BY Moves
  <2> QED BY <2>1, <2>2, <2>3, Stays
<1>2. Kind' = Kind /\ Inputs' = Inputs /\ Result' = Result
  BY <1>1, SameGraph
<1>3. \A c \in Cells : IsReady(c) => status'[c] \in Ready
  BY Stays DEF IsReady
<1>4. \A c \in Cells : Range(updatables_[c]) \subseteq Range(updatables_'[c])
  BY ListsGrow
<1>5. ASSUME NEW n \in Nodes \cup {Final}, NEW c \in Cells,
             updatables_' = [updatables_ EXCEPT ![c] = Append(@, n)]
      PROVE  n \in Range(updatables_'[c])
  <2>1. updatables_[c] \in Seq(Nodes \cup {Final}) /\ updatables_'[c] = Append(updatables_[c], n)
    BY <1>1, <1>5 DEF TypeOK
  <2>2. /\ DOMAIN updatables_'[c] = 1 .. Len(updatables_[c]) + 1 /\ Len(updatables_[c]) \in Nat
        /\ updatables_'[c][Len(updatables_[c]) + 1] = n
    BY <2>1, PushFacts
  <2> QED BY <2>2 DEF Range
<1>6. ASSUME NEW n \in 1 .. created', Kind[n] \in ListenerKinds, NEW k \in DOMAIN Inputs[n]
      PROVE  \/ status'[Inputs[n][k]] \in Ready
             \/ n \in Range(updatables_'[Inputs[n][k]])
             \/ RegisterPending(n, k)'
  <2>1. CASE n \in 1 .. created
    <3>1. n \in Nodes /\ Inputs[n][k] \in Cells
      <4>1. n \in Nodes
        BY <1>1, <2>1, GraphFacts
      <4> QED BY <1>1, <4>1, GraphFacts
    <3>2. CASE IsReady(Inputs[n][k]) \/ n \in Range(updatables_[Inputs[n][k]])
      BY <1>3, <1>4, <3>1, <3>2
    <3>3. CASE RegisterPending(n, k)
      BY <1>3, <1>5, <3>1, <3>3, RegisterPendingStays DEF RegisterNotifies, RegisterLists
    <3> QED BY <1>1, <1>6, <2>1, <3>2, <3>3 DEF RegisteredOk
  <2>2. CASE n \notin 1 .. created
    <3>1. n = created' /\ created' # created
      BY <1>1, <2>2
    <3>2. CASE n \in Nodes /\ NewNode(n)
      <4>1. stack' = <<Frame("register", n, 1, Len(Inputs[n]))>>
        BY <1>6, <3>2 DEF NewNode, ListenerKinds
      <4>2. 1 \in DOMAIN stack' /\ stack'[1] = Frame("register", n, 1, Len(Inputs[n]))
        BY <4>1
      <4>3. 1 <= k
        <5>1. Inputs[n] \in Seq(Nodes)
          BY <1>1, <3>2, GraphFacts
        <5> QED BY <5>1
      <4> QED BY <4>2, <4>3 DEF RegisterPending, Op, Of, Frame
    <3>3. CASE ByCreation(n)
      <4>1. DOMAIN Inputs[n] = {}
        BY <3>3 DEF ByCreation
      <4> QED BY <4>1
    <3> QED BY <3>1, <3>2, <3>3, CreatedMoves
  <2> QED BY <2>1, <2>2
<1>7. ASSUME phase' = "open"
      PROVE  status'[Result] \in Ready \/ Final \in Range(updatables_'[Result])
  <2>1. CASE phase = "open"
    BY <1>1, <1>3, <1>4, <2>1 DEF RegisteredOk
  <2>2. CASE EndBuild
    BY <1>1, <1>5, <1>7, <2>2 DEF EndBuild
  <2> QED BY <1>7, <2>1, <2>2, PhaseMoves
<1> QED BY <1>2, <1>6, <1>7 DEF RegisteredOk, IsReady
-----------------------------------------------------------------------------
(* Notifications. *)

\* In the list that is evaluated, n comes at or after the frame's next listener.
LEMMA EvaluatePendingStays ==
    ASSUME IInv, Next, ~EvaluateGone, NEW i \in DOMAIN stack, NEW n, EvaluatePending(i, n)
    PROVE  \/ EvaluatePending(i, n)' /\ i \in DOMAIN stack'
           \/ n \in Nodes \cup {Final} /\ EvaluateNext(n)
<1>1. PICK k \in DOMAIN updatables_[Of(i)] : k >= stack[i].next /\ updatables_[Of(i)][k] = n
  BY DEF EvaluatePending
<1>2. /\ TypeOK /\ EvaluateOk(i) /\ Op(i) = "evaluate" /\ stack[i] \in Frames
      /\ stack # <<>> /\ Len(stack) \in Nat /\ DOMAIN stack = 1 .. Len(stack)
  <2>1. Len(stack) \in Nat /\ DOMAIN stack = 1 .. Len(stack) /\ stack \in Seq(Frames)
    BY StackFacts DEF IInv
  <2>2. stack # <<>>
    BY <2>1
  <2>3. stack[i] \in Frames
    BY <2>1
  <2> QED BY <2>1, <2>2, <2>3 DEF EvaluatePending, IInv, FramesOk, FrameOk
<1>3. updatables_'[Of(i)] = updatables_[Of(i)]
  BY <1>2, Stays DEF EvaluateOk
<1>4. CASE i < Len(stack)
  <2>1. i \in DOMAIN stack' /\ stack'[i] = stack[i]
    BY <1>4, FrameMoves DEF Goes, Kept
  <2> QED BY <1>1, <1>2, <1>3, <2>1 DEF EvaluatePending, Op, Of
<1>5. CASE i = Len(stack)
  <2>1. Top = stack[i] /\ Top.op = "evaluate" /\ Top.of = Of(i) /\ Top.size = Len(updatables_[Of(i)])
    BY <1>2, <1>5 DEF Top, Op, Of, EvaluateOk
  <2>2. Evaluate
    <3>1. CASE Create \/ Register \/ Update \/ UpdateFinal \/ Track \/ EndBuild \/ GiveUp
      BY <1>2, <2>1, <3>1 DEF Create, Register, Update, UpdateFinal, Track, EndBuild, GiveUp, Running
    <3>2. CASE Resolution
      BY <1>2, <3>2 DEF Resolution, OnResponse, OnLastTimeout, Waiting
    <3> QED BY <3>1, <3>2 DEF Next, TurnStep
  <2>3. k \in Nat /\ k <= Top.size /\ Top.next \in Nat /\ Top.size \in Nat
    BY <1>1, <1>2, <2>1, ListsGrow DEF EvaluateOk, Frames
  <2>4. ~EvaluateEnds
    BY <1>1, <2>1, <2>3 DEF EvaluateEnds
  <2>5. PICK m \in Nodes \cup {Final} : EvaluateNext(m)
    BY <2>2, <2>4, EvaluateMoves
  <2>6. CASE k = Top.next
    BY <1>1, <2>1, <2>5, <2>6 DEF EvaluateNext
  <2>7. CASE k # Top.next
    <3>1. i \in DOMAIN stack' /\ stack'[i] = Onward
      BY <1>2, <1>5, <2>5, NotifyFacts DEF EvaluateNext
    <3>2. /\ Onward.op = "evaluate" /\ Onward.of = Of(i) /\ Onward.next = Top.next + 1
          /\ k >= Top.next + 1
      BY <1>1, <1>2, <2>1, <2>3, <2>7, OnwardFacts
    <3> QED BY <1>1, <1>3, <3>1, <3>2 DEF EvaluatePending, Op, Of
  <2> QED BY <2>6, <2>7
<1> QED BY <1>2, <1>4, <1>5
LEMMA NotifiedIsPending ==
    ASSUME TypeOK, NEW n \in Nodes \cup {Final}, Notifies(n)
    PROVE  Pending(n)'
<1>1. Len(stack) + 1 \in DOMAIN stack' /\ stack'[Len(stack) + 1] = Frame("update", n, 0, 0)
  <2>1. stack # <<>>
    BY DEF Notifies
  <2>2. Len(stack) \in Nat \ {0}
    BY <2>1, StackFacts
  <2>3. DOMAIN stack' = 1 .. Len(stack) + 1
    BY NotifyFacts
  <2> QED BY <2>2, <2>3, NotifyFacts
<1> QED BY <1>1 DEF Pending, Op, Of, Frame

LEMMA PendingStays ==
    ASSUME IInv, Next, ~EvaluateGone, NEW n \in Nodes \cup {Final}, Pending(n),
           n \in Nodes => AllReady(n)
    PROVE  Pending(n)' \/ (Running("update") /\ Top.of = n)
<1>1. /\ TypeOK /\ graph \in Graphs /\ UNCHANGED graph
      /\ Len(stack) \in Nat /\ DOMAIN stack = 1 .. Len(stack)
  BY Moves, StackFacts DEF IInv, TypeOK
<1>2. Inputs' = Inputs /\ Nodes' = Nodes
  BY <1>1, SameGraph
<1>3. ASSUME NEW i \in DOMAIN stack, Op(i) = "update", Of(i) = n
      PROVE  Running("update") /\ Top.of = n
  <2>1. i = Len(stack) /\ stack # <<>>
    BY <1>1, <1>3 DEF IInv, FramesOk, FrameOk, UpdateOk
  <2> QED BY <1>3, <2>1 DEF Running, Top, Op, Of
<1>4. ASSUME NEW i \in DOMAIN stack, EvaluatePending(i, n) PROVE Pending(n)'
  <2>1. CASE EvaluatePending(i, n)' /\ i \in DOMAIN stack'
    BY <2>1 DEF Pending
  <2>2. CASE EvaluateNext(n)
    BY <1>1, <2>2, NotifiedIsPending DEF EvaluateNext
  <2> QED BY <1>4, <2>1, <2>2, EvaluatePendingStays
<1>5. ASSUME n \in Nodes, RegisterPending(n, Len(Inputs[n])) PROVE Pending(n)'
  <2>1. PICK k \in DOMAIN Inputs[n] : k = Len(Inputs[n]) /\ k \in 1 .. Len(Inputs[n])
    <3>1. Inputs[n] \in Seq(Nodes)
      BY <1>1, <1>5, GraphFacts
    <3>2. PICK i \in DOMAIN stack : Op(i) = "register" /\ Of(i) = n /\ stack[i].next <= Len(Inputs[n])
      BY <1>5 DEF RegisterPending
    <3>3. RegisterOk(i)
      BY <3>2 DEF IInv, FramesOk, FrameOk
    <3> QED BY <3>1, <3>2, <3>3 DEF RegisterOk
  <2>2. CASE RegisterPending(n, k)'
    BY <1>2, <1>5, <2>1, <2>2 DEF Pending, RegisterPending
  <2>3. CASE RegisterNotifies(n, Inputs[n][k])
    BY <1>1, <2>3, NotifiedIsPending DEF RegisterNotifies
  <2>4. CASE RegisterLists(n, Inputs[n][k])
    BY <1>5, <2>1, <2>4 DEF RegisterLists, AllReady
  <2> QED BY <1>5, <2>1, <2>2, <2>3, <2>4, RegisterPendingStays
<1> QED BY <1>3, <1>4, <1>5 DEF Pending

\* The update on top of the stack ends as one of three moves.
LEMMA UpdateStep ==
    ASSUME IInv, Next, Running("update"), Top.of \in Nodes
    PROVE  \/ UpdateReturns
           \/ Top.of \in Cells /\ (Call(Top.of) \/ \E callers : Settle(Top.of, callers))
<1>1. Update
  <2>1. Top.of # Final
    BY GraphFacts DEF IInv, TypeOK
  <2>2. CASE Create \/ Register \/ Evaluate \/ UpdateFinal \/ Track \/ EndBuild \/ GiveUp
    BY <2>1, <2>2 DEF Create, Register, Evaluate, UpdateFinal, Track, EndBuild, GiveUp, Running
  <2>3. CASE Resolution
    BY <2>3 DEF Resolution, OnResponse, OnLastTimeout, Waiting, Running
  <2> QED BY <2>2, <2>3 DEF Next, TurnStep
<1>2. ASSUME NEW c \in Cells, Call(c) \/ \E callers : Settle(c, callers)
      PROVE  c = Top.of
  BY <1>2 DEF Settle, Call, ByCreation, ByUpdate, ByGivingUp, ByResolution, Running
<1> QED BY <1>1, <1>2, UpdateMoves

LEMMA FinalStep ==
    ASSUME IInv, Next, Running("update"), Top.of = Final
    PROVE  UpdateFinal
<1>1. CASE Create \/ Register \/ Evaluate \/ Update \/ Track \/ EndBuild \/ GiveUp
  BY <1>1 DEF Create, Register, Evaluate, Update, Track, EndBuild, GiveUp, Running
<1>2. CASE Resolution
  BY <1>2 DEF Resolution, OnResponse, OnLastTimeout, Waiting, Running
<1> QED BY <1>1, <1>2 DEF Next, TurnStep

\* A cell that becomes ready has told none of its listeners yet.
LEMMA SettledListeners ==
    ASSUME IInv, Next, NEW c \in Cells, NEW callers, Settle(c, callers),
           NEW n \in Range(updatables_[c])
    PROVE  Pending(n)'
<1>1. UNCHANGED graph
  BY Moves
<1>2. /\ Len(stack') \in DOMAIN stack' /\ stack'[Len(stack')] = Evaluation(c)
      /\ UNCHANGED updatables_
  BY <1>1, SettleFrames DEF Settled, Settle
<1>3. \A k \in DOMAIN updatables_[c] : k >= 1
  BY ListsGrow
<1>4. PICK k \in DOMAIN updatables_[c] : updatables_[c][k] = n
  BY DEF Range
<1>5. PICK i \in DOMAIN stack' : stack'[i] = Evaluation(c)
  BY <1>2
<1>6. stack'[i].op = "evaluate" /\ stack'[i].of = c /\ stack'[i].next = 1
  BY <1>5 DEF Evaluation, Frame
<1>7. EvaluatePending(i, n)'
  BY <1>2, <1>3, <1>4, <1>6 DEF EvaluatePending, Op, Of
<1> QED BY <1>5, <1>7 DEF Pending
\* An rpc in flight stays in flight until it resolves its cell.
LEMMA FlightStays ==
    ASSUME IInv, Next, NEW c \in Cells, flights[c] > 0
    PROVE  flights'[c] > 0 \/ status'[c] \in Ready
<1>1. CASE Register \/ Evaluate
  BY <1>1, RegisterMoves, EvaluateMoves
<1>2. CASE UpdateReturns \/ UpdateFinal \/ EndBuild \/ CallerEnds \/ \E n \in Nodes : NewNode(n)
  BY <1>2 DEF UpdateReturns, UpdateFinal, EndBuild, CallerEnds, NewNode
<1>3. ASSUME NEW d \in Cells, NEW callers, Settle(d, callers)
      PROVE  flights'[c] > 0 \/ status'[c] \in Ready
  BY <1>3, SettleFacts
<1>4. ASSUME NEW d \in Cells, Call(d) PROVE flights'[c] > 0
  BY <1>4, CallFacts
<1> QED BY <1>1, <1>2, <1>3, <1>4, Moves

LEMMA PendingStep ==
    ASSUME IInv, Next
    PROVE  PendingOk'
<1>0. SUFFICES ASSUME phase' # "released" PROVE PendingOk'
  BY DEF PendingOk
<1>1. /\ TypeOK /\ graph \in Graphs /\ UNCHANGED graph /\ PendingOk /\ Result \in Cells
      /\ created \in Nat /\ created \in 0 .. Len(Kind) /\ created' \in {created, created + 1}
  <2>1. TypeOK /\ graph \in Graphs /\ PendingOk /\ created \in 0 .. Len(Kind)
    BY DEF IInv, TypeOK
  <2>2. Len(Kind) \in Nat /\ Result \in Cells
    BY <2>1, GraphFacts
  <2>3. UNCHANGED graph
    BY Moves
  <2> QED BY <2>1, <2>2, <2>3, Stays
<1>2. Kind' = Kind /\ Inputs' = Inputs /\ Result' = Result /\ Nodes' = Nodes
  BY <1>1, SameGraph
<1>3. phase # "released" /\ ~EvaluateGone
  BY <1>0, PhaseMoves DEF EvaluateGone
<1>4. /\ \A c \in Cells : IsReady(c) => status'[c] \in Ready
      /\ is_rpc_started_ \subseteq is_rpc_started_'
  BY Stays DEF IsReady
<1>5. ASSUME NEW n \in 1 .. created', Kind[n] \in {"derived", "guarded", "async"},
             \A k \in 1 .. Len(Inputs[n]) : status'[Inputs[n][k]] \in Ready
      PROVE  \/ Pending(n)'
             \/ n \in Cells /\ status'[n] \in Ready
             \/ Kind[n] = "guarded" /\ n \in is_rpc_started_'
             \/ Kind[n] = "async" /\ flights'[n] > 0
  <2>0. /\ n \in Nodes /\ n \in Cells /\ Kind[n] \in ListenerKinds /\ Inputs[n] \in Seq(Nodes)
        /\ \A k \in DOMAIN Inputs[n] : Inputs[n][k] \in Cells
    <3>1. n \in Nodes
      <4>1. CASE n \in 1 .. created
        BY <1>1, <4>1, GraphFacts
      <4>2. CASE n \notin 1 .. created
        <5>1. n = created' /\ created' # created
          BY <1>1, <4>2
        <5> QED BY <1>1, <5>1, CreatedMoves, GraphFacts
      <4> QED BY <4>1, <4>2
    <3> QED BY <1>1, <1>5, <3>1, GraphFacts DEF ListenerKinds
  <2>1. CASE n \in 1 .. created /\ AllReady(n)
    <3>1. CASE Pending(n)
      <4>1. CASE Running("update") /\ Top.of = n
        <5>1. CASE UpdateReturns
          BY <1>4, <1>5, <2>0, <2>1, <4>1, <5>1 DEF UpdateReturns
        <5>2. CASE Call(n)
          BY <1>5, <2>0, <5>2, CallFacts
        <5>3. ASSUME NEW callers, Settle(n, callers) PROVE n \in Cells /\ status'[n] \in Ready
          BY <2>0, <5>3, SettleFacts
        <5> QED BY <2>0, <4>1, <5>1, <5>2, <5>3, UpdateStep
      <4> QED BY <1>3, <2>0, <2>1, <3>1, <4>1, PendingStays
    <3>2. CASE IsReady(n)
      BY <1>4, <2>0, <3>2
    <3>3. CASE Kind[n] = "guarded" /\ n \in is_rpc_started_
      BY <1>4, <3>3
    <3>4. CASE Kind[n] = "async" /\ flights[n] > 0
      BY <2>0, <3>4, FlightStays
    <3> QED BY <1>1, <1>3, <1>5, <2>1, <3>1, <3>2, <3>3, <3>4 DEF PendingOk
  <2>2. CASE n \in 1 .. created /\ ~AllReady(n)
    <3>1. PICK k \in DOMAIN Inputs[n] : ~IsReady(Inputs[n][k])
      BY <2>0, <2>2 DEF AllReady
    <3>2. PICK c \in Cells : c = Inputs[n][k]
      BY <2>0, <3>1
    <3>3. k \in 1 .. Len(Inputs[n]) /\ Len(Inputs[n]) \in Nat
      BY <2>0, <3>1
    <3>4. ~IsReady(c) /\ status'[c] # status[c]
      BY <1>5, <3>1, <3>2, <3>3 DEF IsReady
    <3>5. PICK callers : Settle(c, callers)
      BY <3>4, Stays
    <3>6. CASE n \in Range(updatables_[c])
      BY <3>5, <3>6, SettledListeners
    <3>7. CASE RegisterPending(n, k)
      <4>1. ~Register
        BY <3>4, RegisterMoves
      <4>2. RegisterPending(n, k)'
        BY <2>0, <3>1, <3>7, <4>1, RegisterPendingStays
      <4>3. PICK i \in DOMAIN stack' :
               stack'[i].op = "register" /\ stack'[i].of = n /\ stack'[i].next <= k
        BY <4>2 DEF RegisterPending, Op, Of
      <4>4. stack'[i].next \in Nat
        BY <4>3, NextFrames DEF Frames
      <4>5. stack'[i].next <= Len(Inputs[n])
        BY <3>3, <4>3, <4>4
      <4> QED BY <1>2, <2>0, <4>3, <4>5 DEF Pending, RegisterPending, Op, Of
    <3> QED BY <2>0, <2>2, <3>1, <3>2, <3>4, <3>6, <3>7 DEF IInv, RegisteredOk
  <2>3. CASE n \notin 1 .. created
    <3>1. n = created' /\ created' # created
      BY <1>1, <2>3
    <3>2. CASE NewNode(n)
      <4>1. stack' = <<Frame("register", n, 1, Len(Inputs[n]))>> /\ Inputs[n] # <<>>
        BY <1>5, <3>2 DEF NewNode
      <4>2. 1 \in DOMAIN stack' /\ stack'[1] = Frame("register", n, 1, Len(Inputs[n]))
        BY <4>1
      <4>3. 1 <= Len(Inputs[n])
        BY <2>0, <4>1
      <4> QED BY <1>2, <2>0, <4>2, <4>3 DEF Pending, RegisterPending, Op, Of, Frame
    <3>3. CASE ByCreation(n)
      BY <1>5, <3>3 DEF ByCreation, Starts
    <3> QED BY <3>1, <3>2, <3>3, CreatedMoves
  <2> QED BY <2>1, <2>2, <2>3
<1>6. ASSUME phase' = "open", status'[Result] \in Ready
      PROVE  Pending(Final)'
  <2>0. phase = "open"
    BY <1>6, PhaseMoves DEF EndBuild, IsReady
  <2>1. CASE IsReady(Result)
    <3>1. Final \notin Nodes /\ Pending(Final)
      BY <1>1, <1>3, <2>0, <2>1, GraphFacts DEF PendingOk
    <3>2. ~(Running("update") /\ Top.of = Final)
      BY <1>6, FinalStep DEF UpdateFinal
    <3> QED BY <1>3, <3>1, <3>2, PendingStays
  <2>2. CASE ~IsReady(Result)
    <3>1. PICK c \in Cells : c = Result
      BY <1>1
    <3>2. PICK callers : Settle(c, callers)
      BY <1>6, <2>2, <3>1, Stays DEF IsReady
    <3>3. Final \in Range(updatables_[c])
      BY <2>0, <2>2, <3>1 DEF IInv, RegisteredOk
    <3> QED BY <3>2, <3>3, SettledListeners
  <2> QED BY <2>1, <2>2
<1>7. ASSUME NEW n \in 1 .. created', AllReady(n)'
      PROVE  /\ Kind[n] = "derived" => IsReady(n)' \/ Pending(n)'
             /\ Kind[n] = "guarded" => n \in is_rpc_started_' \/ Pending(n)'
             /\ Kind[n] = "async" => IsReady(n)' \/ flights'[n] > 0 \/ Pending(n)'
  <2>1. \A k \in 1 .. Len(Inputs[n]) : status'[Inputs[n][k]] \in Ready
    BY <1>2, <1>7 DEF AllReady, IsReady
  <2>2. ASSUME Kind[n] = "guarded", n \in Cells, status'[n] \in Ready
        PROVE  n \in is_rpc_started_'
    <3>1. Cells' = Cells /\ CellsOk'
      BY <1>1, SameGraph, CellsStep
    <3> QED BY <1>2, <2>2, <3>1 DEF CellsOk, IsReady
  <2>3. IsReady(n)' <=> status'[n] \in Ready
    BY DEF IsReady
  <2> QED BY <1>5, <2>1, <2>2, <2>3
<1>8. phase' = "open" /\ IsReady(Result)' => Pending(Final)'
  BY <1>2, <1>6 DEF IsReady
<1> QED BY <1>2, <1>7, <1>8 DEF PendingOk
-----------------------------------------------------------------------------
(* An asynchronous cell is told once. *)

LEMMA EvaluatePendingFrom ==
    ASSUME IInv, Next, NEW j \in DOMAIN stack', NEW n, EvaluatePending(j, n)'
    PROVE  \/ Old(j) /\ EvaluatePending(j, n)
           \/ \E c \in Cells : Settled(j, c) /\ n \in Range(updatables_[c])
<1>1. /\ stack'[j].op = "evaluate"
      /\ \E k \in DOMAIN updatables_'[stack'[j].of] :
            k >= stack'[j].next /\ updatables_'[stack'[j].of][k] = n
  BY DEF EvaluatePending, Op, Of
<1>2. PICK k \in DOMAIN updatables_'[stack'[j].of] :
         k >= stack'[j].next /\ updatables_'[stack'[j].of][k] = n
  BY <1>1
<1>3. CASE Old(j)
  <2>1. /\ j \in DOMAIN stack /\ Op(j) = "evaluate" /\ Of(j) = stack'[j].of /\ EvaluateOk(j)
        /\ stack[j].next \in Nat /\ stack'[j].next \in {stack[j].next, stack[j].next + 1}
    BY <1>1, <1>3 DEF Old, Op, Of, IInv, FramesOk, FrameOk
  <2>2. updatables_'[Of(j)] = updatables_[Of(j)] /\ Of(j) \in Cells
    BY <2>1, Stays DEF EvaluateOk
  <2>3. k \in DOMAIN updatables_[Of(j)] /\ k \in Nat
    BY <1>2, <2>1, <2>2, ListsGrow
  <2>4. k >= stack[j].next
    BY <1>2, <2>1, <2>3
  <2> QED BY <1>2, <1>3, <2>1, <2>2, <2>3, <2>4 DEF EvaluatePending
<1>4. ASSUME NEW c \in Cells, Settled(j, c) PROVE n \in Range(updatables_[c])
  <2>1. stack'[j].of = c /\ UNCHANGED updatables_
    BY <1>4 DEF Settled, Evaluation, Frame, Settle
  <2> QED BY <1>2, <2>1 DEF Range
<1> QED BY <1>1, <1>3, <1>4, Origins

LEMMA RegisterPendingFrom ==
    ASSUME IInv, Next, NEW n \in Nodes, NEW k \in Nat, RegisterPending(n, k)'
    PROVE  \/ \E j \in DOMAIN stack' : Old(j) /\ Op(j) = "register" /\ RegisterPending(n, k)
           \/ NewNode(n)
<1>1. PICK j \in DOMAIN stack' :
         stack'[j].op = "register" /\ stack'[j].of = n /\ stack'[j].next <= k
  BY DEF RegisterPending, Op, Of
<1>2. CASE Old(j)
  <2>1. /\ j \in DOMAIN stack /\ Op(j) = "register" /\ Of(j) = n
        /\ stack[j].next \in Nat /\ stack'[j].next \in {stack[j].next, stack[j].next + 1}
    BY <1>1, <1>2 DEF Old, Op, Of
  <2>2. stack[j].next <= k
    BY <1>1, <2>1
  <2> QED BY <1>2, <2>1, <2>2 DEF RegisterPending
<1>3. ASSUME NEW m \in Nodes, Registers(j, m) PROVE NewNode(n)
  BY <1>1, <1>3 DEF Registers, Frame
<1> QED BY <1>1, <1>2, <1>3, Origins

\* An asynchronous cell that waits for its input starts to follow something only
\* when it is updated.
LEMMA AsyncMoves ==
    ASSUME IInv, Next, NEW n \in Cells, Kind[n] = "async", flights[n] = 0, ~IsReady(n)
    PROVE  \/ flights'[n] = 0 /\ status'[n] \notin Ready
           \/ Running("update") /\ Top.of = n
<1>1. CASE Register \/ Evaluate
  BY <1>1, RegisterMoves, EvaluateMoves DEF IsReady
<1>2. CASE UpdateReturns \/ UpdateFinal \/ EndBuild \/ CallerEnds \/ \E m \in Nodes : NewNode(m)
  BY <1>2 DEF UpdateReturns, UpdateFinal, EndBuild, CallerEnds, NewNode, IsReady
<1>3. ASSUME NEW d \in Cells, NEW callers, Settle(d, callers)
      PROVE  \/ flights'[n] = 0 /\ status'[n] \notin Ready
             \/ Running("update") /\ Top.of = n
  <2>1. CASE d # n
    BY <1>3, <2>1, SettleFacts DEF IsReady
  <2>2. CASE d = n
    BY <1>3, <2>2 DEF Settle, ByCreation, ByUpdate, ByGivingUp, ByResolution
  <2> QED BY <2>1, <2>2
<1>4. ASSUME NEW d \in Cells, Call(d)
      PROVE  \/ flights'[n] = 0 /\ status'[n] \notin Ready
             \/ Running("update") /\ Top.of = n
  <2>1. CASE d # n
    BY <1>4, <2>1, CallFacts DEF IsReady
  <2>2. CASE d = n
    BY <1>4, <2>2 DEF Call, ByCreation, ByUpdate
  <2> QED BY <2>1, <2>2
<1> QED BY <1>1, <1>2, <1>3, <1>4, Moves

\* Its input is the only cell it listens to.
LEMMA AsyncInput ==
    ASSUME IInv, NEW n \in Cells, Kind[n] = "async"
    PROVE  /\ n \in Nodes /\ n # Final /\ Len(Inputs[n]) = 1 /\ 1 \in DOMAIN Inputs[n]
           /\ Inputs[n][1] \in Cells
           /\ \A k \in DOMAIN Inputs[n] : k = 1
           /\ \A c \in Cells : n \in Range(updatables_[c]) => c = Inputs[n][1]
<1>1. graph \in Graphs
  BY DEF IInv, TypeOK
<1>2. /\ n \in Nodes /\ n # Final /\ Len(Inputs[n]) = 1 /\ 1 \in DOMAIN Inputs[n]
      /\ Inputs[n] \in Seq(Nodes)
  <2>1. n \in Nodes
    BY <1>1, GraphFacts
  <2> QED BY <1>1, <2>1, GraphFacts, InputFacts
<1>3. \A k \in DOMAIN Inputs[n] : k = 1
  BY <1>2
<1>4. \A c \in Cells : n \in Range(updatables_[c]) => c \in Range(Inputs[n])
  BY <1>2 DEF IInv, ListedOk, Range
<1> QED BY <1>1, <1>2, <1>3, <1>4, GraphFacts DEF Range

LEMMA AwaitsStep ==
    ASSUME IInv, Next, NEW n \in Cells, Kind[n] = "async", n <= created, Awaits(n)'
    PROVE  Awaits(n)
<1>1. /\ TypeOK /\ graph \in Graphs /\ UNCHANGED graph /\ n \in Nodes /\ n # Final
      /\ Len(Inputs[n]) = 1 /\ Inputs[n][1] \in Cells /\ 1 \in DOMAIN Inputs[n]
  BY Moves, AsyncInput DEF IInv, TypeOK
<1>2. Inputs' = Inputs /\ Nodes' = Nodes
  BY <1>1, SameGraph
<1>3. PICK c \in Cells : c = Inputs[n][1]
  BY <1>1
<1>4. ASSUME NEW j \in DOMAIN stack', stack'[j].op = "update", stack'[j].of = n PROVE Pending(n)
  <2>1. PICK m \in Nodes \cup {Final} : Told(j, m)
    BY <1>4, Origins
  <2>2. m = n
    BY <1>4, <2>1 DEF Told, Frame
  <2>3. /\ Len(stack) \in DOMAIN stack /\ Top = stack[Len(stack)] /\ Top.next \in Nat
        /\ \/ /\ Top.op = "evaluate" /\ Top.next \in DOMAIN updatables_[Top.of]
              /\ n = updatables_[Top.of][Top.next]
           \/ /\ Top.op = "register" /\ n = Top.of /\ Top.next \in DOMAIN Inputs[n]
    BY <2>1, <2>2, ToldFacts
  <2>4. CASE Top.op = "evaluate" /\ Top.next \in DOMAIN updatables_[Top.of]
             /\ n = updatables_[Top.of][Top.next]
    <3>1. EvaluatePending(Len(stack), n)
      BY <2>3, <2>4 DEF EvaluatePending, Op, Of
    <3> QED BY <2>3, <3>1 DEF Pending
  <2>5. CASE Top.op = "register" /\ n = Top.of /\ Top.next \in DOMAIN Inputs[n]
    <3>1. Top.next <= Len(Inputs[n])
      BY <1>1, <2>5, AsyncInput
    <3> QED BY <1>1, <2>3, <2>5, <3>1 DEF Pending, RegisterPending, Op, Of
  <2> QED BY <2>3, <2>4, <2>5
<1>5. ASSUME NEW j \in DOMAIN stack', EvaluatePending(j, n)' PROVE Awaits(n)
  <2>1. CASE Old(j) /\ EvaluatePending(j, n)
    BY <2>1 DEF Old, Pending, Awaits
  <2>2. ASSUME NEW d \in Cells, Settled(j, d), n \in Range(updatables_[d]) PROVE Awaits(n)
    <3>1. d = c /\ ~IsReady(d)
      BY <1>3, <2>2, AsyncInput DEF Settled, Settle
    <3> QED BY <1>3, <2>2, <3>1 DEF Awaits
  <2> QED BY <1>5, <2>1, <2>2, EvaluatePendingFrom
<1>6. ~NewNode(n)
  <2>1. created \in Nat /\ n \in Nat
    <3>1. created \in 0 .. Len(Kind)
      BY <1>1 DEF TypeOK
    <3> QED BY <1>1, <3>1, GraphFacts
  <2> QED BY <2>1 DEF NewNode
<1>7. ASSUME RegisterPending(n, 1)' PROVE Pending(n)
  BY <1>1, <1>6, <1>7, RegisterPendingFrom DEF Pending
<1>8. ASSUME n \in Range(updatables_'[c]), status'[c] \notin Ready PROVE Awaits(n)
  <2>1. ~IsReady(c)
    BY <1>8, Stays DEF IsReady
  <2>2. CASE n \in Range(updatables_[c])
    BY <1>3, <2>1, <2>2 DEF Awaits
  <2>3. CASE Register /\ RegisterLists(n, c)
    <3>1. /\ n = Top.of /\ Top.next \in DOMAIN Inputs[n] /\ Top.op = "register"
          /\ Len(stack) \in DOMAIN stack /\ Top = stack[Len(stack)]
      BY <1>1, <2>3, JoinFacts, TopFacts DEF RegisterLists, Register, Running
    <3>2. Top.next <= Len(Inputs[n])
      BY <1>1, <3>1, AsyncInput
    <3> QED BY <1>1, <3>1, <3>2 DEF Awaits, Pending, RegisterPending, Op, Of
  <2> QED BY <1>1, <1>8, <2>2, <2>3, ListsGrow DEF Range, Joins
<1>9. Pending(n)' => Awaits(n)
  BY <1>1, <1>2, <1>4, <1>5, <1>7 DEF Pending, Awaits, Op, Of
<1> QED BY <1>2, <1>3, <1>8, <1>9 DEF Awaits, IsReady
\* The update of an asynchronous cell is the last it hears of its input.
LEMMA UpdateIsLast ==
    ASSUME IInv, Next, NEW n \in Cells, Kind[n] = "async", Running("update"), Top.of = n
    PROVE  ~Awaits(n)'
<1>1. /\ TypeOK /\ graph \in Graphs /\ UNCHANGED graph /\ n \in Nodes /\ n # Final
      /\ Len(Inputs[n]) = 1 /\ Inputs[n][1] \in Cells
  BY Moves, AsyncInput DEF IInv, TypeOK
<1>2. Inputs' = Inputs /\ Nodes' = Nodes
  BY <1>1, SameGraph
<1>3. PICK c \in Cells : c = Inputs[n][1]
  BY <1>1
<1>4. /\ IsReady(c) /\ ~RegisterPending(n, 1)
      /\ \A i \in DOMAIN stack : ~EvaluatePending(i, n)
  <2>1. Len(stack) \in DOMAIN stack /\ stack[Len(stack)] = Top
    BY TopFacts DEF Running
  <2>2. \E i \in DOMAIN stack : Op(i) = "update" /\ Of(i) = n
    BY <2>1 DEF Running, Op, Of
  <2> QED BY <1>3, <2>2 DEF IInv, AsyncOk
<1>5. ASSUME NEW j \in DOMAIN stack', stack'[j].op = "update", stack'[j].of = n PROVE FALSE
  BY <1>5, Origins, ToldFacts DEF Running
<1>6. ASSUME NEW j \in DOMAIN stack', EvaluatePending(j, n)' PROVE FALSE
  <2>1. ASSUME NEW d \in Cells, Settled(j, d), n \in Range(updatables_[d]) PROVE FALSE
    BY <1>3, <1>4, <2>1, AsyncInput DEF Settled, Settle
  <2> QED BY <1>4, <1>6, <2>1, EvaluatePendingFrom DEF Old
<1>7. ~RegisterPending(n, 1)'
  BY <1>1, <1>4, RegisterPendingFrom DEF NewNode, Running
<1>8. status'[c] \in Ready
  BY <1>4, Stays DEF IsReady
<1> QED BY <1>1, <1>2, <1>3, <1>5, <1>6, <1>7, <1>8 DEF Awaits, Pending, Op, Of, IsReady

\* When an asynchronous cell is told, nothing else is left to tell it.
LEMMA ToldIsLast ==
    ASSUME IInv, Next, NEW n \in Cells, Kind[n] = "async", NEW j \in DOMAIN stack', Told(j, n)
    PROVE  /\ status'[Inputs[n][1]] \in Ready /\ ~RegisterPending(n, 1)'
           /\ \A i \in DOMAIN stack' : ~EvaluatePending(i, n)'
<1>1. /\ TypeOK /\ graph \in Graphs /\ UNCHANGED graph /\ n \in Nodes /\ n # Final
      /\ Len(Inputs[n]) = 1 /\ Inputs[n][1] \in Cells /\ 1 \in DOMAIN Inputs[n]
  BY Moves, AsyncInput DEF IInv, TypeOK
<1>2. PICK c \in Cells : c = Inputs[n][1]
  BY <1>1
<1>3. /\ Len(stack) \in DOMAIN stack /\ Top = stack[Len(stack)] /\ Top.next \in Nat
      /\ UNCHANGED <<status, updatables_>> /\ Notifies(n) /\ stack # <<>>
  <2>1. Notifies(n)
    BY <1>1, ToldFacts
  <2> QED BY <1>1, <2>1, ToldFacts DEF Notifies
<1>4. /\ DOMAIN stack' = 1 .. Len(stack) + 1 /\ stack'[Len(stack)] = Onward
      /\ Onward.op = Top.op /\ Onward.of = Top.of /\ Onward.next = Top.next + 1
  BY <1>1, <1>3, NotifyFacts, OnwardFacts, StackFacts
<1>5. \A i \in DOMAIN stack' : ~\E d \in Cells : Settled(i, d)
  <2>1. ASSUME NEW d \in Cells, NEW callers, Settle(d, callers) PROVE FALSE
    <3>1. status'[d] \in Ready /\ status[d] \notin Ready
      BY <2>1, SettleFacts DEF Settle, IsReady
    <3> QED BY <1>3, <3>1
  <2> QED BY <2>1 DEF Settled
<1>6. ~NewNode(n)
  BY <1>3 DEF NewNode
<1>7. CASE /\ EvaluateOk(Len(stack)) /\ Top.op = "evaluate"
           /\ Top.of \in Cells /\ Top.next \in DOMAIN updatables_[Top.of]
           /\ n = updatables_[Top.of][Top.next]
  <2>1. Top.of = c
    BY <1>2, <1>7, AsyncInput DEF Range
  <2>2. status'[c] \in Ready
    BY <1>3, <1>7, <2>1 DEF EvaluateOk, Of, IsReady
  <2>3. ~RegisterPending(n, 1)'
    <3>1. ASSUME NEW i \in DOMAIN stack, Op(i) = "register", Of(i) = n, stack[i].next <= 1
          PROVE  FALSE
      <4>1. RegisterOk(i)
        BY <3>1 DEF IInv, FramesOk, FrameOk
      <4>2. n \notin Range(updatables_[c])
        BY <1>1, <1>2, <3>1, <4>1 DEF RegisterOk
      <4> QED BY <1>7, <2>1, <4>2 DEF Range
    <3>2. ~RegisterPending(n, 1)
      BY <3>1 DEF RegisterPending
    <3> QED BY <1>1, <1>6, <3>2, RegisterPendingFrom
  <2>4. ASSUME NEW i \in DOMAIN stack', EvaluatePending(i, n)' PROVE FALSE
    <3>1. Old(i) /\ EvaluatePending(i, n)
      BY <1>5, <2>4, EvaluatePendingFrom
    <3>2. i \in DOMAIN stack /\ EvaluateOk(i) /\ Of(i) \in Cells /\ Op(i) = "evaluate"
      BY <3>1 DEF Old, EvaluatePending, IInv, FramesOk, FrameOk, EvaluateOk
    <3>3. Of(i) = c
      BY <1>2, <3>1, <3>2, AsyncInput DEF EvaluatePending, Range
    <3>4. i = Len(stack)
      <4>1. Op(Len(stack)) = "evaluate" /\ Of(Len(stack)) = c
        BY <1>3, <1>7, <2>1 DEF Op, Of
      <4> QED BY <1>3, <3>2, <3>3, <4>1 DEF EvaluateOk
    <3>5. PICK k \in DOMAIN updatables_[c] : k >= Top.next + 1 /\ updatables_[c][k] = n
      BY <1>3, <1>4, <2>1, <2>4, <3>4 DEF EvaluatePending, Op, Of
    <3>6. k > Top.next /\ Top.next \in DOMAIN updatables_[c]
      BY <1>3, <1>7, <2>1, <3>5, ListsGrow
    <3>7. n # Final /\ (n = Final \/ n < n)
      BY <1>7, <2>1, <3>5, <3>6 DEF IInv, ListedOk
    <3> QED BY <1>1, <3>7, GraphFacts
  <2> QED BY <1>2, <2>2, <2>3, <2>4
<1>8. CASE /\ RegisterOk(Len(stack)) /\ Top.op = "register" /\ n = Top.of
           /\ Top.next \in DOMAIN Inputs[n] /\ IsReady(Inputs[n][Top.next]) /\ Len(stack) = 1
  <2>1. Top.next = 1 /\ status'[c] \in Ready
    BY <1>2, <1>3, <1>8, AsyncInput DEF IsReady
  <2>2. \A i \in DOMAIN stack' : i = 1 \/ i = 2
    BY <1>4, <1>8
  <2>3. stack'[1].op = "register" /\ stack'[1].next = 2 /\ stack'[2].op = "update"
    <3>1. stack'[2] = Frame("update", n, 0, 0)
      BY <1>8 DEF Told
    <3> QED BY <1>4, <1>8, <2>1, <3>1 DEF Frame
  <2> QED BY <1>2, <2>1, <2>2, <2>3 DEF RegisterPending, EvaluatePending, Op, Of
<1> QED BY <1>1, <1>7, <1>8, ToldFacts

LEMMA AsyncStep ==
    ASSUME IInv, Next
    PROVE  AsyncOk'
<1>1. /\ TypeOK /\ graph \in Graphs /\ UNCHANGED graph /\ created \in Nat
      /\ flights \in [Cells -> Nat]
  <2>1. TypeOK /\ graph \in Graphs /\ created \in 0 .. Len(Kind) /\ flights \in [Cells -> Nat]
    BY DEF IInv, TypeOK
  <2> QED BY <2>1, Moves, GraphFacts
<1>2. Kind' = Kind /\ Inputs' = Inputs /\ Nodes' = Nodes /\ Cells' = Cells
  BY <1>1, SameGraph
<1>3. ASSUME NEW n \in Cells, Kind[n] = "async", Awaits(n)'
      PROVE  flights'[n] = 0 /\ status'[n] \notin Ready
  <2>1. flights[n] = 0 /\ ~IsReady(n)
    <3>1. CASE n <= created
      BY <1>3, <3>1, AwaitsStep DEF IInv, AsyncOk
    <3>2. CASE ~(n <= created)
      <4>1. ~(flights[n] > 0) /\ ~IsReady(n)
        BY <3>2 DEF IInv, CellsOk
      <4> QED BY <1>1, <4>1
    <3> QED BY <3>1, <3>2
  <2> QED BY <1>3, <2>1, AsyncMoves, UpdateIsLast
<1>4. ASSUME NEW n \in Cells, Kind[n] = "async",
             NEW j \in DOMAIN stack', stack'[j].op = "update", stack'[j].of = n
      PROVE  /\ status'[Inputs[n][1]] \in Ready /\ ~RegisterPending(n, 1)'
             /\ \A i \in DOMAIN stack' : ~EvaluatePending(i, n)'
  <2>1. PICK m \in Nodes \cup {Final} : Told(j, m)
    BY <1>4, Origins
  <2>2. m = n
    BY <1>4, <2>1 DEF Told, Frame
  <2> QED BY <1>4, <2>1, <2>2, ToldIsLast
<1>5. ASSUME NEW n \in Cells, Kind[n] = "async"
      PROVE  /\ Awaits(n)' => flights'[n] = 0 /\ ~IsReady(n)'
             /\ (\E i \in DOMAIN stack' : Op(i)' = "update" /\ Of(i)' = n) =>
                    /\ IsReady(Inputs[n][1])'
                    /\ ~RegisterPending(n, 1)'
                    /\ \A i \in DOMAIN stack' : ~EvaluatePending(i, n)'
  BY <1>2, <1>3, <1>4, <1>5 DEF IsReady, Op, Of
<1> QED BY <1>2, <1>5 DEF AsyncOk
-----------------------------------------------------------------------------
LEMMA InitIInv == Init => IInv
<1> SUFFICES ASSUME Init PROVE IInv
  OBVIOUS
<1>1. /\ graph \in Graphs /\ created = 0 /\ status = [c \in Cells |-> "empty"]
      /\ is_rpc_started_ = {} /\ flights = [c \in Cells |-> 0]
      /\ updatables_ = [c \in Cells |-> <<>>] /\ stack = <<>> /\ phase = "build"
      /\ answered = 0 /\ useAfterRelease = FALSE
  BY DEF Init
<1>2. DOMAIN stack = {} /\ \A c \in Cells : DOMAIN updatables_[c] = {} /\ Range(updatables_[c]) = {}
  BY <1>1 DEF Range
<1>3. \A c \in Cells : ~IsReady(c) /\ ~(flights[c] > 0) /\ flights[c] = 0
  BY <1>1 DEF IsReady, Ready
<1>4. TypeOK
  <2>1. <<>> \in Seq(Nodes \cup {Final}) /\ <<>> \in Seq(Frames)
    OBVIOUS
  <2>2. created \in 0 .. Len(Kind) /\ flights \in [Cells -> Nat]
    BY <1>1, GraphFacts
  <2>3. status \in [Cells -> Ready \cup {"empty"}] /\ updatables_ \in [Cells -> Seq(Nodes \cup {Final})]
    BY <1>1, <2>1
  <2> QED BY <1>1, <2>1, <2>2, <2>3 DEF TypeOK, Frames
<1>5. 1 .. created = {}
  BY <1>1
<1>6. CellsOk /\ FramesOk /\ ListedOk
  BY <1>1, <1>2, <1>3 DEF CellsOk, FramesOk, ListedOk
<1>7. RegisteredOk /\ PendingOk
  BY <1>1, <1>5 DEF RegisteredOk, PendingOk
<1>8. AsyncOk
  BY <1>2, <1>3 DEF AsyncOk
<1> QED BY <1>4, <1>6, <1>7, <1>8 DEF IInv

\* Nothing in the invariant is about what a stuttering step may change.
LEMMA IInvStep == IInv /\ [Next]_vars => IInv'
<1> SUFFICES ASSUME IInv, [Next]_vars PROVE IInv'
  OBVIOUS
<1>1. CASE UNCHANGED vars
  <2> USE <1>1 DEF vars, IInv, IsReady, AllReady, Nodes, Cells, Kind, Inputs, Result, Op, Of
  <2>1. TypeOK'
    BY TypeStep
  <2>2. CellsOk'
    BY DEF CellsOk
  <2>3. FramesOk'
    BY DEF FramesOk, FrameOk, RegisterOk, EvaluateOk, UpdateOk, GiveUpOk, TimeoutCellsOf
  <2>4. ListedOk'
    BY DEF ListedOk
  <2>5. RegisteredOk'
    BY DEF RegisteredOk, RegisterPending
  <2>6. PendingOk'
    BY DEF PendingOk, Pending, RegisterPending, EvaluatePending
  <2>7. AsyncOk'
    BY DEF AsyncOk, Awaits, Pending, RegisterPending, EvaluatePending
  <2> QED BY <2>1, <2>2, <2>3, <2>4, <2>5, <2>6, <2>7
<1>2. CASE Next
  BY <1>2, TypeStep, CellsStep, FramesStep, ListedStep, RegisteredStep, PendingStep, AsyncStep
     DEF IInv
<1> QED BY <1>1, <1>2

\* The inductive invariant holds in every reachable state of every graph's SI.
LEMMA Invariance == Spec => []IInv
BY InitIInv, IInvStep, PTL DEF Spec

\* Every variable keeps its type: the stack holds frames of nodes that exist, each
\* cell has one of three states, flights are counted from zero.
THEOREM TypeCorrect == Spec => []TypeOK
BY Invariance, PTL DEF IInv

\* Whatever the graph, the result is handed on exactly once: by the final action,
\* which can be notified only while the SI is open (DerivedAction::update), or at once
\* when the function returns a cell that is ready (invoke_templated_method).
THEOREM AnsweredOnceHolds == Spec => []AnsweredOnce
<1>1. Init => AnsweredOnce
  BY DEF Init, AnsweredOnce
<1>2. IInv /\ AnsweredOnce /\ [Next]_vars => AnsweredOnce'
  <2> SUFFICES ASSUME IInv, AnsweredOnce, [Next]_vars PROVE AnsweredOnce'
    OBVIOUS
  <2>1. CASE UNCHANGED <<phase, answered>>
    BY <2>1 DEF AnsweredOnce
  <2>2. CASE UNCHANGED vars
    BY <2>1, <2>2 DEF vars
  <2>3. CASE Next
    <3>1. CASE UpdateFinal
      <4>1. phase = "open"
        BY <3>1, TopFacts DEF UpdateFinal, Running, UpdateOk, Of
      <4> QED BY <3>1, <4>1 DEF UpdateFinal, AnsweredOnce
    <3>2. CASE EndBuild
      BY <3>2 DEF EndBuild, AnsweredOnce
    <3>3. CASE Register \/ Evaluate
      BY <2>1, <3>3, RegisterMoves, EvaluateMoves
    <3>4. CASE \/ \E c \in Cells : Call(c) \/ \E callers : Settle(c, callers)
               \/ \E n \in Nodes : NewNode(n)
               \/ UpdateReturns \/ CallerEnds
      BY <2>1, <3>4 DEF Call, Settle, NewNode, UpdateReturns, CallerEnds
    <3> QED BY <2>3, <3>1, <3>2, <3>3, <3>4, Moves
  <2> QED BY <2>2, <2>3
<1> QED BY <1>1, <1>2, Invariance, PTL DEF Spec

\* Whatever the graph, the order in which rpcs are resolved, and how updates nest:
\* between turns no cell that could go on has been forgotten, and a result that is
\* ready has ended the SI (CellStatus::register_listener, evaluate_all_derived_cells).
THEOREM NoLostUpdateHolds == Spec => []NoLostUpdate
<1>1. IInv => NoLostUpdate
  <2> SUFFICES ASSUME IInv, stack = <<>>, phase \notin {"build", "released"}
               PROVE  /\ \A n \in Nodes : AllReady(n) =>
                            CASE Kind[n] = "derived" -> IsReady(n)
                              [] Kind[n] = "guarded" -> n \in is_rpc_started_
                              [] Kind[n] = "async"   -> IsReady(n) \/ flights[n] > 0
                              [] OTHER -> TRUE
                      /\ IsReady(Result) => phase = "leaked"
    BY DEF NoLostUpdate, Waiting
  <2>1. \A n : ~Pending(n)
    <3>1. DOMAIN stack = {}
      OBVIOUS
    <3> QED BY <3>1 DEF Pending, RegisterPending
  <2>2. created = Len(Kind) /\ Nodes = 1 .. created
    BY DEF IInv, CellsOk, Nodes, Kind
  <2>3. phase \in {"build", "open", "leaked", "released"}
    BY DEF IInv, TypeOK
  <2>4. IsReady(Result) => phase = "leaked"
    BY <2>1, <2>3 DEF IInv, PendingOk
  <2>5. ASSUME NEW n \in Nodes, AllReady(n)
        PROVE  /\ Kind[n] = "derived" => IsReady(n)
               /\ Kind[n] = "guarded" => n \in is_rpc_started_
               /\ Kind[n] = "async" => IsReady(n) \/ flights[n] > 0
    BY <2>1, <2>2, <2>5 DEF IInv, PendingOk
  <2> QED BY <2>4, <2>5
<1> QED BY <1>1, Invariance, PTL

\* A cell that holds a value or an error keeps it, whatever is updated while it is
\* evaluated, and though its rpc may be answered later or its inputs change
\* (DerivedCell, TimeoutCell::update, retry_rpc_if_need).
THEOREM WriteOnceHolds == Spec => WriteOnce
<1>1. IInv /\ [Next]_vars => [\A c \in Cells : IsReady(c) => status'[c] = status[c]]_vars
  BY Stays
<1> QED BY <1>1, Invariance, PTL DEF Spec, WriteOnce
-----------------------------------------------------------------------------
(* Orderly graphs. *)

\* What leads to the result: the result, the inputs of what leads to it, and
\* nothing that was created after it.
LEMMA LeadsFacts ==
    ASSUME graph \in Graphs
    PROVE  /\ LeadsToResult(Result)
           /\ \A m \in Nodes : LeadsToResult(m) => m <= Result
           /\ \A m \in Nodes : LeadsToResult(m) /\ Kind[m] # "timeout" =>
                 \A c \in Range(Inputs[m]) : LeadsToResult(c)
<1>0. Result \in Nodes /\ Nodes = 1 .. Len(Kind) /\ Len(Kind) \in Nat
  BY GraphFacts
<1>1. LeadsToResult(Result)
  BY DEF LeadsToResult
<1>2. ASSUME NEW m \in Nodes, LeadsToResult(m) PROVE m <= Result
  <2> DEFINE S == 1 .. Result
  <2>1. S \in SUBSET Nodes /\ Result \in S
    BY <1>0
  <2>2. ASSUME NEW n \in S, NEW c \in Range(Inputs[n]) PROVE c \in S
    <3>1. n \in Nodes /\ n <= Result
      BY <1>0
    <3>2. c \in Nodes /\ c < n
      BY <3>1, GraphFacts DEF Range
    <3> QED BY <1>0, <3>1, <3>2
  <2> HIDE DEF S
  <2>3. m \in S
    BY <1>2, <2>1, <2>2 DEF LeadsToResult
  <2> QED BY <1>0, <2>3 DEF S
<1>3. ASSUME NEW m \in Nodes, LeadsToResult(m), Kind[m] # "timeout", NEW c \in Range(Inputs[m])
      PROVE  LeadsToResult(c)
  BY <1>3 DEF LeadsToResult
<1> QED BY <1>1, <1>2, <1>3
LEMMA SameOrder ==
    ASSUME UNCHANGED graph
    PROVE  /\ Orderly' <=> Orderly
           /\ \A n : Leads(n)' <=> Leads(n)
<1>1. Kind' = Kind /\ Inputs' = Inputs /\ Result' = Result /\ Nodes' = Nodes /\ Cells' = Cells
  BY SameGraph
<1>2. ASSUME NEW n PROVE LeadsToResult(n)' <=> LeadsToResult(n)
  BY <1>1 DEF LeadsToResult
<1>3. ASSUME NEW c PROVE Listeners(c)' = Listeners(c)
  BY <1>1 DEF Listeners
<1> QED BY <1>1, <1>2, <1>3 DEF Orderly, Leads

\* If a listener leads to the result, so does what it listens to.
LEMMA LeadsBack ==
    ASSUME IInv, NEW c \in Cells, NEW n \in Range(updatables_[c]), Leads(n)
    PROVE  Leads(c)
<1>1. graph \in Graphs /\ c \in Nodes /\ Kind[c] # "action"
  BY GraphFacts DEF IInv, TypeOK
<1>2. CASE n = Final
  <2>1. c = Result
    BY <1>2 DEF IInv, ListedOk, Range
  <2> QED BY <1>1, <2>1, LeadsFacts DEF Leads
<1>3. CASE n # Final
  <2>1. n \in Nodes /\ LeadsToResult(n) /\ c \in Range(Inputs[n]) /\ Kind[n] # "timeout"
    BY <1>3 DEF IInv, ListedOk, Range, Leads, ListenerKinds
  <2> QED BY <1>1, <2>1, LeadsFacts DEF Leads
<1> QED BY <1>2, <1>3

\* In an orderly graph a listener that is not the last one does not lead there.
LEMMA OnlyLastLeads ==
    ASSUME IInv, Orderly, NEW c \in Cells,
           NEW i \in DOMAIN updatables_[c], NEW j \in DOMAIN updatables_[c], i < j
    PROVE  ~Leads(updatables_[c][i])
<1> DEFINE n == updatables_[c][i]
           m == updatables_[c][j]
<1>1. graph \in Graphs /\ c \in Nodes
  BY GraphFacts DEF IInv, TypeOK
<1>2. /\ n # Final => n \in 1 .. created /\ c \in Range(Inputs[n]) /\ Kind[n] \in ListenerKinds
      /\ n # Final /\ (m = Final \/ n < m)
      /\ m = Final => c = Result
      /\ m # Final => m \in 1 .. created /\ c \in Range(Inputs[m]) /\ Kind[m] \in ListenerKinds
  <2>1. j > i
    OBVIOUS
  <2> QED BY <2>1 DEF IInv, ListedOk
<1>3. /\ n \in Nodes
      /\ m # Final => m \in Nodes
  <2>1. created \in 0 .. Len(Kind)
    BY DEF IInv, TypeOK
  <2> QED BY <1>1, <1>2, <2>1, GraphFacts
<1> HIDE DEF n, m
<1>4. SUFFICES ASSUME Kind[n] # "action", LeadsToResult(n) PROVE FALSE
  BY <1>2 DEF Leads, n
<1>5. n \in Listeners(c)
  BY <1>2, <1>3 DEF Listeners, ListenerKinds
<1>6. CASE m = Final
  <2>1. n <= Result
    BY <1>1, <1>3, <1>4, LeadsFacts
  <2>2. Result < n
    <3>1. c < n
      BY <1>1, <1>2, <1>3, GraphFacts DEF Range
    <3> QED BY <1>2, <1>6, <3>1
  <2> QED BY <1>1, <1>3, <2>1, <2>2, GraphFacts
<1>7. CASE m # Final
  <2>1. m \in Listeners(c)
    BY <1>2, <1>3, <1>7 DEF Listeners, ListenerKinds
  <2>2. m <= n
    BY <1>4, <1>5, <2>1 DEF Orderly
  <2> QED BY <1>1, <1>2, <1>3, <1>7, <2>2, GraphFacts
<1> QED BY <1>6, <1>7

LEMMA OrderStep ==
    ASSUME IInv, OrderOk, Next
    PROVE  OrderOk'
<1>1. TypeOK /\ graph \in Graphs /\ UNCHANGED graph
  BY Moves DEF IInv, TypeOK
<1>2. Cells' = Cells /\ (Orderly' <=> Orderly) /\ \A n : Leads(n)' <=> Leads(n)
  BY <1>1, SameGraph, SameOrder
<1>3. SUFFICES ASSUME Orderly
               PROVE  /\ ~useAfterRelease'
                      /\ \A i, j \in DOMAIN stack' : i < j /\ Unfinished(i)' => ~Leads(stack'[j].of)
                      /\ \A i \in DOMAIN stack' :
                            stack'[i].op \in {"giveUp", "track"} => ~Leads(stack'[i].of)
                      /\ phase' = "released" =>
                            \A i \in DOMAIN stack' : stack'[i].op = "evaluate" /\ ~Unfinished(i)'
  <2>1. ASSUME NEW j \in DOMAIN stack' PROVE Leads(Of(j))' <=> Leads(stack'[j].of)
    BY <1>1, SameOrder DEF Of
  <2> QED BY <1>2, <2>1 DEF OrderOk, Op
<1>4. /\ ~useAfterRelease
      /\ \A i, j \in DOMAIN stack : i < j /\ Unfinished(i) => ~Leads(stack[j].of)
      /\ \A i \in DOMAIN stack : stack[i].op \in {"giveUp", "track"} => ~Leads(stack[i].of)
      /\ phase = "released" => \A i \in DOMAIN stack : stack[i].op = "evaluate" /\ ~Unfinished(i)
  BY <1>3 DEF OrderOk, Op, Of
<1>5. /\ Len(stack) \in Nat /\ DOMAIN stack = 1 .. Len(stack)
      /\ stack # <<>> => Len(stack) \in DOMAIN stack
      /\ \A i \in DOMAIN stack : stack[i] \in Frames
  <2>1. Len(stack) \in Nat /\ DOMAIN stack = 1 .. Len(stack) /\ stack \in Seq(Frames)
    BY <1>1, StackFacts
  <2> QED BY <2>1, TopFacts
\* What is unfinished was unfinished, or is the giving up or tracking that starts.
<1>6. ASSUME NEW i \in DOMAIN stack', Unfinished(i)', Old(i)
      PROVE  Unfinished(i) /\ i \in DOMAIN stack
  <2>1. /\ i \in DOMAIN stack /\ stack'[i].op = stack[i].op /\ stack'[i].size = stack[i].size
        /\ stack[i].next \in Nat /\ stack'[i].next \in {stack[i].next, stack[i].next + 1}
    BY <1>6 DEF Old
  <2>2. stack[i] \in Frames
    BY <1>5, <2>1
  <2>3. stack[i].size \in Nat
    BY <2>2 DEF Frames
  <2> QED BY <1>6, <2>1, <2>3 DEF Unfinished, Op
<1>7. ~useAfterRelease'
  <2>1. CASE UNCHANGED useAfterRelease
    BY <1>4, <2>1
  <2>2. CASE EvaluateGone
    <3>1. Unfinished(Len(stack)) /\ Len(stack) \in DOMAIN stack
      BY <1>5, <2>2, TopFacts DEF EvaluateGone, Running, Unfinished, Op
    <3> QED BY <1>4, <2>2, <3>1 DEF EvaluateGone
  <2>3. CASE CallerEnds
    <3>1. Len(stack) \in DOMAIN stack /\ stack[Len(stack)].op \in {"giveUp", "track"}
      BY <1>5, <2>3, TopFacts DEF CallerEnds, Running
    <3> QED BY <1>4, <2>3, <3>1 DEF CallerEnds
  <2>4. CASE Evaluate
    BY <2>1, <2>2, <2>4, EvaluateMoves DEF EvaluateEnds, EvaluateNext
  <2>5. CASE Register
    BY <2>1, <2>5, RegisterMoves
  <2>6. CASE \/ \E c \in Cells : Call(c) \/ \E callers : Settle(c, callers)
             \/ \E n \in Nodes : NewNode(n)
             \/ UpdateReturns \/ UpdateFinal \/ EndBuild
    BY <2>1, <2>6 DEF Call, Settle, NewNode, UpdateReturns, UpdateFinal, EndBuild
  <2> QED BY <2>3, <2>4, <2>5, <2>6, Moves
<1>11. ASSUME NEW c \in Cells, Kind[c] \in {"guarded", "async"} PROVE ~Leads(c)
  <2>1. c # Final
    BY <1>1, GraphFacts
  <2> QED BY <1>3, <1>11, <2>1 DEF Orderly, Leads
<1>8. ASSUME NEW i \in DOMAIN stack', stack'[i].op \in {"giveUp", "track"}
      PROVE  ~Leads(stack'[i].of)
  <2>1. CASE Kept(i)
    BY <1>4, <1>8, <2>1 DEF Kept
  <2>2. ASSUME NEW c \in Cells, GivingUp(i, c) \/ Tracking(i, c) PROVE ~Leads(stack'[i].of)
    <3>1. stack'[i].of = c /\ Kind[c] \in {"guarded", "async"}
      BY <2>2 DEF GivingUp, Tracking, Frame
    <3> QED BY <1>11, <3>1
  <2> QED BY <1>8, <2>1, <2>2, Origins
<1>9. ASSUME NEW i \in DOMAIN stack', NEW j \in DOMAIN stack', i < j, Unfinished(i)'
      PROVE  ~Leads(stack'[j].of)
  <2>0. i \in Nat /\ j \in Nat /\ i >= 1 /\ j <= Len(stack') /\ Len(stack') \in Nat /\ j # 1
    BY <1>9, NextFrames
  <2>1. CASE Old(j)
    <3>1. j \in DOMAIN stack /\ stack'[j].of = stack[j].of /\ i < Len(stack)
      BY <1>5, <1>9, <2>0, <2>1 DEF Old
    <3>2. Old(i)
      <4>1. i \in DOMAIN stack
        BY <1>5, <2>0, <3>1
      <4>2. ~EvaluateGone
        BY <1>9 DEF EvaluateGone
      <4> QED BY <3>1, <4>1, <4>2, FrameMoves, Origins DEF Goes
    <3> QED BY <1>4, <1>6, <1>9, <3>1, <3>2
  <2>2. ASSUME NEW n \in Nodes \cup {Final}, Told(j, n) PROVE ~Leads(stack'[j].of)
    <3>1. stack'[j].of = n /\ j = Len(stack) + 1 /\ Len(stack) \in DOMAIN stack
          /\ stack[Len(stack)] = Top /\ ~EvaluateGone /\ Notifies(n)
      BY <2>2, ToldFacts DEF Told, Frame, EvaluateGone
    <3>2. i \in DOMAIN stack /\ i <= Len(stack)
      BY <1>5, <1>9, <2>0, <3>1
    <3>3. /\ stack'[Len(stack)] = Onward /\ Onward.op = Top.op /\ Onward.of = Top.of
          /\ Onward.next = Top.next + 1 /\ Onward.size = Top.size
      BY <1>1, <3>1, NotifyFacts, OnwardFacts, StackFacts DEF Notifies
    <3>4. CASE i < Len(stack)
      <4>1. Kept(i)
        BY <3>1, <3>2, <3>4, FrameMoves DEF Goes
      <4>2. ~Leads(Top.of)
        BY <1>4, <1>6, <1>9, <3>1, <3>2, <3>4, <4>1, Origins
      <4>3. Len(stack) # 1
        BY <1>5, <2>0, <3>4
      <4>4. Top.of \in Cells /\ n \in Range(updatables_[Top.of])
        BY <2>2, <4>3, ToldFacts DEF Range
      <4> QED BY <3>1, <4>2, <4>4, LeadsBack
    <3>5. CASE i = Len(stack)
      <4>1. Top.op = "evaluate" /\ Top.next + 1 <= Top.size
        <5>1. Top.op \in {"register", "evaluate"}
          BY <2>2, ToldFacts
        <5> QED BY <1>9, <3>3, <3>5, <5>1 DEF Unfinished, Op
      <4>2. /\ EvaluateOk(Len(stack)) /\ Top.of \in Cells /\ Top.next \in DOMAIN updatables_[Top.of]
            /\ n = updatables_[Top.of][Top.next] /\ Top.next \in Nat
        BY <2>2, <4>1, ToldFacts
      <4>3. Top.next + 1 \in DOMAIN updatables_[Top.of]
        <5>1. Top.size = Len(updatables_[Top.of])
          BY <3>1, <4>2 DEF EvaluateOk, Of
        <5>2. DOMAIN updatables_[Top.of] = 1 .. Len(updatables_[Top.of])
          BY <4>2, ListsGrow
        <5> QED BY <4>1, <4>2, <5>1, <5>2
      <4>4. Top.next < Top.next + 1
        BY <4>2
      <4> QED BY <1>3, <3>1, <4>2, <4>3, <4>4, OnlyLastLeads
    <3> QED BY <1>5, <3>2, <3>4, <3>5
  <2>3. ASSUME NEW c \in Cells, Settled(j, c) PROVE ~Leads(stack'[j].of)
    <3>1. stack'[j].of = c
      BY <2>3 DEF Settled, Evaluation, Frame
    <3>2. PICK callers : Settle(c, callers) /\ stack' = Append(callers, Evaluation(c))
      BY <2>3 DEF Settled, Settle
    <3>3. callers # <<>>
      <4>1. callers = <<>> => Len(stack') = 1
        BY <3>2
      <4> QED BY <2>0, <4>1
    <3>4. CASE ByUpdate(c) /\ Kind[c] \notin {"guarded", "async"}
      <4>1. Len(stack) \in DOMAIN stack /\ stack[Len(stack)].of = c /\ ~EvaluateGone
        BY <3>4, TopFacts DEF ByUpdate, Running, EvaluateGone
      <4>2. i < Len(stack) /\ i \in DOMAIN stack
        <5>1. callers = Below
          BY <3>2, <3>3, <3>4, <4>1 DEF Settle, ByCreation, ByUpdate, ByGivingUp, ByResolution, Running
        <5>2. Below \in Seq(Frames) /\ Len(Below) = Len(stack) - 1
          BY <1>1, <3>4, StackFacts DEF ByUpdate, Running
        <5>3. Len(stack') = Len(stack)
          <6>1. Evaluation(c) \in Frames
            BY <1>1, <3>2, SettleType
          <6>2. stack' = Append(Below, Evaluation(c))
            BY <3>2, <5>1
          <6>3. Len(stack') = Len(Below) + 1
            BY <5>2, <6>1, <6>2, PushFacts
          <6> QED BY <1>5, <5>2, <6>3
        <5> QED BY <1>5, <1>9, <2>0, <5>3
      <4>3. Old(i)
        BY <4>1, <4>2, FrameMoves, Origins DEF Goes
      <4> QED BY <1>4, <1>6, <1>9, <3>1, <4>1, <4>2, <4>3
    <3>5. CASE ByGivingUp(c)
      <4>1. Len(stack) = 1 /\ stack # <<>>
        BY <3>5, TopFacts DEF ByGivingUp, Running, GiveUpOk
      <4>2. callers = Below
        BY <3>2, <3>3, <4>1, <3>5 DEF Settle, ByCreation, ByUpdate, ByGivingUp, ByResolution
      <4>3. Below \in Seq(Frames) /\ Len(Below) = 0
        BY <1>1, <4>1, StackFacts
      <4> QED BY <3>3, <4>2, <4>3
    <3>6. CASE Kind[c] \in {"guarded", "async"}
      BY <1>11, <3>1, <3>6
    <3> QED BY <3>2, <3>3, <3>4, <3>5, <3>6 DEF Settle
  <2>4. ASSUME NEW c \in Cells, Tracking(j, c) PROVE ~Leads(stack'[j].of)
    <3>1. stack'[j].of = c /\ Kind[c] \in {"guarded", "async"}
      BY <2>4 DEF Tracking, Frame
    <3> QED BY <1>11, <3>1
  <2> QED BY <2>0, <2>1, <2>2, <2>3, <2>4, FrameMoves, Origins DEF Comes, GivingUp, Registers
<1>10. ASSUME phase' = "released", NEW i \in DOMAIN stack'
       PROVE  stack'[i].op = "evaluate" /\ ~Unfinished(i)'
  <2>1. CASE phase = "released"
    <3>1. ~\E c \in Cells : Settled(i, c) \/ GivingUp(i, c) \/ Tracking(i, c)
      BY <2>1 DEF Settled, GivingUp, Tracking, Settle
    <3>2. ~\E n \in Nodes : Registers(i, n)
      BY <2>1 DEF Registers, NewNode
    <3>3. ~\E n \in Nodes \cup {Final} : Told(i, n)
      BY <2>1, ToldFacts
    <3>4. Old(i)
      BY <3>1, <3>2, <3>3, FrameMoves, Origins DEF Comes
    <3> QED BY <1>4, <1>6, <2>1, <3>4 DEF Old
  <2>2. CASE EndBuild /\ stack = <<>>
    <3>1. DOMAIN stack' = {}
      BY <2>2 DEF EndBuild
    <3> QED BY <3>1
  <2>3. CASE UpdateFinal /\ phase = "open"
    <3>1. /\ Len(stack) \in DOMAIN stack /\ stack[Len(stack)].of = Final /\ stack # <<>>
          /\ stack' = Below
      BY <2>3, TopFacts DEF UpdateFinal, Running
    <3>2. i \in DOMAIN stack /\ i < Len(stack) /\ stack'[i] = stack[i] /\ i # Len(stack)
      BY <1>1, <1>5, <3>1, PopFacts
    <3>3. ~Unfinished(i) /\ Old(i)
      <4>1. Leads(Final)
        BY DEF Leads
      <4>2. Kept(i)
        BY <3>2 DEF Kept
      <4> QED BY <1>4, <3>1, <3>2, <4>1, <4>2, Origins
    <3>4. stack[i].op = "evaluate"
      <4>1. stack[i].op \in {"register", "evaluate", "update", "track", "giveUp"}
        <5>1. stack[i] \in Frames
          BY <1>5, <3>2
        <5> QED BY <5>1 DEF Frames
      <4>2. FrameOk(i)
        BY <3>2 DEF IInv, FramesOk
      <4> QED BY <2>3, <3>2, <3>3, <4>1, <4>2 DEF FrameOk, RegisterOk, UpdateOk, Unfinished, Op
    <3> QED BY <1>6, <3>2, <3>3, <3>4
  <2> QED BY <1>10, <2>1, <2>2, <2>3, PhaseMoves
<1> QED BY <1>7, <1>8, <1>9, <1>10

\* For every graph that keeps the two rules of Orderly, whatever nests above them:
\* the loop that notifies listeners, the end of retry_rpc_if_need and the tracking
\* of derive_action touch nothing the final action has deleted (derived_action.h:39).
THEOREM OrderlyGraphSafeHolds == Spec => []OrderlyGraphSafe
<1>1. Init => OrderOk
  <2> SUFFICES ASSUME Init PROVE OrderOk
    OBVIOUS
  <2>1. DOMAIN stack = {} /\ useAfterRelease = FALSE
    BY DEF Init
  <2> QED BY <2>1 DEF OrderOk
<1>2. IInv /\ OrderOk /\ [Next]_vars => OrderOk'
  <2> SUFFICES ASSUME IInv, OrderOk, [Next]_vars PROVE OrderOk'
    OBVIOUS
  <2>1. CASE UNCHANGED vars
    <3>1. UNCHANGED graph
      BY <2>1 DEF vars
    <3>2. (Orderly' <=> Orderly) /\ \A n : Leads(n)' <=> Leads(n)
      BY <3>1, SameOrder
    <3>3. UNCHANGED <<stack, phase, useAfterRelease>>
      BY <2>1 DEF vars
    <3>4. \A i \in DOMAIN stack : /\ Op(i)' = Op(i) /\ (Unfinished(i)' <=> Unfinished(i))
                                  /\ (Leads(Of(i))' <=> Leads(Of(i)))
      <4>1. ASSUME NEW i \in DOMAIN stack PROVE Leads(Of(i))' <=> Leads(Of(i))
        <5>1. PICK n : n = stack[i].of
          OBVIOUS
        <5> QED BY <3>2, <3>3, <5>1 DEF Of, Leads, LeadsToResult
      <4> QED BY <3>3, <4>1 DEF Unfinished, Op
    <3> QED BY <3>2, <3>3, <3>4 DEF OrderOk
  <2> QED BY <2>1, OrderStep
<1>3. OrderOk => OrderlyGraphSafe
  BY DEF OrderOk, OrderlyGraphSafe, NoUseAfterRelease
<1> QED BY <1>1, <1>2, <1>3, Invariance, PTL DEF Spec
=============================================================================
