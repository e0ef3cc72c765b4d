---------------------------- MODULE MCCellGraph -----------------------------
(***************************************************************************)
(* Instances of CellGraph for TLC: the graphs of service interactions in   *)
(* test_async_rpc.cpp and test_zookeeper.cpp, and all small graphs.        *)
(***************************************************************************)
EXTENDS CellGraph

Graph(kind, inputs, result) == [kind |-> kind, inputs |-> inputs, result |-> result]

\* case500: two raw rpcs, an action, a derived cell, and their merge.
Merge == Graph(<<"rpc", "rpc", "action", "derived", "derived">>,
               <<<<>>, <<>>, <<2>>, <<2>>, <<4, 1>>>>, 5)

\* case700: one guarded rpc, which is the result.
Single == Graph(<<"guarded">>, <<<<>>>>, 1)

\* case701: a guarded rpc; an action and two rollback rpcs on its timeout cell;
\* and the cell that joins the three rpcs.
Rollback == Graph(<<"guarded", "timeout", "action", "guarded", "guarded", "derived">>,
                  <<<<>>, <<1>>, <<2>>, <<2>>, <<2>>, <<1, 4, 5>>>>, 6)

\* case1000: two guarded rpcs and a third started when both are ready.
Join == Graph(<<"guarded", "guarded", "guarded">>, <<<<>>, <<>>, <<1, 2>>>>, 3)

\* test_zookeeper.cpp:88-96 (a sketch there): two nested asynchronous cells after an rpc.
Async == Graph(<<"rpc", "async", "async">>, <<<<>>, <<1>>, <<2>>>>, 3)

\* An asynchronous cell as the result.
AsyncResult == Graph(<<"rpc", "async">>, <<<<>>, <<1>>>>, 2)

\* A derived result and, created after it, an action on the same rpc.
LateAction == Graph(<<"rpc", "derived", "action">>, <<<<>>, <<1>>, <<1>>>>, 2)

\* Every graph of up to three nodes that the code can build.
SmallGraphs ==
    UNION {{g \in [kind : [1 .. n -> Kinds],
                   inputs : [1 .. n -> {<<>>, <<1>>, <<2>>, <<1, 2>>, <<2, 1>>}],
                   result : 1 .. n] : WellFormed(g)} : n \in 1 .. 3}

\* Diamonds: an rpc, two nodes that may listen to it, and a result that listens
\* to one or two of the three.
Diamonds ==
    {g \in [kind : {<<"rpc", k2, k3, k4>> : k2, k3, k4 \in {"rpc", "guarded", "derived"}},
            inputs : {<<<<>>, i2, i3, i4>> :
                         i2 \in {<<>>, <<1>>}, i3 \in {<<>>, <<1>>, <<2>>},
                         i4 \in {<<3>>, <<1, 3>>, <<2, 3>>, <<3, 1>>, <<3, 2>>}},
            result : {4}] : WellFormed(g)}

AllGraphs == SmallGraphs \cup Diamonds \cup {Merge, Rollback}
SingleGraph == {Single}
AsyncGraph == {AsyncResult}
LateActionGraph == {LateAction}
=============================================================================
