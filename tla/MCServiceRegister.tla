------------------------- MODULE MCServiceRegister --------------------------
(* Instances of ServiceRegister for TLC: listeners as service_x has them. *)
EXTENDS ServiceRegister

CONSTANTS y, z, yResolver, zResolver

ListensYZ == [l \in {yResolver, zResolver} |-> IF l = yResolver THEN y ELSE z]
ListensY == [l \in {yResolver} |-> y]

\* Endpoint 1 in two sessions, as after a restart, and endpoint 2.
ThreeNodes == {<<1, 1>>, <<1, 2>>, <<2, 1>>}
OneNode == {<<1, 1>>}
=============================================================================
