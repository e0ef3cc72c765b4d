--------------------------- MODULE MCThriftStruct ---------------------------
(***************************************************************************)
(* Instances of ThriftStruct for TLC: the structs of demo_service.api and  *)
(* api.thrift in pairs, and versions of SingleOptionalFieldStruct.         *)
(***************************************************************************)
EXTENDS ThriftStruct

CONSTANTS a, b

Pair(c, d) == [o \in {a, b} |-> IF o = a THEN c ELSE d]

\* Versions of a struct: an optional field more; a needed field more; value64
\* optional; value with another type.
WithOptional == MsgrpcClass(SingleCases \o <<Scalar("I32")>>, {1, 3})
WithNeeded == MsgrpcClass(SingleCases \o <<Scalar("I32")>>, {1})
AllOptional == MsgrpcClass(SingleCases, {1, 2})
OtherType == MsgrpcClass(<<Scalar("I32"), Scalar("I64")>>, {1})

\* ResponseData of a peer whose EmbeddedStruct may lack es_i8.
LooseEmbedded == MsgrpcClass(EmbeddedCases, {1, 2})
ResponseDataLoose == MsgrpcClass(PlainCases \o NestedCases(LooseEmbedded), 13 .. 17)

AllCasts ==
    <<Pair(SingleMsgrpc, SingleMsgrpc), Pair(SingleMsgrpc, SingleThrift),
      Pair(SingleMsgrpc, WithOptional), Pair(SingleMsgrpc, WithNeeded),
      Pair(SingleMsgrpc, AllOptional), Pair(SingleMsgrpc, OtherType),
      Pair(WithOptional, WithNeeded),
      Pair(ResponseDataMsgrpc, ResponseDataThrift), Pair(ResponseDataMsgrpc, ResponseDataLoose)>>

\* The types of PlainCases and of NestedCases, whose structs have scalars only.
EmbeddedClasses == {EmbeddedMsgrpc, EmbeddedThrift, LooseEmbedded}
FieldsOf(cases) == {cases[f] : f \in DOMAIN cases}
ScalarTypes == FieldsOf(PlainCases)
NestedTypes == UNION {FieldsOf(NestedCases(c)) : c \in EmbeddedClasses}
StructTypes == {StructOf(c) : c \in EmbeddedClasses}
AllTypes == ScalarTypes \cup StructTypes \cup NestedTypes
DepthOf == [t \in AllTypes |-> IF t \in ScalarTypes THEN 0 ELSE IF t \in StructTypes THEN 1 ELSE 2]

\* The constants Elem...: the operations themselves.  Each LET ends what TLC's
\* coverage follows, which would go round in the circle that these close.
AnyDefault(t) == LET value == DefaultValue(t) IN value
AnyEqual(t, v, w) == LET equal == EqualValue(t, v, w) IN equal
AnyWrite(t, v) == LET written == WriteValue(t, v) IN written
AnyRead(t, old, w, clears) == LET read == ReadValue(t, old, w, clears) IN read
AnyTorn(t, old, w, clears) == LET torn == TornValue(t, old, w, clears) IN torn
AnyFits(t, u) == LET fits == FitsValue(t, u) IN fits
AnyApart(t, v) == LET apart == ApartValue(t, v) IN apart

\* Structs a field may hold: es_i8 alone or with es_i16, and of a generated
\* class also es_i16 assigned without its bit, as test_thrift_struct.cpp does.
Structs(c) ==
    {New(c), SetField(c, SetField(c, New(c), 1, 1), 2, 1)}
      \cup (IF 2 \in c.public THEN {[SetField(c, New(c), 1, 1) EXCEPT !.val[2] = 1]} ELSE {})
      \cup (IF 1 \in c.always THEN {} ELSE {SetField(c, New(c), 2, 1)})

\* es_i16 set to its default.
WithZero(c) == SetField(c, SetField(c, New(c), 1, 1), 2, 0)

FewValues(t) ==
    CASE t.wire = "LIST"   -> IF t.elem.wire = "STRUCT"
                                THEN LET list == SetToSeq(Structs(t.elem.class)) IN {list, Reverse(list)}
                                ELSE {<<0, 1>>}
      [] t.wire = "SET"    -> IF t.elem.wire = "STRUCT"
                                THEN LET all == Structs(t.elem.class) \cup {WithZero(t.elem.class)}
                                     IN  {s \in {{v, w} : v, w \in all} : IsSet(t.elem, s)}
                                ELSE {{0}, {0, 1}}
      [] t.wire = "MAP"    -> IF t.elem.wire = "STRUCT"
                                THEN {[k \in {0, 1} |-> v] : v \in Structs(t.elem.class)}
                                ELSE {[k \in {0, 1} |-> 1 - k]}
      [] t.wire = "STRUCT" -> Structs(t.class)
      [] OTHER             -> {0, 1}
=============================================================================
