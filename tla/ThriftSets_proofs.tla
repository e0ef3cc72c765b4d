------------------------- MODULE ThriftSets_proofs -------------------------
(***************************************************************************)
(* Sets. operator< puts the elements of a set into exactly one sequence,   *)
(* the one that write() iterates over and operator== compares. The round   *)
(* trip of a set rests on it (ThriftRoundTrip_proofs).                     *)
(***************************************************************************)
EXTENDS ThriftStruct_proofs

\* What makes the elements of a std::set a sequence: operator< puts any two of
\* them in one order.
Ordered(t, s) ==
    /\ IsFiniteSet(s)
    /\ \A v \in s : ~Before(t, v, v)
    /\ \A v, w \in s : v # w => Before(t, v, w) \/ Before(t, w, v)
    /\ \A u, v, w \in s : Before(t, u, v) /\ Before(t, v, w) => Before(t, u, w)

Increasing(t, q) == \A i, j \in DOMAIN q : i < j => Before(t, q[i], q[j])

LEMMA SetIsOrdered == ASSUME NEW t, NEW s, IsSet(t, s) PROVE Ordered(t, s)
<1>1. CASE t.wire = "STRUCT"
  <2> DEFINE k(v) == Key(t, v)
  <2>1. \A v \in s : k(v) \in Nat \X Nat
    BY <1>1 DEF IsSet
  <2>2. \A v, w \in s : k(v) = k(w) => v = w
    BY DEF IsSet
  <2>3. \A v, w \in s : Before(t, v, w) <=>
           k(v)[1] < k(w)[1] \/ (k(v)[1] = k(w)[1] /\ k(v)[2] < k(w)[2])
    BY <1>1 DEF Before
  <2> HIDE DEF k
  <2>4. \A v \in s : k(v)[1] \in Nat /\ k(v)[2] \in Nat /\ k(v) = <<k(v)[1], k(v)[2]>>
    BY <2>1
  <2> QED BY <2>2, <2>3, <2>4 DEF Ordered, IsSet
<1>2. CASE t.wire # "STRUCT"
  <2>1. \A v \in s : v \in Nat
    BY <1>2 DEF IsSet, Key
  <2>2. \A v, w \in s : Before(t, v, w) <=> v < w
    BY <1>2 DEF Before, Key
  <2> QED BY <2>1, <2>2 DEF Ordered, IsSet
<1> QED BY <1>1, <1>2

\* Ranks: an ordered set can be enumerated in its order.
LEMMA Enumeration ==
    ASSUME NEW t, NEW s, Ordered(t, s)
    PROVE  \E q \in [1 .. Cardinality(s) -> s] :
              \A i, j \in DOMAIN q : i < j => q[i] # q[j] /\ ~Before(t, q[j], q[i])
<1> DEFINE n == Cardinality(s)
           below(v) == {w \in s : Before(t, w, v)}
           rank == [v \in s |-> Cardinality(below(v)) + 1]
<1>1. n \in Nat /\ IsFiniteSet(s) /\ IsFiniteSet(1 .. n) /\ Cardinality(1 .. n) = n
  BY FS_CardinalityType, FS_Interval DEF Ordered
<1>2. ASSUME NEW v \in s PROVE IsFiniteSet(below(v)) /\ Cardinality(below(v)) \in 0 .. n - 1
  <2>1. below(v) \subseteq s \ {v} /\ s \ {v} \subseteq s
    BY DEF Ordered
  <2>2. IsFiniteSet(s \ {v}) /\ Cardinality(s \ {v}) = n - 1
    BY <1>1, FS_RemoveElement
  <2>3. IsFiniteSet(below(v)) /\ Cardinality(below(v)) <= n - 1
    BY <2>1, <2>2, FS_Subset
  <2> QED BY <1>1, <2>3, FS_CardinalityType
<1>3. ASSUME NEW v \in s, NEW w \in s, Before(t, v, w) PROVE rank[v] < rank[w]
  <2>1. below(v) \cup {v} \subseteq below(w) /\ v \notin below(v)
    BY <1>3 DEF Ordered
  <2>2. Cardinality(below(v) \cup {v}) = Cardinality(below(v)) + 1
    BY <1>2, <2>1, FS_AddElement
  <2>3. Cardinality(below(v) \cup {v}) <= Cardinality(below(w))
    BY <1>2, <2>1, FS_Subset
  <2> HIDE DEF below
  <2> QED BY <1>2, <2>2, <2>3
<1>4. rank \in [s -> 1 .. n]
  <2>1. ASSUME NEW v \in s PROVE Cardinality(below(v)) + 1 \in 1 .. n
    <3>1. Cardinality(below(v)) \in 0 .. n - 1
      BY <1>2
    <3> HIDE DEF below, n
    <3> QED BY <1>1, <3>1
  <2> HIDE DEF below
  <2> QED BY <2>1
<1>5. \A v, w \in s : rank[v] = rank[w] => v = w
  <2>1. \A v \in s : rank[v] \in Nat
    BY <1>4
  <2> HIDE DEF rank
  <2> QED BY <1>3, <2>1 DEF Ordered
<1> HIDE DEF rank, n
<1>6. rank \in Surjection(s, 1 .. n)
  <2>1. rank \in Injection(s, 1 .. n)
    BY <1>4, <1>5 DEF Injection, IsInjective
  <2> QED BY <1>1, <2>1, FS_Injection DEF n
<1>7. \A i \in 1 .. n : \E v \in s : rank[v] = i
  BY <1>6 DEF Surjection
<1> DEFINE q == [i \in 1 .. n |-> CHOOSE v \in s : rank[v] = i]
<1>8. q \in [1 .. n -> s] /\ \A i \in 1 .. n : rank[q[i]] = i
  BY <1>7
<1> HIDE DEF q
<1>9. ASSUME NEW i \in 1 .. n, NEW j \in 1 .. n, i < j PROVE q[i] # q[j] /\ ~Before(t, q[j], q[i])
  BY <1>1, <1>3, <1>8, <1>9
<1> QED BY <1>8, <1>9 DEF n

LEMMA InOrderEnumerates ==
    ASSUME NEW t, NEW s, Ordered(t, s)
    PROVE  LET q == InOrder(t, s)
           IN  /\ q \in [1 .. Cardinality(s) -> s] /\ Increasing(t, q)
               /\ \A v \in s : \E i \in DOMAIN q : q[i] = v
<1> DEFINE q == InOrder(t, s)
           n == Cardinality(s)
<1>1. q \in [1 .. n -> s] /\ \A i, j \in DOMAIN q : i < j => q[i] # q[j] /\ ~Before(t, q[j], q[i])
  <2> DEFINE P(p) == \A i, j \in DOMAIN p : i < j => p[i] # p[j] /\ ~Before(t, p[j], p[i])
  <2>1. \E p \in [1 .. n -> s] : P(p)
    BY Enumeration
  <2>2. q = CHOOSE p \in [1 .. n -> s] : P(p)
    BY DEF InOrder
  <2> HIDE DEF P, q
  <2>3. q \in [1 .. n -> s] /\ P(q)
    BY <2>1, <2>2
  <2> QED BY <2>3 DEF P
<1>2. n \in Nat /\ IsFiniteSet(s) /\ IsFiniteSet(1 .. n) /\ Cardinality(1 .. n) = n
  BY FS_CardinalityType, FS_Interval DEF Ordered
<1> HIDE DEF q, n
<1>3. Increasing(t, q)
  BY <1>1 DEF Increasing, Ordered
<1>4. q \in Injection(1 .. n, s)
  BY <1>1, <1>2 DEF Injection, IsInjective
<1>5. q \in Surjection(1 .. n, s)
  BY <1>2, <1>4, FS_Injection DEF n
<1> QED BY <1>1, <1>3, <1>5 DEF Surjection, q, n

\* There is only one such enumeration.
LEMMA InOrderIs ==
    ASSUME NEW t, NEW s, Ordered(t, s), NEW n \in Nat, NEW q \in [1 .. n -> s], Increasing(t, q),
           \A v \in s : \E i \in 1 .. n : q[i] = v
    PROVE  InOrder(t, s) = q
<1> DEFINE p == InOrder(t, s)
           m == Cardinality(s)
<1>1. p \in [1 .. m -> s] /\ Increasing(t, p) /\ \A v \in s : \E i \in 1 .. m : p[i] = v
  <2>1. p \in [1 .. m -> s] /\ Increasing(t, p) /\ \A v \in s : \E i \in DOMAIN p : p[i] = v
    BY InOrderEnumerates
  <2> HIDE DEF p, m
  <2> QED BY <2>1
<1>2. m = n
  <2>1. \A i, j \in 1 .. n : q[i] = q[j] => i = j
    BY DEF Increasing, Ordered
  <2>2. q \in Bijection(1 .. n, s)
    BY <2>1 DEF Bijection, Injection, Surjection, IsInjective
  <2> QED BY <2>2, FS_Interval, FS_Bijection DEF ExistsBijection
<1> HIDE DEF p, m
<1> DEFINE B == {i \in 1 .. n : p[i] # q[i]}
<1>3. ASSUME B # {} PROVE FALSE
  <2>1. PICK i \in B : \A k \in B : i <= k
    <3>1. B \in SUBSET Nat
      OBVIOUS
    <3> HIDE DEF B
    <3> QED BY <1>3, <3>1, SmallestNat
  <2>2. i \in 1 .. n /\ p[i] # q[i] /\ p[i] \in s /\ q[i] \in s
    BY <1>1, <1>2, <2>1
  <2>3. PICK j \in 1 .. n : q[j] = p[i]
    BY <1>1, <1>2, <2>2
  <2>4. PICK k \in 1 .. n : p[k] = q[i]
    BY <1>1, <1>2, <2>2
  <2>5. \A l \in 1 .. n : l < i => p[l] = q[l]
    BY <2>1
  <2>6. i < j
    <3>1. CASE j < i
      BY <1>1, <1>2, <2>2, <2>3, <2>5, <3>1 DEF Increasing, Ordered
    <3> QED BY <2>2, <2>3, <3>1
  <2>7. i < k
    <3>1. CASE k < i
      BY <2>2, <2>4, <2>5, <3>1 DEF Increasing, Ordered
    <3> QED BY <2>2, <2>4, <3>1
  <2>8. Before(t, q[i], p[i]) /\ Before(t, p[i], q[i])
    BY <1>1, <1>2, <2>2, <2>3, <2>4, <2>6, <2>7 DEF Increasing
  <2> QED BY <2>2, <2>8 DEF Ordered
<1>4. p = q
  <2>1. \A i \in 1 .. n : p[i] = q[i]
    BY <1>3
  <2> QED BY <1>1, <1>2, <2>1
<1> QED BY <1>4 DEF p
-----------------------------------------------------------------------------
\* A field's value is treated as a value inside others is.
LEMMA FieldsAndParts ==
    ASSUME Tied, NEW t \in Types
    PROVE  /\ DefaultField(t) = ElemDefault(t)
           /\ \A v, w : EqualField(t, v, w) = ElemEqual(t, v, w)
           /\ \A v : WriteField(t, v) = ElemWrite(t, v)
           /\ \A old, w, clears : ReadField(t, old, w, clears) = ElemRead(t, old, w, clears)
           /\ \A v : ApartField(t, v) = ElemApart(t, v)
<1>1. CASE t.wire = "STRUCT"
  BY <1>1 DEF DefaultField, EqualField, WriteField, ReadField, ApartField
<1>2. CASE t.wire # "STRUCT"
  BY <1>2 DEF Tied, DefaultValue, EqualValue, WriteValue, ReadValue, ApartValue
<1> QED BY <1>1, <1>2

LEMMA ClassOfType ==
    ASSUME NEW t \in Types, t.wire = "STRUCT"
    PROVE  ClassOk(t.class) /\ \A f \in Fids(t.class.cases) : TypeOf(t.class, f) \in Types
BY ThriftStructAssumption DEF ClassOk, Fids, TypeOf

\* operator< finds what it looks at in a value.
HasKey(t, v) == Key(t, v) \in IF t.wire = "STRUCT" THEN Nat \X Nat ELSE Nat

=============================================================================
