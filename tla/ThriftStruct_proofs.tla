------------------------- MODULE ThriftStruct_proofs -------------------------
(***************************************************************************)
(* What objects, messages and the encoder's buffer are at all times, and   *)
(* what reading into an object does, for every choice of classes, of the   *)
(* types of their fields, and of the values an application assigns.        *)
(*                                                                         *)
(* The types of fields are nested to any depth. An argument by recursion   *)
(* takes a type of the least Depth for which the claim fails               *)
(* (SmallestNat): the types it is made of keep the claim, hence it does    *)
(* itself. What a buffer grows to needs the powers of two, which are the   *)
(* cardinalities of the sets of subsets (PowerZero, PowerStep).            *)
(***************************************************************************)
EXTENDS ThriftStruct, TLAPS, FiniteSetTheorems, WellFoundedInduction

LEMMA SmallestNat ==
    ASSUME NEW S \in SUBSET Nat, S # {}
    PROVE  \E m \in S : \A n \in S : m <= n
<1>1. PICK m \in S : \A n \in S : ~(<<n, m>> \in OpToRel(<, Nat))
  BY WFMin, NatLessThanWellFounded, Zenon
<1>2. \A n \in S : ~(n < m)
  BY <1>1, Zenon DEF OpToRel
<1> QED
  BY <1>2

LEMMA PowerZero == 2 ^ 0 = 1
<1>1. Cardinality(SUBSET {}) = 2 ^ Cardinality({})
  BY FS_SUBSET, FS_EmptySet
<1>2. SUBSET {} = {{}}
  OBVIOUS
<1> QED
  BY <1>1, <1>2, FS_EmptySet, FS_Singleton

LEMMA PowerStep ==
    ASSUME NEW n \in Nat
    PROVE  2 ^ (n + 1) = 2 * 2 ^ n /\ 2 ^ n \in Nat /\ 2 ^ (n + 1) \in Nat
<1> DEFINE S == SUBSET (1 .. n)
           T == {U \cup {n + 1} : U \in S}
           f == [U \in S |-> U \cup {n + 1}]
<1>1. IsFiniteSet(1 .. n) /\ Cardinality(1 .. n) = n
  BY FS_Interval
<1>2. IsFiniteSet(1 .. n + 1) /\ Cardinality(1 .. n + 1) = n + 1
  BY FS_Interval
<1>3. IsFiniteSet(S) /\ Cardinality(S) = 2 ^ n
  BY <1>1, FS_SUBSET
<1>4. Cardinality(SUBSET (1 .. n + 1)) = 2 ^ (n + 1)
  BY <1>2, FS_SUBSET
<1>5. n + 1 \notin 1 .. n /\ 1 .. n + 1 = (1 .. n) \cup {n + 1}
  OBVIOUS
<1>6. SUBSET (1 .. n + 1) = S \cup T
  <2>1. ASSUME NEW U \in SUBSET (1 .. n + 1), n + 1 \in U PROVE U \in T
    <3>1. U \ {n + 1} \in S /\ U = (U \ {n + 1}) \cup {n + 1}
      BY <1>5, <2>1
    <3> QED BY <3>1
  <2>2. ASSUME NEW U \in SUBSET (1 .. n + 1), n + 1 \notin U PROVE U \in S
    BY <1>5, <2>2
  <2>3. S \subseteq SUBSET (1 .. n + 1) /\ T \subseteq SUBSET (1 .. n + 1)
    BY <1>5
  <2>4. \A U \in SUBSET (1 .. n + 1) : U \in S \cup T
    BY <2>1, <2>2
  <2> QED BY <2>3, <2>4
<1>7. S \cap T = {}
  BY <1>5
<1>8. f \in Bijection(S, T)
  <2>1. f \in [S -> T] /\ \A U \in T : \E V \in S : f[V] = U
    OBVIOUS
  <2>2. ASSUME NEW U \in S, NEW V \in S, f[U] = f[V] PROVE U = V
    <3>1. U \cup {n + 1} = V \cup {n + 1} /\ n + 1 \notin U /\ n + 1 \notin V
      BY <1>5, <2>2
    <3> QED BY <3>1
  <2> HIDE DEF S, T, f
  <2> QED BY <2>1, <2>2, Zenon DEF Bijection, Injection, Surjection, IsInjective
<1>9. IsFiniteSet(T) /\ Cardinality(T) = Cardinality(S)
  BY <1>3, <1>8, FS_Bijection DEF ExistsBijection
<1>10. Cardinality(S \cup T) = Cardinality(S) + Cardinality(T) - Cardinality(S \cap T)
  BY <1>3, <1>9, FS_Union
<1>11. Cardinality(S) \in Nat /\ Cardinality({}) = 0
  BY <1>3, FS_CardinalityType, FS_EmptySet
<1> HIDE DEF S, T
<1> DEFINE p == 2 ^ n
           q == 2 ^ (n + 1)
<1>12. p = Cardinality(S) /\ q = Cardinality(S \cup T)
  BY <1>3, <1>4, <1>6, Zenon
<1> HIDE DEF p, q
<1>13. Cardinality(S \cap T) = 0 /\ Cardinality(T) = p /\ p \in Nat
  BY <1>7, <1>9, <1>11, <1>12, Zenon
<1>14. q = p + p - 0
  BY <1>10, <1>12, <1>13, Zenon
<1>15. q = 2 * p /\ q \in Nat
  BY <1>13, <1>14
<1> QED BY <1>13, <1>15 DEF p, q

LEMMA PowerAbove == \A n \in Nat : 2 ^ n \in Nat /\ 2 ^ n > n
<1> DEFINE T == {n \in Nat : ~(2 ^ n > n)}
<1>1. ASSUME T # {} PROVE FALSE
  <2>1. PICK m \in T : \A n \in T : m <= n
    BY <1>1, SmallestNat
  <2>2. m # 0
    <3>1. m = 0 => ~(1 > 0)
      BY <2>1, PowerZero, Zenon
    <3> QED BY <3>1
  <2>3. m - 1 \in Nat /\ 2 ^ (m - 1) > m - 1
    BY <2>1, <2>2
  <2>4. 2 ^ (m - 1) \in Nat /\ 2 ^ ((m - 1) + 1) = 2 * 2 ^ (m - 1)
    BY <2>3, PowerStep
  <2>5. (m - 1) + 1 = m
    BY <2>1
  <2> DEFINE p == 2 ^ (m - 1)
             q == 2 ^ m
  <2>6. p \in Nat /\ q = 2 * p /\ p > m - 1 /\ ~(q > m)
    BY <2>1, <2>3, <2>4, <2>5, Zenon
  <2> HIDE DEF p, q
  <2> QED BY <2>1, <2>2, <2>6
<1>2. \A n \in Nat : 2 ^ n \in Nat
  BY PowerStep
<1> QED BY <1>1, <1>2

\* What a buffer grows to: nothing if the message fits, and less than twice the message.
LEMMA GrownEnough ==
    ASSUME NEW size \in Nat \ {0}, NEW needed \in Nat
    PROVE  /\ Grown(size, needed) \in Nat
           /\ needed <= size => Grown(size, needed) = size
           /\ Grown(size, needed) = size \/ Grown(size, needed) < 2 * needed
<1> DEFINE p[i \in Nat] == 2 ^ i
           V == {size * p[i] : i \in 0 .. needed}
           Fitting(g) == g >= needed /\ \A i \in 0 .. needed : size * p[i] >= needed => g <= size * p[i]
<1>1. \A i \in Nat : p[i] = 2 ^ i
  OBVIOUS
<1>2. /\ \A i \in Nat : p[i] \in Nat /\ p[i] > i
      /\ p[0] = 1 /\ \A i \in Nat : p[i + 1] = 2 * p[i]
  <2>1. \A i \in Nat : i + 1 \in Nat
    OBVIOUS
  <2> QED BY <1>1, <2>1, PowerAbove, PowerStep, PowerZero, Zenon
<1>3. /\ V = {size * 2 ^ i : i \in 0 .. needed}
      /\ \A g : Fitting(g) <=> /\ g >= needed
                             /\ \A i \in 0 .. needed : size * 2 ^ i >= needed => g <= size * 2 ^ i
  <2>1. \A i \in 0 .. needed : p[i] = 2 ^ i
    BY <1>1
  <2> HIDE DEF p
  <2>2. V = {size * 2 ^ i : i \in 0 .. needed}
    BY <2>1, Zenon
  <2>3. \A i \in 0 .. needed : size * p[i] = size * 2 ^ i
    BY <2>1, Zenon
  <2>4. ASSUME NEW g
        PROVE  Fitting(g) <=> /\ g >= needed
                              /\ \A i \in 0 .. needed : size * 2 ^ i >= needed => g <= size * 2 ^ i
    BY <2>3, Zenon
  <2> QED BY <2>2, <2>4, Zenon
<1> HIDE DEF p
<1>4. \A i \in 0 .. needed : p[i] \in Nat /\ size * p[i] \in Nat /\ size * p[i] >= p[i]
  <2>1. ASSUME NEW q \in Nat PROVE size * q \in Nat /\ size * q >= q
    OBVIOUS
  <2>2. \A i \in 0 .. needed : i \in Nat
    OBVIOUS
  <2> QED BY <1>2, <2>1, <2>2, Zenon
<1>5. \E g \in V : Fitting(g)
  <2> DEFINE W == {v \in V : v >= needed}
  <2>1. size * p[needed] \in W
    BY <1>2, <1>4
  <2>2. W \subseteq Nat /\ W # {}
    BY <1>4, <2>1
  <2>3. PICK g \in W : \A v \in W : g <= v
    BY <2>2, SmallestNat
  <2> QED BY <2>3
<1> DEFINE g == Grown(size, needed)
<1>6. g \in V /\ Fitting(g)
  <2> HIDE DEF V, Fitting
  <2> QED BY <1>3, <1>5, Zenon DEF Grown
<1> HIDE DEF g
<1>7. PICK i \in 0 .. needed : g = size * p[i]
  BY <1>6
<1>8. CASE i = 0
  BY <1>2, <1>4, <1>6, <1>7, <1>8 DEF g
<1>9. CASE i # 0
  <2>1. i - 1 \in 0 .. needed /\ p[i] = 2 * p[i - 1] /\ p[i - 1] \in Nat /\ p[i - 1] > 0
    <3>1. i - 1 \in Nat /\ (i - 1) + 1 = i
      BY <1>9
    <3> QED BY <1>2, <3>1
  <2>2. ASSUME NEW q \in Nat, q > 0 PROVE size * q > 0 /\ size * (2 * q) = 2 * (size * q) /\ size * q \in Nat
    <3>1. size \in Int /\ size > 0 /\ q \in Int
      OBVIOUS
    <3>2. size * q \in Int /\ size * q > 0
      BY <2>2, <3>1
    <3>3. size * (2 * q) = 2 * (size * q)
      BY <3>1
    <3> QED BY <3>2, <3>3
  <2> DEFINE h == size * p[i - 1]
  <2>3. h \in Nat /\ h > 0 /\ g = 2 * h /\ (h >= needed => g <= h)
    BY <1>6, <1>7, <2>1, <2>2
  <2>4. h < needed
    BY <2>3
  <2>5. p[i - 1] >= 1 /\ h >= size
    <3>1. ASSUME NEW q \in Nat, q >= 1 PROVE size * q >= size
      <4>1. size * (q - 1) >= 0
        BY <3>1
      <4> QED BY <4>1
    <3> QED BY <2>1, <3>1
  <2> HIDE DEF h
  <2> QED BY <2>3, <2>4, <2>5 DEF g
<1> QED BY <1>8, <1>9
-----------------------------------------------------------------------------
LEMMA ClassesOk ==
    ASSUME cast \in DOMAIN Casts, NEW o \in Objs
    PROVE  ClassOk(class[o])
BY ThriftStructAssumption DEF ClassOk, Fids, class

LEMMA NewOk == ASSUME NEW c PROVE ObjectOk(c, New(c))
BY DEF ObjectOk, New

LEMMA SetFieldOk ==
    ASSUME NEW c, NEW o, ObjectOk(c, o), NEW f \in Fids(c.cases), NEW v
    PROVE  ObjectOk(c, SetField(c, o, f, v)) /\ ObjectOk(c, [o EXCEPT !.val[f] = v])
BY DEF ObjectOk, SetField

LEMMA ReadOk ==
    ASSUME NEW c, NEW o, ObjectOk(c, o), NEW msg
    PROVE  ObjectOk(c, Read(c, o, msg).val)
<1> DEFINE cases == Cases(c, msg.fields)
           r == [f \in cases |-> ReadField(TypeOf(c, f), o.val[f], msg.fields[f].val, c.clears)]
           read == Reached(r)
<1>1. read \subseteq Fids(c.cases)
  <2>1. DOMAIN r \subseteq Fids(c.cases)
    BY DEF Cases
  <2> HIDE DEF r
  <2> QED BY <2>1 DEF Reached
<1>2. Read(c, o, msg).val = [val   |-> [f \in Fids(c.cases) |-> IF f \in read THEN r[f].val ELSE o.val[f]],
                             isset |-> o.isset \cup ((read \ Errors(r)) \ c.always)]
  BY DEF Read
<1> HIDE DEF read, r
<1> QED
  BY <1>1, <1>2 DEF ObjectOk

WithField(o, f, v) == [o EXCEPT !.val[f] = v]

\* What a read that ends inside a field leaves: at most that field is another.
LEMMA ShortForms ==
    ASSUME NEW c, NEW o, NEW msg, NEW cut, NEW x \in ReadShort(c, o, msg, cut)
    PROVE  \/ x = Read(c, o, CutShort(msg, cut)).val
           \/ \E f, v : /\ x = WithField(Read(c, o, CutShort(msg, cut)).val, f, v)
                        /\ Cardinality({g \in DOMAIN msg.fields : f <= g}) = cut
<1> DEFINE left == Read(c, o, CutShort(msg, cut)).val
           ms == msg.fields
           r == [f \in Cases(c, ms) |-> ReadField(TypeOf(c, f), o.val[f], ms[f].val, c.clears)]
           torn == {f \in Reached(r) : Cardinality({g \in DOMAIN ms : f <= g}) = cut}
           parts(f) == TornField(TypeOf(c, f), o.val[f], ms[f].val, c.clears)
<1>1. x \in {left} \cup UNION {{[left EXCEPT !.val[f] = v] : v \in parts(f)} : f \in torn}
  BY DEF ReadShort
<1>2. \A f \in torn : Cardinality({g \in DOMAIN msg.fields : f <= g}) = cut
  OBVIOUS
<1> HIDE DEF left, torn, parts
<1>3. x = left \/ \E f \in torn : \E v \in parts(f) : x = WithField(left, f, v)
  BY <1>1 DEF WithField
<1> QED BY <1>2, <1>3 DEF left

\* Nor does a read that ends inside a field make anything else of an object.
LEMMA ShortOk ==
    ASSUME NEW c, NEW o, ObjectOk(c, o), NEW msg, NEW cut, NEW x \in ReadShort(c, o, msg, cut)
    PROVE  ObjectOk(c, x)
<1> DEFINE left == Read(c, o, CutShort(msg, cut)).val
<1>1. ObjectOk(c, left)
  BY ReadOk
<1>2. x = left \/ \E f, v : x = WithField(left, f, v)
  <2>1. \/ x = Read(c, o, CutShort(msg, cut)).val
        \/ \E f, v : /\ x = WithField(Read(c, o, CutShort(msg, cut)).val, f, v)
                     /\ Cardinality({g \in DOMAIN msg.fields : f <= g}) = cut
    BY ShortForms
  <2> QED BY <2>1
<1> HIDE DEF left
<1>3. ASSUME NEW f, NEW v PROVE ObjectOk(c, WithField(left, f, v))
  BY <1>1 DEF ObjectOk, WithField
<1> QED BY <1>1, <1>2, <1>3

LEMMA WriteOk ==
    ASSUME NEW c, ClassOk(c), NEW o
    PROVE  MessageOk(Write(c, o))
<1>1. Written(c, o) \in SUBSET Nat /\ IsFiniteSet(Written(c, o))
  BY FS_Subset DEF Written, ClassOk, Fids
<1>2. DOMAIN Write(c, o).fields = Written(c, o)
  BY DEF Write
<1> QED
  BY <1>1, <1>2 DEF MessageOk, Write

LEMMA SizeIsNat ==
    ASSUME NEW msg, MessageOk(msg)
    PROVE  Size(msg) \in Nat
BY FS_CardinalityType DEF MessageOk, Size
-----------------------------------------------------------------------------
\* What keeps BufferGivenBack: until a large message has come, the buffer has
\* its first size, and afterwards it is always reset to it.
ResetGivesDefault == should_reset_to_default_size_ \/ capacity = DefaultSize

IInv == TypeOK /\ ResetGivesDefault /\ BufferGivenBack

LEMMA InitInv == Init => IInv
<1> SUFFICES ASSUME Init PROVE IInv
  OBVIOUS
<1>1. TypeOK
  <2>1. \A o \in Objs : ObjectOk(class[o], obj[o])
    BY NewOk DEF Init
  <2>2. MessageOk(mem_buf_)
    BY FS_EmptySet DEF Init, MessageOk
  <2>3. 0 \in 0 .. MaxChanges /\ DefaultSize \in Nat
    BY ThriftStructAssumption
  <2>4. DOMAIN obj = Objs
    BY DEF Init
  <2> QED
    BY <2>1, <2>2, <2>3, <2>4 DEF Init, TypeOK
<1>2. ResetGivesDefault /\ BufferGivenBack
  BY DEF Init, ResetGivesDefault, BufferGivenBack
<1> QED BY <1>1, <1>2 DEF IInv

\* The steps that change one object, in a way that keeps it an object of its class.
LEMMA ObjectStep ==
    ASSUME IInv, NEW o \in Objs, NEW x, ObjectOk(class[o], x), obj' = [obj EXCEPT ![o] = x],
           changes' \in 0 .. MaxChanges, UNCHANGED <<cast, encoderVars>>
    PROVE  IInv'
<1>1. class' = class
  BY DEF class
<1>2. DOMAIN obj' = Objs /\ \A p \in Objs : ObjectOk(class[p], obj'[p])
  BY DEF IInv, TypeOK
<1>3. TypeOK'
  BY <1>1, <1>2 DEF IInv, TypeOK, encoderVars
<1>4. ResetGivesDefault' /\ BufferGivenBack'
  BY DEF IInv, ResetGivesDefault, BufferGivenBack, encoderVars
<1> QED BY <1>3, <1>4 DEF IInv

LEMMA AssignInv ==
    ASSUME IInv, NEW o \in Objs, NEW f \in Fids(class[o].cases), NEW v, Assign(o, f, v)
    PROVE  IInv'
<1>1. changes' \in 0 .. MaxChanges /\ UNCHANGED <<cast, encoderVars>>
  BY ThriftStructAssumption DEF Assign, IInv, TypeOK
<1>2. ObjectOk(class[o], obj[o])
  BY DEF IInv, TypeOK
<1>3. CASE obj' = [obj EXCEPT ![o] = SetField(class[o], @, f, v)]
  BY <1>1, <1>2, <1>3, SetFieldOk, ObjectStep
<1>4. CASE obj' = [obj EXCEPT ![o].val[f] = v]
  <2>1. obj' = [obj EXCEPT ![o] = [obj[o] EXCEPT !.val[f] = v]]
    BY <1>4
  <2> QED BY <1>1, <1>2, <2>1, SetFieldOk, ObjectStep
<1> QED BY <1>3, <1>4 DEF Assign

LEMMA SwapInv ==
    ASSUME IInv, NEW o \in Objs, NEW p \in Objs, Swap(o, p)
    PROVE  IInv'
<1>1. class' = class
  BY DEF class, Swap
<1>2. DOMAIN obj' = Objs /\ \A q \in Objs : ObjectOk(class[q], obj'[q])
  <2>1. obj' = [obj EXCEPT ![o] = obj[p], ![p] = obj[o]] /\ class[o] = class[p]
    BY DEF Swap
  <2>2. DOMAIN obj = Objs /\ \A q \in Objs : ObjectOk(class[q], obj[q])
    BY DEF IInv, TypeOK
  <2> QED BY <2>1, <2>2
<1>3. TypeOK'
  BY <1>1, <1>2 DEF IInv, TypeOK, encoderVars, Swap
<1>4. ResetGivesDefault' /\ BufferGivenBack'
  BY DEF IInv, ResetGivesDefault, BufferGivenBack, encoderVars, Swap
<1> QED BY <1>3, <1>4 DEF IInv

LEMMA EncodeInv ==
    ASSUME IInv, NEW o \in Objs, Encode(o)
    PROVE  IInv'
<1> DEFINE msg == Write(class[o], obj[o])
<1>1. /\ mem_buf_' = msg /\ capacity' = Grown(Reset, Size(msg))
      /\ should_reset_to_default_size_' = (should_reset_to_default_size_ \/ Size(msg) > DefaultSize)
      /\ UNCHANGED <<cast, obj, changes>>
  BY DEF Encode
<1>2. MessageOk(msg) /\ Size(msg) \in Nat
  BY ClassesOk, WriteOk, SizeIsNat DEF IInv, TypeOK
<1> HIDE DEF msg
<1>3. Reset = DefaultSize
  BY DEF IInv, ResetGivesDefault, Reset
<1>4. /\ capacity' \in Nat
      /\ Size(msg) <= DefaultSize => capacity' = DefaultSize
      /\ capacity' = DefaultSize \/ capacity' < 2 * Size(msg)
  BY <1>1, <1>2, <1>3, GrownEnough, ThriftStructAssumption
<1>5. TypeOK'
  <2>1. class' = class
    BY <1>1 DEF class
  <2>2. should_reset_to_default_size_' \in BOOLEAN
    BY <1>1
  <2> QED BY <1>1, <1>2, <1>4, <2>1, <2>2 DEF IInv, TypeOK
<1>6. ResetGivesDefault'
  <2>1. CASE Size(msg) > DefaultSize
    BY <1>1, <2>1 DEF ResetGivesDefault
  <2>2. CASE ~(Size(msg) > DefaultSize)
    BY <1>2, <1>4, <2>2, ThriftStructAssumption DEF ResetGivesDefault
  <2> QED BY <2>1, <2>2
<1>7. BufferGivenBack'
  BY <1>1, <1>4 DEF BufferGivenBack, Size
<1> QED BY <1>5, <1>6, <1>7 DEF IInv

LEMMA NextInv == IInv /\ [Next]_vars => IInv'
<1> SUFFICES ASSUME IInv, [Next]_vars PROVE IInv'
  OBVIOUS
<1>1. ASSUME NEW o \in Objs, NEW f \in Fids(class[o].cases), NEW v, Assign(o, f, v) PROVE IInv'
  BY <1>1, AssignInv
<1>2. ASSUME NEW o \in Objs, Construct(o) PROVE IInv'
  BY <1>2, NewOk, ObjectStep DEF Construct, IInv, TypeOK
<1>3. ASSUME NEW o \in Objs, Encode(o) PROVE IInv'
  BY <1>3, EncodeInv
<1>4. ASSUME NEW o \in Objs, NEW p \in Objs, Copy(o, p) PROVE IInv'
  BY <1>4, ObjectStep DEF Copy, IInv, TypeOK
<1>5. ASSUME NEW o \in Objs, NEW p \in Objs, Swap(o, p) PROVE IInv'
  BY <1>5, SwapInv
<1>6. ASSUME NEW p \in Objs, NEW cut \in Cuts, Decode(p, cut) PROVE IInv'
  <2>1. PICK x \in ReadShort(class[p], obj[p], mem_buf_, cut) : obj' = [obj EXCEPT ![p] = x]
    BY <1>6 DEF Decode
  <2>2. ObjectOk(class[p], x)
    BY ShortOk DEF IInv, TypeOK
  <2>3. changes' \in 0 .. MaxChanges /\ UNCHANGED <<cast, encoderVars>>
    <3>1. changes \in 0 .. MaxChanges /\ MaxChanges \in Nat
      BY ThriftStructAssumption DEF IInv, TypeOK
    <3>2. changes' = changes \/ (changes < MaxChanges /\ changes' = changes + 1)
      BY <1>6 DEF Decode
    <3>3. UNCHANGED <<cast, encoderVars>>
      BY <1>6 DEF Decode
    <3> QED BY <3>1, <3>2, <3>3
  <2> QED BY <2>1, <2>2, <2>3, ObjectStep
<1>7. CASE UNCHANGED vars
  <2>1. class' = class
    BY <1>7 DEF class, vars
  <2> QED
    BY <1>7, <2>1 DEF IInv, TypeOK, ResetGivesDefault, BufferGivenBack, vars, encoderVars
<1> QED BY <1>1, <1>2, <1>3, <1>4, <1>5, <1>6, <1>7 DEF Next

LEMMA Invariance == Spec => []IInv
BY InitInv, NextInv, PTL DEF Spec

\* Objects keep the members of their class, and only optional fields are ever
\* marked as set, through every sequence of assignments, copies and partial reads.
THEOREM TypeCorrect == Spec => []TypeOK
<1>1. IInv => TypeOK
  BY DEF IInv
<1> QED BY <1>1, Invariance, PTL

\* The encoder of a thread gives back the memory of a large message with the next
\* encode (ThriftEncoder::do_encode).
THEOREM BufferIsGivenBack == Spec => []BufferGivenBack
<1>1. IInv => BufferGivenBack
  BY DEF IInv
<1> QED BY <1>1, Invariance, PTL
-----------------------------------------------------------------------------
\* What the cases of read() get, field by field.
Results(c, o, msg) ==
    [f \in Cases(c, msg.fields) |-> ReadField(TypeOf(c, f), o.val[f], msg.fields[f].val, c.clears)]

LEMMA AllReached ==
    ASSUME NEW r, Errors(r) = {}
    PROVE  Reached(r) = DOMAIN r
BY DEF Reached

\* read() where no value is an error.
LEMMA ReadWithoutErrors ==
    ASSUME NEW c, NEW o, NEW msg, Errors(Results(c, o, msg)) = {}
    PROVE  LET r == Read(c, o, msg)
               came == Cases(c, msg.fields)
           IN  /\ r.ok <=> msg.stop /\ Received(c, came)
               /\ r.val.isset = o.isset \cup (came \ c.always)
               /\ r.val.val = [f \in Fids(c.cases) |-> IF f \in came THEN Results(c, o, msg)[f].val
                                                                    ELSE o.val[f]]
<1> DEFINE r == Results(c, o, msg)
<1>1. DOMAIN r = Cases(c, msg.fields)
  BY DEF Results
<1>2. Reached(r) = Cases(c, msg.fields)
  BY <1>1, AllReached
<1>3. Read(c, o, msg) =
        [ok  |-> Errors(r) = {} /\ msg.stop /\ Received(c, Cases(c, msg.fields)),
         val |-> [val   |-> [f \in Fids(c.cases) |-> IF f \in Reached(r) THEN r[f].val ELSE o.val[f]],
                  isset |-> o.isset \cup ((Reached(r) \ Errors(r)) \ c.always)]]
  BY DEF Read, Results
<1> HIDE DEF r
<1>4. Read(c, o, msg).ok <=> msg.stop /\ Received(c, Cases(c, msg.fields))
  <2>1. Read(c, o, msg).ok = (Errors(r) = {} /\ msg.stop /\ Received(c, Cases(c, msg.fields)))
    BY <1>3
  <2>2. Errors(r) = {}
    BY DEF r
  <2> QED BY <2>1, <2>2, Zenon
<1>5. Read(c, o, msg).val.isset = o.isset \cup (Cases(c, msg.fields) \ c.always)
  BY <1>2, <1>3 DEF r
<1>6. Read(c, o, msg).val.val = [f \in Fids(c.cases) |-> IF f \in Cases(c, msg.fields) THEN r[f].val ELSE o.val[f]]
  BY <1>2, <1>3
<1> QED BY <1>4, <1>5, <1>6 DEF r

\* read() that does not throw.
LEMMA ReadOkHasNoErrors ==
    ASSUME NEW c, NEW o, NEW msg, Read(c, o, msg).ok
    PROVE  /\ Errors(Results(c, o, msg)) = {}
           /\ msg.stop /\ Received(c, Cases(c, msg.fields))
BY DEF Read, Results

LEMMA ScalarsAreShared ==
    ASSUME NEW c, NEW d, NEW x, NEW new, Fids(d.cases) = Scalars(d)
    PROVE  LET msg == Write(d, x)
               shared == {f \in Fids(c.cases) \cap Fids(d.cases) :
                             TypeOf(c, f).wire = TypeOf(d, f).wire /\ f \in d.always \cup x.isset}
           IN  /\ Cases(c, msg.fields) = shared /\ msg.stop = TRUE
               /\ \A f \in shared : Results(c, new, msg)[f] = [ok |-> TRUE, val |-> x.val[f]]
               /\ Errors(Results(c, new, msg)) = {}
<1> DEFINE msg == Write(d, x)
           shared == {f \in Fids(c.cases) \cap Fids(d.cases) :
                         TypeOf(c, f).wire = TypeOf(d, f).wire /\ f \in d.always \cup x.isset}
           r == Results(c, new, msg)
<1>1. DOMAIN msg.fields = Written(d, x) /\ msg.stop = TRUE
  BY DEF Write
<1>2. \A f \in Written(d, x) : /\ msg.fields[f].wire = TypeOf(d, f).wire
                               /\ msg.fields[f].val = WriteField(TypeOf(d, f), x.val[f])
  BY DEF Write
<1>3. Cases(c, msg.fields) = shared
  BY <1>1, <1>2 DEF Cases, Written
<1>4. DOMAIN r = shared /\ \A f \in shared : r[f] = [ok |-> TRUE, val |-> x.val[f]]
  <2>1. DOMAIN r = shared
    BY <1>3 DEF Results
  <2>2. ASSUME NEW f \in shared PROVE r[f] = [ok |-> TRUE, val |-> x.val[f]]
    <3>1. IsScalar(TypeOf(d, f)) /\ TypeOf(c, f).wire = TypeOf(d, f).wire /\ f \in Written(d, x)
      BY DEF IsScalar, Scalars, Written
    <3>2. r[f] = ReadField(TypeOf(c, f), new.val[f], msg.fields[f].val, c.clears)
      BY <1>3 DEF Results
    <3>3. msg.fields[f].val = WriteField(TypeOf(d, f), x.val[f])
      BY <1>2, <3>1
    <3>4. ReadField(TypeOf(c, f), new.val[f], WriteField(TypeOf(d, f), x.val[f]), c.clears)
            = [ok |-> TRUE, val |-> x.val[f]]
      BY <3>1 DEF IsScalar, ReadField, WriteField
    <3> HIDE DEF msg, r
    <3> QED BY <3>2, <3>3, <3>4
  <2> QED BY <2>1, <2>2
<1> HIDE DEF r, shared
<1>5. Errors(r) = {}
  <2>1. \A f \in DOMAIN r : r[f].ok = TRUE
    BY <1>4
  <2> QED BY <2>1 DEF Errors
<1> QED BY <1>1, <1>3, <1>4, <1>5 DEF r, shared

LEMMA VersionsFromTypes == TypeOK => VersionsUnderstand
<1> SUFFICES ASSUME TypeOK, NEW o \in Objs, NEW p \in Objs,
                    Fids(class[o].cases) = Scalars(class[o])
             PROVE  LET c == class[p]
                        d == class[o]
                        shared == {f \in Fids(c.cases) \cap Fids(d.cases) :
                                      TypeOf(c, f).wire = TypeOf(d, f).wire /\ f \in d.always \cup obj[o].isset}
                        r == Sent(o, c)
                    IN  /\ r.ok <=> c.needed \subseteq shared
                        /\ r.val.isset = shared \ c.always
                        /\ \A f \in Fids(c.cases) :
                              r.val.val[f] = IF f \in shared THEN obj[o].val[f] ELSE DefaultField(TypeOf(c, f))
  BY DEF VersionsUnderstand
<1> DEFINE c == class[p]
           d == class[o]
           shared == {f \in Fids(c.cases) \cap Fids(d.cases) :
                         TypeOf(c, f).wire = TypeOf(d, f).wire /\ f \in d.always \cup obj[o].isset}
           msg == Write(d, obj[o])
           res == Results(c, New(c), msg)
           r == Read(c, New(c), msg)
<1> HIDE DEF c, d
<1>1. /\ Cases(c, msg.fields) = shared /\ msg.stop = TRUE
      /\ \A f \in shared : res[f] = [ok |-> TRUE, val |-> obj[o].val[f]]
      /\ Errors(res) = {}
  BY ScalarsAreShared DEF d
<1> HIDE DEF shared, msg, res
<1>2. /\ r.ok <=> msg.stop /\ Received(c, shared)
      /\ r.val.isset = New(c).isset \cup (shared \ c.always)
      /\ r.val.val = [f \in Fids(c.cases) |-> IF f \in shared THEN res[f].val ELSE New(c).val[f]]
  BY <1>1, ReadWithoutErrors DEF res
<1>3. New(c).isset = {} /\ \A f \in Fids(c.cases) : New(c).val[f] = DefaultField(TypeOf(c, f))
  BY DEF New
<1>4. r = Sent(o, c)
  BY DEF Sent, msg, d
<1> HIDE DEF r
<1>5. r.ok <=> c.needed \subseteq shared
  BY <1>1, <1>2 DEF Received
<1>6. r.val.isset = shared \ c.always
  BY <1>2, <1>3
<1>7. \A f \in Fids(c.cases) : r.val.val[f] = IF f \in shared THEN obj[o].val[f] ELSE DefaultField(TypeOf(c, f))
  <2>1. ASSUME NEW f \in shared PROVE res[f].val = obj[o].val[f]
    <3>1. res[f] = [ok |-> TRUE, val |-> obj[o].val[f]]
      BY <1>1, Zenon
    <3> QED BY <3>1
  <2>2. \A f \in Fids(c.cases) : r.val.val[f] = IF f \in shared THEN res[f].val ELSE New(c).val[f]
    BY <1>2
  <2> QED BY <1>3, <2>1, <2>2
<1> QED BY <1>4, <1>5, <1>6, <1>7 DEF c, d, shared

\* Between any two classes, generated or expanded, of any fields: what a struct of
\* scalars sends is refused only for a needed field that does not come, and
\* otherwise the shared fields arrive and nothing else does.
THEOREM VersionsUnderstandHolds == Spec => []VersionsUnderstand
BY TypeCorrect, VersionsFromTypes, PTL
-----------------------------------------------------------------------------
\* What MCThriftStruct says of the operator constants: values inside others are made,
\* compared, written and read as those of fields are.  On Types, whose Depth makes
\* this a definition by recursion, some operators always satisfy it.
Tied == \A t \in Types :
           /\ ElemDefault(t) = DefaultValue(t)
           /\ \A v, w : ElemEqual(t, v, w) = EqualValue(t, v, w)
           /\ \A v : ElemWrite(t, v) = WriteValue(t, v)
           /\ \A old, w, clears : ElemRead(t, old, w, clears) = ReadValue(t, old, w, clears)
           /\ \A old, w, clears : ElemTorn(t, old, w, clears) = TornValue(t, old, w, clears)
           /\ \A u \in Types : ElemFits(t, u) = FitsValue(t, u)
           /\ \A v : ElemApart(t, v) = ApartValue(t, v)

LEMMA FieldTypes ==
    ASSUME cast \in DOMAIN Casts, NEW o \in Objs, NEW f \in Fids(class[o].cases)
    PROVE  TypeOf(class[o], f) \in Types
BY ThriftStructAssumption DEF ClassOk, Fids, TypeOf, class

LEMMA PartTypes ==
    ASSUME NEW t \in Types, NEW u \in Parts(t)
    PROVE  u \in Types /\ Depth[u] \in Nat /\ Depth[t] \in Nat /\ Depth[u] < Depth[t]
BY ThriftStructAssumption

\* Only a struct can be read into what it held; all else throws or not by what comes.
LEMMA OkByWhatComes ==
    ASSUME NEW t, t.wire # "STRUCT", NEW v1, NEW v2, NEW w, NEW clears
    PROVE  ReadField(t, v1, w, clears).ok = ReadField(t, v2, w, clears).ok
BY DEF ReadField, ReadList, ReadMap, ReadSet, InsertAll

LEMMA ErrorsOfRead ==
    ASSUME NEW c, NEW x1, NEW x2, NEW msg,
           \A f \in Fids(c.cases) : \A w :
              ReadField(TypeOf(c, f), x1.val[f], w, c.clears).ok = ReadField(TypeOf(c, f), x2.val[f], w, c.clears).ok
    PROVE  Errors(Results(c, x1, msg)) = Errors(Results(c, x2, msg))
<1> DEFINE r == Results(c, x1, msg)
           s == Results(c, x2, msg)
<1>1. DOMAIN r = Cases(c, msg.fields) /\ DOMAIN s = Cases(c, msg.fields)
  BY DEF Results
<1>2. ASSUME NEW f \in Cases(c, msg.fields) PROVE r[f].ok = s[f].ok
  <2>1. f \in Fids(c.cases)
    BY DEF Cases
  <2> QED BY <2>1 DEF Results
<1> HIDE DEF r, s
<1> QED BY <1>1, <1>2 DEF Errors, r, s

LEMMA OkOfRead ==
    ASSUME NEW c, NEW x1, NEW x2, NEW msg, Errors(Results(c, x1, msg)) = Errors(Results(c, x2, msg))
    PROVE  Read(c, x1, msg).ok = Read(c, x2, msg).ok
<1>1. \A x : Read(c, x, msg).ok = (Errors(Results(c, x, msg)) = {} /\ msg.stop /\ Received(c, Cases(c, msg.fields)))
  BY DEF Read, Results
<1> QED BY <1>1, Zenon

\* Whether a read throws does not depend on what it reads into.
LEMMA OkIgnoresOld ==
    ASSUME Tied, NEW t \in Types, NEW v1, NEW v2, NEW w, NEW clears
    PROVE  ReadField(t, v1, w, clears).ok = ReadField(t, v2, w, clears).ok
<1> DEFINE Ignores(u) == \A x1, x2, y, cl : ReadField(u, x1, y, cl).ok = ReadField(u, x2, y, cl).ok
           B == {u \in Types : ~Ignores(u)}
           D == {Depth[u] : u \in B}
<1>1. ASSUME B # {} PROVE FALSE
  <2>1. D \subseteq Nat /\ D # {}
    BY <1>1, ThriftStructAssumption
  <2>2. PICK m \in D : \A n \in D : m <= n
    BY <2>1, SmallestNat
  <2>3. PICK u \in B : Depth[u] = m
    BY <2>2
  <2>4. u \in Types /\ ~Ignores(u)
    BY <2>3
  <2>5. u.wire = "STRUCT"
    BY <2>4, OkByWhatComes
  <2>6. ASSUME NEW f \in Fids(u.class.cases) PROVE Ignores(TypeOf(u.class, f))
    <3>1. TypeOf(u.class, f) \in Parts(u)
      BY <2>5 DEF Parts, TypeOf, Fids
    <3>2. TypeOf(u.class, f) \in Types /\ Depth[TypeOf(u.class, f)] \in Nat /\ Depth[TypeOf(u.class, f)] < m
      BY <2>3, <2>4, <3>1, PartTypes
    <3>3. TypeOf(u.class, f) \notin B
      BY <2>1, <2>2, <3>2
    <3> QED BY <3>2, <3>3
  <2>7. \A x1, x2, y, cl : ReadField(u, x1, y, cl).ok = ReadField(u, x2, y, cl).ok
    <3> SUFFICES ASSUME NEW x1, NEW x2, NEW y, NEW cl
                 PROVE  ReadField(u, x1, y, cl).ok = ReadField(u, x2, y, cl).ok
      OBVIOUS
    <3>1. \A x : ReadField(u, x, y, cl) = Read(u.class, x, y)
      BY <2>4, <2>5 DEF Tied, ReadField, ReadValue
    <3>2. Errors(Results(u.class, x1, y)) = Errors(Results(u.class, x2, y))
      BY <2>6, ErrorsOfRead
    <3>3. Read(u.class, x1, y).ok = Read(u.class, x2, y).ok
      BY <3>2, OkOfRead
    <3> QED BY <3>1, <3>3
  <2> QED BY <2>4, <2>7
<1>2. Ignores(t)
  BY <1>1
<1> QED BY <1>2

\* A set read into another keeps what it has, and gains what an empty one would
\* gain but for the equivalents of what it has.
LEMMA InsertedAnyway ==
    ASSUME NEW t, NEW s, NEW w, NEW clears
    PROVE  Joined(t, s, InsertAll(t, {}, w, clears).val, InsertAll(t, s, w, clears).val)
<1> DEFINE r == [i \in DOMAIN w |-> ElemRead(t, ElemDefault(t), w[i], clears)]
           there(q, i) == q \cup {r[j].val : j \in 1 .. i - 1}
           new(q) == {i \in Reached(r) \ Errors(r) : \A v \in there(q, i) : Key(t, v) # Key(t, r[i].val)}
<1>1. \A q : InsertAll(t, q, w, clears).val = q \cup {r[i].val : i \in new(q)}
  BY DEF InsertAll, Inserts
<1>2. new(s) \subseteq new({})
  OBVIOUS
<1>3. ASSUME NEW i \in new({}), i \notin new(s)
      PROVE  \E v \in s : Key(t, r[i].val) = Key(t, v)
  <2>1. \E v \in there(s, i) : Key(t, v) = Key(t, r[i].val)
    BY <1>3
  <2>2. \A v \in there({}, i) : Key(t, v) # Key(t, r[i].val)
    OBVIOUS
  <2> QED BY <2>1, <2>2
<1> HIDE DEF new, r
<1> QED BY <1>1, <1>2, <1>3 DEF Joined

LEMMA UsedFromTypes ==
    ASSUME Tied, TypeOK
    PROVE  UsedObjectsOverwritten
<1> SUFFICES ASSUME NEW p \in Objs, Read(class[p], obj[p], mem_buf_).ok
             PROVE  LET c == class[p]
                        used == Read(c, obj[p], mem_buf_)
                        fresh == Read(c, New(c), mem_buf_)
                        came == Cases(c, mem_buf_.fields)
                    IN  /\ fresh.ok
                        /\ used.val.isset = obj[p].isset \cup (came \ c.always)
                        /\ \A f \in Fids(c.cases) :
                              LET t == TypeOf(c, f)
                              IN  /\ f \notin came => used.val.val[f] = obj[p].val[f]
                                  /\ f \in came /\ t.wire \notin {"SET", "STRUCT"}
                                       => used.val.val[f] = fresh.val.val[f]
                                  /\ f \in came /\ t.wire = "SET"
                                       => IF c.clears THEN used.val.val[f] = fresh.val.val[f]
                                          ELSE Joined(t.elem, obj[p].val[f], fresh.val.val[f],
                                                      used.val.val[f])
  BY DEF UsedObjectsOverwritten
<1> DEFINE c == class[p]
           x == obj[p]
           used == Read(c, x, mem_buf_)
           fresh == Read(c, New(c), mem_buf_)
           came == Cases(c, mem_buf_.fields)
           r == Results(c, x, mem_buf_)
           s == Results(c, New(c), mem_buf_)
<1>1. \A f \in Fids(c.cases) : TypeOf(c, f) \in Types
  BY FieldTypes DEF TypeOK
<1>2. Errors(r) = {} /\ mem_buf_.stop /\ Received(c, came)
  BY ReadOkHasNoErrors
<1> HIDE DEF c, x
<1>3. Errors(s) = {}
  <2>1. \A f \in Fids(c.cases) : \A w :
           ReadField(TypeOf(c, f), x.val[f], w, c.clears).ok = ReadField(TypeOf(c, f), New(c).val[f], w, c.clears).ok
    BY <1>1, OkIgnoresOld
  <2>2. Errors(r) = Errors(s)
    BY <2>1, ErrorsOfRead
  <2> QED BY <1>2, <2>2
<1>4. /\ used.val.isset = x.isset \cup (came \ c.always)
      /\ used.val.val = [f \in Fids(c.cases) |-> IF f \in came THEN r[f].val ELSE x.val[f]]
  BY <1>2, ReadWithoutErrors
<1>5. /\ fresh.ok <=> mem_buf_.stop /\ Received(c, came)
      /\ fresh.val.val = [f \in Fids(c.cases) |-> IF f \in came THEN s[f].val ELSE New(c).val[f]]
  BY <1>3, ReadWithoutErrors
<1>6. ASSUME NEW f \in came
      PROVE  /\ r[f] = ReadField(TypeOf(c, f), x.val[f], mem_buf_.fields[f].val, c.clears)
             /\ s[f] = ReadField(TypeOf(c, f), New(c).val[f], mem_buf_.fields[f].val, c.clears)
  BY DEF Results
<1>7. came \subseteq Fids(c.cases)
  BY DEF Cases
<1> HIDE DEF used, fresh, came, r, s
<1>8. ASSUME NEW f \in Fids(c.cases), f \in came, TypeOf(c, f).wire \notin {"SET", "STRUCT"}
      PROVE  used.val.val[f] = fresh.val.val[f]
  <2>1. r[f] = s[f]
    BY <1>6, <1>8 DEF ReadField
  <2> QED BY <1>4, <1>5, <1>8, <2>1
<1>9. ASSUME NEW f \in Fids(c.cases), f \in came, TypeOf(c, f).wire = "SET"
      PROVE  IF c.clears THEN used.val.val[f] = fresh.val.val[f]
             ELSE Joined(TypeOf(c, f).elem, x.val[f], fresh.val.val[f], used.val.val[f])
  <2> DEFINE e == TypeOf(c, f).elem
             w == mem_buf_.fields[f].val
  <2>1. r[f] = ReadSet(e, x.val[f], w, c.clears) /\ s[f] = ReadSet(e, New(c).val[f], w, c.clears)
    BY <1>6, <1>9 DEF ReadField
  <2>2. New(c).val[f] = {}
    BY <1>9 DEF New, DefaultField
  <2>3. s[f] = InsertAll(e, {}, w, c.clears)
    BY <2>1, <2>2 DEF ReadSet
  <2>4. used.val.val[f] = r[f].val /\ fresh.val.val[f] = s[f].val
    BY <1>4, <1>5, <1>9
  <2> HIDE DEF e, w
  <2>5. CASE c.clears
    <3>1. r[f] = s[f]
      BY <2>1, <2>3, <2>5 DEF ReadSet
    <3> QED BY <2>4, <2>5, <3>1
  <2>6. CASE ~c.clears
    <3>1. r[f] = InsertAll(e, x.val[f], w, c.clears)
      BY <2>1, <2>6 DEF ReadSet
    <3>2. Joined(e, x.val[f], fresh.val.val[f], used.val.val[f])
      BY <2>3, <2>4, <3>1, InsertedAnyway
    <3> QED BY <2>6, <3>2 DEF e
  <2> QED BY <2>5, <2>6
<1>10. \A f \in Fids(c.cases) : f \notin came => used.val.val[f] = x.val[f]
  BY <1>4
<1> QED
  BY <1>2, <1>4, <1>5, <1>8, <1>9, <1>10 DEF c, x, used, fresh, came

\* Decoding into an object used before leaves of it only the fields that did not
\* come, members of nested structs, and the elements of uncleared sets: of those
\* all, also where an equivalent one comes; however deep the types are nested.
THEOREM UsedObjectsOverwrittenHolds ==
    ASSUME Tied
    PROVE  Spec => []UsedObjectsOverwritten
<1>1. TypeOK => UsedObjectsOverwritten
  BY UsedFromTypes
<1> QED BY <1>1, TypeCorrect, PTL
-----------------------------------------------------------------------------
\* What a read of a value gives: whether it came to the end, and what there is then.
LEMMA ReadGives ==
    ASSUME Tied, NEW t \in Types, NEW old, NEW w, NEW clears, ReadField(t, old, w, clears).ok
    PROVE  ReadField(t, old, w, clears) = [ok |-> TRUE, val |-> ReadField(t, old, w, clears).val]
<1>1. CASE t.wire = "LIST"
  BY <1>1 DEF ReadField, ReadList
<1>2. CASE t.wire = "SET"
  BY <1>2 DEF ReadField, ReadSet, InsertAll
<1>3. CASE t.wire = "MAP"
  BY <1>3 DEF ReadField, ReadMap
<1>4. CASE t.wire = "STRUCT"
  <2>1. ReadField(t, old, w, clears) = Read(t.class, old, w)
    BY <1>4 DEF Tied, ReadField, ReadValue
  <2> QED BY <2>1 DEF Read
<1>5. CASE IsScalar(t)
  BY <1>5 DEF IsScalar, ReadField
<1> QED BY <1>1, <1>2, <1>3, <1>4, <1>5 DEF IsScalar

\* The field that a datagram ends in is none of those before it.
LEMMA TornIsNotLeft ==
    ASSUME NEW msg, MessageOk(msg), NEW cut, NEW f \in DOMAIN CutShort(msg, cut).fields,
           Cardinality({g \in DOMAIN msg.fields : f <= g}) = cut
    PROVE  FALSE
<1> DEFINE D == DOMAIN msg.fields
           above == {g \in D : f < g}
           from == {g \in D : f <= g}
<1>1. f \in D /\ cut <= Cardinality(above)
  BY DEF CutShort
<1>2. from = above \cup {f} /\ f \notin above /\ above \subseteq D /\ IsFiniteSet(D)
  BY <1>1 DEF MessageOk
<1>3. IsFiniteSet(above) /\ Cardinality(above) \in Nat
  BY <1>2, FS_Subset, FS_CardinalityType
<1>4. Cardinality(from) = Cardinality(above) + 1
  BY <1>2, <1>3, FS_AddElement
<1> QED BY <1>1, <1>3, <1>4

\* What a read marks in what is left of a message.
LEMMA MarkedByRead ==
    ASSUME Tied, NEW c, \A f \in Fids(c.cases) : TypeOf(c, f) \in Types,
           NEW o, NEW msg, NEW cut,
           NEW f \in Read(c, o, CutShort(msg, cut)).val.isset \ o.isset
    PROVE  /\ f \in DOMAIN CutShort(msg, cut).fields /\ f \in Cases(c, msg.fields)
           /\ ReadField(TypeOf(c, f), o.val[f], msg.fields[f].val, c.clears)
                = [ok |-> TRUE, val |-> Read(c, o, CutShort(msg, cut)).val.val[f]]
<1> DEFINE short == CutShort(msg, cut)
           r == Results(c, o, short)
           left == Read(c, o, short).val
<1>1. /\ left.isset = o.isset \cup ((Reached(r) \ Errors(r)) \ c.always)
      /\ left.val = [g \in Fids(c.cases) |-> IF g \in Reached(r) THEN r[g].val ELSE o.val[g]]
  BY DEF Read, Results
<1>2. /\ DOMAIN short.fields \subseteq DOMAIN msg.fields
      /\ \A g \in DOMAIN short.fields : short.fields[g] = msg.fields[g]
  BY DEF CutShort
<1>3. DOMAIN r = Cases(c, short.fields) /\ f \in left.isset \ o.isset
  BY DEF Results
<1> HIDE DEF short
<1>4. \A g \in Cases(c, short.fields) : r[g] = ReadField(TypeOf(c, g), o.val[g], short.fields[g].val, c.clears)
  BY DEF Results
<1> HIDE DEF r, left
<1>5. f \in Reached(r) /\ f \in Cases(c, short.fields) /\ r[f].ok
  BY <1>1, <1>3 DEF Reached, Errors
<1>6. f \in DOMAIN short.fields /\ f \in Fids(c.cases) /\ f \in Cases(c, msg.fields)
  BY <1>2, <1>5 DEF Cases
<1>7. r[f] = ReadField(TypeOf(c, f), o.val[f], msg.fields[f].val, c.clears)
  BY <1>2, <1>4, <1>5, <1>6
<1>8. r[f] = [ok |-> TRUE, val |-> r[f].val]
  <2> DEFINE w == msg.fields[f].val
  <2>1. ReadField(TypeOf(c, f), o.val[f], w, c.clears).ok /\ TypeOf(c, f) \in Types
    BY <1>5, <1>6, <1>7
  <2>2. \A t \in Types : \A old, y, cl : ReadField(t, old, y, cl).ok
           => ReadField(t, old, y, cl) = [ok |-> TRUE, val |-> ReadField(t, old, y, cl).val]
    BY ReadGives
  <2> HIDE DEF w
  <2>3. ReadField(TypeOf(c, f), o.val[f], w, c.clears)
          = [ok |-> TRUE, val |-> ReadField(TypeOf(c, f), o.val[f], w, c.clears).val]
    BY <2>1, <2>2, Zenon
  <2> QED BY <1>7, <2>3, Zenon DEF w
<1>9. left.val[f] = r[f].val
  BY <1>1, <1>5, <1>6
<1> QED BY <1>6, <1>7, <1>8, <1>9 DEF short, left

LEMMA MarkedFromTypes ==
    ASSUME Tied, TypeOK
    PROVE  MarkedCameWhole
<1> SUFFICES ASSUME NEW p \in Objs, NEW cut \in Cuts,
                    NEW x \in ReadShort(class[p], obj[p], mem_buf_, cut), NEW f \in x.isset \ obj[p].isset
             PROVE  /\ f \in Cases(class[p], mem_buf_.fields)
                    /\ ReadField(TypeOf(class[p], f), obj[p].val[f], mem_buf_.fields[f].val, class[p].clears)
                         = [ok |-> TRUE, val |-> x.val[f]]
  BY DEF MarkedCameWhole
<1> DEFINE c == class[p]
           o == obj[p]
           left == Read(c, o, CutShort(mem_buf_, cut)).val
<1>1. /\ \A g \in Fids(c.cases) : TypeOf(c, g) \in Types
      /\ ObjectOk(c, o) /\ MessageOk(mem_buf_)
  BY FieldTypes DEF TypeOK
<1> HIDE DEF c, o
<1>2. \/ x = left
      \/ \E g, v : /\ x = WithField(left, g, v)
                   /\ Cardinality({h \in DOMAIN mem_buf_.fields : g <= h}) = cut
  <2>1. \/ x = Read(class[p], obj[p], CutShort(mem_buf_, cut)).val
        \/ \E k, v : /\ x = WithField(Read(class[p], obj[p], CutShort(mem_buf_, cut)).val, k, v)
                       /\ Cardinality({g \in DOMAIN mem_buf_.fields : k <= g}) = cut
    BY ShortForms
  <2> QED BY <2>1 DEF c, o
<1>3. ObjectOk(c, left)
  BY <1>1, ReadOk
<1> HIDE DEF left
<1>4. x.isset = left.isset
  BY <1>2, <1>3 DEF ObjectOk, WithField
<1>5. f \in left.isset \ o.isset
  BY <1>4 DEF o
<1>6. /\ f \in DOMAIN CutShort(mem_buf_, cut).fields /\ f \in Cases(c, mem_buf_.fields)
      /\ ReadField(TypeOf(c, f), o.val[f], mem_buf_.fields[f].val, c.clears)
           = [ok |-> TRUE, val |-> left.val[f]]
  BY <1>1, <1>5, MarkedByRead DEF left
<1>7. x.val[f] = left.val[f]
  <2>1. ASSUME NEW g, NEW v, x = WithField(left, g, v),
               Cardinality({h \in DOMAIN mem_buf_.fields : g <= h}) = cut
        PROVE  x.val[f] = left.val[f]
    <3>1. g # f
      BY <1>1, <1>6, <2>1, TornIsNotLeft
    <3> QED BY <1>3, <2>1, <3>1 DEF ObjectOk, WithField
  <2> QED BY <1>2, <2>1
<1> QED BY <1>6, <1>7 DEF c, o

\* Wherever a datagram ends and whatever value is an error: a bit that read() sets
\* is that of a value which came whole and was read whole.
THEOREM MarkedCameWholeHolds ==
    ASSUME Tied
    PROVE  Spec => []MarkedCameWhole
<1>1. TypeOK => MarkedCameWhole
  BY MarkedFromTypes
<1> QED BY <1>1, TypeCorrect, PTL
=============================================================================
