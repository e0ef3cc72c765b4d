----------------------- MODULE ThriftRoundTrip_proofs -----------------------
(***************************************************************************)
(* An object sent to a peer and back is what it was.                       *)
(*                                                                         *)
(* Trip(t, u, v, clears) is a value v of type t as a read of type u finds  *)
(* it. Kept says that v survives it and the way back. A list, a map or a   *)
(* struct is kept because its parts are. A set is kept because its         *)
(* elements are and none is dropped on either side: the keys of what comes *)
(* are those of Copied (KeySent), so their order, which Apart asks to be   *)
(* that of what was sent, makes the sequence read the one that is written  *)
(* and compared (SetRead, SetKept). TypesKept puts the cases together by   *)
(* the depth of types, and RoundTripFromTypes applies them to the fields   *)
(* of two objects.                                                         *)
(***************************************************************************)
EXTENDS ThriftSets_proofs

\* A value of type t as it comes out of a message that is read as type u.
Trip(t, u, v, clears) == ElemRead(u, ElemDefault(u), ElemWrite(t, v), clears)

Kept(t, u, v) ==
    \A cl, ac : LET there == Trip(t, u, v, cl)
                    back == Trip(u, t, there.val, ac)
                IN  there.ok /\ back.ok /\ ElemEqual(t, v, back.val)

AllKept(t) == \A u \in Types : \A v : ElemFits(t, u) /\ ElemApart(t, v) => Kept(t, u, v)
-----------------------------------------------------------------------------
\* What the members of a struct become.
LEMMA FieldsSent ==
    ASSUME Tied, NEW c, NEW d, SameFields(c, d), NEW o,
           \A f \in Fids(c.cases) : TypeOf(c, f) \in Types /\ TypeOf(d, f) \in Types
    PROVE  LET msg == Write(c, o)
           IN  /\ msg.stop = TRUE /\ Cases(d, msg.fields) = Written(c, o)
               /\ \A f \in Written(c, o) :
                     Results(d, New(d), msg)[f] = Trip(TypeOf(c, f), TypeOf(d, f), o.val[f], d.clears)
<1> DEFINE msg == Write(c, o)
<1>1. /\ DOMAIN msg.fields = Written(c, o) /\ msg.stop = TRUE
      /\ \A f \in Written(c, o) : /\ msg.fields[f].wire = TypeOf(c, f).wire
                                    /\ msg.fields[f].val = WriteField(TypeOf(c, f), o.val[f])
  BY DEF Write
<1> HIDE DEF msg
<1>2. Cases(d, msg.fields) = Written(c, o)
  BY <1>1 DEF Cases, SameFields, Written
<1>3. ASSUME NEW f \in Written(c, o)
      PROVE  Results(d, New(d), msg)[f] = Trip(TypeOf(c, f), TypeOf(d, f), o.val[f], d.clears)
  <2> DEFINE t == TypeOf(c, f)
             u == TypeOf(d, f)
  <2>1. t \in Types /\ u \in Types /\ f \in Fids(d.cases)
    BY DEF Written, SameFields
  <2>2. New(d).val[f] = DefaultField(u)
    BY <2>1 DEF New
  <2>3. Results(d, New(d), msg)[f] = ReadField(u, New(d).val[f], msg.fields[f].val, d.clears)
    BY <1>2 DEF Results
  <2>4. msg.fields[f].val = WriteField(t, o.val[f])
    BY <1>1
  <2> HIDE DEF t, u
  <2>5. WriteField(t, o.val[f]) = ElemWrite(t, o.val[f])
    BY <2>1, FieldsAndParts
  <2>6. ReadField(u, DefaultField(u), ElemWrite(t, o.val[f]), d.clears) = Trip(t, u, o.val[f], d.clears)
    BY <2>1, FieldsAndParts DEF Trip
  <2> QED BY <2>2, <2>3, <2>4, <2>5, <2>6 DEF t, u
<1> QED BY <1>1, <1>2, <1>3 DEF msg

LEMMA StructSent ==
    ASSUME Tied, NEW c, NEW d, SameFields(c, d), NEW o,
           \A f \in Fids(c.cases) : TypeOf(c, f) \in Types /\ TypeOf(d, f) \in Types,
           Errors(Results(d, New(d), Write(c, o))) = {}
    PROVE  LET s == Read(d, New(d), Write(c, o))
           IN  /\ d.needed \subseteq Written(c, o) => s.ok
               /\ s.val.isset = Written(c, o) \ d.always
               /\ \A f \in Written(c, o) :
                     s.val.val[f] = Trip(TypeOf(c, f), TypeOf(d, f), o.val[f], d.clears).val
               /\ \A f \in Fids(c.cases) \ Written(c, o) : s.val.val[f] = DefaultField(TypeOf(d, f))
<1> DEFINE msg == Write(c, o)
           r == Results(d, New(d), msg)
           s == Read(d, New(d), msg)
<1>1. /\ msg.stop = TRUE /\ Cases(d, msg.fields) = Written(c, o)
      /\ \A f \in Written(c, o) : r[f] = Trip(TypeOf(c, f), TypeOf(d, f), o.val[f], d.clears)
  BY FieldsSent
<1>2. /\ s.ok <=> msg.stop /\ Received(d, Cases(d, msg.fields))
      /\ s.val.isset = New(d).isset \cup (Cases(d, msg.fields) \ d.always)
      /\ s.val.val = [f \in Fids(d.cases) |-> IF f \in Cases(d, msg.fields) THEN r[f].val
                                                                             ELSE New(d).val[f]]
  BY ReadWithoutErrors
<1>3. New(d).isset = {} /\ \A f \in Fids(d.cases) : New(d).val[f] = DefaultField(TypeOf(d, f))
  BY DEF New
<1>4. Written(c, o) \subseteq Fids(c.cases) /\ Fids(c.cases) = Fids(d.cases)
  BY DEF Written, SameFields
<1> HIDE DEF msg, r, s
<1>5. d.needed \subseteq Written(c, o) => s.ok
  BY <1>1, <1>2 DEF Received
<1>6. s.val.isset = Written(c, o) \ d.always
  BY <1>1, <1>2, <1>3
<1>7. \A f \in Written(c, o) : s.val.val[f] = Trip(TypeOf(c, f), TypeOf(d, f), o.val[f], d.clears).val
  BY <1>1, <1>2, <1>4
<1>8. \A f \in Fids(c.cases) \ Written(c, o) : s.val.val[f] = DefaultField(TypeOf(d, f))
  BY <1>1, <1>2, <1>3, <1>4
<1> QED BY <1>5, <1>6, <1>7, <1>8 DEF msg, s

LEMMA NoErrors ==
    ASSUME Tied, NEW c, NEW d, SameFields(c, d), NEW o,
           \A f \in Fids(c.cases) : TypeOf(c, f) \in Types /\ TypeOf(d, f) \in Types,
           \A f \in Written(c, o) : Trip(TypeOf(c, f), TypeOf(d, f), o.val[f], d.clears).ok
    PROVE  Errors(Results(d, New(d), Write(c, o))) = {}
<1> DEFINE msg == Write(c, o)
           r == Results(d, New(d), msg)
<1>1. /\ Cases(d, msg.fields) = Written(c, o)
      /\ \A f \in Written(c, o) : r[f] = Trip(TypeOf(c, f), TypeOf(d, f), o.val[f], d.clears)
  BY FieldsSent
<1>2. DOMAIN r = Written(c, o)
  BY <1>1 DEF Results
<1> HIDE DEF msg, r
<1>3. \A f \in DOMAIN r : r[f].ok
  BY <1>1, <1>2
<1>4. Errors(r) = {}
  BY <1>3 DEF Errors
<1> QED BY <1>4 DEF r, msg

\* A struct sent to a class it fits, and back.
LEMMA StructKept ==
    ASSUME Tied, NEW c, ClassOk(c), NEW d, ClassOk(d), Fits(c, d), NEW o, Apart(c, o),
           \A f \in Fids(c.cases) : AllKept(TypeOf(c, f))
    PROVE  LET there == Read(d, New(d), Write(c, o))
               back == Read(c, New(c), Write(d, there.val))
           IN  there.ok /\ back.ok /\ Equal(c, o, back.val)
<1> DEFINE there == Read(d, New(d), Write(c, o))
           back == Read(c, New(c), Write(d, there.val))
           W == Written(c, o)
           first(f) == Trip(TypeOf(c, f), TypeOf(d, f), o.val[f], d.clears)
           second(f) == Trip(TypeOf(d, f), TypeOf(c, f), first(f).val, c.clears)
<1>1. /\ SameFields(c, d) /\ SameFields(d, c) /\ Fids(d.cases) = Fids(c.cases)
      /\ d.always \cup d.needed \subseteq c.always
      /\ \A f \in Fids(c.cases) : ElemFits(TypeOf(c, f), TypeOf(d, f))
  BY DEF Fits, SameFields
<1>2. \A f \in Fids(c.cases) : TypeOf(c, f) \in Types /\ TypeOf(d, f) \in Types
  BY <1>1 DEF ClassOk, TypeOf, Fids
<1>3. /\ c.always \subseteq Fids(c.cases) /\ c.needed \subseteq c.always
      /\ c.always \subseteq W /\ W \subseteq Fids(c.cases)
  BY DEF ClassOk, Fids, Written
<1>4. ASSUME NEW f \in W
      PROVE  first(f).ok /\ second(f).ok /\ EqualField(TypeOf(c, f), o.val[f], second(f).val)
  <2> DEFINE t == TypeOf(c, f)
             u == TypeOf(d, f)
  <2>1. f \in Fids(c.cases) /\ t \in Types /\ u \in Types
    BY <1>2, <1>3
  <2>2. ApartField(t, o.val[f])
    BY DEF Apart
  <2>3. ElemFits(t, u) /\ ElemApart(t, o.val[f]) /\ AllKept(t)
    BY <1>1, <2>1, <2>2, FieldsAndParts
  <2> HIDE DEF t, u
  <2>4. Kept(t, u, o.val[f])
    BY <2>1, <2>3 DEF AllKept
  <2>5. ElemEqual(t, o.val[f], second(f).val) => EqualField(t, o.val[f], second(f).val)
    BY <2>1, FieldsAndParts
  <2>6. first(f) = Trip(t, u, o.val[f], d.clears) /\ second(f) = Trip(u, t, first(f).val, c.clears)
    BY DEF t, u
  <2> HIDE DEF first, second
  <2>7. first(f).ok /\ second(f).ok /\ ElemEqual(t, o.val[f], second(f).val)
    BY <2>4, <2>6 DEF Kept
  <2> QED BY <2>5, <2>7 DEF t
<1>5. /\ d.needed \subseteq W => there.ok
      /\ there.val.isset = W \ d.always
      /\ \A f \in W : there.val.val[f] = first(f).val
  <2>1. Errors(Results(d, New(d), Write(c, o))) = {}
    BY <1>1, <1>2, <1>4, NoErrors
  <2> QED BY <1>1, <1>2, <2>1, StructSent
<1> HIDE DEF there, W
<1>6. Written(d, there.val) = W
  BY <1>1, <1>3, <1>5 DEF Written
<1>7. /\ c.needed \subseteq W => back.ok
      /\ back.val.isset = W \ c.always
      /\ \A f \in W : back.val.val[f] = second(f).val
  <2>1. \A f \in W : Trip(TypeOf(d, f), TypeOf(c, f), there.val.val[f], c.clears) = second(f)
    BY <1>5
  <2> HIDE DEF second
  <2>2. Errors(Results(c, New(c), Write(d, there.val))) = {}
    BY <1>1, <1>2, <1>4, <1>6, <2>1, NoErrors
  <2> HIDE DEF back
  <2>3. LET s == back
        IN  /\ c.needed \subseteq Written(d, there.val) => s.ok
            /\ s.val.isset = Written(d, there.val) \ c.always
            /\ \A f \in Written(d, there.val) :
                  s.val.val[f] = Trip(TypeOf(d, f), TypeOf(c, f), there.val.val[f], c.clears).val
    BY <1>1, <1>2, <2>2, StructSent DEF back
  <2> QED BY <1>6, <2>1, <2>3
<1> HIDE DEF back, first, second
<1>8. Equal(c, o, back.val)
  <2>1. \A f \in W : EqualField(TypeOf(c, f), o.val[f], back.val.val[f])
    BY <1>4, <1>7
  <2>2. \A f \in Fids(c.cases) \ c.always : (f \in o.isset <=> f \in W) /\ (f \in W <=> f \in back.val.isset)
    BY <1>7 DEF W, Written
  <2> QED BY <1>3, <2>1, <2>2 DEF Equal
<1> QED BY <1>1, <1>3, <1>5, <1>7, <1>8 DEF there, back
-----------------------------------------------------------------------------
\* Loops that meet no error.
LEMMA ListRead ==
    ASSUME NEW t, NEW w, NEW clears, \A i \in DOMAIN w : ElemRead(t, ElemDefault(t), w[i], clears).ok
    PROVE  /\ ReadList(t, w, clears).ok
           /\ ReadList(t, w, clears).val = [i \in DOMAIN w |-> ElemRead(t, ElemDefault(t), w[i], clears).val]
<1> DEFINE r == [i \in DOMAIN w |-> ElemRead(t, ElemDefault(t), w[i], clears)]
<1>1. Errors(r) = {}
  BY DEF Errors
<1>2. Reached(r) = DOMAIN w
  BY <1>1, AllReached
<1>3. ReadList(t, w, clears) =
        [ok |-> Errors(r) = {}, val |-> [i \in DOMAIN w |-> IF i \in Reached(r) THEN r[i].val ELSE ElemDefault(t)]]
  BY DEF ReadList
<1>4. ReadList(t, w, clears).ok
  <2>1. ReadList(t, w, clears).ok = (Errors(r) = {})
    BY <1>3
  <2> QED BY <1>1, <2>1, Zenon
<1>5. ReadList(t, w, clears).val = [i \in DOMAIN w |-> IF i \in Reached(r) THEN r[i].val ELSE ElemDefault(t)]
  BY <1>3
<1> QED BY <1>2, <1>4, <1>5

LEMMA MapRead ==
    ASSUME NEW t, NEW w, NEW clears, \A i \in DOMAIN w : ElemRead(t, ElemDefault(t), w[i], clears).ok
    PROVE  /\ ReadMap(t, w, clears).ok
           /\ ReadMap(t, w, clears).val = [i \in DOMAIN w |-> ElemRead(t, ElemDefault(t), w[i], clears).val]
<1> DEFINE r == [i \in DOMAIN w |-> ElemRead(t, ElemDefault(t), w[i], clears)]
<1>1. Errors(r) = {}
  BY DEF Errors
<1>2. Reached(r) = DOMAIN w
  BY <1>1, AllReached
<1>3. ReadMap(t, w, clears) = [ok |-> Errors(r) = {}, val |-> [i \in Reached(r) |-> r[i].val]]
  BY DEF ReadMap
<1>4. ReadMap(t, w, clears).ok
  <2>1. ReadMap(t, w, clears).ok = (Errors(r) = {})
    BY <1>3
  <2> QED BY <1>1, <2>1, Zenon
<1>5. ReadMap(t, w, clears).val = [i \in Reached(r) |-> r[i].val]
  BY <1>3
<1> QED BY <1>2, <1>4, <1>5

\* The order of two values is that of their keys, and a value is not before its equivalents.
LEMMA OrderOfKeys ==
    ASSUME NEW t, NEW u, t.wire = u.wire, NEW v, NEW w, NEW x, NEW y,
           Key(t, v) = Key(u, x), Key(t, w) = Key(u, y)
    PROVE  Before(t, v, w) <=> Before(u, x, y)
BY DEF Before

LEMMA EquivalentsHaveNoOrder ==
    ASSUME NEW t, NEW v, NEW w, HasKey(t, v), Key(t, v) = Key(t, w)
    PROVE  ~Before(t, v, w)
<1> DEFINE k == Key(t, v)
<1>1. CASE t.wire = "STRUCT"
  <2>1. k \in Nat \X Nat
    BY <1>1 DEF HasKey
  <2>2. Before(t, v, w) <=> k[1] < k[1] \/ (k[1] = k[1] /\ k[2] < k[2])
    BY <1>1 DEF Before
  <2> HIDE DEF k
  <2> QED BY <2>1, <2>2
<1>2. CASE t.wire # "STRUCT"
  <2>1. k \in Nat
    BY <1>2 DEF HasKey
  <2>2. Before(t, v, w) <=> k < k
    BY <1>2 DEF Before
  <2> HIDE DEF k
  <2> QED BY <2>1, <2>2
<1> QED BY <1>1, <1>2

\* A set whose elements come in the order of what they are read as.
LEMMA SetRead ==
    ASSUME NEW t, NEW n \in Nat, NEW w, DOMAIN w = 1 .. n, NEW clears,
           NEW x, x = [i \in 1 .. n |-> ElemRead(t, ElemDefault(t), w[i], clears).val],
           \A i \in 1 .. n : ElemRead(t, ElemDefault(t), w[i], clears).ok,
           \A i \in 1 .. n : HasKey(t, x[i]),
           Increasing(t, x)
    PROVE  /\ InsertAll(t, {}, w, clears).ok
           /\ IsSet(t, InsertAll(t, {}, w, clears).val)
           /\ InOrder(t, InsertAll(t, {}, w, clears).val) = x
<1> DEFINE r == [i \in DOMAIN w |-> ElemRead(t, ElemDefault(t), w[i], clears)]
           there(i) == {} \cup {r[j].val : j \in 1 .. i - 1}
           new == {i \in Reached(r) \ Errors(r) : \A v \in there(i) : Key(t, v) # Key(t, r[i].val)}
           S == {x[i] : i \in 1 .. n}
<1>1. Errors(r) = {}
  BY DEF Errors
<1>2. Reached(r) = 1 .. n
  BY <1>1, AllReached
<1>3. \A i \in 1 .. n : r[i].val = x[i]
  OBVIOUS
<1>4. ASSUME NEW i \in 1 .. n, NEW j \in 1 .. n, j # i PROVE Key(t, x[j]) # Key(t, x[i])
  <2>1. Before(t, x[i], x[j]) \/ Before(t, x[j], x[i])
    BY <1>4 DEF Increasing
  <2> QED BY <2>1, EquivalentsHaveNoOrder
<1>5. new = 1 .. n
  <2>1. ASSUME NEW i \in 1 .. n, NEW v \in there(i) PROVE Key(t, v) # Key(t, r[i].val)
    <3>1. PICK j \in 1 .. i - 1 : v = r[j].val
      BY <2>1
    <3>2. j \in 1 .. n /\ j # i
      OBVIOUS
    <3> HIDE DEF r
    <3> QED BY <1>3, <1>4, <3>1, <3>2
  <2> HIDE DEF r, there
  <2> QED BY <1>1, <1>2, <2>1
<1>6. InsertAll(t, {}, w, clears) = [ok |-> Errors(r) = {}, val |-> {} \cup {r[i].val : i \in new}]
  BY DEF InsertAll, Inserts
<1> HIDE DEF new, r
<1>7. InsertAll(t, {}, w, clears).ok
  <2>1. InsertAll(t, {}, w, clears).ok = (Errors(r) = {})
    BY <1>6
  <2> QED BY <1>1, <2>1, Zenon
<1>8. InsertAll(t, {}, w, clears).val = S
  BY <1>3, <1>5, <1>6
<1>9. x \in [1 .. n -> S] /\ \A v \in S : \E i \in 1 .. n : x[i] = v
  OBVIOUS
<1> HIDE DEF S
<1>10. IsSet(t, S)
  <2>1. IsFiniteSet(S)
    <3>1. x \in Surjection(1 .. n, S)
      BY <1>9 DEF Surjection
    <3> QED BY <3>1, FS_Interval, FS_Surjection
  <2>2. \A v \in S : HasKey(t, v)
    BY <1>9
  <2>3. \A v, y \in S : Key(t, v) = Key(t, y) => v = y
    BY <1>4, <1>9
  <2> QED BY <2>1, <2>2, <2>3 DEF IsSet, HasKey
<1>11. InOrder(t, S) = x
  BY <1>9, <1>10, SetIsOrdered, InOrderIs
<1> QED BY <1>7, <1>8, <1>10, <1>11
-----------------------------------------------------------------------------
\* What operator< looks at in a value that has been sent: members not sent are 0.
MemberThere(c, o, f) == IF f \in Written(c, o) THEN o.val[f] ELSE 0
KeyThere(t, v) ==
    IF t.wire = "STRUCT" THEN <<MemberThere(t.class, v, 1), MemberThere(t.class, v, 2)>> ELSE v

\* The types of elements that have the same members, and an order.
Comparable(t, u) == /\ t.wire = u.wire /\ IsOrdered(t) /\ IsOrdered(u)
                    /\ t.wire = "STRUCT" => SameFields(t.class, u.class)

LEMMA ScalarTrip ==
    ASSUME Tied, NEW t \in Types, NEW u \in Types, t.wire = u.wire, IsScalar(t), NEW v, NEW clears
    PROVE  Trip(t, u, v, clears) = [ok |-> TRUE, val |-> v] /\ ElemEqual(t, v, v)
<1>1. /\ t.wire # "LIST" /\ t.wire # "SET" /\ t.wire # "MAP" /\ t.wire # "STRUCT"
      /\ u.wire # "LIST" /\ u.wire # "SET" /\ u.wire # "MAP" /\ u.wire # "STRUCT"
  BY DEF IsScalar
<1>2. ElemWrite(t, v) = v
  <2>1. ElemWrite(t, v) = WriteValue(t, v)
    BY Zenon DEF Tied
  <2>2. WriteField(t, v) = v
    BY <1>1 DEF WriteField
  <2> QED BY <1>1, <2>1, <2>2 DEF WriteValue
<1>3. ElemEqual(t, v, v)
  <2>1. ElemEqual(t, v, v) = EqualValue(t, v, v)
    BY Zenon DEF Tied
  <2>2. EqualField(t, v, v)
    BY <1>1 DEF EqualField
  <2> QED BY <1>1, <2>1, <2>2 DEF EqualValue
<1>4. ASSUME NEW old, NEW w
      PROVE  ElemRead(u, old, w, clears) = [ok |-> TRUE, val |-> w]
  <2>1. ElemRead(u, old, w, clears) = ReadValue(u, old, w, clears)
    BY Zenon DEF Tied
  <2>2. ReadField(u, old, w, clears) = [ok |-> TRUE, val |-> w]
    BY <1>1 DEF ReadField
  <2> QED BY <1>1, <2>1, <2>2 DEF ReadValue
<1> QED BY <1>2, <1>3, <1>4 DEF Trip

LEMMA StructTrip ==
    ASSUME Tied, NEW t \in Types, NEW u \in Types, t.wire = "STRUCT", u.wire = "STRUCT", NEW v, NEW clears
    PROVE  Trip(t, u, v, clears) = Read(u.class, New(u.class), Write(t.class, v))
BY DEF Tied, Trip, DefaultValue, WriteValue, ReadValue

LEMMA KeySent ==
    ASSUME Tied, NEW t \in Types, NEW u \in Types, Comparable(t, u), NEW v, NEW clears,
           Trip(t, u, v, clears).ok
    PROVE  /\ Key(u, Trip(t, u, v, clears).val) = KeyThere(t, v)
           /\ KeyThere(u, Trip(t, u, v, clears).val) = KeyThere(t, v)
<1>1. CASE t.wire = "STRUCT"
  <2> DEFINE c == t.class
             d == u.class
             a == Read(d, New(d), Write(c, v))
  <2>1. a = Trip(t, u, v, clears) /\ u.wire = "STRUCT" /\ SameFields(c, d)
    BY <1>1, StructTrip DEF Comparable
  <2>2. \A f \in Fids(c.cases) : TypeOf(c, f) \in Types /\ TypeOf(d, f) \in Types
    BY <1>1, <2>1, ClassOfType DEF SameFields
  <2>3. Errors(Results(d, New(d), Write(c, v))) = {}
    BY <2>1, ReadOkHasNoErrors
  <2>4. /\ a.val.isset = Written(c, v) \ d.always
        /\ \A f \in Written(c, v) : a.val.val[f] = Trip(TypeOf(c, f), TypeOf(d, f), v.val[f], d.clears).val
        /\ \A f \in Fids(c.cases) \ Written(c, v) : a.val.val[f] = DefaultField(TypeOf(d, f))
    BY <2>1, <2>2, <2>3, StructSent
  <2> HIDE DEF a
  <2>5. ASSUME NEW f \in {1, 2}
        PROVE  a.val.val[f] = MemberThere(c, v, f) /\ MemberThere(d, a.val, f) = MemberThere(c, v, f)
    <3>1. /\ f \in Fids(c.cases) /\ f \in Fids(d.cases) /\ TypeOf(c, f).wire = TypeOf(d, f).wire
          /\ IsScalar(TypeOf(c, f)) /\ IsScalar(TypeOf(d, f))
      BY <1>1, <2>1 DEF Comparable, IsOrdered, SameFields, Fids, TypeOf
    <3>2. CASE f \in Written(c, v)
      <4>1. Trip(TypeOf(c, f), TypeOf(d, f), v.val[f], d.clears) = [ok |-> TRUE, val |-> v.val[f]]
        <5>1. TypeOf(c, f) \in Types /\ TypeOf(d, f) \in Types
          BY <2>2, <3>1
        <5>2. \A y, cl : Trip(TypeOf(c, f), TypeOf(d, f), y, cl) = [ok |-> TRUE, val |-> y]
          <6> HIDE DEF c, d
          <6> QED BY <3>1, <5>1, ScalarTrip
        <5> QED BY <5>2
      <4>2. a.val.val[f] = v.val[f]
        BY <2>4, <3>2, <4>1
      <4>3. f \in Written(d, a.val)
        BY <2>4, <3>1, <3>2 DEF Written
      <4> QED BY <3>2, <4>2, <4>3 DEF MemberThere
    <3>3. CASE f \notin Written(c, v)
      <4>1. DefaultField(TypeOf(d, f)) = 0
        BY <3>1 DEF DefaultField, IsScalar
      <4>2. a.val.val[f] = 0
        BY <2>4, <3>1, <3>3, <4>1
      <4> QED BY <3>3, <4>2 DEF MemberThere
    <3> QED BY <3>2, <3>3
  <2>6. Key(u, a.val) = KeyThere(t, v)
    BY <1>1, <2>1, <2>5 DEF Key, KeyThere
  <2>7. KeyThere(u, a.val) = KeyThere(t, v)
    BY <1>1, <2>1, <2>5 DEF KeyThere
  <2> QED BY <2>1, <2>6, <2>7
<1>2. CASE t.wire # "STRUCT"
  <2>1. IsScalar(t) /\ t.wire = u.wire
    BY <1>2 DEF Comparable, IsOrdered, IsScalar
  <2>2. Trip(t, u, v, clears) = [ok |-> TRUE, val |-> v]
    BY <2>1, ScalarTrip
  <2> QED BY <1>2, <2>1, <2>2 DEF Key, KeyThere
<1> QED BY <1>1, <1>2

LEMMA KeyThereIsKey ==
    ASSUME NEW t, NEW v, HasKey(t, v)
    PROVE  KeyThere(t, v) \in IF t.wire = "STRUCT" THEN Nat \X Nat ELSE Nat
BY DEF HasKey, Key, KeyThere, MemberThere

LEMMA FitsItself ==
    ASSUME Tied, NEW t \in Types
    PROVE  ElemFits(t, t)
<1> DEFINE B == {u \in Types : ~ElemFits(u, u)}
           D == {Depth[u] : u \in B}
<1>1. ASSUME B # {} PROVE FALSE
  <2>1. D \subseteq Nat /\ D # {}
    BY <1>1, ThriftStructAssumption
  <2>2. PICK m \in D : \A n \in D : m <= n
    BY <2>1, SmallestNat
  <2>3. PICK u \in B : Depth[u] = m
    BY <2>2
  <2>4. u \in Types /\ ~ElemFits(u, u)
    BY <2>3
  <2>5. ASSUME NEW x \in Parts(u) PROVE ElemFits(x, x)
    <3>1. x \in Types /\ Depth[x] \in Nat /\ Depth[x] < m
      BY <2>3, <2>4, PartTypes
    <3>2. x \notin B
      BY <2>1, <2>2, <3>1
    <3> QED BY <3>1, <3>2
  <2>6. ASSUME u.wire = "STRUCT" PROVE Fits(u.class, u.class)
    <3>1. ClassOk(u.class)
      BY <2>4, <2>6, ClassOfType
    <3>2. \A f \in Fids(u.class.cases) : TypeOf(u.class, f) \in Parts(u)
      BY <2>6 DEF Parts, Fids, TypeOf
    <3> QED BY <2>5, <3>1, <3>2 DEF Fits, SameFields, ClassOk
  <2>7. ASSUME u.wire \in {"LIST", "SET", "MAP"} PROVE ElemFits(u.elem, u.elem)
    BY <2>5, <2>7 DEF Parts
  <2>8. FitsValue(u, u)
    BY <2>6, <2>7 DEF FitsValue
  <2> QED BY <2>4, <2>8 DEF Tied
<1> QED BY <1>1
-----------------------------------------------------------------------------
\* A set sent to a type it fits, and back: no element is lost, and each is where it was.
LEMMA SetKept ==
    ASSUME Tied, NEW t \in Types, NEW u \in Types, IsOrdered(t), IsOrdered(u), ElemFits(t, u),
           AllKept(t), NEW v, IsSet(t, v), \A x \in v : ElemApart(t, x),
           \A x, y \in v : Before(t, x, y) => Before(t, Copied(t, x), Copied(t, y)),
           NEW cl, NEW ac
    PROVE  LET there == InsertAll(u, {}, WriteSeq(t, InOrder(t, v)), cl)
               back == InsertAll(t, {}, WriteSeq(u, InOrder(u, there.val)), ac)
           IN  there.ok /\ back.ok /\ EqualSeq(t, InOrder(t, v), InOrder(t, back.val))
<1> DEFINE q == InOrder(t, v)
           n == Cardinality(v)
           there == InsertAll(u, {}, WriteSeq(t, q), cl)
           back == InsertAll(t, {}, WriteSeq(u, InOrder(u, there.val)), ac)
           first(x) == Trip(t, u, x, cl)
           second(x) == Trip(u, t, first(x).val, ac)
           p == [i \in 1 .. n |-> first(q[i]).val]
           r == [i \in 1 .. n |-> second(q[i]).val]
<1>1. q \in [1 .. n -> v] /\ Increasing(t, q) /\ n \in Nat
  BY SetIsOrdered, InOrderEnumerates, FS_CardinalityType DEF IsSet
<1>2. Comparable(t, u) /\ Comparable(u, t) /\ Comparable(t, t)
  <2>1. FitsValue(t, u)
    BY DEF Tied
  <2> QED BY <2>1 DEF Comparable, FitsValue, Fits, SameFields
<1>3. ASSUME NEW x \in v
      PROVE  /\ first(x).ok /\ second(x).ok /\ ElemEqual(t, x, second(x).val)
             /\ HasKey(t, x) /\ Trip(t, t, x, TRUE).ok
  <2>1. ElemFits(t, t) /\ ElemApart(t, x)
    BY FitsItself
  <2>2. Kept(t, u, x) /\ Kept(t, t, x)
    BY <2>1 DEF AllKept
  <2>3. Trip(t, t, x, TRUE).ok
    BY <2>2 DEF Kept
  <2>4. first(x).ok /\ second(x).ok /\ ElemEqual(t, x, second(x).val)
    BY <2>2 DEF Kept
  <2>5. HasKey(t, x)
    BY DEF IsSet, HasKey
  <2> QED BY <2>3, <2>4, <2>5
<1>4. ASSUME NEW x \in v
      PROVE  /\ Key(t, Copied(t, x)) = KeyThere(t, x)
             /\ Key(u, first(x).val) = KeyThere(t, x)
             /\ Key(t, second(x).val) = KeyThere(t, x)
             /\ HasKey(u, first(x).val) /\ HasKey(t, second(x).val)
  <2>1. Copied(t, x) = Trip(t, t, x, TRUE).val
    BY DEF Copied, Trip
  <2>2. Key(t, Copied(t, x)) = KeyThere(t, x)
    <3> DEFINE clears == TRUE
    <3>1. Trip(t, t, x, clears).ok
      BY <1>3
    <3> HIDE DEF clears
    <3>2. Key(t, Trip(t, t, x, clears).val) = KeyThere(t, x)
      BY <1>2, <3>1, KeySent
    <3> QED BY <2>1, <3>2 DEF clears
  <2>3. Key(u, first(x).val) = KeyThere(t, x) /\ KeyThere(u, first(x).val) = KeyThere(t, x)
    BY <1>2, <1>3, KeySent
  <2>4. Key(t, second(x).val) = KeyThere(u, first(x).val)
    <3>1. second(x).ok
      BY <1>3
    <3> HIDE DEF first
    <3> QED BY <1>2, <3>1, KeySent
  <2> HIDE DEF first, second
  <2>5. KeyThere(t, x) \in IF t.wire = "STRUCT" THEN Nat \X Nat ELSE Nat
    BY <1>3, KeyThereIsKey
  <2>6. t.wire = u.wire
    BY <1>2 DEF Comparable
  <2> QED BY <2>2, <2>3, <2>4, <2>5, <2>6 DEF HasKey
<1>5. Increasing(u, p) /\ Increasing(t, r)
  <2> HIDE DEF first, second, q, n
  <2>1. ASSUME NEW i \in 1 .. n, NEW j \in 1 .. n, i < j
        PROVE  Before(u, p[i], p[j]) /\ Before(t, r[i], r[j])
    <3>1. q[i] \in v /\ q[j] \in v /\ Before(t, q[i], q[j])
      BY <1>1, <2>1 DEF Increasing
    <3>2. Before(t, Copied(t, q[i]), Copied(t, q[j]))
      BY <3>1
    <3>3. p[i] = first(q[i]).val /\ p[j] = first(q[j]).val /\ r[i] = second(q[i]).val /\ r[j] = second(q[j]).val
      OBVIOUS
    <3> HIDE DEF p, r
    <3>4. /\ Key(t, Copied(t, q[i])) = Key(u, p[i]) /\ Key(t, Copied(t, q[j])) = Key(u, p[j])
          /\ Key(t, Copied(t, q[i])) = Key(t, r[i]) /\ Key(t, Copied(t, q[j])) = Key(t, r[j])
      BY <1>4, <3>1, <3>3
    <3>5. t.wire = u.wire
      BY <1>2 DEF Comparable
    <3> QED BY <3>2, <3>4, <3>5, OrderOfKeys
  <2>2. DOMAIN p = 1 .. n /\ DOMAIN r = 1 .. n
    OBVIOUS
  <2> HIDE DEF p, r
  <2> QED BY <2>1, <2>2 DEF Increasing
<1>6. there.ok /\ InOrder(u, there.val) = p
  <2> DEFINE w == WriteSeq(t, q)
  <2> HIDE DEF q, n, first, second
  <2>1. DOMAIN w = 1 .. n /\ \A i \in 1 .. n : w[i] = ElemWrite(t, q[i])
    BY <1>1 DEF WriteSeq
  <2> HIDE DEF w
  <2>2. \A i \in 1 .. n : ElemRead(u, ElemDefault(u), w[i], cl) = first(q[i]) /\ q[i] \in v
    BY <1>1, <2>1 DEF first, Trip
  <2>3. p = [i \in 1 .. n |-> ElemRead(u, ElemDefault(u), w[i], cl).val]
    BY <2>2
  <2>4. /\ \A i \in 1 .. n : ElemRead(u, ElemDefault(u), w[i], cl).ok
        /\ \A i \in 1 .. n : HasKey(u, p[i])
    BY <1>3, <1>4, <2>2
  <2> HIDE DEF p
  <2>5. InsertAll(u, {}, w, cl).ok /\ InOrder(u, InsertAll(u, {}, w, cl).val) = p
    BY <1>1, <1>5, <2>1, <2>3, <2>4, SetRead
  <2> QED BY <2>5 DEF w
<1>7. back.ok /\ InOrder(t, back.val) = r
  <2> DEFINE w == WriteSeq(u, p)
  <2>1. back = InsertAll(t, {}, w, ac)
    BY <1>6
  <2> HIDE DEF back, there, q, n, first, second
  <2>2. DOMAIN w = 1 .. n /\ \A i \in 1 .. n : w[i] = ElemWrite(u, first(q[i]).val)
    BY DEF WriteSeq
  <2> HIDE DEF w
  <2>3. \A i \in 1 .. n : ElemRead(t, ElemDefault(t), w[i], ac) = second(q[i]) /\ q[i] \in v
    BY <1>1, <2>2 DEF second, Trip
  <2>4. r = [i \in 1 .. n |-> ElemRead(t, ElemDefault(t), w[i], ac).val]
    BY <2>3
  <2>5. /\ \A i \in 1 .. n : ElemRead(t, ElemDefault(t), w[i], ac).ok
        /\ \A i \in 1 .. n : HasKey(t, r[i])
    BY <1>3, <1>4, <2>3
  <2> HIDE DEF r
  <2>6. InsertAll(t, {}, w, ac).ok /\ InOrder(t, InsertAll(t, {}, w, ac).val) = r
    BY <1>1, <1>5, <2>2, <2>4, <2>5, SetRead
  <2> QED BY <2>1, <2>6
<1>8. EqualSeq(t, q, r)
  <2> HIDE DEF q, n, first, second
  <2>1. DOMAIN q = DOMAIN r /\ \A i \in DOMAIN q : q[i] \in v /\ r[i] = second(q[i]).val
    BY <1>1
  <2> HIDE DEF r
  <2> QED BY <1>3, <2>1 DEF EqualSeq
<1> HIDE DEF there, back, r, p, q, n
<1>9. there.ok /\ back.ok /\ EqualSeq(t, q, InOrder(t, back.val))
  BY <1>6, <1>7, <1>8
<1> QED BY <1>9 DEF there, back, q

\* One type, if the types its values are made of keep theirs.
LEMMA TypeKept ==
    ASSUME Tied, NEW t \in Types, NEW u \in Types, ElemFits(t, u), NEW v, ElemApart(t, v),
           \A x \in Parts(t) : AllKept(x)
    PROVE  Kept(t, u, v)
<1> SUFFICES ASSUME NEW cl, NEW ac
             PROVE  LET there == Trip(t, u, v, cl)
                        back == Trip(u, t, there.val, ac)
                    IN  there.ok /\ back.ok /\ ElemEqual(t, v, back.val)
  BY DEF Kept
<1> DEFINE there == Trip(t, u, v, cl)
           back == Trip(u, t, there.val, ac)
<1>1. FitsValue(t, u) /\ ApartValue(t, v) /\ t.wire = u.wire
  BY DEF Tied, FitsValue
<1>2. CASE t.wire = "STRUCT"
  <2> DEFINE c == t.class
             d == u.class
  <2>1. Fits(c, d) /\ Apart(c, v) /\ u.wire = "STRUCT"
    BY <1>1, <1>2 DEF FitsValue, ApartValue
  <2>2. ClassOk(c) /\ ClassOk(d)
    BY <1>2, <2>1, ClassOfType
  <2>3. \A f \in Fids(c.cases) : AllKept(TypeOf(c, f))
    BY <1>2 DEF Parts, Fids, TypeOf
  <2>4. there = Read(d, New(d), Write(c, v)) /\ back = Read(c, New(c), Write(d, there.val))
    BY <1>2, <2>1, StructTrip
  <2> HIDE DEF there, back
  <2>5. ElemEqual(t, v, back.val) = Equal(c, v, back.val)
    BY <1>2 DEF Tied, EqualValue
  <2> HIDE DEF c, d
  <2>6. there.ok /\ back.ok /\ Equal(c, v, back.val)
    BY <2>1, <2>2, <2>3, <2>4, StructKept
  <2> QED BY <2>5, <2>6 DEF there, back
<1>3. ASSUME t.wire \in {"LIST", "SET", "MAP"}
      PROVE  /\ t.elem \in Types /\ u.elem \in Types /\ ElemFits(t.elem, u.elem) /\ AllKept(t.elem)
             /\ there = ReadField(u, DefaultField(u), WriteField(t, v), cl)
             /\ back = ReadField(t, DefaultField(t), WriteField(u, there.val), ac)
             /\ ElemEqual(t, v, back.val) = EqualField(t, v, back.val)
             /\ ApartField(t, v)
  <2>1. t.elem \in Parts(t) /\ u.elem \in Parts(u)
    BY <1>1, <1>3 DEF Parts
  <2>2. t.elem \in Types /\ u.elem \in Types /\ AllKept(t.elem)
    BY <2>1, PartTypes
  <2>3. ElemFits(t.elem, u.elem)
    BY <1>1, <1>3 DEF FitsValue
  <2>4. /\ there = ReadField(u, DefaultField(u), WriteField(t, v), cl)
        /\ back = ReadField(t, DefaultField(t), WriteField(u, there.val), ac)
        /\ ElemEqual(t, v, back.val) = EqualField(t, v, back.val)
        /\ ApartField(t, v)
    BY FieldsAndParts DEF Trip
  <2> QED BY <2>2, <2>3, <2>4
<1> DEFINE te == t.elem
           ue == u.elem
           first(x) == Trip(te, ue, x, cl)
           second(x) == Trip(ue, te, first(x).val, ac)
<1>4. ASSUME t.wire \in {"LIST", "SET", "MAP"}, NEW x, ElemApart(te, x)
      PROVE  first(x).ok /\ second(x).ok /\ ElemEqual(te, x, second(x).val)
  <2>1. Kept(te, ue, x)
    BY <1>3, <1>4 DEF AllKept
  <2> QED BY <2>1 DEF Kept
<1>5. ASSUME NEW w, \A i \in DOMAIN v : ElemApart(te, v[i]), t.wire \in {"LIST", "MAP"},
             w = [i \in DOMAIN v |-> ElemWrite(te, v[i])]
      PROVE  /\ \A i \in DOMAIN w : ElemRead(ue, ElemDefault(ue), w[i], cl).ok
             /\ [i \in DOMAIN w |-> ElemRead(ue, ElemDefault(ue), w[i], cl).val] = [i \in DOMAIN v |-> first(v[i]).val]
  <2>1. DOMAIN w = DOMAIN v /\ \A i \in DOMAIN v : ElemRead(ue, ElemDefault(ue), w[i], cl) = first(v[i])
    BY <1>5 DEF Trip
  <2>2. \A i \in DOMAIN v : first(v[i]).ok
    BY <1>4, <1>5
  <2> HIDE DEF te, ue, first
  <2> QED BY <2>1, <2>2
<1>6. ASSUME NEW x, NEW w, \A i \in DOMAIN v : ElemApart(te, v[i]), t.wire \in {"LIST", "MAP"},
             x = [i \in DOMAIN v |-> first(v[i]).val], w = [i \in DOMAIN x |-> ElemWrite(ue, x[i])]
      PROVE  /\ \A i \in DOMAIN w : ElemRead(te, ElemDefault(te), w[i], ac).ok
             /\ [i \in DOMAIN w |-> ElemRead(te, ElemDefault(te), w[i], ac).val] = [i \in DOMAIN v |-> second(v[i]).val]
  <2> HIDE DEF te, ue, first
  <2>1. DOMAIN w = DOMAIN v /\ \A i \in DOMAIN v : w[i] = ElemWrite(ue, first(v[i]).val)
    BY <1>6
  <2>2. \A i \in DOMAIN v : ElemRead(te, ElemDefault(te), w[i], ac) = second(v[i])
    BY <2>1 DEF Trip
  <2>3. \A i \in DOMAIN v : second(v[i]).ok
    BY <1>4, <1>6 DEF te, ue, first
  <2> HIDE DEF second
  <2> QED BY <2>1, <2>2, <2>3
<1>7. ASSUME t.wire \in {"LIST", "MAP"}, \A i \in DOMAIN v : ElemApart(te, v[i])
      PROVE  \A i \in DOMAIN v : ElemEqual(te, v[i], second(v[i]).val)
  <2>1. t.wire \in {"LIST", "SET", "MAP"}
    BY <1>7
  <2> HIDE DEF te, ue, second
  <2> QED BY <1>4, <1>7, <2>1
<1> HIDE DEF te, ue, first, second
<1>8. CASE t.wire = "LIST"
  <2> DEFINE w == WriteSeq(te, v)
             x == [i \in DOMAIN v |-> first(v[i]).val]
             y == [i \in DOMAIN v |-> second(v[i]).val]
  <2>1. \A i \in DOMAIN v : ElemApart(te, v[i])
    BY <1>3, <1>8 DEF ApartField, te
  <2>2. there = ReadList(ue, w, cl)
    BY <1>1, <1>3, <1>8 DEF ReadField, WriteField, te, ue
  <2>3. there.ok /\ there.val = x
    <3>1. w = [i \in DOMAIN v |-> ElemWrite(te, v[i])]
      BY DEF WriteSeq
    <3> HIDE DEF w
    <3> QED BY <1>5, <1>8, <2>1, <2>2, <3>1, ListRead
  <2>4. back = ReadList(te, WriteSeq(ue, x), ac)
    BY <1>1, <1>3, <1>8, <2>3 DEF ReadField, WriteField, te, ue
  <2>5. back.ok /\ back.val = y
    <3> DEFINE z == WriteSeq(ue, x)
    <3> HIDE DEF there, back
    <3>1. z = [i \in DOMAIN x |-> ElemWrite(ue, x[i])]
      BY DEF WriteSeq
    <3> HIDE DEF z
    <3>2. back = ReadList(te, z, ac)
      BY <2>4 DEF z
    <3>3. /\ \A i \in DOMAIN z : ElemRead(te, ElemDefault(te), z[i], ac).ok
          /\ [i \in DOMAIN z |-> ElemRead(te, ElemDefault(te), z[i], ac).val] = y
      <4>1. t.wire \in {"LIST", "MAP"}
        BY <1>8
      <4>2. /\ x = [i \in DOMAIN v |-> first(v[i]).val] /\ z = [i \in DOMAIN x |-> ElemWrite(ue, x[i])]
            /\ y = [i \in DOMAIN v |-> second(v[i]).val]
        BY <3>1
      <4> HIDE DEF x, y, z
      <4> QED BY <1>6, <2>1, <4>1, <4>2
    <3> HIDE DEF y
    <3> QED BY <3>2, <3>3, ListRead
  <2>6. EqualField(t, v, y)
    <3>1. \A i \in DOMAIN v : ElemEqual(te, v[i], y[i])
      BY <1>7, <1>8, <2>1
    <3> QED BY <1>8, <3>1 DEF EqualField, EqualSeq, te
  <2> HIDE DEF there, back
  <2> QED BY <1>3, <1>8, <2>3, <2>5, <2>6 DEF there, back
<1>9. CASE t.wire = "MAP"
  <2> DEFINE w == [i \in DOMAIN v |-> ElemWrite(te, v[i])]
             x == [i \in DOMAIN v |-> first(v[i]).val]
             y == [i \in DOMAIN v |-> second(v[i]).val]
             z == [i \in DOMAIN x |-> ElemWrite(ue, x[i])]
  <2>1. \A i \in DOMAIN v : ElemApart(te, v[i])
    BY <1>3, <1>9 DEF ApartField, te
  <2>2. there = ReadMap(ue, w, cl)
    BY <1>1, <1>3, <1>9 DEF ReadField, WriteField, te, ue
  <2>3. there.ok /\ there.val = x
    BY <1>5, <1>9, <2>1, <2>2, MapRead
  <2>4. back = ReadMap(te, z, ac)
    BY <1>1, <1>3, <1>9, <2>3 DEF ReadField, WriteField, te, ue
  <2>5. back.ok /\ back.val = y
    <3> HIDE DEF there, back
    <3>1. /\ \A i \in DOMAIN z : ElemRead(te, ElemDefault(te), z[i], ac).ok
          /\ [i \in DOMAIN z |-> ElemRead(te, ElemDefault(te), z[i], ac).val] = y
      <4>1. t.wire \in {"LIST", "MAP"}
        BY <1>9
      <4>2. /\ x = [i \in DOMAIN v |-> first(v[i]).val] /\ z = [i \in DOMAIN x |-> ElemWrite(ue, x[i])]
            /\ y = [i \in DOMAIN v |-> second(v[i]).val]
        OBVIOUS
      <4> HIDE DEF x, y, z
      <4> QED BY <1>6, <2>1, <4>1, <4>2
    <3> HIDE DEF y, z
    <3> QED BY <2>4, <3>1, MapRead
  <2>6. EqualField(t, v, y)
    <3>1. \A i \in DOMAIN v : ElemEqual(te, v[i], y[i])
      BY <1>7, <1>9, <2>1
    <3> QED BY <1>9, <3>1 DEF EqualField, te
  <2> HIDE DEF there, back
  <2> QED BY <1>3, <1>9, <2>3, <2>5, <2>6 DEF there, back
<1>10. CASE t.wire = "SET"
  <2>1. /\ IsSet(te, v) /\ \A x \in v : ElemApart(te, x)
        /\ \A x, y \in v : Before(te, x, y) => Before(te, Copied(te, x), Copied(te, y))
    BY <1>3, <1>10 DEF ApartField, te
  <2>2. DefaultField(t) = {} /\ DefaultField(u) = {}
    BY <1>1, <1>10 DEF DefaultField
  <2>3. there = InsertAll(ue, {}, WriteSeq(te, InOrder(te, v)), cl)
    BY <1>1, <1>3, <1>10, <2>2 DEF ReadField, ReadSet, WriteField, te, ue
  <2>4. back = InsertAll(te, {}, WriteSeq(ue, InOrder(ue, there.val)), ac)
    BY <1>1, <1>3, <1>10, <2>2 DEF ReadField, ReadSet, WriteField, te, ue
  <2>5. IsOrdered(te) /\ IsOrdered(ue)
    BY <1>1, <1>10, ThriftStructAssumption DEF te, ue
  <2>6. te \in Types /\ ue \in Types /\ ElemFits(te, ue) /\ AllKept(te)
    BY <1>3, <1>10 DEF te, ue
  <2> HIDE DEF there, back
  <2>7. there.ok /\ back.ok /\ EqualSeq(te, InOrder(te, v), InOrder(te, back.val))
    BY <2>1, <2>3, <2>4, <2>5, <2>6, SetKept
  <2>8. ElemEqual(t, v, back.val) = EqualSeq(te, InOrder(te, v), InOrder(te, back.val))
    BY <1>3, <1>10 DEF EqualField, te, there, back
  <2> QED BY <2>7, <2>8 DEF there, back
<1>11. CASE IsScalar(t)
  BY <1>1, <1>11, ScalarTrip DEF IsScalar
<1> QED BY <1>2, <1>8, <1>9, <1>10, <1>11 DEF IsScalar

\* Every type, by its depth.
LEMMA TypesKept ==
    ASSUME Tied, NEW t \in Types
    PROVE  AllKept(t)
<1> DEFINE B == {u \in Types : ~AllKept(u)}
           D == {Depth[u] : u \in B}
<1>1. ASSUME B # {} PROVE FALSE
  <2>1. D \subseteq Nat /\ D # {}
    BY <1>1, ThriftStructAssumption
  <2>2. PICK m \in D : \A n \in D : m <= n
    BY <2>1, SmallestNat
  <2>3. PICK u \in B : Depth[u] = m
    BY <2>2
  <2>4. u \in Types /\ ~AllKept(u)
    BY <2>3
  <2>5. ASSUME NEW x \in Parts(u) PROVE AllKept(x)
    <3>1. x \in Types /\ Depth[x] \in Nat /\ Depth[x] < m
      BY <2>3, <2>4, PartTypes
    <3>2. x \notin B
      BY <2>1, <2>2, <3>1
    <3> QED BY <3>1, <3>2
  <2>6. AllKept(u)
    BY <2>4, <2>5, TypeKept DEF AllKept
  <2> QED BY <2>4, <2>6
<1> QED BY <1>1

LEMMA RoundTripFromTypes ==
    ASSUME Tied, TypeOK
    PROVE  RoundTripKeeps
<1> SUFFICES ASSUME NEW o \in Objs, NEW p \in Objs, Fits(class[o], class[p]), Apart(class[o], obj[o])
             PROVE  /\ Sent(o, class[p]).ok /\ Back(o, class[p]).ok
                    /\ Equal(class[o], obj[o], Back(o, class[p]).val)
  BY DEF RoundTripKeeps
<1> DEFINE c == class[o]
           d == class[p]
<1>1. ClassOk(c) /\ ClassOk(d)
  BY ClassesOk DEF TypeOK
<1>2. \A f \in Fids(c.cases) : AllKept(TypeOf(c, f))
  BY FieldTypes, TypesKept DEF TypeOK
<1>3. /\ Sent(o, d) = Read(d, New(d), Write(c, obj[o]))
      /\ Back(o, d) = Read(c, New(c), Write(d, Sent(o, d).val))
  BY DEF Sent, Back
<1> HIDE DEF c, d
<1> DEFINE there == Read(d, New(d), Write(c, obj[o]))
           back == Read(c, New(c), Write(d, there.val))
<1>4. there.ok /\ back.ok /\ Equal(c, obj[o], back.val)
  BY <1>1, <1>2, StructKept DEF c, d
<1> QED BY <1>3, <1>4 DEF c, d

\* Whatever structs of whatever nested types are exchanged: an object sent to a
\* class that it fits and back is equal to what it was, unless it holds a set whose
\* elements only members that are not set tell apart (read and write of the macros
\* and of the generated code, and operator== and operator<).
THEOREM RoundTripKeepsHolds ==
    ASSUME Tied
    PROVE  Spec => []RoundTripKeeps
<1>1. TypeOK => RoundTripKeeps
  BY RoundTripFromTypes
<1> QED BY <1>1, TypeCorrect, PTL
=============================================================================
