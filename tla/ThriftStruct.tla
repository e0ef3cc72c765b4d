---------------------------- MODULE ThriftStruct ----------------------------
(***************************************************************************)
(* The structs that the msgrpc IDL macros expand to, the classes the       *)
(* Thrift compiler generated for the same IDL, and the codec of a thread   *)
(* that encodes and decodes them.                                          *)
(*                                                                         *)
(* A class is what its expanded (or generated) functions do per field: the *)
(* cases of read(), the fields write() and operator== treat as always      *)
(* there, the fields whose absence read() refuses, the fields that are     *)
(* public members, and whether reading clears a std::set first.  Field     *)
(* names, byte layout and printing are left out; a scalar is 0 (its        *)
(* default) or 1.                                                          *)
(***************************************************************************)
EXTENDS Naturals, Sequences, SequencesExt, FiniteSets

CONSTANTS
    Objs,         \* the objects an application holds
    Casts,        \* a sequence of assignments of classes to the objects
    Touched,      \* bound: the fields (ids) whose value the application changes
    MaxChanges,   \* bound: how many such changes it makes, and datagrams are cut
    Values(_),    \* bound: the values it gives to a field of a type
    Cuts,         \* bound: how many of its last fields a datagram may lose, in whole or in part
    DefaultSize   \* TMemoryBuffer::defaultSize, in fields (and the stop mark)

\* The operations of TTypeT<T> for the values that others are made of.  They are
\* DefaultValue, EqualValue, ..., and MCThriftStruct says so; as constants they
\* keep the recursion out of the definitions.
CONSTANTS
    ElemDefault(_), ElemEqual(_, _, _), ElemWrite(_, _), ElemRead(_, _, _, _),
    ElemTorn(_, _, _, _), ElemFits(_, _), ElemApart(_, _)

CONSTANTS
    Types,        \* the types of the fields of these classes, and of their parts
    Depth         \* how deep types are nested: C++ has no type that contains itself

\* The types that values of a type are made of.
Parts(t) == CASE t.wire \in {"LIST", "SET", "MAP"} -> {t.elem}
              [] t.wire = "STRUCT" -> {t.class.cases[f] : f \in DOMAIN t.class.cases}
              [] OTHER -> {}

\* The ids of a class's fields are numbers; what its objects always have is among
\* them, and what they need to be read is among that.
ClassOk(c) == /\ DOMAIN c.cases \in SUBSET Nat /\ IsFiniteSet(DOMAIN c.cases)
              /\ c.needed \subseteq c.always /\ c.always \subseteq DOMAIN c.cases
              /\ \A f \in DOMAIN c.cases : c.cases[f] \in Types

IsScalar(t) == t.wire \notin {"LIST", "SET", "MAP", "STRUCT"}

\* There is an operator< for scalars, and for structs that begin with two of them.
IsOrdered(t) == /\ t.wire \notin {"LIST", "SET", "MAP"}
                /\ t.wire = "STRUCT" => \A f \in {1, 2} : /\ f \in DOMAIN t.class.cases
                                                          /\ IsScalar(t.class.cases[f])

ASSUME ThriftStructAssumption ==
    /\ MaxChanges \in Nat /\ DefaultSize \in Nat \ {0}
    /\ \A i \in DOMAIN Casts : \A o \in Objs : ClassOk(Casts[i][o])
    /\ Depth \in [Types -> Nat]
    /\ \A t \in Types : /\ \A u \in Parts(t) : u \in Types /\ Depth[u] < Depth[t]
                        /\ t.wire = "STRUCT" => ClassOk(t.class)
                        /\ t.wire = "SET" => IsOrdered(t.elem)

VARIABLES
    cast,                           \* which assignment of classes: never changes
    obj,                            \* val: the members; isset: the __isset bits
    changes,                        \* changes made and datagrams cut so far
    mem_buf_,                       \* ThriftEncoder: the message encoded last
    capacity,                       \* ThriftEncoder: the size of its buffer
    should_reset_to_default_size_   \* ThriftEncoder

vars == <<cast, obj, changes, mem_buf_, capacity, should_reset_to_default_size_>>
class == Casts[cast]
encoderVars == <<mem_buf_, capacity, should_reset_to_default_size_>>
-----------------------------------------------------------------------------
\* Types: TTypeT<T>::value, and what the value is made of.
Scalar(wire) == [wire |-> wire]
ListOf(elem) == [wire |-> "LIST", elem |-> elem]
SetOf(elem) == [wire |-> "SET", elem |-> elem]
MapOf(key, elem) == [wire |-> "MAP", key |-> key, elem |-> elem]
StructOf(c) == [wire |-> "STRUCT", class |-> c]

\* The cases of a class: the types of its fields, whose ids are 1, 2, ...
Fids(cases) == DOMAIN cases
TypeOf(c, fid) == c.cases[fid]

\* What the macros make of a list of fields: `optional' are the fields with an
\* __isset bit; the others are public, always written and compared, and needed.
MsgrpcClass(cases, optional) ==
    LET required == Fids(cases) \ optional
    IN  [cases |-> cases, always |-> required, needed |-> required, public |-> required,
         clears |-> FALSE]
-----------------------------------------------------------------------------
\* demo_service.api, and api_types.{h,cpp} as generated.
SingleCases == <<Scalar("I16"), Scalar("I64")>>
SingleMsgrpc == MsgrpcClass(SingleCases, {1})
SingleThrift == [cases |-> SingleCases, always |-> {2}, needed |-> {2}, public |-> {1, 2},
                 clears |-> TRUE]

EmbeddedCases == <<Scalar("BYTE"), Scalar("I16")>>
EmbeddedMsgrpc == MsgrpcClass(EmbeddedCases, {2})
EmbeddedThrift == [cases |-> EmbeddedCases, always |-> {1}, needed |-> {1}, public |-> {1, 2},
                   clears |-> TRUE]

PlainCases ==
    <<Scalar("I32"), Scalar("STRING"), Scalar("I32"),
      Scalar("BYTE"), Scalar("I16"), Scalar("I64"),
      Scalar("DOUBLE"), Scalar("BOOL"), Scalar("STRING")>>
NestedCases(embedded) ==
    <<StructOf(embedded),
      ListOf(Scalar("I32")), ListOf(StructOf(embedded)),
      ListOf(Scalar("BOOL")),
      SetOf(Scalar("I32")), SetOf(StructOf(embedded)),
      MapOf(Scalar("I32"), Scalar("STRING")),
      MapOf(Scalar("STRING"), StructOf(embedded))>>

ResponseDataMsgrpc == MsgrpcClass(PlainCases \o NestedCases(EmbeddedMsgrpc), 13 .. 17)

\* The generated functions of ResponseData, whatever api.thrift says of it:
\* write() and operator== know no absent field, and read() refuses nothing.
ThriftWrites == 1 .. 17
ThriftCompares == 1 .. 17
ThriftRequires == {}
ResponseDataThrift ==
    [cases |-> PlainCases \o NestedCases(EmbeddedThrift),
     always |-> ThriftWrites \cap ThriftCompares, needed |-> ThriftRequires,
     public |-> 1 .. 17, clears |-> TRUE]
-----------------------------------------------------------------------------
\* A member of a type, as its class constructs it.
DefaultField(t) == CASE t.wire = "LIST"   -> <<>>
                     [] t.wire = "SET"    -> {}
                     [] t.wire = "MAP"    -> [k \in {} |-> 0]
                     [] t.wire = "STRUCT" -> ElemDefault(t)
                     [] OTHER             -> 0

\* A default-constructed object, and value.
New(c) == [val |-> [f \in Fids(c.cases) |-> DefaultField(TypeOf(c, f))], isset |-> {}]
DefaultValue(t) == IF t.wire = "STRUCT" THEN New(t.class) ELSE DefaultField(t)

\* Faulty form of the next: every setter marks its field.
SetFieldMarksAny(c, o, f, v) == [val |-> [o.val EXCEPT ![f] = v], isset |-> o.isset \cup {f}]

\* __set_<field>.
SetField(c, o, f, v) ==
    [val |-> [o.val EXCEPT ![f] = v], isset |-> o.isset \cup ({f} \ c.always)]

\* What operator< looks at: EmbeddedStruct's at both members, set or not.
Key(t, v) == IF t.wire = "STRUCT" THEN <<v.val[1], v.val[2]>> ELSE v

Before(t, v, w) == LET k == Key(t, v)
                       l == Key(t, w)
                   IN  IF t.wire = "STRUCT" THEN k[1] < l[1] \/ (k[1] = l[1] /\ k[2] < l[2])
                                            ELSE k < l

\* What a std::set is: no two of its elements are equivalent.
IsSet(t, s) == /\ IsFiniteSet(s)
               /\ \A v \in s : Key(t, v) \in IF t.wire = "STRUCT" THEN Nat \X Nat ELSE Nat
               /\ \A v, w \in s : Key(t, v) = Key(t, w) => v = w

\* The elements of a std::set in its order.
InOrder(t, s) ==
    CHOOSE q \in [1 .. Cardinality(s) -> s] :
        \A i, j \in DOMAIN q : i < j => q[i] # q[j] /\ ~Before(t, q[j], q[i])

EqualSeq(t, s, r) == DOMAIN s = DOMAIN r /\ \A i \in DOMAIN s : ElemEqual(t, s[i], r[i])

EqualField(t, v, w) ==
    CASE t.wire = "LIST"   -> EqualSeq(t.elem, v, w)
      [] t.wire = "SET"    -> EqualSeq(t.elem, InOrder(t.elem, v), InOrder(t.elem, w))
      [] t.wire = "MAP"    -> DOMAIN v = DOMAIN w /\ \A k \in DOMAIN v : ElemEqual(t.elem, v[k], w[k])
      [] t.wire = "STRUCT" -> ElemEqual(t, v, w)
      [] OTHER             -> v = w

\* operator==: an optional field counts only where it is set.
Equal(c, a, b) ==
    /\ \A f \in c.always : EqualField(TypeOf(c, f), a.val[f], b.val[f])
    /\ \A f \in Fids(c.cases) \ c.always :
          /\ f \in a.isset <=> f \in b.isset
          /\ f \in a.isset => EqualField(TypeOf(c, f), a.val[f], b.val[f])

EqualValue(t, v, w) == IF t.wire = "STRUCT" THEN Equal(t.class, v, w) ELSE EqualField(t, v, w)
-----------------------------------------------------------------------------
WriteSeq(t, s) == [i \in DOMAIN s |-> ElemWrite(t, s[i])]

WriteField(t, v) ==
    CASE t.wire = "LIST"   -> WriteSeq(t.elem, v)
      [] t.wire = "SET"    -> WriteSeq(t.elem, InOrder(t.elem, v))
      [] t.wire = "MAP"    -> [k \in DOMAIN v |-> ElemWrite(t.elem, v[k])]
      [] t.wire = "STRUCT" -> ElemWrite(t, v)
      [] OTHER             -> v

\* write(): a message maps the ids of the fields it has, which are written and
\* so come in their order, to type and value; `stop' says it is not cut short.
Written(c, o) == {f \in Fids(c.cases) : f \in c.always \cup o.isset}
Write(c, o) ==
    [fields |-> [f \in Written(c, o) |-> [wire |-> TypeOf(c, f).wire,
                                          val  |-> WriteField(TypeOf(c, f), o.val[f])]],
     stop   |-> TRUE]

WriteValue(t, v) == IF t.wire = "STRUCT" THEN Write(t.class, v) ELSE WriteField(t, v)
-----------------------------------------------------------------------------
\* Of the results r of a loop: those that are errors, and those it comes to.
Errors(r) == {x \in DOMAIN r : ~r[x].ok}
Reached(r) == LET errors == Errors(r) IN {x \in DOMAIN r : \A y \in errors : x <= y}

\* Faulty form of the next: all elements are read into one object.
ReadListIntoOne(t, w, clears) ==
    LET r[i \in DOMAIN w] == ElemRead(t, IF i = 1 THEN ElemDefault(t) ELSE r[i - 1].val, w[i], clears)
        read == Reached(r)
    IN  [ok  |-> Errors(r) = {},
         val |-> [i \in DOMAIN w |-> IF i \in read THEN r[i].val ELSE ElemDefault(t)]]

\* TTypeT<std::vector<T>>::read: cleared and resized, then read up to an error.
ReadList(t, w, clears) ==
    LET r == [i \in DOMAIN w |-> ElemRead(t, ElemDefault(t), w[i], clears)]
        read == Reached(r)
    IN  [ok  |-> Errors(r) = {},
         val |-> [i \in DOMAIN w |-> IF i \in read THEN r[i].val ELSE ElemDefault(t)]]

\* std::set::insert: an element equivalent to one that is there is dropped.
Inserts(t, there, v) == \A w \in there : Key(t, w) # Key(t, v)

\* What is read is inserted, up to an error.
InsertAll(t, s, w, clears) ==
    LET r == [i \in DOMAIN w |-> ElemRead(t, ElemDefault(t), w[i], clears)]
        there(i) == s \cup {r[j].val : j \in 1 .. i - 1}
        new == {i \in Reached(r) \ Errors(r) : Inserts(t, there(i), r[i].val)}
    IN  [ok |-> Errors(r) = {}, val |-> s \cup {r[i].val : i \in new}]

\* Faulty form of the next: the generated code does not clear the set either.
ReadSetUncleared(t, old, w, clears) == InsertAll(t, old, w, clears)

\* TTypeT<std::set<T>>::read inserts into the set as it is; the generated code
\* clears the set before.
ReadSet(t, old, w, clears) == InsertAll(t, IF clears THEN {} ELSE old, w, clears)

\* TTypeT<std::map<K, V>>::read: cleared, and every value read into a new one.
ReadMap(t, w, clears) ==
    LET r == [k \in DOMAIN w |-> ElemRead(t, ElemDefault(t), w[k], clears)]
    IN  [ok |-> Errors(r) = {}, val |-> [k \in Reached(r) |-> r[k].val]]

ReadField(t, old, w, clears) ==
    CASE t.wire = "LIST"   -> ReadList(t.elem, w, clears)
      [] t.wire = "SET"    -> ReadSet(t.elem, old, w, clears)
      [] t.wire = "MAP"    -> ReadMap(t.elem, w, clears)
      [] t.wire = "STRUCT" -> ElemRead(t, old, w, clears)
      [] OTHER             -> [ok |-> TRUE, val |-> w]

\* Faulty form of the next: a missing field is not noticed.
ReceivedAnything(c, seen) == TRUE

\* The check behind the loop of read(): every needed field has been read.
Received(c, seen) == c.needed \subseteq seen

\* A field is read where a case has its id and its type, and skipped otherwise.
Cases(c, fields) == {f \in Fids(c.cases) \cap DOMAIN fields : TypeOf(c, f).wire = fields[f].wire}

\* Faulty form of the next: a field is marked before its value is read.
ReadMarksFirst(c, o, msg) ==
    LET cases == Cases(c, msg.fields)
        r == [f \in cases |-> ReadField(TypeOf(c, f), o.val[f], msg.fields[f].val, c.clears)]
        errors == Errors(r)
        read == Reached(r)
    IN  [ok  |-> errors = {} /\ msg.stop /\ Received(c, cases),
         val |-> [val   |-> [f \in Fids(c.cases) |-> IF f \in read THEN r[f].val ELSE o.val[f]],
                  isset |-> o.isset \cup (read \ c.always)]]

\* read() into object o: ok is FALSE if it throws, with o as it has come by then.
Read(c, o, msg) ==
    LET cases == Cases(c, msg.fields)
        r == [f \in cases |-> ReadField(TypeOf(c, f), o.val[f], msg.fields[f].val, c.clears)]
        errors == Errors(r)
        read == Reached(r)
    IN  [ok  |-> errors = {} /\ msg.stop /\ Received(c, cases),
         val |-> [val   |-> [f \in Fids(c.cases) |-> IF f \in read THEN r[f].val ELSE o.val[f]],
                  isset |-> o.isset \cup ((read \ errors) \ c.always)]]

ReadValue(t, old, w, clears) ==
    IF t.wire = "STRUCT" THEN Read(t.class, old, w) ELSE ReadField(t, old, w, clears)
-----------------------------------------------------------------------------
\* What is left of a message without its last fields.
CutShort(msg, cut) ==
    LET ms == msg.fields
        left == {f \in DOMAIN ms : cut <= Cardinality({g \in DOMAIN ms : f < g})}
    IN  [fields |-> [f \in left |-> ms[f]], stop |-> msg.stop /\ cut = 0]

\* What a read may leave of a list, set or map if the datagram ends inside it:
\* before the elements, between two, or inside one (a map also has the key then).
TornList(t, w, clears) ==
    LET r == [i \in DOMAIN w |-> ElemRead(t, ElemDefault(t), w[i], clears)]
        upTo(n, v) == [i \in DOMAIN w |-> CASE i < n -> r[i].val [] i = n -> v [] OTHER -> ElemDefault(t)]
        inside(n) == {upTo(n, v) : v \in ElemTorn(t, ElemDefault(t), w[n], clears)}
    IN  {<<>>} \cup UNION {inside(n) : n \in Reached(r)}

TornSet(t, old, w, clears) ==
    {ReadSet(t, old, [i \in 1 .. n - 1 |-> w[i]], clears).val : n \in DOMAIN w \cup {1}}

TornMap(t, w, clears) ==
    LET r == [k \in DOMAIN w |-> ElemRead(t, ElemDefault(t), w[k], clears)]
        before(n) == [k \in {l \in DOMAIN w : l < n} |-> r[k].val]
        inside(n) == {(n :> v) @@ before(n) : v \in ElemTorn(t, ElemDefault(t), w[n], clears)}
    IN  {before(n) : n \in Reached(r) \cup {0}} \cup UNION {inside(n) : n \in Reached(r)}

\* A scalar is as it was (of a string thrift leaves what it will).
TornField(t, old, w, clears) ==
    CASE t.wire = "LIST"   -> TornList(t.elem, w, clears)
      [] t.wire = "SET"    -> TornSet(t.elem, old, w, clears)
      [] t.wire = "MAP"    -> TornMap(t.elem, w, clears)
      [] t.wire = "STRUCT" -> ElemTorn(t, old, w, clears)
      [] OTHER             -> {old}

\* What read() may leave of object o if the last fields do not come, of the first
\* of them nothing or a part: a field is marked once its value has come.
ReadShort(c, o, msg, cut) ==
    LET left == Read(c, o, CutShort(msg, cut)).val
        ms == msg.fields
        r == [f \in Cases(c, ms) |-> ReadField(TypeOf(c, f), o.val[f], ms[f].val, c.clears)]
        torn == {f \in Reached(r) : Cardinality({g \in DOMAIN ms : f <= g}) = cut}
        parts(f) == TornField(TypeOf(c, f), o.val[f], ms[f].val, c.clears)
    IN  {left} \cup UNION {{[left EXCEPT !.val[f] = v] : v \in parts(f)} : f \in torn}

TornValue(t, old, w, clears) ==
    IF t.wire = "STRUCT"
      THEN UNION {ReadShort(t.class, old, w, cut) : cut \in 0 .. Cardinality(DOMAIN w.fields)}
      ELSE TornField(t, old, w, clears)
-----------------------------------------------------------------------------
Init == /\ cast \in DOMAIN Casts
        /\ obj = [o \in Objs |-> New(class[o])]
        /\ changes = 0
        /\ mem_buf_ = [fields |-> <<>>, stop |-> FALSE]
        /\ capacity = DefaultSize
        /\ should_reset_to_default_size_ = FALSE

\* The application gives a member a value, by its setter or directly.
Assign(o, f, v) ==
    /\ changes < MaxChanges
    /\ changes' = changes + 1
    /\ \/ obj' = [obj EXCEPT ![o] = SetField(class[o], @, f, v)]
       \/ f \in class[o].public /\ obj' = [obj EXCEPT ![o].val[f] = v]
    /\ UNCHANGED <<cast, encoderVars>>

Construct(o) == /\ obj' = [obj EXCEPT ![o] = New(class[o])]
                /\ UNCHANGED <<cast, changes, encoderVars>>

\* The copy constructor and operator= take every member and every bit.
Copy(o, p) == /\ class[o] = class[p]
              /\ obj' = [obj EXCEPT ![p] = obj[o]]
              /\ UNCHANGED <<cast, changes, encoderVars>>

Swap(o, p) == /\ class[o] = class[p]
              /\ obj' = [obj EXCEPT ![o] = obj[p], ![p] = obj[o]]
              /\ UNCHANGED <<cast, changes, encoderVars>>

Size(msg) == Cardinality(DOMAIN msg.fields) + 1

\* TMemoryBuffer doubles until the message fits.
Grown(size, needed) == CHOOSE g \in {size * 2 ^ i : i \in 0 .. needed} :
                          /\ g >= needed
                          /\ \A i \in 0 .. needed : size * 2 ^ i >= needed => g <= size * 2 ^ i

\* Faulty form of the next: a buffer that has grown is kept.
ResetKeepsGrown == capacity

\* resetBuffer: the buffer as it has grown, or one of the default size.
Reset == IF should_reset_to_default_size_ THEN DefaultSize ELSE capacity

\* ThriftEncoder::encode.  The bytes stay in the thread's buffer until the next.
Encode(o) ==
    LET msg == Write(class[o], obj[o])
    IN  /\ mem_buf_' = msg
        /\ capacity' = Grown(Reset, Size(msg))
        /\ should_reset_to_default_size_' = (should_reset_to_default_size_ \/ Size(msg) > DefaultSize)
        /\ UNCHANGED <<cast, obj, changes>>

\* ThriftDecoder::decode of what was encoded last, or of what came of it if the
\* datagram was cut; also into an object that has been used before.
Decode(p, cut) ==
    /\ \E x \in ReadShort(class[p], obj[p], mem_buf_, cut) : obj' = [obj EXCEPT ![p] = x]
    /\ \/ cut = 0 /\ UNCHANGED changes
       \/ cut # 0 /\ changes < MaxChanges /\ changes' = changes + 1
    /\ UNCHANGED <<cast, encoderVars>>

Next == \/ \E o \in Objs, f \in Touched :
              f \in Fids(class[o].cases) /\ \E v \in Values(TypeOf(class[o], f)) : Assign(o, f, v)
        \/ \E o \in Objs : Construct(o) \/ Encode(o)
        \/ \E o, p \in Objs : o # p /\ (Copy(o, p) \/ Swap(o, p))
        \/ \E p \in Objs : \E cut \in Cuts : Decode(p, cut)

Spec == Init /\ [][Next]_vars
-----------------------------------------------------------------------------
\* The members are those of the class, and only fields with an __isset bit have
\* theirs set, whatever was copied, swapped, read in part or read twice.
ObjectOk(c, x) == /\ DOMAIN x = {"val", "isset"} /\ DOMAIN x.val = Fids(c.cases)
                  /\ x.isset \subseteq Fids(c.cases) \ c.always

MessageOk(msg) == /\ DOMAIN msg = {"fields", "stop"} /\ msg.stop \in BOOLEAN
                  /\ DOMAIN msg.fields \in SUBSET Nat /\ IsFiniteSet(DOMAIN msg.fields)

TypeOK == /\ cast \in DOMAIN Casts
          /\ DOMAIN obj = Objs /\ \A o \in Objs : ObjectOk(class[o], obj[o])
          /\ changes \in 0 .. MaxChanges
          /\ MessageOk(mem_buf_) /\ capacity \in Nat
          /\ should_reset_to_default_size_ \in BOOLEAN

\* What a fresh object of class c is after reading what o writes.
Sent(o, c) == Read(c, New(c), Write(class[o], obj[o]))

\* o is sent to a fresh object of the other class, which is sent back.
Back(o, c) == Read(class[o], New(class[o]), Write(c, Sent(o, c).val))

SameFields(c, d) == /\ Fids(c.cases) = Fids(d.cases)
                    /\ \A f \in Fids(c.cases) : TypeOf(c, f).wire = TypeOf(d, f).wire

\* Class d needs nothing that c may leave out, and can hold absent what c can.
Fits(c, d) == /\ SameFields(c, d)
              /\ d.always \cup d.needed \subseteq c.always
              /\ \A f \in Fids(c.cases) : ElemFits(TypeOf(c, f), TypeOf(d, f))

FitsValue(t, u) ==
    /\ t.wire = u.wire
    /\ t.wire = "STRUCT" => Fits(t.class, u.class)
    /\ t.wire \in {"LIST", "SET", "MAP"} => ElemFits(t.elem, u.elem)

\* What is left of a value without the members that are not set.
Copied(t, v) == ElemRead(t, ElemDefault(t), ElemWrite(t, v), TRUE).val

\* Members that are not set are not what tells the elements of a set apart, nor
\* what orders them.
ApartField(t, v) ==
    CASE t.wire = "LIST"   -> \A i \in DOMAIN v : ElemApart(t.elem, v[i])
      [] t.wire = "SET"    -> /\ IsSet(t.elem, v)
                              /\ \A x \in v : ElemApart(t.elem, x)
                              /\ \A x, y \in v : Before(t.elem, x, y)
                                   => Before(t.elem, Copied(t.elem, x), Copied(t.elem, y))
      [] t.wire = "MAP"    -> \A k \in DOMAIN v : ElemApart(t.elem, v[k])
      [] t.wire = "STRUCT" -> ElemApart(t, v)
      [] OTHER             -> TRUE
Apart(c, o) == \A f \in Written(c, o) : ApartField(TypeOf(c, f), o.val[f])
ApartValue(t, v) == IF t.wire = "STRUCT" THEN Apart(t.class, v) ELSE ApartField(t, v)

\* An object sent to a class of the same fields and back is equal to what it
\* was, unless the other class cannot hold an absent field
\* (expect_thrift_encoded_buffer__can_decoded_by_msgrpc_____and_vise_versa).
RoundTripKeeps ==
    \A o, p \in Objs :
       Fits(class[o], class[p]) /\ Apart(class[o], obj[o])
         => LET back == Back(o, class[p])
            IN  Sent(o, class[p]).ok /\ back.ok /\ Equal(class[o], obj[o], back.val)

Scalars(c) == {f \in Fids(c.cases) : IsScalar(TypeOf(c, f))}

\* Between versions of a struct: a message is refused only for a needed field
\* that the writer lacks or holds unset; otherwise the fields both know arrive
\* and the others are unset and default (the switch, skip and the final checks).
VersionsUnderstand ==
    \A o, p \in Objs :
       LET c == class[p]
           d == class[o]
           shared == {f \in Fids(c.cases) \cap Fids(d.cases) :
                         TypeOf(c, f).wire = TypeOf(d, f).wire /\ f \in d.always \cup obj[o].isset}
           r == Sent(o, c)
       IN  Fids(d.cases) = Scalars(d) =>
              /\ r.ok <=> c.needed \subseteq shared
              /\ r.val.isset = shared \ c.always
              /\ \A f \in Fids(c.cases) :
                    r.val.val[f] = IF f \in shared THEN obj[o].val[f] ELSE DefaultField(TypeOf(c, f))

\* The set u is the set s with those elements of r that have no equivalent in s.
Joined(t, s, r, u) == /\ s \subseteq u /\ u \subseteq s \cup r
                      /\ \A v \in r : \E w \in u : Key(t, v) = Key(t, w) /\ (w = v \/ w \in s)

\* Decoding into an object that was used before leaves of it only fields the
\* message lacks, members of nested structs, and the elements of sets that the
\* macros' read does not clear: of those all, also where an equivalent one comes.
UsedObjectsOverwritten ==
    \A p \in Objs :
       LET c == class[p]
           used == Read(c, obj[p], mem_buf_)
           fresh == Read(c, New(c), mem_buf_)
           came == Cases(c, mem_buf_.fields)
       IN  used.ok =>
              /\ fresh.ok
              /\ used.val.isset = obj[p].isset \cup (came \ c.always)
              /\ \A f \in Fids(c.cases) :
                    LET t == TypeOf(c, f)
                    IN  /\ f \notin came => used.val.val[f] = obj[p].val[f]
                        /\ f \in came /\ t.wire \notin {"SET", "STRUCT"}
                             => used.val.val[f] = fresh.val.val[f]
                        /\ f \in came /\ t.wire = "SET"
                             => IF c.clears THEN used.val.val[f] = fresh.val.val[f]
                                ELSE Joined(t.elem, obj[p].val[f], fresh.val.val[f], used.val.val[f])

\* An optional field that a read marks as set came whole and was read whole, also
\* if the read then throws: in a later field, in what the datagram lost, or for a
\* needed field (___expand_read_field_case__optional, and the generated read()).
MarkedCameWhole ==
    \A p \in Objs : \A cut \in Cuts :
       LET c == class[p]
           fields == mem_buf_.fields
       IN  \A x \in ReadShort(c, obj[p], mem_buf_, cut) : \A f \in x.isset \ obj[p].isset :
              /\ f \in Cases(c, fields)
              /\ ReadField(TypeOf(c, f), obj[p].val[f], fields[f].val, c.clears)
                    = [ok |-> TRUE, val |-> x.val[f]]

\* The encoder of a thread does not hold on to the memory of a large message
\* beyond the next one (should_reset_to_default_size_).
BufferGivenBack ==
    /\ Size(mem_buf_) <= DefaultSize => capacity = DefaultSize
    /\ capacity < 2 * Size(mem_buf_) \/ capacity = DefaultSize
=============================================================================
