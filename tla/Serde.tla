------------------------------- MODULE Serde -------------------------------
(***************************************************************************)
(* Serialization: src/src/serde.rs, builtins.rs and unsized_builtins.rs,   *)
(* and what derive(Object) generates.  An object becomes bytes and tables  *)
(* of resources (descriptors on Unix, handles and sockets on Windows); the *)
(* deserializer, driven by the type alone, must find its way back.         *)
(*                                                                         *)
(* A type is a record with a kind; a value has the shape its type says:    *)
(* the bytes of plain data, a resource, a sequence in the order of         *)
(* iteration, a record [some, of], [ok, of] or [vtable, of] for Option,    *)
(* Result and Box<dyn Trait>, nanoseconds for times.  A box names the      *)
(* place of deserialize_on_heap for its type, so types may be recursive.   *)
(*                                                                         *)
(* Every implementation of Object first writes something of its own and    *)
(* then serializes its parts, and reads it back in the same order.  The    *)
(* calls of serialize_self and deserialize_self that are active are a      *)
(* stack.                                                                  *)
(*                                                                         *)
(* Definitions whose comment begins with "Faulty variant" are not used.    *)
(***************************************************************************)
EXTENDS Relocation, Sequences, FiniteSets

CONSTANTS
    Objects,    \* the objects there are, parts too: a sequence of [type, value]
    Sent,       \* those that are sent, as indices of Objects
    OnHeap,     \* OnHeap[place]: the type whose deserialize_on_heap is there
    HeapOf,     \* HeapOf[place]: what the vtable there returns for deserialize_on_heap
    Resources,
    Sender, Receiver,
    MaxObjects  \* bound: objects in one serializer

VARIABLES
    windows, \* the build is for Windows: which tables are used
    batch,   \* the objects that are sent, as indices of Objects
    s,       \* the Serializer
    writing, \* active calls of serialize_self: [type, value, done], done parts begun
    written, \* how many objects have been serialized
    d,       \* the Deserializer
    reading, \* active calls of deserialize_self: [type, own, wants, got]
    out,     \* the values deserialized so far
    lost,    \* the transport failed to install a descriptor
    stage,
    trace,   \* history: the serializer before every step and after the last one
    pos      \* history: the same for the deserializer, as an index of trace
history == <<trace, pos>>
serde == <<windows, batch, s, writing, written, d, reading, out, lost, stage, history>>
-----------------------------------------------------------------------------
(* Serializer: what is appended to it *)

Lanes == {"data", "fds", "handles", "sockets"}

\* File, TcpStream, UnixStream and their asynchronous kin convert into the owned
\* resource of the platform: OwnedFd, OwnedHandle or OwnedSocket.
TableOf(resource) ==
    IF ~windows THEN "fds" ELSE IF resource = "stream" THEN "sockets" ELSE "handles"

Nothing == [lane \in Lanes |-> <<>>]

Bytes(b) == [Nothing EXCEPT !["data"] = b]

Push(table, r) == [Nothing EXCEPT ![table] = <<r>>]

Then(a, b) == [lane \in Lanes |-> a[lane] \o b[lane]]

\* Integers as plain data: two bytes are wide enough here.
Usize(k) == <<k, 0>>
Flag(b)  == <<IF b THEN 1 ELSE 0>>

\* RelocatablePtr: what StaticRef and StaticFn wrap and boxes begin with.
Pointer(place) == Usize(RelocateOut(AddressOf(place, Sender), Sender))

Pod(width)    == [kind |-> "pod", width |-> width]
Struct(types) == [kind |-> "struct", fields |-> types]
Tuple(types)  == [kind |-> "tuple", fields |-> types]
Vec(type)     == [kind |-> "sequence", of |-> type]
BoolType      == Pod(1)
DurationType  == [kind |-> "duration"]
PairType      == Tuple(<<BoolType, DurationType>>)
\* What a map's loop does for each of its entries.
Entry(type)   == [kind |-> "entry", fields |-> <<type.key, type.val>>]
-----------------------------------------------------------------------------
(* serialize_self: the objects it serializes after what is its own *)

Object(type, value) == [type |-> type, value |-> value]

\* Derived structs, field by field.
SerializeFields(types, value) == [i \in 1..Len(types) |-> Object(types[i], value[i])]

\* Collections, in the order of iteration.
SerializeSequence(type, value) == [i \in 1..Len(value) |-> Object(type.of, value[i])]

Backwards(q) == [i \in 1..Len(q) |-> q[Len(q) + 1 - i]]

\* Faulty variant: the macro's list of fields as it stands, last field first.
SerializeTupleUnreversed(types, value) == Backwards(SerializeFields(types, value))

\* impl_tuple lists the fields last first, and serialize_rev reverses its list.
SerializeTuple(types, value) ==
    LET listed == Backwards(SerializeFields(types, value)) IN Backwards(listed)

SerializeOption(type, value) ==
    IF value.some THEN <<Object(type.of, value.of)>> ELSE <<>>

SerializeResult(type, value) ==
    <<Object(IF value.ok THEN type.okType ELSE type.errType, value.of)>>

\* Maps: a key, its value, the next key.
SerializeMap(type, value) == [i \in 1..Len(value) |-> Object(Entry(type), value[i])]

\* String, CString, OsString and PathBuf, as a Vec of their bytes.
SerializeText(value) ==
    <<Object(Vec(Pod(1)), [i \in 1..Len(value) |-> <<value[i]>>])>>

\* Object::serialize_slice: plain data is copied as one block, and that is what its
\* elements are one behind another.
SerializeSlice(type, value) == SerializeSequence(type, value)

\* Box<T>: what the box points to.
SerializeBox(heap, value) == <<Object(OnHeap[heap], value)>>

\* A time before the epoch is sent as a flag and the distance.
SerializeSystemTime(t) == <<Object(PairType, <<Flag(t < 0), IF t < 0 THEN -t ELSE t>>)>>

Parts(type, value) ==
    CASE type.kind \in {"struct", "entry"} -> SerializeFields(type.fields, value)
      [] type.kind = "tuple"      -> SerializeTuple(type.fields, value)
      [] type.kind = "option"     -> SerializeOption(type, value)
      [] type.kind = "result"     -> SerializeResult(type, value)
      [] type.kind = "sequence"   -> SerializeSequence(type, value)
      [] type.kind = "map"        -> SerializeMap(type, value)
      [] type.kind = "text"       -> SerializeText(value)
      [] type.kind \in {"array", "slice"} -> SerializeSlice(type, value)
      [] type.kind = "box"        -> SerializeBox(type.heap, value)
      [] type.kind = "dyn"        -> SerializeBox(HeapOf[value.vtable], value.of)
      [] type.kind = "systemtime" -> SerializeSystemTime(value)
      [] OTHER -> <<>>

\* What it writes of its own: plain data, resources, lengths, flags and pointers.
Own(type, value) ==
    CASE type.kind = "pod"        -> Bytes(value)
      [] type.kind = "resource"   -> Push(TableOf(type.resource), value)
      [] type.kind = "option"     -> Bytes(Flag(value.some))
      [] type.kind = "result"     -> Bytes(Flag(value.ok))
      [] type.kind \in {"sequence", "map", "slice"} -> Bytes(Usize(Len(value)))
      [] type.kind = "static"     -> Bytes(Pointer(value))
      [] type.kind = "box"        -> Bytes(Pointer(type.heap))
      [] type.kind = "dyn"        -> Bytes(Pointer(value.vtable) \o Pointer(HeapOf[value.vtable]))
      [] type.kind = "duration"   -> Bytes(Usize(value))
      [] OTHER -> Nothing
-----------------------------------------------------------------------------
(* deserialize_self: what it reads, which types it asks for then, and what it *)
(* makes of the values                                                       *)

\* Bytes it reads of its own.
Width(type) ==
    CASE type.kind = "pod" -> type.width
      [] type.kind \in {"option", "result"} -> 1
      [] type.kind \in {"sequence", "map", "slice", "static", "box", "duration"} -> 2
      [] type.kind = "dyn" -> 4
      [] OTHER -> 0

\* The place an address names in the receiver.
PlaceOf(address) == CHOOSE place \in Places : AddressOf(place, Receiver) = address

ReadPointer(word) == PlaceOf(RelocateIn(word[1], Receiver))

Repeat(k, type) == [i \in 1..k |-> type]

DeserializeOption(type, flag) == IF flag = Flag(TRUE) THEN <<type.of>> ELSE <<>>

DeserializeResult(type, flag) ==
    <<IF flag = Flag(TRUE) THEN type.okType ELSE type.errType>>

\* Collections, and Box<[T]> by way of Vec<T>.
DeserializeSequence(type, word) == Repeat(word[1], type.of)

\* collect() asks for pairs.
DeserializeMap(type, word) == Repeat(word[1], Entry(type))

\* deserialize_on_heap, by the pointer that was sent.
DeserializeBox(word) == <<OnHeap[ReadPointer(word)]>>

Wants(type, own) ==
    CASE type.kind \in {"struct", "tuple", "entry"} -> type.fields
      [] type.kind = "option"     -> DeserializeOption(type, own)
      [] type.kind = "result"     -> DeserializeResult(type, own)
      [] type.kind \in {"sequence", "slice"} -> DeserializeSequence(type, own)
      [] type.kind = "map"        -> DeserializeMap(type, own)
      [] type.kind = "text"       -> <<Vec(Pod(1))>>
      [] type.kind = "array"      -> Repeat(type.len, type.of)
      [] type.kind = "box"        -> DeserializeBox(own)
      [] type.kind = "dyn"        -> DeserializeBox(SubSeq(own, 3, 4))
      [] type.kind = "systemtime" -> <<PairType>>
      [] OTHER -> <<>>

\* The vtable says what the box is taken for.
MakeDyn(own, got) == [vtable |-> ReadPointer(own), of |-> got[1]]

MakeSystemTime(pair) == IF pair[1] = Flag(TRUE) THEN -pair[2] ELSE pair[2]

Makes(type, own, got) ==
    CASE type.kind \in {"pod", "resource"} -> own
      [] type.kind = "option"     -> IF own = Flag(TRUE) THEN [some |-> TRUE, of |-> got[1]]
                                                         ELSE [some |-> FALSE]
      [] type.kind = "result"     -> [ok |-> own = Flag(TRUE), of |-> got[1]]
      [] type.kind = "text"       -> [i \in 1..Len(got[1]) |-> got[1][i][1]]
      [] type.kind = "static"     -> ReadPointer(own)
      [] type.kind = "box"        -> got[1]
      [] type.kind = "dyn"        -> MakeDyn(own, got)
      [] type.kind = "duration"   -> own[1]
      [] type.kind = "systemtime" -> MakeSystemTime(got[1])
      [] OTHER -> got

\* Deserializer::read.
Read(width, des) ==
    [own |-> SubSeq(des["data"], 1, width),
     rest |-> [des EXCEPT !["data"] = SubSeq(@, width + 1, Len(@))]]

\* Faulty variant: the last resource of a table stays in it.
TakeLast(table, des) ==
    [own |-> Head(des[table]),
     rest |-> IF Len(des[table]) = 1 THEN des ELSE [des EXCEPT ![table] = Tail(@)]]

\* next() of the table's iterator.
Take(table, des) == [own |-> Head(des[table]), rest |-> [des EXCEPT ![table] = Tail(@)]]

\* The index is out of the data's range, or expect() finds the table exhausted.
Panics(type, des) ==
    \/ Width(type) > Len(des["data"])
    \/ type.kind = "resource" /\ des[TableOf(type.resource)] = <<>>

OwnOf(type, des) ==
    IF type.kind = "resource" THEN Take(TableOf(type.resource), des) ELSE Read(Width(type), des)
-----------------------------------------------------------------------------
(* Values fit their types, and the parts of objects are objects *)

IsSeq(v) == Len(v) \in Nat /\ v = [i \in 1..Len(v) |-> v[i]]

Fits(type, value) ==
    CASE type.kind = "pod"        -> value \in Seq(Nat) /\ Len(value) = type.width
      [] type.kind = "resource"   -> value \in Resources
      [] type.kind \in {"struct", "tuple", "entry"} ->
             IsSeq(type.fields) /\ IsSeq(value) /\ Len(value) = Len(type.fields)
      [] type.kind = "array"      -> IsSeq(value) /\ Len(value) = type.len
      [] type.kind \in {"sequence", "map", "slice"} -> IsSeq(value)
      [] type.kind = "text"       -> value \in Seq(Nat)
      [] type.kind = "option"     ->
             /\ value.some \in BOOLEAN
             /\ value = IF value.some THEN [some |-> TRUE, of |-> value.of] ELSE [some |-> FALSE]
      [] type.kind = "result"     ->
             value.ok \in BOOLEAN /\ value = [ok |-> value.ok, of |-> value.of]
      [] type.kind = "static"     -> value \in Places
      [] type.kind = "box"        -> type.heap \in DOMAIN OnHeap
      [] type.kind = "dyn"        ->
             value.vtable \in DOMAIN HeapOf /\ value = [vtable |-> value.vtable, of |-> value.of]
      [] type.kind = "duration"   -> value \in Nat
      [] type.kind = "systemtime" -> value \in Int
      [] OTHER -> FALSE

IsObject(o) == \E k \in DOMAIN Objects : Objects[k].type = o.type /\ Objects[k].value = o.value

ASSUME SerdeAssumption ==
    /\ MaxObjects \in Nat /\ Sent \subseteq DOMAIN Objects
    /\ Sender \in Processes /\ Receiver \in Processes
    /\ DOMAIN OnHeap \subseteq Places /\ DOMAIN HeapOf \subseteq Places
    /\ \A place \in DOMAIN HeapOf : HeapOf[place] \in DOMAIN OnHeap
    /\ \A k \in DOMAIN Objects :
          LET parts == Parts(Objects[k].type, Objects[k].value)
          IN  Fits(Objects[k].type, Objects[k].value) /\ \A i \in DOMAIN parts : IsObject(parts[i])
-----------------------------------------------------------------------------
(* One serializer is filled *)

\* The serializer, its active calls, and how many objects are finished.
Moment(ser, active, count) == [s |-> ser, writing |-> active, written |-> count]
Now == Moment(s, writing, written)

\* serialize_self is called: it writes what is its own.
Called(m, callers, o) ==
    Moment(Then(m.s, Own(o.type, o.value)),
           Append(callers, [type |-> o.type, value |-> o.value, done |-> 0]), m.written)

AtObject(m) == m.writing = <<>> /\ m.written < Len(batch)

NextObject(m) == Called(m, <<>>, Objects[batch[m.written + 1]])

Top(m) == m.writing[Len(m.writing)]
TopParts(m) == Parts(Top(m).type, Top(m).value)

AtPart(m) == m.writing # <<>> /\ Top(m).done < Len(TopParts(m))

NextPart(m) ==
    Called(m, [m.writing EXCEPT ![Len(m.writing)].done = @ + 1], TopParts(m)[Top(m).done + 1])

AtReturn(m) == m.writing # <<>> /\ Top(m).done = Len(TopParts(m))

Returned(m) ==
    Moment(m.s, SubSeq(m.writing, 1, Len(m.writing) - 1),
           IF Len(m.writing) = 1 THEN m.written + 1 ELSE m.written)

Becomes(m) ==
    /\ stage = "serializing"
    /\ s' = m.s /\ writing' = m.writing /\ written' = m.written
    /\ trace' = Append(trace, m)
    /\ UNCHANGED <<windows, batch, d, reading, out, lost, stage, pos>>

SerializeObject  == AtObject(Now) /\ Becomes(NextObject(Now))

SerializePart    == AtPart(Now) /\ Becomes(NextPart(Now))

SerializeReturns == AtReturn(Now) /\ Becomes(Returned(Now))
-----------------------------------------------------------------------------
(* It is sent, and read *)

Without(q, missing) ==
    LET left == DOMAIN q \ missing
        Nth(i) == CHOOSE k \in left : Cardinality({j \in left : j <= k}) = i
    IN  [i \in 1..Cardinality(left) |-> q[Nth(i)]]

\* Deserializer::from, in the receiver.  If it may not open more descriptors, the
\* kernel leaves out the last ones of a packet (MSG_CTRUNC, which nothing looks
\* at); an object of several packets loses some in the middle.
Transmit ==
    /\ stage = "serializing" /\ writing = <<>> /\ written = Len(batch)
    /\ \E missing \in SUBSET DOMAIN s["fds"] :
          /\ d' = [s EXCEPT !["fds"] = Without(@, missing)]
          /\ lost' = (missing # {})
    /\ s' = Nothing
    /\ stage' = "deserializing"
    /\ UNCHANGED <<windows, batch, writing, written, reading, out, history>>

\* deserialize_self is called.  A panic drops what the deserializer and the
\* unfinished values hold.
Deserialize(type, callers) ==
    /\ IF Panics(type, d)
       THEN stage' = "panicked" /\ d' = Nothing /\ reading' = <<>> /\ UNCHANGED pos
       ELSE LET first == OwnOf(type, d)
            IN  /\ d' = first.rest
                /\ reading' = Append(callers, [type |-> type, own |-> first.own,
                                   wants |-> Wants(type, first.own), got |-> <<>>])
                /\ pos' = pos + 1 /\ UNCHANGED stage
    /\ UNCHANGED <<windows, batch, s, writing, written, out, lost, trace>>

Reader == reading[Len(reading)]

\* Types are asked for in the order they were serialized in.
DeserializeObject ==
    /\ stage = "deserializing" /\ reading = <<>> /\ Len(out) < Len(batch)
    /\ Deserialize(Objects[batch[Len(out) + 1]].type, <<>>)

DeserializePart ==
    /\ stage = "deserializing" /\ reading # <<>>
    /\ Len(Reader.got) < Len(Reader.wants)
    /\ Deserialize(Reader.wants[Len(Reader.got) + 1], reading)

\* The value goes to the caller.
DeserializeReturns ==
    /\ stage = "deserializing" /\ reading # <<>>
    /\ Len(Reader.got) = Len(Reader.wants)
    /\ LET value   == Makes(Reader.type, Reader.own, Reader.got)
           callers == SubSeq(reading, 1, Len(reading) - 1)
       IN  IF callers = <<>> THEN out' = Append(out, value) /\ reading' = <<>>
           ELSE /\ reading' = [callers EXCEPT ![Len(callers)].got = Append(@, value)]
                /\ UNCHANGED out
    /\ pos' = pos + 1
    /\ UNCHANGED <<windows, batch, s, writing, written, d, lost, stage, trace>>
-----------------------------------------------------------------------------
SerdeInit ==
    /\ windows \in BOOLEAN
    /\ \E k \in 1..MaxObjects : batch \in [1..k -> Sent]
    /\ s = Nothing /\ writing = <<>> /\ written = 0
    /\ d = Nothing /\ reading = <<>> /\ out = <<>> /\ lost = FALSE
    /\ stage = "serializing" /\ trace = <<Now>> /\ pos = 1

SerdeNext ==
    \/ SerializeObject \/ SerializePart \/ SerializeReturns \/ Transmit
    \/ DeserializeObject \/ DeserializePart \/ DeserializeReturns

SerdeSpec == SerdeInit /\ [][SerdeNext]_serde
-----------------------------------------------------------------------------
(* Properties *)

\* The k-th object read is the k-th one written: every step back finds its way by
\* types alone, without tags for what follows, and does not panic.
RoundTrip ==
    ~lost => /\ stage # "panicked"
             /\ \A i \in 1..Len(out) : out[i] = Objects[batch[i]].value

\* When the last object has been read, nothing is left: bytes and descriptors of
\* one object are never taken for those of the next.
NothingLeft ==
    stage = "deserializing" /\ Len(out) = Len(batch) =>
        \A lane \in Lanes : d[lane] = <<>>

\* A message with one object, as channels send it, of which descriptors were
\* lost, yields no object rather than one with the wrong descriptors.
ShortTableYieldsNothing == lost /\ Len(batch) = 1 => out = <<>>

\* deserialize() never panics on the object it was promised, even "when OS limits
\* are exceeded" (its documentation).
LimitIsAnError == stage # "panicked"
-----------------------------------------------------------------------------
(* The inductive invariant: serialize_self and deserialize_self call each other *)
(* in step                                                                      *)

IsStream(f) == f = [lane \in Lanes |-> f[lane]] /\ \A lane \in Lanes : IsSeq(f[lane])

\* The active calls are those of one object that is sent, each for the part its
\* caller has last begun.
CallsInv(m) ==
    /\ IsStream(m.s) /\ IsSeq(m.writing) /\ m.written \in 0..Len(batch)
    /\ \A i \in 1..Len(m.writing) :
          LET c == m.writing[i]
          IN  /\ c = [type |-> c.type, value |-> c.value, done |-> c.done]
              /\ IsObject(c) /\ c.done \in 0..Len(Parts(c.type, c.value))
    /\ m.writing # <<>> =>
          LET o == Objects[batch[m.written + 1]]
          IN  m.written < Len(batch) /\ m.writing[1].type = o.type /\ m.writing[1].value = o.value
    /\ \A i \in 1..(Len(m.writing) - 1) :
          LET c == m.writing[i]
              part == Parts(c.type, c.value)[c.done]
          IN  c.done > 0 /\ m.writing[i + 1].type = part.type /\ m.writing[i + 1].value = part.value

Follows(m, next) ==
    \/ AtObject(m) /\ next = NextObject(m)
    \/ AtPart(m) /\ next = NextPart(m)
    \/ AtReturn(m) /\ next = Returned(m)

Begins(q, all) == Len(q) <= Len(all) /\ \A i \in 1..Len(q) : all[i] = q[i]

\* What was written stays.
Grows(f, g) == \A lane \in Lanes : Begins(f[lane], g[lane])

Final == trace[Len(trace)]

TraceInv ==
    /\ IsSeq(trace) /\ Len(trace) > 0 /\ trace[1] = Moment(Nothing, <<>>, 0)
    /\ \A k \in 1..Len(trace) : CallsInv(trace[k]) /\ Grows(trace[k].s, Final.s)
    /\ \A k \in 1..(Len(trace) - 1) : Follows(trace[k], trace[k + 1])
    /\ stage = "serializing" => Final = Now
    /\ stage # "serializing" => Final.writing = <<>> /\ Final.written = Len(batch)

TypesOf(parts)  == [j \in 1..Len(parts) |-> parts[j].type]
ValuesOf(parts) == [j \in 1..Len(parts) |-> parts[j].value]

\* A call of deserialize_self has the type of the call of serialize_self in its
\* place, asks for the types of its parts, and has got the values of those done.
Answers(r, c, done) ==
    LET parts == Parts(c.type, c.value)
    IN  /\ r = [type |-> c.type, own |-> r.own, wants |-> TypesOf(parts), got |-> r.got]
        /\ IsSeq(r.got) /\ Len(r.got) = done
        /\ ~lost => /\ \A j \in 1..done : r.got[j] = parts[j].value
                    /\ Makes(r.type, r.own, ValuesOf(parts)) = c.value

\* What is still to be read is what was written from here on.
Rest(rest, before, all) ==
    /\ Len(before) + Len(rest) = Len(all)
    /\ \A i \in 1..Len(rest) : rest[i] = all[Len(before) + i]

ReadInv ==
    LET m == trace[pos]
    IN  /\ IsStream(d) /\ IsSeq(reading)
        /\ Len(out) = m.written /\ Len(reading) = Len(m.writing)
        /\ \A i \in 1..Len(reading) :
              LET c == m.writing[i]
              IN  Answers(reading[i], c, IF i < Len(reading) THEN c.done - 1 ELSE c.done)
        /\ \A lane \in Lanes : ~lost \/ lane # "fds" => Rest(d[lane], m.s[lane], Final.s[lane])
        /\ lost => Len(m.s["fds"]) + Len(d["fds"]) < Len(Final.s["fds"])
        /\ ~lost => \A i \in 1..Len(out) : out[i] = Objects[batch[i]].value

SerdeIInv ==
    /\ windows \in BOOLEAN /\ lost \in BOOLEAN
    /\ batch \in Seq(Sent) /\ IsSeq(out) /\ pos \in 1..Len(trace)
    /\ stage \in {"serializing", "deserializing", "panicked"}
    /\ TraceInv
    /\ stage = "serializing" => ~lost /\ out = <<>> /\ reading = <<>> /\ pos = 1
    /\ stage = "deserializing" => ReadInv
    /\ stage = "panicked" => lost /\ Len(out) < Len(batch)
=============================================================================
