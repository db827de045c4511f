---------------------------- MODULE ObjectProofs ----------------------------
(***************************************************************************)
(* Proofs about objects: that functions as objects behave as the           *)
(* programmer means them to, for any captures, any number of arguments,    *)
(* any word size and any addresses; and that deserialization undoes        *)
(* serialization, for any types, recursive ones too, any values and any    *)
(* number of objects.                                                      *)
(***************************************************************************)
EXTENDS FunctionObjects, Serde, SequenceTheorems, FiniteSetTheorems, TLAPS

(* A pointer into the executable, sent from any process to any other, names *)
(* there what it named where it came from (RelocatablePtr).                 *)
THEOREM Relocates ==
    ASSUME NEW p \in Processes, NEW q \in Processes, NEW place \in Places
    PROVE  RelocateIn(RelocateOut(AddressOf(place, p), p), q) = AddressOf(place, q)
<1>1. /\ Base[p] \in Int /\ Base[q] \in Int /\ Word \in Int /\ place \in Int
      /\ Base[p] >= 0 /\ Base[q] >= 0 /\ Base[p] < Word /\ Base[q] < Word
      /\ Base[p] + place >= 0 /\ Base[p] + place < Word
      /\ Base[q] + place >= 0 /\ Base[q] + place < Word
  BY RelocationAssumption DEF Address
<1> QED
  BY <1>1 DEF RelocateIn, RelocateOut, WrappingSub, WrappingAdd, AddressOf
-----------------------------------------------------------------------------
(* Functions as objects *)

(* The number of captures is a natural number, and each has a mode. *)
LEMMA CapturesType ==
    /\ n \in Nat /\ Arity \in Nat
    /\ \A k \in 1..n : Captures[k] \in {"value", "mut", "ref"}
BY FunctionsAssumption DEF n

(* Addresses of the body are addresses. *)
LEMMA BodyAddress == \A p \in Processes : AddressOf(Body, p) \in Address
BY FunctionsAssumption, RelocationAssumption DEF AddressOf

(* The invariant holds at the start. *)
LEMMA InitInv == Init => IInv
<1> SUFFICES ASSUME Init PROVE IInv
  OBVIOUS
<1>1. TypeOK
  BY CapturesType, BodyAddress, FunctionsAssumption DEF Init, TypeOK, Kinds
<1> QED
  BY <1>1, CapturesType DEF Init, IInv, HeadsAreEnv, ArgsSoFar

(* Binding a capture keeps the invariant. *)
LEMMA KeepBind ==
    ASSUME IInv, NEW v \in Values, Bind(v)
    PROVE  IInv'
<1> USE CapturesType DEF Bind, Wrap
<1>1. TypeOK'
  BY DEF IInv, TypeOK, call
<1>2. HeadsAreEnv'
  BY DEF IInv, HeadsAreEnv, TypeOK
<1>3. ArgsSoFar' /\ (pointer = AddressOf(Body, home))' /\ (phase = "running" => depth = 0)'
  BY DEF IInv, ArgsSoFar, call, AddressOf
<1> QED
  BY <1>1, <1>2, <1>3 DEF IInv

(* Boxing keeps the invariant. *)
LEMMA KeepLambdaReady ==
    ASSUME IInv, LambdaReady
    PROVE  IInv'
<1> USE DEF LambdaReady, call
<1>1. TypeOK'
  BY DEF IInv, TypeOK
<1>2. HeadsAreEnv'
  BY DEF IInv, HeadsAreEnv
<1>3. ArgsSoFar' /\ (pointer = AddressOf(Body, home))' /\ (phase = "running" => depth = 0)'
  BY DEF IInv, ArgsSoFar, AddressOf
<1> QED
  BY <1>1, <1>2, <1>3 DEF IInv

(* The beginning of a call keeps the invariant. *)
LEMMA KeepCall ==
    ASSUME IInv, NEW k \in Kinds, NEW values \in [1..Arity -> Values], Call(k, values)
    PROVE  IInv'
<1> USE CapturesType DEF Call
<1>1. values \in Seq(Values) /\ Len(values) = Arity
  OBVIOUS
<1>2. args' \in Seq(Argument) /\ Len(args') = Arity
  <2>1. \A i \in 1..Arity : ByValue(values[i]) \in Argument
    BY DEF ByValue, Argument
  <2>2. args' \in [1..Arity -> Argument]
    BY <2>1
  <2> QED
    BY <2>2
<1>3. TypeOK'
  BY <1>1, <1>2, FunctionsAssumption DEF IInv, TypeOK
<1>4. HeadsAreEnv'
  BY DEF IInv, HeadsAreEnv
<1>5. Passed' = 0
  BY DEF Passed
<1>6. ArgsSoFar'
  BY <1>1, <1>2, <1>5 DEF ArgsSoFar
<1> QED
  BY <1>3, <1>4, <1>6 DEF IInv, AddressOf

(* Passing the box keeps the invariant. *)
LEMMA KeepEnterBox ==
    ASSUME IInv, EnterBox
    PROVE  IInv'
<1> USE CapturesType DEF EnterBox
<1>1. TypeOK'
  BY DEF IInv, TypeOK
<1>2. HeadsAreEnv'
  BY DEF IInv, HeadsAreEnv
<1>3. Passed = 0 /\ Passed' = 0
  BY DEF Passed
<1>4. ArgsSoFar'
  BY <1>3 DEF IInv, ArgsSoFar
<1> QED
  BY <1>1, <1>2, <1>4 DEF IInv, AddressOf

(* A layer that puts its own head first keeps the invariant. *)
LEMMA KeepEnterLayer ==
    ASSUME IInv, NEW mode, EnterLayer(mode, HeadOf(depth))
    PROVE  IInv'
<1> USE CapturesType DEF EnterLayer, Prepend
<1>1. depth \in 1..n /\ depth' = depth - 1 /\ Len(heads) = n
  BY DEF IInv, TypeOK, HeadsAreEnv
<1>2. HeadOf(depth) \in Argument
  BY <1>1 DEF HeadOf, ByValue, ByRef, Argument, IInv, TypeOK
<1>3. args \in Seq(Argument)
  BY DEF IInv, TypeOK
<1>4. /\ args' \in Seq(Argument) /\ Len(args') = Len(args) + 1
      /\ args'[1] = HeadOf(depth)
      /\ \A i \in 1..Len(args) : args'[i + 1] = args[i]
  BY <1>2, <1>3
<1>5. TypeOK'
  BY <1>1, <1>4 DEF IInv, TypeOK
<1>6. HeadsAreEnv'
  BY DEF IInv, HeadsAreEnv
<1>7. Passed = n - depth /\ Passed' = n - depth + 1
  BY <1>1 DEF Passed
<1>8. ArgsSoFar'
  <2>1. /\ Len(given) = Arity /\ Len(args) = n - depth + Arity
        /\ \A i \in 1..(n - depth) : args[i] = HeadOf(depth + i)
        /\ \A i \in 1..Arity : args[n - depth + i] = ByValue(given[i])
    BY <1>7 DEF IInv, ArgsSoFar
  <2>2. \A k : HeadOf(k)' = HeadOf(k)
    BY DEF HeadOf, ByValue, ByRef
  <2>3. ASSUME NEW i \in 1..(n - depth + 1)
        PROVE  args'[i] = HeadOf(depth' + i)
    <3>1. CASE i = 1
      BY <1>1, <1>4, <3>1
    <3>2. CASE i # 1
      <4> DEFINE j == i - 1
      <4>1. j \in 1..(n - depth) /\ j \in 1..Len(args) /\ i = j + 1
        BY <1>1, <2>1, <3>2
      <4>2. args'[i] = args[j]
        BY <1>4, <4>1
      <4>3. args[j] = HeadOf(depth + j) /\ depth + j = depth' + i
        BY <1>1, <2>1, <4>1
      <4> QED
        BY <4>2, <4>3
    <3> QED
      BY <3>1, <3>2
  <2>4. ASSUME NEW i \in 1..Arity
        PROVE  args'[n - depth + 1 + i] = ByValue(given[i])
    <3> DEFINE j == n - depth + i
    <3>1. j \in 1..Len(args) /\ n - depth + 1 + i = j + 1
      BY <1>1, <2>1
    <3>2. args'[j + 1] = args[j]
      BY <1>4, <3>1
    <3> QED
      BY <2>1, <3>1, <3>2
  <2>5. given' = given /\ Len(args') = n - depth + 1 + Arity
    BY <1>1, <1>4, <2>1
  <2> HIDE DEF EnterLayer
  <2> QED
    BY <1>7, <2>1, <2>2, <2>3, <2>4, <2>5 DEF ArgsSoFar
<1> QED
  BY <1>5, <1>6, <1>8 DEF IInv, AddressOf

(* Entering the function keeps the invariant. *)
LEMMA KeepEnter ==
    ASSUME IInv, EnterStaticFn \/ EnterItem
    PROVE  IInv'
<1> USE DEF EnterStaticFn, EnterItem, call
<1>1. TypeOK'
  BY DEF IInv, TypeOK
<1>2. HeadsAreEnv'
  BY DEF IInv, HeadsAreEnv
<1>3. ArgsSoFar'
  BY DEF IInv, ArgsSoFar, Passed, HeadOf, ByValue, ByRef
<1> QED
  BY <1>1, <1>2, <1>3 DEF IInv, AddressOf

(* One value for each capture is a sequence of values. *)
LEMMA EnvIsSeq ==
    ASSUME NEW f \in [1..n -> Values]
    PROVE  f \in Seq(Values) /\ Len(f) = n
BY CapturesType

(* The body reaches the heads captured by mutable reference, each at its place. *)
LEMMA KeepReturn ==
    ASSUME IInv, NEW values \in [1..n -> Values], Return(values)
    PROVE  IInv'
<1> USE CapturesType DEF Return
<1>1. /\ heads = env /\ Len(heads) = n /\ heads \in Seq(Values) /\ depth = 0
      /\ env \in Seq(Values)
  BY DEF IInv, HeadsAreEnv, TypeOK
<1>2. \A i \in 1..n : args[i] = HeadOf(i)
  BY <1>1 DEF IInv, ArgsSoFar, Passed
<1>3. ASSUME NEW i \in 1..n
      PROVE  args[i].by = Captures[i] /\ (args[i].by = "mut" => args[i].at = i)
  <2>1. args[i] = HeadOf(i)
    BY <1>2
  <2>2. CASE Captures[i] = "value"
    BY <2>1, <2>2 DEF HeadOf, ByValue
  <2>3. CASE Captures[i] # "value"
    BY <2>1, <2>3 DEF HeadOf, ByRef
  <2> QED
    BY <2>2, <2>3
<1>4. ASSUME NEW k \in 1..n
      PROVE  heads'[k] = env'[k]
  <2>1. CASE Captures[k] = "mut"
    <3>1. (CHOOSE i \in 1..n : args[i].by = "mut" /\ args[i].at = k) = k
      BY <1>3, <2>1
    <3>2. \E i \in 1..n : args[i].by = "mut" /\ args[i].at = k
      BY <1>3, <2>1
    <3> QED
      BY <2>1, <3>1, <3>2
  <2>2. CASE Captures[k] # "mut"
    <3>1. ~ \E i \in 1..n : args[i].by = "mut" /\ args[i].at = k
      BY <1>3, <2>2
    <3> QED
      BY <1>1, <2>2, <3>1
  <2> QED
    BY <2>1, <2>2
<1>5. env' \in [1..n -> Values] /\ DOMAIN heads' = 1..n
  BY <1>1
<1>6. heads' = env'
  BY <1>4, <1>5
<1>7. env' \in Seq(Values) /\ Len(env') = n
  BY ONLY <1>5, EnvIsSeq
<1>8. TypeOK'
  <2>1. /\ phase' \in {"consumed", "idle"} /\ heads' \in Seq(Values) /\ env' \in Seq(Values)
        /\ UNCHANGED <<home, pointer, kind, depth, args, given, calls>>
    BY <1>6, <1>7 DEF call
  <2>2. TypeOK
    BY DEF IInv
  <2> QED
    BY ONLY <2>1, <2>2 DEF TypeOK
<1>9. HeadsAreEnv'
  BY <1>6, <1>7 DEF HeadsAreEnv
<1>10. phase' \in {"consumed", "idle"} /\ pointer' = pointer /\ home' = home
  OBVIOUS
<1> QED
  BY <1>8, <1>9, <1>10 DEF IInv, AddressOf, ArgsSoFar

(* Sending the callable keeps the invariant. *)
LEMMA KeepSend ==
    ASSUME IInv, NEW q \in Processes, Send(q)
    PROVE  IInv'
<1> USE DEF Send, call
<1>1. home \in Processes /\ pointer = AddressOf(Body, home)
  BY DEF IInv, TypeOK
<1>2. pointer' = AddressOf(Body, q)
  BY <1>1, Relocates, FunctionsAssumption DEF PointerSent
<1>5. pointer' \in Address
  BY <1>2, BodyAddress
<1>3. TypeOK'
  BY <1>5 DEF IInv, TypeOK
<1>4. HeadsAreEnv' /\ ArgsSoFar' /\ (phase = "running" => depth = 0)'
  BY DEF IInv, HeadsAreEnv, ArgsSoFar
<1> QED
  BY <1>2, <1>3, <1>4 DEF IInv, AddressOf

(* Every step keeps the invariant. *)
LEMMA NextInv == IInv /\ [Next]_vars => IInv'
<1> SUFFICES ASSUME IInv, [Next]_vars PROVE IInv'
  OBVIOUS
<1>1. CASE LambdaReady
  BY <1>1, KeepLambdaReady
<1>2. CASE EnterBox
  BY <1>2, KeepEnterBox
<1>3. CASE EnterBoundValue
  <2>1. HeadOf(depth) = ByValue(heads[depth])
    BY <1>3 DEF EnterBoundValue, EnterLayer, HeadOf
  <2>2. EnterLayer("value", HeadOf(depth))
    BY <1>3, <2>1 DEF EnterBoundValue
  <2> QED
    BY <2>2, KeepEnterLayer
<1>4. CASE EnterBoundMut \/ EnterBoundRef
  <2>1. HeadOf(depth) = ByRef(depth)
    BY <1>4 DEF EnterBoundMut, EnterBoundRef, EnterLayer, HeadOf
  <2>2. EnterLayer("mut", HeadOf(depth)) \/ EnterLayer("ref", HeadOf(depth))
    BY <1>4, <2>1 DEF EnterBoundMut, EnterBoundRef
  <2> QED
    BY <2>2, KeepEnterLayer
<1>5. CASE EnterStaticFn \/ EnterItem
  BY <1>5, KeepEnter
<1>6. CASE \E v \in Values : Bind(v)
  BY <1>6, KeepBind
<1>7. CASE \E k \in Kinds, values \in [1..Arity -> Values] : Call(k, values)
  BY <1>7, KeepCall
<1>8. CASE \E values \in [1..n -> Values] : Return(values)
  BY <1>8, KeepReturn
<1>9. CASE \E q \in Processes : Send(q)
  BY <1>9, KeepSend
<1>10. CASE UNCHANGED vars
  BY <1>10 DEF vars, call, IInv, TypeOK, HeadsAreEnv, ArgsSoFar, AddressOf, Passed,
               HeadOf, ByValue, ByRef
<1> QED
  BY <1>1, <1>2, <1>3, <1>4, <1>5, <1>6, <1>7, <1>8, <1>9, <1>10 DEF Next

(* The invariant holds in every reachable state. *)
THEOREM Invariance == Spec => []IInv
BY InitInv, NextInv, PTL DEF Spec

(* For any captures and arguments, and calls in any processes, the body sees *)
(* the environment of the lambda and then what the caller gave.              *)
THEOREM SeesEnvironment == Spec => []BodySeesEnvironment
<1>1. IInv => BodySeesEnvironment
  <2> SUFFICES ASSUME IInv, phase = "running"
               PROVE  BodySeesEnvironment
    BY DEF BodySeesEnvironment
  <2> USE CapturesType
  <2>1. /\ depth = 0 /\ Passed = n /\ heads = env /\ Len(args) = n + Arity
        /\ \A i \in 1..n : args[i] = HeadOf(0 + i)
        /\ \A i \in 1..Arity : args[n + i] = ByValue(given[i])
    BY DEF IInv, ArgsSoFar, HeadsAreEnv, Passed
  <2>2. \A k \in 1..n : Deref(args[k]) = env[k]
    <3> SUFFICES ASSUME NEW k \in 1..n PROVE Deref(args[k]) = env[k]
      OBVIOUS
    <3>1. args[k] = HeadOf(k)
      BY <2>1
    <3>2. CASE Captures[k] = "value"
      BY <2>1, <3>1, <3>2 DEF HeadOf, ByValue, Deref
    <3>3. CASE Captures[k] # "value"
      BY <2>1, <3>1, <3>3 DEF HeadOf, ByRef, Deref
    <3> QED
      BY <3>2, <3>3
  <2>3. \A i \in 1..Arity : Deref(args[n + i]) = given[i]
    <3> SUFFICES ASSUME NEW i \in 1..Arity PROVE Deref(args[n + i]) = given[i]
      OBVIOUS
    <3>1. args[n + i] = ByValue(given[i])
      BY <2>1
    <3> QED
      BY <3>1 DEF ByValue, Deref
  <2> QED
    BY <2>1, <2>2, <2>3 DEF BodySeesEnvironment
<1> QED
  BY <1>1, Invariance, PTL

(* A call enters the code of its lambda, in whatever process it is made. *)
THEOREM Enters == Spec => []EntersBody
<1>1. IInv => EntersBody
  BY DEF IInv, EntersBody
<1> QED
  BY <1>1, Invariance, PTL

(* Calls and journeys lose nothing of the environment. *)
THEOREM Keeps == Spec => []KeepsEnvironment
<1>1. IInv => KeepsEnvironment
  BY DEF IInv, HeadsAreEnv, KeepsEnvironment
<1> QED
  BY <1>1, Invariance, PTL
-----------------------------------------------------------------------------
(* Sequences whose elements need not be of one set *)

(* A sequence of anything is a sequence over the set of its elements. *)
LEMMA SeqOver ==
    ASSUME NEW v, IsSeq(v)
    PROVE  v \in Seq({v[i] : i \in 1..Len(v)})
BY DEF IsSeq

(* Sequences over a set are sequences. *)
LEMMA SeqIs ==
    ASSUME NEW S, NEW v \in Seq(S)
    PROVE  IsSeq(v)
BY DEF IsSeq

(* A function on an initial segment is a sequence. *)
LEMMA FunctionIs ==
    ASSUME NEW k \in Nat, NEW f, f = [i \in 1..k |-> f[i]]
    PROVE  IsSeq(f) /\ Len(f) = k
<1>1. f \in Seq({f[i] : i \in 1..k})
  OBVIOUS
<1> QED
  BY <1>1 DEF IsSeq

(* Sequences of the same elements are equal. *)
LEMMA SameSeq ==
    ASSUME NEW u, NEW v, IsSeq(u), IsSeq(v), Len(u) = Len(v),
           \A i \in 1..Len(u) : u[i] = v[i]
    PROVE  u = v
BY DEF IsSeq

(* The empty sequence. *)
LEMMA EmptyIs ==
    /\ IsSeq(<<>>) /\ Len(<<>>) = 0
    /\ \A v : IsSeq(v) => Len(v) \in Nat /\ (v = <<>> <=> Len(v) = 0)
<1>1. IsSeq(<<>>) /\ Len(<<>>) = 0
  BY DEF IsSeq
<1>2. ASSUME NEW v, IsSeq(v) PROVE Len(v) \in Nat /\ (v = <<>> <=> Len(v) = 0)
  BY <1>2, SeqOver DEF IsSeq
<1> QED
  BY <1>1, <1>2

(* Append adds its element after the others. *)
LEMMA AppendIs ==
    ASSUME NEW v, IsSeq(v), NEW e
    PROVE  /\ IsSeq(Append(v, e)) /\ Len(Append(v, e)) = Len(v) + 1
           /\ \A i \in 1..Len(v) : Append(v, e)[i] = v[i]
           /\ Append(v, e)[Len(v) + 1] = e
<1> DEFINE S == {v[i] : i \in 1..Len(v)} \cup {e}
<1>1. v \in Seq(S)
  BY DEF IsSeq
<1> HIDE DEF S
<1>2. e \in S
  BY DEF S
<1>3. /\ Append(v, e) \in Seq(S) /\ Len(Append(v, e)) = Len(v) + 1
      /\ \A i \in 1..Len(v) : Append(v, e)[i] = v[i]
      /\ Append(v, e)[Len(v) + 1] = e
  BY <1>1, <1>2
<1>4. IsSeq(Append(v, e))
  BY <1>3, SeqIs
<1> QED
  BY <1>3, <1>4

(* The first elements of a sequence. *)
LEMMA PrefixIs ==
    ASSUME NEW v, IsSeq(v), NEW k \in 0..Len(v)
    PROVE  /\ IsSeq(SubSeq(v, 1, k)) /\ Len(SubSeq(v, 1, k)) = k
           /\ \A i \in 1..k : SubSeq(v, 1, k)[i] = v[i]
<1> DEFINE S == {v[i] : i \in 1..Len(v)}
<1>1. v \in Seq(S) /\ Len(v) \in Nat
  BY DEF IsSeq
<1> HIDE DEF S
<1>2. SubSeq(v, 1, k) \in Seq(S)
  BY <1>1
<1> QED
  BY <1>1, <1>2 DEF IsSeq

(* The last elements of a sequence. *)
LEMMA SuffixIs ==
    ASSUME NEW v, IsSeq(v), NEW k \in 0..Len(v)
    PROVE  LET rest == SubSeq(v, k + 1, Len(v))
           IN  IsSeq(rest) /\ Len(rest) = Len(v) - k /\ \A i \in 1..(Len(v) - k) : rest[i] = v[k + i]
<1> DEFINE S == {v[i] : i \in 1..Len(v)}
<1>1. v \in Seq(S) /\ Len(v) \in Nat
  BY DEF IsSeq
<1> HIDE DEF S
<1>2. SubSeq(v, k + 1, Len(v)) \in Seq(S)
  BY <1>1
<1>3. IsSeq(SubSeq(v, k + 1, Len(v)))
  BY <1>2, SeqIs
<1> QED
  BY <1>1, <1>3

(* One sequence behind another. *)
LEMMA ConcatIs ==
    ASSUME NEW u, NEW v, IsSeq(u), IsSeq(v)
    PROVE  /\ IsSeq(u \o v) /\ Len(u \o v) = Len(u) + Len(v) /\ Len(u) <= Len(u \o v)
           /\ \A i \in 1..Len(u) : (u \o v)[i] = u[i]
           /\ \A i \in 1..Len(v) : (u \o v)[Len(u) + i] = v[i]
<1> DEFINE S == {u[i] : i \in 1..Len(u)} \cup {v[i] : i \in 1..Len(v)}
<1>1. u \in Seq(S) /\ v \in Seq(S) /\ Len(u) \in Nat /\ Len(v) \in Nat
  BY SeqOver DEF IsSeq
<1> HIDE DEF S
<1>2. u \o v \in Seq(S)
  BY <1>1
<1>3. IsSeq(u \o v)
  BY <1>2, SeqIs
<1> QED
  BY <1>1, <1>3

(* A sequence without its first element. *)
LEMMA TailIs ==
    ASSUME NEW v, IsSeq(v), v # <<>>
    PROVE  /\ Head(v) = v[1] /\ IsSeq(Tail(v)) /\ Len(Tail(v)) = Len(v) - 1
           /\ \A i \in 1..(Len(v) - 1) : Tail(v)[i] = v[i + 1]
<1> DEFINE S == {v[i] : i \in 1..Len(v)}
<1>1. v \in Seq(S) /\ Len(v) \in Nat
  BY SeqOver DEF IsSeq
<1> HIDE DEF S
<1>2. Tail(v) \in Seq(S)
  BY <1>1
<1>3. IsSeq(Tail(v))
  BY <1>2, SeqIs
<1> QED
  BY <1>1, <1>3

(* An element is replaced. *)
LEMMA ExceptIs ==
    ASSUME NEW v, IsSeq(v), NEW k \in 1..Len(v), NEW e
    PROVE  LET w == [v EXCEPT ![k] = e]
           IN  /\ IsSeq(w) /\ Len(w) = Len(v) /\ w[k] = e
               /\ \A i \in 1..Len(v) : i # k => w[i] = v[i]
<1> DEFINE w == [v EXCEPT ![k] = e]
<1>1. v = [i \in 1..Len(v) |-> v[i]] /\ Len(v) \in Nat
  BY DEF IsSeq
<1>2. w = [i \in 1..Len(v) |-> w[i]]
  BY <1>1
<1>3. IsSeq(w) /\ Len(w) = Len(v)
  BY <1>1, <1>2, FunctionIs
<1> QED
  BY <1>1, <1>3
-----------------------------------------------------------------------------
(* Streams *)

(* What is appended to a serializer at once is a stream. *)
LEMMA OwnStreams ==
    /\ IsStream(Nothing)
    /\ \A b : IsSeq(b) => IsStream(Bytes(b))
    /\ \A table \in Lanes : \A r : IsStream(Push(table, r))
<1>1. \A r : IsSeq(<<r>>)
  <2> TAKE r
  <2>1. <<r>> \in Seq({r})
    OBVIOUS
  <2> QED
    BY <2>1, SeqIs
<1> QED
  BY <1>1, EmptyIs DEF IsStream, Nothing, Bytes, Push, Lanes

(* after is before and own behind it. *)
Behind(before, own, after) ==
    /\ IsSeq(after) /\ Len(after) = Len(before) + Len(own)
    /\ \A i \in 1..Len(own) : after[Len(before) + i] = own[i]

(* What is appended is behind what was there. *)
LEMMA ConcatBehind ==
    ASSUME NEW u, NEW v, IsSeq(u), IsSeq(v)
    PROVE  Behind(u, v, u \o v) /\ Begins(u, u \o v)
BY ConcatIs DEF Behind, Begins

(* The same for a lane of the streams. *)
LEMMA ThenLane ==
    ASSUME NEW a, NEW b, IsStream(a), IsStream(b), NEW lane \in Lanes
    PROVE  Behind(a[lane], b[lane], Then(a, b)[lane]) /\ Begins(a[lane], Then(a, b)[lane])
<1>1. IsSeq(a[lane]) /\ IsSeq(b[lane]) /\ Then(a, b)[lane] = a[lane] \o b[lane]
  BY DEF IsStream, Then
<1>2. /\ Behind(a[lane], b[lane], a[lane] \o b[lane])
      /\ Begins(a[lane], a[lane] \o b[lane])
  BY <1>1, ConcatBehind, Zenon
<1> QED
  BY <1>1, <1>2

(* Appending keeps what was there. *)
LEMMA ThenIs ==
    ASSUME NEW a, NEW b, IsStream(a), IsStream(b)
    PROVE  IsStream(Then(a, b)) /\ Grows(a, Then(a, b))
<1>1. Then(a, b) = [lane \in Lanes |-> Then(a, b)[lane]]
  BY DEF Then
<1>2. \A lane \in Lanes : IsSeq(Then(a, b)[lane])
  BY ThenLane DEF Behind
<1>3. Grows(a, Then(a, b))
  BY ThenLane DEF Grows
<1> QED
  BY <1>1, <1>2, <1>3 DEF IsStream

(* Beginnings of beginnings. *)
LEMMA BeginsOn ==
    ASSUME NEW u, NEW v, NEW w, IsSeq(u), IsSeq(v), IsSeq(w), Begins(u, v), Begins(v, w)
    PROVE  Begins(u, w)
<1>1. Len(u) \in Nat /\ Len(v) \in Nat /\ Len(w) \in Nat
  BY EmptyIs
<1>2. Len(u) <= Len(v) /\ Len(v) <= Len(w)
  BY DEF Begins
<1>3. ASSUME NEW i \in 1..Len(u) PROVE w[i] = u[i]
  <2>1. i \in 1..Len(v)
    BY <1>1, <1>2
  <2> QED
    BY <2>1 DEF Begins
<1> QED
  BY <1>1, <1>2, <1>3 DEF Begins

(* What stays while one stream grows to another stays while that grows. *)
LEMMA GrowsOn ==
    ASSUME NEW a, NEW b, NEW c, IsStream(a), IsStream(b), IsStream(c), Grows(a, b), Grows(b, c)
    PROVE  Grows(a, c)
BY BeginsOn DEF Grows, IsStream

(* A stream is its own beginning. *)
LEMMA GrowsSelf ==
    ASSUME NEW a, IsStream(a)
    PROVE  Grows(a, a)
<1>1. \A u : IsSeq(u) => Begins(u, u)
  BY EmptyIs DEF Begins
<1> QED
  BY <1>1 DEF Grows, IsStream
-----------------------------------------------------------------------------
(* One call of deserialize_self undoes one call of serialize_self *)

(* What is added to one number is found by what it adds up to. *)
LEMMA PlusCancels ==
    \A x, y, z \in Int : x + y = x + z => y = z
OBVIOUS

(* A pointer that was sent names in the receiver what it named in the sender. *)
LEMMA PointerBack ==
    ASSUME NEW place \in Places, NEW word, word[1] = Pointer(place)[1]
    PROVE  ReadPointer(word) = place
<1>1. Base[Receiver] \in Int /\ \A q \in Places : q \in Int
  BY RelocationAssumption, SerdeAssumption DEF Address
<1>2. RelocateIn(word[1], Receiver) = AddressOf(place, Receiver)
  BY Relocates, SerdeAssumption DEF Pointer, Usize
<1>3. ASSUME NEW q \in Places, AddressOf(q, Receiver) = AddressOf(place, Receiver)
      PROVE  q = place
  <2>1. q \in Int /\ place \in Int
    BY <1>1
  <2>2. Base[Receiver] + q = Base[Receiver] + place
    BY <1>3 DEF AddressOf
  <2> QED
    BY <1>1, <2>1, <2>2, PlusCancels
<1> QED
  BY <1>2, <1>3 DEF ReadPointer, PlaceOf

(* Lists that are reversed twice are as they were. *)
LEMMA BackwardsTwice ==
    ASSUME NEW q, IsSeq(q)
    PROVE  Backwards(Backwards(q)) = q
<1>1. Len(q) \in Nat /\ q = [i \in 1..Len(q) |-> q[i]]
  BY DEF IsSeq
<1>2. Len(Backwards(q)) = Len(q) /\ \A i \in 1..Len(q) : Backwards(q)[i] = q[Len(q) + 1 - i]
  BY <1>1 DEF Backwards
<1>3. \A i \in 1..Len(q) : Backwards(q)[Len(q) + 1 - i] = q[i]
  BY <1>1, <1>2
<1>4. Backwards(Backwards(q)) = [i \in 1..Len(q) |-> Backwards(q)[Len(q) + 1 - i]]
  BY <1>2 DEF Backwards
<1> QED
  BY <1>1, <1>3, <1>4

(* What deserialize_self has to find of its own. *)
Mine(type, value) == IF type.kind = "resource" THEN value ELSE Own(type, value)["data"]

(* What is its own: bytes, as many as the type says, or one resource. *)
OwnFits(type, value) ==
    /\ IsStream(Own(type, value)) /\ Len(Own(type, value)["data"]) = Width(type)
    /\ \A lane \in Lanes \ {"data"} :
          Own(type, value)[lane] =
              IF type.kind = "resource" /\ lane = TableOf(type.resource) THEN <<value>> ELSE <<>>

Undone(type, value) ==
    LET parts == Parts(type, value)
    IN  /\ IsSeq(parts)
        /\ \A own : type.kind = "resource" \/ own = Mine(type, value) => Wants(type, own) = TypesOf(parts)
        /\ Makes(type, Mine(type, value), ValuesOf(parts)) = value

(* Integers and flags are sequences of bytes, of their widths. *)
LEMMA WordsAre ==
    /\ \A k : IsSeq(Usize(k)) /\ Len(Usize(k)) = 2 /\ Usize(k)[1] = k
    /\ \A b \in BOOLEAN : IsSeq(Flag(b)) /\ Len(Flag(b)) = 1 /\ (Flag(b) = Flag(TRUE) <=> b)
    /\ \A place : IsSeq(Pointer(place)) /\ Len(Pointer(place)) = 2
<1>1. ASSUME NEW k PROVE IsSeq(Usize(k)) /\ Len(Usize(k)) = 2 /\ Usize(k)[1] = k
  <2>1. <<k, 0>> \in Seq({k, 0}) /\ Len(<<k, 0>>) = 2 /\ <<k, 0>>[1] = k
    OBVIOUS
  <2> QED
    BY <2>1, SeqIs DEF Usize
<1>2. ASSUME NEW b \in BOOLEAN
      PROVE  IsSeq(Flag(b)) /\ Len(Flag(b)) = 1 /\ (Flag(b) = Flag(TRUE) <=> b)
  <2>1. Flag(b) \in Seq({0, 1}) /\ Len(Flag(b)) = 1 /\ Flag(b)[1] = (IF b THEN 1 ELSE 0)
    BY DEF Flag
  <2>2. Flag(TRUE)[1] = 1
    BY DEF Flag
  <2>3. IsSeq(Flag(b))
    BY <2>1, SeqIs
  <2>4. b => Flag(b) = Flag(TRUE)
    BY DEF Flag
  <2>5. ASSUME ~b, Flag(b) = Flag(TRUE) PROVE FALSE
    <3>1. Flag(b)[1] = 0
      BY <2>1, <2>5
    <3>2. Flag(b)[1] = 1
      BY <2>2, <2>5, Zenon
    <3> QED
      BY <3>1, <3>2
  <2> QED
    BY <2>1, <2>3, <2>4, <2>5
<1> QED
  BY <1>1, <1>2 DEF Pointer

(* Streams of plain data are all data. *)
LEMMA BytesFit ==
    ASSUME NEW type, NEW value, NEW b, IsSeq(b), Own(type, value) = Bytes(b),
           Len(b) = Width(type), type.kind # "resource"
    PROVE  OwnFits(type, value) /\ Mine(type, value) = b
BY OwnStreams DEF OwnFits, Mine, Bytes, Nothing, Lanes

(* Implementations that write nothing of their own. *)
LEMMA NothingFits ==
    ASSUME NEW type, NEW value, Own(type, value) = Nothing, Width(type) = 0, type.kind # "resource"
    PROVE  OwnFits(type, value)
BY OwnStreams, EmptyIs DEF OwnFits, Nothing, Lanes

(* Nothing is part of what has no parts. *)
LEMMA NoParts ==
    TypesOf(<<>>) = <<>> /\ ValuesOf(<<>>) = <<>>
BY DEF TypesOf, ValuesOf

(* One part. *)
LEMMA OnePart ==
    ASSUME NEW type, NEW value
    PROVE  LET parts == <<Object(type, value)>>
           IN  IsSeq(parts) /\ TypesOf(parts) = <<type>> /\ ValuesOf(parts)[1] = value
<1>1. <<Object(type, value)>> \in Seq({Object(type, value)}) /\ Len(<<Object(type, value)>>) = 1
  OBVIOUS
<1>2. IsSeq(<<Object(type, value)>>)
  BY <1>1, SeqIs
<1> QED
  BY <1>1, <1>2 DEF TypesOf, ValuesOf, Object

(* Plain data. *)
LEMMA UndoPod ==
    ASSUME NEW type, NEW value, Fits(type, value), type.kind = "pod"
    PROVE  OwnFits(type, value) /\ Undone(type, value)
<1>1. value \in Seq(Nat) /\ Len(value) = type.width
  BY DEF Fits
<1>2. IsSeq(value)
  BY <1>1, SeqIs
<1>3. Own(type, value) = Bytes(value) /\ Width(type) = type.width /\ Parts(type, value) = <<>>
  BY DEF Own, Width, Parts
<1>4. OwnFits(type, value) /\ Mine(type, value) = value
  BY <1>1, <1>2, <1>3, BytesFit
<1>5. \A own, got : Wants(type, own) = <<>> /\ Makes(type, own, got) = own
  BY DEF Wants, Makes
<1> QED
  BY <1>3, <1>4, <1>5, NoParts, EmptyIs DEF Undone

(* Resources. *)
LEMMA UndoResource ==
    ASSUME NEW type, NEW value, Fits(type, value), type.kind = "resource"
    PROVE  OwnFits(type, value) /\ Undone(type, value)
<1>1. TableOf(type.resource) \in Lanes \ {"data"}
  BY DEF TableOf, Lanes
<1>2. Own(type, value) = Push(TableOf(type.resource), value)
      /\ Width(type) = 0 /\ Parts(type, value) = <<>>
  BY DEF Own, Width, Parts
<1>3. OwnFits(type, value)
  <2>1. IsStream(Own(type, value))
    BY <1>1, <1>2, OwnStreams
  <2>2. \A lane \in Lanes :
            Own(type, value)[lane] = IF lane = TableOf(type.resource) THEN <<value>> ELSE <<>>
    BY <1>1, <1>2 DEF Push, Nothing
  <2>3. Own(type, value)["data"] = <<>>
    BY <1>1, <2>2 DEF Lanes
  <2> QED
    BY <1>2, <2>1, <2>2, <2>3, EmptyIs DEF OwnFits
<1>4. \A own, got : Wants(type, own) = <<>> /\ Makes(type, own, got) = own
  BY DEF Wants, Makes
<1> QED
  BY <1>2, <1>3, <1>4, NoParts, EmptyIs DEF Undone, Mine

(* Structs, and the pairs of maps. *)
LEMMA UndoStruct ==
    ASSUME NEW type, NEW value, Fits(type, value), type.kind \in {"struct", "tuple", "entry"}
    PROVE  OwnFits(type, value) /\ Undone(type, value)
<1> DEFINE parts == SerializeFields(type.fields, value)
<1>1. IsSeq(type.fields) /\ IsSeq(value) /\ Len(value) = Len(type.fields)
  BY DEF Fits
<1>2. parts = [i \in 1..Len(type.fields) |-> parts[i]]
      /\ \A i \in 1..Len(type.fields) : parts[i].type = type.fields[i] /\ parts[i].value = value[i]
  BY DEF SerializeFields, Object
<1> HIDE DEF parts
<1>3. Len(type.fields) \in Nat
  BY <1>1, EmptyIs
<1>4. IsSeq(parts) /\ Len(parts) = Len(type.fields)
  BY <1>2, <1>3, FunctionIs
<1>5. TypesOf(parts) = type.fields
  BY <1>1, <1>2, <1>4 DEF TypesOf, IsSeq
<1>6. ValuesOf(parts) = value
  BY <1>1, <1>2, <1>4 DEF ValuesOf, IsSeq
<1>7. SerializeTuple(type.fields, value) = parts
  BY <1>4, BackwardsTwice DEF SerializeTuple, parts
<1>8. Own(type, value) = Nothing /\ Width(type) = 0 /\ Parts(type, value) = parts
  BY <1>7 DEF Own, Width, Parts, parts
<1>9. \A own, got : Wants(type, own) = type.fields /\ Makes(type, own, got) = got
  BY DEF Wants, Makes
<1> QED
  BY <1>4, <1>5, <1>6, <1>8, <1>9, NothingFits DEF Undone

(* Elements of one type. *)
LEMMA Elements ==
    ASSUME NEW type, NEW value, IsSeq(value)
    PROVE  LET parts == [i \in 1..Len(value) |-> Object(type, value[i])]
           IN  /\ IsSeq(parts) /\ Len(parts) = Len(value)
               /\ TypesOf(parts) = Repeat(Len(value), type) /\ ValuesOf(parts) = value
<1> DEFINE parts == [i \in 1..Len(value) |-> Object(type, value[i])]
<1>1. parts = [i \in 1..Len(value) |-> parts[i]]
      /\ \A i \in 1..Len(value) : parts[i].type = type /\ parts[i].value = value[i]
  BY DEF Object
<1> HIDE DEF parts
<1>2. Len(value) \in Nat
  BY EmptyIs
<1>3. IsSeq(parts) /\ Len(parts) = Len(value)
  BY <1>1, <1>2, FunctionIs
<1>4. TypesOf(parts) = Repeat(Len(value), type)
  BY <1>1, <1>3 DEF TypesOf, Repeat
<1>5. ValuesOf(parts) = value
  BY <1>1, <1>3 DEF ValuesOf, IsSeq
<1> QED
  BY <1>3, <1>4, <1>5 DEF parts

(* Collections of elements: their length, and one after the other. *)
LEMMA UndoSequence ==
    ASSUME NEW type, NEW value, Fits(type, value), type.kind \in {"sequence", "slice", "array"}
    PROVE  OwnFits(type, value) /\ Undone(type, value)
<1>1. IsSeq(value) /\ (type.kind = "array" => type.len = Len(value))
  BY DEF Fits
<1>2. Parts(type, value) = SerializeSequence(type, value)
  BY DEF Parts, SerializeSlice
<1>3. \A own, got : Makes(type, own, got) = got
  BY DEF Makes
<1>4. /\ IsSeq(Parts(type, value)) /\ ValuesOf(Parts(type, value)) = value
      /\ TypesOf(Parts(type, value)) = Repeat(Len(value), type.of)
  BY <1>1, <1>2, Elements DEF SerializeSequence
<1>5. CASE type.kind = "array"
  <2>1. Own(type, value) = Nothing /\ Width(type) = 0
        /\ \A own : Wants(type, own) = Repeat(type.len, type.of)
    BY <1>5 DEF Own, Width, Wants
  <2> QED
    BY <1>1, <1>3, <1>4, <1>5, <2>1, NothingFits DEF Undone
<1>6. CASE type.kind # "array"
  <2>1. Own(type, value) = Bytes(Usize(Len(value))) /\ Width(type) = 2
        /\ \A own : Wants(type, own) = Repeat(own[1], type.of)
    BY <1>6 DEF Own, Width, Wants, DeserializeSequence
  <2>2. OwnFits(type, value) /\ Mine(type, value) = Usize(Len(value))
    BY <2>1, WordsAre, BytesFit
  <2> QED
    BY <1>3, <1>4, <2>1, <2>2, WordsAre DEF Undone
<1> QED
  BY <1>5, <1>6

(* Maps. *)
LEMMA UndoMap ==
    ASSUME NEW type, NEW value, Fits(type, value), type.kind = "map"
    PROVE  OwnFits(type, value) /\ Undone(type, value)
<1>1. IsSeq(value)
  BY DEF Fits
<1>2. Parts(type, value) = SerializeMap(type, value)
  BY DEF Parts
<1>3. /\ IsSeq(Parts(type, value)) /\ ValuesOf(Parts(type, value)) = value
      /\ TypesOf(Parts(type, value)) = Repeat(Len(value), Entry(type))
  BY <1>1, <1>2, Elements DEF SerializeMap
<1>4. /\ Own(type, value) = Bytes(Usize(Len(value))) /\ Width(type) = 2
      /\ \A own : Wants(type, own) = Repeat(own[1], Entry(type))
      /\ \A own, got : Makes(type, own, got) = got
  BY DEF Own, Width, Wants, DeserializeMap, Makes
<1>5. OwnFits(type, value) /\ Mine(type, value) = Usize(Len(value))
  BY <1>4, WordsAre, BytesFit
<1> QED
  BY <1>3, <1>4, <1>5, WordsAre DEF Undone

(* Text, as the sequence of its bytes. *)
LEMMA UndoText ==
    ASSUME NEW type, NEW value, Fits(type, value), type.kind = "text"
    PROVE  OwnFits(type, value) /\ Undone(type, value)
<1> DEFINE bytes == [i \in 1..Len(value) |-> <<value[i]>>]
<1>1. IsSeq(value)
  BY SeqIs DEF Fits
<1>2. Len(value) \in Nat /\ value = [i \in 1..Len(value) |-> value[i]]
  BY <1>1 DEF IsSeq
<1>3. Len(bytes) = Len(value) /\ \A i \in 1..Len(value) : bytes[i][1] = value[i]
  BY <1>2
<1>4. Parts(type, value) = <<Object(Vec(Pod(1)), bytes)>>
  BY DEF Parts, SerializeText
<1> HIDE DEF bytes
<1>5. /\ IsSeq(Parts(type, value)) /\ TypesOf(Parts(type, value)) = <<Vec(Pod(1))>>
      /\ ValuesOf(Parts(type, value))[1] = bytes
  BY <1>4, OnePart
<1>6. /\ Own(type, value) = Nothing /\ Width(type) = 0
      /\ \A own : Wants(type, own) = <<Vec(Pod(1))>>
      /\ \A own, got : Makes(type, own, got) = [i \in 1..Len(got[1]) |-> got[1][i][1]]
  BY DEF Own, Width, Wants, Makes
<1>7. [i \in 1..Len(bytes) |-> bytes[i][1]] = value
  BY <1>2, <1>3
<1> QED
  BY <1>5, <1>6, <1>7, NothingFits DEF Undone

(* Option. *)
LEMMA UndoOption ==
    ASSUME NEW type, NEW value, Fits(type, value), type.kind = "option"
    PROVE  OwnFits(type, value) /\ Undone(type, value)
<1>1. /\ value.some \in BOOLEAN
      /\ value = IF value.some THEN [some |-> TRUE, of |-> value.of] ELSE [some |-> FALSE]
  BY DEF Fits
<1>2. /\ Own(type, value) = Bytes(Flag(value.some)) /\ Width(type) = 1
      /\ Parts(type, value) = IF value.some THEN <<Object(type.of, value.of)>> ELSE <<>>
      /\ \A own : Wants(type, own) = IF own = Flag(TRUE) THEN <<type.of>> ELSE <<>>
      /\ \A own, got : Makes(type, own, got) =
            IF own = Flag(TRUE) THEN [some |-> TRUE, of |-> got[1]] ELSE [some |-> FALSE]
  BY DEF Own, Width, Parts, SerializeOption, Wants, DeserializeOption, Makes
<1>3. IsSeq(Flag(value.some)) /\ Len(Flag(value.some)) = 1
  BY <1>1, WordsAre
<1>4. OwnFits(type, value) /\ Mine(type, value) = Flag(value.some)
  BY <1>3, <1>2, BytesFit
<1>5. CASE value.some
  <2>1. Flag(value.some) = Flag(TRUE) /\ Parts(type, value) = <<Object(type.of, value.of)>>
    BY <1>1, <1>2, <1>5, WordsAre
  <2>2. /\ IsSeq(Parts(type, value)) /\ TypesOf(Parts(type, value)) = <<type.of>>
        /\ ValuesOf(Parts(type, value))[1] = value.of
    BY <2>1, OnePart
  <2>3. Makes(type, Flag(value.some), ValuesOf(Parts(type, value))) = value
    BY <1>1, <1>2, <1>5, <2>1, <2>2
  <2>4. Wants(type, Flag(value.some)) = TypesOf(Parts(type, value))
    BY <1>2, <2>1, <2>2
  <2> QED
    BY <1>4, <2>2, <2>3, <2>4 DEF Undone
<1>6. CASE ~value.some
  <2>1. Flag(value.some) # Flag(TRUE)
    BY <1>1, <1>6, WordsAre
  <2> QED
    BY <1>1, <1>2, <1>4, <1>6, <2>1, NoParts, EmptyIs DEF Undone
<1> QED
  BY <1>5, <1>6

(* Result. *)
LEMMA UndoResult ==
    ASSUME NEW type, NEW value, Fits(type, value), type.kind = "result"
    PROVE  OwnFits(type, value) /\ Undone(type, value)
<1>1. value.ok \in BOOLEAN /\ value = [ok |-> value.ok, of |-> value.of]
  BY DEF Fits
<1> DEFINE part == IF value.ok THEN type.okType ELSE type.errType
<1>2. /\ Own(type, value) = Bytes(Flag(value.ok)) /\ Width(type) = 1
      /\ Parts(type, value) = <<Object(part, value.of)>>
  BY DEF Own, Width, Parts, SerializeResult
<1>3. /\ \A own : Wants(type, own) = <<IF own = Flag(TRUE) THEN type.okType ELSE type.errType>>
      /\ \A own, got : Makes(type, own, got) = [ok |-> own = Flag(TRUE), of |-> got[1]]
  BY DEF Wants, DeserializeResult, Makes
<1>4. IsSeq(Flag(value.ok)) /\ Len(Flag(value.ok)) = 1
  BY <1>1, WordsAre
<1>5. OwnFits(type, value) /\ Mine(type, value) = Flag(value.ok)
  BY <1>4, <1>2, BytesFit
<1>6. (Flag(value.ok) = Flag(TRUE)) = value.ok
  BY <1>1, WordsAre
<1>7. Wants(type, Flag(value.ok)) = <<part>>
  BY <1>3, <1>6
<1>8. /\ IsSeq(Parts(type, value)) /\ TypesOf(Parts(type, value)) = <<part>>
      /\ ValuesOf(Parts(type, value))[1] = value.of
  BY <1>2, OnePart
<1>9. Makes(type, Flag(value.ok), ValuesOf(Parts(type, value))) = value
  <2>1. Makes(type, Flag(value.ok), ValuesOf(Parts(type, value))) =
            [ok |-> Flag(value.ok) = Flag(TRUE), of |-> ValuesOf(Parts(type, value))[1]]
    BY <1>3, Zenon
  <2>2. Makes(type, Flag(value.ok), ValuesOf(Parts(type, value))) =
            [ok |-> Flag(value.ok) = Flag(TRUE), of |-> value.of]
    BY <2>1, <1>8, Zenon
  <2> QED
    BY <1>1, <1>6, <2>2, Zenon
<1> QED
  BY <1>5, <1>7, <1>8, <1>9 DEF Undone

(* StaticRef and StaticFn. *)
LEMMA UndoStatic ==
    ASSUME NEW type, NEW value, Fits(type, value), type.kind = "static"
    PROVE  OwnFits(type, value) /\ Undone(type, value)
<1>1. value \in Places
  BY DEF Fits
<1>2. /\ Own(type, value) = Bytes(Pointer(value)) /\ Width(type) = 2 /\ Parts(type, value) = <<>>
      /\ \A own, got : Wants(type, own) = <<>> /\ Makes(type, own, got) = ReadPointer(own)
  BY DEF Own, Width, Parts, Wants, Makes
<1>3. IsSeq(Pointer(value)) /\ Len(Pointer(value)) = 2
  BY WordsAre
<1>4. OwnFits(type, value) /\ Mine(type, value) = Pointer(value)
  BY <1>3, <1>2, BytesFit
<1>5. ReadPointer(Pointer(value)) = value
  BY <1>1, PointerBack
<1> QED
  BY <1>2, <1>4, <1>5, NoParts, EmptyIs DEF Undone

(* Boxes: the code that reads what is in the box, and that. *)
LEMMA UndoBox ==
    ASSUME NEW type, NEW value, Fits(type, value), type.kind = "box"
    PROVE  OwnFits(type, value) /\ Undone(type, value)
<1>1. type.heap \in Places
  BY SerdeAssumption DEF Fits
<1>2. /\ Own(type, value) = Bytes(Pointer(type.heap)) /\ Width(type) = 2
      /\ Parts(type, value) = <<Object(OnHeap[type.heap], value)>>
      /\ \A own : Wants(type, own) = <<OnHeap[ReadPointer(own)]>>
      /\ \A own, got : Makes(type, own, got) = got[1]
  BY DEF Own, Width, Parts, SerializeBox, Wants, DeserializeBox, Makes
<1>3. IsSeq(Pointer(type.heap)) /\ Len(Pointer(type.heap)) = 2
  BY WordsAre
<1>4. OwnFits(type, value) /\ Mine(type, value) = Pointer(type.heap)
  BY <1>3, <1>2, BytesFit
<1>5. ReadPointer(Pointer(type.heap)) = type.heap
  BY <1>1, PointerBack
<1> QED
  BY <1>2, <1>4, <1>5, OnePart DEF Undone

(* Boxes of trait objects: the vtable besides. *)
LEMMA UndoDyn ==
    ASSUME NEW type, NEW value, Fits(type, value), type.kind = "dyn"
    PROVE  OwnFits(type, value) /\ Undone(type, value)
<1> DEFINE heap == HeapOf[value.vtable]
           own == Pointer(value.vtable) \o Pointer(heap)
<1>1. value.vtable \in Places /\ heap \in Places /\ value = [vtable |-> value.vtable, of |-> value.of]
  BY SerdeAssumption DEF Fits
<1>2. /\ Own(type, value) = Bytes(own) /\ Width(type) = 4
      /\ Parts(type, value) = <<Object(OnHeap[heap], value.of)>>
      /\ \A mine : Wants(type, mine) = <<OnHeap[ReadPointer(SubSeq(mine, 3, 4))]>>
      /\ \A mine, got : Makes(type, mine, got) = [vtable |-> ReadPointer(mine), of |-> got[1]]
  BY DEF Own, Width, Parts, SerializeBox, Wants, DeserializeBox, Makes, MakeDyn
<1> HIDE DEF heap
<1>3. IsSeq(own) /\ Len(own) = 4 /\ own[1] = Pointer(value.vtable)[1] /\ own[3] = Pointer(heap)[1]
  <2>1. \A place : IsSeq(Pointer(place)) /\ Len(Pointer(place)) = 2
    BY WordsAre
  <2>2. PICK u, v : u = Pointer(value.vtable) /\ v = Pointer(heap)
    OBVIOUS
  <2>3. IsSeq(u) /\ IsSeq(v)
    BY <2>1, <2>2
  <2>4. IsSeq(u \o v) /\ Len(u \o v) = Len(u) + Len(v)
        /\ (\A i \in 1..Len(u) : (u \o v)[i] = u[i])
        /\ \A i \in 1..Len(v) : (u \o v)[Len(u) + i] = v[i]
    BY <2>3, ConcatIs
  <2>5. Len(u) = 2 /\ Len(v) = 2
    BY <2>1, <2>2
  <2>6. Len(u \o v) = 4 /\ (u \o v)[1] = u[1] /\ (u \o v)[3] = v[1]
    BY <2>4, <2>5
  <2> QED
    BY <2>2, <2>4, <2>6
<1> HIDE DEF own
<1>4. SubSeq(own, 3, 4)[1] = own[3]
  BY <1>3, SuffixIs
<1>5. ReadPointer(own) = value.vtable /\ ReadPointer(SubSeq(own, 3, 4)) = heap
  BY <1>1, <1>3, <1>4, PointerBack
<1>6. OwnFits(type, value) /\ Mine(type, value) = own
  BY <1>2, <1>3, BytesFit
<1> QED
  BY <1>1, <1>2, <1>5, <1>6, OnePart DEF Undone

(* Durations. *)
LEMMA UndoDuration ==
    ASSUME NEW type, NEW value, Fits(type, value), type.kind = "duration"
    PROVE  OwnFits(type, value) /\ Undone(type, value)
<1>1. /\ Own(type, value) = Bytes(Usize(value)) /\ Width(type) = 2 /\ Parts(type, value) = <<>>
      /\ \A own, got : Wants(type, own) = <<>> /\ Makes(type, own, got) = own[1]
  BY DEF Own, Width, Parts, Wants, Makes
<1>2. OwnFits(type, value) /\ Mine(type, value) = Usize(value) /\ Usize(value)[1] = value
  BY <1>1, WordsAre, BytesFit
<1> QED
  BY <1>1, <1>2, NoParts, EmptyIs DEF Undone

(* Times, before the epoch and after it. *)
LEMMA UndoSystemTime ==
    ASSUME NEW type, NEW value, Fits(type, value), type.kind = "systemtime"
    PROVE  OwnFits(type, value) /\ Undone(type, value)
<1> DEFINE pair == <<Flag(value < 0), IF value < 0 THEN -value ELSE value>>
<1>1. value \in Int
  BY DEF Fits
<1>2. /\ Own(type, value) = Nothing /\ Width(type) = 0
      /\ Parts(type, value) = <<Object(PairType, pair)>>
      /\ \A own : Wants(type, own) = <<PairType>>
      /\ \A own, got : Makes(type, own, got) = MakeSystemTime(got[1])
  BY DEF Own, Width, Parts, SerializeSystemTime, Wants, Makes
<1>3. /\ value < 0 => Flag(value < 0) = Flag(TRUE)
      /\ ~(value < 0) => Flag(value < 0) # Flag(TRUE)
  <2>1. (value < 0) \in BOOLEAN
    BY <1>1
  <2> QED
    BY <2>1, WordsAre, Zenon
<1>4. MakeSystemTime(pair) = value
  <2>1. pair[1] = Flag(value < 0) /\ pair[2] = IF value < 0 THEN -value ELSE value
    OBVIOUS
  <2>2. CASE value < 0
    BY <1>1, <1>3, <2>1, <2>2 DEF MakeSystemTime
  <2>3. CASE ~(value < 0)
    BY <1>1, <1>3, <2>1, <2>3 DEF MakeSystemTime
  <2> QED
    BY <2>2, <2>3
<1> HIDE DEF pair
<1> QED
  BY <1>2, <1>4, OnePart, NothingFits DEF Undone

(* Whatever the implementation, deserialize_self reads as many bytes of its *)
(* own as serialize_self wrote, asks for the types of the parts that were   *)
(* serialized, and makes the value of theirs.                               *)
THEOREM SelfUndone ==
    ASSUME NEW type, NEW value, Fits(type, value)
    PROVE  OwnFits(type, value) /\ Undone(type, value)
<1>1. type.kind \in {"pod", "resource", "struct", "tuple", "entry", "array", "sequence", "map", "slice",
                     "text", "option", "result", "static", "box", "dyn", "duration", "systemtime"}
  BY DEF Fits
<1> QED
  BY <1>1, UndoPod, UndoResource, UndoStruct, UndoSequence, UndoMap, UndoText, UndoOption, UndoResult,
     UndoStatic, UndoBox, UndoDyn, UndoDuration, UndoSystemTime
-----------------------------------------------------------------------------
(* The serializer *)

(* What an object writes of its own depends on the platform alone. *)
LEMMA SamePlatform ==
    ASSUME UNCHANGED windows
    PROVE  \A type, value : Own(type, value)' = Own(type, value)
<1>1. \A r : TableOf(r)' = TableOf(r)
  BY DEF TableOf
<1> QED
  BY <1>1 DEF Own, Bytes, Push

(* Objects can be read back, and their parts are objects. *)
LEMMA ObjectIs ==
    ASSUME NEW o, IsObject(o)
    PROVE  /\ OwnFits(o.type, o.value) /\ Undone(o.type, o.value)
           /\ Len(Parts(o.type, o.value)) \in Nat
           /\ \A i \in 1..Len(Parts(o.type, o.value)) : IsObject(Parts(o.type, o.value)[i])
<1>1. PICK k \in DOMAIN Objects : Objects[k].type = o.type /\ Objects[k].value = o.value
  BY DEF IsObject
<1>2. /\ Fits(o.type, o.value)
      /\ \A i \in DOMAIN Parts(o.type, o.value) : IsObject(Parts(o.type, o.value)[i])
  BY <1>1, SerdeAssumption
<1>3. OwnFits(o.type, o.value) /\ Undone(o.type, o.value)
  BY <1>2, SelfUndone
<1>4. IsSeq(Parts(o.type, o.value))
  BY <1>3 DEF Undone
<1>5. DOMAIN Parts(o.type, o.value) = 1..Len(Parts(o.type, o.value))
      /\ Len(Parts(o.type, o.value)) \in Nat
  BY <1>4 DEF IsSeq
<1> QED
  BY <1>2, <1>3, <1>5

(* A call of serialize_self appends, and is on top of its callers. *)
LEMMA CalledIs ==
    ASSUME NEW m, NEW callers, NEW o, IsStream(m.s), IsSeq(callers), IsObject(o)
    PROVE  LET next == Called(m, callers, o)
           IN  /\ next.s = Then(m.s, Own(o.type, o.value)) /\ IsStream(next.s) /\ Grows(m.s, next.s)
               /\ next.written = m.written
               /\ IsSeq(next.writing) /\ Len(next.writing) = Len(callers) + 1
               /\ \A i \in 1..Len(callers) : next.writing[i] = callers[i]
               /\ next.writing[Len(callers) + 1] = [type |-> o.type, value |-> o.value, done |-> 0]
<1> DEFINE next == Called(m, callers, o)
           c == [type |-> o.type, value |-> o.value, done |-> 0]
<1>1. next.s = Then(m.s, Own(o.type, o.value)) /\ next.written = m.written
      /\ next.writing = Append(callers, c)
  BY DEF Called, Moment
<1> HIDE DEF next, c
<1>2. IsStream(next.s) /\ Grows(m.s, next.s)
  <2>1. PICK a, b : a = m.s /\ b = Own(o.type, o.value)
    OBVIOUS
  <2>2. IsStream(b)
    BY <2>1, ObjectIs DEF OwnFits
  <2>3. IsStream(Then(a, b)) /\ Grows(a, Then(a, b))
    BY <2>1, <2>2, ThenIs
  <2> QED
    BY <1>1, <2>1, <2>3
<1>3. /\ IsSeq(next.writing) /\ Len(next.writing) = Len(callers) + 1
      /\ \A i \in 1..Len(callers) : next.writing[i] = callers[i]
      /\ next.writing[Len(callers) + 1] = c
  BY <1>1, AppendIs
<1> QED
  BY <1>1, <1>2, <1>3 DEF next, c

(* The object a serializer comes to next is one. *)
LEMMA NextIsObject ==
    ASSUME batch \in Seq(Sent), NEW k \in 1..Len(batch)
    PROVE  IsObject(Objects[batch[k]])
<1>1. batch[k] \in DOMAIN Objects
  BY SerdeAssumption
<1> QED
  BY <1>1 DEF IsObject

(* A new call is a call of an object. *)
LEMMA NewCall ==
    ASSUME NEW o, IsObject(o)
    PROVE  LET c == [type |-> o.type, value |-> o.value, done |-> 0]
           IN  /\ c = [type |-> c.type, value |-> c.value, done |-> c.done] /\ IsObject(c)
               /\ c.done \in 0..Len(Parts(c.type, c.value)) /\ c.type = o.type /\ c.value = o.value
BY ObjectIs DEF IsObject

(* The first call for an object keeps the calls in order. *)
LEMMA KeepNextObject ==
    ASSUME batch \in Seq(Sent), NEW m, CallsInv(m), AtObject(m)
    PROVE  CallsInv(NextObject(m)) /\ Grows(m.s, NextObject(m).s)
<1> DEFINE next == NextObject(m)
           o == Objects[batch[m.written + 1]]
           c == [type |-> o.type, value |-> o.value, done |-> 0]
<1>1. m.written \in Nat /\ m.written < Len(batch) /\ m.written + 1 \in 1..Len(batch) /\ IsStream(m.s)
  BY DEF CallsInv, AtObject
<1>2. IsObject(o)
  BY <1>1, NextIsObject
<1>3. /\ IsStream(next.s) /\ Grows(m.s, next.s) /\ next.written = m.written
      /\ IsSeq(next.writing) /\ Len(next.writing) = 1 /\ next.writing[1] = c
  <2>1. next = Called(m, <<>>, o)
    BY DEF NextObject
  <2> HIDE DEF next, o
  <2>2. PICK callers : callers = <<>>
    OBVIOUS
  <2>3. IsSeq(callers) /\ Len(callers) = 0 /\ Len(callers) + 1 = 1
    BY <2>2, EmptyIs
  <2>4. IsStream(m.s) /\ IsSeq(callers)
    BY <1>1, <2>3
  <2>5. LET first == Called(m, callers, o)
        IN  /\ IsStream(first.s) /\ Grows(m.s, first.s) /\ first.written = m.written
            /\ IsSeq(first.writing) /\ Len(first.writing) = Len(callers) + 1
            /\ first.writing[Len(callers) + 1] = c
    BY <1>2, <2>4, CalledIs
  <2>6. Called(m, callers, o) = next
    BY <2>1, <2>2
  <2> QED
    BY <2>3, <2>5, <2>6
<1> HIDE DEF next
<1>4. /\ c = [type |-> c.type, value |-> c.value, done |-> c.done] /\ IsObject(c)
      /\ c.done \in 0..Len(Parts(c.type, c.value)) /\ c.type = o.type /\ c.value = o.value
  BY <1>2, NewCall
<1> HIDE DEF c, o
<1>5. CallsInv(next)
  <2>1. \A i \in 1..Len(next.writing) : next.writing[i] = c
    BY <1>3
  <2>2. \A i \in 1..(Len(next.writing) - 1) : FALSE
    BY <1>3
  <2> QED
    BY <1>1, <1>3, <1>4, <2>1, <2>2 DEF CallsInv, o
<1> QED
  BY <1>3, <1>5 DEF next

(* What is known of the calls that are active. *)
LEMMA CallsAre ==
    ASSUME NEW m, CallsInv(m), m.writing # <<>>
    PROVE  /\ Len(m.writing) \in Nat \ {0} /\ Len(m.writing) \in 1..Len(m.writing)
           /\ IsObject(Top(m)) /\ Top(m).done \in Nat /\ Len(TopParts(m)) \in Nat
           /\ Top(m).done <= Len(TopParts(m))
<1>1. IsSeq(m.writing)
  BY DEF CallsInv
<1>2. Len(m.writing) \in Nat /\ Len(m.writing) # 0
  BY <1>1, EmptyIs
<1>3. Len(m.writing) \in 1..Len(m.writing)
  BY <1>2
<1>4. IsObject(Top(m)) /\ Top(m).done \in 0..Len(TopParts(m))
  BY <1>3 DEF CallsInv, Top, TopParts
<1>5. Len(TopParts(m)) \in Nat
  BY <1>4, ObjectIs DEF TopParts
<1> QED
  BY <1>2, <1>3, <1>4, <1>5

(* A call that begins its next part. *)
LEMMA BegunIs ==
    ASSUME NEW m, CallsInv(m), AtPart(m)
    PROVE  LET last == Len(m.writing)
               top == Top(m)
               callers == [m.writing EXCEPT ![last].done = @ + 1]
           IN  /\ IsSeq(callers) /\ Len(callers) = last
               /\ callers[last] = [type |-> top.type, value |-> top.value, done |-> top.done + 1]
               /\ \A i \in 1..last : i # last => callers[i] = m.writing[i]
<1> DEFINE last == Len(m.writing)
           top == Top(m)
           begun == [type |-> top.type, value |-> top.value, done |-> top.done + 1]
           callers == [m.writing EXCEPT ![last].done = @ + 1]
<1>1. last \in 1..last
  BY CallsAre DEF AtPart
<1>2. IsSeq(m.writing) /\ top = [type |-> top.type, value |-> top.value, done |-> top.done]
  BY <1>1 DEF CallsInv, Top
<1>3. callers = [m.writing EXCEPT ![last] = [top EXCEPT !.done = top.done + 1]]
  BY DEF Top
<1>4. [top EXCEPT !.done = top.done + 1] = begun
  BY <1>2
<1>5. callers = [m.writing EXCEPT ![last] = begun]
  BY <1>3, <1>4
<1> HIDE DEF callers, begun, top
<1>6. PICK v : v = m.writing
  OBVIOUS
<1>7. IsSeq(v) /\ last \in 1..Len(v)
  BY <1>1, <1>2, <1>6
<1> HIDE DEF last
<1>8. LET w == [v EXCEPT ![last] = begun]
      IN  /\ IsSeq(w) /\ Len(w) = Len(v) /\ w[last] = begun
          /\ \A i \in 1..Len(v) : i # last => w[i] = v[i]
  BY <1>7, ExceptIs
<1>9. Len(v) = last /\ callers = [v EXCEPT ![last] = begun]
  <2>1. Len(v) = last
    BY <1>6 DEF last
  <2> QED
    BY <1>5, <1>6, <2>1
<1>10. /\ IsSeq(callers) /\ Len(callers) = last /\ callers[last] = begun
      /\ \A i \in 1..last : i # last => callers[i] = m.writing[i]
  BY <1>6, <1>8, <1>9
<1> QED
  BY <1>10 DEF callers, begun, top, last

(* The call for the next part keeps the calls in order. *)
LEMMA KeepNextPart ==
    ASSUME NEW m, CallsInv(m), AtPart(m)
    PROVE  /\ CallsInv(NextPart(m)) /\ Grows(m.s, NextPart(m).s)
<1> DEFINE next == NextPart(m)
           last == Len(m.writing)
           top == Top(m)
           begun == [type |-> top.type, value |-> top.value, done |-> top.done + 1]
           callers == [m.writing EXCEPT ![last].done = @ + 1]
           part == TopParts(m)[top.done + 1]
           c == [type |-> part.type, value |-> part.value, done |-> 0]
<1>1. /\ last \in Nat \ {0} /\ last \in 1..last /\ IsObject(top)
      /\ top.done \in Nat /\ Len(TopParts(m)) \in Nat /\ top.done < Len(TopParts(m))
  BY CallsAre DEF AtPart
<1>2. /\ IsStream(m.s) /\ IsSeq(m.writing) /\ m.written \in 0..Len(batch)
      /\ \A i \in 1..last :
            LET k == m.writing[i]
            IN  /\ k = [type |-> k.type, value |-> k.value, done |-> k.done]
                /\ IsObject(k) /\ k.done \in 0..Len(Parts(k.type, k.value))
      /\ LET o == Objects[batch[m.written + 1]]
         IN  m.written < Len(batch) /\ m.writing[1].type = o.type /\ m.writing[1].value = o.value
      /\ \A i \in 1..(last - 1) :
            LET k == m.writing[i]
                p == Parts(k.type, k.value)[k.done]
            IN  k.done > 0 /\ m.writing[i + 1].type = p.type /\ m.writing[i + 1].value = p.value
  BY DEF CallsInv, AtPart
<1>3. top = [type |-> top.type, value |-> top.value, done |-> top.done] /\ top = m.writing[last]
  BY <1>1, <1>2 DEF Top
<1>4. IsObject(part)
  BY <1>1, ObjectIs DEF TopParts
<1>5. /\ IsSeq(callers) /\ Len(callers) = last /\ callers[last] = begun
      /\ \A i \in 1..last : i # last => callers[i] = m.writing[i]
  BY BegunIs
<1>6. /\ IsStream(next.s) /\ Grows(m.s, next.s) /\ next.written = m.written
      /\ IsSeq(next.writing) /\ Len(next.writing) = last + 1
      /\ \A i \in 1..last : next.writing[i] = callers[i]
      /\ next.writing[last + 1] = c
  <2>1. next = Called(m, callers, part)
    BY DEF NextPart
  <2> HIDE DEF next, callers, part, top, last
  <2>2. LET first == Called(m, callers, part)
        IN  /\ IsStream(first.s) /\ Grows(m.s, first.s) /\ first.written = m.written
            /\ IsSeq(first.writing) /\ Len(first.writing) = Len(callers) + 1
            /\ \A i \in 1..Len(callers) : first.writing[i] = callers[i]
            /\ first.writing[Len(callers) + 1] = c
    BY <1>2, <1>4, <1>5, CalledIs
  <2> QED
    BY <1>5, <2>1, <2>2
<1> HIDE DEF next, callers
<1>7. \A i \in 1..last :
         /\ next.writing[i].type = m.writing[i].type /\ next.writing[i].value = m.writing[i].value
         /\ i # last => next.writing[i] = m.writing[i]
  BY <1>3, <1>5, <1>6
<1>8. next.writing[last] = begun
  BY <1>1, <1>5, <1>6
<1>9. ASSUME NEW i \in 1..(last + 1)
      PROVE  LET k == next.writing[i]
             IN  /\ k = [type |-> k.type, value |-> k.value, done |-> k.done]
                 /\ IsObject(k) /\ k.done \in 0..Len(Parts(k.type, k.value))
  <2>1. CASE i = last + 1
    BY <1>4, <1>6, <2>1, NewCall
  <2>2. CASE i = last
    <3>1. begun = [type |-> begun.type, value |-> begun.value, done |-> begun.done]
      OBVIOUS
    <3>2. IsObject(begun)
      BY <1>1 DEF IsObject
    <3>3. begun.done \in 0..Len(Parts(begun.type, begun.value))
      BY <1>1 DEF TopParts
    <3> QED
      BY <1>8, <2>2, <3>1, <3>2, <3>3
  <2>3. CASE i \in 1..(last - 1)
    <3>1. i \in 1..last /\ i # last
      BY <1>1, <2>3
    <3>2. next.writing[i] = m.writing[i]
      BY <1>7, <3>1
    <3> QED
      BY <1>2, <3>1, <3>2
  <2> QED
    BY <1>1, <2>1, <2>2, <2>3
<1>10. LET o == Objects[batch[m.written + 1]]
       IN  next.writing[1].type = o.type /\ next.writing[1].value = o.value
  BY <1>1, <1>2, <1>7
<1>11. ASSUME NEW i \in 1..last
       PROVE  LET k == next.writing[i]
                  p == Parts(k.type, k.value)[k.done]
              IN  k.done > 0 /\ next.writing[i + 1].type = p.type /\ next.writing[i + 1].value = p.value
  <2>1. CASE i = last
    <3>1. part = Parts(begun.type, begun.value)[begun.done] /\ begun.done > 0
      BY <1>1 DEF TopParts
    <3> QED
      BY <1>6, <1>8, <2>1, <3>1
  <2>2. CASE i # last
    <3>1. i \in 1..(last - 1) /\ i + 1 \in 1..last
      BY <1>1, <2>2
    <3> QED
      BY <1>2, <1>7, <2>2, <3>1
  <2> QED
    BY <2>1, <2>2
<1>12. CallsInv(next)
  <2>1. Len(next.writing) = last + 1 /\ Len(next.writing) - 1 = last /\ next.written = m.written
    BY <1>1, <1>6
  <2> HIDE DEF last, begun, c
  <2> QED
    BY <1>2, <1>6, <1>9, <1>10, <1>11, <2>1 DEF CallsInv
<1> QED
  BY <1>6, <1>12 DEF next

(* When serialize_self returns, its callers are left. *)
LEMMA ReturnedIs ==
    ASSUME NEW m, CallsInv(m), AtReturn(m)
    PROVE  LET next == Returned(m)
               last == Len(m.writing)
           IN  /\ last \in Nat \ {0} /\ IsSeq(next.writing) /\ Len(next.writing) = last - 1
               /\ \A i \in 1..(last - 1) : next.writing[i] = m.writing[i]
               /\ next.s = m.s
               /\ next.written = IF last = 1 THEN m.written + 1 ELSE m.written
<1> DEFINE next == Returned(m)
           last == Len(m.writing)
<1>1. last \in Nat \ {0} /\ last - 1 \in 0..last /\ m.writing # <<>> /\ IsSeq(m.writing)
  BY CallsAre DEF AtReturn, CallsInv
<1>2. /\ next.s = m.s /\ next.writing = SubSeq(m.writing, 1, last - 1)
      /\ next.written = IF last = 1 THEN m.written + 1 ELSE m.written
  BY DEF Returned, Moment
<1> HIDE DEF next
<1>3. PICK v : v = m.writing
  OBVIOUS
<1>4. IsSeq(v) /\ last - 1 \in 0..Len(v)
  BY <1>1, <1>3
<1> HIDE DEF last
<1>5. /\ IsSeq(SubSeq(v, 1, last - 1)) /\ Len(SubSeq(v, 1, last - 1)) = last - 1
      /\ \A i \in 1..(last - 1) : SubSeq(v, 1, last - 1)[i] = v[i]
  BY <1>4, PrefixIs
<1>6. /\ IsSeq(next.writing) /\ Len(next.writing) = last - 1
      /\ \A i \in 1..(last - 1) : next.writing[i] = m.writing[i]
  BY <1>2, <1>3, <1>5
<1> QED
  BY <1>1, <1>2, <1>6 DEF next, last

(* The calls stay in order. *)
LEMMA KeepReturned ==
    ASSUME batch \in Seq(Sent), NEW m, CallsInv(m), AtReturn(m)
    PROVE  /\ CallsInv(Returned(m)) /\ Grows(m.s, Returned(m).s)
<1> DEFINE next == Returned(m)
           last == Len(m.writing)
<1>1. last - 1 \in 0..last /\ last \in Nat \ {0} /\ last - 1 \in Nat
  BY CallsAre DEF AtReturn
<1>2. /\ IsStream(m.s) /\ IsSeq(m.writing) /\ m.written \in 0..Len(batch) /\ m.written < Len(batch)
      /\ m.writing # <<>>
  BY DEF CallsInv, AtReturn
<1>3. /\ next.s = m.s /\ next.written = IF last = 1 THEN m.written + 1 ELSE m.written
  BY ReturnedIs
<1>4. /\ IsSeq(next.writing) /\ Len(next.writing) = last - 1
      /\ \A i \in 1..(last - 1) : next.writing[i] = m.writing[i]
  BY ReturnedIs
<1> HIDE DEF next
<1>5. Grows(m.s, next.s)
  BY <1>2, <1>3, GrowsSelf
<1>6. \A i \in 1..(last - 1) : i \in 1..last /\ (i \in 1..(last - 2) => i \in 1..(last - 1) /\ i + 1 \in 1..(last - 1))
  BY <1>1
<1>7. next.written \in 0..Len(batch) /\ (last # 1 => next.written = m.written)
  <2>1. Len(batch) \in Nat
    OBVIOUS
  <2> QED
    BY <1>2, <1>3, <2>1
<1>8. next.writing # <<>> => last # 1 /\ 1 \in 1..(last - 1)
  <2>1. next.writing # <<>> => Len(next.writing) # 0
    BY <1>4, EmptyIs
  <2> QED
    BY <1>1, <1>4, <2>1
<1>9. CallsInv(next)
  <2>1. IsStream(next.s)
    BY <1>2, <1>3
  <2>2. \A i \in 1..Len(next.writing) :
           LET c == next.writing[i]
           IN  /\ c = [type |-> c.type, value |-> c.value, done |-> c.done]
               /\ IsObject(c) /\ c.done \in 0..Len(Parts(c.type, c.value))
    BY <1>4, <1>6 DEF CallsInv
  <2>3. next.writing # <<>> =>
           LET o == Objects[batch[next.written + 1]]
           IN  next.written < Len(batch) /\ next.writing[1].type = o.type /\ next.writing[1].value = o.value
    BY <1>2, <1>4, <1>7, <1>8 DEF CallsInv
  <2>4. \A i \in 1..(Len(next.writing) - 1) :
          LET c == next.writing[i]
              part == Parts(c.type, c.value)[c.done]
          IN  c.done > 0 /\ next.writing[i + 1].type = part.type /\ next.writing[i + 1].value = part.value
    <3>1. Len(next.writing) - 1 = last - 2
      BY <1>1, <1>4
    <3>2. ASSUME NEW i \in 1..(last - 2)
          PROVE  LET c == next.writing[i]
                     part == Parts(c.type, c.value)[c.done]
                 IN  c.done > 0 /\ next.writing[i + 1].type = part.type /\ next.writing[i + 1].value = part.value
      <4>1. i \in 1..(last - 1) /\ i + 1 \in 1..(last - 1)
        BY <1>1
      <4>2. next.writing[i] = m.writing[i] /\ next.writing[i + 1] = m.writing[i + 1]
        BY <1>4, <4>1
      <4> QED
        BY <4>1, <4>2 DEF CallsInv
    <3> QED
      BY <3>1, <3>2
  <2> QED
    BY <1>4, <1>7, <2>1, <2>2, <2>3, <2>4 DEF CallsInv
<1> QED
  BY <1>5, <1>9 DEF next

(* Whatever comes after a moment, the calls stay in order and what was *)
(* written stays.                                                      *)
LEMMA KeepFollows ==
    ASSUME batch \in Seq(Sent), NEW m, NEW next, CallsInv(m), Follows(m, next)
    PROVE  CallsInv(next) /\ Grows(m.s, next.s)
BY KeepNextObject, KeepNextPart, KeepReturned DEF Follows

(* What the history of the serializer says depends on the platform, and on *)
(* what is sent, alone.                                                    *)
LEMMA SameHistory ==
    ASSUME UNCHANGED <<windows, batch>>
    PROVE  /\ \A m : CallsInv(m)' <=> CallsInv(m)
           /\ \A m, next : Follows(m, next)' <=> Follows(m, next)
<1>1. \A m : CallsInv(m)' <=> CallsInv(m)
  BY DEF CallsInv, IsStream, IsObject
<1>2. \A m, callers, o : Called(m, callers, o)' = Called(m, callers, o)
  BY SamePlatform DEF Called, Moment, Then
<1>3. \A m : NextObject(m)' = NextObject(m) /\ NextPart(m)' = NextPart(m)
  BY <1>2 DEF NextObject, NextPart, Top, TopParts
<1>4. \A m : AtObject(m)' <=> AtObject(m)
  BY DEF AtObject
<1> QED
  BY <1>1, <1>3, <1>4 DEF Follows, AtPart, AtReturn, Top, TopParts, Returned, Moment

(* A moment is made of its parts. *)
LEMMA MomentIs ==
    ASSUME NEW m, NEW next, Follows(m, next)
    PROVE  next = Moment(next.s, next.writing, next.written)
BY DEF Follows, NextObject, NextPart, Called, Returned, Moment

(* A step of the serializer adds to its history. *)
LEMMA KeepTrace ==
    ASSUME batch \in Seq(Sent), TraceInv, NEW m, Follows(Now, m), Becomes(m)
    PROVE  TraceInv'
<1> DEFINE last == Len(trace)
<1>1. /\ UNCHANGED <<windows, batch>> /\ trace' = Append(trace, m)
      /\ stage = "serializing" /\ stage' = "serializing"
      /\ s' = m.s /\ writing' = m.writing /\ written' = m.written
  BY DEF Becomes
<1>2. /\ IsSeq(trace) /\ last > 0 /\ trace[1] = Moment(Nothing, <<>>, 0) /\ last \in Nat
      /\ \A k \in 1..last : CallsInv(trace[k]) /\ Grows(trace[k].s, Final.s)
      /\ \A k \in 1..(last - 1) : Follows(trace[k], trace[k + 1])
      /\ trace[last] = Now /\ Final = trace[last]
  BY <1>1, EmptyIs DEF TraceInv, Final
<1>3. /\ IsSeq(trace') /\ Len(trace') = last + 1 /\ trace'[last + 1] = m
      /\ \A k \in 1..last : trace'[k] = trace[k]
  <2>1. PICK v : v = trace
    OBVIOUS
  <2>2. IsSeq(v)
    BY <1>2, <2>1
  <2>3. /\ IsSeq(Append(v, m)) /\ Len(Append(v, m)) = Len(v) + 1 /\ Append(v, m)[Len(v) + 1] = m
        /\ \A k \in 1..Len(v) : Append(v, m)[k] = v[k]
    BY <2>2, AppendIs
  <2>4. IsSeq(trace') /\ Len(trace') = last + 1 /\ trace'[last + 1] = m
        /\ \A k \in 1..last : trace'[k] = trace[k]
    BY <1>1, <2>1, <2>3
  <2> QED
    BY <2>4 DEF IsSeq
<1>4. 1 \in 1..last /\ last \in 1..last /\ last + 1 > 0 /\ last + 1 \in Nat
  BY <1>2
<1>5. CallsInv(m) /\ Grows(trace[last].s, m.s) /\ CallsInv(trace[last])
  <2>1. CallsInv(Now) /\ CallsInv(trace[last])
    BY <1>2, <1>4
  <2>2. CallsInv(m) /\ Grows(Now.s, m.s)
    BY <2>1, KeepFollows
  <2> QED
    BY <1>2, <2>1, <2>2
<1>6. ASSUME NEW k \in 1..(last + 1)
      PROVE  CallsInv(trace'[k]) /\ Grows(trace'[k].s, m.s)
  <2>1. CASE k = last + 1
    <3>1. IsStream(m.s)
      BY <1>5 DEF CallsInv
    <3> QED
      BY <1>3, <1>5, <2>1, <3>1, GrowsSelf
  <2>2. CASE k # last + 1
    <3>1. k \in 1..last
      BY <1>2, <2>2
    <3>2. CallsInv(trace[k]) /\ Grows(trace[k].s, trace[last].s) /\ trace'[k] = trace[k]
      BY <1>2, <1>3, <3>1
    <3>3. IsStream(trace[k].s) /\ IsStream(trace[last].s) /\ IsStream(m.s)
      BY <1>5, <3>2 DEF CallsInv
    <3>4. Grows(trace[k].s, m.s)
      BY <1>5, <3>2, <3>3, GrowsOn
    <3> QED
      BY <3>2, <3>4
  <2> QED
    BY <2>1, <2>2
<1>7. ASSUME NEW k \in 1..last
      PROVE  Follows(trace'[k], trace'[k + 1])
  <2>1. CASE k = last
    BY <1>2, <1>3, <1>4, <2>1
  <2>2. CASE k # last
    <3>1. k \in 1..(last - 1) /\ k + 1 \in 1..last
      BY <1>2, <2>2
    <3> QED
      BY <1>2, <1>3, <3>1
  <2> QED
    BY <2>1, <2>2
<1>8. Final' = m /\ Now' = m
  BY <1>1, <1>3, MomentIs DEF Final, Now, Moment
<1>9. (IsSeq(trace))' /\ Len(trace') = last + 1 /\ Len(trace') > 0 /\ Len(trace') - 1 = last
  BY <1>2, <1>3 DEF IsSeq
<1>10. (trace[1] = Moment(Nothing, <<>>, 0))'
  BY <1>2, <1>3, <1>4 DEF Moment, Nothing
<1>11. (\A k \in 1..Len(trace) : CallsInv(trace[k]) /\ Grows(trace[k].s, Final.s))'
  <2>1. \A k \in 1..(last + 1) : CallsInv(trace[k])'
    BY <1>1, <1>6, SameHistory
  <2>2. \A a, b : Grows(a, b)' <=> Grows(a, b)
    BY DEF Grows
  <2>3. \A k \in 1..(last + 1) : Grows(trace[k].s, Final.s)'
    BY <1>6, <1>8, <2>2
  <2> QED
    BY <1>9, <2>1, <2>3
<1>12. (\A k \in 1..(Len(trace) - 1) : Follows(trace[k], trace[k + 1]))'
  BY <1>1, <1>7, <1>9, SameHistory
<1> QED
  BY <1>1, <1>8, <1>9, <1>10, <1>11, <1>12 DEF TraceInv

(* The history of the serializer is kept when it has been sent. *)
LEMMA SameTrace ==
    ASSUME TraceInv, UNCHANGED <<windows, batch, trace>>, Final.writing = <<>>,
           Final.written = Len(batch), stage' # "serializing"
    PROVE  TraceInv'
<1>1. Final' = Final
  BY DEF Final
<1>2. \A k : CallsInv(trace[k])' <=> CallsInv(trace[k])
  BY SameHistory
<1>3. \A k : Follows(trace[k], trace[k + 1])' <=> Follows(trace[k], trace[k + 1])
  BY SameHistory
<1>4. \A k : Grows(trace[k].s, Final.s)' <=> Grows(trace[k].s, Final.s)
  BY <1>1 DEF Grows
<1> QED
  BY <1>1, <1>2, <1>3, <1>4 DEF TraceInv, IsSeq, Moment, Nothing
-----------------------------------------------------------------------------
(* The transport *)

(* The size of an initial segment. *)
LEMMA UpTo ==
    ASSUME NEW k \in Nat
    PROVE  IsFiniteSet(1..k) /\ Cardinality(1..k) = k
<1>1. IsFiniteSet(1..k) /\ Cardinality(1..k) = IF 1 > k THEN 0 ELSE k - 1 + 1
  BY FS_Interval
<1>2. (IF 1 > k THEN 0 ELSE k - 1 + 1) = k
  OBVIOUS
<1> QED
  BY <1>1, <1>2

(* If no descriptor is missing, they arrive as they were sent. *)
LEMMA NoneMissing ==
    ASSUME NEW q, IsSeq(q)
    PROVE  Without(q, {}) = q
<1> DEFINE left == DOMAIN q \ {}
           Nth(i) == CHOOSE k \in left : Cardinality({j \in left : j <= k}) = i
<1>1. Len(q) \in Nat /\ q = [i \in 1..Len(q) |-> q[i]]
  BY DEF IsSeq
<1>2. left = 1..Len(q) /\ Cardinality(left) = Len(q)
  <2>1. left = 1..Len(q)
    BY <1>1
  <2>2. Cardinality(1..Len(q)) = Len(q)
    BY <1>1, UpTo
  <2> QED
    BY <2>1, <2>2
<1> HIDE DEF left
<1>3. ASSUME NEW k \in 1..Len(q)
      PROVE  Cardinality({j \in left : j <= k}) = k
  <2>1. {j \in left : j <= k} = 1..k
    BY <1>1, <1>2
  <2>2. Cardinality(1..k) = k
    BY <1>1, UpTo
  <2> QED
    BY <2>1, <2>2
<1>4. ASSUME NEW i \in 1..Len(q)
      PROVE  Nth(i) = i
  BY <1>2, <1>3
<1>5. [i \in 1..Len(q) |-> q[Nth(i)]] = q
  <2> HIDE DEF Nth
  <2> QED
    BY <1>1, <1>4
<1>6. Without(q, {}) = [i \in 1..Cardinality(left) |-> q[Nth(i)]]
  BY DEF Without, left
<1> HIDE DEF Nth
<1> QED
  BY <1>2, <1>5, <1>6

(* If one is missing, fewer arrive. *)
LEMMA SomeMissing ==
    ASSUME NEW q, IsSeq(q), NEW missing \in SUBSET DOMAIN q, missing # {}
    PROVE  IsSeq(Without(q, missing)) /\ Len(Without(q, missing)) < Len(q)
<1> DEFINE left == DOMAIN q \ missing
<1>1. Len(q) \in Nat /\ DOMAIN q = 1..Len(q)
  BY DEF IsSeq
<1>2. IsFiniteSet(DOMAIN q) /\ Cardinality(DOMAIN q) = Len(q)
  <2>1. IsFiniteSet(1..Len(q)) /\ Cardinality(1..Len(q)) = Len(q)
    BY <1>1, UpTo
  <2> QED
    BY <1>1, <2>1
<1>3. left \subseteq DOMAIN q /\ left # DOMAIN q
  OBVIOUS
<1>4. IsFiniteSet(left) /\ Cardinality(left) \in Nat /\ Cardinality(left) < Len(q)
  <2> HIDE DEF left
  <2>1. IsFiniteSet(left) /\ Cardinality(left) <= Cardinality(DOMAIN q)
        /\ (Cardinality(left) = Cardinality(DOMAIN q) => left = DOMAIN q)
    BY <1>2, <1>3, FS_Subset
  <2>2. Cardinality(left) \in Nat
    BY <2>1, FS_CardinalityType
  <2> QED
    BY <1>1, <1>2, <1>3, <2>1, <2>2
<1>5. PICK f : Without(q, missing) = f /\ f = [i \in 1..Cardinality(left) |-> f[i]]
  <2> DEFINE Nth(i) == CHOOSE k \in left : Cardinality({j \in left : j <= k}) = i
             f == [i \in 1..Cardinality(left) |-> q[Nth(i)]]
  <2>1. Without(q, missing) = f
    BY DEF Without
  <2> HIDE DEF Nth, left
  <2>2. f = [i \in 1..Cardinality(left) |-> f[i]]
    OBVIOUS
  <2> QED
    BY <2>1, <2>2
<1> HIDE DEF left
<1>6. IsSeq(f) /\ Len(f) = Cardinality(left)
  BY <1>4, <1>5, FunctionIs
<1> QED
  BY <1>4, <1>5, <1>6
-----------------------------------------------------------------------------
(* The invariant, until the objects are sent *)

(* The serializer at the start. *)
LEMMA StartIs ==
    LET m == Moment(Nothing, <<>>, 0)
    IN  m.s = Nothing /\ m.writing = <<>> /\ m.written = 0
BY DEF Moment

(* The invariant holds at the start. *)
LEMMA SerdeInitInv == SerdeInit => SerdeIInv
<1> SUFFICES ASSUME SerdeInit PROVE SerdeIInv
  OBVIOUS
<1>1. PICK k \in 1..MaxObjects : batch \in [1..k -> Sent]
  BY DEF SerdeInit
<1>2. batch \in Seq(Sent) /\ Len(batch) \in Nat
  BY <1>1, SerdeAssumption
<1>3. PICK m : m = Now
  OBVIOUS
<1>4. m = Moment(Nothing, <<>>, 0) /\ m.s = Nothing /\ m.writing = <<>> /\ m.written = 0 /\ trace = <<m>>
  BY <1>3, StartIs DEF SerdeInit, Now
<1>5. CallsInv(m)
  <2>1. IsStream(m.s) /\ IsSeq(m.writing) /\ m.written \in 0..Len(batch) /\ Len(m.writing) = 0
    BY <1>2, <1>4, OwnStreams, EmptyIs
  <2>2. (\A i \in 1..Len(m.writing) : FALSE) /\ (\A i \in 1..(Len(m.writing) - 1) : FALSE)
    BY <2>1
  <2> QED
    BY <1>4, <2>1, <2>2 DEF CallsInv
<1>6. IsSeq(trace) /\ Len(trace) = 1 /\ trace[1] = m
  <2>1. <<m>> \in Seq({m}) /\ Len(<<m>>) = 1 /\ <<m>>[1] = m
    OBVIOUS
  <2> QED
    BY <1>4, <2>1, SeqIs
<1>7. Final = m
  BY <1>6 DEF Final
<1>8. TraceInv
  <2>1. Grows(m.s, m.s)
    BY <1>5, GrowsSelf DEF CallsInv
  <2>2. (\A k1 \in 1..Len(trace) : k1 = 1) /\ (\A k1 \in 1..(Len(trace) - 1) : FALSE) /\ Len(trace) > 0
    BY <1>6
  <2>3. stage = "serializing"
    BY DEF SerdeInit
  <2> QED
    BY <1>3, <1>4, <1>5, <1>6, <1>7, <2>1, <2>2, <2>3 DEF TraceInv
<1> QED
  <2>1. /\ windows \in BOOLEAN /\ lost = FALSE /\ out = <<>> /\ reading = <<>> /\ pos = 1
        /\ stage = "serializing"
    BY DEF SerdeInit
  <2>2. IsSeq(out) /\ pos \in 1..Len(trace)
    BY <1>6, <2>1, EmptyIs
  <2> QED
    BY <1>2, <1>8, <2>1, <2>2 DEF SerdeIInv

(* A step of the serializer keeps the invariant. *)
LEMMA KeepSerializing ==
    ASSUME SerdeIInv, NEW m, Follows(Now, m), Becomes(m)
    PROVE  SerdeIInv'
<1>1. /\ stage = "serializing" /\ stage' = "serializing" /\ trace' = Append(trace, m)
      /\ UNCHANGED <<windows, batch, out, reading, lost, pos>>
  BY DEF Becomes
<1>2. batch \in Seq(Sent) /\ TraceInv /\ ~lost /\ out = <<>> /\ reading = <<>> /\ pos = 1
  BY <1>1 DEF SerdeIInv
<1>3. TraceInv'
  BY <1>2, KeepTrace
<1>4. IsSeq(trace') /\ Len(trace') > 0
  BY <1>3 DEF TraceInv, IsSeq
<1>5. pos' \in 1..Len(trace')
  BY <1>1, <1>2, <1>4, EmptyIs
<1>6. IsSeq(out')
  BY <1>1, <1>2, EmptyIs
<1> QED
  BY <1>1, <1>2, <1>3, <1>5, <1>6 DEF SerdeIInv, IsSeq

(* The deserializer starts with what was written. *)
LEMMA KeepTransmit ==
    ASSUME SerdeIInv, Transmit
    PROVE  SerdeIInv'
<1>1. /\ stage = "serializing" /\ stage' = "deserializing" /\ writing = <<>> /\ written = Len(batch)
      /\ UNCHANGED <<windows, batch, written, reading, out, trace, pos>>
  BY DEF Transmit, history
<1>2. batch \in Seq(Sent) /\ TraceInv /\ ~lost /\ out = <<>> /\ reading = <<>> /\ pos = 1
      /\ pos \in 1..Len(trace) /\ Final = Now
  BY <1>1 DEF SerdeIInv, TraceInv
<1>3. Final.s = s /\ Final.writing = <<>> /\ Final.written = Len(batch)
  BY <1>1, <1>2 DEF Now, Moment
<1>4. TraceInv'
  BY <1>1, <1>2, <1>3, SameTrace
<1>5. IsStream(s)
  <2>1. Len(trace) \in 1..Len(trace)
    BY <1>2, EmptyIs DEF TraceInv
  <2>2. CallsInv(Final)
    BY <1>2, <2>1 DEF TraceInv, Final
  <2> QED
    BY <1>3, <2>2 DEF CallsInv
<1>6. PICK missing \in SUBSET DOMAIN s["fds"] :
        /\ d' = [s EXCEPT !["fds"] = Without(@, missing)]
        /\ lost' = (missing # {})
  BY DEF Transmit
<1>7. s = [lane \in Lanes |-> s[lane]] /\ \A lane \in Lanes : IsSeq(s[lane])
  BY <1>5 DEF IsStream
<1>8. /\ d' = [lane \in Lanes |-> d'[lane]] /\ d'["fds"] = Without(s["fds"], missing)
      /\ \A lane \in Lanes : lane # "fds" => d'[lane] = s[lane]
  BY <1>6, <1>7 DEF Lanes
<1>9. /\ IsSeq(Without(s["fds"], missing))
      /\ missing = {} => Without(s["fds"], missing) = s["fds"]
      /\ missing # {} => Len(Without(s["fds"], missing)) < Len(s["fds"])
  <2>1. "fds" \in Lanes
    BY DEF Lanes
  <2>2. PICK q : q = s["fds"]
    OBVIOUS
  <2>3. IsSeq(q) /\ missing \in SUBSET DOMAIN q
    BY <1>7, <2>1, <2>2
  <2>4. CASE missing = {}
    BY <2>2, <2>3, <2>4, NoneMissing
  <2>5. CASE missing # {}
    BY <2>2, <2>3, <2>5, SomeMissing
  <2> QED
    BY <2>4, <2>5
<1>10. IsStream(d)'
  <2>1. \A lane \in Lanes : IsSeq(d'[lane])
    BY <1>7, <1>8, <1>9
  <2> QED
    BY <1>8, <2>1 DEF IsStream, IsSeq
<1>11. trace[pos] = Moment(Nothing, <<>>, 0) /\ trace'[pos'] = trace[pos] /\ Final' = Final
  BY <1>1, <1>2 DEF TraceInv, Final
<1> DEFINE m == trace[pos]
<1>12. m.s = Nothing /\ m.writing = <<>> /\ m.written = 0 /\ \A lane \in Lanes : m.s[lane] = <<>>
  BY <1>11, StartIs DEF Nothing
<1>13. ReadInv'
  <2>1. /\ Len(reading') = 0 /\ IsSeq(reading') /\ Len(out') = 0 /\ Len(m.writing) = 0
        /\ \A lane \in Lanes : Len(m.s[lane]) = 0
    BY <1>1, <1>2, <1>12, EmptyIs
  <2>2. ASSUME NEW lane \in Lanes, ~lost' \/ lane # "fds"
        PROVE  Rest(d[lane], trace[pos].s[lane], Final.s[lane])'
    <3>1. d'[lane] = s[lane]
      BY <1>6, <1>8, <1>9, <2>2
    <3>2. PICK u, v : u = s[lane] /\ v = m.s[lane]
      OBVIOUS
    <3>3. Len(u) \in Nat /\ Len(v) = 0
      BY <1>7, <2>1, <3>2, EmptyIs
    <3>4. Rest(u, v, u)
      BY <3>3 DEF Rest
    <3> QED
      BY <1>3, <1>11, <3>1, <3>2, <3>4 DEF Rest
  <2>3. lost' => Len(m.s["fds"]) + Len(d'["fds"]) < Len(Final.s["fds"])
    <3>1. "fds" \in Lanes
      BY DEF Lanes
    <3>2. Len(m.s["fds"]) = 0 /\ IsSeq(d'["fds"])
      BY <2>1, <3>1, <1>8, <1>9
    <3>3. PICK k : k = Len(d'["fds"])
      OBVIOUS
    <3>4. k \in Nat /\ 0 + k = k
      BY <3>2, <3>3, EmptyIs
    <3>5. lost' => k < Len(s["fds"])
      BY <1>6, <1>8, <1>9, <3>3
    <3> QED
      BY <1>3, <3>2, <3>3, <3>4, <3>5
  <2>4. \A i \in 1..Len(reading') : FALSE
    BY <2>1
  <2>5. \A i \in 1..Len(out') : FALSE
    BY <2>1
  <2> QED
    BY <1>10, <1>11, <1>12, <2>1, <2>2, <2>3, <2>4, <2>5 DEF ReadInv, IsSeq
<1>14. lost' \in BOOLEAN
  BY <1>6
<1> QED
  BY <1>1, <1>2, <1>4, <1>13, <1>14, EmptyIs DEF SerdeIInv, IsSeq
-----------------------------------------------------------------------------
(* What a call of deserialize_self reads *)

(* The reader finds own first, and then what is behind after. *)
Finds(rest, own, after, all) ==
    /\ Len(own) \in 0..Len(rest)
    /\ \A i \in 1..Len(own) : rest[i] = own[i]
    /\ \A left : IsSeq(left) /\ Len(left) = Len(rest) - Len(own)
              /\ (\A i \in 1..Len(left) : left[i] = rest[Len(own) + i])
              => Rest(left, after, all)

(* own was written behind before; who has read before finds it. *)
LEMMA ReadsOwn ==
    ASSUME NEW rest, NEW before, NEW own, NEW after, NEW all,
           IsSeq(rest), IsSeq(before), IsSeq(own), IsSeq(all),
           Rest(rest, before, all), Behind(before, own, after), Begins(after, all)
    PROVE  Finds(rest, own, after, all)
<1>1. /\ Len(rest) \in Nat /\ Len(before) \in Nat /\ Len(own) \in Nat /\ Len(after) \in Nat
      /\ Len(all) \in Nat /\ Len(before) + Len(rest) = Len(all)
      /\ Len(after) = Len(before) + Len(own) /\ Len(after) <= Len(all)
  BY EmptyIs DEF Rest, Behind, Begins
<1>2. Len(own) \in 0..Len(rest)
  BY <1>1
<1>3. ASSUME NEW i \in 1..Len(own) PROVE rest[i] = own[i]
  <2>1. i \in 1..Len(rest) /\ Len(before) + i \in 1..Len(after)
    BY <1>1, <1>2
  <2>2. rest[i] = all[Len(before) + i]
    BY <2>1 DEF Rest
  <2>3. all[Len(before) + i] = after[Len(before) + i]
    BY <2>1 DEF Begins
  <2> QED
    BY <2>2, <2>3 DEF Behind
<1>4. ASSUME NEW left, IsSeq(left), Len(left) = Len(rest) - Len(own),
             \A i \in 1..Len(left) : left[i] = rest[Len(own) + i]
      PROVE  Rest(left, after, all)
  <2>1. Len(after) + Len(left) = Len(all)
    <3>1. Len(left) = Len(rest) - Len(own)
      BY <1>4
    <3> QED
      BY <1>1, <3>1
  <2>2. ASSUME NEW i \in 1..Len(left) PROVE left[i] = all[Len(after) + i]
    <3>1. Len(own) + i \in 1..Len(rest) /\ Len(before) + (Len(own) + i) = Len(after) + i
      BY <1>1, <1>4
    <3>2. rest[Len(own) + i] = all[Len(before) + (Len(own) + i)]
      BY <3>1 DEF Rest
    <3> QED
      BY <1>4, <3>1, <3>2
  <2> QED
    BY <2>1, <2>2 DEF Rest
<1> QED
  BY <1>2, <1>3, <1>4 DEF Finds

(* The same for one lane of the streams. *)
LEMMA ReadsLane ==
    ASSUME NEW des, NEW ser, NEW mine, NEW all,
           IsStream(des), IsStream(ser), IsStream(mine), IsStream(all),
           Grows(Then(ser, mine), all), NEW lane \in Lanes, Rest(des[lane], ser[lane], all[lane])
    PROVE  Finds(des[lane], mine[lane], Then(ser, mine)[lane], all[lane])
<1>1. IsSeq(des[lane]) /\ IsSeq(ser[lane]) /\ IsSeq(mine[lane]) /\ IsSeq(all[lane])
  BY DEF IsStream
<1>2. Behind(ser[lane], mine[lane], Then(ser, mine)[lane])
  BY ThenLane
<1>3. Begins(Then(ser, mine)[lane], all[lane])
  BY DEF Grows
<1> QED
  BY <1>1, <1>2, <1>3, ReadsOwn, Zenon

(* Who finds nothing has nothing less. *)
LEMMA FindsNothing ==
    ASSUME NEW rest, NEW after, NEW all, IsSeq(rest), Finds(rest, <<>>, after, all)
    PROVE  Rest(rest, after, all)
<1>1. Len(rest) \in Nat /\ Len(<<>>) = 0
  BY EmptyIs
<1>2. Len(rest) = Len(rest) - Len(<<>>) /\ \A i \in 1..Len(rest) : Len(<<>>) + i = i
  BY <1>1
<1> QED
  BY <1>2 DEF Finds

(* Deserializer::read of as many bytes as were written. *)
LEMMA TakesFront ==
    ASSUME NEW rest, NEW own, NEW after, NEW all, IsSeq(rest), IsSeq(own), Finds(rest, own, after, all)
    PROVE  LET left == SubSeq(rest, Len(own) + 1, Len(rest))
           IN  /\ Len(own) <= Len(rest) /\ SubSeq(rest, 1, Len(own)) = own
               /\ IsSeq(left) /\ Rest(left, after, all)
<1> DEFINE left == SubSeq(rest, Len(own) + 1, Len(rest))
<1>1. Len(own) \in Nat /\ Len(rest) \in Nat /\ Len(own) \in 0..Len(rest)
  BY EmptyIs DEF Finds
<1>2. /\ IsSeq(SubSeq(rest, 1, Len(own))) /\ Len(SubSeq(rest, 1, Len(own))) = Len(own)
      /\ \A i \in 1..Len(own) : SubSeq(rest, 1, Len(own))[i] = rest[i]
  BY <1>1, PrefixIs
<1>3. \A i \in 1..Len(own) : SubSeq(rest, 1, Len(own))[i] = own[i]
  BY <1>2 DEF Finds
<1>4. SubSeq(rest, 1, Len(own)) = own
  BY <1>2, <1>3, SameSeq
<1>5. IsSeq(left) /\ Len(left) = Len(rest) - Len(own)
      /\ \A i \in 1..(Len(rest) - Len(own)) : left[i] = rest[Len(own) + i]
  BY <1>1, SuffixIs
<1> HIDE DEF left
<1>6. Rest(left, after, all)
  BY <1>5 DEF Finds
<1>7. Len(own) <= Len(rest)
  BY <1>1
<1> QED
  BY <1>4, <1>5, <1>6, <1>7 DEF left

(* next() of the iterator of a table in which one resource was written. *)
LEMMA TakesHead ==
    ASSUME NEW rest, NEW r, NEW after, NEW all, IsSeq(rest), Finds(rest, <<r>>, after, all)
    PROVE  rest # <<>> /\ Head(rest) = r /\ IsSeq(Tail(rest)) /\ Rest(Tail(rest), after, all)
<1>1. Len(<<r>>) = 1 /\ <<r>>[1] = r
  OBVIOUS
<1>2. 1 \in 0..Len(rest) /\ Len(rest) \in Nat
  BY <1>1, EmptyIs DEF Finds
<1>3. rest[1] = r
  <2>1. \A i \in 1..1 : rest[i] = <<r>>[i]
    BY <1>1 DEF Finds
  <2> QED
    BY <1>1, <2>1
<1>4. rest # <<>>
  BY <1>2, EmptyIs
<1>5. /\ Head(rest) = rest[1] /\ IsSeq(Tail(rest)) /\ Len(Tail(rest)) = Len(rest) - 1
      /\ \A i \in 1..(Len(rest) - 1) : Tail(rest)[i] = rest[i + 1]
  BY <1>4, TailIs
<1>6. PICK left : left = Tail(rest)
  OBVIOUS
<1>7. IsSeq(left) /\ Len(left) = Len(rest) - 1 /\ \A i \in 1..Len(left) : left[i] = rest[1 + i]
  <2>1. IsSeq(left) /\ Len(left) = Len(rest) - 1 /\ \A i \in 1..Len(left) : left[i] = rest[i + 1]
    BY <1>5, <1>6
  <2>2. \A i \in 1..Len(left) : i + 1 = 1 + i
    OBVIOUS
  <2> QED
    BY <2>1, <2>2
<1>8. Rest(left, after, all)
  BY <1>1, <1>7 DEF Finds
<1> QED
  BY <1>3, <1>4, <1>5, <1>6, <1>8

(* Descriptors were lost: fewer are left than were written from here on. *)
Short(before, rest, all) == Len(before) + Len(rest) < Len(all)

(* That stays so, whether a descriptor is read or not. *)
LEMMA ShortStays ==
    ASSUME NEW before, NEW rest, NEW after, NEW all, IsSeq(before), IsSeq(rest), Short(before, rest, all)
    PROVE  /\ Behind(before, <<>>, after) => Short(after, rest, all)
           /\ \A r : rest # <<>> /\ Behind(before, <<r>>, after) => Short(after, Tail(rest), all)
<1>1. Len(before) \in Nat /\ Len(rest) \in Nat /\ Len(<<>>) = 0
  BY EmptyIs
<1>2. ASSUME Behind(before, <<>>, after) PROVE Short(after, rest, all)
  <2>1. Len(after) = Len(before)
    BY <1>1, <1>2 DEF Behind
  <2> QED
    BY <2>1 DEF Short
<1>3. ASSUME NEW r, rest # <<>>, Behind(before, <<r>>, after)
      PROVE  Short(after, Tail(rest), all)
  <2>1. Len(after) = Len(before) + 1
    <3>1. Len(<<r>>) = 1
      OBVIOUS
    <3> QED
      BY <1>3, <3>1 DEF Behind
  <2>2. PICK left : left = Tail(rest)
    OBVIOUS
  <2>3. Len(left) = Len(rest) - 1
    BY <1>3, <2>2, TailIs
  <2>4. Len(after) + Len(left) = Len(before) + Len(rest)
    BY <1>1, <2>1, <2>3
  <2> QED
    BY <2>2, <2>4 DEF Short
<1> QED
  BY <1>2, <1>3

(* What a call of deserialize_self has read of its own is what the call of *)
(* serialize_self in its place has written, unless it is a descriptor and  *)
(* descriptors were lost.  Only then may it panic.                         *)
LEMMA ReadsSelf ==
    ASSUME NEW type, NEW value, OwnFits(type, value), NEW ser, NEW all,
           IsStream(ser), IsStream(all), IsStream(d),
           Grows(Then(ser, Own(type, value)), all),
           \A lane \in Lanes : ~lost \/ lane # "fds" => Rest(d[lane], ser[lane], all[lane]),
           lost => Short(ser["fds"], d["fds"], all["fds"])
    PROVE  LET after == Then(ser, Own(type, value))
               first == OwnOf(type, d)
           IN  /\ Panics(type, d) => lost
               /\ ~Panics(type, d) =>
                     /\ IsStream(first.rest)
                     /\ \A lane \in Lanes :
                           ~lost \/ lane # "fds" => Rest(first.rest[lane], after[lane], all[lane])
                     /\ lost => Short(after["fds"], first.rest["fds"], all["fds"])
                     /\ type.kind # "resource" \/ ~lost => first.own = Mine(type, value)
<1> DEFINE own == Own(type, value)
           after == Then(ser, own)
           first == OwnOf(type, d)
<1>1. IsStream(own) /\ "data" \in Lanes /\ "fds" \in Lanes
  BY DEF OwnFits, Lanes
<1>2. Len(own["data"]) = Width(type)
      /\ \A lane \in Lanes \ {"data"} :
            own[lane] = IF type.kind = "resource" /\ lane = TableOf(type.resource) THEN <<value>> ELSE <<>>
  BY DEF OwnFits
<1>3. d = [lane \in Lanes |-> d[lane]] /\ \A lane \in Lanes : IsSeq(d[lane])
  BY DEF IsStream
<1>4. \A lane \in Lanes : /\ IsSeq(own[lane]) /\ IsSeq(ser[lane])
                          /\ Behind(ser[lane], own[lane], after[lane])
  BY <1>1, ThenLane DEF IsStream
<1>5. \A lane \in Lanes : ~lost \/ lane # "fds" => Finds(d[lane], own[lane], after[lane], all[lane])
  <2> SUFFICES ASSUME NEW lane \in Lanes, ~lost \/ lane # "fds"
               PROVE  Finds(d[lane], own[lane], after[lane], all[lane])
    OBVIOUS
  <2>1. Rest(d[lane], ser[lane], all[lane])
    OBVIOUS
  <2> HIDE DEF own
  <2>2. Grows(Then(ser, own), all)
    BY DEF own
  <2> QED
    BY <1>1, <2>1, <2>2, ReadsLane
<1> HIDE DEF own, after
<1>6. CASE type.kind # "resource"
  <2> DEFINE data == d["data"]
             left == SubSeq(data, Len(own["data"]) + 1, Len(data))
  <2>1. /\ Len(own["data"]) <= Len(data) /\ SubSeq(data, 1, Len(own["data"])) = own["data"]
        /\ IsSeq(left) /\ Rest(left, after["data"], all["data"])
    BY <1>1, <1>3, <1>4, <1>5, TakesFront
  <2>2. ~Panics(type, d)
    <3>1. PICK w, k : w = Width(type) /\ k = Len(data)
      OBVIOUS
    <3>2. w \in Nat /\ k \in Nat
      BY <1>1, <1>2, <1>3, <1>4, <3>1, EmptyIs
    <3>3. w <= k
      BY <1>2, <2>1, <3>1
    <3>4. ~(w > k)
      BY <3>2, <3>3
    <3> QED
      BY <1>6, <3>1, <3>4 DEF Panics
  <2>3. first = [own |-> SubSeq(data, 1, Width(type)),
                 rest |-> [d EXCEPT !["data"] = SubSeq(@, Width(type) + 1, Len(@))]]
    BY <1>6 DEF OwnOf, Read
  <2> HIDE DEF first
  <2>4. /\ first.own = own["data"]
        /\ first.rest = [lane \in Lanes |-> IF lane = "data" THEN left ELSE d[lane]]
    BY <1>1, <1>2, <1>3, <2>1, <2>3
  <2>5. \A lane \in Lanes : lane # "data" => own[lane] = <<>>
    BY <1>2, <1>6
  <2> HIDE DEF left, data
  <2>6. IsStream(first.rest)
    BY <1>3, <2>1, <2>4 DEF IsStream
  <2>7. ASSUME NEW lane \in Lanes, ~lost \/ lane # "fds"
        PROVE  Rest(first.rest[lane], after[lane], all[lane])
    <3>1. CASE lane = "data"
      BY <2>1, <2>4, <3>1
    <3>2. CASE lane # "data"
      <4>1. Finds(d[lane], <<>>, after[lane], all[lane]) /\ IsSeq(d[lane])
        BY <1>3, <1>5, <2>5, <2>7, <3>2
      <4>2. Rest(d[lane], after[lane], all[lane])
        BY <4>1, FindsNothing
      <4> QED
        BY <2>4, <3>2, <4>2
    <3> QED
      BY <3>1, <3>2
  <2>8. lost => Short(after["fds"], first.rest["fds"], all["fds"])
    <3>1. first.rest["fds"] = d["fds"] /\ Behind(ser["fds"], <<>>, after["fds"])
          /\ IsSeq(ser["fds"]) /\ IsSeq(d["fds"])
      BY <1>1, <1>3, <1>4, <2>4, <2>5
    <3>2. lost => Short(after["fds"], d["fds"], all["fds"])
      BY <3>1, ShortStays
    <3> QED
      BY <3>1, <3>2
  <2>9. first.own = Mine(type, value)
    BY <1>6, <2>4 DEF Mine, own
  <2> QED
    BY <2>2, <2>6, <2>7, <2>8, <2>9 DEF first, after, own
<1>7. CASE type.kind = "resource"
  <2> DEFINE table == TableOf(type.resource)
  <2>1. table \in Lanes \ {"data"} /\ Width(type) = 0 /\ own[table] = <<value>>
    <3>1. table \in Lanes \ {"data"}
      BY DEF TableOf, Lanes
    <3>2. Width(type) = 0
      BY <1>7 DEF Width
    <3> QED
      BY <1>2, <1>7, <3>1, <3>2
  <2>2. Panics(type, d) <=> d[table] = <<>>
    <3>1. PICK k : k = Len(d["data"])
      OBVIOUS
    <3>2. k \in Nat
      BY <1>1, <1>3, <3>1, EmptyIs
    <3>3. ~(0 > k)
      BY <3>2
    <3> QED
      BY <1>7, <2>1, <3>1, <3>3 DEF Panics
  <2>3. first = [own |-> Head(d[table]), rest |-> [d EXCEPT ![table] = Tail(@)]]
    BY <1>7 DEF OwnOf, Take
  <2> HIDE DEF first, table
  <2>4. ~lost \/ table # "fds" =>
           /\ d[table] # <<>> /\ Head(d[table]) = value
           /\ Rest(Tail(d[table]), after[table], all[table])
    <3>1. ASSUME ~lost \/ table # "fds"
          PROVE  IsSeq(d[table]) /\ Finds(d[table], <<value>>, after[table], all[table])
      BY <1>3, <1>5, <2>1, <3>1
    <3> QED
      BY <3>1, TakesHead
  <2>5. Panics(type, d) => lost
    BY <2>2, <2>4
  <2>6. ASSUME ~Panics(type, d)
        PROVE  /\ IsStream(first.rest)
               /\ \A lane \in Lanes :
                      ~lost \/ lane # "fds" => Rest(first.rest[lane], after[lane], all[lane])
               /\ lost => Short(after["fds"], first.rest["fds"], all["fds"])
               /\ ~lost => first.own = Mine(type, value)
    <3>1. d[table] # <<>> /\ IsSeq(d[table]) /\ IsSeq(Tail(d[table]))
      BY <1>3, <2>1, <2>2, <2>6, TailIs
    <3>2. first.rest = [lane \in Lanes |-> IF lane = table THEN Tail(d[table]) ELSE d[lane]]
          /\ first.own = Head(d[table])
      BY <1>3, <2>1, <2>3
    <3>3. IsStream(first.rest)
      BY <1>3, <3>1, <3>2 DEF IsStream
    <3>4. \A lane \in Lanes : lane # table => own[lane] = <<>>
      <4>1. \A lane \in Lanes \ {"data"} : lane # table => own[lane] = <<>>
        BY <1>2 DEF table
      <4>2. own["data"] = <<>>
        <5>1. IsSeq(own["data"]) /\ Len(own["data"]) = 0
          BY <1>1, <1>2, <1>4, <2>1
        <5> QED
          BY <5>1, EmptyIs
      <4> QED
        BY <4>1, <4>2
    <3>5. ASSUME NEW lane \in Lanes, ~lost \/ lane # "fds"
          PROVE  Rest(first.rest[lane], after[lane], all[lane])
      <4>1. CASE lane = table
        BY <2>4, <3>2, <3>5, <4>1
      <4>2. CASE lane # table
        <5>1. Finds(d[lane], <<>>, after[lane], all[lane]) /\ IsSeq(d[lane])
          BY <1>3, <1>5, <3>4, <3>5, <4>2
        <5>2. Rest(d[lane], after[lane], all[lane])
          BY <5>1, FindsNothing
        <5> QED
          BY <3>2, <4>2, <5>2
      <4> QED
        BY <4>1, <4>2
    <3>6. ASSUME lost PROVE Short(after["fds"], first.rest["fds"], all["fds"])
      <4>1. Short(ser["fds"], d["fds"], all["fds"]) /\ IsSeq(ser["fds"]) /\ IsSeq(d["fds"])
            /\ Behind(ser["fds"], own["fds"], after["fds"])
        BY <1>1, <1>3, <1>4, <3>6
      <4>2. CASE table = "fds"
        <5>1. own["fds"] = <<value>> /\ first.rest["fds"] = Tail(d["fds"]) /\ d["fds"] # <<>>
          BY <1>1, <2>1, <3>1, <3>2, <4>2
        <5> QED
          BY <4>1, <5>1, ShortStays
      <4>3. CASE table # "fds"
        <5>1. own["fds"] = <<>> /\ first.rest["fds"] = d["fds"]
          BY <1>1, <3>2, <3>4, <4>3
        <5> QED
          BY <4>1, <5>1, ShortStays
      <4> QED
        BY <4>2, <4>3
    <3>7. ~lost => first.own = Mine(type, value)
      BY <1>7, <2>4, <3>2 DEF Mine
    <3> QED
      BY <3>3, <3>5, <3>6, <3>7
  <2> QED
    BY <1>7, <2>5, <2>6 DEF first, after, own
<1> QED
  BY <1>6, <1>7
-----------------------------------------------------------------------------
(* The deserializer follows the serializer *)

(* What is known of the moment the deserializer has come to. *)
LEMMA MomentRead ==
    ASSUME SerdeIInv, stage = "deserializing"
    PROVE  LET m == trace[pos]
           IN  /\ CallsInv(m) /\ IsStream(m.s) /\ IsSeq(m.writing) /\ IsStream(Final.s)
               /\ Final.writing = <<>> /\ Final.written = Len(batch)
               /\ pos \in Nat /\ Len(trace) \in Nat /\ pos <= Len(trace)
               /\ m.written \in Nat /\ Len(batch) \in Nat /\ m.written <= Len(batch)
               /\ TraceInv /\ ReadInv
<1>1. pos \in 1..Len(trace) /\ TraceInv /\ ReadInv /\ batch \in Seq(Sent)
  BY DEF SerdeIInv
<1>2. Len(trace) \in Nat /\ Len(trace) \in 1..Len(trace) /\ Final.writing = <<>> /\ Final.written = Len(batch)
  BY <1>1, EmptyIs DEF TraceInv
<1>3. CallsInv(trace[pos]) /\ CallsInv(Final)
  BY <1>1, <1>2 DEF TraceInv, Final
<1>4. Len(batch) \in Nat /\ trace[pos].written \in 0..Len(batch)
  BY <1>1, <1>3 DEF CallsInv
<1>5. IsStream(trace[pos].s) /\ IsSeq(trace[pos].writing) /\ IsStream(Final.s)
  BY <1>3 DEF CallsInv
<1> QED
  BY <1>1, <1>2, <1>3, <1>4, <1>5

(* While there is something to read, a step of the serializer is left to *)
(* follow.                                                               *)
LEMMA StepLeft ==
    ASSUME SerdeIInv, stage = "deserializing", reading # <<>> \/ Len(out) < Len(batch)
    PROVE  LET next == trace[pos + 1]
           IN  /\ pos + 1 \in 1..Len(trace) /\ Follows(trace[pos], next)
               /\ CallsInv(next) /\ Grows(next.s, Final.s)
<1>1. /\ IsSeq(trace[pos].writing) /\ Final.writing = <<>> /\ Final.written = Len(batch)
      /\ pos \in Nat /\ Len(trace) \in Nat /\ pos <= Len(trace) /\ Len(batch) \in Nat
      /\ TraceInv /\ ReadInv
  BY MomentRead
<1>2. IsSeq(reading) /\ Len(out) = trace[pos].written /\ Len(reading) = Len(trace[pos].writing)
  BY <1>1 DEF ReadInv
<1>3. pos # Len(trace)
  <2> SUFFICES ASSUME pos = Len(trace) PROVE FALSE
    OBVIOUS
  <2>1. trace[pos].writing = <<>> /\ trace[pos].written = Len(batch)
    BY <1>1 DEF Final
  <2>2. reading = <<>>
    BY <1>2, <2>1, EmptyIs
  <2> QED
    BY <1>1, <1>2, <2>1, <2>2
<1>4. pos \in 1..Len(trace)
  BY DEF SerdeIInv
<1>5. pos \in 1..(Len(trace) - 1) /\ pos + 1 \in 1..Len(trace)
  BY <1>1, <1>3, <1>4
<1> QED
  BY <1>1, <1>5 DEF TraceInv

(* A new call of deserialize_self has got nothing yet. *)
LEMMA NewAnswer ==
    ASSUME NEW o, IsObject(o), NEW own, o.type.kind # "resource" \/ ~lost => own = Mine(o.type, o.value)
    PROVE  Answers([type |-> o.type, own |-> own, wants |-> Wants(o.type, own), got |-> <<>>],
                   [type |-> o.type, value |-> o.value, done |-> 0], 0)
<1> DEFINE parts == Parts(o.type, o.value)
           r == [type |-> o.type, own |-> own, wants |-> Wants(o.type, own), got |-> <<>>]
           c == [type |-> o.type, value |-> o.value, done |-> 0]
<1>1. Undone(o.type, o.value)
  BY ObjectIs
<1>2. Wants(o.type, own) = TypesOf(parts)
  BY <1>1 DEF Undone
<1>3. ~lost => Makes(o.type, own, ValuesOf(parts)) = o.value
  BY <1>1 DEF Undone
<1> HIDE DEF parts
<1>4. /\ r = [type |-> c.type, own |-> r.own, wants |-> TypesOf(parts), got |-> r.got]
      /\ r.type = o.type /\ r.own = own /\ r.got = <<>> /\ c.type = o.type /\ c.value = o.value
  BY <1>2
<1>5. IsSeq(r.got) /\ Len(r.got) = 0
  BY <1>4, EmptyIs
<1>6. ~lost => (\A j \in 1..0 : r.got[j] = parts[j].value) /\ Makes(r.type, r.own, ValuesOf(parts)) = c.value
  BY <1>3, <1>4
<1>7. Parts(c.type, c.value) = parts
  BY DEF parts
<1> HIDE DEF r, c
<1>8. Answers(r, c, 0)
  BY <1>4, <1>5, <1>6, <1>7 DEF Answers
<1> QED
  BY <1>8 DEF r, c

(* What answers a call does so whatever is read. *)
LEMMA SameAnswer ==
    ASSUME UNCHANGED lost
    PROVE  \A r, c, done : Answers(r, c, done)' <=> Answers(r, c, done)
BY DEF Answers, IsSeq

(* deserialize_self is called where serialize_self was. *)
LEMMA KeepDeserialize ==
    ASSUME SerdeIInv, stage = "deserializing", NEW o, IsObject(o), NEW callers, NEW begun,
           IsSeq(callers), IsSeq(begun), Len(callers) = Len(begun), Len(out) < Len(batch),
           \A i \in 1..Len(callers) : Answers(callers[i], begun[i], begun[i].done - 1),
           pos + 1 \in 1..Len(trace), trace[pos + 1] = Called(trace[pos], begun, o),
           Grows(trace[pos + 1].s, Final.s), Deserialize(o.type, callers)
    PROVE  SerdeIInv'
<1> DEFINE m == trace[pos]
           next == trace[pos + 1]
           own == Own(o.type, o.value)
           c == [type |-> o.type, value |-> o.value, done |-> 0]
           first == OwnOf(o.type, d)
           r == [type |-> o.type, own |-> first.own, wants |-> Wants(o.type, first.own), got |-> <<>>]
<1>1. /\ IsStream(m.s) /\ IsStream(Final.s) /\ Final.writing = <<>> /\ Final.written = Len(batch)
      /\ pos \in Nat /\ TraceInv /\ ReadInv
  BY MomentRead
<1>2. /\ next.s = Then(m.s, own) /\ next.written = m.written
      /\ IsSeq(next.writing) /\ Len(next.writing) = Len(begun) + 1
      /\ \A i \in 1..Len(begun) : next.writing[i] = begun[i]
      /\ next.writing[Len(begun) + 1] = c
  BY <1>1, CalledIs
<1>3. /\ IsStream(d) /\ Len(out) = m.written
      /\ \A lane \in Lanes : ~lost \/ lane # "fds" => Rest(d[lane], m.s[lane], Final.s[lane])
      /\ lost => Short(m.s["fds"], d["fds"], Final.s["fds"])
      /\ ~lost => \A i \in 1..Len(out) : out[i] = Objects[batch[i]].value
  BY <1>1 DEF ReadInv, Short
<1>4. /\ Panics(o.type, d) => lost
      /\ ~Panics(o.type, d) =>
            /\ IsStream(first.rest)
            /\ \A lane \in Lanes :
                  ~lost \/ lane # "fds" => Rest(first.rest[lane], next.s[lane], Final.s[lane])
            /\ lost => Short(next.s["fds"], first.rest["fds"], Final.s["fds"])
            /\ o.type.kind # "resource" \/ ~lost => first.own = Mine(o.type, o.value)
  <2>1. OwnFits(o.type, o.value)
    BY ObjectIs
  <2>2. PICK ser, all : ser = m.s /\ all = Final.s
    OBVIOUS
  <2>3. Grows(Then(ser, Own(o.type, o.value)), all)
    BY <1>2, <2>2
  <2> HIDE DEF first
  <2>4. /\ IsStream(ser) /\ IsStream(all) /\ IsStream(d)
        /\ \A lane \in Lanes : ~lost \/ lane # "fds" => Rest(d[lane], ser[lane], all[lane])
        /\ lost => Short(ser["fds"], d["fds"], all["fds"])
    BY <1>1, <1>3, <2>2
  <2>5. LET after == Then(ser, Own(o.type, o.value))
        IN  /\ Panics(o.type, d) => lost
            /\ ~Panics(o.type, d) =>
                  /\ IsStream(first.rest)
                  /\ \A lane \in Lanes :
                        ~lost \/ lane # "fds" => Rest(first.rest[lane], after[lane], all[lane])
                  /\ lost => Short(after["fds"], first.rest["fds"], all["fds"])
                  /\ o.type.kind # "resource" \/ ~lost => first.own = Mine(o.type, o.value)
    BY <2>1, <2>3, <2>4, ReadsSelf DEF first
  <2> QED
    BY <1>2, <2>2, <2>5
<1>5. /\ UNCHANGED <<windows, batch, out, lost, trace>> /\ stage' # "serializing"
      /\ Panics(o.type, d) => stage' = "panicked" /\ pos' = pos
      /\ ~Panics(o.type, d) =>
            /\ stage' = "deserializing" /\ pos' = pos + 1 /\ d' = first.rest
            /\ reading' = Append(callers, r)
  BY DEF Deserialize
<1>6. TraceInv' /\ Final' = Final
  BY <1>1, <1>5, SameTrace DEF Final
<1>7. /\ windows' \in BOOLEAN /\ lost' \in BOOLEAN /\ batch' \in Seq(Sent) /\ IsSeq(out)'
      /\ (stage \in {"serializing", "deserializing", "panicked"})' /\ pos' \in 1..Len(trace')
  <2>1. windows \in BOOLEAN /\ lost \in BOOLEAN /\ batch \in Seq(Sent) /\ IsSeq(out) /\ pos \in 1..Len(trace)
    BY DEF SerdeIInv
  <2> HIDE DEF r, first
  <2> QED
    BY <1>5, <2>1 DEF IsSeq
<1>8. CASE Panics(o.type, d)
  BY <1>4, <1>5, <1>6, <1>7, <1>8 DEF SerdeIInv
<1>9. CASE ~Panics(o.type, d)
  <2>1. Answers(r, c, 0)
    BY <1>4, <1>9, NewAnswer
  <2> HIDE DEF r, c, first, own
  <2>2. /\ IsSeq(reading') /\ Len(reading') = Len(callers) + 1 /\ reading'[Len(callers) + 1] = r
        /\ \A i \in 1..Len(callers) : reading'[i] = callers[i]
    <3>1. PICK q : q = Append(callers, r)
      OBVIOUS
    <3>2. /\ IsSeq(q) /\ Len(q) = Len(callers) + 1 /\ q[Len(callers) + 1] = r
          /\ \A i \in 1..Len(callers) : q[i] = callers[i]
      BY <3>1, AppendIs
    <3>3. reading' = q
      BY <1>5, <1>9, <3>1
    <3> QED
      BY <3>2, <3>3
  <2>3. trace'[pos'] = next /\ stage' = "deserializing"
    BY <1>5, <1>9
  <2>4. c.done = 0
    BY DEF c
  <2> HIDE DEF next, m
  <2>5. ASSUME NEW i \in 1..Len(reading')
        PROVE  Answers(reading'[i], next.writing[i],
                       IF i < Len(reading') THEN next.writing[i].done - 1 ELSE next.writing[i].done)
    <3>1. Len(callers) \in Nat
      BY EmptyIs
    <3>2. CASE i = Len(callers) + 1
      <4>1. reading'[i] = r /\ next.writing[i] = c /\ ~(i < Len(reading'))
        BY <1>2, <2>2, <3>1, <3>2
      <4> QED
        BY <2>1, <2>4, <4>1
    <3>3. CASE i # Len(callers) + 1
      <4>1. i \in 1..Len(callers) /\ i < Len(reading')
        BY <2>2, <3>1, <3>3
      <4>2. reading'[i] = callers[i] /\ next.writing[i] = begun[i]
        BY <1>2, <2>2, <4>1
      <4> QED
        BY <4>1, <4>2
    <3> QED
      BY <3>2, <3>3
  <2>6. (\A i \in 1..Len(reading) :
            LET k == trace[pos].writing[i]
            IN  Answers(reading[i], k, IF i < Len(reading) THEN k.done - 1 ELSE k.done))'
    BY <1>5, <2>3, <2>5, SameAnswer
  <2>7. (IsStream(d) /\ IsSeq(reading) /\ Len(out) = trace[pos].written
         /\ Len(reading) = Len(trace[pos].writing))'
    <3>1. IsStream(first.rest) /\ d' = first.rest
      BY <1>4, <1>5, <1>9
    <3>2. Len(out') = next.written /\ Len(reading') = Len(next.writing)
      BY <1>2, <1>3, <1>5, <2>2
    <3> QED
      BY <2>2, <2>3, <3>1, <3>2 DEF IsStream, IsSeq
  <2>8. (\A lane \in Lanes : ~lost \/ lane # "fds" => Rest(d[lane], trace[pos].s[lane], Final.s[lane]))'
    <3>1. \A lane \in Lanes : ~lost \/ lane # "fds" => Rest(d'[lane], next.s[lane], Final.s[lane])
      BY <1>4, <1>5, <1>9
    <3> QED
      BY <1>5, <1>6, <2>3, <3>1 DEF Rest
  <2>9. (lost => Len(trace[pos].s["fds"]) + Len(d["fds"]) < Len(Final.s["fds"]))'
    <3>1. lost => Short(next.s["fds"], d'["fds"], Final.s["fds"])
      BY <1>4, <1>5, <1>9
    <3> QED
      BY <1>5, <1>6, <2>3, <3>1 DEF Short
  <2>10. (~lost => \A i \in 1..Len(out) : out[i] = Objects[batch[i]].value)'
    BY <1>3, <1>5
  <2>11. ReadInv'
    BY <2>6, <2>7, <2>8, <2>9, <2>10 DEF ReadInv
  <2> QED
    BY <1>6, <1>7, <2>3, <2>11 DEF SerdeIInv
<1> QED
  BY <1>8, <1>9

(* The call of deserialize_self on top answers the call of serialize_self on *)
(* top, and its callers answer the callers, which wait for one part more.    *)
LEMMA ReaderAnswers ==
    ASSUME SerdeIInv, stage = "deserializing", reading # <<>>
    PROVE  LET m == trace[pos]
           IN  /\ m.writing # <<>> /\ Len(reading) = Len(m.writing) /\ IsSeq(reading)
               /\ Answers(Reader, Top(m), Top(m).done)
               /\ Len(Reader.wants) = Len(TopParts(m)) /\ Len(Reader.got) = Top(m).done
               /\ \A j \in 1..Len(TopParts(m)) : Reader.wants[j] = TopParts(m)[j].type
               /\ \A i \in 1..(Len(reading) - 1) : Answers(reading[i], m.writing[i], m.writing[i].done - 1)
               /\ Len(out) = m.written /\ m.written < Len(batch)
<1> DEFINE m == trace[pos]
           last == Len(reading)
<1>1. CallsInv(m) /\ IsSeq(m.writing) /\ ReadInv
  BY MomentRead
<1>2. /\ IsSeq(reading) /\ Len(out) = m.written /\ last = Len(m.writing)
      /\ \A i \in 1..last : Answers(reading[i], m.writing[i],
                                    IF i < last THEN m.writing[i].done - 1 ELSE m.writing[i].done)
  BY <1>1 DEF ReadInv
<1>3. last \in Nat \ {0} /\ last \in 1..last /\ m.writing # <<>>
  BY <1>1, <1>2, EmptyIs
<1>4. Answers(Reader, Top(m), Top(m).done)
  BY <1>2, <1>3 DEF Reader, Top
<1>5. \A i \in 1..(last - 1) : Answers(reading[i], m.writing[i], m.writing[i].done - 1)
  BY <1>2, <1>3
<1>6. Len(TopParts(m)) \in Nat /\ m.written < Len(batch)
  BY <1>1, <1>3, CallsAre DEF CallsInv
<1>7. Reader.wants = TypesOf(TopParts(m)) /\ Len(Reader.got) = Top(m).done
  <2> HIDE DEF m
  <2>1. PICK r : r = Reader
    OBVIOUS
  <2>2. r = [type |-> Top(m).type, own |-> r.own, wants |-> TypesOf(TopParts(m)), got |-> r.got]
        /\ Len(r.got) = Top(m).done
    BY <1>4, <2>1 DEF Answers, TopParts
  <2>3. r.wants = TypesOf(TopParts(m))
    BY <2>2
  <2> QED
    BY <2>1, <2>2, <2>3
<1>8. /\ Len(TypesOf(TopParts(m))) = Len(TopParts(m))
      /\ \A j \in 1..Len(TopParts(m)) : TypesOf(TopParts(m))[j] = TopParts(m)[j].type
  <2>1. PICK parts : parts = TopParts(m)
    OBVIOUS
  <2>2. TypesOf(parts) = [j \in 1..Len(parts) |-> parts[j].type] /\ Len(parts) \in Nat
    BY <1>6, <2>1 DEF TypesOf
  <2>3. Len(TypesOf(parts)) = Len(parts) /\ \A j \in 1..Len(parts) : TypesOf(parts)[j] = parts[j].type
    BY <2>2
  <2> QED
    BY <2>1, <2>3
<1> QED
  BY <1>2, <1>3, <1>4, <1>5, <1>6, <1>7, <1>8

(* The next object is read as it was written. *)
LEMMA KeepDeserializeObject ==
    ASSUME SerdeIInv, DeserializeObject
    PROVE  SerdeIInv'
<1> DEFINE m == trace[pos]
           o == Objects[batch[m.written + 1]]
<1>1. /\ stage = "deserializing" /\ reading = <<>> /\ Len(out) < Len(batch)
      /\ Deserialize(Objects[batch[Len(out) + 1]].type, <<>>)
  BY DEF DeserializeObject
<1>2. /\ IsSeq(m.writing) /\ m.written \in Nat /\ Len(batch) \in Nat /\ ReadInv
  BY <1>1, MomentRead
<1>3. Len(out) = m.written /\ m.writing = <<>>
  BY <1>1, <1>2, EmptyIs DEF ReadInv
<1>4. pos + 1 \in 1..Len(trace) /\ Follows(m, trace[pos + 1]) /\ Grows(trace[pos + 1].s, Final.s)
  BY <1>1, StepLeft
<1>5. trace[pos + 1] = Called(m, <<>>, o)
  BY <1>3, <1>4 DEF Follows, AtPart, AtReturn, NextObject
<1>6. IsObject(o)
  <2>1. m.written + 1 \in 1..Len(batch) /\ batch \in Seq(Sent)
    BY <1>1, <1>2, <1>3 DEF SerdeIInv
  <2> QED
    BY <2>1, NextIsObject
<1>7. Deserialize(o.type, <<>>)
  BY <1>1, <1>3
<1> HIDE DEF m, o
<1>8. PICK none : none = <<>>
  OBVIOUS
<1>9. IsSeq(none) /\ Len(none) = 0 /\ \A i \in 1..Len(none) : FALSE
  BY <1>8, EmptyIs
<1>10. Deserialize(o.type, none) /\ trace[pos + 1] = Called(trace[pos], none, o)
  BY <1>5, <1>7, <1>8 DEF m
<1> QED
  BY <1>1, <1>4, <1>6, <1>9, <1>10, KeepDeserialize

(* The next part is read as it was written. *)
LEMMA KeepDeserializePart ==
    ASSUME SerdeIInv, DeserializePart
    PROVE  SerdeIInv'
<1> DEFINE m == trace[pos]
           last == Len(reading)
           begun == [m.writing EXCEPT ![Len(m.writing)].done = @ + 1]
           part == TopParts(m)[Top(m).done + 1]
<1>1. /\ stage = "deserializing" /\ reading # <<>> /\ Len(Reader.got) < Len(Reader.wants)
      /\ Deserialize(Reader.wants[Len(Reader.got) + 1], reading)
  BY DEF DeserializePart
<1>2. /\ m.writing # <<>> /\ last = Len(m.writing) /\ IsSeq(reading)
      /\ Answers(Reader, Top(m), Top(m).done)
      /\ Len(Reader.wants) = Len(TopParts(m)) /\ Len(Reader.got) = Top(m).done
      /\ \A j \in 1..Len(TopParts(m)) : Reader.wants[j] = TopParts(m)[j].type
      /\ \A i \in 1..(last - 1) : Answers(reading[i], m.writing[i], m.writing[i].done - 1)
      /\ Len(out) < Len(batch)
  BY <1>1, ReaderAnswers
<1>3. CallsInv(m)
  BY <1>1, MomentRead
<1>4. /\ last \in Nat \ {0} /\ Top(m).done \in Nat /\ Len(TopParts(m)) \in Nat /\ IsObject(Top(m))
  BY <1>2, <1>3, CallsAre
<1>5. AtPart(m) /\ Top(m).done # Len(TopParts(m))
  BY <1>1, <1>2, <1>4 DEF AtPart
<1>6. pos + 1 \in 1..Len(trace) /\ Follows(m, trace[pos + 1]) /\ Grows(trace[pos + 1].s, Final.s)
  BY <1>1, StepLeft
<1>7. trace[pos + 1] = Called(m, begun, part)
  BY <1>2, <1>5, <1>6 DEF Follows, AtObject, AtReturn, NextPart
<1>8. Top(m).done + 1 \in 1..Len(TopParts(m))
  BY <1>4, <1>5 DEF AtPart
<1>9. IsObject(part) /\ Deserialize(part.type, reading)
  BY <1>1, <1>2, <1>4, <1>8, ObjectIs DEF TopParts
<1>10. /\ IsSeq(begun) /\ Len(begun) = last
       /\ begun[last] = [type |-> Top(m).type, value |-> Top(m).value, done |-> Top(m).done + 1]
       /\ \A i \in 1..last : i # last => begun[i] = m.writing[i]
  BY <1>2, <1>3, <1>5, BegunIs
<1> HIDE DEF begun, part
<1>11. ASSUME NEW i \in 1..last
       PROVE  Answers(reading[i], begun[i], begun[i].done - 1)
  <2>1. CASE i = last
    <3>1. /\ begun[last].type = Top(m).type /\ begun[last].value = Top(m).value
          /\ begun[last].done - 1 = Top(m).done
      BY <1>4, <1>10
    <3>2. Answers(reading[last], begun[last], Top(m).done)
      BY <1>2, <3>1 DEF Answers, Reader
    <3> QED
      BY <2>1, <3>1, <3>2
  <2>2. CASE i # last
    <3>1. i \in 1..(last - 1)
      BY <1>4, <2>2
    <3> QED
      BY <1>2, <1>10, <2>2, <3>1
  <2> QED
    BY <2>1, <2>2
<1> QED
  BY <1>1, <1>2, <1>6, <1>7, <1>9, <1>10, <1>11, KeepDeserialize

(* The value of a part is added to those its caller has got. *)
LEMMA GetsOne ==
    ASSUME NEW r, NEW c, NEW value, NEW done \in Nat, Answers(r, c, done),
           ~lost => value = Parts(c.type, c.value)[done + 1].value
    PROVE  Answers([r EXCEPT !.got = Append(@, value)], c, done + 1)
<1> DEFINE parts == Parts(c.type, c.value)
           w == [r EXCEPT !.got = Append(@, value)]
<1>1. r = [type |-> c.type, own |-> r.own, wants |-> TypesOf(parts), got |-> r.got]
      /\ IsSeq(r.got) /\ Len(r.got) = done
  BY DEF Answers
<1>2. ~lost => /\ \A j \in 1..done : r.got[j] = parts[j].value
               /\ Makes(r.type, r.own, ValuesOf(parts)) = c.value
  BY DEF Answers
<1>3. PICK got : got = Append(r.got, value)
  OBVIOUS
<1>4. w = [type |-> c.type, own |-> r.own, wants |-> TypesOf(parts), got |-> got]
  <2>1. w = [r EXCEPT !.got = got]
    BY <1>3
  <2> HIDE DEF parts, w
  <2> QED
    BY <1>1, <2>1
<1> HIDE DEF parts, w
<1>5. w.type = r.type /\ w.own = r.own /\ w.got = got
  <2>1. w.type = c.type /\ w.own = r.own /\ w.got = got
    BY <1>4
  <2>2. r.type = c.type
    BY <1>1
  <2> QED
    BY <2>1, <2>2
<1>6. w = [type |-> c.type, own |-> w.own, wants |-> TypesOf(parts), got |-> w.got]
  BY <1>4, <1>5
<1>7. /\ IsSeq(got) /\ Len(got) = done + 1 /\ got[done + 1] = value
      /\ \A j \in 1..done : got[j] = r.got[j]
  <2>1. PICK q : q = r.got
    OBVIOUS
  <2>2. IsSeq(q) /\ Len(q) = done
    BY <1>1, <2>1
  <2>3. /\ IsSeq(Append(q, value)) /\ Len(Append(q, value)) = Len(q) + 1
        /\ \A j \in 1..Len(q) : Append(q, value)[j] = q[j]
        /\ Append(q, value)[Len(q) + 1] = value
    BY <2>2, AppendIs
  <2> QED
    BY <1>3, <2>1, <2>2, <2>3
<1>8. ASSUME ~lost, NEW j \in 1..(done + 1) PROVE got[j] = parts[j].value
  <2>1. CASE j = done + 1
    BY <1>7, <1>8, <2>1 DEF parts
  <2>2. CASE j # done + 1
    <3>1. j \in 1..done
      BY <2>2
    <3> QED
      BY <1>2, <1>7, <1>8, <3>1
  <2> QED
    BY <2>1, <2>2
<1>9. ~lost => /\ \A j \in 1..(done + 1) : w.got[j] = parts[j].value
               /\ Makes(w.type, w.own, ValuesOf(parts)) = c.value
  BY <1>2, <1>5, <1>8
<1>10. IsSeq(w.got) /\ Len(w.got) = done + 1
  BY <1>5, <1>7
<1>11. Answers(w, c, done + 1)
  BY <1>6, <1>9, <1>10 DEF Answers, parts
<1> QED
  BY <1>11 DEF w

(* A call that has got the values of all parts makes the value it answers. *)
LEMMA MakesValue ==
    ASSUME NEW r, NEW c, IsObject(c), Answers(r, c, Len(Parts(c.type, c.value))), ~lost
    PROVE  Makes(r.type, r.own, r.got) = c.value
<1> DEFINE parts == Parts(c.type, c.value)
<1>1. Len(parts) \in Nat
  BY ObjectIs
<1>2. /\ IsSeq(r.got) /\ Len(r.got) = Len(parts)
      /\ \A j \in 1..Len(parts) : r.got[j] = parts[j].value
      /\ Makes(r.type, r.own, ValuesOf(parts)) = c.value
  BY DEF Answers
<1> HIDE DEF parts
<1>3. PICK values : values = ValuesOf(parts)
  OBVIOUS
<1>4. values = [j \in 1..Len(parts) |-> values[j]] /\ \A j \in 1..Len(parts) : values[j] = parts[j].value
  BY <1>3 DEF ValuesOf
<1>5. IsSeq(values) /\ Len(values) = Len(parts)
  BY <1>1, <1>4, FunctionIs
<1>6. PICK got : got = r.got
  OBVIOUS
<1>7. IsSeq(got) /\ Len(got) = Len(values) /\ \A j \in 1..Len(got) : got[j] = values[j]
  BY <1>2, <1>4, <1>5, <1>6
<1>8. got = values
  BY <1>5, <1>7, SameSeq
<1> QED
  BY <1>2, <1>3, <1>6, <1>8

(* deserialize_self returns where serialize_self did. *)
LEMMA KeepDeserializeReturns ==
    ASSUME SerdeIInv, DeserializeReturns
    PROVE  SerdeIInv'
<1> DEFINE m == trace[pos]
           next == trace[pos + 1]
           last == Len(reading)
           value == Makes(Reader.type, Reader.own, Reader.got)
           callers == SubSeq(reading, 1, last - 1)
<1>1. /\ stage = "deserializing" /\ reading # <<>> /\ Len(Reader.got) = Len(Reader.wants)
      /\ IF callers = <<>> THEN out' = Append(out, value) /\ reading' = <<>>
         ELSE /\ reading' = [callers EXCEPT ![Len(callers)].got = Append(@, value)]
              /\ UNCHANGED out
      /\ pos' = pos + 1 /\ UNCHANGED <<windows, batch, s, writing, written, d, lost, stage, trace>>
  BY DEF DeserializeReturns
<1>2. /\ m.writing # <<>> /\ last = Len(m.writing) /\ IsSeq(reading)
      /\ Answers(Reader, Top(m), Top(m).done)
      /\ Len(Reader.wants) = Len(TopParts(m)) /\ Len(Reader.got) = Top(m).done
      /\ \A i \in 1..(last - 1) : Answers(reading[i], m.writing[i], m.writing[i].done - 1)
      /\ Len(out) = m.written /\ m.written < Len(batch)
  BY <1>1, ReaderAnswers
<1>3. /\ CallsInv(m) /\ Final.writing = <<>> /\ Final.written = Len(batch) /\ TraceInv /\ ReadInv
      /\ pos \in Nat
  BY <1>1, MomentRead
<1>4. last \in Nat \ {0} /\ IsObject(Top(m)) /\ Len(TopParts(m)) \in Nat
  BY <1>2, <1>3, CallsAre
<1>5. AtReturn(m) /\ Top(m).done = Len(TopParts(m))
  BY <1>1, <1>2 DEF AtReturn
<1>6. pos + 1 \in 1..Len(trace) /\ Follows(m, next) /\ CallsInv(next)
  BY <1>1, StepLeft
<1>7. next = Returned(m)
  BY <1>2, <1>4, <1>5, <1>6 DEF Follows, AtObject, AtPart
<1>8. /\ IsSeq(next.writing) /\ Len(next.writing) = last - 1
      /\ \A i \in 1..(last - 1) : next.writing[i] = m.writing[i]
      /\ next.s = m.s
      /\ next.written = IF last = 1 THEN m.written + 1 ELSE m.written
  BY <1>2, <1>3, <1>5, <1>7, ReturnedIs
<1>9. ~lost => value = Top(m).value
  BY <1>2, <1>4, <1>5, MakesValue DEF TopParts
<1>10. IsSeq(callers) /\ Len(callers) = last - 1 /\ \A i \in 1..(last - 1) : callers[i] = reading[i]
  <2>1. PICK v : v = reading
    OBVIOUS
  <2>2. IsSeq(v) /\ last - 1 \in 0..Len(v)
    BY <1>2, <1>4, <2>1
  <2> HIDE DEF last
  <2>3. /\ IsSeq(SubSeq(v, 1, last - 1)) /\ Len(SubSeq(v, 1, last - 1)) = last - 1
        /\ \A i \in 1..(last - 1) : SubSeq(v, 1, last - 1)[i] = v[i]
    BY <2>2, PrefixIs
  <2> QED
    BY <2>1, <2>3
<1> HIDE DEF callers, value
<1>11. callers = <<>> <=> last = 1
  BY <1>4, <1>10, EmptyIs
<1>12. IsSeq(out) /\ IsStream(d)
       /\ (~lost => \A i \in 1..Len(out) : out[i] = Objects[batch[i]].value)
  BY <1>3 DEF SerdeIInv, ReadInv
<1>13. TraceInv' /\ Final' = Final /\ trace'[pos'] = next
  BY <1>1, <1>3, SameTrace DEF Final
<1>14. /\ IsSeq(out') /\ Len(out') = next.written
       /\ ~lost => \A i \in 1..Len(out') : out'[i] = Objects[batch[i]].value
  <2>1. CASE last = 1
    <3>1. PICK v : v = Append(out, value)
      OBVIOUS
    <3>2. /\ IsSeq(v) /\ Len(v) = Len(out) + 1 /\ v[Len(out) + 1] = value
          /\ \A i \in 1..Len(out) : v[i] = out[i]
      BY <1>12, <3>1, AppendIs
    <3>3. out' = v
      BY <1>1, <1>11, <2>1, <3>1
    <3>4. Len(out) \in Nat /\ Top(m) = m.writing[1]
      BY <1>2, <1>12, <2>1, EmptyIs DEF Top
    <3>5. m.writing[1].value = Objects[batch[m.written + 1]].value
      BY <1>2, <1>3 DEF CallsInv
    <3>6. ~lost => v[Len(out) + 1] = Objects[batch[Len(out) + 1]].value
      BY <1>2, <1>9, <3>2, <3>4, <3>5
    <3>7. ASSUME ~lost, NEW i \in 1..(Len(out) + 1) PROVE v[i] = Objects[batch[i]].value
      <4>1. CASE i = Len(out) + 1
        BY <3>6, <3>7, <4>1
      <4>2. CASE i # Len(out) + 1
        <5>1. i \in 1..Len(out)
          BY <3>4, <4>2
        <5> QED
          BY <1>12, <3>2, <3>7, <5>1
      <4> QED
        BY <4>1, <4>2
    <3> QED
      BY <1>2, <1>8, <2>1, <3>2, <3>3, <3>7
  <2>2. CASE last # 1
    BY <1>1, <1>2, <1>8, <1>11, <1>12, <2>2
  <2> QED
    BY <2>1, <2>2
<1>15. IsSeq(reading') /\ Len(reading') = last - 1
       /\ \A i \in 1..(last - 1) :
             Answers(reading'[i], next.writing[i],
                     IF i < last - 1 THEN next.writing[i].done - 1 ELSE next.writing[i].done)
  <2>1. CASE last = 1
    BY <1>1, <1>11, <2>1, EmptyIs
  <2>2. CASE last # 1
    <3> DEFINE k == last - 1
               got == [callers[k] EXCEPT !.got = Append(@, value)]
               c == m.writing[k]
    <3>1. k \in 1..k /\ k \in Nat /\ k + 1 = last
      BY <1>4, <2>2
    <3>2. reading' = [callers EXCEPT ![k] = got]
      BY <1>1, <1>10, <1>11, <2>2
    <3>3. /\ IsSeq(reading') /\ Len(reading') = k /\ reading'[k] = got
          /\ \A i \in 1..k : i # k => reading'[i] = callers[i]
      <4> HIDE DEF got
      <4>1. PICK v, j, g : v = callers /\ j = k /\ g = got
        OBVIOUS
      <4>2. Len(v) = j /\ j \in 1..j
        BY <1>10, <3>1, <4>1
      <4>3. IsSeq(v) /\ j \in 1..Len(v)
        BY <1>10, <4>1, <4>2
      <4>4. LET w == [v EXCEPT ![j] = g]
            IN  /\ IsSeq(w) /\ Len(w) = Len(v) /\ w[j] = g
                /\ \A i \in 1..Len(v) : i # j => w[i] = v[i]
        BY <4>3, ExceptIs
      <4>5. reading' = [v EXCEPT ![j] = g]
        BY <3>2, <4>1
      <4> QED
        BY <4>1, <4>2, <4>4, <4>5
    <3>4. /\ c.done > 0 /\ c.done \in Nat
          /\ Top(m).value = Parts(c.type, c.value)[c.done].value
      <4>1. k \in 1..(Len(m.writing) - 1) /\ k \in 1..Len(m.writing) /\ Top(m) = m.writing[k + 1]
        BY <1>2, <3>1 DEF Top
      <4>2. c.done > 0 /\ m.writing[k + 1].value = Parts(c.type, c.value)[c.done].value
        BY <1>3, <4>1 DEF CallsInv
      <4>3. c.done \in 0..Len(Parts(c.type, c.value)) /\ IsObject(c)
        BY <1>3, <4>1 DEF CallsInv
      <4>4. c.done \in Nat
        BY <4>3, ObjectIs
      <4> QED
        BY <4>1, <4>2, <4>4
    <3>5. Answers(got, c, c.done)
      <4>1. Answers(callers[k], c, c.done - 1)
        BY <1>2, <1>10, <3>1
      <4>2. PICK done \in Nat : done = c.done - 1
        BY <3>4
      <4>3. done + 1 = c.done
        BY <3>4, <4>2
      <4>4. ~lost => value = Parts(c.type, c.value)[done + 1].value
        BY <1>9, <3>4, <4>3
      <4>5. PICK r : r = callers[k]
        OBVIOUS
      <4>6. Answers(r, c, done)
        BY <4>1, <4>2, <4>5
      <4> HIDE DEF c
      <4>7. Answers([r EXCEPT !.got = Append(@, value)], c, done + 1)
        BY <4>4, <4>6, GetsOne
      <4> QED
        BY <4>3, <4>5, <4>7
    <3> HIDE DEF got
    <3>6. ASSUME NEW i \in 1..k
          PROVE  Answers(reading'[i], next.writing[i],
                         IF i < k THEN next.writing[i].done - 1 ELSE next.writing[i].done)
      <4>1. next.writing[i] = m.writing[i]
        BY <1>8
      <4>2. CASE i = k
        <5>1. next.writing[i] = c
          BY <4>1, <4>2
        <5> HIDE DEF c, next, k
        <5>2. ~(i < k) /\ reading'[i] = got
          BY <3>1, <3>3, <4>2
        <5> QED
          BY <3>5, <5>1, <5>2
      <4>3. CASE i # k
        <5>1. i < k /\ reading'[i] = reading[i]
          BY <1>10, <3>1, <3>3, <4>3
        <5> QED
          BY <1>2, <4>1, <5>1
      <4> QED
        BY <4>2, <4>3
    <3> QED
      BY <3>3, <3>6
  <2> QED
    BY <2>1, <2>2
<1> HIDE DEF next, m, last
<1>16. (\A i \in 1..Len(reading) :
            LET k == trace[pos].writing[i]
            IN  Answers(reading[i], k, IF i < Len(reading) THEN k.done - 1 ELSE k.done))'
  BY <1>1, <1>13, <1>15, SameAnswer
<1>17. (IsStream(d) /\ IsSeq(reading) /\ Len(out) = trace[pos].written
        /\ Len(reading) = Len(trace[pos].writing))'
  <2>1. IsStream(d)'
    BY <1>1, <1>12 DEF IsStream, IsSeq
  <2>2. Len(out') = trace'[pos'].written
    BY <1>13, <1>14
  <2>3. Len(reading') = Len(trace'[pos'].writing)
    BY <1>8, <1>13, <1>15
  <2>4. IsSeq(reading)'
    BY <1>15 DEF IsSeq
  <2> QED
    BY <2>1, <2>2, <2>3, <2>4
<1>18. (\A lane \in Lanes : ~lost \/ lane # "fds" => Rest(d[lane], trace[pos].s[lane], Final.s[lane]))'
  <2>1. \A lane \in Lanes : ~lost \/ lane # "fds" => Rest(d[lane], next.s[lane], Final.s[lane])
    BY <1>3, <1>8 DEF ReadInv, m
  <2> QED
    BY <1>1, <1>13, <2>1 DEF Rest
<1>19. (lost => Len(trace[pos].s["fds"]) + Len(d["fds"]) < Len(Final.s["fds"]))'
  <2>1. lost => Short(next.s["fds"], d["fds"], Final.s["fds"])
    BY <1>3, <1>8 DEF ReadInv, Short, m
  <2> QED
    BY <1>1, <1>13, <2>1 DEF Short
<1>20. (~lost => \A i \in 1..Len(out) : out[i] = Objects[batch[i]].value)'
  BY <1>1, <1>14
<1>21. ReadInv'
  BY <1>16, <1>17, <1>18, <1>19, <1>20 DEF ReadInv
<1>22. /\ windows \in BOOLEAN /\ lost \in BOOLEAN /\ batch \in Seq(Sent)
  BY DEF SerdeIInv
<1> QED
  BY <1>1, <1>6, <1>13, <1>14, <1>21, <1>22 DEF SerdeIInv, IsSeq
-----------------------------------------------------------------------------
(* The theorems *)

(* If nothing changes, the invariant stays. *)
LEMMA KeepStutter ==
    ASSUME SerdeIInv, UNCHANGED serde
    PROVE  SerdeIInv'
<1>1. UNCHANGED <<windows, batch, s, writing, written, d, reading, out, lost, stage, trace, pos>>
  BY DEF serde, history
<1>2. Final' = Final /\ Now' = Now
  BY <1>1 DEF Final, Now, Moment
<1>3. TraceInv'
  <2>1. TraceInv
    BY DEF SerdeIInv
  <2>2. \A k : CallsInv(trace[k])' <=> CallsInv(trace[k])
    BY <1>1, SameHistory
  <2>3. \A k : Follows(trace[k], trace[k + 1])' <=> Follows(trace[k], trace[k + 1])
    BY <1>1, SameHistory
  <2>4. \A k : Grows(trace[k].s, Final.s)' <=> Grows(trace[k].s, Final.s)
    BY <1>1, <1>2 DEF Grows
  <2> QED
    BY <1>1, <1>2, <2>1, <2>2, <2>3, <2>4 DEF TraceInv, IsSeq, Moment, Nothing
<1>4. ReadInv <=> ReadInv'
  <2>1. \A i, c, done : Answers(reading[i], c, done)' <=> Answers(reading[i], c, done)
    BY <1>1, SameAnswer
  <2>2. \A lane \in Lanes : Rest(d[lane], trace[pos].s[lane], Final.s[lane])'
                            <=> Rest(d[lane], trace[pos].s[lane], Final.s[lane])
    BY <1>1, <1>2 DEF Rest
  <2>3. IsStream(d)' <=> IsStream(d)
    BY <1>1 DEF IsStream, IsSeq
  <2> QED
    BY <1>1, <1>2, <2>1, <2>2, <2>3 DEF ReadInv, IsSeq
<1> QED
  BY <1>1, <1>3, <1>4 DEF SerdeIInv, IsSeq

(* Every step keeps the invariant. *)
LEMMA SerdeNextInv == SerdeIInv /\ [SerdeNext]_serde => SerdeIInv'
<1> SUFFICES ASSUME SerdeIInv, [SerdeNext]_serde PROVE SerdeIInv'
  OBVIOUS
<1>1. CASE SerializeObject
  <2>1. PICK m : m = NextObject(Now)
    OBVIOUS
  <2>2. Follows(Now, m) /\ Becomes(m)
    BY <1>1, <2>1 DEF SerializeObject, Follows
  <2> QED
    BY <2>2, KeepSerializing
<1>2. CASE SerializePart
  <2>1. PICK m : m = NextPart(Now)
    OBVIOUS
  <2>2. Follows(Now, m) /\ Becomes(m)
    BY <1>2, <2>1 DEF SerializePart, Follows
  <2> QED
    BY <2>2, KeepSerializing
<1>3. CASE SerializeReturns
  <2>1. PICK m : m = Returned(Now)
    OBVIOUS
  <2>2. Follows(Now, m) /\ Becomes(m)
    BY <1>3, <2>1 DEF SerializeReturns, Follows
  <2> QED
    BY <2>2, KeepSerializing
<1>4. CASE Transmit
  BY <1>4, KeepTransmit
<1>5. CASE DeserializeObject
  BY <1>5, KeepDeserializeObject
<1>6. CASE DeserializePart
  BY <1>6, KeepDeserializePart
<1>7. CASE DeserializeReturns
  BY <1>7, KeepDeserializeReturns
<1>8. CASE UNCHANGED serde
  BY <1>8, KeepStutter
<1> QED
  BY <1>1, <1>2, <1>3, <1>4, <1>5, <1>6, <1>7, <1>8 DEF SerdeNext

(* At every moment the calls of deserialize_self that are active answer the *)
(* calls of serialize_self that were active when as much had been written,  *)
(* and what is left to read is what was written from there on.              *)
THEOREM SerdeInvariance == SerdeSpec => []SerdeIInv
<1>1. SerdeInit => SerdeIInv
  BY SerdeInitInv
<1>2. SerdeIInv /\ [SerdeNext]_serde => SerdeIInv'
  BY SerdeNextInv
<1> QED
  BY <1>1, <1>2, PTL DEF SerdeSpec

(* Whatever the types of the objects, their values and their number, the k-th *)
(* object that is deserialized is the k-th that was serialized, and nothing   *)
(* panics, as long as the transport installs the descriptors.                 *)
THEOREM ObjectsRoundTrip == SerdeSpec => []RoundTrip
<1>1. ASSUME SerdeIInv PROVE RoundTrip
  <2> SUFFICES ASSUME ~lost
               PROVE  stage # "panicked" /\ \A i \in 1..Len(out) : out[i] = Objects[batch[i]].value
    BY DEF RoundTrip
  <2>1. stage # "panicked" /\ stage \in {"serializing", "deserializing", "panicked"}
    BY <1>1 DEF SerdeIInv
  <2>2. CASE stage = "serializing"
    <3>1. out = <<>>
      BY <1>1, <2>2 DEF SerdeIInv
    <3>2. \A i \in 1..Len(out) : FALSE
      <4>1. Len(out) = 0
        BY <3>1, EmptyIs
      <4> QED
        BY <4>1
    <3> QED
      BY <2>1, <3>2
  <2>3. CASE stage = "deserializing"
    BY <1>1, <2>1, <2>3 DEF SerdeIInv, ReadInv
  <2> QED
    BY <2>1, <2>2, <2>3
<1> QED
  BY <1>1, SerdeInvariance, PTL

(* The deserializer has made all objects: it has come to the end. *)
LEMMA AllRead ==
    ASSUME SerdeIInv, stage = "deserializing", Len(out) = Len(batch)
    PROVE  trace[pos] = Final
<1> DEFINE m == trace[pos]
<1>1. /\ CallsInv(m) /\ TraceInv /\ ReadInv /\ pos \in Nat /\ Len(trace) \in Nat /\ pos <= Len(trace)
      /\ Len(batch) \in Nat
  BY MomentRead
<1>2. m.written = Len(batch)
  BY <1>1 DEF ReadInv
<1>3. m.writing = <<>>
  <2>1. m.writing # <<>> => m.written < Len(batch)
    BY <1>1 DEF CallsInv
  <2> QED
    BY <1>1, <1>2, <2>1
<1>4. ASSUME NEW next PROVE ~Follows(m, next)
  BY <1>1, <1>2, <1>3 DEF Follows, AtObject, AtPart, AtReturn
<1>5. pos \in 1..Len(trace)
  BY DEF SerdeIInv
<1>6. pos \notin 1..(Len(trace) - 1)
  BY <1>1, <1>4 DEF TraceInv
<1> QED
  BY <1>1, <1>5, <1>6 DEF Final

(* Nothing is left of what was sent when the last object has been read: no *)
(* byte and no resource, on either platform, and whatever was lost, no     *)
(* descriptor either.                                                      *)
THEOREM NothingIsLeft == SerdeSpec => []NothingLeft
<1>1. ASSUME SerdeIInv PROVE NothingLeft
  <2> SUFFICES ASSUME stage = "deserializing", Len(out) = Len(batch), NEW lane \in Lanes
               PROVE  d[lane] = <<>>
    BY DEF NothingLeft
  <2>1. trace[pos] = Final
    BY <1>1, AllRead
  <2>2. IsStream(Final.s) /\ ReadInv
    BY <1>1, MomentRead
  <2>3. ~lost
    <3>1. PICK u, v : u = Final.s["fds"] /\ v = d["fds"]
      OBVIOUS
    <3>2. Len(u) \in Nat /\ Len(v) \in Nat
      BY <2>2, <3>1, EmptyIs DEF ReadInv, IsStream, Lanes
    <3>3. lost => Len(u) + Len(v) < Len(u)
      BY <2>1, <2>2, <3>1 DEF ReadInv
    <3> QED
      BY <3>2, <3>3
  <2>4. PICK u, v : u = Final.s[lane] /\ v = d[lane]
    OBVIOUS
  <2>5. IsSeq(u) /\ IsSeq(v) /\ Rest(v, u, u)
    BY <2>1, <2>2, <2>3, <2>4 DEF ReadInv, IsStream
  <2>6. Len(u) \in Nat /\ Len(v) \in Nat /\ Len(u) + Len(v) = Len(u)
    BY <2>5, EmptyIs DEF Rest
  <2>7. Len(v) = 0
    BY <2>6
  <2> QED
    BY <2>4, <2>5, <2>7, EmptyIs
<1> QED
  BY <1>1, SerdeInvariance, PTL

(* A message of one object yields no object if descriptors of it were lost. *)
THEOREM ShortTables == SerdeSpec => []ShortTableYieldsNothing
<1>1. ASSUME SerdeIInv PROVE ShortTableYieldsNothing
  <2> SUFFICES ASSUME lost, Len(batch) = 1 PROVE out = <<>>
    BY DEF ShortTableYieldsNothing
  <2>1. IsSeq(out) /\ stage \in {"serializing", "deserializing", "panicked"}
    BY <1>1 DEF SerdeIInv
  <2>2. Len(out) \in Nat
    BY <2>1, EmptyIs
  <2>3. stage # "serializing"
    BY <1>1 DEF SerdeIInv
  <2>4. CASE stage = "panicked"
    <3>1. Len(out) < 1
      BY <1>1, <2>4 DEF SerdeIInv
    <3>2. Len(out) = 0
      BY <2>2, <3>1
    <3> QED
      BY <2>1, <3>2, EmptyIs
  <2>5. CASE stage = "deserializing"
    <3>1. Len(out) # 1
      <4> SUFFICES ASSUME Len(out) = 1 PROVE FALSE
        OBVIOUS
      <4>1. trace[pos] = Final
        BY <1>1, <2>5, AllRead
      <4>2. IsStream(Final.s) /\ ReadInv
        BY <1>1, <2>5, MomentRead
      <4>3. PICK u, v : u = Final.s["fds"] /\ v = d["fds"]
        OBVIOUS
      <4>4. Len(u) \in Nat /\ Len(v) \in Nat
        BY <4>2, <4>3, EmptyIs DEF ReadInv, IsStream, Lanes
      <4>5. Len(u) + Len(v) < Len(u)
        BY <4>1, <4>2, <4>3 DEF ReadInv
      <4> QED
        BY <4>4, <4>5
    <3>2. Len(out) <= 1
      <4>1. Len(out) = trace[pos].written /\ trace[pos].written <= Len(batch)
        BY <1>1, <2>5, MomentRead DEF ReadInv
      <4> QED
        BY <4>1
    <3>3. Len(out) = 0
      BY <2>2, <3>1, <3>2
    <3> QED
      BY <2>1, <3>3, EmptyIs
  <2> QED
    BY <2>1, <2>3, <2>4, <2>5
<1> QED
  BY <1>1, SerdeInvariance, PTL
=============================================================================
