-------------------------- MODULE FunctionObjects --------------------------
(***************************************************************************)
(* Functions as objects: src/src/fns.rs and what #[func] generates for     *)
(* calls.  lambda! turns its body into a function whose first parameters   *)
(* are the captures, binds them one by one and boxes the result.  Every    *)
(* bind wraps the callable in a layer (BoundValue, BoundMut or BoundRef)   *)
(* with one captured value, its head; a call passes the layers from the    *)
(* outermost to the function, and each puts its head before the arguments. *)
(* Between calls the box may be sent to another process.                   *)
(*                                                                         *)
(* An argument is a value or a reference to the head of a layer.  The      *)
(* variable env is not in the code: it is the environment the programmer   *)
(* of the lambda has in mind, the captures as the body has last left them. *)
(*                                                                         *)
(* Definitions whose comment begins with "Faulty variant" are not used.    *)
(***************************************************************************)
EXTENDS Relocation, Sequences

CONSTANTS
    Captures,   \* how each value is captured: a sequence of "value", "mut", "ref"
    CopyHeads,  \* BOOLEAN: whether values captured by value are Copy
    Body,       \* the place of its code, or of the vtable of the boxed item
    Values, Arity,
    MaxCalls    \* bound: calls of one callable

Kinds == {"once", "mut", "fn"}

ASSUME FunctionsAssumption ==
    /\ Captures \in Seq({"value", "mut", "ref"})
    /\ CopyHeads \in BOOLEAN
    /\ Body \in Places /\ Arity \in Nat /\ MaxCalls \in Nat

VARIABLES
    phase,     \* of the callable: what is done with it
    heads,     \* heads[k]: the head of layer k; layer 1 wraps the function
    home,      \* the process it is in
    pointer,   \* the pointer it is entered by
    kind,      \* the trait of the call in progress
    depth,     \* layers the call has still to pass
    args,      \* its arguments so far
    given,     \* the arguments of the caller
    env,
    calls

call == <<kind, depth, args, given>>
vars == <<phase, heads, home, pointer, call, env, calls>>

n == Len(Captures)

ByValue(v) == [by |-> "value", v |-> v]
ByRef(k)   == [by |-> Captures[k], at |-> k]

Argument ==
    [by : {"value"}, v : Values] \cup [by : {"mut", "ref"}, at : 1..n]

\* What the body reads through a parameter.
Deref(arg) == IF arg.by = "value" THEN arg.v ELSE heads[arg.at]

TypeOK ==
    /\ phase \in {"binding", "idle", "calling", "running", "consumed"}
    /\ heads \in Seq(Values) /\ env \in Seq(Values)
    /\ home \in Processes /\ pointer \in Address
    /\ kind \in Kinds /\ depth \in 0..(n + 1)
    /\ args \in Seq(Argument) /\ given \in Seq(Values)
    /\ calls \in 0..MaxCalls

Init ==
    /\ phase = "binding" /\ heads = <<>> /\ env = <<>>
    /\ home \in Processes /\ pointer = AddressOf(Body, home)
    /\ kind = "once" /\ depth = 0 /\ args = <<>> /\ given = <<>> /\ calls = 0
-----------------------------------------------------------------------------
(* lambda! *)

\* bind_value, bind_mut or bind_ref: a layer around those there are.
Wrap(v) == heads' = Append(heads, v)

\* lambda_bind: the next capture.
Bind(v) ==
    /\ phase = "binding" /\ Len(heads) < n
    /\ Wrap(v)
    /\ env' = Append(env, v)
    /\ UNCHANGED <<phase, home, pointer, call, calls>>

\* Box::new.
LambdaReady ==
    /\ phase = "binding" /\ Len(heads) = n
    /\ phase' = "idle"
    /\ UNCHANGED <<heads, home, pointer, call, env, calls>>
-----------------------------------------------------------------------------
(* Calls *)

\* The impls for the layers exist for FnOnce; for FnMut if what is captured by
\* value is Copy; for Fn if besides nothing is captured by mutable reference.
Callable(k) ==
    \A i \in 1..n :
        /\ Captures[i] = "value" => k = "once" \/ CopyHeads
        /\ Captures[i] = "mut" => k # "fn"

\* A boxed callable is called once by way of Box<T>.
Call(k, values) ==
    /\ phase = "idle" /\ Callable(k) /\ calls < MaxCalls
    /\ phase' = "calling" /\ kind' = k /\ given' = values
    /\ depth' = IF k = "once" THEN n + 1 ELSE n
    /\ args' = [i \in 1..Arity |-> ByValue(values[i])]
    /\ calls' = calls + 1
    /\ UNCHANGED <<heads, home, pointer, env>>

\* Faulty variant: call_object_box of Box<T> calls itself.
EnterBoxAgain ==
    /\ phase = "calling" /\ depth = n + 1
    /\ UNCHANGED vars

\* call_object_once of Box<T> and call_object_box of T.
EnterBox ==
    /\ phase = "calling" /\ depth = n + 1
    /\ depth' = n
    /\ UNCHANGED <<phase, heads, home, pointer, kind, args, given, env, calls>>

\* Faulty variant: the accumulator of reverse! is the wrong way round.
PrependLast(head, tail) == Append(tail, head)

\* reverse!([] (args.m), ..., (args.0), (head)).
Prepend(head, tail) == <<head>> \o tail

EnterLayer(mode, head) ==
    /\ phase = "calling" /\ depth \in 1..n /\ Captures[depth] = mode
    /\ args' = Prepend(head, args)
    /\ depth' = depth - 1
    /\ UNCHANGED <<phase, heads, home, pointer, kind, given, env, calls>>

EnterBoundValue == EnterLayer("value", ByValue(heads[depth]))

EnterBoundMut == EnterLayer("mut", ByRef(depth))

EnterBoundRef == EnterLayer("ref", ByRef(depth))

\* The function is a StaticFn or a #[func] item.  Nothing else depends on which,
\* and the model leaves it open.  StaticFn: get_fn and the call with the fields of
\* the tuple.
EnterStaticFn ==
    /\ phase = "calling" /\ depth = 0
    /\ phase' = "running"
    /\ UNCHANGED <<heads, home, pointer, call, env, calls>>

\* CallWrapper, InternalFn* of the generated type, and invoke.
EnterItem ==
    /\ phase = "calling" /\ depth = 0
    /\ phase' = "running"
    /\ UNCHANGED <<heads, home, pointer, call, env, calls>>

\* The body has assigned values[k] to its k-th parameter if that is a mutable
\* reference, and returns.  call_once has consumed the callable.
Return(values) ==
    /\ phase = "running"
    /\ phase' = IF kind = "once" THEN "consumed" ELSE "idle"
    /\ env' = [k \in 1..n |-> IF Captures[k] = "mut" THEN values[k] ELSE env[k]]
    /\ heads' = [k \in 1..n |->
          IF \E i \in 1..n : args[i].by = "mut" /\ args[i].at = k
          THEN values[CHOOSE i \in 1..n : args[i].by = "mut" /\ args[i].at = k]
          ELSE heads[k]]
    /\ UNCHANGED <<home, pointer, call, calls>>

\* RelocatablePtr, of the StaticFn or of the box.
PointerSent(q) == RelocateIn(RelocateOut(pointer, home), q)

\* The box is serialized, sent and deserialized; each layer sends func and head.
Send(q) ==
    /\ phase = "idle"
    /\ home' = q
    /\ pointer' = PointerSent(q)
    /\ UNCHANGED <<phase, heads, call, env, calls>>

Next ==
    \/ LambdaReady \/ EnterBox
    \/ EnterBoundValue \/ EnterBoundMut \/ EnterBoundRef
    \/ EnterStaticFn \/ EnterItem
    \/ \E v \in Values : Bind(v)
    \/ \E k \in Kinds, values \in [1..Arity -> Values] : Call(k, values)
    \/ \E values \in [1..n -> Values] : Return(values)
    \/ \E q \in Processes : Send(q)

Spec == Init /\ [][Next]_vars

\* A call that has begun goes on; the body may run for ever.
FairSpec ==
    /\ Spec
    /\ WF_vars(EnterBox \/ EnterBoundValue \/ EnterBoundMut \/ EnterBoundRef
               \/ EnterStaticFn \/ EnterItem)
-----------------------------------------------------------------------------
(* The inductive invariant *)

\* Layers whose heads are in args.
Passed == IF depth = n + 1 THEN 0 ELSE n - depth

\* What layer k puts before the arguments.
HeadOf(k) == IF Captures[k] = "value" THEN ByValue(heads[k]) ELSE ByRef(k)

HeadsAreEnv ==
    /\ heads = env /\ Len(heads) <= n
    /\ phase # "binding" => Len(heads) = n

ArgsSoFar ==
    phase \in {"calling", "running"} =>
        /\ Len(given) = Arity /\ Len(args) = Passed + Arity
        /\ \A i \in 1..Passed : args[i] = HeadOf(depth + i)
        /\ \A i \in 1..Arity : args[Passed + i] = ByValue(given[i])

\* Between two layers of a call, args is a stretch of the environment and what
\* the caller gave.
IInv ==
    /\ TypeOK /\ HeadsAreEnv /\ ArgsSoFar
    /\ pointer = AddressOf(Body, home)
    /\ phase = "running" => depth = 0
-----------------------------------------------------------------------------
(* Properties *)

\* The body finds the captures in its first parameters in the order of the
\* lambda, as earlier calls in any process have left them, and then the
\* arguments of the caller.
BodySeesEnvironment ==
    phase = "running" =>
        /\ Len(args) = n + Arity
        /\ \A k \in 1..n : Deref(args[k]) = env[k]
        /\ \A i \in 1..Arity : Deref(args[n + i]) = given[i]

\* A call enters the code of this lambda in whatever process it is made.
EntersBody == phase = "running" => pointer = AddressOf(Body, home)

\* A callable that was not consumed has lost nothing of its environment.
KeepsEnvironment == phase = "idle" => heads = env

\* A call passes every layer and reaches the body; in particular Box<T> does not
\* call itself.
ReachesBody == phase = "calling" ~> phase = "running"
=============================================================================
