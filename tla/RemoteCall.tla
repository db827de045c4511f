----------------------------- MODULE RemoteCall -----------------------------
(***************************************************************************)
(* What src/src/asynchronous.rs promises the caller of a function that     *)
(* runs in another process, by spawn and join or by way of a pool of       *)
(* workers: the function is called at most once; Ok means that it has run  *)
(* to its end; Err means that it has not and never will.  Whoever turns    *)
(* away (drops the future, or is interrupted) learns nothing, and the      *)
(* function may be called all the same.                                    *)
(***************************************************************************)
CONSTANT Calls

VARIABLES caller,   \* caller[c]: what the caller knows
          callee    \* callee[c]: what has become of the function

vars == <<caller, callee>>

Init ==
    /\ caller = [c \in Calls |-> "idle"]
    /\ callee = [c \in Calls |-> "idle"]

Call(c) ==
    /\ caller[c] = "idle"
    /\ caller' = [caller EXCEPT ![c] = "pending"]
    /\ UNCHANGED callee

\* The function is called, never after an error was reported.
Begin(c) ==
    /\ caller[c] \in {"pending", "left"} /\ callee[c] = "idle"
    /\ callee' = [callee EXCEPT ![c] = "running"]
    /\ UNCHANGED caller

\* It has returned and its value is safe.
Succeed(c) ==
    /\ callee[c] = "running"
    /\ callee' = [callee EXCEPT ![c] = "done"]
    /\ UNCHANGED caller

\* Its process ends before that.
Stop(c) ==
    /\ caller[c] # "idle" /\ callee[c] \in {"idle", "running"}
    /\ callee' = [callee EXCEPT ![c] = "stopped"]
    /\ UNCHANGED caller

Answer(c) ==
    /\ caller[c] = "pending" /\ callee[c] = "done"
    /\ caller' = [caller EXCEPT ![c] = "ok"]
    /\ UNCHANGED callee

\* An error is reported, and settles that the function is not called.
Fail(c) ==
    /\ caller[c] = "pending" /\ callee[c] \in {"idle", "stopped"}
    /\ caller' = [caller EXCEPT ![c] = "err"]
    /\ callee' = [callee EXCEPT ![c] = "stopped"]

Leave(c) ==
    /\ caller[c] = "pending"
    /\ caller' = [caller EXCEPT ![c] = "left"]
    /\ UNCHANGED callee

Next == \E c \in Calls :
    \/ Call(c) \/ Begin(c) \/ Succeed(c) \/ Stop(c)
    \/ Answer(c) \/ Fail(c) \/ Leave(c)

Spec == Init /\ [][Next]_vars
=============================================================================
