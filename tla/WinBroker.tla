------------------------------- MODULE WinBroker -------------------------------
(***************************************************************************)
(* How handles travel on Windows: serialize_with_handles and               *)
(* deserialize_with_handles of src/src/platform/windows/internals.rs.  The *)
(* sender duplicates each handle into the broker process and sends the     *)
(* values; the receiver steals them from it.  The system reuses a handle   *)
(* value of the broker as soon as it has been stolen.                      *)
(*                                                                         *)
(* Every object is sent once, by threads and processes that share nothing  *)
(* but the broker.  Handles come before sockets in a message; both are     *)
(* entries of Resources[o] here.                                           *)
(*                                                                         *)
(* Definitions whose comment begins with "Faulty variant" are not used.    *)
(***************************************************************************)
EXTENDS Naturals, Sequences, FiniteSets

CONSTANTS
    Objects,
    Resources,  \* Resources[o]: the handles object o owns, a sequence
    Values,     \* handle values of the broker; bound: how many it can have
    Free

AllResources == UNION {{Resources[o][i] : i \in 1..Len(Resources[o])} : o \in Objects}

ASSUME BrokerAssumption ==
    /\ \A o \in Objects : Resources[o] \in Seq(AllResources)
    /\ Free \notin AllResources

VARIABLES
    table,    \* table[v]: the resource that value v names in the broker, or Free
    stage,    \* stage[o]: where object o is
    values,   \* values[o]: the values in its message
    received  \* received[o]: the handles its receiver has stolen
vars == <<table, stage, values, received>>

Stages == {"sent_not", "copying", "wire", "stealing", "received", "broken", "failed"}

TypeOK ==
    /\ table \in [Values -> AllResources \cup {Free}]
    /\ stage \in [Objects -> Stages]
    /\ values \in [Objects -> Seq(Values)]
    /\ received \in [Objects -> Seq(AllResources)]

Init ==
    /\ table = [v \in Values |-> Free]
    /\ stage = [o \in Objects |-> "sent_not"]
    /\ values = [o \in Objects |-> <<>>] /\ received = [o \in Objects |-> <<>>]
-----------------------------------------------------------------------------
(* serialize_with_handles, and the write of the message *)

\* serialize_self moves the handles into the tables of the serializer.
Serialize(o) ==
    /\ stage[o] = "sent_not" /\ stage' = [stage EXCEPT ![o] = "copying"]
    /\ UNCHANGED <<table, values, received>>

\* copy_handle, for the next handle; the sender's own is closed after it.
CopyHandle(o) ==
    /\ stage[o] = "copying" /\ Len(values[o]) < Len(Resources[o])
    /\ \E v \in Values :
          /\ table[v] = Free
          /\ table' = [table EXCEPT ![v] = Resources[o][Len(values[o]) + 1]]
          /\ values' = [values EXCEPT ![o] = Append(@, v)]
    /\ UNCHANGED <<stage, received>>

Write(o) ==
    /\ stage[o] = "copying" /\ Len(values[o]) = Len(Resources[o])
    /\ stage' = [stage EXCEPT ![o] = "wire"]
    /\ UNCHANGED <<table, values, received>>

\* A duplication or the write fails, or the future is dropped: collect::<Result>
\* closes what has not been copied, and nothing takes back what has.
SendFails(o) ==
    /\ stage[o] = "copying" /\ stage' = [stage EXCEPT ![o] = "failed"]
    /\ UNCHANGED <<table, values, received>>
-----------------------------------------------------------------------------
(* deserialize_with_handles *)

Read(o) ==
    /\ stage[o] = "wire" /\ stage' = [stage EXCEPT ![o] = "stealing"]
    /\ UNCHANGED <<table, values, received>>

\* Faulty variant: without DUPLICATE_CLOSE_SOURCE.
StealHandleKeeping(o) ==
    /\ stage[o] = "stealing" /\ Len(received[o]) < Len(values[o])
    /\ LET v == values[o][Len(received[o]) + 1]
       IN  table[v] # Free /\ received' = [received EXCEPT ![o] = Append(@, table[v])]
    /\ UNCHANGED <<table, stage, values>>

\* steal_handle, for the next value; it closes the broker's.
StealHandle(o) ==
    /\ stage[o] = "stealing" /\ Len(received[o]) < Len(values[o])
    /\ LET v == values[o][Len(received[o]) + 1]
       IN  /\ table[v] # Free
           /\ received' = [received EXCEPT ![o] = Append(@, table[v])]
           /\ table' = [table EXCEPT ![v] = Free]
    /\ UNCHANGED <<stage, values>>

Deserialized(o) ==
    /\ stage[o] = "stealing" /\ Len(received[o]) = Len(values[o])
    /\ stage' = [stage EXCEPT ![o] = "received"]
    /\ UNCHANGED <<table, values, received>>

\* Faulty variant: cleans up every value of the message, the stolen ones too.
RecvFailsClosing(o) ==
    /\ stage[o] \in {"wire", "stealing"} /\ stage' = [stage EXCEPT ![o] = "failed"]
    /\ table' = [v \in Values |->
                    IF \E i \in 1..Len(values[o]) : values[o][i] = v THEN Free ELSE table[v]]
    /\ UNCHANGED <<values, received>>

\* steal_handle fails: DUPLICATE_CLOSE_SOURCE closes the broker's handle whatever
\* the status, so its value may be given out again.  What was stolen is closed in
\* the receiver, the values after it stay in the broker.
StealFails(o) ==
    /\ stage[o] = "stealing" /\ Len(received[o]) < Len(values[o])
    /\ LET v == values[o][Len(received[o]) + 1]
       IN  table' = [table EXCEPT ![v] = Free]
    /\ stage' = [stage EXCEPT ![o] = "broken"]
    /\ UNCHANGED <<values, received>>

\* The message is lost with its stream or with the receiving process, or a steal
\* fails before the system gets to the handle.
RecvFails(o) ==
    /\ stage[o] \in {"wire", "stealing"} /\ stage' = [stage EXCEPT ![o] = "failed"]
    /\ UNCHANGED <<table, values, received>>
-----------------------------------------------------------------------------
Next == \E o \in Objects :
    \/ Serialize(o) \/ CopyHandle(o) \/ Write(o) \/ SendFails(o)
    \/ Read(o) \/ StealHandle(o) \/ Deserialized(o)
    \/ StealFails(o) \/ RecvFails(o)

Spec == Init /\ [][Next]_vars
-----------------------------------------------------------------------------
(* Properties *)

\* The indices of message o whose handles the broker still keeps for it: not those
\* that were stolen, nor the one whose steal failed.
Pending(o) ==
    (Len(received[o]) + (IF stage[o] = "broken" THEN 2 ELSE 1))..Len(values[o])

\* What a receiver gets is what the sender put in, in its order, although values
\* are used again and again.
RightHandles ==
    \A o \in Objects :
        /\ \A i \in 1..Len(received[o]) : received[o][i] = Resources[o][i]
        /\ stage[o] = "received" => Len(received[o]) = Len(Resources[o])

\* "An empty process holding in-flight handles": until its receiver asks for it,
\* each handle of a message stays at its value, which belongs to no other message.
InFlight ==
    \A o \in Objects : \A i \in Pending(o) :
        /\ table[values[o][i]] = Resources[o][i]
        /\ \A p \in Objects : \A j \in Pending(p) :
              values[p][j] = values[o][i] => p = o /\ j = i

\* A handle is left behind in the broker only by an object that failed.
OnlyFailuresLeak ==
    \A v \in Values : table[v] # Free =>
        \E o \in Objects : /\ stage[o] # "received"
                           /\ \E i \in Pending(o) : values[o][i] = v

\* Why: values and received never run ahead of what they are made from.
Lengths ==
    \A o \in Objects :
        /\ Len(received[o]) <= Len(values[o]) /\ Len(values[o]) <= Len(Resources[o])
        /\ stage[o] \in {"wire", "stealing", "received"} => Len(values[o]) = Len(Resources[o])
        /\ stage[o] \in {"sent_not", "copying", "wire"} => Len(received[o]) = 0
        /\ stage[o] = "received" => Len(received[o]) = Len(values[o])
        /\ stage[o] = "broken" => Len(received[o]) < Len(values[o])

IInv == TypeOK /\ Lengths /\ RightHandles /\ InFlight /\ OnlyFailuresLeak
=============================================================================
