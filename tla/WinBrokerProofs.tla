---------------------------- MODULE WinBrokerProofs ----------------------------
(* For any number of objects, handles and values of the broker: every       *)
(* receiver gets the handles that were sent to it.                          *)
EXTENDS WinBroker, TLAPS

\* Lengths of sequences, and what appending does, for the solver.
LEMMA AppendFacts ==
    ASSUME NEW S, NEW q \in Seq(S), NEW e \in S
    PROVE  /\ Append(q, e) \in Seq(S) /\ Len(q) \in Nat /\ Len(Append(q, e)) = Len(q) + 1
           /\ Append(q, e)[Len(q) + 1] = e
           /\ \A i \in 1..Len(q) : Append(q, e)[i] = q[i]
OBVIOUS

\* An entry of a sequence is an element of its set.
LEMMA Entry ==
    ASSUME NEW S, NEW q \in Seq(S), NEW i \in 1..Len(q)
    PROVE  q[i] \in S
OBVIOUS

\* Which indices of a message are pending.
LEMMA PendingIndices ==
    ASSUME NEW o \in Objects, Len(received[o]) \in Nat, Len(values[o]) \in Nat
    PROVE  \A i : i \in Pending(o) <=>
               /\ i \in 1..Len(values[o]) /\ i > Len(received[o])
               /\ stage[o] = "broken" => i # Len(received[o]) + 1
<1>1. CASE stage[o] = "broken"
  <2>1. Pending(o) = (Len(received[o]) + 2)..Len(values[o])
    BY <1>1 DEF Pending
  <2> QED
    BY <1>1, <2>1
<1>2. CASE stage[o] # "broken"
  <2>1. Pending(o) = (Len(received[o]) + 1)..Len(values[o])
    BY <1>2 DEF Pending
  <2> QED
    BY <1>2, <2>1
<1> QED
  BY <1>1, <1>2

\* Steps that only move an object to another stage keep the invariant.
LEMMA StageStep ==
    ASSUME IInv, NEW o \in Objects, NEW st \in Stages, stage' = [stage EXCEPT ![o] = st],
           UNCHANGED <<table, values, received>>, stage[o] \notin {"received", "broken"}, st # "broken",
           st \in {"wire", "stealing", "received"} => Len(values[o]) = Len(Resources[o]),
           st \in {"sent_not", "copying", "wire"} => Len(received[o]) = 0,
           st = "received" => Len(received[o]) = Len(values[o])
    PROVE  IInv'
<1>1. \A p \in Objects : stage'[p] = IF p = o THEN st ELSE stage[p]
  BY DEF IInv, TypeOK
<1>2. TypeOK'
  BY DEF IInv, TypeOK
<1>3. Lengths'
  BY <1>1 DEF IInv, Lengths
<1>4. RightHandles'
  BY <1>1 DEF IInv, Lengths, RightHandles
<1>5. \A p \in Objects : Pending(p)' = Pending(p)
  BY <1>1 DEF Pending
<1>6. InFlight'
  BY <1>5 DEF IInv, InFlight
<1>7. OnlyFailuresLeak'
  <2> SUFFICES ASSUME NEW v \in Values, table[v] # Free
               PROVE  \E p \in Objects : /\ stage'[p] # "received"
                                         /\ \E i \in Pending(p) : values[p][i] = v
    BY <1>5 DEF OnlyFailuresLeak
  <2>1. PICK p \in Objects : stage[p] # "received" /\ \E i \in Pending(p) : values[p][i] = v
    BY DEF IInv, OnlyFailuresLeak
  <2>2. CASE p = o /\ st = "received"
    <3>1. Pending(o) = {}
      <4>1. Len(values[o]) \in Nat /\ Len(received[o]) \in Nat
        BY DEF IInv, TypeOK
      <4> QED
        BY <2>2, <4>1, PendingIndices
    <3> QED
      BY <2>1, <2>2, <3>1
  <2> QED
    BY <1>1, <2>1, <2>2
<1> QED
  BY <1>2, <1>3, <1>4, <1>6, <1>7 DEF IInv

\* A handle is copied into a free value, which no message uses.
LEMMA CopyStep ==
    ASSUME IInv, NEW o \in Objects, CopyHandle(o)
    PROVE  IInv'
<1>1. PICK v \in Values :
         /\ table[v] = Free /\ stage[o] = "copying" /\ Len(values[o]) < Len(Resources[o])
         /\ table' = [table EXCEPT ![v] = Resources[o][Len(values[o]) + 1]]
         /\ values' = [values EXCEPT ![o] = Append(@, v)] /\ UNCHANGED <<stage, received>>
  BY DEF CopyHandle
<1> DEFINE n == Len(values[o]) + 1
           r == Resources[o][n]
<1>2. /\ values[o] \in Seq(Values) /\ Len(values[o]) \in Nat
      /\ Resources[o] \in Seq(AllResources) /\ Len(Resources[o]) \in Nat
  BY BrokerAssumption DEF IInv, TypeOK
<1>3. r \in AllResources /\ r # Free
  BY <1>1, <1>2, Entry, BrokerAssumption
<1>4. /\ values'[o] = Append(values[o], v) /\ values'[o] \in Seq(Values)
      /\ Len(values'[o]) = n /\ values'[o][n] = v
      /\ \A i \in 1..Len(values[o]) : values'[o][i] = values[o][i]
      /\ \A p \in Objects \ {o} : values'[p] = values[p]
  <2>1. values'[o] = Append(values[o], v) /\ \A p \in Objects \ {o} : values'[p] = values[p]
    BY <1>1 DEF IInv, TypeOK
  <2> QED
    BY <2>1, <1>2, AppendFacts
<1>5. table'[v] = r /\ \A w \in Values \ {v} : table'[w] = table[w]
  BY <1>1 DEF IInv, TypeOK
<1>6. TypeOK'
  BY <1>1, <1>3, <1>4 DEF IInv, TypeOK
<1>7. Len(received[o]) = 0
  BY <1>1 DEF IInv, Lengths
<1>8. Lengths'
  BY <1>1, <1>2, <1>4, <1>7 DEF IInv, Lengths
<1>9. RightHandles'
  BY <1>1 DEF IInv, RightHandles
<1>10. \A p \in Objects : \A i \in Pending(p) : values[p][i] # v /\ values[p][i] \in Values
                              /\ values'[p][i] = values[p][i]
  <2> SUFFICES ASSUME NEW p \in Objects, NEW i \in Pending(p)
               PROVE  values[p][i] # v /\ values[p][i] \in Values /\ values'[p][i] = values[p][i]
    OBVIOUS
  <2>1. Len(received[p]) \in Nat /\ Len(values[p]) \in Nat /\ values[p] \in Seq(Values)
        /\ Resources[p] \in Seq(AllResources) /\ Len(values[p]) <= Len(Resources[p])
        /\ Len(Resources[p]) \in Nat
    BY BrokerAssumption DEF IInv, TypeOK, Lengths
  <2>2. i \in 1..Len(values[p]) /\ i \in 1..Len(Resources[p])
    BY <2>1, PendingIndices
  <2>3. table[values[p][i]] = Resources[p][i] /\ Resources[p][i] \in AllResources
    BY <2>1, <2>2, Entry DEF IInv, InFlight
  <2> QED
    BY <1>1, <1>4, <2>1, <2>2, <2>3, Entry, BrokerAssumption
<1>11. /\ \A p \in Objects \ {o} : Pending(p)' = Pending(p)
       /\ \A i : i \in Pending(o)' <=> i \in Pending(o) \/ i = n
  BY <1>1, <1>2, <1>4, <1>7 DEF Pending
<1>12. InFlight'
  <2>1. \A p \in Objects : \A i \in Pending(p)' :
          \/ p = o /\ i = n /\ values'[p][i] = v
          \/ i \in Pending(p) /\ values'[p][i] = values[p][i] /\ values'[p][i] # v
    BY <1>4, <1>10, <1>11
  <2>2. \A p \in Objects : \A i \in Pending(p)' : table'[values'[p][i]] = Resources[p][i]
    BY <1>5, <1>10, <2>1 DEF IInv, InFlight
  <2>3. ASSUME NEW p \in Objects, NEW i \in Pending(p)', NEW q \in Objects, NEW j \in Pending(q)',
               values'[q][j] = values'[p][i]
        PROVE  q = p /\ j = i
    BY <2>1, <2>3 DEF IInv, InFlight
  <2> QED
    BY <2>2, <2>3 DEF InFlight
<1>13. OnlyFailuresLeak'
  <2> SUFFICES ASSUME NEW w \in Values, table'[w] # Free
               PROVE  \E p \in Objects : /\ stage'[p] # "received"
                                         /\ \E i \in Pending(p)' : values'[p][i] = w
    BY DEF OnlyFailuresLeak
  <2>1. CASE w = v
    BY <1>1, <1>4, <1>11, <2>1
  <2>2. CASE w # v
    <3>1. PICK p \in Objects : stage[p] # "received" /\ \E i \in Pending(p) : values[p][i] = w
      BY <1>5, <2>2 DEF IInv, OnlyFailuresLeak
    <3>2. PICK i \in Pending(p) : values[p][i] = w
      BY <3>1
    <3>3. i \in Pending(p)' /\ values'[p][i] = w
      BY <1>10, <1>11, <3>2
    <3> QED
      BY <1>1, <3>1, <3>3
  <2> QED
    BY <2>1, <2>2
<1> QED
  BY <1>6, <1>8, <1>9, <1>12, <1>13 DEF IInv

\* A handle is stolen from the value that its message names.
LEMMA StealStep ==
    ASSUME IInv, NEW o \in Objects, StealHandle(o)
    PROVE  IInv'
<1> DEFINE n == Len(received[o]) + 1
           v == values[o][n]
<1>1. /\ stage[o] = "stealing" /\ Len(received[o]) < Len(values[o])
      /\ received' = [received EXCEPT ![o] = Append(@, table[v])]
      /\ table' = [table EXCEPT ![v] = Free] /\ UNCHANGED <<stage, values>>
  BY DEF StealHandle
<1>2. /\ values[o] \in Seq(Values) /\ Len(values[o]) \in Nat
      /\ received[o] \in Seq(AllResources) /\ Len(received[o]) \in Nat
      /\ Resources[o] \in Seq(AllResources) /\ Len(Resources[o]) \in Nat
      /\ Len(values[o]) = Len(Resources[o])
  BY <1>1, BrokerAssumption DEF IInv, TypeOK, Lengths
<1>3. n \in Pending(o) /\ n \in 1..Len(values[o]) /\ n \in 1..Len(Resources[o])
  BY <1>1, <1>2 DEF Pending
<1>4. v \in Values /\ table[v] = Resources[o][n] /\ Resources[o][n] \in AllResources
  BY <1>2, <1>3, Entry DEF IInv, InFlight
<1>5. /\ received'[o] \in Seq(AllResources) /\ Len(received'[o]) = n
      /\ received'[o][n] = Resources[o][n]
      /\ \A i \in 1..Len(received[o]) : received'[o][i] = received[o][i]
      /\ \A p \in Objects \ {o} : received'[p] = received[p]
  <2>1. received'[o] = Append(received[o], table[v])
        /\ \A p \in Objects \ {o} : received'[p] = received[p]
    BY <1>1 DEF IInv, TypeOK
  <2> HIDE DEF v
  <2> QED
    BY <2>1, <1>2, <1>4, AppendFacts
<1>6. table'[v] = Free /\ \A w \in Values \ {v} : table'[w] = table[w]
  BY <1>1, <1>4 DEF IInv, TypeOK
<1>7. TypeOK'
  BY <1>1, <1>4, <1>5 DEF IInv, TypeOK
<1>8. Lengths'
  BY <1>1, <1>2, <1>5 DEF IInv, Lengths
<1>9. RightHandles'
  BY <1>1, <1>2, <1>5 DEF IInv, RightHandles
<1>10. /\ \A p \in Objects \ {o} : Pending(p)' = Pending(p)
       /\ \A i : i \in Pending(o)' <=> i \in Pending(o) /\ i # n
  <2>1. stage[o] # "broken" /\ stage' = stage /\ values' = values
    BY <1>1
  <2>2. Pending(o) = n..Len(values[o]) /\ Pending(o)' = (n + 1)..Len(values[o])
    BY <1>5, <2>1 DEF Pending
  <2>3. \A p \in Objects \ {o} : Pending(p)' = Pending(p)
    BY <1>5, <2>1 DEF Pending
  <2> QED
    BY <1>2, <2>2, <2>3
<1>11. \A p \in Objects : \A i \in Pending(p)' : i \in Pending(p) /\ values[p][i] # v
                              /\ values[p][i] \in Values
  <2> SUFFICES ASSUME NEW p \in Objects, NEW i \in Pending(p)'
               PROVE  i \in Pending(p) /\ values[p][i] # v /\ values[p][i] \in Values
    OBVIOUS
  <2>1. i \in Pending(p) /\ ~(p = o /\ i = n)
    BY <1>10
  <2>2. values[p] \in Seq(Values) /\ Len(received[p]) \in Nat /\ Len(values[p]) \in Nat
    BY DEF IInv, TypeOK
  <2>3. i \in 1..Len(values[p])
    BY <2>1, <2>2, PendingIndices
  <2>4. values[p][i] # v
    BY <1>3, <2>1 DEF IInv, InFlight
  <2> QED
    BY <2>1, <2>2, <2>3, <2>4, Entry
<1>12. InFlight'
  <2>1. \A p \in Objects : \A i \in Pending(p)' : table'[values'[p][i]] = Resources[p][i]
    BY <1>1, <1>6, <1>11 DEF IInv, InFlight
  <2>2. ASSUME NEW p \in Objects, NEW i \in Pending(p)', NEW q \in Objects, NEW j \in Pending(q)',
               values'[q][j] = values'[p][i]
        PROVE  q = p /\ j = i
    BY <1>1, <1>11, <2>2 DEF IInv, InFlight
  <2> QED
    BY <2>1, <2>2 DEF InFlight
<1>13. OnlyFailuresLeak'
  <2> SUFFICES ASSUME NEW w \in Values, table'[w] # Free
               PROVE  \E p \in Objects : /\ stage'[p] # "received"
                                         /\ \E i \in Pending(p)' : values'[p][i] = w
    BY DEF OnlyFailuresLeak
  <2>1. w # v /\ table[w] # Free
    BY <1>6
  <2>2. PICK p \in Objects : stage[p] # "received" /\ \E i \in Pending(p) : values[p][i] = w
    BY <2>1 DEF IInv, OnlyFailuresLeak
  <2> QED
    BY <1>1, <1>10, <2>1, <2>2
<1> QED
  BY <1>7, <1>8, <1>9, <1>12, <1>13 DEF IInv

\* A steal that fails frees the value that its message names, and no other one.
LEMMA StealFailsStep ==
    ASSUME IInv, NEW o \in Objects, StealFails(o)
    PROVE  IInv'
<1> DEFINE n == Len(received[o]) + 1
           v == values[o][n]
<1>1. /\ stage[o] = "stealing" /\ Len(received[o]) < Len(values[o])
      /\ table' = [table EXCEPT ![v] = Free] /\ stage' = [stage EXCEPT ![o] = "broken"]
      /\ UNCHANGED <<values, received>>
  BY DEF StealFails
<1>2. values[o] \in Seq(Values) /\ Len(values[o]) \in Nat /\ Len(received[o]) \in Nat
  BY DEF IInv, TypeOK
<1>3. n \in Pending(o) /\ n \in 1..Len(values[o])
  BY <1>1, <1>2 DEF Pending
<1>4. v \in Values
  BY <1>2, <1>3, Entry
<1>5. stage'[o] = "broken" /\ \A p \in Objects \ {o} : stage'[p] = stage[p]
  BY <1>1 DEF IInv, TypeOK
<1>6. table'[v] = Free /\ \A w \in Values \ {v} : table'[w] = table[w]
  BY <1>1, <1>4 DEF IInv, TypeOK
<1>7. TypeOK'
  BY <1>1 DEF IInv, TypeOK, Stages
<1>8. Lengths'
  BY <1>1, <1>5 DEF IInv, Lengths
<1>9. RightHandles'
  BY <1>1, <1>5 DEF IInv, RightHandles
<1>10. /\ \A p \in Objects \ {o} : Pending(p)' = Pending(p)
       /\ \A i : i \in Pending(o)' <=> i \in Pending(o) /\ i # n
  BY <1>1, <1>2, <1>5 DEF Pending
<1>11. \A p \in Objects : \A i \in Pending(p)' : i \in Pending(p) /\ values[p][i] # v
                              /\ values[p][i] \in Values
  <2> SUFFICES ASSUME NEW p \in Objects, NEW i \in Pending(p)'
               PROVE  i \in Pending(p) /\ values[p][i] # v /\ values[p][i] \in Values
    OBVIOUS
  <2>1. i \in Pending(p) /\ ~(p = o /\ i = n)
    BY <1>10
  <2>2. values[p] \in Seq(Values) /\ Len(received[p]) \in Nat /\ Len(values[p]) \in Nat
    BY DEF IInv, TypeOK
  <2>3. i \in 1..Len(values[p])
    BY <2>1, <2>2, PendingIndices
  <2>4. values[p][i] # v
    BY <1>3, <2>1 DEF IInv, InFlight
  <2> QED
    BY <2>1, <2>2, <2>3, <2>4, Entry
<1>12. InFlight'
  <2>1. \A p \in Objects : \A i \in Pending(p)' : table'[values'[p][i]] = Resources[p][i]
    BY <1>1, <1>6, <1>11 DEF IInv, InFlight
  <2>2. ASSUME NEW p \in Objects, NEW i \in Pending(p)', NEW q \in Objects, NEW j \in Pending(q)',
               values'[q][j] = values'[p][i]
        PROVE  q = p /\ j = i
    BY <1>1, <1>11, <2>2 DEF IInv, InFlight
  <2> QED
    BY <2>1, <2>2 DEF InFlight
<1>13. OnlyFailuresLeak'
  <2> SUFFICES ASSUME NEW w \in Values, table'[w] # Free
               PROVE  \E p \in Objects : /\ stage'[p] # "received"
                                         /\ \E i \in Pending(p)' : values'[p][i] = w
    BY DEF OnlyFailuresLeak
  <2>1. w # v /\ table[w] # Free
    BY <1>6
  <2>2. PICK p \in Objects : stage[p] # "received" /\ \E i \in Pending(p) : values[p][i] = w
    BY <2>1 DEF IInv, OnlyFailuresLeak
  <2> QED
    BY <1>1, <1>5, <1>10, <2>1, <2>2
<1> QED
  BY <1>7, <1>8, <1>9, <1>12, <1>13 DEF IInv

\* No step of any object breaks the invariant.
LEMMA InvariantStep ==
    ASSUME IInv, [Next]_vars
    PROVE  IInv'
<1>1. CASE UNCHANGED vars
  <2>1. UNCHANGED <<table, stage, values, received>>
    BY <1>1 DEF vars
  <2>2. \A o \in Objects : Pending(o)' = Pending(o)
    BY <2>1 DEF Pending
  <2> QED
    BY <2>1, <2>2 DEF IInv, TypeOK, Lengths, RightHandles, InFlight, OnlyFailuresLeak
<1>2. ASSUME NEW o \in Objects,
             Serialize(o) \/ Write(o) \/ SendFails(o) \/ Read(o) \/ Deserialized(o) \/ RecvFails(o)
      PROVE  IInv'
  <2>1. PICK st \in Stages :
          /\ stage' = [stage EXCEPT ![o] = st] /\ UNCHANGED <<table, values, received>>
          /\ stage[o] \notin {"received", "broken"} /\ st # "broken"
          /\ st \in {"wire", "stealing", "received"} => Len(values[o]) = Len(Resources[o])
          /\ st \in {"sent_not", "copying", "wire"} => Len(received[o]) = 0
          /\ st = "received" => Len(received[o]) = Len(values[o])
    BY <1>2 DEF Serialize, Write, SendFails, Read, Deserialized, RecvFails, Stages, IInv, Lengths
  <2> QED
    BY <2>1, StageStep
<1> QED
  BY <1>1, <1>2, CopyStep, StealStep, StealFailsStep DEF Next

\* Nothing is in the broker at the start.
LEMMA InitInvariant == Init => IInv
<1> SUFFICES ASSUME Init PROVE IInv
  OBVIOUS
<1>1. \A o \in Objects : Len(values[o]) = 0 /\ Len(received[o]) = 0 /\ Len(Resources[o]) \in Nat
  BY BrokerAssumption DEF Init
<1>2. TypeOK
  BY DEF Init, TypeOK, Stages
<1> QED
  BY <1>1, <1>2 DEF Init, IInv, Lengths, RightHandles, InFlight, OnlyFailuresLeak, Pending

(* The broker's table and the messages agree in every reachable state.      *)
THEOREM Invariance == Spec => []IInv
BY InvariantStep, InitInvariant, PTL DEF Spec

(* A receiver gets the handles that were sent to it, in their order.        *)
THEOREM Right == Spec => []RightHandles
<1>1. IInv => RightHandles
  BY DEF IInv
<1> QED
  BY <1>1, Invariance, PTL

(* A handle on its way stays in the broker, whoever else fails.             *)
THEOREM StaysInFlight == Spec => []InFlight
<1>1. IInv => InFlight
  BY DEF IInv
<1> QED
  BY <1>1, Invariance, PTL

(* Only objects that failed leave handles behind.                           *)
THEOREM Leaks == Spec => []OnlyFailuresLeak
<1>1. IInv => OnlyFailuresLeak
  BY DEF IInv
<1> QED
  BY <1>1, Invariance, PTL
=============================================================================
