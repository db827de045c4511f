-------------------------- MODULE SubprocessProofs --------------------------
(* Proofs about Subprocess for any number of children and identifiers: its *)
(* invariant, what join and kill do, and that it implements RemoteCall.     *)
EXTENDS SubprocessInv, TLAPS

\* A call of spawn that has started its process: nothing of the new child has
\* been sent, and its identifier named no child before.
LEMMA KeepSpawn ==
    ASSUME IInv, NEW x \in Children, NEW p \in Pids, NEW j \in Jobs, Spawn(x, p, j)
    PROVE  IInv'
<1>a. j \in Job /\ j.args \in Nat /\ j.args > 0 /\ j.out \in Nat /\ j.out > 0
    BY SubprocessAssumption DEF Job
<1>b. parent[x] = "none" /\ child[x] = "none" /\ owner[p] = Free
    BY DEF IInv, HandleInv, Spawn
<1>1. TypeOK'
    BY <1>a DEF IInv, TypeOK, Spawn, mutex, killer, ParentAt, Spawning, Joining, ChildAt
<1>2. ASSUME NEW c \in Children PROVE HandleInv(c)'
  <2>1. CASE c = x
    BY <1>a, <1>b, <2>1 DEF IInv, TypeOK, Spawn, mutex, killer, HandleInv
  <2>2. CASE c # x
    BY <1>b, <2>2, SubprocessAssumption DEF IInv, TypeOK, Spawn, mutex, killer, HandleInv
  <2> QED BY <2>1, <2>2
<1>3. ASSUME NEW c \in Children PROVE EntryInv(c)'
  <2>1. CASE c = x
    BY <1>a, <1>b, <2>1 DEF IInv, TypeOK, Spawn, mutex, killer, EntryInv, ValueInv, Joining,
        Ended
  <2>2. CASE c # x
    BY <1>b, <2>2, SubprocessAssumption DEF IInv, TypeOK, Spawn, mutex, killer,
        EntryInv, HandleInv, ParentEnd, ChildEnd, Joining
  <2> QED BY <2>1, <2>2
<1>4. ASSUME NEW c \in Children PROVE ValueInv(c)'
  <2>1. CASE c = x
    BY <1>a, <1>b, <2>1 DEF IInv, TypeOK, Spawn, mutex, killer, ValueInv, HandleInv, Ended
  <2>2. CASE c # x
    BY <1>b, <2>2, SubprocessAssumption DEF IInv, TypeOK, Spawn, mutex, killer,
        ValueInv, HandleInv, Ended
  <2> QED BY <2>1, <2>2
<1>5. ASSUME NEW c \in Children PROVE JoinInv(c)'
  <2>1. CASE c = x
    BY <1>a, <1>b, <2>1 DEF IInv, TypeOK, Spawn, mutex, killer, JoinInv, HandleInv,
        ValueInv, Ended, Succeeded
  <2>2. CASE c # x
    BY <1>b, <2>2, SubprocessAssumption DEF IInv, TypeOK, Spawn, mutex, killer,
        JoinInv, HandleInv, ValueInv, Ended, Succeeded
  <2> QED BY <2>1, <2>2
<1> QED BY <1>1, <1>2, <1>3, <1>4, <1>5 DEF IInv

\* spawn sends a packet of the entry; the Child is handed out with the last
\* one.
LEMMA KeepSpawnSend ==
    ASSUME IInv, NEW x \in Children, SpawnSend(x)
    PROVE  IInv'
<1>1. TypeOK'
    BY DEF IInv, TypeOK, SpawnSend, mutex, killer, ParentAt, Spawning, Joining, EntryInv
<1>2. ASSUME NEW c \in Children PROVE HandleInv(c)'
    BY <1>2 DEF IInv, TypeOK, SpawnSend, mutex, killer, HandleInv
<1>3. ASSUME NEW c \in Children PROVE EntryInv(c)'
    BY <1>3 DEF IInv, TypeOK, SpawnSend, mutex, killer, HandleInv, EntryInv, ParentEnd,
        ChildEnd, Joining
<1>4. ASSUME NEW c \in Children PROVE ValueInv(c)'
    BY <1>4 DEF IInv, TypeOK, SpawnSend, mutex, killer, HandleInv, EntryInv, ValueInv, Ended
<1>5. ASSUME NEW c \in Children PROVE JoinInv(c)'
    BY <1>5 DEF IInv, TypeOK, SpawnSend, mutex, killer, HandleInv, EntryInv, ValueInv,
        JoinInv, Succeeded, Ended
<1> QED BY <1>1, <1>2, <1>3, <1>4, <1>5 DEF IInv

\* spawn gives up and leaves the process alone.
LEMMA KeepSpawnAborts ==
    ASSUME IInv, NEW x \in Children, SpawnAborts(x)
    PROVE  IInv'
<1>1. TypeOK'
    BY DEF IInv, TypeOK, SpawnAborts, socket, mutex, killer, ParentAt, Spawning, Joining
<1>2. ASSUME NEW c \in Children PROVE HandleInv(c)'
    BY <1>2 DEF IInv, TypeOK, SpawnAborts, socket, mutex, killer, HandleInv
<1>3. ASSUME NEW c \in Children PROVE EntryInv(c)'
    BY <1>3 DEF IInv, TypeOK, SpawnAborts, socket, mutex, killer, HandleInv, EntryInv,
        ParentEnd, ChildEnd, Joining
<1>4. ASSUME NEW c \in Children PROVE ValueInv(c)'
    BY <1>4 DEF IInv, TypeOK, SpawnAborts, socket, mutex, killer, HandleInv, EntryInv,
        ValueInv, Ended
<1>5. ASSUME NEW c \in Children PROVE JoinInv(c)'
    BY <1>5 DEF IInv, TypeOK, SpawnAborts, socket, mutex, killer, HandleInv, EntryInv,
        ValueInv, JoinInv, Succeeded, Ended
<1> QED BY <1>1, <1>2, <1>3, <1>4, <1>5 DEF IInv

\* The process reads a packet of the entry and calls the function after the
\* last.
LEMMA KeepChildRecv ==
    ASSUME IInv, NEW x \in Children, ChildRecv(x)
    PROVE  IInv'
<1>1. TypeOK'
    BY DEF IInv, TypeOK, ChildRecv, mutex, killer, ChildAt
<1>2. ASSUME NEW c \in Children PROVE HandleInv(c)'
    BY <1>2 DEF IInv, TypeOK, ChildRecv, mutex, killer, HandleInv
<1>3. ASSUME NEW c \in Children PROVE EntryInv(c)'
    BY <1>3 DEF IInv, TypeOK, ChildRecv, mutex, killer, HandleInv, EntryInv, ParentEnd,
        ChildEnd, Joining
<1>4. ASSUME NEW c \in Children PROVE ValueInv(c)'
    BY <1>4 DEF IInv, TypeOK, ChildRecv, mutex, killer, HandleInv, EntryInv, ValueInv, Ended
<1>5. ASSUME NEW c \in Children PROVE JoinInv(c)'
    BY <1>5 DEF IInv, TypeOK, ChildRecv, mutex, killer, HandleInv, EntryInv, ValueInv,
        JoinInv, Succeeded, Ended
<1> QED BY <1>1, <1>2, <1>3, <1>4, <1>5 DEF IInv

\* The process finds the end of the stream instead of the entry.
LEMMA KeepChildRecvEof ==
    ASSUME IInv, NEW x \in Children, ChildRecvEof(x)
    PROVE  IInv'
<1>1. TypeOK'
    BY DEF IInv, TypeOK, ChildRecvEof, Die, socket, mutex, killer, ChildAt, Statuses
<1>2. ASSUME NEW c \in Children PROVE HandleInv(c)'
    BY <1>2 DEF IInv, TypeOK, ChildRecvEof, Die, socket, mutex, killer, HandleInv
<1>3. ASSUME NEW c \in Children PROVE EntryInv(c)'
    BY <1>3 DEF IInv, TypeOK, ChildRecvEof, Die, socket, mutex, killer, HandleInv, EntryInv,
        ParentEnd, ChildEnd, Joining
<1>4. ASSUME NEW c \in Children PROVE ValueInv(c)'
    BY <1>4 DEF IInv, TypeOK, ChildRecvEof, Die, socket, mutex, killer, HandleInv, EntryInv,
        ValueInv, Ended
<1>5. ASSUME NEW c \in Children PROVE JoinInv(c)'
    BY <1>5 DEF IInv, TypeOK, ChildRecvEof, Die, socket, mutex, killer, HandleInv, EntryInv,
        ValueInv, JoinInv, Succeeded, Ended
<1> QED BY <1>1, <1>2, <1>3, <1>4, <1>5 DEF IInv

\* The function returns: from here on a value may be under way.
LEMMA KeepChildReturns ==
    ASSUME IInv, NEW x \in Children, ChildReturns(x)
    PROVE  IInv'
<1>1. TypeOK'
    BY DEF IInv, TypeOK, ChildReturns, socket, mutex, killer, ChildAt
<1>2. ASSUME NEW c \in Children PROVE HandleInv(c)'
    BY <1>2 DEF IInv, TypeOK, ChildReturns, socket, mutex, killer, HandleInv
<1>3. ASSUME NEW c \in Children PROVE EntryInv(c)'
    BY <1>3 DEF IInv, TypeOK, ChildReturns, socket, mutex, killer, HandleInv, EntryInv,
        ParentEnd, ChildEnd, Joining
<1>4. ASSUME NEW c \in Children PROVE ValueInv(c)'
    BY <1>4 DEF IInv, TypeOK, ChildReturns, socket, mutex, killer, HandleInv, EntryInv,
        ValueInv, Ended
<1>5. ASSUME NEW c \in Children PROVE JoinInv(c)'
    BY <1>5 DEF IInv, TypeOK, ChildReturns, socket, mutex, killer, HandleInv, EntryInv,
        ValueInv, JoinInv, Succeeded, Ended
<1> QED BY <1>1, <1>2, <1>3, <1>4, <1>5 DEF IInv

\* The process sends a packet of the value and is done with the last one.
LEMMA KeepChildSend ==
    ASSUME IInv, NEW x \in Children, ChildSend(x)
    PROVE  IInv'
<1>1. TypeOK'
    BY DEF IInv, TypeOK, ChildSend, mutex, killer, ChildAt, ValueInv
<1>2. ASSUME NEW c \in Children PROVE HandleInv(c)'
    BY <1>2 DEF IInv, TypeOK, ChildSend, mutex, killer, HandleInv
<1>3. ASSUME NEW c \in Children PROVE EntryInv(c)'
    BY <1>3 DEF IInv, TypeOK, ChildSend, mutex, killer, HandleInv, EntryInv, ParentEnd,
        ChildEnd, Joining
<1>4. ASSUME NEW c \in Children PROVE ValueInv(c)'
    BY <1>4 DEF IInv, TypeOK, ChildSend, mutex, killer, HandleInv, EntryInv, ValueInv, Ended
<1>5. ASSUME NEW c \in Children PROVE JoinInv(c)'
    BY <1>5 DEF IInv, TypeOK, ChildSend, mutex, killer, HandleInv, EntryInv, ValueInv,
        JoinInv, Succeeded, Ended
<1> QED BY <1>1, <1>2, <1>3, <1>4, <1>5 DEF IInv

\* The process finds the Child dropped while it sends the value.
LEMMA KeepChildSendFails ==
    ASSUME IInv, NEW x \in Children, ChildSendFails(x)
    PROVE  IInv'
<1>1. TypeOK'
    BY DEF IInv, TypeOK, ChildSendFails, Die, socket, mutex, killer, ChildAt, Statuses
<1>2. ASSUME NEW c \in Children PROVE HandleInv(c)'
    BY <1>2 DEF IInv, TypeOK, ChildSendFails, Die, socket, mutex, killer, HandleInv
<1>3. ASSUME NEW c \in Children PROVE EntryInv(c)'
    BY <1>3 DEF IInv, TypeOK, ChildSendFails, Die, socket, mutex, killer, HandleInv,
        EntryInv, ParentEnd, ChildEnd, Joining
<1>4. ASSUME NEW c \in Children PROVE ValueInv(c)'
    BY <1>4 DEF IInv, TypeOK, ChildSendFails, Die, socket, mutex, killer, HandleInv,
        EntryInv, ValueInv, Ended
<1>5. ASSUME NEW c \in Children PROVE JoinInv(c)'
    BY <1>5 DEF IInv, TypeOK, ChildSendFails, Die, socket, mutex, killer, HandleInv,
        EntryInv, ValueInv, JoinInv, Succeeded, Ended
<1> QED BY <1>1, <1>2, <1>3, <1>4, <1>5 DEF IInv

\* The process exits with status 0, its value sent.
LEMMA KeepChildExits ==
    ASSUME IInv, NEW x \in Children, ChildExits(x)
    PROVE  IInv'
<1>1. TypeOK'
    BY DEF IInv, TypeOK, ChildExits, Die, socket, mutex, killer, ChildAt, Statuses
<1>2. ASSUME NEW c \in Children PROVE HandleInv(c)'
    BY <1>2 DEF IInv, TypeOK, ChildExits, Die, socket, mutex, killer, HandleInv
<1>3. ASSUME NEW c \in Children PROVE EntryInv(c)'
    BY <1>3 DEF IInv, TypeOK, ChildExits, Die, socket, mutex, killer, HandleInv, EntryInv,
        ParentEnd, ChildEnd, Joining
<1>4. ASSUME NEW c \in Children PROVE ValueInv(c)'
    BY <1>4 DEF IInv, TypeOK, ChildExits, Die, socket, mutex, killer, HandleInv, EntryInv,
        ValueInv, Ended
<1>5. ASSUME NEW c \in Children PROVE JoinInv(c)'
    BY <1>5 DEF IInv, TypeOK, ChildExits, Die, socket, mutex, killer, HandleInv, EntryInv,
        ValueInv, JoinInv, Succeeded, Ended
<1> QED BY <1>1, <1>2, <1>3, <1>4, <1>5 DEF IInv

\* The function ends the process instead of returning.
LEMMA KeepChildStops ==
    ASSUME IInv, NEW x \in Children, NEW st \in {"zero", "nonzero"}, ChildStops(x, st)
    PROVE  IInv'
<1>1. TypeOK'
    BY DEF IInv, TypeOK, ChildStops, Die, socket, mutex, killer, ChildAt, Statuses
<1>2. ASSUME NEW c \in Children PROVE HandleInv(c)'
    BY <1>2 DEF IInv, TypeOK, ChildStops, Die, socket, mutex, killer, HandleInv
<1>3. ASSUME NEW c \in Children PROVE EntryInv(c)'
    BY <1>3 DEF IInv, TypeOK, ChildStops, Die, socket, mutex, killer, HandleInv, EntryInv,
        ParentEnd, ChildEnd, Joining
<1>4. ASSUME NEW c \in Children PROVE ValueInv(c)'
    BY <1>4 DEF IInv, TypeOK, ChildStops, Die, socket, mutex, killer, HandleInv, EntryInv,
        ValueInv, Ended
<1>5. ASSUME NEW c \in Children PROVE JoinInv(c)'
    BY <1>5 DEF IInv, TypeOK, ChildStops, Die, socket, mutex, killer, HandleInv, EntryInv,
        ValueInv, JoinInv, Succeeded, Ended
<1> QED BY <1>1, <1>2, <1>3, <1>4, <1>5 DEF IInv

\* The process is killed by something outside the program, at any point.
LEMMA KeepChildKilled ==
    ASSUME IInv, NEW x \in Children, ChildKilled(x)
    PROVE  IInv'
<1>1. TypeOK'
    BY DEF IInv, TypeOK, ChildKilled, Die, socket, mutex, killer, ChildAt, Statuses
<1>2. ASSUME NEW c \in Children PROVE HandleInv(c)'
    BY <1>2 DEF IInv, TypeOK, ChildKilled, Die, socket, mutex, killer, HandleInv, Alive
<1>3. ASSUME NEW c \in Children PROVE EntryInv(c)'
    BY <1>3 DEF IInv, TypeOK, ChildKilled, Die, socket, mutex, killer, HandleInv, EntryInv,
        ParentEnd, ChildEnd, Joining, Alive
<1>4. ASSUME NEW c \in Children PROVE ValueInv(c)'
    BY <1>4 DEF IInv, TypeOK, ChildKilled, Die, socket, mutex, killer, HandleInv, EntryInv,
        ValueInv, Ended, Alive
<1>5. ASSUME NEW c \in Children PROVE JoinInv(c)'
    BY <1>5 DEF IInv, TypeOK, ChildKilled, Die, socket, mutex, killer, HandleInv, EntryInv,
        ValueInv, JoinInv, Succeeded, Ended, Alive
<1> QED BY <1>1, <1>2, <1>3, <1>4, <1>5 DEF IInv

\* The Child is dropped without join.
LEMMA KeepDropChild ==
    ASSUME IInv, NEW x \in Children, DropChild(x)
    PROVE  IInv'
<1>1. TypeOK'
    BY DEF IInv, TypeOK, DropChild, socket, mutex, killer, ParentAt, Spawning, Joining
<1>2. ASSUME NEW c \in Children PROVE HandleInv(c)'
    BY <1>2 DEF IInv, TypeOK, DropChild, socket, mutex, killer, HandleInv
<1>3. ASSUME NEW c \in Children PROVE EntryInv(c)'
    BY <1>3 DEF IInv, TypeOK, DropChild, socket, mutex, killer, HandleInv, EntryInv,
        ParentEnd, ChildEnd, Joining
<1>4. ASSUME NEW c \in Children PROVE ValueInv(c)'
    BY <1>4 DEF IInv, TypeOK, DropChild, socket, mutex, killer, HandleInv, EntryInv,
        ValueInv, Ended
<1>5. ASSUME NEW c \in Children PROVE JoinInv(c)'
    BY <1>5 DEF IInv, TypeOK, DropChild, socket, mutex, killer, HandleInv, EntryInv,
        ValueInv, JoinInv, Succeeded, Ended
<1> QED BY <1>1, <1>2, <1>3, <1>4, <1>5 DEF IInv

\* join is called: the whole value is still to be received.
LEMMA KeepJoin ==
    ASSUME IInv, NEW x \in Children, Join(x)
    PROVE  IInv'
<1>1. TypeOK'
    BY DEF IInv, TypeOK, Join, socket, mutex, killer, ParentAt, Spawning, Joining
<1>2. ASSUME NEW c \in Children PROVE HandleInv(c)'
    BY <1>2 DEF IInv, TypeOK, Join, socket, mutex, killer, HandleInv
<1>3. ASSUME NEW c \in Children PROVE EntryInv(c)'
    BY <1>3 DEF IInv, TypeOK, Join, socket, mutex, killer, HandleInv, EntryInv, ParentEnd,
        ChildEnd, Joining
<1>4. ASSUME NEW c \in Children PROVE ValueInv(c)'
    BY <1>4 DEF IInv, TypeOK, Join, socket, mutex, killer, HandleInv, EntryInv, ValueInv,
        Ended
<1>5. ASSUME NEW c \in Children PROVE JoinInv(c)'
    BY <1>5 DEF IInv, TypeOK, Join, socket, mutex, killer, HandleInv, EntryInv, ValueInv,
        JoinInv, Succeeded, Ended
<1> QED BY <1>1, <1>2, <1>3, <1>4, <1>5 DEF IInv

\* join receives a packet of the value; with the last one nothing is left of
\* it.
LEMMA KeepJoinRecv ==
    ASSUME IInv, NEW x \in Children, JoinRecv(x)
    PROVE  IInv'
<1>1. TypeOK'
    BY DEF IInv, TypeOK, JoinRecv, mutex, killer, ParentAt, Spawning, Joining
<1>2. ASSUME NEW c \in Children PROVE HandleInv(c)'
    BY <1>2 DEF IInv, TypeOK, JoinRecv, mutex, killer, HandleInv
<1>3. ASSUME NEW c \in Children PROVE EntryInv(c)'
    BY <1>3 DEF IInv, TypeOK, JoinRecv, mutex, killer, HandleInv, EntryInv, ParentEnd,
        ChildEnd, Joining
<1>a. outbox'[x] = outbox[x] - 1 /\ outbox[x] > 0 /\ outbox[x] \in Nat
      /\ toReturn[x] \in Nat /\ job[x].out \in Nat /\ parent[x] = "receiving"
    BY DEF IInv, TypeOK, Job, JoinRecv
<1>b. returned[x] /\ ~job[x].unit
    BY <1>a DEF IInv, ValueInv
<1>c. Received(x) + 1 = job[x].out <=> outbox'[x] + toReturn[x] = 0
    BY <1>a DEF Received
<1>d. result[x] = "none" /\ child[x] # "reaped"
    BY <1>a DEF IInv, JoinInv
<1>4. ASSUME NEW c \in Children PROVE ValueInv(c)'
  <2>1. CASE c = x
    BY <2>1, <1>a, <1>b DEF IInv, TypeOK, JoinRecv, ValueInv, Ended, mutex, killer
  <2>2. CASE c # x
    BY <2>2 DEF IInv, TypeOK, JoinRecv, ValueInv, Ended, mutex, killer
  <2> QED BY <2>1, <2>2
<1>5. ASSUME NEW c \in Children PROVE JoinInv(c)'
  <2>1. CASE c = x
    BY <2>1, <1>a, <1>b, <1>c, <1>d DEF IInv, TypeOK, JoinRecv, JoinInv, Ended,
        Succeeded, mutex, killer
  <2>2. CASE c # x
    BY <2>2 DEF IInv, TypeOK, JoinRecv, JoinInv, Ended, Succeeded, mutex, killer
  <2> QED BY <2>1, <2>2
<1> QED BY <1>1, <1>2, <1>3, <1>4, <1>5 DEF IInv

\* join finds the end of the stream before the value: the function returned ()
\* or the process has failed.
LEMMA KeepJoinRecvNone ==
    ASSUME IInv, NEW x \in Children, JoinRecvNone(x)
    PROVE  IInv'
<1>1. TypeOK'
    BY DEF IInv, TypeOK, JoinRecvNone, socket, mutex, killer, ParentAt, Spawning, Joining
<1>2. ASSUME NEW c \in Children PROVE HandleInv(c)'
    BY <1>2 DEF IInv, TypeOK, JoinRecvNone, socket, mutex, killer, HandleInv
<1>3. ASSUME NEW c \in Children PROVE EntryInv(c)'
    BY <1>3 DEF IInv, TypeOK, JoinRecvNone, socket, mutex, killer, HandleInv, EntryInv,
        ParentEnd, ChildEnd, Joining
<1>4. ASSUME NEW c \in Children PROVE ValueInv(c)'
    BY <1>4 DEF IInv, TypeOK, JoinRecvNone, socket, mutex, killer, HandleInv, EntryInv,
        ValueInv, Ended
<1>a. parent[x] = "receiving" /\ outbox[x] = 0 /\ toReturn[x] = job[x].out
      /\ toReturn[x] \in Nat /\ child[x] \notin {"reading", "running", "returning"}
  <2>1. toReturn[x] \in Nat /\ job[x].out \in Nat
    BY DEF IInv, TypeOK, Job
  <2>2. parent[x] = "receiving" /\ outbox[x] = 0 /\ Received(x) = 0
    BY DEF JoinRecvNone
  <2>3. toReturn[x] = job[x].out
    BY <2>1, <2>2 DEF Received
  <2>4. child[x] \notin {"reading", "running", "returning"}
    BY DEF JoinRecvNone, ChildEnd
  <2> QED BY <2>1, <2>2, <2>3, <2>4
<1>b. child[x] # "none" /\ child[x] # "reaped" /\ job[x].out > 0 /\ result[x] = "none"
    BY <1>a DEF IInv, HandleInv, ValueInv, JoinInv
<1>c. job[x].unit \/ (Ended(x) /\ ~Succeeded(x))
    BY <1>a, <1>b DEF IInv, TypeOK, ChildAt, ValueInv, Ended, Succeeded
<1>5. ASSUME NEW c \in Children PROVE JoinInv(c)'
  <2>1. CASE c = x
    BY <2>1, <1>a, <1>b, <1>c DEF IInv, TypeOK, JoinRecvNone, JoinInv, Ended,
        Succeeded, socket, mutex, killer
  <2>2. CASE c # x
    BY <2>2 DEF IInv, TypeOK, JoinRecvNone, JoinInv, Ended, Succeeded, socket, mutex, killer
  <2> QED BY <2>1, <2>2
<1> QED BY <1>1, <1>2, <1>3, <1>4, <1>5 DEF IInv

\* join fails to receive: the process died inside its entry or inside its
\* value, so it cannot have succeeded.
LEMMA KeepJoinRecvFails ==
    ASSUME IInv, NEW x \in Children, JoinRecvFails(x)
    PROVE  IInv'
<1>1. TypeOK'
    BY DEF IInv, TypeOK, JoinRecvFails, socket, mutex, killer, ParentAt, Spawning,
        Joining, Results
<1>2. ASSUME NEW c \in Children PROVE HandleInv(c)'
    BY <1>2 DEF IInv, TypeOK, JoinRecvFails, socket, mutex, killer, HandleInv
<1>3. ASSUME NEW c \in Children PROVE EntryInv(c)'
    BY <1>3 DEF IInv, TypeOK, JoinRecvFails, socket, mutex, killer, HandleInv, EntryInv,
        ParentEnd, ChildEnd, Joining
<1>4. ASSUME NEW c \in Children PROVE ValueInv(c)'
    BY <1>4 DEF IInv, TypeOK, JoinRecvFails, socket, mutex, killer, HandleInv, EntryInv,
        ValueInv, Ended
<1>a. parent[x] = "receiving" /\ child[x] \notin {"reading", "running", "returning"}
    BY DEF JoinRecvFails, Reset, ChildEnd
<1>b. child[x] # "none" /\ child[x] # "reaped" /\ result[x] = "none"
      /\ outbox[x] + toReturn[x] > 0
    BY <1>a DEF IInv, HandleInv, JoinInv
<1>c. child[x] \in {"exiting", "zombie"}
    BY <1>a, <1>b DEF IInv, TypeOK, ChildAt
<1>d. Ended(x) /\ ~Succeeded(x)
  <2>1. CASE inbox[x] > 0
    <3>1. inbox[x] # 0
      BY <2>1 DEF IInv, TypeOK
    <3> QED BY <3>1, <1>c DEF IInv, EntryInv, Ended, Succeeded
  <2>2. CASE outbox[x] = 0 /\ Received(x) > 0
    <3>1. toReturn[x] < job[x].out /\ toReturn[x] > 0
      BY <2>2, <1>b DEF IInv, TypeOK, Job, Received
    <3>2. returned[x] /\ ~job[x].unit
      BY <3>1 DEF IInv, TypeOK, Job, ValueInv
    <3> QED BY <3>1, <3>2, <1>c DEF IInv, ValueInv, Ended, Succeeded
  <2> QED BY <2>1, <2>2 DEF JoinRecvFails, Reset
<1>5. ASSUME NEW c \in Children PROVE JoinInv(c)'
  <2>1. CASE c = x
    BY <2>1, <1>a, <1>b, <1>d DEF IInv, TypeOK, JoinRecvFails, JoinInv, Ended,
        Succeeded, socket, mutex, killer
  <2>2. CASE c # x
    BY <2>2 DEF IInv, TypeOK, JoinRecvFails, JoinInv, Ended, Succeeded, socket, mutex,
        killer
  <2> QED BY <2>1, <2>2
<1> QED BY <1>1, <1>2, <1>3, <1>4, <1>5 DEF IInv

\* The future of join is dropped while it awaits.
LEMMA KeepJoinCancelled ==
    ASSUME IInv, NEW x \in Children, JoinCancelled(x)
    PROVE  IInv'
<1>1. TypeOK'
    BY DEF IInv, TypeOK, JoinCancelled, socket, mutex, killer, ParentAt, Spawning, Joining
<1>2. ASSUME NEW c \in Children PROVE HandleInv(c)'
    BY <1>2 DEF IInv, TypeOK, JoinCancelled, socket, mutex, killer, HandleInv
<1>3. ASSUME NEW c \in Children PROVE EntryInv(c)'
    BY <1>3 DEF IInv, TypeOK, JoinCancelled, socket, mutex, killer, HandleInv, EntryInv,
        ParentEnd, ChildEnd, Joining
<1>4. ASSUME NEW c \in Children PROVE ValueInv(c)'
    BY <1>4 DEF IInv, TypeOK, JoinCancelled, socket, mutex, killer, HandleInv, EntryInv,
        ValueInv, Ended
<1>5. ASSUME NEW c \in Children PROVE JoinInv(c)'
    BY <1>5 DEF IInv, TypeOK, JoinCancelled, socket, mutex, killer, HandleInv, EntryInv,
        ValueInv, JoinInv, Succeeded, Ended
<1> QED BY <1>1, <1>2, <1>3, <1>4, <1>5 DEF IInv

\* join is interrupted: the mutex is released, the boolean keeps its value.
LEMMA KeepJoinInterrupted ==
    ASSUME IInv, NEW x \in Children, JoinInterrupted(x)
    PROVE  IInv'
<1>1. TypeOK'
    BY DEF IInv, TypeOK, JoinInterrupted, socket, killer, ParentAt, Spawning, Joining,
        Results
<1>2. ASSUME NEW c \in Children PROVE HandleInv(c)'
    BY <1>2 DEF IInv, TypeOK, JoinInterrupted, socket, killer, HandleInv
<1>3. ASSUME NEW c \in Children PROVE EntryInv(c)'
    BY <1>3 DEF IInv, TypeOK, JoinInterrupted, socket, killer, HandleInv, EntryInv,
        ParentEnd, ChildEnd, Joining
<1>4. ASSUME NEW c \in Children PROVE ValueInv(c)'
    BY <1>4 DEF IInv, TypeOK, JoinInterrupted, socket, killer, HandleInv, EntryInv,
        ValueInv, Ended
<1>5. ASSUME NEW c \in Children PROVE JoinInv(c)'
    BY <1>5 DEF IInv, TypeOK, JoinInterrupted, socket, killer, HandleInv, EntryInv,
        ValueInv, JoinInv, Succeeded, Ended
<1> QED BY <1>1, <1>2, <1>3, <1>4, <1>5 DEF IInv

\* join takes the mutex, which no kill holds then, and clears the boolean.
LEMMA KeepJoinLock ==
    ASSUME IInv, NEW x \in Children, JoinLock(x)
    PROVE  IInv'
<1>1. TypeOK'
    BY DEF IInv, TypeOK, JoinLock, socket, killer, ParentAt, Spawning, Joining
<1>2. ASSUME NEW c \in Children PROVE HandleInv(c)'
    BY <1>2 DEF IInv, TypeOK, JoinLock, socket, killer, HandleInv
<1>3. ASSUME NEW c \in Children PROVE EntryInv(c)'
    BY <1>3 DEF IInv, TypeOK, JoinLock, socket, killer, HandleInv, EntryInv, ParentEnd,
        ChildEnd, Joining
<1>4. ASSUME NEW c \in Children PROVE ValueInv(c)'
    BY <1>4 DEF IInv, TypeOK, JoinLock, socket, killer, HandleInv, EntryInv, ValueInv, Ended
<1>5. ASSUME NEW c \in Children PROVE JoinInv(c)'
    BY <1>5 DEF IInv, TypeOK, JoinLock, socket, killer, HandleInv, EntryInv, ValueInv,
        JoinInv, Succeeded, Ended
<1> QED BY <1>1, <1>2, <1>3, <1>4, <1>5 DEF IInv

\* join waits for the process and releases its identifier: no kill may signal
\* it any more, and the answer says how the process ended.
LEMMA KeepJoinWait ==
    ASSUME IInv, NEW x \in Children, JoinWait(x)
    PROVE  IInv'
<1>a. pid[x] \in Pids /\ JoinResult(x) \in Results /\ JoinResult(x) # "none"
    BY DEF IInv, JoinWait, HandleInv, JoinResult, Results
<1>1. TypeOK'
    BY <1>a DEF IInv, TypeOK, JoinWait, socket, killer, ParentAt, Spawning, Joining, ChildAt
<1>2. ASSUME NEW c \in Children PROVE HandleInv(c)'
    BY <1>2 DEF IInv, TypeOK, JoinWait, socket, killer, HandleInv
<1>3. ASSUME NEW c \in Children PROVE EntryInv(c)'
    BY <1>3 DEF IInv, TypeOK, JoinWait, socket, killer, HandleInv, EntryInv, ParentEnd,
        ChildEnd, Joining
<1>4. ASSUME NEW c \in Children PROVE ValueInv(c)'
    BY <1>4 DEF IInv, TypeOK, JoinWait, socket, killer, HandleInv, EntryInv, ValueInv, Ended
<1>b. parent[x] = "waiting" /\ child[x] = "zombie" /\ job[x].out \in Nat
      /\ outbox[x] \in Nat /\ toReturn[x] \in Nat
    BY DEF IInv, TypeOK, Job, JoinWait
<1>c. outbox[x] + toReturn[x] = 0 \/ job[x].unit \/ ~Succeeded(x)
    BY <1>b DEF IInv, JoinInv
<1>d. JoinResult(x) = "ok" => status[x] = "zero" /\ (returned[x] \/ job[x].unit)
  <2>1. Received(x) = job[x].out => toReturn[x] = 0
    BY <1>b DEF Received
  <2>2. job[x].out > 0 /\ (~returned[x] => toReturn[x] = job[x].out)
    BY <1>b DEF IInv, ValueInv
  <2>3. Received(x) = job[x].out => returned[x]
    BY <1>b, <2>1, <2>2
  <2> QED BY <2>3 DEF JoinResult
<1>e. JoinResult(x) = "err" => ~Succeeded(x)
  <2>1. outbox[x] + toReturn[x] = 0 => Received(x) = job[x].out
    BY <1>b DEF Received
  <2> QED BY <1>c, <2>1 DEF JoinResult, Succeeded
<1>5. ASSUME NEW c \in Children PROVE JoinInv(c)'
  <2>1. CASE c = x
    BY <2>1, <1>a, <1>b, <1>d, <1>e DEF IInv, TypeOK, JoinWait, JoinInv, Ended,
        Succeeded, socket, killer
  <2>2. CASE c # x
    BY <2>2 DEF IInv, TypeOK, JoinWait, JoinInv, Ended, Succeeded, socket, killer
  <2> QED BY <2>1, <2>2
<1> QED BY <1>1, <1>2, <1>3, <1>4, <1>5 DEF IInv

\* A kill handle is made of a live Child.
LEMMA KeepGetKillHandle ==
    ASSUME IInv, NEW x \in Children, GetKillHandle(x)
    PROVE  IInv'
<1>1. TypeOK'
    BY DEF IInv, TypeOK, GetKillHandle, socket, mutex, KillAt
<1>2. ASSUME NEW c \in Children PROVE HandleInv(c)'
    BY <1>2 DEF IInv, TypeOK, GetKillHandle, socket, mutex, HandleInv
<1>3. ASSUME NEW c \in Children PROVE EntryInv(c)'
    BY <1>3 DEF IInv, TypeOK, GetKillHandle, socket, mutex, HandleInv, EntryInv, ParentEnd,
        ChildEnd, Joining
<1>4. ASSUME NEW c \in Children PROVE ValueInv(c)'
    BY <1>4 DEF IInv, TypeOK, GetKillHandle, socket, mutex, HandleInv, EntryInv, ValueInv,
        Ended
<1>5. ASSUME NEW c \in Children PROVE JoinInv(c)'
    BY <1>5 DEF IInv, TypeOK, GetKillHandle, socket, mutex, HandleInv, EntryInv, ValueInv,
        JoinInv, Succeeded, Ended
<1> QED BY <1>1, <1>2, <1>3, <1>4, <1>5 DEF IInv

\* kill is called.
LEMMA KeepKill ==
    ASSUME IInv, NEW x \in Children, Kill(x)
    PROVE  IInv'
<1>1. TypeOK'
    BY DEF IInv, TypeOK, Kill, socket, mutex, KillAt
<1>2. ASSUME NEW c \in Children PROVE HandleInv(c)'
    BY <1>2 DEF IInv, TypeOK, Kill, socket, mutex, HandleInv
<1>3. ASSUME NEW c \in Children PROVE EntryInv(c)'
    BY <1>3 DEF IInv, TypeOK, Kill, socket, mutex, HandleInv, EntryInv, ParentEnd, ChildEnd,
        Joining
<1>4. ASSUME NEW c \in Children PROVE ValueInv(c)'
    BY <1>4 DEF IInv, TypeOK, Kill, socket, mutex, HandleInv, EntryInv, ValueInv, Ended
<1>5. ASSUME NEW c \in Children PROVE JoinInv(c)'
    BY <1>5 DEF IInv, TypeOK, Kill, socket, mutex, HandleInv, EntryInv, ValueInv, JoinInv,
        Succeeded, Ended
<1> QED BY <1>1, <1>2, <1>3, <1>4, <1>5 DEF IInv

\* kill takes the mutex, which join does not hold then.
LEMMA KeepKillLock ==
    ASSUME IInv, NEW x \in Children, KillLock(x)
    PROVE  IInv'
<1>1. TypeOK'
    BY DEF IInv, TypeOK, KillLock, socket, KillAt
<1>2. ASSUME NEW c \in Children PROVE HandleInv(c)'
    BY <1>2 DEF IInv, TypeOK, KillLock, socket, HandleInv
<1>3. ASSUME NEW c \in Children PROVE EntryInv(c)'
    BY <1>3 DEF IInv, TypeOK, KillLock, socket, HandleInv, EntryInv, ParentEnd, ChildEnd,
        Joining
<1>4. ASSUME NEW c \in Children PROVE ValueInv(c)'
    BY <1>4 DEF IInv, TypeOK, KillLock, socket, HandleInv, EntryInv, ValueInv, Ended
<1>5. ASSUME NEW c \in Children PROVE JoinInv(c)'
    BY <1>5 DEF IInv, TypeOK, KillLock, socket, HandleInv, EntryInv, ValueInv, JoinInv,
        Succeeded, Ended
<1> QED BY <1>1, <1>2, <1>3, <1>4, <1>5 DEF IInv

\* kill finds the boolean cleared and gives the mutex back.
LEMMA KeepKillRefused ==
    ASSUME IInv, NEW x \in Children, KillRefused(x)
    PROVE  IInv'
<1>1. TypeOK'
    BY DEF IInv, TypeOK, KillRefused, socket, KillAt
<1>2. ASSUME NEW c \in Children PROVE HandleInv(c)'
    BY <1>2 DEF IInv, TypeOK, KillRefused, socket, HandleInv
<1>3. ASSUME NEW c \in Children PROVE EntryInv(c)'
    BY <1>3 DEF IInv, TypeOK, KillRefused, socket, HandleInv, EntryInv, ParentEnd, ChildEnd,
        Joining
<1>4. ASSUME NEW c \in Children PROVE ValueInv(c)'
    BY <1>4 DEF IInv, TypeOK, KillRefused, socket, HandleInv, EntryInv, ValueInv, Ended
<1>5. ASSUME NEW c \in Children PROVE JoinInv(c)'
    BY <1>5 DEF IInv, TypeOK, KillRefused, socket, HandleInv, EntryInv, ValueInv, JoinInv,
        Succeeded, Ended
<1> QED BY <1>1, <1>2, <1>3, <1>4, <1>5 DEF IInv

\* kill finds the boolean set: it stays set while kill holds the mutex.
LEMMA KeepKillAllowed ==
    ASSUME IInv, NEW x \in Children, KillAllowed(x)
    PROVE  IInv'
<1>1. TypeOK'
    BY DEF IInv, TypeOK, KillAllowed, socket, mutex, KillAt
<1>2. ASSUME NEW c \in Children PROVE HandleInv(c)'
    BY <1>2 DEF IInv, TypeOK, KillAllowed, socket, mutex, HandleInv
<1>3. ASSUME NEW c \in Children PROVE EntryInv(c)'
    BY <1>3 DEF IInv, TypeOK, KillAllowed, socket, mutex, HandleInv, EntryInv, ParentEnd,
        ChildEnd, Joining
<1>4. ASSUME NEW c \in Children PROVE ValueInv(c)'
    BY <1>4 DEF IInv, TypeOK, KillAllowed, socket, mutex, HandleInv, EntryInv, ValueInv,
        Ended
<1>5. ASSUME NEW c \in Children PROVE JoinInv(c)'
    BY <1>5 DEF IInv, TypeOK, KillAllowed, socket, mutex, HandleInv, EntryInv, ValueInv,
        JoinInv, Succeeded, Ended
<1> QED BY <1>1, <1>2, <1>3, <1>4, <1>5 DEF IInv

\* kill signals the process that the identifier names.
LEMMA KeepKillSignal ==
    ASSUME IInv, NEW x \in Children, KillSignal(x)
    PROVE  IInv'
<1>1. TypeOK'
    BY DEF IInv, TypeOK, KillSignal, Die, socket, ChildAt, Statuses, KillAt
<1>2. ASSUME NEW c \in Children PROVE HandleInv(c)'
    BY <1>2 DEF IInv, TypeOK, KillSignal, Die, socket, HandleInv, Alive
<1>3. ASSUME NEW c \in Children PROVE EntryInv(c)'
    BY <1>3 DEF IInv, TypeOK, KillSignal, Die, socket, HandleInv, EntryInv, ParentEnd,
        ChildEnd, Joining, Alive
<1>4. ASSUME NEW c \in Children PROVE ValueInv(c)'
    BY <1>4 DEF IInv, TypeOK, KillSignal, Die, socket, HandleInv, EntryInv, ValueInv, Ended,
        Alive
<1>5. ASSUME NEW c \in Children PROVE JoinInv(c)'
    BY <1>5 DEF IInv, TypeOK, KillSignal, Die, socket, HandleInv, EntryInv, ValueInv,
        JoinInv, Succeeded, Ended, Alive
<1> QED BY <1>1, <1>2, <1>3, <1>4, <1>5 DEF IInv

\* Another process of the system takes a free identifier.
LEMMA KeepOtherStarts ==
    ASSUME IInv, NEW p \in Pids, OtherStarts(p)
    PROVE  IInv'
<1>1. TypeOK'
    BY DEF IInv, TypeOK, OtherStarts, socket, mutex, killer
<1>2. ASSUME NEW c \in Children PROVE HandleInv(c)'
    BY SubprocessAssumption DEF IInv, TypeOK, OtherStarts, socket, mutex, killer, HandleInv
<1>3. ASSUME NEW c \in Children PROVE EntryInv(c)' /\ ValueInv(c)' /\ JoinInv(c)'
    BY DEF IInv, OtherStarts, socket, mutex, killer, EntryInv, ValueInv, JoinInv,
        Ended, Succeeded
<1> QED BY <1>1, <1>2, <1>3 DEF IInv

\* Another process of the system ends; it is none of the children.
LEMMA KeepOtherEnds ==
    ASSUME IInv, NEW p \in Pids, OtherEnds(p)
    PROVE  IInv'
<1>1. TypeOK'
    BY DEF IInv, TypeOK, OtherEnds, socket, mutex, killer
<1>2. ASSUME NEW c \in Children PROVE HandleInv(c)'
    BY SubprocessAssumption DEF IInv, TypeOK, OtherEnds, socket, mutex, killer, HandleInv
<1>3. ASSUME NEW c \in Children PROVE EntryInv(c)' /\ ValueInv(c)' /\ JoinInv(c)'
    BY DEF IInv, OtherEnds, socket, mutex, killer, EntryInv, ValueInv, JoinInv, Ended,
        Succeeded
<1> QED BY <1>1, <1>2, <1>3 DEF IInv

\* The invariant mentions only the variables.
LEMMA KeepStutter == ASSUME IInv, UNCHANGED vars PROVE IInv'
<1>1. TypeOK'
    BY DEF IInv, TypeOK, vars, socket, mutex, killer
<1>2. ASSUME NEW c \in Children
      PROVE HandleInv(c)' /\ EntryInv(c)' /\ ValueInv(c)' /\ JoinInv(c)'
    BY DEF IInv, vars, socket, mutex, killer, HandleInv, EntryInv, ValueInv, JoinInv, Ended,
        Succeeded
<1> QED BY <1>1, <1>2 DEF IInv

\* The invariant holds before anything is spawned.
LEMMA InvInit == Init => IInv
<1> SUFFICES ASSUME Init PROVE IInv
    OBVIOUS
<1>1. TypeOK
    BY DEF Init, TypeOK, Job, ParentAt, ChildAt, KillAt, Statuses, Results
<1>2. ASSUME NEW c \in Children
      PROVE HandleInv(c) /\ EntryInv(c) /\ ValueInv(c) /\ JoinInv(c)
    BY DEF Init, HandleInv, EntryInv, ValueInv, JoinInv, Ended, Succeeded, Joining
<1> QED BY <1>1, <1>2 DEF IInv

\* Every step keeps the invariant.
LEMMA InvStep == IInv /\ [Next]_vars => IInv'
<1> SUFFICES ASSUME IInv, [Next]_vars PROVE IInv'
    OBVIOUS
<1>1. ASSUME NEW c \in Children, ParentWork(c) PROVE IInv'
    BY <1>1, KeepSpawnSend, KeepJoinRecv, KeepJoinRecvNone, KeepJoinRecvFails,
        KeepJoinLock, KeepJoinWait DEF ParentWork
<1>2. ASSUME NEW c \in Children, ChildWork(c) PROVE IInv'
    BY <1>2, KeepChildRecv, KeepChildRecvEof, KeepChildSend, KeepChildSendFails,
        KeepChildExits DEF ChildWork
<1>3. ASSUME NEW c \in Children, KillWork(c) PROVE IInv'
    BY <1>3, KeepKillLock, KeepKillRefused, KeepKillAllowed, KeepKillSignal DEF KillWork
<1>4. ASSUME NEW c \in Children, Choice(c) PROVE IInv'
    BY <1>4, KeepSpawn, KeepSpawnAborts, KeepDropChild, KeepJoin, KeepJoinCancelled,
        KeepJoinInterrupted, KeepChildReturns, KeepChildKilled, KeepChildStops,
        KeepGetKillHandle, KeepKill DEF Choice
<1>5. ASSUME NEW p \in Pids, OtherStarts(p) \/ OtherEnds(p) PROVE IInv'
    BY <1>5, KeepOtherStarts, KeepOtherEnds
<1>6. CASE UNCHANGED vars
    BY <1>6, KeepStutter
<1> QED BY <1>1, <1>2, <1>3, <1>4, <1>5, <1>6 DEF Next

\* In every reachable state the mutex, the two streams and the answer of join
\* agree: the invariant the theorems below rest on.
THEOREM Invariance == Spec => []IInv
<1> QED BY InvInit, InvStep, PTL DEF Spec

\* Every variable of the life of a subprocess keeps its type.
THEOREM TypeCorrect == Spec => []TypeOK
<1>1. IInv => TypeOK
    BY DEF IInv
<1> QED BY <1>1, Invariance, PTL

\* KillHandle::kill never signals an identifier that has been given to another
\* process, whatever join, other children and the rest of the system do.
THEOREM KillSafe == Spec => []KillHitsChild
<1>1. IInv => KillHitsChild
    BY DEF IInv, TypeOK, ChildAt, HandleInv, KillHitsChild
<1> QED BY <1>1, Invariance, PTL

\* Child::join returns Ok only after an exit with status 0 of a process whose
\* function returned (or returns ()).
THEOREM JoinSound == Spec => []JoinOkMeansSuccess
<1>1. IInv => JoinOkMeansSuccess
    BY DEF IInv, JoinInv, JoinOkMeansSuccess
<1> QED BY <1>1, Invariance, PTL

\* Child::join reports no failure of a process whose function returned and that
\* exited with status 0.
THEOREM JoinComplete == Spec => []JoinErrMeansFailure
<1>1. IInv => JoinErrMeansFailure
    BY DEF IInv, JoinInv, Succeeded, JoinErrMeansFailure
<1> QED BY <1>1, Invariance, PTL

(* The refinement of RemoteCall, child by child. *)
Kept(c) == CallerAt(c)' = CallerAt(c) /\ CalleeAt(c)' = CalleeAt(c)

\* The steps RemoteCall allows, as one child sees them.
Moved(c) ==
    \/ Kept(c)
    \/ CallerAt(c) = "idle" /\ CallerAt(c)' = "pending" /\ CalleeAt(c)' = CalleeAt(c)
    \/ /\ CallerAt(c) \in {"pending", "left"} /\ CalleeAt(c) = "idle"
       /\ CalleeAt(c)' = "running" /\ CallerAt(c)' = CallerAt(c)
    \/ CalleeAt(c) = "running" /\ CalleeAt(c)' = "done" /\ CallerAt(c)' = CallerAt(c)
    \/ /\ CallerAt(c) # "idle" /\ CalleeAt(c) \in {"idle", "running"}
       /\ CalleeAt(c)' = "stopped" /\ CallerAt(c)' = CallerAt(c)
    \/ /\ CallerAt(c) = "pending" /\ CalleeAt(c) = "done"
       /\ CallerAt(c)' = "ok" /\ CalleeAt(c)' = CalleeAt(c)
    \/ /\ CallerAt(c) = "pending" /\ CalleeAt(c) \in {"idle", "stopped"}
       /\ CallerAt(c)' = "err" /\ CalleeAt(c)' = "stopped"
    \/ CallerAt(c) = "pending" /\ CallerAt(c)' = "left" /\ CalleeAt(c)' = CalleeAt(c)

\* What one child does, while the others stay where they are, is a step of
\* RemoteCall or none.
LEMMA OneMoves ==
    ASSUME NEW x \in Children, Moved(x), \A c \in Children \ {x} : Kept(c)
    PROVE  [Promise!Next]_(Promise!vars)
<1> DEFINE a == [c \in Children |-> CallerAt(c)]
           b == [c \in Children |-> CalleeAt(c)]
<1>1. /\ a[x] = CallerAt(x) /\ b[x] = CalleeAt(x)
      /\ a' = [c \in Children |-> CallerAt(c)'] /\ b' = [c \in Children |-> CalleeAt(c)']
  OBVIOUS
<1>2. ASSUME CallerAt(x)' = CallerAt(x) PROVE a' = a
  BY <1>1, <1>2 DEF Kept
<1>3. ASSUME CalleeAt(x)' = CalleeAt(x) PROVE b' = b
  BY <1>1, <1>3 DEF Kept
<1>4. ASSUME NEW v, CallerAt(x)' = v PROVE a' = [a EXCEPT ![x] = v]
  BY <1>1, <1>4 DEF Kept
<1>5. ASSUME NEW v, CalleeAt(x)' = v PROVE b' = [b EXCEPT ![x] = v]
  BY <1>1, <1>5 DEF Kept
<1>6. CASE Kept(x)
  BY <1>2, <1>3, <1>6 DEF Kept, Promise!vars
<1>7. CASE CallerAt(x) = "idle" /\ CallerAt(x)' = "pending" /\ CalleeAt(x)' = CalleeAt(x)
  <2>1. Promise!Call(x)
    BY <1>1, <1>3, <1>4, <1>7 DEF Promise!Call
  <2> QED
    BY <2>1 DEF Promise!Next
<1>8. CASE /\ CallerAt(x) \in {"pending", "left"} /\ CalleeAt(x) = "idle"
           /\ CalleeAt(x)' = "running" /\ CallerAt(x)' = CallerAt(x)
  <2>1. Promise!Begin(x)
    BY <1>1, <1>2, <1>5, <1>8 DEF Promise!Begin
  <2> QED
    BY <2>1 DEF Promise!Next
<1>9. CASE CalleeAt(x) = "running" /\ CalleeAt(x)' = "done" /\ CallerAt(x)' = CallerAt(x)
  <2>1. Promise!Succeed(x)
    BY <1>1, <1>2, <1>5, <1>9 DEF Promise!Succeed
  <2> QED
    BY <2>1 DEF Promise!Next
<1>10. CASE /\ CallerAt(x) # "idle" /\ CalleeAt(x) \in {"idle", "running"}
            /\ CalleeAt(x)' = "stopped" /\ CallerAt(x)' = CallerAt(x)
  <2>1. Promise!Stop(x)
    BY <1>1, <1>2, <1>5, <1>10 DEF Promise!Stop
  <2> QED
    BY <2>1 DEF Promise!Next
<1>11. CASE /\ CallerAt(x) = "pending" /\ CalleeAt(x) = "done"
            /\ CallerAt(x)' = "ok" /\ CalleeAt(x)' = CalleeAt(x)
  <2>1. Promise!Answer(x)
    BY <1>1, <1>3, <1>4, <1>11 DEF Promise!Answer
  <2> QED
    BY <2>1 DEF Promise!Next
<1>12. CASE /\ CallerAt(x) = "pending" /\ CalleeAt(x) \in {"idle", "stopped"}
            /\ CallerAt(x)' = "err" /\ CalleeAt(x)' = "stopped"
  <2>1. Promise!Fail(x)
    BY <1>1, <1>4, <1>5, <1>12 DEF Promise!Fail
  <2> QED
    BY <2>1 DEF Promise!Next
<1>13. CASE CallerAt(x) = "pending" /\ CallerAt(x)' = "left" /\ CalleeAt(x)' = CalleeAt(x)
  <2>1. Promise!Leave(x)
    BY <1>1, <1>3, <1>4, <1>13 DEF Promise!Leave
  <2> QED
    BY <2>1 DEF Promise!Next
<1> QED
  BY <1>6, <1>7, <1>8, <1>9, <1>10, <1>11, <1>12, <1>13 DEF Moved
\* Only these variables matter to RemoteCall.
Seen(c) == <<parent[c], child[c], status[c], returned[c], job[c], result[c]>>

\* A child of which none of them changes does not move.
LEMMA UnseenKept ==
    ASSUME NEW c \in Children, Seen(c)' = Seen(c)
    PROVE  Kept(c)
<1>1. /\ parent'[c] = parent[c] /\ child'[c] = child[c] /\ status'[c] = status[c]
      /\ returned'[c] = returned[c] /\ job'[c] = job[c] /\ result'[c] = result[c]
  BY DEF Seen
<1>2. CallerAt(c)' = CallerAt(c)
  BY <1>1 DEF CallerAt, ParentEnd
<1>3. CalleeAt(c)' = CalleeAt(c)
  BY <1>1 DEF CalleeAt
<1> QED
  BY <1>2, <1>3 DEF Kept

\* Steps of the parent move its own child only, and join reports an error only when
\* the process can no longer succeed.
LEMMA ParentMoves ==
    ASSUME IInv, NEW x \in Children,
           \/ ParentWork(x) \/ SpawnAborts(x) \/ DropChild(x) \/ Join(x)
           \/ JoinCancelled(x) \/ JoinInterrupted(x)
    PROVE  Moved(x) /\ \A c \in Children \ {x} : Kept(c)
<1> USE DEF socket, mutex, killer
<1>1. TypeOK /\ HandleInv(x) /\ EntryInv(x) /\ ValueInv(x) /\ JoinInv(x)
  BY DEF IInv
<1>2. \A c \in Children \ {x} : Seen(c)' = Seen(c)
  BY <1>1 DEF TypeOK, Seen, ParentWork, SpawnSend, JoinRecv, JoinRecvNone, JoinRecvFails,
     JoinLock, JoinWait, SpawnAborts, DropChild, Join, JoinCancelled, JoinInterrupted
<1>3. \A c \in Children \ {x} : Kept(c)
  BY <1>2, UnseenKept
<1> USE DEF TypeOK, ParentAt, ChildAt, Spawning, Joining, ParentEnd, CallerAt, Kept
<1>4. ASSUME \/ SpawnSend(x) \/ JoinRecv(x) \/ JoinRecvNone(x) \/ JoinLock(x) \/ Join(x)
      PROVE  Kept(x)
  <2>1. /\ parent[x] \in Spawning \cup {"handed"} \cup Joining
        /\ parent'[x] \in Spawning \cup {"handed"} \cup Joining
        /\ UNCHANGED <<child, status, returned, job, result>>
    BY <1>1, <1>4 DEF SpawnSend, JoinRecv, JoinRecvNone, JoinLock, Join
  <2> QED
    BY <1>1, <2>1 DEF CalleeAt
<1>5. ASSUME SpawnAborts(x) \/ DropChild(x) \/ JoinCancelled(x) \/ JoinInterrupted(x)
      PROVE  Moved(x)
  <2>1. /\ parent[x] \in Spawning \cup {"handed"} \cup Joining
        /\ \/ parent'[x] \in {"failed", "dropped"}
           \/ parent'[x] = "joined" /\ result'[x] = "eintr"
        /\ UNCHANGED <<child, status, returned, job>>
    BY <1>1, <1>5 DEF SpawnAborts, DropChild, JoinCancelled, JoinInterrupted
  <2>2. CallerAt(x) = "pending" /\ CallerAt(x)' = "left" /\ CalleeAt(x)' = CalleeAt(x)
    BY <1>1, <2>1 DEF CalleeAt
  <2> QED
    BY <2>2 DEF Moved
<1>6. ASSUME JoinRecvFails(x) PROVE Moved(x)
  <2>1. /\ parent[x] = "receiving" /\ parent'[x] = "joined" /\ result'[x] = "err"
        /\ UNCHANGED <<child, status, returned, job>>
    BY <1>1, <1>6 DEF JoinRecvFails
  <2>2. child[x] \in {"zombie", "reaped"} /\ ~(status[x] = "zero" /\ (returned[x] \/ job[x].unit))
    <3>1. CASE Reset(x)
      BY <1>1, <2>1, <3>1 DEF Reset, ChildEnd, EntryInv, HandleInv, ValueInv, Ended
    <3>2. CASE outbox[x] = 0 /\ ~ChildEnd(x) /\ Received(x) > 0
      BY <1>1, <2>1, <3>2 DEF ChildEnd, Received, EntryInv, HandleInv, ValueInv, JoinInv, Ended, Job
    <3> QED
      BY <1>6, <3>1, <3>2 DEF JoinRecvFails
  <2>3. /\ CallerAt(x) = "pending" /\ CallerAt(x)' = "err"
        /\ CalleeAt(x) = "stopped" /\ CalleeAt(x)' = "stopped"
    BY <1>1, <2>1, <2>2 DEF CalleeAt
  <2> QED
    BY <2>3 DEF Moved
<1>7. ASSUME JoinWait(x) PROVE Moved(x)
  <2>1. /\ parent[x] = "waiting" /\ child[x] = "zombie" /\ child'[x] = "reaped"
        /\ parent'[x] = "joined" /\ result'[x] = JoinResult(x)
        /\ UNCHANGED <<status, returned, job>>
    BY <1>1, <1>7 DEF JoinWait
  <2>2. JoinResult(x) = IF status[x] = "zero" /\ (returned[x] \/ job[x].unit) THEN "ok" ELSE "err"
    BY <1>1, <2>1 DEF JoinResult, Received, ValueInv, JoinInv, Ended, Succeeded, Job
  <2>3. CallerAt(x) = "pending" /\ CallerAt(x)' = JoinResult(x) /\ CalleeAt(x)' = CalleeAt(x)
    BY <1>1, <2>1, <2>2 DEF CalleeAt
  <2>4. CalleeAt(x) = IF JoinResult(x) = "ok" THEN "done" ELSE "stopped"
    BY <1>1, <2>1, <2>2 DEF CalleeAt
  <2>5. JoinResult(x) \in {"ok", "err"}
    BY <2>2
  <2> QED
    BY <2>3, <2>4, <2>5 DEF Moved
<1> QED
  BY <1>3, <1>4, <1>5, <1>6, <1>7 DEF Moved, ParentWork

\* Steps of the process move its own child only; it comes to its end once.
LEMMA ChildMoves ==
    ASSUME IInv, NEW x \in Children,
           \/ ChildWork(x) \/ ChildReturns(x) \/ ChildKilled(x)
           \/ \E st \in {"zero", "nonzero"} : ChildStops(x, st)
    PROVE  Moved(x) /\ \A c \in Children \ {x} : Kept(c)
<1> USE DEF socket, mutex, killer, Die
<1>1. TypeOK /\ HandleInv(x) /\ EntryInv(x) /\ ValueInv(x) /\ JoinInv(x)
  BY DEF IInv
<1>2. \A c \in Children \ {x} : Seen(c)' = Seen(c)
  BY <1>1 DEF TypeOK, Seen, ChildWork, ChildRecv, ChildRecvEof, ChildSend, ChildSendFails,
     ChildExits, ChildReturns, ChildKilled, ChildStops
<1>3. \A c \in Children \ {x} : Kept(c)
  BY <1>2, UnseenKept
<1>4. /\ parent'[x] = parent[x] /\ result'[x] = result[x] /\ job'[x] = job[x]
      /\ parent[x] # "none"
  BY <1>1 DEF TypeOK, HandleInv, ChildWork, ChildRecv, ChildRecvEof, ChildSend, ChildSendFails,
     ChildExits, ChildReturns, ChildKilled, ChildStops, Alive
<1>5. CallerAt(x)' = CallerAt(x)
  BY <1>4 DEF CallerAt, ParentEnd
<1>6. CallerAt(x) # "idle" /\ (CallerAt(x) \in {"pending", "left"} \/ Ended(x))
  BY <1>1, <1>4 DEF CallerAt, TypeOK, Results, JoinInv, Ended
<1> USE DEF TypeOK, ChildAt, CalleeAt
<1>7. ASSUME ChildRecv(x) PROVE Moved(x)
  BY <1>1, <1>5, <1>6, <1>7 DEF ChildRecv, Moved, Kept, Ended
<1>8. ASSUME ChildSend(x) \/ ChildReturns(x) PROVE Moved(x)
  <2>1. child[x] \in {"running", "returning"} /\ child'[x] \in {"returning", "exiting"}
    BY <1>1, <1>8 DEF ChildSend, ChildReturns
  <2>2. CalleeAt(x) = "running" /\ CalleeAt(x)' = "running"
    BY <2>1
  <2> QED
    BY <1>5, <2>2 DEF Moved, Kept
<1>9. ASSUME NEW st \in Statuses, Alive(x), child'[x] = "zombie", status'[x] = st,
             returned'[x] = returned[x], st = "zero" => child[x] \in {"running", "exiting"}
      PROVE  Moved(x)
  <2>1. CalleeAt(x) \in {"idle", "running"} /\ (st = "zero" => CalleeAt(x) = "running")
    BY <1>9 DEF Alive
  <2>2. CalleeAt(x)' \in {"stopped"} \cup (IF st = "zero" THEN {"done"} ELSE {})
    BY <1>9
  <2> QED
    BY <1>5, <1>6, <2>1, <2>2 DEF Moved
<1>10. ASSUME \/ ChildRecvEof(x) \/ ChildSendFails(x) \/ ChildExits(x) \/ ChildKilled(x)
              \/ \E st \in {"zero", "nonzero"} : ChildStops(x, st)
       PROVE  Moved(x)
  <2>1. /\ Alive(x) /\ child'[x] = "zombie" /\ returned'[x] = returned[x]
        /\ \E st \in Statuses : status'[x] = st /\ (st = "zero" => child[x] \in {"running", "exiting"})
    BY <1>1, <1>10 DEF ChildRecvEof, ChildSendFails, ChildExits, ChildKilled, ChildStops, Alive,
       Statuses
  <2> QED
    BY <1>9, <2>1
<1> QED
  BY <1>3, <1>7, <1>8, <1>10 DEF ChildWork

\* Every step of spawn, join, kill and the processes is a step of RemoteCall or none.
LEMMA StepImplements ==
    ASSUME IInv, [Next]_vars
    PROVE  [Promise!Next]_(Promise!vars)
<1> USE DEF socket, mutex, killer
<1>1. ASSUME \A c \in Children : Seen(c)' = Seen(c) PROVE [Promise!Next]_(Promise!vars)
  <2>1. /\ \A c \in Children : CallerAt(c)' = CallerAt(c)
        /\ \A c \in Children : CalleeAt(c)' = CalleeAt(c)
    BY <1>1, UnseenKept DEF Kept
  <2> QED
    BY <2>1 DEF Promise!vars
<1>2. ASSUME NEW c \in Children, ParentWork(c) PROVE [Promise!Next]_(Promise!vars)
  BY <1>2, ParentMoves, OneMoves
<1>3. ASSUME NEW c \in Children, ChildWork(c) PROVE [Promise!Next]_(Promise!vars)
  BY <1>3, ChildMoves, OneMoves
<1>4. ASSUME NEW c \in Children, KillWork(c) PROVE [Promise!Next]_(Promise!vars)
  <2>1. CASE KillLock(c) \/ KillRefused(c) \/ KillAllowed(c)
    BY <1>1, <2>1 DEF KillLock, KillRefused, KillAllowed, Seen
  <2>2. CASE KillSignal(c)
    <3>1. CASE UNCHANGED <<child, status>>
      BY <1>1, <2>2, <3>1 DEF KillSignal, Seen
    <3>2. ASSUME NEW d \in Children, Alive(d), Die(d, "signal")
          PROVE  [Promise!Next]_(Promise!vars)
      <4>1. UNCHANGED <<parent, returned, job, result>> /\ TypeOK /\ JoinInv(d) /\ HandleInv(d)
        BY <2>2 DEF KillSignal, IInv
      <4>2. \A e \in Children \ {d} : Kept(e)
        BY <3>2, <4>1, UnseenKept DEF Die, TypeOK, Seen
      <4>3. CallerAt(d)' = CallerAt(d) /\ CallerAt(d) # "idle"
        BY <3>2, <4>1 DEF CallerAt, ParentEnd, Alive, HandleInv, TypeOK, Results, JoinInv
      <4>4. child'[d] = "zombie" /\ status'[d] = "signal"
        BY <3>2, <4>1 DEF Die, TypeOK
      <4>5. CalleeAt(d) \in {"idle", "running"} /\ CalleeAt(d)' = "stopped"
        BY <3>2, <4>4 DEF CalleeAt, Alive
      <4>6. Moved(d)
        BY <4>3, <4>5 DEF Moved
      <4> QED
        BY <4>2, <4>6, OneMoves
    <3> QED
      BY <2>2, <3>1, <3>2 DEF KillSignal
  <2> QED
    BY <1>4, <2>1, <2>2 DEF KillWork
<1>5. ASSUME NEW c \in Children, Choice(c) PROVE [Promise!Next]_(Promise!vars)
  <2>1. ASSUME NEW p \in Pids, NEW j \in Jobs, Spawn(c, p, j)
        PROVE  [Promise!Next]_(Promise!vars)
    <3>1. TypeOK /\ HandleInv(c) /\ JoinInv(c)
      BY DEF IInv
    <3>2. \A e \in Children \ {c} : Kept(e)
      BY <2>1, <3>1, UnseenKept DEF Spawn, TypeOK, Seen
    <3>3. /\ parent[c] = "none" /\ parent'[c] = "sending"
          /\ child[c] = "none" /\ child'[c] = "reading"
      BY <2>1, <3>1 DEF Spawn, TypeOK, HandleInv
    <3>4. /\ CallerAt(c) = "idle" /\ CallerAt(c)' = "pending"
          /\ CalleeAt(c) = "idle" /\ CalleeAt(c)' = "idle"
      BY <3>3 DEF CallerAt, CalleeAt, ParentEnd, Spawning, Joining
    <3> QED
      BY <3>2, <3>4, OneMoves DEF Moved
  <2>2. CASE SpawnAborts(c) \/ DropChild(c) \/ Join(c) \/ JoinCancelled(c) \/ JoinInterrupted(c)
    BY <2>2, ParentMoves, OneMoves
  <2>3. CASE \/ ChildReturns(c) \/ ChildKilled(c)
             \/ \E st \in {"zero", "nonzero"} : ChildStops(c, st)
    BY <2>3, ChildMoves, OneMoves
  <2>4. CASE GetKillHandle(c) \/ Kill(c)
    BY <1>1, <2>4 DEF GetKillHandle, Kill, Seen
  <2> QED
    BY <1>5, <2>1, <2>2, <2>3, <2>4 DEF Choice
<1>6. ASSUME NEW p \in Pids, OtherStarts(p) \/ OtherEnds(p)
      PROVE  [Promise!Next]_(Promise!vars)
  BY <1>1, <1>6 DEF OtherStarts, OtherEnds, Seen
<1>7. CASE UNCHANGED vars
  BY <1>1, <1>7 DEF vars, Seen
<1> QED
  BY <1>2, <1>3, <1>4, <1>5, <1>6, <1>7 DEF Next

\* spawn and join implement RemoteCall: whatever is killed, interrupted or dropped,
\* the function is called at most once, Ok means that it is done, and an error that
\* it never will be.
THEOREM Implements == Spec => ImplementsRemoteCall
<1>1. Init => Promise!Init
  <2> SUFFICES ASSUME Init PROVE Promise!Init
    OBVIOUS
  <2>1. \A c \in Children : parent[c] = "none" /\ child[c] = "none"
    BY DEF Init
  <2>2. \A c \in Children : CallerAt(c) = "idle" /\ CalleeAt(c) = "idle"
    BY <2>1 DEF CallerAt, CalleeAt, ParentEnd, Spawning, Joining
  <2> QED
    BY <2>2 DEF Promise!Init
<1>2. IInv /\ [Next]_vars => [Promise!Next]_(Promise!vars)
  BY StepImplements
<1> QED
  BY <1>1, <1>2, Invariance, PTL DEF Spec, ImplementsRemoteCall, Promise!Spec
=============================================================================
