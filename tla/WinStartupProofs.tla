--------------------------- MODULE WinStartupProofs ---------------------------
(* For any number of processes and generations: when a process enters user  *)
(* code, no job can kill it any more, and the broker is alive.              *)
EXTENDS WinStartup, TLAPS

\* Types hold in every step.
LEMMA TypeStep ==
    ASSUME TypeOK, [Next]_vars
    PROVE  TypeOK'
<1> USE StartupAssumption DEF TypeOK, Startup, Ended, InSpawnChild, InSpawn
<1>1. CASE StartBroker
  BY <1>1 DEF StartBroker
<1>2. CASE BrokerEnds
  BY <1>2 DEF BrokerEnds
<1>3. ASSUME NEW p \in Procs, NEW c \in Procs, SpawnSuspended(p, c) PROVE TypeOK'
  BY <1>3 DEF SpawnSuspended
<1>4. ASSUME NEW c \in Procs, DuplicateHandle(c) PROVE TypeOK'
  BY <1>4 DEF DuplicateHandle
<1>5. ASSUME NEW c \in Procs, WriteInitData(c) PROVE TypeOK'
  BY <1>5 DEF WriteInitData
<1>6. ASSUME NEW c \in Procs, ResumeThread(c) PROVE TypeOK'
  BY <1>6 DEF ResumeThread
<1>7. ASSUME NEW c \in Procs, SetJobFlags(c) PROVE TypeOK'
  BY <1>7 DEF SetJobFlags
<1>8. ASSUME NEW c \in Procs, RecvSignal(c) PROVE TypeOK'
  BY <1>8 DEF RecvSignal
<1>9. ASSUME NEW c \in Procs, SendEntry(c) PROVE TypeOK'
  BY <1>9 DEF SendEntry
<1>10. ASSUME NEW c \in Procs, SpawnFails(c) PROVE TypeOK'
  BY <1>10 DEF SpawnFails
<1>11. ASSUME NEW c \in Procs, ChildSignals(c) PROVE TypeOK'
  <2>1. CASE signal' = [signal EXCEPT ![c] = TRUE] /\ proc' = [proc EXCEPT ![c] = "signalled"]
    BY <1>11, <2>1 DEF ChildSignals
  <2>2. CASE proc' = [proc EXCEPT ![c] = "dead"] /\ UNCHANGED signal
    BY <1>11, <2>2 DEF ChildSignals
  <2> QED
    BY <1>11, <2>1, <2>2 DEF ChildSignals
<1>12. ASSUME NEW c \in Procs, ChildEnters(c) PROVE TypeOK'
  BY <1>12 DEF ChildEnters
<1>13. ASSUME NEW c \in Procs, Dies(c) PROVE TypeOK'
  BY <1>13 DEF Dies
<1>14. ASSUME NEW c \in Procs, JobCloses(c) PROVE TypeOK'
  BY <1>14 DEF JobCloses
<1>15. CASE UNCHANGED vars
  BY <1>15 DEF vars
<1> QED
  BY <1>1, <1>2, <1>3, <1>4, <1>5, <1>6, <1>7, <1>8,
     <1>9, <1>10, <1>11, <1>12, <1>13, <1>14, <1>15
     DEF Next, SpawnWork, ChildWork

\* The order of the start-up, step by step.
LEMMA InvariantStep ==
    ASSUME IInv, [Next]_vars
    PROVE  IInv'
<1> USE StartupAssumption DEF IInv, TypeOK, Startup, Ended, InSpawnChild, InSpawn, Alive, HoldsBroker
<1>0. TypeOK'
  BY TypeStep
<1>1. CASE StartBroker
  BY <1>0, <1>1 DEF StartBroker
<1>2. CASE BrokerEnds
  BY <1>0, <1>2 DEF BrokerEnds
<1>3. ASSUME NEW p \in Procs, NEW c \in Procs, SpawnSuspended(p, c) PROVE IInv'
  <2>1. /\ proc[p] = "user" /\ proc[c] = "none" /\ c # Root /\ p # c
        /\ proc' = [proc EXCEPT ![c] = "suspended"]
        /\ parent' = [parent EXCEPT ![c] = p]
        /\ spawning' = [spawning EXCEPT ![c] = "created"]
        /\ UNCHANGED <<handles, init, limits, signal, entry, broker>>
    BY <1>3 DEF SpawnSuspended
  <2>2. \A j \in within[p] : limits[j] = "breakaway"
    BY <2>1
  <2>3. within' = [within EXCEPT ![c] = {c}]
    <3>1. {j \in within[p] : limits[j] = "kill_on_close"} = {}
      BY <2>2
    <3>2. within' = [within EXCEPT ![c] =
                        {c} \cup {j \in within[p] : limits[j] = "kill_on_close"}]
      BY <1>3 DEF SpawnSuspended
    <3>3. {c} \cup {j \in within[p] : limits[j] = "kill_on_close"} = {c}
      BY <3>1
    <3> HIDE DEF IInv, TypeOK
    <3> QED
      BY <3>2, <3>3
  <2>4. \A q \in Procs \ {c} : /\ proc'[q] = proc[q] /\ parent'[q] = parent[q]
                               /\ spawning'[q] = spawning[q] /\ within'[q] = within[q]
    BY <2>1, <2>3
  <2>5. /\ proc'[c] = "suspended" /\ parent'[c] = p /\ spawning'[c] = "created"
        /\ within'[c] = {c} /\ handles[c] = 0 /\ ~init[c] /\ ~entry[c]
    BY <2>1, <2>3
  <2>6. \A q \in Procs : Alive(q) => Alive(q)'
    BY <2>1, <2>4, <2>5
  <2>7. \A q \in Procs : spawning'[q] \in InSpawn /\ Alive(parent[q])' =>
                            proc'[parent'[q]] = "user"
    <3>1. ASSUME NEW q \in Procs \ {c}, spawning[q] \in InSpawn, Alive(parent[q])'
          PROVE  proc'[parent'[q]] = "user"
      BY <2>1, <2>4, <3>1
    <3> QED
      BY <2>1, <2>4, <2>5, <3>1
  <2>8. \A q \in Procs : HoldsBroker(q)' <=> HoldsBroker(q)
    BY <2>1, <2>4, <2>5
  <2> HIDE DEF Alive, HoldsBroker
  <2> QED
    BY <1>0, <2>1, <2>4, <2>5, <2>7, <2>8
<1>4. ASSUME NEW c \in Procs, DuplicateHandle(c) PROVE IInv'
  BY <1>0, <1>4 DEF DuplicateHandle
<1>5. ASSUME NEW c \in Procs, WriteInitData(c) PROVE IInv'
  BY <1>0, <1>5 DEF WriteInitData
<1>6. ASSUME NEW c \in Procs, ResumeThread(c) PROVE IInv'
  BY <1>0, <1>6 DEF ResumeThread
<1>7. ASSUME NEW c \in Procs, SetJobFlags(c) PROVE IInv'
  BY <1>0, <1>7 DEF SetJobFlags
<1>8. ASSUME NEW c \in Procs, RecvSignal(c) PROVE IInv'
  BY <1>0, <1>8 DEF RecvSignal
<1>9. ASSUME NEW c \in Procs, SendEntry(c) PROVE IInv'
  BY <1>0, <1>9 DEF SendEntry
<1>10. ASSUME NEW c \in Procs, SpawnFails(c) PROVE IInv'
  BY <1>0, <1>10 DEF SpawnFails
<1>11. ASSUME NEW c \in Procs, ChildSignals(c) PROVE IInv'
  BY <1>0, <1>11 DEF ChildSignals
<1>12. ASSUME NEW c \in Procs, ChildEnters(c) PROVE IInv'
  BY <1>0, <1>12 DEF ChildEnters
<1>13. ASSUME NEW c \in Procs, Dies(c) PROVE IInv'
  BY <1>0, <1>13 DEF Dies
<1>14. ASSUME NEW c \in Procs, JobCloses(c) PROVE IInv'
  BY <1>0, <1>14 DEF JobCloses
<1>15. CASE UNCHANGED vars
  BY <1>0, <1>15 DEF vars
<1> QED
  BY <1>1, <1>2, <1>3, <1>4, <1>5, <1>6, <1>7, <1>8,
     <1>9, <1>10, <1>11, <1>12, <1>13, <1>14, <1>15
     DEF Next, SpawnWork, ChildWork

\* Before the first spawn everything is unused.
LEMMA InitInvariant == Init => IInv
BY StartupAssumption DEF Init, IInv, TypeOK, Startup, Ended, InSpawnChild, InSpawn, Alive, HoldsBroker

(* In every reachable state the start-up of every process is in order: see *)
(* IInv in WinStartup.                                                     *)
THEOREM Invariance == Spec => []IInv
BY InvariantStep, InitInvariant, PTL DEF Spec

(* No process in user code belongs to a job that is still kill-on-close    *)
(* (the comment of entry.rs).                                              *)
THEOREM UserCode == Spec => []UserCodeSafe
<1>1. IInv => UserCodeSafe
  BY StartupAssumption DEF IInv, UserCodeSafe
<1> QED
  BY <1>1, Invariance, PTL

(* A process that runs has its handles, and the broker is alive.           *)
THEOREM Broker == Spec => []RunsWithBroker
<1>1. IInv => RunsWithBroker
  BY StartupAssumption DEF IInv, RunsWithBroker, TypeOK, Alive, Startup, HoldsBroker, Ended
<1> QED
  BY <1>1, Invariance, PTL

(* The job of a child never takes a process in user code with it.          *)
THEOREM Spares == Spec => JobsSpareUserCode
<1>1. IInv /\ [Next]_vars =>
      [\A p \in Procs : proc'[p] = "killed" /\ proc[p] # "killed" => proc[p] \in Startup]_vars
  <2> SUFFICES ASSUME IInv, [Next]_vars, NEW p \in Procs,
                      proc'[p] = "killed", proc[p] # "killed"
               PROVE  proc[p] \in Startup
    OBVIOUS
  <2>1. ASSUME NEW c \in Procs, JobCloses(c) PROVE proc[p] \in Startup
    <3>1. Alive(p) /\ c \in within[p] /\ limits[c] = "kill_on_close" /\ c # Root
      BY <2>1 DEF JobCloses, IInv, TypeOK
    <3>2. p = c
      BY <3>1 DEF IInv
    <3> QED
      BY <3>1, <3>2 DEF IInv, Alive
  <2>2. ASSUME ~\E c \in Procs : JobCloses(c) PROVE FALSE
    BY <2>2 DEF Next, SpawnWork, ChildWork, StartBroker, BrokerEnds, SpawnSuspended,
       DuplicateHandle, WriteInitData, ResumeThread, SetJobFlags, RecvSignal, SendEntry,
       SpawnFails, ChildSignals, ChildEnters, Dies, vars, IInv, TypeOK
  <2> QED
    BY <2>1, <2>2
<1> QED
  BY <1>1, Invariance, PTL DEF Spec, JobsSpareUserCode
=============================================================================
