------------------------------ MODULE WinStartup ------------------------------
(***************************************************************************)
(* Spawning on Windows: src/src/platform/windows/subprocess.rs, entry.rs,  *)
(* and the Windows half of spawn() in src/src/asynchronous.rs.             *)
(*                                                                         *)
(* A child is created suspended, in a job that kills it when the last      *)
(* handle of the job, the parent's, is closed.  Handles and INIT_DATA are  *)
(* put into it from outside, it is resumed, and the job is told to let it  *)
(* live.  The child signals, and only then gets the entry that leads to    *)
(* user code.  The broker is a process that never runs and lives as long   *)
(* as anybody holds a handle of its job.                                   *)
(*                                                                         *)
(* Every process in user code may spawn, and every process may die at any  *)
(* time.  Process p is at proc[p]; the job it was created in, the spawn()  *)
(* that made it and its socket pair go by its name too.                    *)
(*                                                                         *)
(* Definitions whose comment begins with "Faulty variant" are not used.    *)
(***************************************************************************)
EXTENDS Naturals, FiniteSets

CONSTANTS Procs, Root

ASSUME StartupAssumption == Root \in Procs

VARIABLES
    proc,     \* proc[p]: where process p is
    parent,   \* parent[p]: the process that spawns it
    spawning, \* spawning[p]: where its parent is in the spawn() of p
    handles,  \* handles[p]: how many of the three handles are in p
    init,     \* init[p]: INIT_DATA is written
    limits,   \* limits[p]: the flags of its job
    within,   \* within[p]: the jobs it belongs to
    signal,   \* signal[p]: its () has been sent
    entry,    \* entry[p]: the entry has been sent to it
    broker    \* "none", "alive" or "dead"

vars == <<proc, parent, spawning, handles, init, limits, within, signal, entry, broker>>

Startup == {"suspended", "starting", "signalled"}
Alive(p) == proc[p] \in Startup \cup {"user", "main"}
Ended    == {"killed", "dead"}

InSpawnChild == {"created", "resumed"}
InSpawn == InSpawnChild \cup {"unlimited", "confirmed"}

TypeOK ==
    /\ proc \in [Procs -> Startup \cup Ended \cup {"none", "user", "main"}]
    /\ parent \in [Procs -> Procs]
    /\ spawning \in [Procs -> InSpawn \cup {"none", "done", "failed"}]
    /\ handles \in [Procs -> 0..3] /\ init \in [Procs -> BOOLEAN]
    /\ limits \in [Procs -> {"kill_on_close", "breakaway"}]
    /\ within \in [Procs -> SUBSET Procs]
    /\ signal \in [Procs -> BOOLEAN] /\ entry \in [Procs -> BOOLEAN]
    /\ broker \in {"none", "alive", "dead"}

Init ==
    /\ proc = [p \in Procs |-> IF p = Root THEN "main" ELSE "none"]
    /\ parent = [p \in Procs |-> Root]
    /\ spawning = [p \in Procs |-> "none"]
    /\ handles = [p \in Procs |-> 0] /\ init = [p \in Procs |-> FALSE]
    /\ limits = [p \in Procs |-> "kill_on_close"] /\ within = [p \in Procs |-> {}]
    /\ signal = [p \in Procs |-> FALSE] /\ entry = [p \in Procs |-> FALSE]
    /\ broker = "none"

\* The handle of the job is a local of _spawn_child.
JobOpen(c) == Alive(parent[c]) /\ spawning[c] \in InSpawnChild

\* The broker's job handle is the second one that is duplicated.
HoldsBroker(p) == Alive(p) /\ IF p = Root THEN broker # "none" ELSE handles[p] >= 2

\* The parent's ends are closed with spawn() when it fails, and with the parent.
ParentGone(c) == ~Alive(parent[c]) \/ spawning[c] = "failed"
-----------------------------------------------------------------------------
(* The root process, and the parent in spawn() *)

\* start_broker, called by init() before main goes on.
StartBroker ==
    /\ proc[Root] = "main" /\ broker = "none"
    /\ broker' = "alive"
    /\ proc' = [proc EXCEPT ![Root] = "user"]
    /\ UNCHANGED <<parent, spawning, handles, init, limits, within, signal, entry>>

\* spawn_suspended_in_job.  A child also belongs to the jobs of its parent, unless
\* they let it break away.
SpawnSuspended(p, c) ==
    /\ proc[p] = "user" /\ proc[c] = "none"
    /\ proc' = [proc EXCEPT ![c] = "suspended"]
    /\ parent' = [parent EXCEPT ![c] = p]
    /\ spawning' = [spawning EXCEPT ![c] = "created"]
    /\ within' = [within EXCEPT ![c] =
                     {c} \cup {j \in within[p] : limits[j] = "kill_on_close"}]
    /\ UNCHANGED <<handles, init, limits, signal, entry, broker>>

\* Broker process, broker job, child's socket.
DuplicateHandle(c) ==
    /\ spawning[c] = "created" /\ Alive(parent[c]) /\ handles[c] < 3 /\ ~init[c]
    /\ handles' = [handles EXCEPT ![c] = @ + 1]
    /\ UNCHANGED <<proc, parent, spawning, init, limits, within, signal, entry, broker>>

\* Faulty variant: without waiting for the loop over the handles.
WriteInitDataEarly(c) ==
    /\ spawning[c] = "created" /\ Alive(parent[c]) /\ handles[c] > 0 /\ ~init[c]
    /\ init' = [init EXCEPT ![c] = TRUE]
    /\ UNCHANGED <<proc, parent, spawning, handles, limits, within, signal, entry, broker>>

\* get_peb twice, ReadProcessMemory, WriteProcessMemory.
WriteInitData(c) ==
    /\ spawning[c] = "created" /\ Alive(parent[c]) /\ handles[c] = 3 /\ ~init[c]
    /\ init' = [init EXCEPT ![c] = TRUE]
    /\ UNCHANGED <<proc, parent, spawning, handles, limits, within, signal, entry, broker>>

ResumeThread(c) ==
    /\ spawning[c] = "created" /\ Alive(parent[c]) /\ init[c]
    /\ spawning' = [spawning EXCEPT ![c] = "resumed"]
    /\ proc' = [proc EXCEPT ![c] = IF @ = "suspended" THEN "starting" ELSE @]
    /\ UNCHANGED <<parent, handles, init, limits, within, signal, entry, broker>>

\* Faulty variant: the new flag is added to the old one.
SetJobFlagsAdding(c) ==
    /\ spawning[c] = "resumed" /\ Alive(parent[c])
    /\ spawning' = [spawning EXCEPT ![c] = "unlimited"]
    /\ UNCHANGED <<proc, parent, handles, init, limits, within, signal, entry, broker>>

\* set_job_flags, and the return of _spawn_child, which closes job and thread.
SetJobFlags(c) ==
    /\ spawning[c] = "resumed" /\ Alive(parent[c])
    /\ limits' = [limits EXCEPT ![c] = "breakaway"]
    /\ spawning' = [spawning EXCEPT ![c] = "unlimited"]
    /\ UNCHANGED <<proc, parent, handles, init, within, signal, entry, broker>>

\* signal.recv().  The parent itself holds the child's end: no end of stream.
RecvSignal(c) ==
    /\ spawning[c] = "unlimited" /\ Alive(parent[c]) /\ signal[c]
    /\ spawning' = [spawning EXCEPT ![c] = "confirmed"]
    /\ UNCHANGED <<proc, parent, handles, init, limits, within, signal, entry, broker>>

\* local.send((entrypoint, args)).
SendEntry(c) ==
    /\ spawning[c] = "confirmed" /\ Alive(parent[c])
    /\ entry' = [entry EXCEPT ![c] = TRUE]
    /\ spawning' = [spawning EXCEPT ![c] = "done"]
    /\ UNCHANGED <<proc, parent, handles, init, limits, within, signal, broker>>

\* Any of these calls fails, or the future is dropped while it waits.
SpawnFails(c) ==
    /\ spawning[c] \in InSpawn /\ Alive(parent[c])
    /\ spawning' = [spawning EXCEPT ![c] = "failed"]
    /\ UNCHANGED <<proc, parent, handles, init, limits, within, signal, entry, broker>>
-----------------------------------------------------------------------------
(* The child *)

\* crossmist_main: load_init_handles, and the signal, which cannot be sent to a
\* parent that has gone.
ChildSignals(c) ==
    /\ proc[c] = "starting"
    /\ \/ ~ParentGone(c) /\ signal' = [signal EXCEPT ![c] = TRUE]
                         /\ proc' = [proc EXCEPT ![c] = "signalled"]
       \/ ParentGone(c) /\ proc' = [proc EXCEPT ![c] = "dead"] /\ UNCHANGED signal
    /\ UNCHANGED <<parent, spawning, handles, init, limits, within, entry, broker>>

\* Faulty variant: an end of stream is waited out.
ChildEntersOnly(c) ==
    /\ proc[c] = "signalled" /\ entry[c] /\ proc' = [proc EXCEPT ![c] = "user"]
    /\ UNCHANGED <<parent, spawning, handles, init, limits, within, signal, entry, broker>>

\* handle_entry: the entry leads to user code, the end of the stream to a panic.
ChildEnters(c) ==
    /\ proc[c] = "signalled"
    /\ \/ entry[c] /\ proc' = [proc EXCEPT ![c] = "user"]
       \/ ~entry[c] /\ ParentGone(c) /\ proc' = [proc EXCEPT ![c] = "dead"]
    /\ UNCHANGED <<parent, spawning, handles, init, limits, within, signal, entry, broker>>
-----------------------------------------------------------------------------
(* The system *)

\* A process ends, fails to start, or is terminated.
Dies(p) ==
    /\ Alive(p) /\ proc' = [proc EXCEPT ![p] = "dead"]
    /\ UNCHANGED <<parent, spawning, handles, init, limits, within, signal, entry, broker>>

\* Nobody holds a handle of the job of c any more.
JobCloses(c) ==
    /\ proc[c] # "none" /\ c # Root /\ ~JobOpen(c) /\ limits[c] = "kill_on_close"
    /\ \E p \in Procs : Alive(p) /\ c \in within[p]
    /\ proc' = [p \in Procs |-> IF Alive(p) /\ c \in within[p] THEN "killed" ELSE proc[p]]
    /\ UNCHANGED <<parent, spawning, handles, init, limits, within, signal, entry, broker>>

BrokerEnds ==
    /\ broker = "alive" /\ ~\E p \in Procs : HoldsBroker(p)
    /\ broker' = "dead"
    /\ UNCHANGED <<proc, parent, spawning, handles, init, limits, within, signal, entry>>
-----------------------------------------------------------------------------
SpawnWork(c) == DuplicateHandle(c) \/ WriteInitData(c) \/ ResumeThread(c)
                    \/ SetJobFlags(c) \/ RecvSignal(c) \/ SendEntry(c)
ChildWork(c) == ChildSignals(c) \/ ChildEnters(c)

Next ==
    \/ StartBroker \/ BrokerEnds
    \/ \E c \in Procs : \/ \E p \in Procs : SpawnSuspended(p, c)
                        \/ SpawnWork(c) \/ SpawnFails(c) \/ ChildWork(c)
                        \/ Dies(c) \/ JobCloses(c)

Spec == Init /\ [][Next]_vars

\* Threads run and the kernel ends jobs; nothing has to fail or die.
FairSpec ==
    /\ Spec /\ WF_vars(BrokerEnds)
    /\ \A c \in Procs : WF_vars(SpawnWork(c)) /\ WF_vars(ChildWork(c)) /\ WF_vars(JobCloses(c))
-----------------------------------------------------------------------------
(* Properties *)

\* "By the time we enter user code, ... our parent has already made the job we're
\* in non-kill-on-close" (entry.rs): for every job of the process.
UserCodeSafe ==
    \A p \in Procs : proc[p] = "user" => \A j \in within[p] : limits[j] = "breakaway"

\* Why: the entry waits for the signal, which the parent awaits after it has changed
\* the job; a process in user code makes children that belong to no job but their
\* own; whoever runs or spawns holds a handle of the broker's job.
IInv ==
    /\ TypeOK
    /\ proc[Root] # "none" /\ within[Root] = {} /\ spawning[Root] = "none" /\ ~entry[Root]
    /\ \A p \in Procs :
          /\ proc[p] = "main" => p = Root
          /\ proc[p] = "none" => spawning[p] = "none" /\ handles[p] = 0
          /\ proc[p] = "user" => p = Root \/ entry[p]
          /\ within[p] \subseteq {p}
          /\ entry[p] => spawning[p] = "done"
          /\ spawning[p] \in {"unlimited", "confirmed", "done"} => limits[p] = "breakaway"
          /\ p # Root /\ proc[p] \in {"starting", "signalled", "user"} => init[p]
          /\ init[p] => handles[p] = 3
          /\ spawning[p] # "none" => proc[parent[p]] # "none"
          /\ spawning[p] \in InSpawn /\ Alive(parent[p]) => proc[parent[p]] = "user"
          /\ HoldsBroker(p) => broker = "alive"
          /\ proc[p] = "user" => broker # "none"
          /\ proc[p] \notin {"none", "main"} \cup Ended => HoldsBroker(p) \/ proc[p] = "suspended"

\* A job kills processes that are starting up, never one in user code.
JobsSpareUserCode ==
    [][\A p \in Procs : proc'[p] = "killed" /\ proc[p] # "killed" => proc[p] \in Startup]_vars

\* A process that runs finds its handles in INIT_DATA, and the broker alive even
\* if the root and its parent are not.
RunsWithBroker ==
    \A p \in Procs : proc[p] \in {"starting", "signalled", "user"} =>
        broker = "alive" /\ (p # Root => handles[p] = 3 /\ init[p])

\* A child does not stay behind in start-up, suspended or not, when spawn() has
\* failed or the parent is dead: it ends, or has got its entry.
NoComa == \A c \in Procs \ {Root} :
    (proc[c] # "none" /\ ParentGone(c)) ~> proc[c] \in Ended \cup {"user"}

\* spawn() returns even if the process dies in start-up (lib.rs: run() returns an
\* error if the process is terminated).
SpawnReturns == \A c \in Procs :
    spawning[c] \in InSpawn ~> spawning[c] \in {"done", "failed"} \/ ~Alive(parent[c])
=============================================================================
