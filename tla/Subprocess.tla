----------------------------- MODULE Subprocess -----------------------------
(***************************************************************************)
(* The life of subprocesses on Unix: spawn, handle_entry, Child::join and  *)
(* KillHandle::kill of src/src/asynchronous.rs, with the part of the       *)
(* operating system they rely on: process identifiers, zombies, and the    *)
(* socket pair between the two processes.                                  *)
(*                                                                         *)
(* A child is one call of spawn.  What travels on its socket pair is       *)
(* counted in packets (SeqPacketChannel shows what a packet is): the entry *)
(* with the arguments on the way in, the returned value on the way out.    *)
(*                                                                         *)
(* Definitions whose comment begins with "Faulty variant" are not used:    *)
(* each is the definition after it with a plausible mistake, by which the  *)
(* properties are shown to tell right from wrong.                          *)
(***************************************************************************)
EXTENDS Naturals

CONSTANTS
    Children,    \* calls of spawn
    Pids,        \* process identifiers
    Jobs,        \* what a child has to do: [args, out : packets, unit : BOOLEAN]
    Capacity,    \* packets a socket buffers before sendmsg blocks
    MaxKills     \* bound: calls of kill per child

Free  == "free"     \* the identifier names no process
Other == "other"    \* it names a process that is not one of Children

ASSUME SubprocessAssumption ==
    /\ Jobs \subseteq [args : Nat \ {0}, out : Nat \ {0}, unit : BOOLEAN]
    /\ Capacity \in Nat \ {0} /\ MaxKills \in Nat
    /\ Free \notin Children /\ Other \notin Children

VARIABLES
    job,       \* job[c]: the arguments, the value and the return type of c
    parent,    \* parent[c]: where the parent is in spawn(), then join(), of c
    child,     \* child[c]: where the process of c is in handle_entry
    pid,       \* pid[c]: proc_handle and proc_id of c
    owner,     \* owner[p]: the process p names, zombies included
    status,    \* status[c]: how the process of c ended
    returned,  \* returned[c]: the function of c has returned
    toSend,    \* toSend[c]: packets spawn has yet to send
    inbox,     \* inbox[c]: packets the process of c can receive
    toReturn,  \* toReturn[c]: packets of the value the process has yet to send
    outbox,    \* outbox[c]: packets the parent can receive
    mayKill,   \* mayKill[c]: the boolean in the mutex may_kill
    lock,      \* lock[c]: who holds that mutex
    kill,      \* kill[c]: where a thread with a KillHandle of c is in kill()
    kills,     \* kills[c]: how many times kill() has been called
    result     \* result[c]: what join returned

socket == <<toSend, inbox, toReturn, outbox>>
mutex  == <<mayKill, lock>>
killer == <<kill, kills>>
vars   == <<job, parent, child, pid, owner, status, returned, socket, mutex, killer, result>>

Spawning   == {"sending"}
Joining    == {"receiving", "locking", "waiting"}
ParentAt   == {"none", "failed", "handed", "dropped", "joined"} \cup Spawning \cup Joining
ChildAt    == {"none", "reading", "running", "returning", "exiting", "zombie", "reaped"}
KillAt     == {"nohandle", "idle", "locking", "locked", "signalling"}
Statuses   == {"none", "zero", "nonzero", "signal"}
Results    == {"none", "ok", "err", "eintr"}
Job        == [args : Nat, out : Nat, unit : BOOLEAN]

TypeOK ==
    /\ job      \in [Children -> Job]
    /\ parent   \in [Children -> ParentAt]
    /\ child    \in [Children -> ChildAt]
    /\ pid      \in [Children -> Pids \cup {Free}]
    /\ owner    \in [Pids -> Children \cup {Free, Other}]
    /\ status   \in [Children -> Statuses]
    /\ returned \in [Children -> BOOLEAN]
    /\ toSend   \in [Children -> Nat]
    /\ inbox    \in [Children -> Nat]
    /\ toReturn \in [Children -> Nat]
    /\ outbox   \in [Children -> Nat]
    /\ mayKill  \in [Children -> BOOLEAN]
    /\ lock     \in [Children -> {"none", "join", "kill"}]
    /\ kill     \in [Children -> KillAt]
    /\ kills    \in [Children -> Nat]
    /\ result   \in [Children -> Results]

Init ==
    /\ job      = [c \in Children |-> [args |-> 0, out |-> 0, unit |-> FALSE]]
    /\ parent   = [c \in Children |-> "none"]
    /\ child    = [c \in Children |-> "none"]
    /\ pid      = [c \in Children |-> Free]
    /\ owner    = [p \in Pids |-> Free]
    /\ status   = [c \in Children |-> "none"]
    /\ returned = [c \in Children |-> FALSE]
    /\ toSend   = [c \in Children |-> 0]
    /\ inbox    = [c \in Children |-> 0]
    /\ toReturn = [c \in Children |-> 0]
    /\ outbox   = [c \in Children |-> 0]
    /\ mayKill  = [c \in Children |-> TRUE]
    /\ lock     = [c \in Children |-> "none"]
    /\ kill     = [c \in Children |-> "nohandle"]
    /\ kills    = [c \in Children |-> 0]
    /\ result   = [c \in Children |-> "none"]
-----------------------------------------------------------------------------
(* The socket pair: who keeps which end open *)

\* Faulty variant: a kill handle shares the Child, and its stream with it.
ParentEndShared(c) ==
    \/ parent[c] \in Spawning \cup {"handed"} \cup Joining
    \/ kill[c] # "nohandle"

\* The parent's end: local, then output_rx of the Child.
ParentEnd(c) == parent[c] \in Spawning \cup {"handed"} \cup Joining

\* Faulty variant: the parent's copy lives as long as the Child.
ChildEndKept(c) ==
    \/ child[c] \in {"reading", "running", "returning"}
    \/ parent[c] \in Spawning \cup {"handed"} \cup Joining

\* The process's end, held by the process until its function has returned and
\* the value is sent, and by the parent (variable child of spawn) until spawn
\* is over.
ChildEnd(c) == child[c] \in {"reading", "running", "returning"} \/ parent[c] \in Spawning

\* The process's end was closed with packets unread: recvmsg of the parent
\* fails with ECONNRESET.
Reset(c) == ~ChildEnd(c) /\ inbox[c] > 0

Alive(c) == child[c] \in {"reading", "running", "returning", "exiting"}

\* The process of c ends with the given status.  It stays a zombie, and its
\* identifier stays taken, until it is waited for.
Die(c, st) ==
    /\ child' = [child EXCEPT ![c] = "zombie"]
    /\ status' = [status EXCEPT ![c] = st]
-----------------------------------------------------------------------------
(* spawn *)

\* duplex() and _spawn_child() succeed.  When either fails, spawn returns the
\* error and nothing is left behind: no step.
Spawn(c, p, j) ==
    /\ parent[c] = "none" /\ owner[p] = Free
    /\ job' = [job EXCEPT ![c] = j]
    /\ parent' = [parent EXCEPT ![c] = "sending"]
    /\ child' = [child EXCEPT ![c] = "reading"]
    /\ pid' = [pid EXCEPT ![c] = p]
    /\ owner' = [owner EXCEPT ![p] = c]
    /\ toSend' = [toSend EXCEPT ![c] = j.args]
    /\ toReturn' = [toReturn EXCEPT ![c] = j.out]
    /\ UNCHANGED <<status, returned, inbox, outbox, mutex, killer, result>>

\* local.send((entrypoint, args)): one packet.  After the last one the parent's
\* copy of the process's end is dropped and the Child is returned.
SpawnSend(c) ==
    /\ parent[c] = "sending" /\ inbox[c] < Capacity
    /\ toSend' = [toSend EXCEPT ![c] = @ - 1]
    /\ inbox' = [inbox EXCEPT ![c] = @ + 1]
    /\ parent' = [parent EXCEPT ![c] = IF toSend[c] = 1 THEN "handed" ELSE "sending"]
    /\ UNCHANGED <<job, child, pid, owner, status, returned, toReturn, outbox,
                   mutex, killer, result>>

\* The send fails (EINTR, ...) or the future of spawn is dropped: both ends are
\* closed and the process is left on its own.
SpawnAborts(c) ==
    /\ parent[c] = "sending"
    /\ parent' = [parent EXCEPT ![c] = "failed"]
    /\ UNCHANGED <<job, child, pid, owner, status, returned, socket, mutex, killer, result>>
-----------------------------------------------------------------------------
(* handle_entry and the closure entrypoint, in the process of c *)

\* Faulty variant: the entry is read once all of it has been sent.
ChildRecvWhenSent(c) ==
    /\ child[c] = "reading" /\ inbox[c] > 0 /\ toSend[c] = 0
    /\ inbox' = [inbox EXCEPT ![c] = @ - 1]
    /\ child' = [child EXCEPT ![c] = IF inbox[c] = 1 THEN "running" ELSE "reading"]
    /\ UNCHANGED <<job, parent, pid, owner, status, returned, toSend, toReturn, outbox,
                   mutex, killer, result>>

\* rx.recv(): one packet.  After the last one the function is called.
ChildRecv(c) ==
    /\ child[c] = "reading" /\ inbox[c] > 0
    /\ inbox' = [inbox EXCEPT ![c] = @ - 1]
    /\ child' = [child EXCEPT ![c] =
                   IF toSend[c] = 0 /\ inbox[c] = 1 THEN "running" ELSE "reading"]
    /\ UNCHANGED <<job, parent, pid, owner, status, returned, toSend, toReturn, outbox,
                   mutex, killer, result>>

\* rx.recv() finds the end of the stream, inside the entry or before it: expect
\* panics.
ChildRecvEof(c) ==
    /\ child[c] = "reading" /\ inbox[c] = 0 /\ ~ParentEnd(c)
    /\ Die(c, "nonzero")
    /\ UNCHANGED <<job, parent, pid, owner, returned, socket, mutex, killer, result>>

\* The function returns.  A () is not sent.
ChildReturns(c) ==
    /\ child[c] = "running"
    /\ returned' = [returned EXCEPT ![c] = TRUE]
    /\ child' = [child EXCEPT ![c] = IF job[c].unit THEN "exiting" ELSE "returning"]
    /\ UNCHANGED <<job, parent, pid, owner, status, socket, mutex, killer, result>>

\* The function calls exit or panics instead.
ChildStops(c, st) ==
    /\ child[c] = "running"
    /\ Die(c, st)
    /\ UNCHANGED <<job, parent, pid, owner, returned, socket, mutex, killer, result>>

\* channel.send(output): one packet.  After the last one the channel is dropped.
ChildSend(c) ==
    /\ child[c] = "returning" /\ ParentEnd(c) /\ outbox[c] < Capacity
    /\ toReturn' = [toReturn EXCEPT ![c] = @ - 1]
    /\ outbox' = [outbox EXCEPT ![c] = @ + 1]
    /\ child' = [child EXCEPT ![c] = IF toReturn[c] = 1 THEN "exiting" ELSE "returning"]
    /\ UNCHANGED <<job, parent, pid, owner, status, returned, toSend, inbox,
                   mutex, killer, result>>

\* The Child was dropped: the send fails and expect panics.
ChildSendFails(c) ==
    /\ child[c] = "returning" /\ ~ParentEnd(c)
    /\ Die(c, "nonzero")
    /\ UNCHANGED <<job, parent, pid, owner, returned, socket, mutex, killer, result>>

\* process::exit(0) at the end of handle_entry.
ChildExits(c) ==
    /\ child[c] = "exiting"
    /\ Die(c, "zero")
    /\ UNCHANGED <<job, parent, pid, owner, returned, socket, mutex, killer, result>>

\* Something else kills the process: a fault, the system, an operator.
ChildKilled(c) ==
    /\ Alive(c)
    /\ Die(c, "signal")
    /\ UNCHANGED <<job, parent, pid, owner, returned, socket, mutex, killer, result>>
-----------------------------------------------------------------------------
(* Child: drop and join *)

DropChild(c) ==
    /\ parent[c] = "handed"
    /\ parent' = [parent EXCEPT ![c] = "dropped"]
    /\ UNCHANGED <<job, child, pid, owner, status, returned, socket, mutex, killer, result>>

\* Faulty variant: the mutex is taken before the value is received.
JoinLockingFirst(c) ==
    /\ parent[c] = "handed" /\ lock[c] = "none"
    /\ parent' = [parent EXCEPT ![c] = "receiving"]
    /\ lock' = [lock EXCEPT ![c] = "join"]
    /\ UNCHANGED <<job, child, pid, owner, status, returned, socket, mayKill, killer, result>>

Join(c) ==
    /\ parent[c] = "handed"
    /\ parent' = [parent EXCEPT ![c] = "receiving"]
    /\ UNCHANGED <<job, child, pid, owner, status, returned, socket, mutex, killer, result>>

\* Packets of the value that join has received.
Received(c) == job[c].out - toReturn[c] - outbox[c]

\* output_rx.recv(): one packet.
JoinRecv(c) ==
    /\ parent[c] = "receiving" /\ ~Reset(c) /\ outbox[c] > 0
    /\ outbox' = [outbox EXCEPT ![c] = @ - 1]
    /\ parent' = [parent EXCEPT ![c] =
                    IF Received(c) + 1 = job[c].out THEN "locking" ELSE "receiving"]
    /\ UNCHANGED <<job, child, pid, owner, status, returned, toSend, inbox, toReturn,
                   mutex, killer, result>>

\* Faulty variant: the end of the stream is an error like any other.
JoinRecvNoneFails(c) ==
    /\ parent[c] = "receiving" /\ ~Reset(c) /\ outbox[c] = 0 /\ ~ChildEnd(c)
    /\ Received(c) = 0
    /\ parent' = [parent EXCEPT ![c] = "joined"]
    /\ result' = [result EXCEPT ![c] = "err"]
    /\ UNCHANGED <<job, child, pid, owner, status, returned, socket, mutex, killer>>

\* recv returns Ok(None): the stream ends before the value.
JoinRecvNone(c) ==
    /\ parent[c] = "receiving" /\ ~Reset(c) /\ outbox[c] = 0 /\ ~ChildEnd(c)
    /\ Received(c) = 0
    /\ parent' = [parent EXCEPT ![c] = "locking"]
    /\ UNCHANGED <<job, child, pid, owner, status, returned, socket, mutex, killer, result>>

\* recv fails, because the stream ends inside the value or with ECONNRESET, and
\* the ? returns from join without waiting for the process.
JoinRecvFails(c) ==
    /\ parent[c] = "receiving"
    /\ Reset(c) \/ (outbox[c] = 0 /\ ~ChildEnd(c) /\ Received(c) > 0)
    /\ parent' = [parent EXCEPT ![c] = "joined"]
    /\ result' = [result EXCEPT ![c] = "err"]
    /\ UNCHANGED <<job, child, pid, owner, status, returned, socket, mutex, killer>>

\* A signal handler runs in the thread: recvmsg, or waitpid, fails with EINTR
\* and the ? returns from join without waiting for the process.
JoinInterrupted(c) ==
    /\ parent[c] \in {"receiving", "waiting"}
    /\ parent' = [parent EXCEPT ![c] = "joined"]
    /\ result' = [result EXCEPT ![c] = "eintr"]
    /\ lock' = [lock EXCEPT ![c] = IF parent[c] = "waiting" THEN "none" ELSE @]
    /\ UNCHANGED <<job, child, pid, owner, status, returned, socket, mayKill, killer>>

\* The future of join is dropped where it awaits.
JoinCancelled(c) ==
    /\ parent[c] = "receiving"
    /\ parent' = [parent EXCEPT ![c] = "dropped"]
    /\ UNCHANGED <<job, child, pid, owner, status, returned, socket, mutex, killer, result>>

\* Faulty variant: the boolean stays true.
JoinLockOnly(c) ==
    /\ parent[c] = "locking" /\ lock[c] = "none"
    /\ parent' = [parent EXCEPT ![c] = "waiting"]
    /\ lock' = [lock EXCEPT ![c] = "join"]
    /\ UNCHANGED <<job, child, pid, owner, status, returned, socket, mayKill, killer, result>>

\* may_kill.lock(), *guard = false.
JoinLock(c) ==
    /\ parent[c] = "locking" /\ lock[c] = "none"
    /\ parent' = [parent EXCEPT ![c] = "waiting"]
    /\ lock' = [lock EXCEPT ![c] = "join"]
    /\ mayKill' = [mayKill EXCEPT ![c] = FALSE]
    /\ UNCHANGED <<job, child, pid, owner, status, returned, socket, killer, result>>

\* Faulty variant: only the exit status counts.
JoinResultOfStatus(c) == IF status[c] = "zero" THEN "ok" ELSE "err"

\* What join makes of the exit status and of what it received; a () is always
\* there.
JoinResult(c) ==
    IF status[c] = "zero" /\ (job[c].unit \/ Received(c) = job[c].out) THEN "ok" ELSE "err"

\* waitpid returns: the identifier is free again, the guard is dropped.
JoinWait(c) ==
    /\ parent[c] = "waiting" /\ child[c] = "zombie"
    /\ child' = [child EXCEPT ![c] = "reaped"]
    /\ owner' = [owner EXCEPT ![pid[c]] = Free]
    /\ parent' = [parent EXCEPT ![c] = "joined"]
    /\ result' = [result EXCEPT ![c] = JoinResult(c)]
    /\ lock' = [lock EXCEPT ![c] = "none"]
    /\ UNCHANGED <<job, pid, status, returned, socket, mayKill, killer>>
-----------------------------------------------------------------------------
(* KillHandle *)

GetKillHandle(c) ==
    /\ parent[c] = "handed" /\ kill[c] = "nohandle"
    /\ kill' = [kill EXCEPT ![c] = "idle"]
    /\ UNCHANGED <<job, parent, child, pid, owner, status, returned, socket, mutex, kills, result>>

Kill(c) ==
    /\ kill[c] = "idle" /\ kills[c] < MaxKills
    /\ kill' = [kill EXCEPT ![c] = "locking"]
    /\ kills' = [kills EXCEPT ![c] = @ + 1]
    /\ UNCHANGED <<job, parent, child, pid, owner, status, returned, socket, mutex, result>>

KillLock(c) ==
    /\ kill[c] = "locking" /\ lock[c] = "none"
    /\ kill' = [kill EXCEPT ![c] = "locked"]
    /\ lock' = [lock EXCEPT ![c] = "kill"]
    /\ UNCHANGED <<job, parent, child, pid, owner, status, returned, socket, mayKill, kills, result>>

\* !*guard: "This process has already been joined".
KillRefused(c) ==
    /\ kill[c] = "locked" /\ ~mayKill[c]
    /\ kill' = [kill EXCEPT ![c] = "idle"]
    /\ lock' = [lock EXCEPT ![c] = "none"]
    /\ UNCHANGED <<job, parent, child, pid, owner, status, returned, socket, mayKill, kills, result>>

KillAllowed(c) ==
    /\ kill[c] = "locked" /\ mayKill[c]
    /\ kill' = [kill EXCEPT ![c] = "signalling"]
    /\ UNCHANGED <<job, parent, child, pid, owner, status, returned, socket, mutex, kills, result>>

\* kill_process(proc_id, SIGKILL) and the end of the guard: whatever process the
\* identifier names is killed.
KillSignal(c) ==
    /\ kill[c] = "signalling"
    /\ \/ \E d \in Children : owner[pid[c]] = d /\ Alive(d) /\ Die(d, "signal")
       \/ ~(\E d \in Children : owner[pid[c]] = d /\ Alive(d)) /\ UNCHANGED <<child, status>>
    /\ kill' = [kill EXCEPT ![c] = "idle"]
    /\ lock' = [lock EXCEPT ![c] = "none"]
    /\ UNCHANGED <<job, parent, pid, owner, returned, socket, mayKill, kills, result>>
-----------------------------------------------------------------------------
(* The rest of the system starts and ends processes *)

OtherStarts(p) ==
    /\ owner[p] = Free
    /\ owner' = [owner EXCEPT ![p] = Other]
    /\ UNCHANGED <<job, parent, child, pid, status, returned, socket, mutex, killer, result>>

OtherEnds(p) ==
    /\ owner[p] = Other
    /\ owner' = [owner EXCEPT ![p] = Free]
    /\ UNCHANGED <<job, parent, child, pid, status, returned, socket, mutex, killer, result>>
-----------------------------------------------------------------------------
\* Steps of a call of spawn or join that is in progress.
ParentWork(c) ==
    \/ SpawnSend(c) \/ JoinRecv(c) \/ JoinRecvNone(c) \/ JoinRecvFails(c)
    \/ JoinLock(c) \/ JoinWait(c)

\* Steps of the process of c outside its function.
ChildWork(c) ==
    \/ ChildRecv(c) \/ ChildRecvEof(c) \/ ChildSend(c) \/ ChildSendFails(c) \/ ChildExits(c)

KillWork(c) == KillLock(c) \/ KillRefused(c) \/ KillAllowed(c) \/ KillSignal(c)

\* What the program, the function and the system may do or not.
Choice(c) ==
    \/ \E p \in Pids, j \in Jobs : Spawn(c, p, j)
    \/ SpawnAborts(c) \/ DropChild(c) \/ Join(c) \/ JoinCancelled(c) \/ JoinInterrupted(c)
    \/ ChildReturns(c) \/ ChildKilled(c)
    \/ \E st \in {"zero", "nonzero"} : ChildStops(c, st)
    \/ GetKillHandle(c) \/ Kill(c)

Next ==
    \/ \E c \in Children : ParentWork(c) \/ ChildWork(c) \/ KillWork(c) \/ Choice(c)
    \/ \E p \in Pids : OtherStarts(p) \/ OtherEnds(p)

Spec == Init /\ [][Next]_vars

\* Threads and processes that can run do; the function of a child may run for
\* ever, and nobody has to join, kill or start anything.
FairSpec == Spec /\ \A c \in Children :
    WF_vars(ParentWork(c)) /\ WF_vars(ChildWork(c)) /\ WF_vars(KillWork(c))
-----------------------------------------------------------------------------
(* Properties *)

\* When kill() is about to signal, its process identifier still names the
\* child: it has not been given to another process meanwhile.
KillHitsChild ==
    \A c \in Children : kill[c] = "signalling" => owner[pid[c]] = c

\* join returns Ok only for a process that exited with status 0 and whose
\* function returned, unless the function returns ().
JoinOkMeansSuccess ==
    \A c \in Children : result[c] = "ok" =>
        /\ status[c] = "zero"
        /\ returned[c] \/ job[c].unit

\* join does not turn success into an error: when the function returned and the
\* process exited with status 0, it is not "err".
JoinErrMeansFailure ==
    \A c \in Children : result[c] = "err" => ~(returned[c] /\ status[c] = "zero")

\* What the caller knows of the function: an interrupted call tells it nothing.
CallerAt(c) ==
    CASE parent[c] = "none" -> "idle"
      [] ParentEnd(c) -> "pending"
      [] parent[c] = "joined" /\ result[c] # "eintr" -> result[c]
      [] OTHER -> "left"

\* What has become of it: it is done when its process exits with status 0.
CalleeAt(c) ==
    CASE child[c] \in {"none", "reading"} -> "idle"
      [] child[c] \in {"running", "returning", "exiting"} -> "running"
      [] OTHER -> IF status[c] = "zero" /\ (returned[c] \/ job[c].unit) THEN "done" ELSE "stopped"

Promise == INSTANCE RemoteCall WITH
    Calls  <- Children,
    caller <- [c \in Children |-> CallerAt(c)],
    callee <- [c \in Children |-> CalleeAt(c)]

\* spawn and join implement RemoteCall: the function is called at most once, Ok
\* means that it is done, and after an error it never will be.
ImplementsRemoteCall == Promise!Spec

\* join returns once the process has ended, with whatever amount of its value
\* sent, whoever else uses the kill handle.
JoinReturns ==
    \A c \in Children :
        (parent[c] \in Joining /\ child[c] = "zombie") ~> parent[c] \in {"joined", "dropped"}

\* kill() returns, also while join holds the mutex in waitpid.
KillReturns ==
    \A c \in Children : kill[c] = "locking" ~> kill[c] = "idle"

\* While the process lives, spawn returns however large the arguments are.
SpawnReturnsOrChildDies ==
    \A c \in Children :
        parent[c] = "sending" ~> (parent[c] # "sending" \/ child[c] = "zombie")

\* A process nobody will join any more (its Child or the future of join was
\* dropped, join returned early, or spawn failed) hangs neither in receiving its
\* entry nor in sending its value.
OrphansEnd ==
    \A c \in Children :
        (parent[c] \in {"dropped", "joined", "failed"} /\ child[c] \in {"reading", "returning"})
            ~> child[c] \in {"running", "exiting", "zombie", "reaped"}

\* spawn or run reports the death of the process: a spawn in progress ends.
SpawnReturns ==
    \A c \in Children :
        (parent[c] = "sending" /\ child[c] = "zombie") ~> parent[c] # "sending"
=============================================================================
