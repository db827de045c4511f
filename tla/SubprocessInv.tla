--------------------------- MODULE SubprocessInv ---------------------------
(***************************************************************************)
(* The inductive invariant behind KillHitsChild, JoinOkMeansSuccess and    *)
(* JoinErrMeansFailure of Subprocess.                                      *)
(***************************************************************************)
EXTENDS Subprocess

Ended(c) == child[c] \in {"zombie", "reaped"}

\* The mutex: it protects the boolean against a kill that has read it, and the
\* boolean is false before the identifier is released.
HandleInv(c) ==
    /\ parent[c] = "none" <=> child[c] = "none"
    /\ child[c] \notin {"none", "reaped"} => pid[c] \in Pids /\ owner[pid[c]] = c
    /\ child[c] = "reaped" => ~mayKill[c]
    /\ parent[c] = "waiting" <=> lock[c] = "join"
    /\ parent[c] = "waiting" => ~mayKill[c]
    /\ kill[c] \in {"locked", "signalling"} <=> lock[c] = "kill"
    /\ kill[c] = "signalling" => mayKill[c]
    /\ kill[c] # "nohandle" => child[c] # "none"

\* The entry: the function runs, or ends the process with status 0, only after all of
\* it has been sent and read.
EntryInv(c) ==
    /\ parent[c] = "sending" => toSend[c] > 0
    /\ parent[c] \in {"handed"} \cup Joining => toSend[c] = 0
    /\ child[c] \in {"running", "returning", "exiting"} \/ returned[c] \/ status[c] = "zero" =>
           toSend[c] = 0 /\ inbox[c] = 0

\* The value: it is sent after the function returned, completely or the process
\* does not exit with status 0.
ValueInv(c) ==
    /\ child[c] # "none" => job[c].out > 0
    /\ outbox[c] + toReturn[c] <= job[c].out
    /\ ~returned[c] \/ job[c].unit => outbox[c] = 0 /\ toReturn[c] = job[c].out
    /\ child[c] \in {"none", "reading", "running"} => ~returned[c]
    /\ child[c] \in {"returning", "exiting"} => returned[c]
    /\ child[c] = "returning" => toReturn[c] > 0 /\ ~job[c].unit
    /\ child[c] = "exiting" \/ (returned[c] /\ status[c] = "zero") =>
           toReturn[c] = 0 \/ job[c].unit
    /\ status[c] = "none" <=> ~Ended(c)

Succeeded(c) == returned[c] /\ status[c] = "zero"

JoinInv(c) ==
    /\ parent[c] \in {"sending", "handed"} => outbox[c] + toReturn[c] = job[c].out
    /\ parent[c] = "receiving" => outbox[c] + toReturn[c] > 0
    /\ parent[c] \in {"locking", "waiting"} =>
           \/ outbox[c] + toReturn[c] = 0
           \/ job[c].unit
           \/ Ended(c) /\ ~Succeeded(c)
    /\ child[c] = "reaped" => parent[c] = "joined"
    /\ result[c] = "ok" =>
           child[c] = "reaped" /\ status[c] = "zero" /\ (returned[c] \/ job[c].unit)
    /\ result[c] = "err" => Ended(c) /\ ~Succeeded(c)
    /\ parent[c] = "joined" <=> result[c] # "none"

IInv ==
    /\ TypeOK
    /\ \A c \in Children : HandleInv(c) /\ EntryInv(c) /\ ValueInv(c) /\ JoinInv(c)
=============================================================================
