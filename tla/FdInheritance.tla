--------------------------- MODULE FdInheritance ----------------------------
(***************************************************************************)
(* Descriptor tables across spawn (asynchronous.rs, unix/subprocess.rs,    *)
(* unix/entry.rs, unix/internals.rs).  Threads of any process spawn        *)
(* children at the same time, children spawn grandchildren, and other code *)
(* forks and executes programs whenever it likes.  An end of a channel     *)
(* that leaks into a stranger is an end that never closes.                 *)
(*                                                                         *)
(* The spawn of c uses two channels: <<c, "local">> and <<c, "child">> are *)
(* the ends of the one spawn makes, <<c, "ours">> and <<c, "theirs">> of   *)
(* one the program makes and passes to c among the arguments.              *)
(*                                                                         *)
(* Definitions whose comment begins with "Faulty variant" are not used.    *)
(***************************************************************************)
EXTENDS Naturals, FiniteSets

CONSTANTS
    Procs,    \* processes, of crossmist and others
    Root,     \* the one that exists at first
    Threads,  \* threads of a process that spawn
    Large,    \* those whose arguments do not fit into the socket buffer
    MaxFd,    \* bound: the largest descriptor number
    None      \* no process, no number, no file

Fds  == 0..MaxFd
Ends == Procs \X {"local", "child", "ours", "theirs"}

ASSUME FdAssumption ==
    /\ Root \in Procs /\ Large \subseteq Procs /\ MaxFd \in Nat
    /\ None \notin Procs /\ None \notin Fds /\ None \notin Ends

VARIABLES
    table,    \* table[p][f]: the end that descriptor f of p names, or None
    cloexec,  \* cloexec[p]: the descriptors of p that exec closes
    life,     \* where a process is between fork and its death
    parent,   \* who has forked it, or is going to
    argv,     \* the number on its command line; None for other programs
    entry,    \* the message with the entry point and the arguments
    at,       \* at[p][t]: where thread t of p is in its spawn
    job       \* job[p][t]: the process it spawns
vars == <<table, cloexec, life, parent, argv, entry, at, job>>

Lives  == {"unborn", "forked", "prepared", "execed", "entered", "running", "dead"}
Places == {"idle", "channel", "paired", "spawning", "sent", "handed", "joined"}

TypeOK ==
    /\ table \in [Procs -> [Fds -> Ends \cup {None}]]
    /\ cloexec \in [Procs -> SUBSET Fds]
    /\ life \in [Procs -> Lives]
    /\ parent \in [Procs -> Procs \cup {None}]
    /\ argv \in [Procs -> Fds \cup {None}]
    /\ entry \in [Procs -> {"none", "sent", "read"}]
    /\ at \in [Procs -> [Threads -> Places]]
    /\ job \in [Procs -> [Threads -> Procs \cup {None}]]

Init ==
    /\ table = [p \in Procs |-> [f \in Fds |-> None]]
    /\ cloexec = [p \in Procs |-> {}]
    /\ life = [p \in Procs |-> IF p = Root THEN "running" ELSE "unborn"]
    /\ parent = [p \in Procs |-> None]
    /\ argv = [p \in Procs |-> None]
    /\ entry = [p \in Procs |-> "none"]
    /\ at = [p \in Procs |-> [t \in Threads |-> "idle"]]
    /\ job = [p \in Procs |-> [t \in Threads |-> None]]
-----------------------------------------------------------------------------
(* The kernel *)

Open(p) == {f \in Fds : table[p][f] # None}
Holds(p, e) == \E f \in Fds : table[p][f] = e

\* The number a new descriptor of p gets, when those in used are taken.
Lowest(used, f) == f \in Fds \ used /\ \A g \in Fds \ used : f <= g

Close(p, gone) ==
    table' = [table EXCEPT ![p] = [f \in Fds |-> IF @[f] \in gone THEN None ELSE @[f]]]

\* A new descriptor f of p, marked FD_CLOEXEC.
Install(p, f, e) ==
    /\ table' = [table EXCEPT ![p][f] = e]
    /\ cloexec' = [cloexec EXCEPT ![p] = @ \cup {f}]

\* socketpair() with SOCK_CLOEXEC.
Socketpair(p, x, y, e1, e2) ==
    /\ Lowest(Open(p), x) /\ Lowest(Open(p) \cup {x}, y)
    /\ table' = [table EXCEPT ![p] = [@ EXCEPT ![x] = e1, ![y] = e2]]
    /\ cloexec' = [cloexec EXCEPT ![p] = @ \cup {x, y}]

\* A new process gets a copy of the descriptor table.
CopyTable(p, c) ==
    /\ table' = [table EXCEPT ![c] = table[p]]
    /\ cloexec' = [cloexec EXCEPT ![c] = cloexec[p]]
    /\ life' = [life EXCEPT ![c] = "forked"]
-----------------------------------------------------------------------------
(* spawn, in the parent *)

Goto(p, t, place) == at' = [at EXCEPT ![p][t] = place]

\* The program makes a channel, one end of which will be an argument.
Channel(p, t, c, x, y) ==
    /\ life[p] = "running" /\ at[p][t] = "idle"
    /\ life[c] = "unborn" /\ parent[c] = None
    /\ Socketpair(p, x, y, <<c, "ours">>, <<c, "theirs">>)
    /\ parent' = [parent EXCEPT ![c] = p]
    /\ job' = [job EXCEPT ![p][t] = c]
    /\ Goto(p, t, "channel")
    /\ UNCHANGED <<life, argv, entry>>

\* Faulty variant: only the number of the child's end is kept, not the end.
DuplexDropping(p, t, x, y) ==
    /\ life[p] = "running" /\ at[p][t] = "channel"
    /\ Lowest(Open(p), x) /\ Lowest(Open(p) \cup {x}, y)
    /\ Install(p, x, <<job[p][t], "local">>)
    /\ argv' = [argv EXCEPT ![job[p][t]] = y]
    /\ Goto(p, t, "paired")
    /\ UNCHANGED <<life, parent, entry, job>>

Duplex(p, t, x, y) ==
    /\ life[p] = "running" /\ at[p][t] = "channel"
    /\ Socketpair(p, x, y, <<job[p][t], "local">>, <<job[p][t], "child">>)
    /\ argv' = [argv EXCEPT ![job[p][t]] = y]
    /\ Goto(p, t, "paired")
    /\ UNCHANGED <<life, parent, entry, job>>

\* The parent's thread then waits in posix_spawn until the child executes or dies.
Spawn(p, t) ==
    /\ life[p] = "running" /\ at[p][t] = "paired"
    /\ CopyTable(p, job[p][t])
    /\ Goto(p, t, "spawning")
    /\ UNCHANGED <<parent, argv, entry, job>>

\* posix_spawn fails: both ends and the arguments are dropped.
SpawnFails(p, t) ==
    /\ life[p] = "running" /\ at[p][t] = "paired"
    /\ Close(p, {<<job[p][t], k>> : k \in {"local", "child", "theirs"}})
    /\ life' = [life EXCEPT ![job[p][t]] = "dead"]
    /\ Goto(p, t, "joined")
    /\ UNCHANGED <<cloexec, parent, argv, entry, job>>

\* local.send: the argument's descriptor is in the message and no longer here.
\* What the socket buffer has no room for waits for a child that reads.  When that
\* has died, it waits for ever: spawn itself holds the other end.
SendEntry(p, t) ==
    /\ life[p] = "running" /\ at[p][t] = "spawning"
    /\ life[job[p][t]] \notin {"forked", "prepared"}
    /\ job[p][t] \in Large => life[job[p][t]] = "entered"
    /\ Close(p, {<<job[p][t], "theirs">>})
    /\ entry' = [entry EXCEPT ![job[p][t]] = "sent"]
    /\ Goto(p, t, "sent")
    /\ UNCHANGED <<cloexec, life, parent, argv, job>>

\* The send fails or its future is dropped, and spawn returns an error.
SendFails(p, t) ==
    /\ life[p] = "running" /\ at[p][t] = "spawning"
    /\ life[job[p][t]] \notin {"forked", "prepared"}
    /\ Close(p, {<<job[p][t], k>> : k \in {"local", "child", "theirs"}})
    /\ Goto(p, t, "joined")
    /\ UNCHANGED <<cloexec, life, parent, argv, entry, job>>

\* Faulty variant: the child's end is forgotten and not dropped.
SpawnReturnsForgetting(p, t) ==
    /\ life[p] = "running" /\ at[p][t] = "sent"
    /\ Goto(p, t, "handed")
    /\ UNCHANGED <<table, cloexec, life, parent, argv, entry, job>>

\* `child` is dropped where spawn returns.
SpawnReturns(p, t) ==
    /\ life[p] = "running" /\ at[p][t] = "sent"
    /\ Close(p, {<<job[p][t], "child">>})
    /\ Goto(p, t, "handed")
    /\ UNCHANGED <<cloexec, life, parent, argv, entry, job>>

\* The Child is joined or dropped.
DropChild(p, t) ==
    /\ life[p] = "running" /\ at[p][t] = "handed"
    /\ Close(p, {<<job[p][t], "local">>})
    /\ Goto(p, t, "joined")
    /\ UNCHANGED <<cloexec, life, parent, argv, entry, job>>

\* The program drops its end of the channel it had made.
DropOurs(p, t) ==
    /\ life[p] = "running" /\ at[p][t] = "joined"
    /\ Close(p, {<<job[p][t], "ours">>})
    /\ Goto(p, t, "idle")
    /\ job' = [job EXCEPT ![p][t] = None]
    /\ UNCHANGED <<cloexec, life, parent, argv, entry>>
-----------------------------------------------------------------------------
(* The child *)

\* dup2(fd, fd) as a file action: inheritable, in this process only.
FileAction(c) ==
    /\ life[c] = "forked" /\ argv[c] # None
    /\ cloexec' = [cloexec EXCEPT ![c] = @ \ {argv[c]}]
    /\ life' = [life EXCEPT ![c] = "prepared"]
    /\ UNCHANGED <<table, parent, argv, entry, at, job>>

\* Descriptors marked FD_CLOEXEC are closed.  Other programs have no file actions.
Exec(c) ==
    /\ life[c] = IF argv[c] = None THEN "forked" ELSE "prepared"
    /\ table' = [table EXCEPT ![c] = [f \in Fds |-> IF f \in cloexec[c] THEN None ELSE @[f]]]
    /\ life' = [life EXCEPT ![c] = "execed"]
    /\ UNCHANGED <<cloexec, parent, argv, entry, at, job>>

\* Faulty variant: the descriptor from the command line stays inheritable.
EnterInheritable(c) ==
    /\ life[c] = "execed" /\ argv[c] # None
    /\ life' = [life EXCEPT ![c] = "entered"]
    /\ UNCHANGED <<table, cloexec, parent, argv, entry, at, job>>

\* crossmist_main.
Enter(c) ==
    /\ life[c] = "execed" /\ argv[c] # None
    /\ cloexec' = [cloexec EXCEPT ![c] = @ \cup {argv[c]}]
    /\ life' = [life EXCEPT ![c] = "entered"]
    /\ UNCHANGED <<table, parent, argv, entry, at, job>>

\* handle_entry: recvmsg with MSG_CMSG_CLOEXEC, then the function runs.
RecvEntry(c, f) ==
    /\ life[c] = "entered" /\ entry[c] = "sent"
    /\ Lowest(Open(c), f)
    /\ Install(c, f, <<c, "theirs">>)
    /\ entry' = [entry EXCEPT ![c] = "read"]
    /\ life' = [life EXCEPT ![c] = "running"]
    /\ UNCHANGED <<parent, argv, at, job>>

\* Other code of a process, on a thread of its own, starts another program.
Command(p, c) ==
    /\ life[p] = "running"
    /\ life[c] = "unborn" /\ parent[c] = None
    /\ CopyTable(p, c)
    /\ parent' = [parent EXCEPT ![c] = p]
    /\ UNCHANGED <<argv, entry, at, job>>

\* A process may end at any time; its descriptors are closed.
Die(p) ==
    /\ life[p] \notin {"unborn", "dead"}
    /\ table' = [table EXCEPT ![p] = [f \in Fds |-> None]]
    /\ life' = [life EXCEPT ![p] = "dead"]
    /\ UNCHANGED <<cloexec, parent, argv, entry, at, job>>
-----------------------------------------------------------------------------
Call(p, t) ==
    \/ \E x, y \in Fds : Duplex(p, t, x, y) \/ \E c \in Procs : Channel(p, t, c, x, y)
    \/ Spawn(p, t) \/ SpawnFails(p, t) \/ SendEntry(p, t) \/ SendFails(p, t)
    \/ SpawnReturns(p, t) \/ DropChild(p, t) \/ DropOurs(p, t)

Next ==
    \/ \E p \in Procs, t \in Threads : Call(p, t)
    \/ \E c \in Procs :
          \/ FileAction(c) \/ Exec(c) \/ Enter(c) \/ Die(c)
          \/ \E f \in Fds : RecvEntry(c, f)
          \/ \E p \in Procs : Command(p, c)

Spec == Init /\ [][Next]_vars

\* What is between fork and exec gets there, and calls of spawn go on when they
\* can: SendEntry is enabled only when the system lets the send end.
FairSpec ==
    /\ Spec
    /\ \A c \in Procs : WF_vars(FileAction(c) \/ Exec(c))
    /\ \A p \in Procs, t \in Threads : WF_vars(SendEntry(p, t) \/ SpawnReturns(p, t))
-----------------------------------------------------------------------------
(* Properties *)

\* The ends a process has any business with: its own, and those it has made.
Rightful(p) ==
    {e \in Ends : e \in {<<p, "child">>, <<p, "theirs">>} \/ parent[e[1]] = p}

\* No program, crossmist's or another, starts or goes on with an end of a channel
\* it was not given, however forks and spawns interleave.
NoStrayEnds ==
    \A p \in Procs, f \in Fds :
        life[p] \in {"execed", "entered", "running"} /\ table[p][f] # None
            => table[p][f] \in Rightful(p)

\* The number on a child's command line is its end of its own channel.
RightEnd ==
    \A c \in Procs :
        life[c] \in {"execed", "entered", "running"} /\ argv[c] # None
            => table[c][argv[c]] = <<c, "child">>

\* What is not its own a process holds only between fork and exec, and marked.
Rightly ==
    \A p \in Procs, f \in Fds :
        table[p][f] # None => \/ table[p][f] \in Rightful(p)
                              \/ life[p] \in {"forked", "prepared"} /\ f \in cloexec[p]

\* Only the number on its command line is ever inheritable, and not for long.
Marked ==
    \A p \in Procs, f \in Fds :
        table[p][f] # None => \/ f \in cloexec[p]
                              \/ life[p] \in {"prepared", "execed"} /\ f = argv[p]

\* The number on its command line is a child's own end, which survives exec.
Numbered ==
    \A c \in Procs :
        life[c] \notin {"unborn", "dead"} /\ argv[c] # None
            => /\ table[c][argv[c]] = <<c, "child">>
               /\ life[c] = "prepared" => argv[c] \notin cloexec[c]

\* A thread works for a child of its own, whose number is right when it forks.
JobRight(p, t) ==
    LET c == job[p][t] IN
    /\ at[p][t] # "idle" => c # None /\ life[p] \in {"running", "dead"}
    /\ c # None => c # p /\ parent[c] = p
    /\ c # None => \A u \in Threads : job[p][u] = c => u = t
    /\ at[p][t] \in {"channel", "paired"} => life[c] = "unborn"
    /\ at[p][t] = "paired" /\ life[p] = "running"
          => argv[c] # None /\ table[p][argv[c]] = <<c, "child">>

Jobs ==
    /\ \A c \in Procs : parent[c] = None => argv[c] = None
    /\ \A p \in Procs, t \in Threads : JobRight(p, t)

\* Inductive.
IInv == TypeOK /\ Rightly /\ Marked /\ Numbered /\ Jobs

\* c has let go of its ends, or was never there.
Gone(c, k) ==
    \/ life[c] = "dead" /\ k \in {"child", "theirs"}
    \/ life[c] # "unborn" /\ ~Holds(parent[c], <<c, k>>) /\ k \in {"local", "ours"}

\* The spawn of c waits in local.send for a child that will never read (see
\* SpawnReturns of Subprocess).
Stuck(p, c) ==
    \E t \in Threads : /\ at[p][t] = "spawning" /\ job[p][t] = c
                       /\ c \in Large /\ life[c] = "dead"

\* The peer of an end sees the end of the stream: once the process an end belongs
\* to has let go of it, no copy keeps it open, neither in spawn nor in a stranger,
\* unless the very spawn of that process is stuck in sending its arguments.
EndsClose ==
    \A c \in Procs \ {Root}, k \in {"child", "theirs", "local", "ours"} :
        Gone(c, k) ~> \A p \in Procs : Holds(p, <<c, k>>) => Stuck(p, c)
=============================================================================
