--------------------------- MODULE WinSocketPair ----------------------------
(***************************************************************************)
(* socketpair() on Windows (src/src/platform/windows/internals.rs).  There *)
(* is no such call, so it listens at a fresh path, connects to it, and     *)
(* accepts one connection.  Other processes can see the path and connect   *)
(* as well; the two sockets it returns must be connected to each other.    *)
(* The file at the path, whose removal may fail and which nobody looks for *)
(* again, is left out.                                                     *)
(*                                                                         *)
(* Definitions whose comment begins with "Faulty variant" are not used.    *)
(***************************************************************************)
EXTENDS Naturals, Sequences

CONSTANTS
    Rivals,      \* processes that connect to any path they see
    Us,
    Backlog,     \* connections the listener holds before one is accepted
    PeerPid,     \* BOOLEAN: SIO_AF_UNIX_GETPEERPID works (it does not on Wine)
    MaxConnects  \* bound: connections of one rival

\* Wine runs on systems that read a backlog of 0 as one connection.
ASSUME PairAssumption ==
    /\ Us \notin Rivals /\ MaxConnects \in Nat /\ PeerPid \in BOOLEAN
    /\ Backlog \in Nat \ {0} /\ (~PeerPid => Backlog = 1)

VARIABLES
    at,       \* where the call is
    backlog,  \* who has connected and not been accepted
    peer,     \* whose connection has been accepted, or "nobody"
    connects  \* connects[r]: how often r has connected
vars == <<at, backlog, peer, connects>>

Places == {"begin", "bound", "listening", "connected", "accepted", "pair", "error"}

TypeOK ==
    /\ at \in Places
    /\ backlog \in Seq(Rivals \cup {Us}) /\ Len(backlog) <= Backlog
    /\ peer \in Rivals \cup {Us, "nobody"}
    /\ connects \in [Rivals -> 0..MaxConnects]

Init ==
    /\ at = "begin" /\ backlog = <<>> /\ peer = "nobody"
    /\ connects = [r \in Rivals |-> 0]

\* A path of 32 random letters, which is not in use.
Bind ==
    /\ at = "begin"
    /\ at' = "bound" /\ backlog' = <<>> /\ peer' = "nobody"
    /\ UNCHANGED connects

Listen ==
    /\ at = "bound"
    /\ at' = "listening"
    /\ UNCHANGED <<backlog, peer, connects>>

Connect ==
    /\ at = "listening" /\ Len(backlog) < Backlog
    /\ at' = "connected" /\ backlog' = Append(backlog, Us)
    /\ UNCHANGED <<peer, connects>>

\* The drop of the sockets, with which every attempt ends.
Leave(to) ==
    /\ at' = to /\ backlog' = <<>>
    /\ UNCHANGED connects

\* Faulty variant: connect is tried again, and not the whole attempt.
ConnectRefusedWaiting ==
    /\ at = "listening" /\ Len(backlog) = Backlog
    /\ UNCHANGED vars

\* WSAENOBUFS, WSAECONNREFUSED or WSAEWOULDBLOCK: a rival has filled the backlog.
ConnectRefused ==
    /\ at = "listening" /\ Len(backlog) = Backlog
    /\ Leave("begin") /\ UNCHANGED peer

Accept ==
    /\ at = "connected"
    /\ at' = "accepted" /\ peer' = Head(backlog) /\ backlog' = Tail(backlog)
    /\ UNCHANGED <<connects>>

\* Faulty variant: the peer is not looked at.
CheckPidNever ==
    /\ at = "accepted"
    /\ Leave("pair") /\ UNCHANGED peer

\* The process at the other end must be this one, if the system can tell.
CheckPid ==
    /\ at = "accepted"
    /\ Leave(IF PeerPid /\ peer # Us THEN "begin" ELSE "pair")
    /\ UNCHANGED peer

\* A call of the system fails.
Fails ==
    /\ at \in {"begin", "bound", "listening", "connected", "accepted"}
    /\ Leave("error") /\ UNCHANGED peer

\* Between listen and the end of the attempt anyone can connect.
RivalConnects(r) ==
    /\ at \in {"listening", "connected", "accepted"}
    /\ Len(backlog) < Backlog /\ connects[r] < MaxConnects
    /\ backlog' = Append(backlog, r)
    /\ connects' = [connects EXCEPT ![r] = @ + 1]
    /\ UNCHANGED <<at, peer>>

Attempt == Bind \/ Listen \/ Connect \/ ConnectRefused \/ Accept \/ CheckPid

Next == Attempt \/ Fails \/ \E r \in Rivals : RivalConnects(r)

Spec == Init /\ [][Next]_vars
-----------------------------------------------------------------------------
(* Properties *)

\* The accepted socket is connected to our own client and to no one else's:
\* because the peer was asked for, or because the backlog has no room for another.
PairIsOurs == at = "pair" => peer = Us

\* Inductive: on Wine a backlog that holds our connection holds no other.
IInv ==
    /\ TypeOK /\ PairIsOurs
    /\ at = "connected" => backlog # <<>>
    /\ ~PeerPid /\ at = "connected" => backlog = <<Us>>
    /\ ~PeerPid /\ at = "accepted" => peer = Us

\* The loop ends: each attempt is a fresh one, so rivals that connect only so often
\* cannot keep it going.
PairReturns == <>(at \in {"pair", "error"})
=============================================================================
