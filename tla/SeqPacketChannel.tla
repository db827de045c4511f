------------------------- MODULE SeqPacketChannel -------------------------
(***************************************************************************)
(* The Unix transport of crossmist (src/src/platform/unix/internals.rs)    *)
(* and the channel operations built on it (src/src/asynchronous.rs): an    *)
(* object is serialized to bytes and file descriptors, cut into packets of *)
(* a SOCK_SEQPACKET socket pair, and put together by the other end.        *)
(*                                                                         *)
(* Contents do not matter, only which part of which object a packet holds: *)
(* a packet records the ordinal of its object and the interval of the      *)
(* object's bytes and descriptors it carries.  One end performs at most    *)
(* one operation at a time (send and recv take &mut self).                 *)
(*                                                                         *)
(* A Duplex is Senders = Receivers = Ends; a Sender/Receiver pair is       *)
(* Senders = {"a"}, Receivers = {"b"}.                                     *)
(*                                                                         *)
(* Definitions whose comment begins with "Faulty variant" are not used:    *)
(* each is the definition after it with a plausible mistake, by which the  *)
(* properties are shown to tell right from wrong.                          *)
(***************************************************************************)
EXTENDS Naturals, Sequences

CONSTANTS
    Values,      \* serialized sizes of the objects sent: [data, fds]
    MaxData,     \* MAX_PACKET_SIZE - 1, the payload bytes of a packet
    MaxFds,      \* MAX_PACKET_FDS, the descriptors of a packet
    Capacity,    \* packets a socket buffers before sendmsg would block
    Senders,     \* ends the program sends on
    Receivers,   \* ends the program receives on
    Blocking,    \* ends whose stream has IS_BLOCKING = true
    Reuse,       \* the program goes on using a direction after it failed
    MaxSends     \* bound: objects sent per end

Ends == {"a", "b"}
Peer(e) == IF e = "a" THEN "b" ELSE "a"

ASSUME ChannelAssumption ==
    /\ Values \subseteq [data : Nat, fds : Nat]
    /\ MaxData \in Nat \ {0} /\ MaxFds \in Nat \ {0} /\ Capacity \in Nat \ {0}
    /\ Senders \subseteq Ends /\ Receivers \subseteq Ends /\ Blocking \subseteq Ends
    /\ Reuse \in BOOLEAN
    /\ MaxSends \in Nat

VARIABLES
    open,      \* open[e]: the socket of end e is open
    queue,     \* queue[e]: packets e can receive
    reset,     \* reset[e]: ECONNRESET is pending on the socket of e
    op,        \* op[e]: the operation the program has in progress at e
    parked,    \* parked[e]: that operation awaits readiness (WouldBlock)
    snd,       \* snd[e]: data_pos and fds_pos of e's latest SingleObjectSender
    rcv,       \* rcv[e]: the packets in e's SingleObjectReceiver
    fds,       \* fds[e]: how many descriptors of theirs it holds, and whether
               \* any were cut off
    sent,      \* sent[e]: sizes of the objects e has started to send
    done,      \* done[e]: how many sends of e returned Ok(())
    got,       \* got[e]: the packets of each object that recv returned at e
    sendRes,   \* sendRes[e]: result of the latest send of e
    recvRes    \* recvRes[e]: result of the latest recv of e

sockets == <<open, queue, reset>>
receiver == <<rcv, fds>>
vars == <<open, queue, reset, op, parked, snd, rcv, fds, sent, done, got, sendRes, recvRes>>

Pos     == [data : Nat, fds : Nat]
Zero    == [data |-> 0, fds |-> 0]
Packet  == [msg : Nat \ {0}, from : Pos, upto : Pos, last : BOOLEAN]
Held    == [held : Nat, cut : BOOLEAN]
NoFds   == [held |-> 0, cut |-> FALSE]
Results == {"ok", "none", "reset", "pipe", "unterminated", "panic", "error", "cancelled"}

TypeOK ==
    /\ open    \in [Ends -> BOOLEAN]
    /\ queue   \in [Ends -> Seq(Packet)]
    /\ reset   \in [Ends -> BOOLEAN]
    /\ op      \in [Ends -> {"idle", "send", "recv"}]
    /\ parked  \in [Ends -> BOOLEAN]
    /\ snd     \in [Ends -> Pos]
    /\ rcv     \in [Ends -> Seq(Packet)]
    /\ fds     \in [Ends -> Held]
    /\ sent    \in [Ends -> Seq(Values)]
    /\ done    \in [Ends -> Nat]
    /\ got     \in [Ends -> Seq(Seq(Packet))]
    /\ sendRes \in [Ends -> Results]
    /\ recvRes \in [Ends -> Results]

Init ==
    /\ open    = [e \in Ends |-> TRUE]
    /\ queue   = [e \in Ends |-> <<>>]
    /\ reset   = [e \in Ends |-> FALSE]
    /\ op      = [e \in Ends |-> "idle"]
    /\ parked  = [e \in Ends |-> FALSE]
    /\ snd     = [e \in Ends |-> Zero]
    /\ rcv     = [e \in Ends |-> <<>>]
    /\ fds     = [e \in Ends |-> NoFds]
    /\ sent    = [e \in Ends |-> <<>>]
    /\ done    = [e \in Ends |-> 0]
    /\ got     = [e \in Ends |-> <<>>]
    /\ sendRes = [e \in Ends |-> "ok"]
    /\ recvRes = [e \in Ends |-> "ok"]
-----------------------------------------------------------------------------
(* Cutting an object into packets *)

Least(m, n) == IF m <= n THEN m ELSE n

\* Where the packet that starts at pos ends, in an object of the given size.
ChunkEnd(pos, size) ==
    [data |-> Least(size.data, pos.data + MaxData),
     fds  |-> Least(size.fds, pos.fds + MaxFds)]

\* The marker byte of that packet.
IsLast(upto, size) == upto.data = size.data /\ upto.fds = size.fds

\* Faulty variant: only the received bytes are looked at.
BufferedBytes(e) ==
    \E i \in 1..Len(rcv[e]) : rcv[e][i].upto.data # rcv[e][i].from.data

\* data_pos # 0 or fds nonempty: part of an object has been received.
Buffered(e) ==
    \/ \E i \in 1..Len(rcv[e]) : rcv[e][i].upto.data # rcv[e][i].from.data
    \/ fds[e].held > 0

\* The packets ps are the n-th object, of the given size: all of it, once, in
\* order, and nothing else.
Whole(ps, n, size) ==
    /\ ps # <<>>
    /\ \A i \in 1..Len(ps) : ps[i].msg = n /\ (ps[i].last <=> i = Len(ps))
    /\ ps[1].from = Zero
    /\ \A i \in 1..(Len(ps) - 1) : ps[i + 1].from = ps[i].upto
    /\ ps[Len(ps)].upto = size
-----------------------------------------------------------------------------
(* The socket pair, as the kernel answers sendmsg, recvmsg and poll *)

HasRoom(e)  == Len(queue[Peer(e)]) < Capacity
Writable(e) == reset[e] \/ ~open[Peer(e)] \/ HasRoom(e)
Readable(e) == reset[e] \/ ~open[Peer(e)] \/ queue[e] # <<>>

\* The operation in progress at e is o, and it is making its next syscall.
Calling(e, o) == op[e] = o /\ ~parked[e]

EndSend(e, res) ==
    /\ op' = [op EXCEPT ![e] = "idle"]
    /\ sendRes' = [sendRes EXCEPT ![e] = res]

\* Faulty variant: the receiver's buffers outlive the operation.
EndRecvKeepingBuffers(e, res) ==
    /\ op' = [op EXCEPT ![e] = "idle"]
    /\ recvRes' = [recvRes EXCEPT ![e] = res]
    /\ UNCHANGED receiver

EndRecv(e, res) ==
    /\ op' = [op EXCEPT ![e] = "idle"]
    /\ rcv' = [rcv EXCEPT ![e] = <<>>]
    /\ fds' = [fds EXCEPT ![e] = NoFds]
    /\ recvRes' = [recvRes EXCEPT ![e] = res]
-----------------------------------------------------------------------------
(* send: Sender::send, Duplex::send, SingleObjectSender *)

MaySend(e) == e \in Senders /\ (Reuse \/ sendRes[e] = "ok")
MayRecv(e) == e \in Receivers /\ (Reuse \/ recvRes[e] \in {"ok", "none"})

\* send(value) is called: the value is serialized, both positions are 0.
StartSend(e, v) ==
    /\ open[e] /\ op[e] = "idle" /\ MaySend(e)
    /\ Len(sent[e]) < MaxSends
    /\ op' = [op EXCEPT ![e] = "send"]
    /\ snd' = [snd EXCEPT ![e] = Zero]
    /\ sent' = [sent EXCEPT ![e] = Append(@, v)]
    /\ UNCHANGED <<sockets, parked, receiver, done, got, sendRes, recvRes>>

\* One turn of the loop of send_next whose sendmsg succeeds.
SendPacket(e) ==
    LET size == sent[e][Len(sent[e])]
        upto == ChunkEnd(snd[e], size)
        last == IsLast(upto, size)
    IN  /\ Calling(e, "send")
        /\ ~reset[e] /\ open[Peer(e)] /\ HasRoom(e)
        /\ queue' = [queue EXCEPT ![Peer(e)] =
                       Append(@, [msg |-> Len(sent[e]), from |-> snd[e],
                                  upto |-> upto, last |-> last])]
        /\ snd' = [snd EXCEPT ![e] = upto]
        /\ IF last
             THEN EndSend(e, "ok") /\ done' = [done EXCEPT ![e] = @ + 1]
             ELSE UNCHANGED <<op, sendRes, done>>
        /\ UNCHANGED <<open, reset, parked, receiver, sent, got, recvRes>>

\* Faulty variant: the retry makes a new SingleObjectSender.
SendWouldBlockRestarting(e) ==
    /\ Calling(e, "send") /\ e \notin Blocking
    /\ ~Writable(e)
    /\ parked' = [parked EXCEPT ![e] = TRUE]
    /\ snd' = [snd EXCEPT ![e] = Zero]
    /\ UNCHANGED <<sockets, op, receiver, sent, done, got, sendRes, recvRes>>

\* sendmsg fails with EAGAIN: send_next returns WouldBlock with its positions
\* in place, and blocking_write awaits writability.
SendWouldBlock(e) ==
    /\ Calling(e, "send") /\ e \notin Blocking
    /\ ~Writable(e)
    /\ parked' = [parked EXCEPT ![e] = TRUE]
    /\ UNCHANGED <<sockets, op, snd, receiver, sent, done, got, sendRes, recvRes>>

\* The peer has closed its socket: sendmsg fails with the pending ECONNRESET,
\* which that clears, or else with EPIPE.
SendToClosed(e) ==
    /\ Calling(e, "send")
    /\ reset[e] \/ ~open[Peer(e)]
    /\ EndSend(e, IF reset[e] THEN "reset" ELSE "pipe")
    /\ reset' = [reset EXCEPT ![e] = FALSE]
    /\ UNCHANGED <<open, queue, parked, snd, receiver, sent, done, got, recvRes>>
-----------------------------------------------------------------------------
(* recv: Receiver::recv, Duplex::recv, SingleObjectReceiver *)

StartRecv(e) ==
    /\ open[e] /\ op[e] = "idle" /\ MayRecv(e)
    /\ op' = [op EXCEPT ![e] = "recv"]
    /\ UNCHANGED <<sockets, parked, snd, receiver, sent, done, got, sendRes, recvRes>>

\* The packet p as recvmsg hands it over: the receiver has MAX_PACKET_SIZE - 1
\* bytes of room behind what it holds, and what does not fit is lost.
Taken(p) == [p EXCEPT !.upto.data = Least(@, p.from.data + MaxData)]

\* The receiver at e puts p behind what it holds.  k of the descriptors come:
\* at RLIMIT_NOFILE the kernel cuts the others off, and recv_next does not
\* look at MSG_CTRUNC.
CutOff(e, p, k) == fds[e].cut \/ k < p.upto.fds - p.from.fds
Hold(e, p, k) ==
    /\ rcv' = [rcv EXCEPT ![e] = Append(@, p)]
    /\ fds' = [fds EXCEPT ![e] = [held |-> @.held + k, cut |-> CutOff(e, p, k)]]
    /\ UNCHANGED <<op, got, recvRes>>

\* The marker is set, and the packets ps are deserialized.  A whole object of
\* which descriptors were cut off panics for want of them; what becomes of
\* pieces of several objects, nobody can tell.
Deserialize(e, ps, cut) ==
    LET whole == Whole(ps, ps[Len(ps)].msg, sent[Peer(e)][ps[Len(ps)].msg])
    IN  \/ /\ whole => ~cut
           /\ got' = [got EXCEPT ![e] = Append(@, ps)]
           /\ EndRecv(e, "ok")
        \/ /\ whole => cut
           /\ EndRecv(e, "panic")
           /\ UNCHANGED got

\* Faulty variant: the marker byte is not looked at.
RecvPacketIgnoringMarker(e) ==
    /\ Calling(e, "recv")
    /\ ~reset[e] /\ queue[e] # <<>>
    /\ queue' = [queue EXCEPT ![e] = Tail(@)]
    /\ Deserialize(e, Append(rcv[e], Taken(Head(queue[e]))), FALSE)
    /\ UNCHANGED <<open, reset, parked, snd, sent, done, sendRes>>

\* Faulty variant: a packet without bytes never completes an object.
RecvPacketNeedingBytes(e) ==
    LET p == Taken(Head(queue[e]))
    IN  /\ Calling(e, "recv")
        /\ ~reset[e] /\ queue[e] # <<>>
        /\ queue' = [queue EXCEPT ![e] = Tail(@)]
        /\ IF p.last /\ p.upto.data # p.from.data
             THEN Deserialize(e, Append(rcv[e], p), fds[e].cut)
             ELSE Hold(e, p, p.upto.fds - p.from.fds)
        /\ UNCHANGED <<open, reset, parked, snd, sent, done, sendRes>>

\* One turn of the loop of recv_next whose recvmsg returns a packet.  The last
\* packet of an object makes recv return Ok(Some(_)).
RecvPacket(e) ==
    LET p == Taken(Head(queue[e]))
    IN  /\ Calling(e, "recv")
        /\ ~reset[e] /\ queue[e] # <<>>
        /\ queue' = [queue EXCEPT ![e] = Tail(@)]
        /\ \E k \in 0..(p.upto.fds - p.from.fds) :
              IF p.last THEN Deserialize(e, Append(rcv[e], p), CutOff(e, p, k))
                        ELSE Hold(e, p, k)
        /\ UNCHANGED <<open, reset, parked, snd, sent, done, sendRes>>

RecvWouldBlock(e) ==
    /\ Calling(e, "recv") /\ e \notin Blocking
    /\ ~Readable(e)
    /\ parked' = [parked EXCEPT ![e] = TRUE]
    /\ UNCHANGED <<sockets, op, snd, receiver, sent, done, got, sendRes, recvRes>>

\* Faulty variant: inside an object, 0 bytes are taken for an empty packet.
RecvEofOnlyAtStart(e) ==
    /\ Calling(e, "recv")
    /\ ~reset[e] /\ queue[e] = <<>> /\ ~open[Peer(e)]
    /\ ~Buffered(e) /\ EndRecv(e, "none")
    /\ UNCHANGED <<sockets, parked, snd, sent, done, got, sendRes>>

\* recvmsg returns 0 bytes: the peer is closed and no packet is left.
RecvEof(e) ==
    /\ Calling(e, "recv")
    /\ ~reset[e] /\ queue[e] = <<>> /\ ~open[Peer(e)]
    /\ EndRecv(e, IF Buffered(e) THEN "unterminated" ELSE "none")
    /\ UNCHANGED <<sockets, parked, snd, sent, done, got, sendRes>>

\* Faulty variant: ECONNRESET is taken for the end of the stream.
RecvResetAsEof(e) ==
    /\ Calling(e, "recv")
    /\ reset[e]
    /\ EndRecv(e, "none")
    /\ reset' = [reset EXCEPT ![e] = FALSE]
    /\ UNCHANGED <<open, queue, parked, snd, sent, done, got, sendRes>>

\* recvmsg fails with the pending ECONNRESET before it looks at the queue.
RecvReset(e) ==
    /\ Calling(e, "recv")
    /\ reset[e]
    /\ EndRecv(e, "reset")
    /\ reset' = [reset EXCEPT ![e] = FALSE]
    /\ UNCHANGED <<open, queue, parked, snd, sent, done, got, sendRes>>
-----------------------------------------------------------------------------
(* Waiting, failing, cancelling, closing *)

\* Faulty variant: a write waits for the stream to become readable.
ReadyReadable(e) ==
    /\ parked[e]
    /\ op[e] \in {"send", "recv"} /\ Readable(e)
    /\ parked' = [parked EXCEPT ![e] = FALSE]
    /\ UNCHANGED <<sockets, op, snd, receiver, sent, done, got, sendRes, recvRes>>

\* The runtime finds the socket ready and calls the closure again.
Ready(e) ==
    /\ parked[e]
    /\ (op[e] = "send" /\ Writable(e)) \/ (op[e] = "recv" /\ Readable(e))
    /\ parked' = [parked EXCEPT ![e] = FALSE]
    /\ UNCHANGED <<sockets, op, snd, receiver, sent, done, got, sendRes, recvRes>>

\* The operation in progress ends early and its buffers and positions are lost.
Abort(e, res) ==
    /\ \/ op[e] = "send" /\ EndSend(e, res) /\ UNCHANGED <<receiver, recvRes>>
       \/ op[e] = "recv" /\ EndRecv(e, res) /\ UNCHANGED sendRes
    /\ parked' = [parked EXCEPT ![e] = FALSE]
    /\ UNCHANGED <<sockets, snd, sent, done, got>>

\* A syscall fails for another reason (EINTR, ENOBUFS, ETOOMANYREFS, ...).
SyscallError(e) == ~parked[e] /\ Abort(e, "error")

\* The future of an asynchronous operation is dropped where it awaits.
Cancel(e) == parked[e] /\ Abort(e, "cancelled")

\* The end is dropped, or its process dies at any moment.  Unread packets are
\* discarded and leave ECONNRESET on the other socket.
Close(e) ==
    /\ open[e]
    /\ open' = [open EXCEPT ![e] = FALSE]
    /\ queue' = [queue EXCEPT ![e] = <<>>]
    /\ reset' = [reset EXCEPT ![e] = FALSE,
                             ![Peer(e)] = @ \/ (open[Peer(e)] /\ queue[e] # <<>>)]
    /\ op' = [op EXCEPT ![e] = "idle"]
    /\ parked' = [parked EXCEPT ![e] = FALSE]
    /\ rcv' = [rcv EXCEPT ![e] = <<>>]
    /\ fds' = [fds EXCEPT ![e] = NoFds]
    /\ UNCHANGED <<snd, sent, done, got, sendRes, recvRes>>
-----------------------------------------------------------------------------
Start(e) == (\E v \in Values : StartSend(e, v)) \/ StartRecv(e)

\* The steps an operation in progress takes by itself.
Work(e) ==
    \/ SendPacket(e) \/ SendWouldBlock(e) \/ SendToClosed(e)
    \/ RecvPacket(e) \/ RecvWouldBlock(e) \/ RecvEof(e) \/ RecvReset(e)
    \/ Ready(e)

Next == \E e \in Ends :
    Start(e) \/ Work(e) \/ SyscallError(e) \/ Cancel(e) \/ Close(e)

Spec == Init /\ [][Next]_vars

\* A thread in send or recv keeps running and a runtime polls a woken task;
\* nothing makes the program call an operation, cancel it or drop an end.
FairSpec == Spec /\ \A e \in Ends : WF_vars(Work(e))
-----------------------------------------------------------------------------
(* Properties *)

\* While the program stops using a direction that failed, the k-th object recv
\* returns is exactly the k-th object the peer sent, whatever happens between
\* its packets: WouldBlock and retry, descriptors that are cut off, errors,
\* cancellation, death of the peer.
DeliveredIntact ==
    \A e \in Ends :
        /\ Len(got[e]) <= Len(sent[Peer(e)])
        /\ \A k \in 1..Len(got[e]) : Whole(got[e][k], k, sent[Peer(e)][k])

\* Reaching the end of the stream, cleanly (Ok(None)) or inside an object
\* ("Unterminated data"), happens only when the peer is gone, and then every
\* object whose send returned Ok(()) has been received.
NothingLostAtEof ==
    \A e \in Ends : recvRes[e] \in {"none", "unterminated"} =>
        /\ ~open[Peer(e)]
        /\ done[Peer(e)] = Len(got[e])

\* Ok(None) means that the peer stopped between objects: nothing of a further
\* object was taken off the socket and thrown away.  The one exception is an
\* object of which descriptors were cut off: with no byte of it received and
\* none of its descriptors, recv_next cannot tell it from the beginning.
NoneOnlyAtBoundary ==
    [][\A e \in Ends : op[e] = "recv" /\ recvRes'[e] = "none" =>
          rcv[e] = <<>> \/ fds[e].cut]_vars

\* When a program does go on after a failed or cancelled operation, an object
\* may be torn, but the damage stays local: what recv returns ends in the
\* last packet of some object, holds no other last packet, and holds nothing
\* of an object whose last packet was returned before.
TornLocally ==
    \A e \in Ends : \A k \in 1..Len(got[e]) :
        LET ps == got[e][k]
        IN  /\ \A i \in 1..Len(ps) : ps[i].last <=> i = Len(ps)
            /\ k > 1 => \A i \in 1..Len(ps) :
                   ps[i].msg > got[e][k - 1][Len(got[e][k - 1])].msg

\* What the type of a channel is supposed to guarantee without conditions:
\* no object is ever put together from packets of two objects.
NeverGlued ==
    \A e \in Ends : \A k \in 1..Len(got[e]) :
        \A i, j \in 1..Len(got[e][k]) : got[e][k][i].msg = got[e][k][j].msg

\* The documented answer when the other side has dropped the channel is
\* Ok(None): recv never reports the drop as ECONNRESET to a program whose
\* sends have all succeeded.
DropIsNotAnError ==
    \A e \in Ends : done[e] = Len(sent[e]) => recvRes[e] # "reset"

\* A send ends if the peer, again and again, is receiving or is gone.
SendEnds ==
    \A e \in Ends :
        []<>(op[Peer(e)] = "recv" \/ ~open[Peer(e)])
            => (op[e] = "send" ~> op[e] # "send")

\* An object whose send returned Ok(()) arrives if the receiver keeps calling
\* recv: the readiness wait inside recv misses no packet and no hang-up.
Delivery ==
    \A e \in Ends : []<>(op[e] = "recv") =>
        \A n \in 1..MaxSends : (done[Peer(e)] >= n) ~> (Len(got[e]) >= n)

\* A recv ends once the peer is gone.
RecvEndsAfterClose ==
    \A e \in Ends : (op[e] = "recv" /\ ~open[Peer(e)]) ~> op[e] # "recv"

\* The transport implements the promised channel of objects.
Promise == INSTANCE ObjectChannel WITH
    alive     <- open,
    put       <- done,
    delivered <- [e \in Ends |-> [k \in 1..Len(got[e]) |->
                     IF Whole(got[e][k], k, sent[Peer(e)][k]) THEN k ELSE 0]],
    ended     <- [e \in Ends |-> recvRes[e] = "none"]

ImplementsObjectChannel == Promise!Spec
=============================================================================
