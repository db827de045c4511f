------------------------ MODULE SeqPacketChannelInv ------------------------
(***************************************************************************)
(* The inductive invariant behind DeliveredIntact, NothingLostAtEof and    *)
(* the refinement of ObjectChannel, for programs that stop using a         *)
(* direction after it failed (Reuse = FALSE).                              *)
(*                                                                         *)
(* A place in the stream of an end is <<n, pos>>: inside the n-th object,  *)
(* at pos.  The invariant says that the packets under way from one end to  *)
(* the other cover, without gap or overlap, exactly the stretch between    *)
(* the place the receiver has reached and the place the sender has.        *)
(*                                                                         *)
(* And the one behind TornLocally and NoneOnlyAtBoundary, for all programs *)
(* (AnyUseInv): the ordinals of the objects only grow.                     *)
(***************************************************************************)
EXTENDS SeqPacketChannel

\* The place a packet begins at, and the place its successor must begin at.
Begins(p) == <<p.msg, p.from>>
Leads(p)  == IF p.last THEN <<p.msg + 1, Zero>> ELSE <<p.msg, p.upto>>

SenderPlace(s)   == <<done[s] + 1, IF Len(sent[s]) = done[s] THEN Zero ELSE snd[s]>>
ReceiverPlace(e) == <<Len(got[e]) + 1, IF rcv[e] = <<>> THEN Zero
                                       ELSE rcv[e][Len(rcv[e])].upto>>

\* The place the i-th packet in the queue of e must begin at.
PlaceAt(e, i) == IF i = 1 THEN ReceiverPlace(e) ELSE Leads(queue[e][i - 1])

\* What every packet of s carries: a part of an object s has started to send,
\* marked last exactly if it reaches the object's end, and never an empty part
\* before that.  It fits into the receiver's buffer.
PacketOK(s, p) ==
    /\ Taken(p) = p
    /\ p.msg \in 1..Len(sent[s])
    /\ p.last <=> p.upto = sent[s][p.msg]
    /\ p.last => p.msg <= done[s]
    /\ ~p.last => p.upto # p.from

\* An operation in progress belongs to an open end that has not failed before.
OpInv(e) ==
    /\ op[e] = "send" => open[e] /\ sendRes[e] = "ok"
    /\ op[e] = "recv" => open[e] /\ recvRes[e] \in {"ok", "none"}

\* At most one object has been started and not finished, and none if the end
\* may start another send.
SenderInv(s) ==
    /\ Len(sent[s]) \in {done[s], done[s] + 1}
    /\ op[s] = "send" => Len(sent[s]) = done[s] + 1
    /\ open[s] /\ op[s] # "send" /\ sendRes[s] = "ok" => Len(sent[s]) = done[s]

\* The packets the receiver holds are the beginning of its next object.
PartialInv(e) ==
    /\ \A i \in 1..Len(rcv[e]) :
           /\ rcv[e][i].msg = Len(got[e]) + 1
           /\ ~rcv[e][i].last
           /\ rcv[e][i].upto # rcv[e][i].from
    /\ rcv[e] # <<>> => rcv[e][1].from = Zero
    /\ \A i \in 1..(Len(rcv[e]) - 1) : rcv[e][i + 1].from = rcv[e][i].upto

\* The packets in the queue lead from the receiver's place to the sender's.
QueueInv(e) ==
    /\ \A i \in 1..Len(queue[e]) :
           /\ PacketOK(Peer(e), queue[e][i])
           /\ Begins(queue[e][i]) = PlaceAt(e, i)
    /\ SenderPlace(Peer(e)) = PlaceAt(e, Len(queue[e]) + 1)

\* The receiving side of e has not been dropped, has not failed, and is not at
\* the end of the stream.
Live(e) == open[e] /\ recvRes[e] = "ok"

StreamInv(e) == Live(e) => PartialInv(e) /\ QueueInv(e)

ObjectsInv(e) ==
    /\ Len(got[e]) <= done[Peer(e)]
    /\ \A k \in 1..Len(got[e]) : Whole(got[e][k], k, sent[Peer(e)][k])

EofInv(e) ==
    /\ recvRes[e] \in {"none", "unterminated"} =>
           ~open[Peer(e)] /\ done[Peer(e)] = Len(got[e])
    /\ recvRes[e] = "none" => queue[e] = <<>> /\ rcv[e] = <<>>

\* TypeOK is inductive together with: a send in progress has an object.
TypeInv == TypeOK /\ \A e \in Ends : op[e] = "send" => sent[e] # <<>>

IInv ==
    /\ TypeInv
    /\ \A e \in Ends : /\ OpInv(e) /\ SenderInv(e) /\ StreamInv(e)
                       /\ ObjectsInv(e) /\ EofInv(e)
-----------------------------------------------------------------------------
(* Programs that go on with a direction after it failed, too *)

\* The object whose last packet recv returned last.
LastSeen(e) == IF got[e] = <<>> THEN 0 ELSE LET ps == got[e][Len(got[e])] IN ps[Len(ps)].msg

\* Not the last packet of its object, and not empty.
Inner(p) == ~p.last /\ p.upto # p.from

\* What was returned, of the k-th time.
Torn(e, k) ==
    /\ got[e][k] # <<>>
    /\ \A i \in 1..Len(got[e][k]) : got[e][k][i].last <=> i = Len(got[e][k])
    /\ k > 1 => \A i \in 1..Len(got[e][k]) :
                   got[e][k][i].msg > got[e][k - 1][Len(got[e][k - 1])].msg

\* Not of less than nothing, and the receiver's buffer has room for it.
Sane(p) == p.from.fds <= p.upto.fds /\ Taken(p) = p

\* While nothing is cut off, who holds a packet with descriptors holds some.
HeldInv(e) ==
    ~fds[e].cut /\ (\E i \in 1..Len(rcv[e]) : rcv[e][i].upto.fds # rcv[e][i].from.fds)
        => fds[e].held > 0

\* The positions of a send are inside its object.
PositionInv(e) ==
    op[e] = "send" => snd[e].fds <= sent[e][Len(sent[e])].fds

\* What is held or under way is of later objects, in the order they were sent, with
\* nothing of an object behind its last packet.
LaterInv(e) ==
    /\ \A i \in 1..Len(rcv[e]) : Inner(rcv[e][i]) /\ rcv[e][i].msg > LastSeen(e)
    /\ \A i \in 1..Len(queue[e]) :
          /\ queue[e][i].last \/ Inner(queue[e][i])
          /\ Sane(queue[e][i])
          /\ queue[e][i].msg > LastSeen(e) /\ queue[e][i].msg <= Len(sent[Peer(e)])
    /\ \A i, j \in 1..Len(queue[e]) : i < j =>
          /\ queue[e][i].msg <= queue[e][j].msg
          /\ queue[e][i].last => queue[e][i].msg < queue[e][j].msg

\* An object that is being sent has not had its last packet yet.
UnfinishedInv(e) ==
    /\ LastSeen(e) <= Len(sent[Peer(e)])
    /\ op[Peer(e)] = "send" =>
          /\ LastSeen(e) < Len(sent[Peer(e)])
          /\ \A i \in 1..Len(queue[e]) : queue[e][i].last => queue[e][i].msg < Len(sent[Peer(e)])

\* After Ok(None) there is nothing to read any more.
EndedInv(e) ==
    /\ op[e] # "idle" => open[e]
    /\ recvRes[e] = "none" => ~open[Peer(e)] /\ queue[e] = <<>> /\ rcv[e] = <<>>

AnyUseInv ==
    /\ TypeInv
    /\ \A e \in Ends : /\ \A k \in 1..Len(got[e]) : Torn(e, k)
                       /\ LaterInv(e) /\ UnfinishedInv(e) /\ EndedInv(e)
                       /\ HeldInv(e) /\ PositionInv(e)
=============================================================================
