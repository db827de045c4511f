---------------------- MODULE SeqPacketChannelProofs ----------------------
(***************************************************************************)
(* Proofs about SeqPacketChannel for every value of its constants: any     *)
(* sizes of objects, packets and socket buffers, any number of sends.      *)
(***************************************************************************)
EXTENDS SeqPacketChannelInv, SequenceTheorems, TLAPS

-----------------------------------------------------------------------------
(* Positions and ends *)

\* A packet ends at a position, and one that is not the last carries something:
\* the loop of send_next makes progress because both packet limits are positive.
LEMMA ChunkProgress ==
    ASSUME NEW pos \in Pos, NEW size \in Pos
    PROVE  /\ ChunkEnd(pos, size) \in Pos
           /\ ~IsLast(ChunkEnd(pos, size), size) => ChunkEnd(pos, size) # pos
           /\ ChunkEnd(pos, size).data <= pos.data + MaxData
           /\ ChunkEnd(pos, size).fds <= size.fds
           /\ pos.fds <= size.fds => pos.fds <= ChunkEnd(pos, size).fds
           /\ IsLast(ChunkEnd(pos, size), size) <=> ChunkEnd(pos, size) = size
    BY ChannelAssumption DEF ChunkEnd, IsLast, Least, Pos

\* A serialized size is a position, the one behind its last byte and
\* descriptor.
LEMMA ValuesArePositions == Values \subseteq Pos /\ Zero \in Pos
    BY ChannelAssumption DEF Pos, Zero

\* The two ends are each other's peers.
LEMMA PeerIsEnd == \A e \in Ends : Peer(e) \in Ends /\ Peer(e) # e /\ Peer(Peer(e)) = e
    BY DEF Ends, Peer

-----------------------------------------------------------------------------
(* Type correctness *)

\* Ending a send keeps the types of what it assigns.
LEMMA EndSendType ==
    ASSUME TypeOK, NEW e \in Ends, NEW res \in Results, EndSend(e, res)
    PROVE  /\ op' \in [Ends -> {"idle", "send", "recv"}]
           /\ sendRes' \in [Ends -> Results]
           /\ \A x \in Ends : op'[x] = "send" => op[x] = "send"
    BY DEF TypeOK, EndSend

\* The empty sequence is a sequence over any set.
LEMMA EmptyIsSeq == \A S : <<>> \in Seq(S)
    OBVIOUS

\* What Append does to the type, length and elements of a sequence.
LEMMA AppendFacts ==
    ASSUME NEW S, NEW s \in Seq(S), NEW x \in S
    PROVE  /\ Append(s, x) \in Seq(S)
           /\ Append(s, x) # <<>>
           /\ Len(Append(s, x)) = Len(s) + 1
           /\ \A i \in 1..Len(s) : Append(s, x)[i] = s[i]
           /\ Append(s, x)[Len(s) + 1] = x
<1>1. Len(Append(s, x)) = Len(s) + 1
    OBVIOUS
<1>2. Len(<<>>) = 0 /\ Len(s) \in Nat
    OBVIOUS
<1>3. Append(s, x) # <<>>
    BY <1>1, <1>2
<1> QED BY <1>1, <1>3

\* Ending a receive keeps the types of what it assigns.
LEMMA EndRecvType ==
    ASSUME TypeOK, NEW e \in Ends, NEW res \in Results, EndRecv(e, res)
    PROVE  /\ op' \in [Ends -> {"idle", "send", "recv"}]
           /\ rcv' \in [Ends -> Seq(Packet)]
           /\ fds' \in [Ends -> Held]
           /\ recvRes' \in [Ends -> Results]
           /\ \A x \in Ends : op'[x] = "send" => op[x] = "send"
    BY EmptyIsSeq DEF TypeOK, EndRecv, Held, NoFds

\* What recvmsg hands over is a packet.
LEMMA TakenType ==
    ASSUME NEW p \in Packet
    PROVE  Taken(p) \in Packet /\ Taken(p).last = p.last
    BY ChannelAssumption DEF Taken, Packet, Pos, Least

\* The receiver has room for a packet the sender cut.
LEMMA TakenWhole ==
    ASSUME NEW p \in Packet, p.upto.data <= p.from.data + MaxData
    PROVE  Taken(p) = p
<1>1. Least(p.upto.data, p.from.data + MaxData) = p.upto.data
    BY ChannelAssumption DEF Packet, Pos, Least
<1>2. Taken(p) = [p EXCEPT !.upto.data = p.upto.data]
    BY <1>1 DEF Taken
<1>3. [p.upto EXCEPT !.data = p.upto.data] = p.upto
    BY DEF Packet, Pos
<1> QED BY <1>2, <1>3 DEF Packet, Pos

\* The packet that is received is held, or with the others it becomes an
\* object, or it panics.
LEMMA Receives ==
    ASSUME NEW e, RecvPacket(e), NEW p, p = Taken(Head(queue[e]))
    PROVE  \/ ~p.last /\ \E k \in 0..(p.upto.fds - p.from.fds) : Hold(e, p, k)
           \/ /\ p.last /\ EndRecv(e, "ok")
              /\ got' = [got EXCEPT ![e] = Append(@, Append(rcv[e], p))]
           \/ p.last /\ EndRecv(e, "panic") /\ UNCHANGED got
    BY DEF RecvPacket, Deserialize

\* Every step keeps the types.
LEMMA TypeStep == TypeInv /\ [Next]_vars => TypeInv'
<1> SUFFICES ASSUME TypeInv, [Next]_vars PROVE TypeInv'
    OBVIOUS
<1> USE PeerIsEnd, ValuesArePositions
<1>1. ASSUME NEW e \in Ends, NEW v \in Values, StartSend(e, v) PROVE TypeInv'
    <2>1. sent' \in [Ends -> Seq(Values)] /\ sent'[e] = Append(sent[e], v)
        BY <1>1 DEF TypeInv, TypeOK, StartSend
    <2>2. sent'[e] # <<>>
        <3>1. sent[e] \in Seq(Values) /\ v \in Values
            BY DEF TypeInv, TypeOK
        <3> QED BY <2>1, <3>1, AppendFacts
    <2>3. TypeOK'
        BY <1>1, <2>1 DEF TypeInv, TypeOK, StartSend, sockets, receiver
    <2>4. \A x \in Ends : x # e => op'[x] = op[x] /\ sent'[x] = sent[x]
        BY <1>1 DEF TypeInv, TypeOK, StartSend
    <2> QED BY <2>2, <2>3, <2>4 DEF TypeInv
<1>2. ASSUME NEW e \in Ends, SendPacket(e) PROVE TypeInv'
    <2> DEFINE size == sent[e][Len(sent[e])]
               upto == ChunkEnd(snd[e], size)
               p == [msg |-> Len(sent[e]), from |-> snd[e],
                     upto |-> upto, last |-> IsLast(upto, size)]
    <2>1. /\ Len(sent[e]) \in Nat \ {0}
          /\ size \in Pos
        BY <1>2 DEF TypeInv, TypeOK, SendPacket, Calling
    <2>2. upto \in Pos
        BY <2>1, ChunkProgress DEF TypeInv, TypeOK
    <2>3. p \in Packet
        BY <2>1, <2>2 DEF Packet, TypeInv, TypeOK, IsLast
    <2>4. queue' = [queue EXCEPT ![Peer(e)] = Append(@, p)] /\ snd' = [snd EXCEPT ![e] = upto]
        BY <1>2 DEF SendPacket
    <2>5. queue' \in [Ends -> Seq(Packet)] /\ snd' \in [Ends -> Pos]
        <3> HIDE DEF p, upto
        <3> QED BY <2>2, <2>3, <2>4 DEF TypeInv, TypeOK
    <2>6. /\ op' \in [Ends -> {"idle", "send", "recv"}]
          /\ sendRes' \in [Ends -> Results]
          /\ done' \in [Ends -> Nat]
          /\ \A x \in Ends : op'[x] = "send" => op[x] = "send"
        <3>1. CASE IsLast(upto, size)
            <4>1. EndSend(e, "ok") /\ done' = [done EXCEPT ![e] = @ + 1]
                BY <1>2, <3>1 DEF SendPacket
            <4>2. "ok" \in Results
                BY DEF Results
            <4>3. done' \in [Ends -> Nat]
                BY <4>1 DEF TypeInv, TypeOK
            <4> QED BY <4>1, <4>2, <4>3, EndSendType DEF TypeInv
        <3>2. CASE ~IsLast(upto, size)
            BY <1>2, <3>2 DEF SendPacket, TypeInv, TypeOK
        <3> QED BY <3>1, <3>2
    <2> QED
        BY <1>2, <2>5, <2>6 DEF SendPacket, receiver, TypeInv, TypeOK
<1>3. ASSUME NEW e \in Ends, SendWouldBlock(e) \/ RecvWouldBlock(e) \/ Ready(e) PROVE TypeInv'
    BY <1>3 DEF TypeInv, TypeOK, SendWouldBlock, RecvWouldBlock, Ready, sockets, receiver
<1>4. ASSUME NEW e \in Ends, SendToClosed(e) PROVE TypeInv'
    <2>1. EndSend(e, "reset") \/ EndSend(e, "pipe")
        BY <1>4 DEF SendToClosed
    <2>2. /\ op' \in [Ends -> {"idle", "send", "recv"}]
          /\ sendRes' \in [Ends -> Results]
          /\ \A x \in Ends : op'[x] = "send" => op[x] = "send"
        BY <2>1, EndSendType DEF TypeInv, Results
    <2> QED BY <1>4, <2>2 DEF TypeInv, TypeOK, SendToClosed, receiver
<1>5. ASSUME NEW e \in Ends, StartRecv(e) PROVE TypeInv'
    BY <1>5 DEF TypeInv, TypeOK, StartRecv, sockets, receiver
<1>6. ASSUME NEW e \in Ends, RecvPacket(e) PROVE TypeInv'
    <2>1. Head(queue[e]) \in Packet /\ Tail(queue[e]) \in Seq(Packet)
        BY <1>6 DEF TypeInv, TypeOK, RecvPacket
    <2>2. PICK p \in Packet : p = Taken(Head(queue[e]))
        BY <2>1, TakenType
    <2>3. Append(rcv[e], p) \in Seq(Packet)
        BY DEF TypeInv, TypeOK
    <2>4. queue' \in [Ends -> Seq(Packet)]
        BY <1>6, <2>1 DEF TypeInv, TypeOK, RecvPacket
    <2>5. ASSUME EndRecv(e, "ok"), got' = [got EXCEPT ![e] = Append(@, Append(rcv[e], p))]
          PROVE  TypeInv'
        <3>1. got' \in [Ends -> Seq(Seq(Packet))]
            BY <2>3, <2>5 DEF TypeInv, TypeOK
        <3> QED BY <1>6, <2>4, <2>5, <3>1, EndRecvType DEF TypeInv, TypeOK, RecvPacket, Results
    <2>6. ASSUME EndRecv(e, "panic"), UNCHANGED got PROVE TypeInv'
        BY <1>6, <2>4, <2>6, EndRecvType DEF TypeInv, TypeOK, RecvPacket, Results
    <2>7. ASSUME NEW k \in 0..(p.upto.fds - p.from.fds), Hold(e, p, k) PROVE TypeInv'
        <3>1. rcv' \in [Ends -> Seq(Packet)]
            BY <2>3, <2>7 DEF TypeInv, TypeOK, Hold
        <3>2. CutOff(e, p, k) \in BOOLEAN /\ k \in Nat
            BY <2>7 DEF CutOff, TypeInv, TypeOK, Held, Packet, Pos
        <3>3. fds' \in [Ends -> Held]
            <4>1. fds[e].held + k \in Nat
                BY <3>2 DEF TypeInv, TypeOK, Held
            <4>2. [held |-> fds[e].held + k, cut |-> CutOff(e, p, k)] \in Held
                BY <3>2, <4>1 DEF Held
            <4> QED BY <2>7, <4>2 DEF Hold, TypeInv, TypeOK
        <3> QED BY <1>6, <2>4, <2>7, <3>1, <3>3 DEF TypeInv, TypeOK, RecvPacket, Hold
    <2> QED BY <1>6, <2>2, <2>5, <2>6, <2>7, Receives
<1>7. ASSUME NEW e \in Ends, RecvEof(e) PROVE TypeInv'
    <2>1. EndRecv(e, "none") \/ EndRecv(e, "unterminated")
        BY <1>7 DEF RecvEof
    <2>2. /\ op' \in [Ends -> {"idle", "send", "recv"}]
          /\ rcv' \in [Ends -> Seq(Packet)]
          /\ fds' \in [Ends -> Held]
          /\ recvRes' \in [Ends -> Results]
          /\ \A x \in Ends : op'[x] = "send" => op[x] = "send"
        BY <2>1, EndRecvType DEF TypeInv, Results
    <2> QED BY <1>7, <2>2 DEF TypeInv, TypeOK, RecvEof, sockets
<1>8. ASSUME NEW e \in Ends, RecvReset(e) PROVE TypeInv'
    BY <1>8, EndRecvType DEF TypeInv, TypeOK, RecvReset, Results
<1>9. ASSUME NEW e \in Ends, SyscallError(e) \/ Cancel(e) PROVE TypeInv'
    <2>1. PICK res \in Results : Abort(e, res)
        BY <1>9 DEF SyscallError, Cancel, Results
    <2>2. CASE EndSend(e, res) /\ UNCHANGED <<receiver, recvRes>>
        BY <2>1, <2>2, EndSendType DEF TypeInv, TypeOK, Abort, sockets, receiver
    <2>3. CASE EndRecv(e, res) /\ UNCHANGED sendRes
        BY <2>1, <2>3, EndRecvType DEF TypeInv, TypeOK, Abort, sockets, receiver
    <2> QED BY <2>1, <2>2, <2>3 DEF Abort
<1>10. ASSUME NEW e \in Ends, Close(e) PROVE TypeInv'
    BY <1>10, EmptyIsSeq DEF TypeInv, TypeOK, Close, Held, NoFds
<1>11. CASE UNCHANGED vars
    BY <1>11 DEF TypeInv, TypeOK, vars
<1> QED
    BY <1>1, <1>2, <1>3, <1>4, <1>5, <1>6, <1>7, <1>8, <1>9, <1>10, <1>11
    DEF Next, Start, Work

\* Initially the types are right.
LEMMA TypeInit == Init => TypeInv
    BY ValuesArePositions DEF Init, TypeInv, TypeOK, Results, Held, NoFds

\* Every variable keeps its type, whether or not the program goes on using a
\* direction that failed.
THEOREM TypeCorrect == Spec => []TypeOK
<1>1. TypeInv => TypeOK
    BY DEF TypeInv
<1> QED
    BY <1>1, TypeInit, TypeStep, PTL DEF Spec

\* A packet that is received concerns its receiver only.
LEMMA OthersKeep ==
    ASSUME TypeInv, NEW x \in Ends, RecvPacket(x)
    PROVE  /\ \A e \in Ends : e # x =>
                 /\ queue'[e] = queue[e] /\ rcv'[e] = rcv[e] /\ fds'[e] = fds[e]
                 /\ got'[e] = got[e] /\ op'[e] = op[e] /\ recvRes'[e] = recvRes[e]
           /\ op'[x] \in {op[x], "idle"}
           /\ recvRes'[x] \in {recvRes[x], "ok", "panic"}
<1>1. PICK p : p = Taken(Head(queue[x]))
    OBVIOUS
<1>2. queue' = [queue EXCEPT ![x] = Tail(@)]
    BY DEF RecvPacket
<1>3. ASSUME NEW k, Hold(x, p, k)
      PROVE  /\ UNCHANGED <<op, got, recvRes>>
             /\ \A e \in Ends : e # x => rcv'[e] = rcv[e] /\ fds'[e] = fds[e]
    BY <1>3 DEF Hold, TypeInv, TypeOK
<1>4. ASSUME NEW res, EndRecv(x, res)
      PROVE  /\ op'[x] = "idle" /\ recvRes'[x] = res
             /\ \A e \in Ends : e # x => /\ rcv'[e] = rcv[e] /\ fds'[e] = fds[e]
                                         /\ op'[e] = op[e] /\ recvRes'[e] = recvRes[e]
    BY <1>4 DEF EndRecv, TypeInv, TypeOK
<1>5. \A e \in Ends : e # x => queue'[e] = queue[e] /\ got'[e] = got[e]
    <2>1. \A e \in Ends : e # x => queue'[e] = queue[e]
        BY <1>2 DEF TypeInv, TypeOK
    <2>2. ASSUME NEW o, got' = [got EXCEPT ![x] = o]
          PROVE  \A e \in Ends : e # x => got'[e] = got[e]
        BY <2>2 DEF TypeInv, TypeOK
    <2> QED BY <1>1, <1>3, <2>1, <2>2, Receives
<1> QED BY <1>1, <1>3, <1>4, <1>5, Receives

-----------------------------------------------------------------------------
(* The inductive invariant: what a direction does not share stays put *)

\* The stream towards an end depends on these variables only.
LEMMA StreamFrame ==
    ASSUME NEW e \in Ends, StreamInv(e), Live(e)' => Live(e),
           queue'[e] = queue[e], rcv'[e] = rcv[e], got'[e] = got[e],
           sent'[Peer(e)] = sent[Peer(e)], done'[Peer(e)] = done[Peer(e)],
           snd'[Peer(e)] = snd[Peer(e)]
    PROVE  StreamInv(e)'
<1>1. PartialInv(e)' = PartialInv(e)
    BY DEF PartialInv
<1>2. SenderPlace(Peer(e))' = SenderPlace(Peer(e))
    BY DEF SenderPlace
<1>3. ReceiverPlace(e)' = ReceiverPlace(e)
    BY DEF ReceiverPlace
<1>4. ASSUME NEW i PROVE PlaceAt(e, i)' = PlaceAt(e, i)
    BY <1>3 DEF PlaceAt
<1>5. ASSUME NEW p PROVE PacketOK(Peer(e), p)' = PacketOK(Peer(e), p)
    BY DEF PacketOK
<1>6. QueueInv(e) => QueueInv(e)'
  <2> SUFFICES ASSUME QueueInv(e) PROVE QueueInv(e)'
    OBVIOUS
  <2>1. ASSUME NEW i \in 1..Len(queue[e])
        PROVE  /\ PacketOK(Peer(e), queue[e][i])'
               /\ Begins(queue[e][i])' = PlaceAt(e, i)'
    BY <1>4, <1>5 DEF QueueInv, Begins
  <2>2. SenderPlace(Peer(e))' = PlaceAt(e, Len(queue[e]) + 1)'
    BY <1>2, <1>4 DEF QueueInv
  <2> QED BY <2>1, <2>2 DEF QueueInv
<1> QED BY <1>1, <1>6 DEF StreamInv

\* The objects an end has received depend on these variables only.
LEMMA ObjectsFrame ==
    ASSUME NEW e \in Ends, ObjectsInv(e),
           got'[e] = got[e],
           sent'[Peer(e)] = sent[Peer(e)], done'[Peer(e)] = done[Peer(e)]
    PROVE  ObjectsInv(e)'
    BY DEF ObjectsInv

\* Steps that only end, start or suspend operations, or fail or close an end.
LEMMA QuietStep ==
    ASSUME IInv,
           TypeInv', \A e \in Ends : OpInv(e)' /\ SenderInv(e)' /\ EofInv(e)',
           \A e \in Ends : Live(e)' => /\ Live(e)
                                       /\ queue'[e] = queue[e] /\ rcv'[e] = rcv[e],
           UNCHANGED <<snd, sent, done, got>>
    PROVE  IInv'
<1>1. ASSUME NEW e \in Ends PROVE StreamInv(e)'
    <2>1. CASE Live(e)'
        <3>1. StreamInv(e) /\ Peer(e) \in Ends
            BY PeerIsEnd DEF IInv
        <3>2. Live(e) /\ queue'[e] = queue[e] /\ rcv'[e] = rcv[e]
            BY <2>1
        <3> QED BY <3>1, <3>2, StreamFrame
    <2>2. CASE ~Live(e)'
        BY <2>2 DEF StreamInv
    <2> QED BY <2>1, <2>2
<1>2. ASSUME NEW e \in Ends PROVE ObjectsInv(e)'
    BY ObjectsFrame DEF IInv
<1> QED BY <1>1, <1>2 DEF IInv

\* One lemma per action that does more than that.
LEMMA KeepStartSend ==
    ASSUME IInv, TypeInv', ~Reuse, NEW x \in Ends, NEW v \in Values, StartSend(x, v)
    PROVE  IInv'
<1>1. /\ sent'[x] = Append(sent[x], v) /\ sent[x] \in Seq(Values) /\ v \in Values
      /\ done[x] \in Nat
      /\ \A e \in Ends : e # x => sent'[e] = sent[e] /\ op'[e] = op[e] /\ snd'[e] = snd[e]
      /\ op'[x] = "send" /\ op[x] = "idle" /\ open[x] /\ sendRes[x] = "ok" /\ snd'[x] = Zero
      /\ UNCHANGED <<open, queue, reset, parked, rcv, done, got, sendRes, recvRes>>
    BY DEF IInv, TypeInv, TypeOK, StartSend, MaySend, sockets, receiver
<1>2. Len(sent[x]) = done[x]
    BY <1>1 DEF IInv, SenderInv
<1>3. /\ Len(sent'[x]) = done[x] + 1
      /\ \A i \in 1..Len(sent[x]) : sent'[x][i] = sent[x][i]
    BY <1>1, <1>2, AppendFacts
<1>4. ASSUME NEW e \in Ends PROVE OpInv(e)' /\ SenderInv(e)' /\ EofInv(e)'
    BY <1>1, <1>3, <1>4 DEF IInv, OpInv, SenderInv, EofInv
<1>5. ASSUME NEW e \in Ends, Peer(e) = x PROVE StreamInv(e)' /\ ObjectsInv(e)'
    <2>1. SenderPlace(x)' = SenderPlace(x)
        BY <1>1, <1>2, <1>3 DEF SenderPlace
    <2>2. ASSUME NEW p, PacketOK(x, p) PROVE PacketOK(x, p)'
        BY <1>1, <1>2, <1>3, <2>2 DEF PacketOK
    <2>3. \A i : PlaceAt(e, i)' = PlaceAt(e, i)
        BY <1>1 DEF PlaceAt, ReceiverPlace, Leads
    <2>4. QueueInv(e) => QueueInv(e)'
        BY <1>1, <1>5, <2>1, <2>2, <2>3 DEF QueueInv, Begins
    <2>5. PartialInv(e) => PartialInv(e)'
        BY <1>1 DEF PartialInv
    <2>6. StreamInv(e)'
        BY <1>1, <2>4, <2>5 DEF IInv, StreamInv, Live
    <2>7. ObjectsInv(e)'
        <3>1. ObjectsInv(e) /\ Len(got[e]) \in Nat
            BY DEF IInv, TypeInv, TypeOK
        <3> QED BY <1>1, <1>2, <1>3, <1>5, <3>1 DEF ObjectsInv
    <2> QED BY <2>6, <2>7
<1>6. ASSUME NEW e \in Ends, Peer(e) # x PROVE StreamInv(e)' /\ ObjectsInv(e)'
    <2>1. Peer(e) \in Ends
        BY PeerIsEnd
    <2> QED
        BY <1>1, <1>6, <2>1, StreamFrame, ObjectsFrame DEF IInv, Live
<1> QED BY <1>4, <1>5, <1>6 DEF IInv

\* send_next puts a packet behind the others: it begins where the sender was,
\* and the sender is then where it leads.
LEMMA KeepSendPacket ==
    ASSUME IInv, TypeInv', NEW x \in Ends, SendPacket(x)
    PROVE  IInv'
<1> DEFINE y == Peer(x)
           n == Len(sent[x])
           size == sent[x][n]
           upto == ChunkEnd(snd[x], size)
           last == IsLast(upto, size)
           p == [msg |-> n, from |-> snd[x], upto |-> upto, last |-> last]
<1>1. /\ queue'[y] = Append(queue[y], p) /\ queue[y] \in Seq(Packet)
      /\ snd'[x] = upto
      /\ \A e \in Ends : e # x => /\ queue'[Peer(e)] = queue[Peer(e)] /\ snd'[e] = snd[e]
                                  /\ op'[e] = op[e] /\ sendRes'[e] = sendRes[e]
                                  /\ done'[e] = done[e]
      /\ open[x] /\ open[y] /\ op[x] = "send" /\ sendRes[x] = "ok"
      /\ UNCHANGED <<open, reset, parked, rcv, sent, got, recvRes>>
    <2>1. /\ queue' = [queue EXCEPT ![y] = Append(@, p)] /\ snd' = [snd EXCEPT ![x] = upto]
          /\ op[x] = "send" /\ open[y]
          /\ UNCHANGED <<open, reset, parked, rcv, sent, got, recvRes>>
        BY DEF SendPacket, Calling, receiver
    <2>2. ASSUME NEW e \in Ends, e # x
          PROVE  op'[e] = op[e] /\ sendRes'[e] = sendRes[e] /\ done'[e] = done[e]
        <3>1. \/ EndSend(x, "ok") /\ done' = [done EXCEPT ![x] = @ + 1]
              \/ UNCHANGED <<op, sendRes, done>>
            BY DEF SendPacket
        <3>2. op \in [Ends -> {"idle", "send", "recv"}] /\ sendRes \in [Ends -> Results]
              /\ done \in [Ends -> Nat]
            BY DEF IInv, TypeInv, TypeOK
        <3>3. CASE EndSend(x, "ok") /\ done' = [done EXCEPT ![x] = @ + 1]
            BY <2>2, <3>2, <3>3 DEF EndSend
        <3>4. CASE UNCHANGED <<op, sendRes, done>>
            BY <3>4
        <3> QED BY <3>1, <3>3, <3>4
    <2>3. open[x] /\ sendRes[x] = "ok"
        BY <2>1 DEF IInv, OpInv
    <2> HIDE DEF p, upto
    <2> QED BY <2>1, <2>2, <2>3, PeerIsEnd DEF IInv, TypeInv, TypeOK
<1>2. IF last THEN op'[x] = "idle" /\ sendRes'[x] = "ok" /\ done'[x] = done[x] + 1
              ELSE op'[x] = "send" /\ sendRes'[x] = "ok" /\ done'[x] = done[x]
    BY <1>1 DEF IInv, TypeInv, TypeOK, SendPacket, EndSend
<1>3. n = done[x] + 1 /\ done[x] \in Nat
    BY <1>1 DEF IInv, SenderInv, TypeInv, TypeOK
<1>4. snd[x] \in Pos /\ size \in Pos
    BY <1>3, ValuesArePositions DEF IInv, TypeInv, TypeOK
<1>5. (last <=> upto = size) /\ (~last => upto # snd[x]) /\ last \in BOOLEAN /\ upto \in Pos
    BY <1>4, ChunkProgress DEF IsLast
<1>6. ASSUME NEW e \in Ends PROVE OpInv(e)' /\ SenderInv(e)' /\ EofInv(e)'
    <2>1. CASE e = x
        BY <1>1, <1>2, <1>3, <2>1, PeerIsEnd DEF IInv, OpInv, SenderInv, EofInv
    <2>2. CASE e # x
        BY <1>1, <1>2, <1>3, <2>2, PeerIsEnd DEF IInv, OpInv, SenderInv, EofInv
    <2> QED BY <2>1, <2>2
<1>7. p \in Packet
    BY <1>3, <1>4, <1>5 DEF Packet
<1>8. /\ Len(queue'[y]) = Len(queue[y]) + 1 /\ Len(queue[y]) \in Nat
      /\ queue'[y][Len(queue[y]) + 1] = p
      /\ \A i \in 1..Len(queue[y]) : queue'[y][i] = queue[y][i]
    <2> HIDE DEF p
    <2> QED BY <1>1, <1>7, AppendFacts
<1>9. StreamInv(y)'
    <2> SUFFICES ASSUME Live(y)' PROVE PartialInv(y)' /\ QueueInv(y)'
        BY DEF StreamInv
    <2>1. PartialInv(y) /\ QueueInv(y)
        BY <1>1, PeerIsEnd DEF IInv, StreamInv, Live
    <2>2. PartialInv(y)'
        BY <1>1, <2>1 DEF PartialInv
    <2>3. \A i \in 1..(Len(queue[y]) + 1) : PlaceAt(y, i)' = PlaceAt(y, i)
        <3>1. ReceiverPlace(y)' = ReceiverPlace(y)
            BY <1>1 DEF ReceiverPlace
        <3>2. ASSUME NEW i \in 1..(Len(queue[y]) + 1), i # 1
              PROVE  queue'[y][i - 1] = queue[y][i - 1]
            <4>1. i - 1 \in 1..Len(queue[y])
                BY <1>8, <3>2
            <4> QED BY <1>8, <4>1
        <3> QED BY <3>1, <3>2 DEF PlaceAt, Leads
    <2>4. Begins(p) = PlaceAt(y, Len(queue[y]) + 1)
        BY <1>3, <2>1, PeerIsEnd DEF QueueInv, SenderPlace, Begins
    <2>5. SenderPlace(x)' = Leads(p)
        BY <1>1, <1>2, <1>3, <1>5 DEF SenderPlace, Leads
    <2>0. Taken(p) = p
        BY <1>4, <1>7, ChunkProgress, TakenWhole
    <2>6. ASSUME NEW q, q = p PROVE PacketOK(x, q)'
        BY <1>1, <1>2, <1>3, <1>5, <1>7, <2>0, <2>6 DEF PacketOK
    <2>7. ASSUME NEW q, PacketOK(x, q) PROVE PacketOK(x, q)'
        BY <1>1, <1>2, <1>3, <2>7 DEF PacketOK
    <2>8. ASSUME NEW i, i = Len(queue[y]) + 2 PROVE PlaceAt(y, i)' = Leads(p)
        <3> HIDE DEF p
        <3>1. i # 1 /\ i - 1 = Len(queue[y]) + 1
            BY <1>8, <2>8
        <3>2. queue'[y][i - 1] = p
            BY <1>8, <3>1
        <3> QED BY <3>1, <3>2 DEF PlaceAt, Leads
    <2> HIDE DEF p
    <2>9. ASSUME NEW i \in 1..Len(queue'[y]), NEW q, q = queue'[y][i]
          PROVE  PacketOK(x, q)' /\ Begins(q) = PlaceAt(y, i)'
        <3>1. CASE i = Len(queue[y]) + 1
            BY <1>8, <2>3, <2>4, <2>6, <2>9, <3>1
        <3>2. CASE i \in 1..Len(queue[y])
            BY <1>8, <2>1, <2>3, <2>7, <2>9, <3>2, PeerIsEnd DEF QueueInv
        <3> QED BY <1>8, <3>1, <3>2
    <2>10. QueueInv(y)'
        BY <1>8, <2>5, <2>8, <2>9, PeerIsEnd DEF QueueInv, Begins
    <2> QED BY <2>2, <2>10
<1>10. ObjectsInv(y)'
    <2>1. ObjectsInv(y) /\ Len(got[y]) \in Nat /\ Peer(y) = x
        BY PeerIsEnd DEF IInv, TypeInv, TypeOK
    <2>2. got' = got /\ sent' = sent
        BY <1>1
    <2>3. done'[x] \in {done[x], done[x] + 1}
        BY <1>2
    <2>4. Len(got'[y]) <= done'[x]
        BY <1>3, <2>1, <2>2, <2>3 DEF ObjectsInv
    <2> QED BY <2>1, <2>2, <2>4 DEF ObjectsInv
<1>11. StreamInv(x)' /\ ObjectsInv(x)'
    BY <1>1, StreamFrame, ObjectsFrame, PeerIsEnd DEF IInv, Live
<1>12. \A e \in Ends : e = x \/ e = y
    BY DEF Ends, Peer
<1> QED BY <1>6, <1>9, <1>10, <1>11, <1>12 DEF IInv

\* The packet at the head of a live receiver's queue continues its object, and
\* completes it if it is marked last.
LEMMA HeadContinues ==
    ASSUME IInv, NEW x \in Ends, Live(x), queue[x] # <<>>
    PROVE  /\ Head(queue[x]) = queue[x][1]
           /\ Begins(Head(queue[x])) = ReceiverPlace(x)
           /\ PacketOK(Peer(x), Head(queue[x]))
           /\ Head(queue[x]).last => Whole(Append(rcv[x], Head(queue[x])), Len(got[x]) + 1,
                                           sent[Peer(x)][Len(got[x]) + 1])
<1> DEFINE p == Head(queue[x])
           ps == Append(rcv[x], p)
           m == Len(rcv[x])
<1>1. queue[x] \in Seq(Packet) /\ rcv[x] \in Seq(Packet) /\ got[x] \in Seq(Seq(Packet))
    BY DEF IInv, TypeInv, TypeOK
<1>2. p = queue[x][1] /\ 1 \in 1..Len(queue[x]) /\ p \in Packet
    BY <1>1
<1>3. PartialInv(x) /\ QueueInv(x)
    BY DEF IInv, StreamInv
<1>4. Begins(p) = ReceiverPlace(x) /\ PacketOK(Peer(x), p)
    <2> HIDE DEF p
    <2> QED BY <1>2, <1>3 DEF QueueInv, PlaceAt
<1>5. /\ p.msg = Len(got[x]) + 1
      /\ p.from = IF rcv[x] = <<>> THEN Zero ELSE rcv[x][m].upto
    BY <1>4 DEF Begins, ReceiverPlace
<1>6. ASSUME p.last PROVE Whole(ps, Len(got[x]) + 1, sent[Peer(x)][Len(got[x]) + 1])
    <2> HIDE DEF p
    <2>1. /\ ps # <<>> /\ Len(ps) = m + 1 /\ m \in Nat
          /\ \A i \in 1..m : ps[i] = rcv[x][i]
          /\ ps[m + 1] = p
        <3>1. rcv[x] \in Seq(Packet) /\ p \in Packet
            BY <1>1, <1>2
        <3> QED BY <3>1, AppendFacts
    <2> HIDE DEF ps
    <2>2. ASSUME NEW i \in 1..Len(ps) PROVE ps[i].msg = Len(got[x]) + 1 /\ (ps[i].last <=> i = Len(ps))
        <3>1. CASE i = m + 1
            BY <1>5, <1>6, <2>1, <3>1
        <3>2. CASE i \in 1..m
            BY <1>3, <2>1, <3>2 DEF PartialInv
        <3> QED BY <2>1, <3>1, <3>2
    <2>3. ps[1].from = Zero
        <3>1. CASE rcv[x] = <<>>
            BY <1>5, <2>1, <3>1
        <3>2. CASE rcv[x] # <<>>
            BY <1>1, <1>3, <2>1, <3>2 DEF PartialInv
        <3> QED BY <3>1, <3>2
    <2>4. ASSUME NEW i \in 1..(Len(ps) - 1) PROVE ps[i + 1].from = ps[i].upto
        <3>1. CASE i = m
            <4>1. rcv[x] # <<>>
                BY <2>1, <3>1
            <4> QED BY <1>5, <2>1, <3>1, <4>1
        <3>2. CASE i \in 1..(m - 1)
            <4>1. i \in 1..m /\ i + 1 \in 1..m
                BY <2>1, <3>2
            <4> QED BY <1>3, <2>1, <3>2, <4>1 DEF PartialInv
        <3> QED BY <2>1, <3>1, <3>2
    <2>5. ps[Len(ps)].upto = sent[Peer(x)][Len(got[x]) + 1]
        BY <1>4, <1>5, <1>6, <2>1 DEF PacketOK
    <2> QED BY <2>1, <2>2, <2>3, <2>4, <2>5 DEF Whole
<1> QED BY <1>2, <1>4, <1>6

\* recv_next takes the first packet: it continues what has been received, and a
\* packet marked last completes the next object, if nothing was cut off.
LEMMA KeepRecvPacket ==
    ASSUME IInv, TypeInv', NEW x \in Ends, RecvPacket(x), recvRes'[x] # "panic"
    PROVE  IInv'
<1> DEFINE p == Head(queue[x])
           q == queue[x]
<1>1. /\ Live(x) /\ q # <<>> /\ op[x] = "recv"
      /\ q \in Seq(Packet) /\ rcv[x] \in Seq(Packet) /\ got[x] \in Seq(Seq(Packet))
    BY DEF IInv, TypeInv, TypeOK, RecvPacket, Calling, OpInv, EofInv, Live
<1>2. /\ queue' = [queue EXCEPT ![x] = Tail(@)]
      /\ UNCHANGED <<open, reset, parked, snd, sent, done, sendRes>>
    BY DEF RecvPacket
<1>3. /\ p = q[1] /\ p \in Packet
      /\ Begins(p) = ReceiverPlace(x) /\ PacketOK(Peer(x), p)
    <2>1. q[1] \in Packet
        BY <1>1
    <2> QED BY <1>1, <2>1, HeadContinues
<1>0. p = Taken(Head(queue[x]))
    BY <1>3 DEF PacketOK
<1>4. /\ Len(Tail(q)) = Len(q) - 1 /\ Len(q) \in Nat \ {0} /\ queue'[x] = Tail(q)
      /\ \A i \in 1..(Len(q) - 1) : Tail(q)[i] = q[i + 1]
    BY <1>1, <1>2 DEF IInv, TypeInv, TypeOK
<1>5. recvRes[x] = "ok"
    BY <1>1 DEF IInv, EofInv, Live
<1>6. ObjectsInv(x) /\ PartialInv(x) /\ QueueInv(x)
    BY <1>1 DEF IInv, StreamInv
<1> DEFINE Advanced == /\ ReceiverPlace(x)' = Leads(p)
                       /\ PartialInv(x)' /\ ObjectsInv(x)'
                       /\ recvRes'[x] = "ok" /\ op'[x] # "send"
                       /\ op'[x] = "recv" => op[x] = "recv"
                       /\ \A e \in Ends : e # x =>
                              /\ got'[e] = got[e] /\ rcv'[e] = rcv[e] /\ op'[e] = op[e]
                              /\ queue'[e] = queue[e] /\ recvRes'[e] = recvRes[e]
<1>7. ASSUME p.last PROVE Advanced
    <2>1. EndRecv(x, "ok") /\ got' = [got EXCEPT ![x] = Append(@, Append(rcv[x], p))]
        <3>1. ~EndRecv(x, "panic")
            BY DEF EndRecv, IInv, TypeInv, TypeOK
        <3> QED BY <1>0, <1>7, <3>1, Receives
    <2>2. /\ got'[x] = Append(got[x], Append(rcv[x], p)) /\ rcv'[x] = <<>>
          /\ op'[x] = "idle" /\ recvRes'[x] = "ok"
        BY <2>1 DEF IInv, TypeInv, TypeOK, EndRecv
    <2>3. Append(rcv[x], p) \in Seq(Packet)
        BY <1>1, <1>3
    <2>4. /\ Len(got'[x]) = Len(got[x]) + 1 /\ Len(got[x]) \in Nat
          /\ \A k \in 1..Len(got[x]) : got'[x][k] = got[x][k]
          /\ got'[x][Len(got[x]) + 1] = Append(rcv[x], p)
        <3> HIDE DEF p
        <3> QED BY <1>1, <2>2, <2>3, AppendFacts
    <2>5. p.msg = Len(got[x]) + 1 /\ p.msg <= done[Peer(x)]
        BY <1>3, <1>7 DEF Begins, ReceiverPlace, PacketOK
    <2>6. Whole(Append(rcv[x], p), Len(got[x]) + 1, sent[Peer(x)][Len(got[x]) + 1])
        BY <1>1, <1>7, HeadContinues
    <2>7. ObjectsInv(x)'
        <3> HIDE DEF p
        <3>1. ObjectsInv(x)
            BY DEF IInv
        <3>2. Len(got'[x]) <= done'[Peer(x)]
            BY <1>2, <2>4, <2>5
        <3>3. ASSUME NEW k \in 1..Len(got'[x]) PROVE Whole(got'[x][k], k, sent'[Peer(x)][k])
            <4>1. CASE k = Len(got[x]) + 1
                BY <1>2, <2>4, <2>6, <4>1
            <4>2. CASE k \in 1..Len(got[x])
                BY <1>2, <2>4, <3>1, <4>2 DEF ObjectsInv
            <4> QED BY <2>4, <4>1, <4>2
        <3> QED BY <3>2, <3>3 DEF ObjectsInv
    <2>8. ReceiverPlace(x)' = Leads(p) /\ PartialInv(x)'
        BY <1>7, <2>2, <2>4, <2>5 DEF ReceiverPlace, Leads, PartialInv
    <2>9. /\ \A e \in Ends : e # x => /\ got'[e] = got[e] /\ rcv'[e] = rcv[e] /\ queue'[e] = queue[e]
                                      /\ op'[e] = op[e] /\ recvRes'[e] = recvRes[e]
        BY <1>2, <2>1 DEF IInv, TypeInv, TypeOK, EndRecv
    <2> HIDE DEF p
    <2> QED BY <2>2, <2>7, <2>8, <2>9
<1>8. ASSUME ~p.last PROVE Advanced
    <2>1. rcv' = [rcv EXCEPT ![x] = Append(@, p)] /\ UNCHANGED <<got, op, recvRes>>
        BY <1>0, <1>8, Receives DEF Hold
    <2>2. /\ rcv'[x] = Append(rcv[x], p)
          /\ \A e \in Ends : e # x => rcv'[e] = rcv[e] /\ queue'[e] = queue[e]
        <3> HIDE DEF p
        <3> QED BY <1>2, <2>1 DEF IInv, TypeInv, TypeOK
    <2>3. /\ Len(rcv'[x]) = Len(rcv[x]) + 1 /\ Len(rcv[x]) \in Nat /\ rcv'[x] # <<>>
          /\ \A i \in 1..Len(rcv[x]) : rcv'[x][i] = rcv[x][i]
          /\ rcv'[x][Len(rcv[x]) + 1] = p
        <3> HIDE DEF p
        <3>1. rcv[x] \in Seq(Packet) /\ p \in Packet /\ rcv'[x] = Append(rcv[x], p)
            BY <1>1, <1>3, <2>2
        <3> QED BY <3>1, AppendFacts
    <2>4. /\ p.msg = Len(got[x]) + 1 /\ p.upto # p.from
          /\ p.from = IF rcv[x] = <<>> THEN Zero ELSE rcv[x][Len(rcv[x])].upto
        BY <1>3, <1>8 DEF Begins, ReceiverPlace, PacketOK
    <2> HIDE DEF p
    <2>5. ReceiverPlace(x)' = Leads(p)
        BY <1>8, <2>1, <2>3, <2>4 DEF ReceiverPlace, Leads
    <2>6. PartialInv(x)'
        <3>1. ASSUME NEW i \in 1..Len(rcv'[x])
              PROVE  /\ rcv'[x][i].msg = Len(got'[x]) + 1 /\ ~rcv'[x][i].last
                     /\ rcv'[x][i].upto # rcv'[x][i].from
            <4>1. CASE i = Len(rcv[x]) + 1
                BY <1>8, <2>1, <2>3, <2>4, <4>1
            <4>2. CASE i \in 1..Len(rcv[x])
                BY <1>6, <2>1, <2>3, <4>2 DEF PartialInv
            <4> QED BY <2>3, <4>1, <4>2
        <3>2. rcv'[x][1].from = Zero
            <4>1. CASE rcv[x] = <<>>
                BY <2>3, <2>4, <4>1
            <4>2. CASE rcv[x] # <<>>
                BY <1>1, <1>6, <2>3, <4>2 DEF PartialInv
            <4> QED BY <4>1, <4>2
        <3>3. ASSUME NEW i \in 1..(Len(rcv'[x]) - 1) PROVE rcv'[x][i + 1].from = rcv'[x][i].upto
            <4>1. CASE i = Len(rcv[x])
                <5>1. rcv[x] # <<>>
                    BY <2>3, <4>1
                <5> QED BY <2>3, <2>4, <4>1, <5>1
            <4>2. CASE i \in 1..(Len(rcv[x]) - 1)
                <5>1. i \in 1..Len(rcv[x]) /\ i + 1 \in 1..Len(rcv[x])
                    BY <2>3, <4>2
                <5> QED BY <1>6, <2>3, <4>2, <5>1 DEF PartialInv
            <4> QED BY <2>3, <4>1, <4>2
        <3> QED BY <3>1, <3>2, <3>3 DEF PartialInv
    <2>7. ObjectsInv(x)'
        BY <1>2, <1>6, <2>1 DEF ObjectsInv
    <2> QED BY <1>1, <1>5, <2>1, <2>2, <2>5, <2>6, <2>7
<1>9. Advanced
    BY <1>7, <1>8
<1> HIDE DEF Advanced
<1>10. QueueInv(x)'
    <2>1. Leads(p) = PlaceAt(x, 2)
        BY <1>3 DEF PlaceAt
    <2> HIDE DEF p
    <2>2. ASSUME NEW i \in 1..Len(q) PROVE PlaceAt(x, i)' = PlaceAt(x, i + 1)
        <3>1. CASE i = 1
            BY <1>9, <2>1, <3>1 DEF PlaceAt, Advanced
        <3>2. CASE i # 1
            <4>1. i - 1 \in 1..(Len(q) - 1) /\ (i - 1) + 1 = i /\ i + 1 # 1 /\ (i + 1) - 1 = i
                BY <1>4, <3>2
            <4>2. queue'[x][i - 1] = queue[x][i]
                BY <1>4, <4>1
            <4> QED BY <3>2, <4>1, <4>2 DEF PlaceAt, Leads
        <3> QED BY <3>1, <3>2
    <2>3. ASSUME NEW r, PacketOK(Peer(x), r) PROVE PacketOK(Peer(x), r)'
        BY <1>2, <2>3 DEF PacketOK
    <2>4. ASSUME NEW i \in 1..Len(queue'[x]), NEW r, r = queue'[x][i]
          PROVE  PacketOK(Peer(x), r)' /\ Begins(r) = PlaceAt(x, i)'
        <3>1. r = q[i + 1] /\ i \in 1..Len(q) /\ i + 1 \in 1..Len(q)
            BY <1>4, <2>4
        <3> QED BY <1>6, <2>2, <2>3, <3>1 DEF QueueInv
    <2>5. SenderPlace(Peer(x))' = SenderPlace(Peer(x))
        BY <1>2 DEF SenderPlace
    <2>6. ASSUME NEW i, i = Len(queue'[x]) + 1 PROVE SenderPlace(Peer(x))' = PlaceAt(x, i)'
        <3>1. i = Len(q) /\ i \in 1..Len(q)
            BY <1>4, <2>6
        <3> QED BY <1>6, <2>2, <2>5, <3>1 DEF QueueInv
    <2> QED BY <2>4, <2>6 DEF QueueInv, Begins
<1>11. ASSUME NEW e \in Ends PROVE OpInv(e)' /\ SenderInv(e)' /\ EofInv(e)'
    <2>1. CASE e = x
        BY <1>1, <1>2, <1>9, <2>1 DEF IInv, OpInv, SenderInv, EofInv, Advanced, Live
    <2>2. CASE e # x
        BY <1>2, <1>9, <2>2, PeerIsEnd DEF IInv, OpInv, SenderInv, EofInv, Advanced
    <2> QED BY <2>1, <2>2
<1>12. ASSUME NEW e \in Ends, e # x PROVE StreamInv(e)' /\ ObjectsInv(e)'
    BY <1>2, <1>9, <1>12, StreamFrame, ObjectsFrame DEF IInv, Advanced, Live
<1> QED
    BY <1>9, <1>10, <1>11, <1>12 DEF IInv, StreamInv, Advanced

\* End of stream: the places of both sides coincide.
LEMMA EofFacts ==
    ASSUME IInv, NEW x \in Ends, Live(x), queue[x] = <<>>
    PROVE  done[Peer(x)] = Len(got[x])
<1>1. SenderPlace(Peer(x)) = ReceiverPlace(x) /\ PartialInv(x)
    <2>1. Len(queue[x]) + 1 = 1
        OBVIOUS
    <2> QED BY <2>1 DEF IInv, StreamInv, QueueInv, PlaceAt
<1>2. done[Peer(x)] = Len(got[x])
    <2>1. done[Peer(x)] + 1 = Len(got[x]) + 1
        BY <1>1 DEF SenderPlace, ReceiverPlace
    <2>2. done[Peer(x)] \in Nat /\ Len(got[x]) \in Nat
        BY PeerIsEnd DEF IInv, TypeInv, TypeOK
    <2> QED BY <2>1, <2>2
<1> QED BY <1>2

\* recv finds the end of the stream.
LEMMA KeepRecvEof ==
    ASSUME IInv, TypeInv', NEW x \in Ends, RecvEof(x)
    PROVE  IInv'
<1>1. open[x] /\ queue[x] = <<>> /\ ~open[Peer(x)] /\ op[x] = "recv"
    BY DEF IInv, RecvEof, Calling, OpInv
<1>2. done[Peer(x)] = Len(got[x])
    <2>1. CASE Live(x)
        BY <1>1, <2>1, EofFacts
    <2>2. CASE ~Live(x)
        BY <1>1, <2>2 DEF IInv, OpInv, EofInv, Live
    <2> QED BY <2>1, <2>2
<1>3. /\ UNCHANGED <<open, queue, parked, snd, sent, done, got, sendRes>>
      /\ op'[x] = "idle" /\ rcv'[x] = <<>>
      /\ recvRes'[x] = IF Buffered(x) THEN "unterminated" ELSE "none"
      /\ \A e \in Ends : e # x => op'[e] = op[e] /\ rcv'[e] = rcv[e] /\ recvRes'[e] = recvRes[e]
    BY DEF IInv, TypeInv, TypeOK, RecvEof, EndRecv, sockets, receiver
<1>4. ASSUME NEW e \in Ends PROVE OpInv(e)' /\ SenderInv(e)' /\ EofInv(e)'
    <2>1. CASE e = x
        BY <1>1, <1>2, <1>3, <2>1 DEF IInv, OpInv, SenderInv, EofInv, Live
    <2>2. CASE e # x
        BY <1>3, <2>2 DEF IInv, OpInv, SenderInv, EofInv
    <2> QED BY <2>1, <2>2
<1>5. ASSUME NEW e \in Ends, Live(e)' PROVE Live(e) /\ queue'[e] = queue[e] /\ rcv'[e] = rcv[e]
    <2>1. CASE e = x
        BY <1>1, <1>2, <1>3, <1>5, <2>1 DEF Live
    <2>2. CASE e # x
        BY <1>3, <1>5, <2>2 DEF Live
    <2> QED BY <2>1, <2>2
<1> QED BY <1>3, <1>4, <1>5, QuietStep

\* An object of which descriptors were cut off panics: the direction is dead.
LEMMA KeepRecvPanic ==
    ASSUME IInv, TypeInv', NEW x \in Ends, RecvPacket(x), recvRes'[x] = "panic"
    PROVE  IInv'
<1>1. recvRes[x] # "panic" /\ op[x] = "recv"
    BY DEF IInv, OpInv, RecvPacket, Calling
<1>2. EndRecv(x, "panic") /\ UNCHANGED got
    <2>1. ~EndRecv(x, "ok")
        BY DEF EndRecv, IInv, TypeInv, TypeOK
    <2>2. ASSUME NEW p, NEW k, Hold(x, p, k) PROVE FALSE
        BY <1>1, <2>2 DEF Hold
    <2> QED BY <2>1, <2>2, Receives
<1>3. /\ UNCHANGED <<open, parked, snd, sent, done, got, sendRes>>
      /\ op'[x] = "idle" /\ recvRes'[x] = "panic"
      /\ \A e \in Ends : e # x => /\ op'[e] = op[e] /\ rcv'[e] = rcv[e]
                                  /\ recvRes'[e] = recvRes[e] /\ queue'[e] = queue[e]
    BY <1>2 DEF IInv, TypeInv, TypeOK, RecvPacket, EndRecv
<1>4. ASSUME NEW e \in Ends PROVE OpInv(e)' /\ SenderInv(e)' /\ EofInv(e)'
    <2>1. CASE e = x
        BY <1>1, <1>3, <2>1 DEF IInv, OpInv, SenderInv, EofInv
    <2>2. CASE e # x
        BY <1>3, <2>2 DEF IInv, OpInv, SenderInv, EofInv
    <2> QED BY <2>1, <2>2
<1>5. ASSUME NEW e \in Ends, Live(e)' PROVE Live(e) /\ queue'[e] = queue[e] /\ rcv'[e] = rcv[e]
    BY <1>3, <1>5 DEF Live
<1> QED BY <1>3, <1>4, <1>5, QuietStep

\* A receive that fails makes its direction dead; a send that ends badly
\* leaves its object unfinished for good.
LEMMA KeepFailure ==
    ASSUME IInv, TypeInv', NEW x \in Ends, NEW res \in {"reset", "pipe", "error", "cancelled"},
           \/ op[x] = "send" /\ EndSend(x, res) /\ UNCHANGED <<receiver, recvRes>>
           \/ op[x] = "recv" /\ EndRecv(x, res) /\ UNCHANGED sendRes,
           UNCHANGED <<open, queue, snd, sent, done, got>>
    PROVE  IInv'
<1>1. CASE op[x] = "send" /\ EndSend(x, res) /\ UNCHANGED <<receiver, recvRes>>
    <2>1. /\ op'[x] = "idle" /\ sendRes'[x] = res
          /\ \A e \in Ends : e # x => op'[e] = op[e] /\ sendRes'[e] = sendRes[e]
        BY <1>1 DEF IInv, TypeInv, TypeOK, EndSend
    <2>2. ASSUME NEW e \in Ends PROVE OpInv(e)' /\ SenderInv(e)' /\ EofInv(e)'
        <3>1. CASE e = x
            BY <1>1, <2>1, <3>1 DEF receiver, IInv, OpInv, SenderInv, EofInv
        <3>2. CASE e # x
            BY <1>1, <2>1, <3>2 DEF receiver, IInv, OpInv, SenderInv, EofInv
        <3> QED BY <3>1, <3>2
    <2>3. \A e \in Ends : Live(e)' => Live(e) /\ queue'[e] = queue[e] /\ rcv'[e] = rcv[e]
        BY <1>1 DEF receiver, Live
    <2> QED BY <2>2, <2>3, QuietStep
<1>2. CASE op[x] = "recv" /\ EndRecv(x, res) /\ UNCHANGED sendRes
    <2>1. /\ op'[x] = "idle" /\ recvRes'[x] = res
          /\ \A e \in Ends : e # x => op'[e] = op[e] /\ recvRes'[e] = recvRes[e] /\ rcv'[e] = rcv[e]
        BY <1>2 DEF IInv, TypeInv, TypeOK, EndRecv
    <2>2. ASSUME NEW e \in Ends PROVE OpInv(e)' /\ SenderInv(e)' /\ EofInv(e)'
        <3>1. CASE e = x
            BY <1>2, <2>1, <3>1 DEF IInv, OpInv, SenderInv, EofInv
        <3>2. CASE e # x
            BY <1>2, <2>1, <3>2 DEF IInv, OpInv, SenderInv, EofInv
        <3> QED BY <3>1, <3>2
    <2>3. \A e \in Ends : Live(e)' => Live(e) /\ queue'[e] = queue[e] /\ rcv'[e] = rcv[e]
        BY <1>2, <2>1 DEF Live
    <2> QED BY <2>2, <2>3, QuietStep
<1> QED BY <1>1, <1>2

\* An end is dropped: the stream towards it does not matter any more, the one
\* from it keeps its packets.
LEMMA KeepClose ==
    ASSUME IInv, TypeInv', NEW x \in Ends, Close(x)
    PROVE  IInv'
<1>1. /\ UNCHANGED <<snd, sent, done, got, sendRes, recvRes>>
      /\ ~open'[x] /\ queue'[x] = <<>> /\ op'[x] = "idle" /\ rcv'[x] = <<>>
      /\ \A e \in Ends : e # x => /\ open'[e] = open[e] /\ queue'[e] = queue[e]
                                  /\ op'[e] = op[e] /\ rcv'[e] = rcv[e]
    BY DEF IInv, TypeInv, TypeOK, Close
<1>2. ASSUME NEW e \in Ends PROVE OpInv(e)' /\ SenderInv(e)' /\ EofInv(e)'
    <2>1. /\ Peer(e) \in Ends /\ OpInv(e) /\ SenderInv(e) /\ EofInv(e)
          /\ open'[Peer(e)] => open[Peer(e)]
        BY <1>1, PeerIsEnd DEF IInv
    <2>2. CASE e = x
        BY <1>1, <2>1, <2>2 DEF OpInv, SenderInv, EofInv
    <2>3. CASE e # x
        BY <1>1, <2>1, <2>3 DEF OpInv, SenderInv, EofInv
    <2> QED BY <2>2, <2>3
<1>3. \A e \in Ends : Live(e)' => Live(e) /\ queue'[e] = queue[e] /\ rcv'[e] = rcv[e]
    BY <1>1 DEF Live
<1> QED BY <1>1, <1>2, <1>3, QuietStep

\* A receive starts with empty buffers.
LEMMA KeepStartRecv ==
    ASSUME IInv, TypeInv', ~Reuse, NEW x \in Ends, StartRecv(x)
    PROVE  IInv'
<1>1. /\ UNCHANGED <<open, queue, snd, rcv, sent, done, got, sendRes, recvRes>>
      /\ open[x] /\ recvRes[x] \in {"ok", "none"} /\ op'[x] = "recv" /\ op[x] = "idle"
      /\ \A e \in Ends : e # x => op'[e] = op[e]
    BY DEF IInv, TypeInv, TypeOK, StartRecv, MayRecv, sockets, receiver
<1>2. ASSUME NEW e \in Ends PROVE OpInv(e)' /\ SenderInv(e)' /\ EofInv(e)'
    <2>1. CASE e = x
        BY <1>1, <2>1 DEF IInv, OpInv, SenderInv, EofInv
    <2>2. CASE e # x
        BY <1>1, <2>2 DEF IInv, OpInv, SenderInv, EofInv
    <2> QED BY <2>1, <2>2
<1>3. \A e \in Ends : Live(e)' => Live(e) /\ queue'[e] = queue[e] /\ rcv'[e] = rcv[e]
    BY <1>1 DEF Live
<1> QED BY <1>1, <1>2, <1>3, QuietStep

\* Suspending, waking up and stuttering change nothing the invariant mentions.
LEMMA KeepWait ==
    ASSUME IInv, TypeInv',
           UNCHANGED <<open, queue, op, snd, rcv, sent, done, got, sendRes, recvRes>>
    PROVE  IInv'
<1>1. ASSUME NEW e \in Ends PROVE OpInv(e)' /\ SenderInv(e)' /\ EofInv(e)'
    BY DEF IInv, OpInv, SenderInv, EofInv
<1>2. \A e \in Ends : Live(e)' => Live(e) /\ queue'[e] = queue[e] /\ rcv'[e] = rcv[e]
    BY DEF Live
<1> QED BY <1>1, <1>2, QuietStep

\* The invariant holds on a fresh socket pair.
LEMMA InvInit == Init => IInv
<1> SUFFICES ASSUME Init PROVE IInv
    OBVIOUS
<1>1. TypeInv
    BY TypeInit
<1>2. ASSUME NEW e \in Ends PROVE OpInv(e) /\ SenderInv(e) /\ ObjectsInv(e) /\ EofInv(e)
    BY PeerIsEnd DEF Init, OpInv, SenderInv, ObjectsInv, EofInv
<1>3. ASSUME NEW e \in Ends PROVE PartialInv(e) /\ QueueInv(e)
    BY PeerIsEnd DEF Init, PartialInv, QueueInv, PlaceAt, SenderPlace, ReceiverPlace
<1> QED BY <1>1, <1>2, <1>3 DEF IInv, StreamInv

\* Every step of a program that stops using a failed direction keeps the
\* invariant.
LEMMA InvStep == ~Reuse /\ IInv /\ [Next]_vars => IInv'
<1> SUFFICES ASSUME ~Reuse, IInv, [Next]_vars PROVE IInv'
    OBVIOUS
<1>1. TypeInv'
    BY TypeStep DEF IInv
<1>2. ASSUME NEW e \in Ends, Start(e) PROVE IInv'
    BY <1>1, <1>2, KeepStartSend, KeepStartRecv DEF Start
<1>3. ASSUME NEW e \in Ends, SendPacket(e) \/ RecvPacket(e) \/ RecvEof(e) \/ Close(e) PROVE IInv'
    BY <1>1, <1>3, KeepSendPacket, KeepRecvPacket, KeepRecvPanic, KeepRecvEof, KeepClose
<1>4. ASSUME NEW e \in Ends, SendWouldBlock(e) \/ RecvWouldBlock(e) \/ Ready(e) PROVE IInv'
    BY <1>1, <1>4, KeepWait DEF SendWouldBlock, RecvWouldBlock, Ready, sockets, receiver
<1>5. ASSUME NEW e \in Ends, SendToClosed(e) PROVE IInv'
    <2>1. PICK res \in {"reset", "pipe"} : EndSend(e, res)
        BY <1>5 DEF SendToClosed
    <2> QED BY <1>1, <1>5, <2>1, KeepFailure DEF SendToClosed, Calling
<1>6. ASSUME NEW e \in Ends, RecvReset(e) PROVE IInv'
    BY <1>1, <1>6, KeepFailure DEF RecvReset, Calling
<1>7. ASSUME NEW e \in Ends, SyscallError(e) \/ Cancel(e) PROVE IInv'
    <2>1. PICK res \in {"error", "cancelled"} : Abort(e, res)
        BY <1>7 DEF SyscallError, Cancel
    <2> QED BY <1>1, <2>1, KeepFailure DEF Abort, sockets, receiver
<1>8. CASE UNCHANGED vars
    BY <1>1, <1>8, KeepWait DEF vars
<1> QED
    BY <1>2, <1>3, <1>4, <1>5, <1>6, <1>7, <1>8 DEF Next, Work

-----------------------------------------------------------------------------
(* What follows for users of a channel *)

\* In every reachable state the packets under way cover exactly the stretch
\* between receiver and sender: the invariant the theorems below rest on.
THEOREM Invariance == ~Reuse => (Spec => []IInv)
<1> SUFFICES ASSUME ~Reuse PROVE Spec => []IInv
    OBVIOUS
<1>1. IInv /\ [Next]_vars => IInv'
    BY InvStep
<1> QED BY <1>1, InvInit, PTL DEF Spec

\* Every object that recv returns is the next object the peer sent, whole and
\* from its packets only, for any sizes, limits and buffers.
THEOREM Intact == ~Reuse => (Spec => []DeliveredIntact)
<1> SUFFICES ASSUME ~Reuse PROVE Spec => []DeliveredIntact
    OBVIOUS
<1>1. IInv => DeliveredIntact
    <2> SUFFICES ASSUME IInv, NEW e \in Ends PROVE Len(got[e]) <= Len(sent[Peer(e)])
        BY DEF IInv, ObjectsInv, DeliveredIntact
    <2> QED
        BY PeerIsEnd DEF IInv, ObjectsInv, SenderInv, TypeInv, TypeOK
<1> QED BY <1>1, Invariance, PTL

\* End of stream never hides an object whose send had succeeded.
THEOREM EofSafe == ~Reuse => (Spec => []NothingLostAtEof)
<1> SUFFICES ASSUME ~Reuse PROVE Spec => []NothingLostAtEof
    OBVIOUS
<1>1. IInv => NothingLostAtEof
    BY DEF IInv, EofInv, NothingLostAtEof
<1> QED BY <1>1, Invariance, PTL

-----------------------------------------------------------------------------
(* What holds of programs that go on with a direction after it failed, too *)

\* What AnyUseInv says of the objects that travel towards an end.
Travel(e) == (\A k \in 1..Len(got[e]) : Torn(e, k)) /\ LaterInv(e) /\ UnfinishedInv(e)

\* It depends on these variables only, and packets that are thrown away do not
\* disturb it.
LEMMA TravelFrame ==
    ASSUME NEW e \in Ends, Travel(e),
           got'[e] = got[e], sent'[Peer(e)] = sent[Peer(e)],
           rcv'[e] = rcv[e] \/ rcv'[e] = <<>>,
           queue'[e] = queue[e] \/ queue'[e] = <<>>,
           op'[Peer(e)] = "send" => op[Peer(e)] = "send"
    PROVE  Travel(e)'
<1>1. LastSeen(e)' = LastSeen(e) /\ \A k \in 1..Len(got[e]) : Torn(e, k) => Torn(e, k)'
    BY DEF LastSeen, Torn
<1>2. /\ \A i \in 1..Len(rcv'[e]) : i \in 1..Len(rcv[e]) /\ rcv'[e][i] = rcv[e][i]
      /\ \A i \in 1..Len(queue'[e]) : i \in 1..Len(queue[e]) /\ queue'[e][i] = queue[e][i]
    BY EmptySeq
<1>3. LaterInv(e)'
    BY <1>1, <1>2 DEF Travel, LaterInv
<1>4. UnfinishedInv(e)'
    BY <1>1, <1>2 DEF Travel, UnfinishedInv
<1> QED BY <1>1, <1>3, <1>4 DEF Travel

\* The types of what travels.
LEMMA TravelTypes ==
    ASSUME TypeInv, NEW e \in Ends
    PROVE  /\ queue[e] \in Seq(Packet) /\ rcv[e] \in Seq(Packet) /\ got[e] \in Seq(Seq(Packet))
           /\ Len(sent[Peer(e)]) \in Nat /\ sent[Peer(e)] \in Seq(Values)
           /\ \A q \in Packet : q.msg \in Nat \ {0} /\ q.last \in BOOLEAN
           /\ \A i \in 1..Len(queue[e]) : queue[e][i] \in Packet
           /\ \A i \in 1..Len(rcv[e]) : rcv[e][i] \in Packet
<1>1. /\ queue[e] \in Seq(Packet) /\ rcv[e] \in Seq(Packet) /\ got[e] \in Seq(Seq(Packet))
      /\ sent[Peer(e)] \in Seq(Values)
    BY PeerIsEnd DEF TypeInv, TypeOK
<1>2. \A q \in Packet : q.msg \in Nat \ {0} /\ q.last \in BOOLEAN
    BY DEF Packet
<1> QED BY <1>1, <1>2

\* Before a return, what was seen last is an ordinal.
LEMMA LastSeenType ==
    ASSUME TypeInv, NEW e \in Ends, \A k \in 1..Len(got[e]) : Torn(e, k)
    PROVE  LastSeen(e) \in Nat
<1>1. CASE got[e] = <<>>
    BY <1>1 DEF LastSeen
<1>2. CASE got[e] # <<>>
    <2> DEFINE ps == got[e][Len(got[e])]
    <2>1. Len(got[e]) \in 1..Len(got[e]) /\ ps \in Seq(Packet)
        BY <1>2, TravelTypes
    <2>2. ps # <<>>
        BY <2>1 DEF Torn
    <2> HIDE DEF ps
    <2>3. ps[Len(ps)] \in Packet
        BY <2>1, <2>2
    <2>4. ps[Len(ps)].msg \in Nat
        BY <2>3 DEF Packet
    <2> QED BY <1>2, <2>4 DEF LastSeen, ps
<1> QED BY <1>1, <1>2

\* A new object is behind everything that travels.
LEMMA TravelStartSend ==
    ASSUME TypeInv, NEW e \in Ends, Travel(e), NEW v \in Values, StartSend(Peer(e), v)
    PROVE  Travel(e)'
<1> DEFINE s == Peer(e)
<1>1. Len(sent'[s]) = Len(sent[s]) + 1 /\ Len(sent[s]) \in Nat
      /\ UNCHANGED <<got, rcv, queue>>
    BY PeerIsEnd, TravelTypes DEF StartSend, sockets, receiver, TypeInv, TypeOK
<1>2. LastSeen(e)' = LastSeen(e) /\ LastSeen(e) \in Nat
    BY <1>1, LastSeenType DEF LastSeen, Travel
<1>3. \A k \in 1..Len(got[e]) : Torn(e, k)'
    BY <1>1 DEF Travel, Torn
<1>4. \A i \in 1..Len(queue[e]) : queue[e][i].msg \in Nat
    BY TravelTypes
<1>5. LaterInv(e)'
    BY <1>1, <1>2, <1>4 DEF Travel, LaterInv
<1>6. UnfinishedInv(e)'
    BY <1>1, <1>2, <1>4 DEF Travel, LaterInv, UnfinishedInv
<1> QED BY <1>1, <1>3, <1>5, <1>6 DEF Travel

\* A packet that is sent is of the newest object, and before its last.
LEMMA TravelSendPacket ==
    ASSUME TypeInv, NEW e \in Ends, Travel(e), PositionInv(Peer(e)), SendPacket(Peer(e))
    PROVE  Travel(e)'
<1> DEFINE s == Peer(e)
           n == Len(sent[s])
           upto == ChunkEnd(snd[s], sent[s][n])
           last == IsLast(upto, sent[s][n])
           p == [msg |-> n, from |-> snd[s], upto |-> upto, last |-> last]
<1>1. s \in Ends /\ Peer(s) = e /\ op[s] = "send" /\ n \in Nat \ {0} /\ snd[s] \in Pos /\ sent[s][n] \in Pos
    <2>1. s \in Ends /\ Peer(s) = e /\ op[s] = "send"
        BY PeerIsEnd DEF SendPacket, Calling
    <2>2. sent[s] \in Seq(Values) /\ sent[s] # <<>> /\ snd[s] \in Pos
        BY <2>1 DEF TypeInv, TypeOK
    <2>3. n \in Nat \ {0} /\ sent[s][n] \in Values
        BY <2>2, EmptySeq
    <2> QED BY <2>1, <2>2, <2>3, ValuesArePositions
<1>2. p \in Packet /\ (p.last \/ Inner(p)) /\ p.msg = n /\ Sane(p)
    <2>1. p \in Packet /\ (p.last \/ Inner(p)) /\ p.msg = n
        BY <1>1, ChunkProgress DEF Packet, Inner, IsLast
    <2>2. p.from.fds <= p.upto.fds /\ p.upto.data <= p.from.data + MaxData
        BY <1>1, ChunkProgress DEF PositionInv
    <2> HIDE DEF p
    <2> QED BY <2>1, <2>2, TakenWhole DEF Sane
<1>3. queue'[e] = Append(queue[e], p) /\ UNCHANGED <<got, rcv, sent>>
    BY <1>1 DEF SendPacket, receiver, TypeInv, TypeOK
<1>4. op'[s] = "send" => ~p.last
    BY <1>1 DEF SendPacket, EndSend, TypeInv, TypeOK
<1> HIDE DEF p
<1>5. /\ Len(queue[e]) \in Nat /\ Len(queue'[e]) = Len(queue[e]) + 1
      /\ \A i \in 1..Len(queue[e]) : queue'[e][i] = queue[e][i]
      /\ queue'[e][Len(queue[e]) + 1] = p
    BY <1>2, <1>3, TravelTypes, AppendFacts
<1>6. LastSeen(e)' = LastSeen(e) /\ \A k \in 1..Len(got[e]) : Torn(e, k)'
    BY <1>3 DEF LastSeen, Travel, Torn
<1>7. LastSeen(e) < n /\ \A i \in 1..Len(queue[e]) : queue[e][i].last => queue[e][i].msg < n
    BY <1>1 DEF Travel, UnfinishedInv
<1>8. LaterInv(e)'
    <2>1. ASSUME NEW i \in 1..Len(queue'[e])
          PROVE  /\ queue'[e][i].last \/ Inner(queue'[e][i])
                 /\ Sane(queue'[e][i])
                 /\ queue'[e][i].msg > LastSeen(e) /\ queue'[e][i].msg <= n
        <3>1. CASE i = Len(queue[e]) + 1
            BY <1>1, <1>2, <1>5, <1>7, <3>1, LastSeenType DEF Travel
        <3>2. CASE i \in 1..Len(queue[e])
            BY <1>5, <3>2 DEF Travel, LaterInv
        <3> QED BY <1>5, <3>1, <3>2
    <2>2. ASSUME NEW i \in 1..Len(queue'[e]), NEW j \in 1..Len(queue'[e]), i < j
          PROVE  /\ queue'[e][i].msg <= queue'[e][j].msg
                 /\ queue'[e][i].last => queue'[e][i].msg < queue'[e][j].msg
        <3>1. i \in 1..Len(queue[e])
            BY <1>5, <2>2
        <3>2. CASE j = Len(queue[e]) + 1
            BY <1>2, <1>5, <1>7, <3>1, <3>2 DEF Travel, LaterInv
        <3>3. CASE j \in 1..Len(queue[e])
            BY <1>5, <2>2, <3>1, <3>3 DEF Travel, LaterInv
        <3> QED BY <1>5, <3>2, <3>3
    <2>3. \A i \in 1..Len(rcv[e]) : Inner(rcv[e][i]) /\ rcv[e][i].msg > LastSeen(e)
        BY DEF Travel, LaterInv
    <2> QED BY <1>3, <1>6, <2>1, <2>2, <2>3 DEF LaterInv
<1>9. UnfinishedInv(e)'
    <2>1. ASSUME op'[s] = "send", NEW i \in 1..Len(queue'[e]), queue'[e][i].last
          PROVE  queue'[e][i].msg < n
        <3>1. i # Len(queue[e]) + 1
            BY <1>4, <1>5, <2>1
        <3>2. i \in 1..Len(queue[e])
            BY <1>5, <3>1
        <3> QED BY <1>5, <1>7, <2>1, <3>2
    <2> QED BY <1>3, <1>6, <1>7, <2>1 DEF Travel, UnfinishedInv
<1> QED BY <1>3, <1>6, <1>8, <1>9 DEF Travel

\* The packet received is of a later object than what was returned before, and with
\* a last one the rest of the queue is of later objects still.
LEMMA TravelRecvPacket ==
    ASSUME TypeInv, NEW e \in Ends, Travel(e), RecvPacket(e)
    PROVE  Travel(e)'
<1> DEFINE p == Head(queue[e])
           q == queue[e]
           s == Peer(e)
<1>1. /\ q # <<>> /\ q \in Seq(Packet) /\ rcv[e] \in Seq(Packet) /\ got[e] \in Seq(Seq(Packet))
      /\ LastSeen(e) \in Nat /\ UNCHANGED sent /\ s # e /\ op'[s] = op[s]
    <2>1. q # <<>> /\ UNCHANGED sent /\ s # e /\ s \in Ends
        BY PeerIsEnd DEF RecvPacket
    <2>2. op'[s] = op[s]
        BY <2>1, OthersKeep
    <2> QED BY <2>1, <2>2, TravelTypes, LastSeenType DEF Travel
<1>2. /\ queue'[e] = Tail(q) /\ Len(q) \in Nat \ {0} /\ Len(Tail(q)) = Len(q) - 1
      /\ \A i \in 1..(Len(q) - 1) : Tail(q)[i] = q[i + 1]
      /\ p = q[1] /\ 1 \in 1..Len(q)
    BY <1>1 DEF RecvPacket, TypeInv, TypeOK
<1>3. p \in Packet /\ p.msg \in Nat \ {0} /\ p.last \in BOOLEAN
    BY <1>1, <1>2, TravelTypes
<1>4. (p.last \/ Inner(p)) /\ p.msg > LastSeen(e) /\ p.msg <= Len(sent[s])
    BY <1>2 DEF Travel, LaterInv
<1>0. p = Taken(p)
    BY <1>2 DEF Travel, LaterInv, Sane
<1>5. op[s] = "send" /\ p.last => p.msg < Len(sent[s])
    BY <1>2 DEF Travel, UnfinishedInv
\* What stays in the queue.
<1>6. ASSUME NEW i \in 1..Len(queue'[e])
      PROVE  i + 1 \in 1..Len(q) /\ queue'[e][i] = q[i + 1] /\ (p.last => q[i + 1].msg > p.msg)
    <2>1. i + 1 \in 1..Len(q) /\ queue'[e][i] = q[i + 1] /\ 1 < i + 1
        BY <1>2
    <2>2. q[i + 1] \in Packet
        BY <2>1, TravelTypes
    <2>3. p.last => p.msg < q[i + 1].msg
        BY <1>2, <2>1 DEF Travel, LaterInv
    <2> QED BY <1>3, <2>1, <2>2, <2>3, TravelTypes
<1>7. ASSUME NEW Seen, Seen = LastSeen(e) \/ (p.last /\ Seen = p.msg),
             LastSeen(e)' = Seen, \A k \in 1..Len(got'[e]) : Torn(e, k)',
             \A i \in 1..Len(rcv'[e]) : Inner(rcv'[e][i]) /\ rcv'[e][i].msg > Seen
      PROVE  Travel(e)'
    <2>1. ASSUME NEW i \in 1..Len(queue'[e])
          PROVE  /\ queue'[e][i].last \/ Inner(queue'[e][i])
                 /\ Sane(queue'[e][i])
                 /\ queue'[e][i].msg > Seen /\ queue'[e][i].msg <= Len(sent[s])
        BY <1>6, <1>7 DEF Travel, LaterInv
    <2>2. ASSUME NEW i \in 1..Len(queue'[e]), NEW j \in 1..Len(queue'[e]), i < j
          PROVE  /\ queue'[e][i].msg <= queue'[e][j].msg
                 /\ queue'[e][i].last => queue'[e][i].msg < queue'[e][j].msg
        <3>1. i + 1 < j + 1
            BY <2>2
        <3> QED BY <1>6, <3>1 DEF Travel, LaterInv
    <2>3. LaterInv(e)'
        BY <1>1, <1>7, <2>1, <2>2 DEF LaterInv
    <2>4. UnfinishedInv(e)'
        <3>1. Seen <= Len(sent[s]) /\ (op[s] = "send" => Seen < Len(sent[s]))
            BY <1>4, <1>5, <1>7 DEF Travel, UnfinishedInv
        <3>2. \A i \in 1..Len(queue'[e]) :
                 op[s] = "send" /\ queue'[e][i].last => queue'[e][i].msg < Len(sent[s])
            BY <1>6 DEF Travel, UnfinishedInv
        <3> QED BY <1>1, <1>7, <3>1, <3>2 DEF UnfinishedInv
    <2> QED BY <1>7, <2>3, <2>4 DEF Travel
<1>8. \/ ~p.last /\ UNCHANGED got /\ rcv'[e] = Append(rcv[e], p)
      \/ p.last /\ got'[e] = Append(got[e], Append(rcv[e], p)) /\ rcv'[e] = <<>>
      \/ p.last /\ UNCHANGED got /\ rcv'[e] = <<>>
    <2>1. CASE \E k \in 0..(p.upto.fds - p.from.fds) : ~p.last /\ Hold(e, p, k)
        BY <2>1 DEF Hold, TypeInv, TypeOK
    <2>2. CASE p.last /\ EndRecv(e, "panic") /\ UNCHANGED got
        BY <2>2 DEF EndRecv, TypeInv, TypeOK
    <2>3. CASE /\ p.last /\ EndRecv(e, "ok")
               /\ got' = [got EXCEPT ![e] = Append(@, Append(rcv[e], p))]
        BY <2>3 DEF EndRecv, TypeInv, TypeOK
    <2> HIDE DEF p
    <2> QED BY <1>0, <2>1, <2>2, <2>3, Receives DEF p
<1> HIDE DEF p
<1>9. CASE p.last /\ got'[e] = Append(got[e], Append(rcv[e], p)) /\ rcv'[e] = <<>>
    <2> DEFINE ps == Append(rcv[e], p)
    <2>1. got'[e] = Append(got[e], ps) /\ rcv'[e] = <<>>
        BY <1>9
    <2>2. /\ ps \in Seq(Packet) /\ ps # <<>> /\ Len(ps) = Len(rcv[e]) + 1 /\ Len(rcv[e]) \in Nat
          /\ \A i \in 1..Len(rcv[e]) : ps[i] = rcv[e][i]
          /\ ps[Len(rcv[e]) + 1] = p
        BY <1>1, <1>3, AppendFacts
    <2> HIDE DEF ps
    <2>3. /\ Len(got'[e]) = Len(got[e]) + 1 /\ Len(got[e]) \in Nat /\ got'[e] # <<>>
          /\ \A k \in 1..Len(got[e]) : got'[e][k] = got[e][k]
          /\ got'[e][Len(got[e]) + 1] = ps
        BY <1>1, <2>1, <2>2, AppendFacts
    <2>4. LastSeen(e)' = p.msg
        BY <2>2, <2>3 DEF LastSeen
    <2>5. \A i \in 1..Len(ps) : /\ ps[i].last <=> i = Len(ps)
                                /\ ps[i].msg > LastSeen(e)
        <3>1. \A i \in 1..Len(rcv[e]) : ~rcv[e][i].last /\ rcv[e][i].msg > LastSeen(e)
            BY DEF Travel, LaterInv, Inner
        <3>2. p.last /\ p.msg > LastSeen(e)
            BY <1>4, <1>9
        <3>3. ASSUME NEW i \in 1..Len(ps) PROVE i \in 1..Len(rcv[e]) \/ i = Len(rcv[e]) + 1
            BY <2>2
        <3> QED BY <2>2, <3>1, <3>2, <3>3
    <2>6. ASSUME NEW k \in 1..Len(got'[e]) PROVE Torn(e, k)'
        <3>1. CASE k \in 1..Len(got[e])
            <4>1. Torn(e, k)
                BY <3>1 DEF Travel
            <4>2. k > 1 => k - 1 \in 1..Len(got[e])
                BY <2>3, <3>1
            <4> QED BY <2>3, <3>1, <4>1, <4>2 DEF Torn
        <3>2. CASE k = Len(got[e]) + 1
            <4>1. k > 1 => /\ got[e] # <<>> /\ k - 1 = Len(got[e])
                           /\ got'[e][k - 1] = got[e][Len(got[e])]
                <5>1. ASSUME k > 1 PROVE Len(got[e]) # 0 /\ k - 1 = Len(got[e]) /\ k - 1 \in 1..Len(got[e])
                    BY <2>3, <3>2, <5>1
                <5>2. ASSUME k > 1 PROVE got[e] # <<>>
                    BY <5>1, <5>2
                <5> QED BY <2>3, <5>1, <5>2
            <4>2. k > 1 => LastSeen(e) = got'[e][k - 1][Len(got'[e][k - 1])].msg
                BY <4>1 DEF LastSeen
            <4> QED BY <2>2, <2>3, <2>5, <3>2, <4>2 DEF Torn
        <3> QED BY <2>3, <3>1, <3>2
    <2>7. Len(rcv'[e]) = 0
        BY <2>1
    <2> QED BY <1>7, <1>9, <2>4, <2>6, <2>7
<1>10. CASE ~p.last /\ UNCHANGED got /\ rcv'[e] = Append(rcv[e], p)
    <2>1. rcv'[e] = Append(rcv[e], p) /\ UNCHANGED got
        BY <1>10
    <2>2. LastSeen(e)' = LastSeen(e) /\ \A k \in 1..Len(got'[e]) : Torn(e, k)'
        BY <2>1 DEF LastSeen, Travel, Torn
    <2>3. /\ Len(rcv'[e]) = Len(rcv[e]) + 1 /\ Len(rcv[e]) \in Nat
          /\ \A i \in 1..Len(rcv[e]) : rcv'[e][i] = rcv[e][i]
          /\ rcv'[e][Len(rcv[e]) + 1] = p
        BY <1>1, <1>3, <2>1, AppendFacts
    <2>4. \A i \in 1..Len(rcv'[e]) : Inner(rcv'[e][i]) /\ rcv'[e][i].msg > LastSeen(e)
        <3>1. \A i \in 1..Len(rcv[e]) : Inner(rcv[e][i]) /\ rcv[e][i].msg > LastSeen(e)
            BY DEF Travel, LaterInv
        <3> QED BY <1>4, <1>10, <2>3, <3>1
    <2> QED BY <1>7, <1>10, <2>2, <2>4
<1>11. CASE p.last /\ UNCHANGED got /\ rcv'[e] = <<>>
    <2>1. LastSeen(e)' = LastSeen(e) /\ \A k \in 1..Len(got'[e]) : Torn(e, k)'
        BY <1>11 DEF LastSeen, Travel, Torn
    <2>2. Len(rcv'[e]) = 0
        BY <1>11
    <2> QED BY <1>7, <2>1, <2>2
<1> QED BY <1>8, <1>9, <1>10, <1>11

\* Every step keeps what travels in order.
LEMMA TravelStep ==
    ASSUME TypeInv, NEW e \in Ends, Travel(e), PositionInv(Peer(e)), Next
    PROVE  Travel(e)'
<1>1. PICK x \in Ends : Start(x) \/ Work(x) \/ SyscallError(x) \/ Cancel(x) \/ Close(x)
    BY DEF Next
<1>2. Peer(e) \in Ends /\ Peer(e) # e /\ (x = e \/ x = Peer(e))
    BY DEF Ends, Peer
<1> USE <1>2 DEF TypeInv, TypeOK
<1>3. ASSUME NEW v \in Values, StartSend(x, v) PROVE Travel(e)'
    <2>1. CASE x = Peer(e)
        BY <1>3, <2>1, TravelStartSend
    <2>2. CASE x = e
        <3>1. /\ UNCHANGED <<got, rcv, queue>> /\ sent'[Peer(e)] = sent[Peer(e)]
              /\ op'[Peer(e)] = op[Peer(e)]
            BY <1>3, <2>2 DEF StartSend, sockets, receiver
        <3> QED BY <3>1, TravelFrame
    <2> QED BY <2>1, <2>2
<1>4. ASSUME SendPacket(x) PROVE Travel(e)'
    <2>1. CASE x = Peer(e)
        BY <1>4, <2>1, TravelSendPacket
    <2>2. CASE x = e
        <3>1. /\ UNCHANGED <<got, rcv, sent>> /\ queue'[e] = queue[e] /\ op'[Peer(e)] = op[Peer(e)]
            BY <1>4, <2>2 DEF SendPacket, EndSend, receiver
        <3> QED BY <3>1, TravelFrame
    <2> QED BY <2>1, <2>2
<1>5. ASSUME RecvPacket(x) PROVE Travel(e)'
    <2>1. CASE x = e
        BY <1>5, <2>1, TravelRecvPacket
    <2>2. CASE x = Peer(e)
        <3>1. /\ UNCHANGED sent /\ got'[e] = got[e] /\ rcv'[e] = rcv[e] /\ queue'[e] = queue[e]
              /\ op'[Peer(e)] = "send" => op[Peer(e)] = "send"
            BY <1>5, <2>2, OthersKeep DEF RecvPacket
        <3> QED BY <3>1, TravelFrame
    <2> QED BY <2>1, <2>2
<1>6. ASSUME \/ StartRecv(x) \/ SendWouldBlock(x) \/ SendToClosed(x)
             \/ RecvWouldBlock(x) \/ Ready(x)
      PROVE  Travel(e)'
    <2>1. /\ UNCHANGED <<got, rcv, sent, queue>>
          /\ op'[Peer(e)] = "send" => op[Peer(e)] = "send"
        BY <1>6 DEF StartRecv, SendWouldBlock, SendToClosed, RecvWouldBlock, Ready, EndSend, sockets, receiver
    <2> QED BY <2>1, TravelFrame
<1>7. ASSUME RecvEof(x) \/ RecvReset(x) \/ SyscallError(x) \/ Cancel(x) PROVE Travel(e)'
    <2>1. /\ UNCHANGED <<got, sent, queue>> /\ (rcv'[e] = rcv[e] \/ rcv'[e] = <<>>)
          /\ op'[Peer(e)] = "send" => op[Peer(e)] = "send"
        BY <1>7 DEF RecvEof, RecvReset, SyscallError, Cancel, Abort, EndSend, EndRecv, sockets, receiver
    <2> QED BY <2>1, TravelFrame
<1>8. ASSUME Close(x) PROVE Travel(e)'
    <2>1. /\ UNCHANGED <<got, sent>> /\ (rcv'[e] = rcv[e] \/ rcv'[e] = <<>>)
          /\ (queue'[e] = queue[e] \/ queue'[e] = <<>>)
          /\ op'[Peer(e)] = "send" => op[Peer(e)] = "send"
        BY <1>8 DEF Close
    <2> QED BY <2>1, TravelFrame
<1> QED BY <1>1, <1>3, <1>4, <1>5, <1>6, <1>7, <1>8 DEF Start, Work

\* After Ok(None) no packet can come any more.
LEMMA EndedStep ==
    ASSUME TypeInv, \A e \in Ends : Travel(e) /\ EndedInv(e), NEW e \in Ends, Next
    PROVE  EndedInv(e)'
<1>1. PICK x \in Ends : Start(x) \/ Work(x) \/ SyscallError(x) \/ Cancel(x) \/ Close(x)
    BY DEF Next
<1>2. /\ Peer(e) \in Ends /\ Peer(e) # e /\ Peer(Peer(e)) = e /\ (x = e \/ x = Peer(e))
      /\ EndedInv(e) /\ EndedInv(x) /\ EndedInv(Peer(e))
    BY DEF Ends, Peer
<1> USE <1>2 DEF TypeInv, TypeOK, EndedInv
<1>3. ASSUME \/ \E v \in Values : StartSend(x, v)
             \/ StartRecv(x) \/ SendWouldBlock(x) \/ SendToClosed(x) \/ RecvWouldBlock(x) \/ Ready(x)
      PROVE  EndedInv(e)'
    BY <1>3 DEF StartSend, StartRecv, SendWouldBlock, SendToClosed, RecvWouldBlock, Ready,
                EndSend, sockets, receiver
<1>4. ASSUME SendPacket(x) PROVE EndedInv(e)'
    <2>1. /\ open[x] /\ UNCHANGED <<open, rcv, recvRes>>
          /\ op'[e] # "idle" => op[e] # "idle"
          /\ x = e => queue'[e] = queue[e]
        BY <1>4 DEF SendPacket, Calling, EndSend, receiver
    <2> QED BY <2>1
<1>5. ASSUME RecvPacket(x) PROVE EndedInv(e)'
    <2>1. /\ UNCHANGED open /\ queue[x] # <<>>
          /\ op'[e] # "idle" => op[e] # "idle"
          /\ x # e => queue'[e] = queue[e] /\ rcv'[e] = rcv[e] /\ recvRes'[e] = recvRes[e]
          /\ x = e => recvRes'[e] \in {"ok", "panic"} \/ recvRes'[e] = recvRes[e]
        <3>1. UNCHANGED open /\ queue[x] # <<>> /\ op[x] # "idle"
            BY <1>5 DEF RecvPacket, Calling
        <3>2. op'[x] \in {op[x], "idle"} /\ recvRes'[x] \in {recvRes[x], "ok", "panic"}
            BY <1>5, OthersKeep
        <3>3. x # e => /\ queue'[e] = queue[e] /\ rcv'[e] = rcv[e]
                       /\ op'[e] = op[e] /\ recvRes'[e] = recvRes[e]
            BY <1>5, OthersKeep
        <3> QED BY <3>1, <3>2, <3>3
    <2> QED BY <2>1
<1>6. ASSUME RecvEof(x) PROVE EndedInv(e)'
    <2>1. /\ UNCHANGED <<open, queue>>
          /\ op'[e] # "idle" => op[e] # "idle"
          /\ x # e => rcv'[e] = rcv[e] /\ recvRes'[e] = recvRes[e]
          /\ x = e => rcv'[e] = <<>> /\ queue[e] = <<>> /\ ~open[Peer(e)]
        BY <1>6 DEF RecvEof, EndRecv, sockets, receiver
    <2> QED BY <2>1
<1>7. ASSUME RecvReset(x) \/ SyscallError(x) \/ Cancel(x) PROVE EndedInv(e)'
    <2>1. /\ UNCHANGED <<open, queue>>
          /\ op'[e] # "idle" => op[e] # "idle"
          /\ \/ rcv'[e] = rcv[e] /\ recvRes'[e] = recvRes[e]
             \/ recvRes'[e] \in {"reset", "error", "cancelled"}
        BY <1>7 DEF RecvReset, SyscallError, Cancel, Abort, EndSend, EndRecv, sockets, receiver
    <2> QED BY <2>1
<1>8. ASSUME Close(x) PROVE EndedInv(e)'
    BY <1>8 DEF Close
<1> QED BY <1>1, <1>3, <1>4, <1>5, <1>6, <1>7, <1>8 DEF Start, Work

\* While nothing was cut off, the descriptors of the packets held are held.
LEMMA HeldStep ==
    ASSUME TypeInv, NEW e \in Ends, Travel(e), HeldInv(e), Next
    PROVE  HeldInv(e)'
<1>1. PICK x \in Ends : Start(x) \/ Work(x) \/ SyscallError(x) \/ Cancel(x) \/ Close(x)
    BY DEF Next
<1>2. ASSUME \/ rcv'[e] = rcv[e] /\ fds'[e] = fds[e]
             \/ rcv'[e] = <<>>
      PROVE  HeldInv(e)'
    <2>1. Len(<<>>) = 0
        OBVIOUS
    <2> QED BY <1>2, <2>1 DEF HeldInv
<1>3. ASSUME NEW y \in Ends, NEW res, EndRecv(y, res) PROVE HeldInv(e)'
    <2>1. rcv' = [rcv EXCEPT ![y] = <<>>] /\ fds' = [fds EXCEPT ![y] = NoFds]
        BY <1>3 DEF EndRecv
    <2> QED BY <1>2, <2>1 DEF TypeInv, TypeOK
<1>4. ASSUME RecvPacket(x), x = e PROVE HeldInv(e)'
    <2>1. /\ Head(queue[e]) = queue[e][1] /\ 1 \in 1..Len(queue[e])
          /\ Head(queue[e]) \in Packet
        BY <1>4, TravelTypes DEF RecvPacket
    <2>2. PICK p \in Packet : p = Taken(Head(queue[e]))
        BY <2>1, TakenType
    <2>3. p.from.fds <= p.upto.fds
        BY <2>1, <2>2 DEF Travel, LaterInv, Sane
    <2>4. ASSUME NEW k \in 0..(p.upto.fds - p.from.fds), Hold(e, p, k) PROVE HeldInv(e)'
        <3>1. /\ rcv'[e] = Append(rcv[e], p)
              /\ fds'[e].held = fds[e].held + k /\ fds'[e].cut = CutOff(e, p, k)
            BY <2>4 DEF Hold, TypeInv, TypeOK
        <3>2. /\ Len(rcv'[e]) = Len(rcv[e]) + 1 /\ Len(rcv[e]) \in Nat
              /\ \A i \in 1..Len(rcv[e]) : rcv'[e][i] = rcv[e][i]
              /\ rcv'[e][Len(rcv[e]) + 1] = p
            BY <3>1, TravelTypes, AppendFacts
        <3>3. /\ fds[e].held \in Nat /\ k \in Nat
              /\ p.upto.fds \in Nat /\ p.from.fds \in Nat
            BY DEF TypeInv, TypeOK, Held, Packet, Pos
        <3> SUFFICES ASSUME ~fds'[e].cut, NEW i \in 1..Len(rcv'[e]),
                            rcv'[e][i].upto.fds # rcv'[e][i].from.fds
                     PROVE  fds'[e].held > 0
            BY DEF HeldInv
        <3>4. ~fds[e].cut /\ k = p.upto.fds - p.from.fds
            <4>1. ~CutOff(e, p, k)
                BY <3>1
            <4>2. ~fds[e].cut /\ ~(k < p.upto.fds - p.from.fds)
                BY <4>1 DEF CutOff
            <4> QED BY <2>3, <2>4, <3>3, <4>2
        <3>5. CASE i = Len(rcv[e]) + 1
            BY <2>3, <3>1, <3>2, <3>3, <3>4, <3>5
        <3>6. CASE i \in 1..Len(rcv[e])
            <4>1. fds[e].held > 0
                BY <3>2, <3>4, <3>6 DEF HeldInv
            <4> QED BY <3>1, <3>3, <4>1
        <3> QED BY <3>2, <3>5, <3>6
    <2> QED BY <1>3, <1>4, <2>2, <2>4, Receives
<1>5. ASSUME RecvPacket(x), x # e PROVE HeldInv(e)'
    BY <1>2, <1>5, OthersKeep
<1>6. ASSUME \/ Start(x) \/ SendPacket(x) \/ SendWouldBlock(x) \/ SendToClosed(x)
             \/ RecvWouldBlock(x) \/ Ready(x)
      PROVE  HeldInv(e)'
    BY <1>2, <1>6 DEF Start, StartSend, StartRecv, SendPacket, SendWouldBlock, SendToClosed,
                      RecvWouldBlock, Ready, receiver
<1>7. ASSUME RecvEof(x) \/ RecvReset(x) PROVE HeldInv(e)'
    BY <1>3, <1>7 DEF RecvEof, RecvReset
<1>8. ASSUME SyscallError(x) \/ Cancel(x) PROVE HeldInv(e)'
    <2>1. PICK res : Abort(x, res)
        BY <1>8 DEF SyscallError, Cancel
    <2> QED BY <1>2, <1>3, <2>1 DEF Abort, receiver
<1>9. ASSUME Close(x) PROVE HeldInv(e)'
    <2>1. rcv' = [rcv EXCEPT ![x] = <<>>] /\ fds' = [fds EXCEPT ![x] = NoFds]
        BY <1>9 DEF Close
    <2> QED BY <1>2, <2>1 DEF TypeInv, TypeOK
<1> QED BY <1>1, <1>4, <1>5, <1>6, <1>7, <1>8, <1>9 DEF Work

\* A sender's positions stay inside its object.
LEMMA PositionStep ==
    ASSUME TypeInv, NEW e \in Ends, PositionInv(e), Next
    PROVE  PositionInv(e)'
<1>1. PICK x \in Ends : Start(x) \/ Work(x) \/ SyscallError(x) \/ Cancel(x) \/ Close(x)
    BY DEF Next
<1>2. ASSUME snd'[e] = snd[e], sent'[e] = sent[e], op'[e] = "send" => op[e] = "send"
      PROVE  PositionInv(e)'
    BY <1>2 DEF PositionInv
<1>3. ASSUME NEW v \in Values, StartSend(x, v) PROVE PositionInv(e)'
    <2>1. CASE x = e
        <3>1. sent'[e] = Append(sent[e], v) /\ snd'[e] = Zero /\ sent[e] \in Seq(Values)
            BY <1>3, <2>1 DEF StartSend, TypeInv, TypeOK
        <3>2. sent'[e][Len(sent'[e])] = v /\ v \in Pos
            BY <3>1, AppendFacts, ValuesArePositions
        <3> QED BY <3>1, <3>2 DEF PositionInv, Pos, Zero
    <2>2. CASE x # e
        BY <1>2, <1>3, <2>2 DEF StartSend, TypeInv, TypeOK
    <2> QED BY <2>1, <2>2
<1>4. ASSUME SendPacket(x) PROVE PositionInv(e)'
    <2>1. CASE x = e
        <3>1. sent[e] \in Seq(Values) /\ sent[e] # <<>> /\ snd[e] \in Pos
            BY <1>4, <2>1 DEF SendPacket, Calling, TypeInv, TypeOK
        <3>2. Len(sent[e]) \in 1..Len(sent[e])
            BY <3>1, EmptySeq
        <3>3. sent[e][Len(sent[e])] \in Pos
            BY <3>1, <3>2, ValuesArePositions
        <3>4. snd'[e] = ChunkEnd(snd[e], sent[e][Len(sent[e])]) /\ sent' = sent
            BY <1>4, <2>1 DEF SendPacket, TypeInv, TypeOK
        <3> QED BY <3>1, <3>3, <3>4, ChunkProgress DEF PositionInv
    <2>2. CASE x # e
        BY <1>2, <1>4, <2>2 DEF SendPacket, EndSend, TypeInv, TypeOK
    <2> QED BY <2>1, <2>2
<1>5. ASSUME RecvPacket(x) PROVE PositionInv(e)'
    BY <1>2, <1>5, OthersKeep DEF RecvPacket
<1>6. ASSUME \/ StartRecv(x) \/ SendWouldBlock(x) \/ SendToClosed(x) \/ RecvWouldBlock(x)
             \/ Ready(x) \/ RecvEof(x) \/ RecvReset(x) \/ SyscallError(x) \/ Cancel(x)
             \/ Close(x)
      PROVE  PositionInv(e)'
    <2>1. UNCHANGED <<snd, sent>> /\ (op'[e] = "send" => op[e] = "send")
        BY <1>6 DEF StartRecv, SendWouldBlock, SendToClosed, RecvWouldBlock, Ready, RecvEof,
                    RecvReset, SyscallError, Cancel, Abort, EndSend, EndRecv, Close, sockets,
                    TypeInv, TypeOK
    <2> QED BY <1>2, <2>1
<1> QED BY <1>1, <1>3, <1>4, <1>5, <1>6 DEF Start, Work

\* A state without a history.
LEMMA AnyUseInit == Init => AnyUseInv
<1> SUFFICES ASSUME Init PROVE AnyUseInv
    OBVIOUS
<1>1. TypeInv
    BY TypeInit
<1>2. ASSUME NEW e \in Ends PROVE Travel(e) /\ EndedInv(e) /\ HeldInv(e) /\ PositionInv(e)
    <2>1. /\ got[e] = <<>> /\ queue[e] = <<>> /\ rcv[e] = <<>> /\ Peer(e) \in Ends
          /\ op[e] = "idle" /\ op[Peer(e)] = "idle" /\ recvRes[e] = "ok" /\ sent[Peer(e)] = <<>>
        BY PeerIsEnd DEF Init
    <2>2. Len(<<>>) = 0
        OBVIOUS
    <2> QED BY <2>1, <2>2 DEF Travel, LaterInv, UnfinishedInv, LastSeen, EndedInv,
                              HeldInv, PositionInv
<1> QED BY <1>1, <1>2 DEF AnyUseInv, Travel

\* Whether or not the program goes on with a direction that failed, objects travel
\* in the order they were sent and none has packets behind its last one.
THEOREM AnyUse == Spec => []AnyUseInv
<1>1. AnyUseInv /\ [Next]_vars => AnyUseInv'
    <2> SUFFICES ASSUME AnyUseInv, [Next]_vars PROVE AnyUseInv'
        OBVIOUS
    <2>1. /\ TypeInv /\ TypeInv'
          /\ \A e \in Ends : Travel(e) /\ EndedInv(e) /\ HeldInv(e) /\ PositionInv(e)
        BY TypeStep DEF AnyUseInv, Travel
    <2>2. CASE Next
        <3>1. \A e \in Ends : Travel(e)' /\ EndedInv(e)' /\ HeldInv(e)' /\ PositionInv(e)'
            BY <2>1, <2>2, TravelStep, EndedStep, HeldStep, PositionStep, PeerIsEnd
        <3> QED BY <2>1, <3>1 DEF AnyUseInv, Travel
    <2>3. CASE UNCHANGED vars
        <3>1. UNCHANGED <<open, queue, op, snd, rcv, fds, sent, got, recvRes>>
            BY <2>3 DEF vars
        <3>2. \A e \in Ends : Travel(e)' /\ EndedInv(e)' /\ HeldInv(e)' /\ PositionInv(e)'
            BY <2>1, <3>1, TravelFrame DEF EndedInv, HeldInv, PositionInv
        <3> QED BY <2>1, <3>2 DEF AnyUseInv, Travel
    <2> QED BY <2>2, <2>3
<1> QED BY <1>1, AnyUseInit, PTL DEF Spec

\* What a torn object takes with it stays between two last packets.
THEOREM TearsAreLocal == Spec => []TornLocally
<1>1. AnyUseInv => TornLocally
    BY DEF AnyUseInv, Torn, TornLocally
<1> QED BY <1>1, AnyUse, PTL

\* No other step makes "none" the result of a receive.
LEMMA OnlyEofReportsNone ==
    ASSUME TypeInv, Next, NEW e \in Ends, recvRes'[e] = "none", recvRes'[e] # recvRes[e]
    PROVE  RecvEof(e)
<1>1. PICK x \in Ends : Start(x) \/ Work(x) \/ SyscallError(x) \/ Cancel(x) \/ Close(x)
    BY DEF Next
<1>2. recvRes' # recvRes
    OBVIOUS
<1>3. ASSUME NEW res, res # "none" PROVE ~EndRecv(x, res)
    BY <1>3 DEF TypeInv, TypeOK, EndRecv
<1>4. ~Start(x) /\ ~Close(x)
    BY <1>2 DEF Start, StartSend, StartRecv, Close
<1>5. ~SyscallError(x) /\ ~Cancel(x)
    BY <1>2, <1>3 DEF SyscallError, Cancel, Abort
<1>6. ~(SendPacket(x) \/ SendWouldBlock(x) \/ SendToClosed(x) \/ RecvWouldBlock(x) \/ Ready(x))
    BY <1>2 DEF SendPacket, SendWouldBlock, SendToClosed, RecvWouldBlock, Ready
<1>7. ~RecvReset(x)
    BY <1>3 DEF RecvReset
<1>8. ~RecvPacket(x)
    BY <1>2, <1>3, Receives DEF Hold
<1>9. RecvEof(x)
    BY <1>1, <1>4, <1>5, <1>6, <1>7, <1>8 DEF Work
<1>10. x = e
    BY <1>9 DEF RecvEof, EndRecv, TypeInv, TypeOK
<1> QED BY <1>9, <1>10

\* Ok(None) is only ever reported at a boundary between objects, whatever failed
\* before, or else descriptors of the object begun were cut off.
THEOREM EofAtBoundary == Spec => NoneOnlyAtBoundary
<1> DEFINE AtBoundary == \A e \in Ends : op[e] = "recv" /\ recvRes'[e] = "none" =>
                             rcv[e] = <<>> \/ fds[e].cut
<1>1. AnyUseInv /\ [Next]_vars => [AtBoundary]_vars
    <2> SUFFICES ASSUME AnyUseInv, Next, NEW e \in Ends, op[e] = "recv", recvRes'[e] = "none",
                        rcv[e] # <<>>
                 PROVE  fds[e].cut
        OBVIOUS
    <2>1. RecvEof(e)
        <3>1. recvRes[e] # "none"
            BY DEF AnyUseInv, EndedInv
        <3> QED BY <3>1, OnlyEofReportsNone DEF AnyUseInv
    <2>2. ~Buffered(e)
        BY <2>1 DEF AnyUseInv, TypeInv, TypeOK, RecvEof, EndRecv
    <2>3. 1 \in 1..Len(rcv[e]) /\ rcv[e][1] \in Packet
        BY TravelTypes, EmptySeq DEF AnyUseInv
    <2>4. rcv[e][1].upto # rcv[e][1].from
        BY <2>3 DEF AnyUseInv, LaterInv, Inner
    <2>5. rcv[e][1].upto.data = rcv[e][1].from.data
        BY <2>2, <2>3 DEF Buffered
    <2>6. rcv[e][1].upto.fds # rcv[e][1].from.fds
        BY <2>3, <2>4, <2>5 DEF Packet, Pos
    <2>7. ~(fds[e].held > 0)
        BY <2>2 DEF Buffered
    <2> QED BY <2>3, <2>6, <2>7 DEF AnyUseInv, HeldInv
<1> QED BY <1>1, AnyUse, PTL DEF Spec, NoneOnlyAtBoundary

-----------------------------------------------------------------------------
(* The transport implements the promised channel of objects *)

\* The values ObjectChannel's variables take in a state of the transport.
Received == [e \in Ends |-> [k \in 1..Len(got[e]) |->
                IF Whole(got[e][k], k, sent[Peer(e)][k]) THEN k ELSE 0]]
Ended == [e \in Ends |-> recvRes[e] = "none"]

Ordinals(n) == [k \in 1..n |-> k]

\* The refinement mapping names the objects received by ordinals: the length
\* and elements of that sequence.
LEMMA OrdinalsFacts ==
    ASSUME NEW n \in Nat
    PROVE  /\ Ordinals(n) \in Seq(Nat) /\ Len(Ordinals(n)) = n
           /\ Ordinals(n + 1) = Append(Ordinals(n), n + 1)
<1>1. Ordinals(n) \in Seq(Nat) /\ Len(Ordinals(n)) = n
    BY DEF Ordinals
<1>2. Ordinals(n + 1) \in Seq(Nat) /\ Len(Ordinals(n + 1)) = n + 1
    BY DEF Ordinals
<1>3. Append(Ordinals(n), n + 1) \in Seq(Nat) /\ Len(Append(Ordinals(n), n + 1)) = n + 1
    BY <1>1
<1>4. ASSUME NEW i \in 1..(n + 1) PROVE Ordinals(n + 1)[i] = Append(Ordinals(n), n + 1)[i]
    BY <1>1 DEF Ordinals
<1> QED BY <1>1, <1>2, <1>3, <1>4, SeqEqual

\* What has been received is 1, 2, 3, ... as long as it is intact.
LEMMA ReceivedInOrder ==
    /\ IInv  => Received  = [e \in Ends |-> Ordinals(Len(got[e]))]
    /\ IInv' => Received' = [e \in Ends |-> Ordinals(Len(got'[e]))]
    BY DEF IInv, ObjectsInv, Received, Ordinals

\* Every step of the transport is a step of the promised channel or leaves it
\* unchanged.
LEMMA StepImplements == ~Reuse /\ IInv /\ [Next]_vars => [Promise!Next]_(Promise!vars)
<1> SUFFICES ASSUME ~Reuse, IInv, [Next]_vars PROVE [Promise!Next]_(Promise!vars)
    OBVIOUS
<1>1. IInv'
    BY InvStep
<1>2. /\ Received  = [e \in Ends |-> Ordinals(Len(got[e]))]
      /\ Received' = [e \in Ends |-> Ordinals(Len(got'[e]))]
    BY <1>1, ReceivedInOrder
<1>3. \A e \in Ends : Len(got[e]) \in Nat /\ Received[e] = Ordinals(Len(got[e]))
    BY <1>2 DEF IInv, TypeInv, TypeOK
<1>4. ASSUME UNCHANGED <<open, done, got>>, Ended' = Ended PROVE UNCHANGED Promise!vars
    <2>1. Received' = Received
        BY <1>2, <1>4
    <2> QED BY <1>4, <2>1 DEF Promise!vars, Received, Ended
\* A receive that fails after Ok(None) is a Fail, and a stutter otherwise.
<1>5. ASSUME NEW x \in Ends, UNCHANGED <<open, done, got>>, open[x],
             NEW res \in {"unterminated", "panic", "reset", "error", "cancelled"}, recvRes' = [recvRes EXCEPT ![x] = res]
      PROVE  [Promise!Next]_(Promise!vars)
    <2>1. Ended' = [Ended EXCEPT ![x] = FALSE]
        BY <1>5 DEF Ended, IInv, TypeInv, TypeOK
    <2>2. CASE Ended[x]
        <3>1. Promise!Fail(x)
            <4>1. Received' = Received
                BY <1>2, <1>5
            <4> QED BY <1>5, <2>1, <2>2, <4>1 DEF Promise!Fail, Received, Ended
        <3> QED BY <3>1 DEF Promise!Next
    <2>3. CASE ~Ended[x]
        <3>1. Ended' = Ended
            BY <2>1, <2>3 DEF Ended
        <3> QED BY <1>4, <1>5, <3>1
    <2> QED BY <2>2, <2>3
<1>6. ASSUME NEW x \in Ends, UNCHANGED <<open, done, got, recvRes>>
      PROVE  [Promise!Next]_(Promise!vars)
    BY <1>4, <1>6 DEF Ended
<1>7. ASSUME NEW x \in Ends, SendPacket(x) PROVE [Promise!Next]_(Promise!vars)
    <2>1. UNCHANGED <<open, got, recvRes>> /\ open[x] /\ open[Peer(x)]
        BY <1>7 DEF SendPacket, IInv, OpInv, Calling
    <2>2. UNCHANGED done \/ done' = [done EXCEPT ![x] = @ + 1]
        BY <1>7 DEF SendPacket
    <2>3. CASE UNCHANGED done
        BY <1>6, <2>1, <2>3
    <2>4. CASE done' = [done EXCEPT ![x] = @ + 1]
        <3>1. Received' = Received /\ Ended' = Ended
            BY <1>2, <2>1 DEF Ended
        <3>2. Promise!Put(x)
            BY <2>1, <2>4, <3>1 DEF Promise!Put, Received, Ended
        <3> QED BY <3>2 DEF Promise!Next
    <2> QED BY <2>2, <2>3, <2>4
<1>8. ASSUME NEW x \in Ends, RecvPacket(x) PROVE [Promise!Next]_(Promise!vars)
    <2>1. /\ UNCHANGED <<open, done>> /\ open[x] /\ recvRes[x] = "ok"
          /\ Live(x) /\ queue[x] # <<>>
        BY <1>8 DEF RecvPacket, IInv, OpInv, EofInv, Calling, Live
    <2>0. Head(queue[x]) = Taken(Head(queue[x]))
        BY <2>1, HeadContinues DEF PacketOK
    <2>2. ASSUME NEW k, Hold(x, Head(queue[x]), k) PROVE [Promise!Next]_(Promise!vars)
        BY <1>6, <2>1, <2>2 DEF Hold
    <2>3. ASSUME Head(queue[x]).last, EndRecv(x, "ok"),
                 got' = [got EXCEPT ![x] = Append(@, Append(rcv[x], Head(queue[x])))]
          PROVE  [Promise!Next]_(Promise!vars)
        <3>1. /\ \E o : got' = [got EXCEPT ![x] = Append(@, o)]
              /\ EndRecv(x, "ok")
            BY <2>3
        <3>2. Ended' = Ended
            BY <2>1, <3>1 DEF EndRecv, Ended, IInv, TypeInv, TypeOK
        <3>3. Len(got[x]) < done[Peer(x)]
            <4>1. Head(queue[x]).msg = Len(got[x]) + 1 /\ Head(queue[x]).msg <= done[Peer(x)]
                BY <2>1, <2>3, HeadContinues DEF Begins, ReceiverPlace, PacketOK
            <4> QED BY <1>3, <4>1, PeerIsEnd DEF IInv, TypeInv, TypeOK
        <3>4. /\ Len(got'[x]) = Len(got[x]) + 1
              /\ \A e \in Ends : e # x => got'[e] = got[e]
            <4>1. PICK o : got' = [got EXCEPT ![x] = Append(@, o)]
                BY <3>1
            <4> QED BY <4>1 DEF IInv, TypeInv, TypeOK
        <3>5. Received' = [Received EXCEPT ![x] = Append(@, Len(@) + 1)]
            <4>1. Received = [e \in Ends |-> Ordinals(Len(got[e]))]
                  /\ Received' = [e \in Ends |-> Ordinals(Len(got'[e]))]
                BY <1>2, <1>3
            <4>2. Ordinals(Len(got'[x])) = Append(Ordinals(Len(got[x])), Len(got[x]) + 1)
                  /\ Len(Ordinals(Len(got[x]))) = Len(got[x])
                BY <1>3, <3>4, OrdinalsFacts
            <4> QED BY <3>4, <4>1, <4>2
        <3>6. Len(Received[x]) = Len(got[x])
            BY <1>3, OrdinalsFacts
        <3>7. Promise!Deliver(x)
            BY <2>1, <3>2, <3>3, <3>5, <3>6 DEF Promise!Deliver, Received, Ended
        <3> QED BY <3>7 DEF Promise!Next
    <2>4. ASSUME EndRecv(x, "panic"), UNCHANGED got PROVE [Promise!Next]_(Promise!vars)
        BY <1>5, <2>1, <2>4 DEF EndRecv
    <2> QED BY <1>8, <2>0, <2>2, <2>3, <2>4, Receives
<1>9. ASSUME NEW x \in Ends, RecvEof(x) PROVE [Promise!Next]_(Promise!vars)
    <2>1. /\ UNCHANGED <<open, done, got>> /\ open[x] /\ ~open[Peer(x)]
          /\ queue[x] = <<>>
        BY <1>9 DEF RecvEof, IInv, OpInv, Calling, sockets
    <2>2. done[Peer(x)] = Len(got[x])
        <3>1. CASE Live(x)
            BY <2>1, <3>1, EofFacts
        <3>2. CASE ~Live(x)
            BY <1>9, <2>1, <3>2 DEF RecvEof, Calling, IInv, OpInv, EofInv, Live
        <3> QED BY <3>1, <3>2
    <2>3. CASE Buffered(x)
        BY <1>5, <1>9, <2>1, <2>3 DEF RecvEof, EndRecv
    <2>4. CASE ~Buffered(x)
        <3>1. EndRecv(x, "none")
            BY <1>9, <2>4 DEF RecvEof
        <3>2. Ended' = [Ended EXCEPT ![x] = TRUE] /\ Received' = Received
            BY <1>2, <2>1, <3>1 DEF EndRecv, Ended, IInv, TypeInv, TypeOK
        <3>3. Len(Received[x]) = done[Peer(x)]
            BY <1>3, <2>2, OrdinalsFacts
        <3>4. Promise!End(x)
            BY <2>1, <3>2, <3>3 DEF Promise!End, Received, Ended
        <3> QED BY <3>4 DEF Promise!Next
    <2> QED BY <2>3, <2>4
<1>10. ASSUME NEW x \in Ends, Close(x) PROVE [Promise!Next]_(Promise!vars)
    <2>1. Received' = Received /\ Ended' = Ended
        BY <1>2, <1>10 DEF Close, Ended
    <2>2. Promise!Close(x)
        BY <1>10, <2>1 DEF Close, Promise!Close, Received, Ended
    <2> QED BY <2>2 DEF Promise!Next
<1>11. ASSUME NEW x \in Ends, NEW res \in {"error", "cancelled"}, Abort(x, res)
       PROVE  [Promise!Next]_(Promise!vars)
    <2>1. UNCHANGED <<open, done, got>>
        BY <1>11 DEF Abort, sockets, receiver
    <2>2. CASE UNCHANGED recvRes
        BY <1>6, <2>1, <2>2
    <2>3. CASE op[x] = "recv" /\ EndRecv(x, res)
        BY <1>5, <2>1, <2>3 DEF EndRecv, IInv, OpInv
    <2> QED BY <1>11, <2>2, <2>3 DEF Abort
<1>12. ASSUME NEW x \in Ends, RecvReset(x) PROVE [Promise!Next]_(Promise!vars)
    BY <1>5, <1>12 DEF RecvReset, EndRecv, Calling, IInv, OpInv
<1>13. ASSUME NEW x \in Ends,
              \/ Start(x) \/ SendToClosed(x)
              \/ SendWouldBlock(x) \/ RecvWouldBlock(x) \/ Ready(x)
       PROVE  [Promise!Next]_(Promise!vars)
    BY <1>6, <1>13 DEF Start, StartSend, StartRecv, SendToClosed, SendWouldBlock,
                       RecvWouldBlock, Ready, sockets, receiver
<1>14. CASE UNCHANGED vars
    BY <1>4, <1>14 DEF vars, Ended
<1> QED
    BY <1>7, <1>8, <1>9, <1>10, <1>11, <1>12, <1>13, <1>14
    DEF Next, Work, SyscallError, Cancel

\* The transport is the channel of objects that the API promises.
THEOREM Implements == ~Reuse => (Spec => ImplementsObjectChannel)
<1> SUFFICES ASSUME ~Reuse PROVE Spec => ImplementsObjectChannel
    OBVIOUS
<1>1. Init => Promise!Init
    <2> SUFFICES ASSUME Init PROVE Promise!Init
        OBVIOUS
    <2>1. Received = [e \in Ends |-> <<>>]
        BY DEF Init, Received
    <2>2. Ended = [e \in Ends |-> FALSE]
        BY DEF Init, Ended
    <2> QED BY <2>1, <2>2 DEF Init, Promise!Init, Received, Ended
<1>2. IInv /\ [Next]_vars => [Promise!Next]_(Promise!vars)
    BY StepImplements
<1> QED BY <1>1, <1>2, Invariance, PTL DEF Spec, ImplementsObjectChannel, Promise!Spec
=============================================================================
