------------------------- MODULE WinTransportProofs -------------------------
(***************************************************************************)
(* However many processes connect to the path, and how often, the pair     *)
(* that socketpair() returns is connected to itself; and whatever pieces   *)
(* the bytes of messages of any sizes are written and read in, what comes  *)
(* of them is the promised channel of objects.                             *)
(***************************************************************************)
EXTENDS WinTransport, SequenceTheorems, FiniteSetTheorems, TLAPS

-----------------------------------------------------------------------------
(* socketpair *)

\* What appending and taking off do to a queue.
LEMMA QueueFacts ==
    ASSUME NEW S, NEW q \in Seq(S), NEW e \in S
    PROVE  /\ Append(q, e) \in Seq(S) /\ Len(q) \in Nat /\ Len(Append(q, e)) = Len(q) + 1
           /\ Append(q, e) # <<>>
           /\ q # <<>> => /\ Head(q) \in S /\ Tail(q) \in Seq(S)
                          /\ Len(Tail(q)) = Len(q) - 1
BY HeadTailProperties

\* An empty backlog is one.
LEMMA NoQueue == <<>> \in Seq(Rivals \cup {Us}) /\ Len(<<>>) = 0 /\ 0 <= Backlog
BY PairAssumption

\* A backlog of one holds no other connection than ours.
LEMMA ConnectStep ==
    ASSUME IInv, Connect
    PROVE  IInv'
<1>1. /\ at = "listening" /\ Len(backlog) < Backlog
      /\ at' = "connected" /\ backlog' = Append(backlog, Us)
      /\ UNCHANGED <<peer, connects>>
  BY DEF Connect
<1>2. /\ backlog' \in Seq(Rivals \cup {Us}) /\ Len(backlog) \in Nat
      /\ Len(backlog') = Len(backlog) + 1 /\ backlog' # <<>>
  BY <1>1, QueueFacts DEF IInv, TypeOK
<1>3. TypeOK'
  BY <1>1, <1>2, PairAssumption DEF IInv, TypeOK, Places
<1>4. ~PeerPid => backlog' = <<Us>>
  <2> SUFFICES ASSUME ~PeerPid
               PROVE  backlog' = <<Us>>
    OBVIOUS
  <2>1. backlog = <<>>
    BY <1>1, <1>2, PairAssumption, EmptySeq DEF IInv, TypeOK
  <2> QED
    BY <1>1, <2>1
<1> QED
  BY <1>1, <1>2, <1>3, <1>4 DEF IInv, PairIsOurs

\* The oldest connection is accepted.
LEMMA AcceptStep ==
    ASSUME IInv, Accept
    PROVE  IInv'
<1>1. /\ at = "connected" /\ at' = "accepted"
      /\ peer' = Head(backlog) /\ backlog' = Tail(backlog) /\ UNCHANGED connects
  BY DEF Accept
<1>2. backlog # <<>> /\ (~PeerPid => backlog = <<Us>>)
  BY <1>1 DEF IInv
<1>3. /\ Head(backlog) \in Rivals \cup {Us} /\ Tail(backlog) \in Seq(Rivals \cup {Us})
      /\ Len(Tail(backlog)) = Len(backlog) - 1 /\ Len(backlog) \in Nat
  BY <1>2, QueueFacts DEF IInv, TypeOK
<1>4. TypeOK'
  BY <1>1, <1>3, PairAssumption DEF IInv, TypeOK, Places
<1> QED
  BY <1>1, <1>2, <1>4 DEF IInv, PairIsOurs

\* Another process connects: on Wine it then is the one the backlog holds.
LEMMA RivalStep ==
    ASSUME IInv, NEW r \in Rivals, RivalConnects(r)
    PROVE  IInv'
<1>1. /\ at \in {"listening", "connected", "accepted"}
      /\ Len(backlog) < Backlog /\ connects[r] < MaxConnects
      /\ backlog' = Append(backlog, r) /\ connects' = [connects EXCEPT ![r] = @ + 1]
      /\ UNCHANGED <<at, peer>>
  BY DEF RivalConnects
<1>2. /\ backlog' \in Seq(Rivals \cup {Us}) /\ Len(backlog) \in Nat
      /\ Len(backlog') = Len(backlog) + 1 /\ backlog' # <<>>
  BY <1>1, QueueFacts DEF IInv, TypeOK
<1>3. TypeOK'
  BY <1>1, <1>2, PairAssumption DEF IInv, TypeOK
<1>4. ~(~PeerPid /\ at = "connected")
  <2> SUFFICES ASSUME ~PeerPid, at = "connected"
               PROVE  FALSE
    OBVIOUS
  <2>1. backlog = <<Us>> /\ Backlog = 1
    BY PairAssumption DEF IInv
  <2> QED
    BY <1>1, <2>1
<1> QED
  BY <1>1, <1>2, <1>3, <1>4 DEF IInv, PairIsOurs

\* The invariant holds whatever the rivals do.
THEOREM Invariance == Spec => []IInv
<1>1. Init => IInv
  <2> SUFFICES ASSUME Init
               PROVE  IInv
    OBVIOUS
  <2>1. TypeOK
    <3>1. connects \in [Rivals -> 0..MaxConnects]
      BY PairAssumption DEF Init
    <3>2. backlog \in Seq(Rivals \cup {Us}) /\ Len(backlog) <= Backlog
      BY NoQueue DEF Init
    <3> QED
      BY <3>1, <3>2 DEF Init, TypeOK, Places
  <2> QED
    BY <2>1 DEF Init, IInv, PairIsOurs
<1>2. IInv /\ [Next]_vars => IInv'
  <2> SUFFICES ASSUME IInv, [Next]_vars
               PROVE  IInv'
    OBVIOUS
  <2>1. CASE Bind
    BY <2>1, PairAssumption, NoQueue DEF Bind, IInv, TypeOK, Places, PairIsOurs
  <2>2. CASE Listen
    BY <2>2 DEF Listen, IInv, TypeOK, Places, PairIsOurs
  <2>3. CASE ConnectRefused
    BY <2>3, PairAssumption, NoQueue DEF ConnectRefused, Leave, IInv, TypeOK, Places, PairIsOurs
  <2>4. CASE CheckPid
    BY <2>4, PairAssumption, NoQueue DEF CheckPid, Leave, IInv, TypeOK, Places, PairIsOurs
  <2>5. CASE Fails
    BY <2>5, PairAssumption, NoQueue DEF Fails, Leave, IInv, TypeOK, Places, PairIsOurs
  <2>6. CASE UNCHANGED vars
    BY <2>6 DEF vars, IInv, TypeOK, PairIsOurs
  <2> QED
    BY <2>1, <2>2, <2>3, <2>4, <2>5, <2>6, ConnectStep, AcceptStep, RivalStep DEF Next, Attempt
<1> QED
  BY <1>1, <1>2, PTL DEF Spec

\* The two sockets that are returned are connected to each other.
THEOREM Ours == Spec => []PairIsOurs
<1>1. IInv => PairIsOurs
  BY DEF IInv
<1> QED
  BY <1>1, Invariance, PTL

-----------------------------------------------------------------------------
(* Sequences of bytes *)

\* Induction on natural numbers, for a set instead of a predicate: otherwise adding
\* one would map the part of S up to a number outside S into itself, one to one and
\* not onto.
LEMMA Induction ==
    ASSUME NEW S, 0 \in S, \A n \in Nat : n \in S => n + 1 \in S
    PROVE  Nat \subseteq S
<1> SUFFICES ASSUME NEW n \in Nat, n \notin S
             PROVE  FALSE
  OBVIOUS
<1> DEFINE A == {x \in 0..n : x \in S}
           f == [x \in A |-> x + 1]
<1>1. IsFiniteSet(A)
  <2>1. IsFiniteSet(0..n)
    BY FS_Interval
  <2>2. A \in SUBSET (0..n)
    OBVIOUS
  <2> HIDE DEF A
  <2> QED
    BY <2>1, <2>2, FS_Subset
<1>2. f \in Injection(A, A)
  <2>1. f \in [A -> A]
    OBVIOUS
  <2>2. \A a, b \in A : f[a] = f[b] => a = b
    OBVIOUS
  <2> QED
    BY <2>1, <2>2 DEF Injection, IsInjective
<1>3. f \in Surjection(A, A)
  <2> HIDE DEF A, f
  <2> QED
    BY <1>1, <1>2, FS_Injection
<1>4. 0 \in A
  OBVIOUS
<1>5. PICK x \in A : f[x] = 0
  BY <1>3, <1>4 DEF Surjection
<1> QED
  BY <1>5

\* The first n elements of a sequence, and the others.
LEMMA Split ==
    ASSUME NEW S, NEW q \in Seq(S), NEW n \in 1..Len(q)
    PROVE  /\ SubSeq(q, 1, n) \in Seq(S) /\ Len(SubSeq(q, 1, n)) = n
           /\ \A i \in 1..n : SubSeq(q, 1, n)[i] = q[i]
           /\ SubSeq(q, n + 1, Len(q)) \in Seq(S)
           /\ Len(SubSeq(q, n + 1, Len(q))) = Len(q) - n
           /\ \A i \in 1..(Len(q) - n) : SubSeq(q, n + 1, Len(q))[i] = q[n + i]
<1>1. Len(q) \in Nat /\ n \in Nat /\ n <= Len(q)
  OBVIOUS
<1>2. \A i \in 1..n : q[i] \in S
  OBVIOUS
<1>3. \A i \in (n + 1)..Len(q) : q[i] \in S
  OBVIOUS
<1>4. /\ SubSeq(q, 1, n) \in Seq(S) /\ Len(SubSeq(q, 1, n)) = n
      /\ \A i \in 1..n : SubSeq(q, 1, n)[i] = q[i]
  BY <1>1, SubSeqProperties
<1>5. /\ SubSeq(q, n + 1, Len(q)) \in Seq(S)
      /\ Len(SubSeq(q, n + 1, Len(q))) = Len(q) - n
      /\ \A i \in 1..(Len(q) - n) : SubSeq(q, n + 1, Len(q))[i] = q[n + i]
  BY <1>1, SubSeqProperties
<1> QED
  BY <1>4, <1>5

\* One sequence behind another.
LEMMA Join ==
    ASSUME NEW S, NEW p \in Seq(S), NEW q \in Seq(S)
    PROVE  /\ p \o q \in Seq(S) /\ Len(p \o q) = Len(p) + Len(q)
           /\ \A i \in 1..Len(p) : (p \o q)[i] = p[i]
           /\ \A i \in 1..Len(q) : (p \o q)[Len(p) + i] = q[i]
BY ConcatProperties

\* The bytes of a message.
LEMMA MessageBytes ==
    ASSUME NEW k \in 1..Len(Size)
    PROVE  /\ Size[k] \in Nat /\ Total(k) \in Nat \ {0} /\ Usize \in Nat \ {0}
           /\ Length(k) \in Seq(Byte) /\ Len(Length(k)) = Usize
           /\ \A i \in 1..Usize : Length(k)[i] = <<k, i>>
           /\ Body(k) \in Seq(Byte) /\ Len(Body(k)) = Size[k]
           /\ \A i \in 1..Size[k] : Body(k)[i] = <<k, Usize + i>>
           /\ Length(k) \o Body(k) \in Seq(Byte)
           /\ Len(Length(k) \o Body(k)) = Total(k)
           /\ \A i \in 1..Total(k) : (Length(k) \o Body(k))[i] = <<k, i>>
<1>1. Size[k] \in Nat /\ Usize \in Nat \ {0} /\ Total(k) \in Nat \ {0}
  BY ChannelAssumption DEF Total
<1>2. Length(k) \in Seq(Byte) /\ Len(Length(k)) = Usize /\ \A i \in 1..Usize : Length(k)[i] = <<k, i>>
  BY <1>1 DEF Length, Byte
<1>3. /\ Body(k) \in Seq(Byte) /\ Len(Body(k)) = Size[k]
      /\ \A i \in 1..Size[k] : Body(k)[i] = <<k, Usize + i>>
  <2>1. \A i \in 1..Size[k] : <<k, Usize + i>> \in Byte
    BY <1>1 DEF Byte
  <2> DEFINE b(i) == <<k, Usize + i>>
  <2>2. Body(k) = [i \in 1..Size[k] |-> b(i)]
    BY DEF Body
  <2> HIDE DEF b
  <2>3. Body(k) \in [1..Size[k] -> Byte]
    BY <2>1, <2>2 DEF b
  <2>4. Body(k) \in Seq(Byte) /\ Len(Body(k)) = Size[k]
    BY <1>1, <2>3
  <2> QED
    BY <2>2, <2>4 DEF b
<1>4. /\ Length(k) \o Body(k) \in Seq(Byte) /\ Len(Length(k) \o Body(k)) = Usize + Size[k]
      /\ \A i \in 1..Usize : (Length(k) \o Body(k))[i] = Length(k)[i]
      /\ \A i \in 1..Size[k] : (Length(k) \o Body(k))[Usize + i] = Body(k)[i]
  <2>1. /\ Length(k) \o Body(k) \in Seq(Byte)
        /\ Len(Length(k) \o Body(k)) = Len(Length(k)) + Len(Body(k))
        /\ \A i \in 1..Len(Length(k)) : (Length(k) \o Body(k))[i] = Length(k)[i]
        /\ \A i \in 1..Len(Body(k)) : (Length(k) \o Body(k))[Len(Length(k)) + i] = Body(k)[i]
    <3>1. Length(k) \in Seq(Byte) /\ Body(k) \in Seq(Byte)
      BY <1>2, <1>3
    <3> HIDE DEF Length, Body
    <3> QED
      BY <3>1, Join
  <2> QED
    BY <1>2, <1>3, <2>1
<1>5. Total(k) = Usize + Size[k]
  BY DEF Total
<1>6. ASSUME NEW i \in 1..Total(k)
      PROVE  (Length(k) \o Body(k))[i] = <<k, i>>
  <2>1. CASE i <= Usize
    BY <1>1, <1>2, <1>4, <2>1
  <2>2. CASE i > Usize
    <3>1. i - Usize \in 1..Size[k] /\ Usize + (i - Usize) = i
      BY <1>1, <1>5, <2>2
    <3> QED
      BY <1>3, <1>4, <3>1
  <2>3. i <= Usize \/ i > Usize
    BY <1>1, <1>5
  <2> QED
    BY <2>1, <2>2, <2>3
<1> QED
  BY <1>1, <1>2, <1>3, <1>4, <1>5, <1>6

-----------------------------------------------------------------------------
(* Types of the channel, whatever the program does after a failure *)

\* Every step of the channel keeps the types.
LEMMA ChannelTypeStep == ChannelTypeOK /\ [ChannelNext]_channel => ChannelTypeOK'
<1> SUFFICES ASSUME ChannelTypeOK, [ChannelNext]_channel PROVE ChannelTypeOK'
  OBVIOUS
<1> USE DEF ChannelTypeOK
<1>1. Len(Size) \in Nat /\ \A k \in 1..Len(Size) : Size[k] \in Nat
  BY ChannelAssumption
<1>2. CASE StartSend
  <2>1. sent + 1 \in 1..Len(Size)
    BY <1>1, <1>2 DEF StartSend
  <2>2. out' \in Seq(Byte)
    BY <1>2, <2>1, MessageBytes DEF StartSend
  <2>3. got' \in Seq(0..sent') /\ sent' = sent + 1
    BY <1>2, <2>1 DEF StartSend, rx
  <2> QED
    BY <1>2, <2>1, <2>2, <2>3 DEF StartSend, rx
<1>3. CASE Write
  <2>1. PICK n \in 1..Len(out) :
          /\ Len(stream) + n <= Room
          /\ stream' = stream \o SubSeq(out, 1, n)
          /\ out' = SubSeq(out, n + 1, Len(out))
          /\ put' = IF n = Len(out) THEN put + 1 ELSE put
    BY <1>3 DEF Write
  <2>2. /\ SubSeq(out, 1, n) \in Seq(Byte) /\ Len(SubSeq(out, 1, n)) = n
        /\ out' \in Seq(Byte) /\ Len(out') = Len(out) - n
    <3>1. out \in Seq(Byte)
      OBVIOUS
    <3> HIDE DEF ChannelTypeOK
    <3> QED
      BY <2>1, <3>1, Split
  <2>3. stream' \in Seq(Byte) /\ Len(stream') = Len(stream) + n
    BY <2>1, <2>2, Join
  <2>4. put < sent
    <3>1. out # <<>>
      BY <2>1
    <3> QED
      BY <3>1
  <2>5. put' = sent' => out' = <<>>
    BY <1>3, <2>1, <2>2, <2>4, EmptySeq DEF Write
  <2>6. put' \in 0..sent' /\ Len(stream') <= Room /\ UNCHANGED <<open, sent, sendOk, rx>>
    BY <1>3, <2>1, <2>3, <2>4, ChannelAssumption DEF Write
  <2> QED
    BY <2>2, <2>3, <2>5, <2>6 DEF rx
<1>4. CASE SendFails
  <2>1. out' = <<>> /\ out' \in Seq(Byte) /\ UNCHANGED <<open, stream, sent, put, rx>>
    BY <1>4 DEF SendFails
  <2>2. sendOk' \in BOOLEAN
    BY <1>4 DEF SendFails
  <2> QED
    BY <2>1, <2>2 DEF rx
<1>5. CASE StartRecv
  BY <1>5, ChannelAssumption DEF StartRecv, tx
<1>6. CASE ReadBytes
  <2>1. PICK n \in 1..Len(stream) :
          /\ Len(buffer) + n <= need
          /\ buffer' = buffer \o SubSeq(stream, 1, n)
          /\ stream' = SubSeq(stream, n + 1, Len(stream))
    BY <1>6 DEF ReadBytes
  <2>2. /\ SubSeq(stream, 1, n) \in Seq(Byte) /\ Len(SubSeq(stream, 1, n)) = n
        /\ stream' \in Seq(Byte) /\ Len(stream') = Len(stream) - n
    BY <2>1, Split
  <2>3. buffer' \in Seq(Byte) /\ Len(buffer') = Len(buffer) + n
    BY <2>1, <2>2, Join
  <2>4. /\ Len(stream') <= Room /\ Len(buffer') <= need'
        /\ UNCHANGED <<open, tx, reading, need, whose, got, recvRes>>
    BY <1>6, <2>1, <2>2, <2>3, ChannelAssumption DEF ReadBytes
  <2> QED
    BY <2>2, <2>3, <2>4 DEF tx
<1>7. CASE LengthRead
  <2>1. PICK k \in 0..sent, n \in Nat : TakeLength(k, n)
    BY <1>1, <1>7, ChannelAssumption DEF LengthRead
  <2> QED
    BY <1>7, <2>1 DEF TakeLength, tx
<1>8. CASE BodyRead
  <2>1. got' \in Seq(0..sent)
    BY <1>8 DEF BodyRead
  <2> QED
    BY <1>8, <2>1 DEF BodyRead, tx
<1>9. CASE RecvNone \/ RecvCut \/ RecvFails
  BY <1>9 DEF RecvNone, RecvCut, RecvFails, RecvReturns, tx
<1>10. CASE \E e \in Ends : Close(e)
  BY <1>10 DEF Close, tx, rx, Ends
<1>11. CASE UNCHANGED channel
  BY <1>11 DEF channel
<1> QED
  BY <1>2, <1>3, <1>4, <1>5, <1>6, <1>7, <1>8, <1>9, <1>10, <1>11 DEF ChannelNext, RecvWork

-----------------------------------------------------------------------------
(* The inductive invariant of the channel, one action at a time *)

\* What a place of the stream is.
LEMMA PlaceFacts ==
    /\ \A k \in 1..Len(Size) : Total(k) \in Nat \ {0}
    /\ \A k \in Nat \ {0} : Place(k, 1) = <<k, 1>>
    /\ \A k, i \in Nat \ {0} : k <= Len(Size) /\ i <= Total(k) => Place(k, i) = <<k, i>>
    /\ \A k \in 1..Len(Size) : Place(k, Total(k) + 1) = <<k + 1, 1>>
<1>1. Len(Size) \in Nat /\ \A k \in 1..Len(Size) : Total(k) \in Nat \ {0}
  BY ChannelAssumption, MessageBytes
<1>2. ASSUME NEW k \in Nat \ {0} PROVE Place(k, 1) = <<k, 1>>
  <2>1. ~(k <= Len(Size) /\ 1 > Total(k))
    BY <1>1
  <2> QED
    BY <2>1 DEF Place
<1>3. ASSUME NEW k \in 1..Len(Size) PROVE Place(k, Total(k) + 1) = <<k + 1, 1>>
  <2>1. k <= Len(Size) /\ Total(k) + 1 > Total(k)
    BY <1>1
  <2> QED
    BY <2>1 DEF Place
<1>4. ASSUME NEW k \in Nat \ {0}, NEW i \in Nat \ {0}, k <= Len(Size), i <= Total(k)
      PROVE  Place(k, i) = <<k, i>>
  <2>1. ~(i > Total(k))
    BY <1>1, <1>4
  <2> QED
    BY <2>1 DEF Place
<1> QED
  BY <1>1, <1>2, <1>3, <1>4

\* The reader, and with it every place, stays where it is unless bytes are read.
LEMMA SamePlaces ==
    ASSUME UNCHANGED <<stream, got>>, Taken' = Taken
    PROVE  EndPlace' = EndPlace /\ ReaderPlace' = ReaderPlace
BY DEF EndPlace, ReaderPlace

\* The place after a byte of the stream.
LEMMA NextPlace ==
    ASSUME NEW q, NEW p, NEW i \in Nat \ {0}
    PROVE  PlaceAt(q, p, i + 1) = After(q[i])
<1>1. i + 1 # 1 /\ (i + 1) - 1 = i
  OBVIOUS
<1> QED
  BY <1>1 DEF PlaceAt

\* The first byte of the next message is what comes next.
LEMMA StartSendStep ==
    ASSUME ~Reuse, ChannelIInv, ChannelTypeOK', StartSend
    PROVE  ChannelIInv'
<1>1. /\ open["tx"] /\ out = <<>> /\ sent < Len(Size) /\ sendOk
      /\ sent' = sent + 1 /\ out' = Length(sent + 1) \o Body(sent + 1)
      /\ UNCHANGED <<open, stream, put, sendOk, reading, buffer, need, whose, got, recvRes>>
  BY DEF StartSend, rx
<1>2. sent + 1 \in 1..Len(Size) /\ sent \in Nat /\ put = sent
  BY <1>1, ChannelAssumption DEF ChannelIInv, ChannelTypeOK, SenderInv
<1>3. /\ Len(out') = Total(sent') /\ Total(sent') \in Nat \ {0}
      /\ \A i \in 1..Len(out') : out'[i] = <<sent', i>>
  BY <1>1, <1>2, MessageBytes
<1>4. SenderInv'
  <2>1. out' # <<>>
    BY <1>3
  <2>2. \A i \in 1..Len(out') : Total(sent') - Len(out') + i = i
    BY <1>3
  <2> QED
    BY <1>1, <1>2, <1>3, <2>1, <2>2 DEF SenderInv
<1>5. recvRes # "none"
  BY <1>1 DEF ChannelIInv, NoneInv
<1>6. ASSUME Receiving PROVE StreamInv' /\ ReaderInv'
  <2>1. StreamInv /\ ReaderInv
    BY <1>6 DEF ChannelIInv
  <2>2. EndPlace' = EndPlace /\ ReaderPlace' = ReaderPlace /\ Header' = Header
    BY <1>1, SamePlaces DEF Taken, Header
  <2>3. EndPlace' = out'[1] /\ out' # <<>>
    <3>1. EndPlace = <<sent + 1, 1>>
      BY <1>1, <2>1 DEF StreamInv
    <3>2. out' # <<>> /\ 1 \in 1..Len(out')
      BY <1>3
    <3>3. out'[1] = <<sent', 1>>
      BY <1>3, <3>2
    <3> QED
      BY <1>1, <2>2, <3>1, <3>2, <3>3
  <2>4. StreamInv'
    <3>1. ASSUME NEW i \in 1..Len(stream) PROVE /\ stream[i] = PlaceAt(stream, ReaderPlace', i)
                                                      /\ stream[i][1] <= sent + 1
      <4>1. stream[i] = PlaceAt(stream, ReaderPlace', i) /\ stream[i][1] <= sent /\ stream[i] \in Byte
        <5>1. stream[i] = PlaceAt(stream, ReaderPlace, i) /\ stream[i][1] <= sent
          BY <2>1 DEF StreamInv
        <5>2. stream[i] \in Byte
          <6>1. stream \in Seq(Byte)
            BY DEF ChannelIInv, ChannelTypeOK
          <6> HIDE DEF Byte
          <6> QED
            BY <6>1, ElementOfSeq, Zenon
        <5> QED
          BY <2>2, <5>1, <5>2
      <4>2. stream[i][1] \in Nat
        BY <4>1 DEF Byte
      <4> QED
        BY <1>2, <4>1, <4>2
    <3> QED
      BY <1>1, <2>3, <3>1 DEF StreamInv
  <2>5. ReaderInv'
    BY <1>1, <1>2, <2>1, <2>2 DEF ReaderInv, ChannelIInv, ChannelTypeOK
  <2> QED
    BY <2>4, <2>5
<1> QED
  BY <1>1, <1>4, <1>5, <1>6 DEF ChannelIInv, Receiving

\* Bytes written continue what is in the stream.
LEMMA WriteStep ==
    ASSUME ~Reuse, ChannelIInv, ChannelTypeOK', Write
    PROVE  ChannelIInv'
<1>1. PICK n \in 1..Len(out) :
          /\ Len(stream) + n <= Room
          /\ stream' = stream \o SubSeq(out, 1, n)
          /\ out' = SubSeq(out, n + 1, Len(out))
          /\ put' = IF n = Len(out) THEN put + 1 ELSE put
  BY DEF Write
<1>2. /\ open["tx"] /\ open["rx"]
      /\ UNCHANGED <<open, sent, sendOk, reading, buffer, need, whose, got, recvRes>>
  BY DEF Write, rx
<1> DEFINE T == Total(sent)
<1>3. /\ sendOk /\ Len(out) \in Nat /\ Len(out) <= T /\ T \in Nat \ {0} /\ put = sent - 1
      /\ sent \in 1..Len(Size) /\ Len(Size) \in Nat
      /\ \A i \in 1..Len(out) : out[i] = <<sent, T - Len(out) + i>>
  <2>1. out # <<>> /\ out \in Seq(Byte)
    BY <1>1 DEF ChannelIInv, ChannelTypeOK
  <2>2. sent \in 1..Len(Size) /\ Len(Size) \in Nat
    BY <2>1, ChannelAssumption DEF ChannelIInv, ChannelTypeOK, SenderInv
  <2> QED
    BY <2>1, <2>2, PlaceFacts DEF ChannelIInv, SenderInv
<1> HIDE DEF T
<1>4. /\ Len(stream) \in Nat /\ Len(stream') = Len(stream) + n
      /\ \A i \in 1..Len(stream) : stream'[i] = stream[i]
      /\ \A i \in 1..n : stream'[Len(stream) + i] = out[i]
      /\ Len(out') = Len(out) - n /\ \A i \in 1..(Len(out) - n) : out'[i] = out[n + i]
  <2>1. stream \in Seq(Byte) /\ out \in Seq(Byte)
    BY DEF ChannelIInv, ChannelTypeOK
  <2>2. /\ SubSeq(out, 1, n) \in Seq(Byte) /\ Len(SubSeq(out, 1, n)) = n
        /\ \A i \in 1..n : SubSeq(out, 1, n)[i] = out[i]
        /\ Len(out') = Len(out) - n /\ \A i \in 1..(Len(out) - n) : out'[i] = out[n + i]
    BY <1>1, <2>1, Split
  <2>3. /\ Len(stream') = Len(stream) + n
        /\ \A i \in 1..Len(stream) : stream'[i] = stream[i]
        /\ \A i \in 1..n : stream'[Len(stream) + i] = SubSeq(out, 1, n)[i]
    BY <1>1, <2>1, <2>2, Join
  <2> QED
    BY <2>1, <2>2, <2>3
<1>5. SenderInv'
  <2>1. T' = T
    BY <1>2 DEF T, Total
  <2>2. CASE n = Len(out)
    <3>1. Len(out') = 0 /\ out' = <<>>
      BY <1>3, <1>4, <2>2, EmptySeq DEF ChannelTypeOK
    <3> QED
      BY <1>1, <1>2, <1>3, <2>2, <3>1 DEF SenderInv
  <2>3. CASE n # Len(out)
    <3>1. Len(out') \in Nat \ {0} /\ out' # <<>>
      BY <1>3, <1>4, <2>3
    <3>2. \A i \in 1..Len(out') : out'[i] = <<sent, T - Len(out') + i>>
      <4>1. \A i \in 1..Len(out') : n + i \in 1..Len(out) /\ out'[i] = out[n + i]
        BY <1>3, <1>4, <2>3
      <4>2. \A i \in 1..Len(out') : T - Len(out) + (n + i) = T - Len(out') + i
        BY <1>3, <1>4, <2>3
      <4> QED
        BY <1>3, <4>1, <4>2
    <3>3. put' = sent' - 1 /\ sendOk' /\ sent' = sent /\ Len(out') <= T
      BY <1>1, <1>2, <1>3, <1>4, <2>3
    <3> QED
      BY <2>1, <3>1, <3>2, <3>3 DEF SenderInv, T
  <2> QED
    BY <2>2, <2>3
<1>6. recvRes # "none"
  BY <1>2 DEF ChannelIInv, NoneInv
<1>7. ASSUME Receiving PROVE StreamInv' /\ ReaderInv'
  <2>1. StreamInv /\ ReaderInv /\ EndPlace = out[1]
    <3>1. out # <<>>
      BY <1>1
    <3> QED
      BY <1>3, <1>7, <3>1 DEF ChannelIInv, StreamInv
  <2>2. ReaderInv'
    BY <1>2, <2>1 DEF ReaderInv, Header
  <2>3. \A i \in 1..(Len(stream) + 1) :
           PlaceAt(stream', ReaderPlace', i) = PlaceAt(stream, ReaderPlace, i)
    <3>1. ReaderPlace' = ReaderPlace
      BY <1>2 DEF ReaderPlace, Taken, Header
    <3>2. \A i \in 1..(Len(stream) + 1) : i # 1 => stream'[i - 1] = stream[i - 1]
      BY <1>4
    <3> QED
      BY <3>1, <3>2 DEF PlaceAt
\* The byte after the i-th one written.
  <2>4. ASSUME NEW i \in 1..n
        PROVE  PlaceAt(stream', ReaderPlace', Len(stream) + i + 1) = IF i = Len(out) THEN <<sent + 1, 1>> ELSE out[i + 1]
    <3>1. PlaceAt(stream', ReaderPlace', Len(stream) + i + 1) = After(out[i])
      <4>1. Len(stream) + i \in Nat \ {0} /\ stream'[Len(stream) + i] = out[i]
        BY <1>4
      <4> QED
        BY <4>1, NextPlace
    <3>2. out[i] = <<sent, T - Len(out) + i>>
      BY <1>1, <1>3
    <3>5. After(out[i]) = Place(sent, T - Len(out) + i + 1)
      BY <3>2 DEF After
    <3>3. CASE i = Len(out)
      <4>1. T - Len(out) + i + 1 = T + 1
        BY <1>3, <3>3
      <4>2. Place(sent, T + 1) = <<sent + 1, 1>>
        BY <1>3, PlaceFacts DEF T
      <4> QED
        BY <3>1, <3>3, <3>5, <4>1, <4>2
    <3>4. CASE i # Len(out)
      <4>1. T - Len(out) + i + 1 \in Nat \ {0} /\ T - Len(out) + i + 1 <= T
        BY <1>1, <1>3, <3>4
      <4>2. out[i + 1] = <<sent, T - Len(out) + i + 1>>
        <5>1. i + 1 \in 1..Len(out) /\ T - Len(out) + (i + 1) = T - Len(out) + i + 1
          BY <1>1, <1>3, <3>4
        <5> QED
          BY <1>3, <5>1
      <4>3. Place(sent, T - Len(out) + i + 1) = <<sent, T - Len(out) + i + 1>>
        <5>1. sent \in Nat \ {0} /\ sent <= Len(Size)
          BY <1>3
        <5> QED
          BY <4>1, <5>1, PlaceFacts DEF T
      <4> QED
        BY <3>1, <3>4, <3>5, <4>2, <4>3
    <3> QED
      BY <3>3, <3>4
  <2>5. ASSUME NEW i \in 1..Len(stream') PROVE stream'[i] = PlaceAt(stream', ReaderPlace', i) /\ stream'[i][1] <= sent'
    <3>1. CASE i <= Len(stream)
      <4>1. i \in 1..Len(stream) /\ i \in 1..(Len(stream) + 1) /\ stream'[i] = stream[i]
        BY <1>4, <3>1
      <4>2. stream[i] = PlaceAt(stream, ReaderPlace, i) /\ stream[i][1] <= sent
        BY <2>1, <4>1 DEF StreamInv
      <4> QED
        BY <1>2, <2>3, <4>1, <4>2
    <3>2. CASE i = Len(stream) + 1
      <4>1. stream'[i] = out[1] /\ PlaceAt(stream', ReaderPlace', i) = EndPlace
        BY <1>1, <1>4, <2>3, <3>2 DEF EndPlace
      <4>2. out[1] = <<sent, T - Len(out) + 1>>
        BY <1>1, <1>3
      <4>3. out[1][1] = sent
        BY <4>2
      <4> QED
        BY <1>2, <1>3, <2>1, <4>1, <4>3
    <3>3. CASE i > Len(stream) + 1
      <4> DEFINE j == i - Len(stream) - 1
      <4>1. i = Len(stream) + j + 1 /\ i = Len(stream) + (j + 1) /\ j \in 1..n /\ j + 1 \in 1..n
        BY <1>4, <3>3
      <4> HIDE DEF j
      <4>2. stream'[i] = out[j + 1]
        BY <1>4, <4>1
      <4>3. PlaceAt(stream', ReaderPlace', i) = out[j + 1]
        <5>1. j # Len(out) /\ j + 1 \in 1..Len(out)
          BY <1>1, <1>3, <4>1
        <5> QED
          BY <2>4, <4>1, <5>1
      <4>4. out[j + 1][1] = sent
        <5>1. out[j + 1] = <<sent, T - Len(out) + (j + 1)>>
          BY <1>1, <1>3, <4>1
        <5> QED
          BY <5>1
      <4> QED
        BY <1>2, <1>3, <4>2, <4>3, <4>4
    <3>4. i <= Len(stream) \/ i = Len(stream) + 1 \/ i > Len(stream) + 1
      BY <1>4
    <3> QED
      BY <3>1, <3>2, <3>3, <3>4
  <2>6. EndPlace' = IF out' = <<>> THEN <<sent' + 1, 1>> ELSE out'[1]
    <3>1. EndPlace' = IF n = Len(out) THEN <<sent + 1, 1>> ELSE out[n + 1]
      <4>1. n \in 1..n /\ EndPlace' = PlaceAt(stream', ReaderPlace', Len(stream) + n + 1)
        BY <1>1, <1>4 DEF EndPlace
      <4> QED
        BY <2>4, <4>1
    <3>2. n = Len(out) <=> out' = <<>>
      <4>1. out' \in Seq(Byte)
        BY DEF ChannelTypeOK
      <4>2. out' = <<>> <=> Len(out') = 0
        BY <4>1, EmptySeq
      <4> QED
        BY <1>1, <1>3, <1>4, <4>2
    <3>3. n # Len(out) => out'[1] = out[n + 1]
      BY <1>1, <1>3, <1>4
    <3> QED
      BY <1>2, <3>1, <3>2, <3>3
  <2> QED
    BY <1>2, <1>3, <2>2, <2>5, <2>6 DEF StreamInv
<1>8. put' \in Nat /\ put <= put' /\ Len(got) \in Nat /\ put \in Nat
  <2>1. put \in 0..sent /\ sent \in 0..Len(Size) /\ got \in Seq(0..sent)
    BY DEF ChannelIInv, ChannelTypeOK
  <2>2. put \in Nat /\ Len(got) \in Nat
    BY <2>1, ChannelAssumption
  <2> QED
    BY <1>1, <2>2
<1> QED
  BY <1>2, <1>5, <1>6, <1>7, <1>8 DEF ChannelIInv, Receiving

\* What is missing of a message after a failed send is what comes next.
LEMMA SendFailsStep ==
    ASSUME ~Reuse, ChannelIInv, ChannelTypeOK', SendFails
    PROVE  ChannelIInv'
<1>1. /\ open["tx"] /\ out # <<>> /\ out' = <<>> /\ ~sendOk' /\ sendOk
      /\ UNCHANGED <<open, stream, sent, put, reading, buffer, need, whose, got, recvRes>>
  BY DEF SendFails, rx, ChannelIInv, SenderInv
<1>2. SenderInv'
  BY <1>1, EmptySeq DEF ChannelIInv, SenderInv
<1>3. recvRes # "none"
  BY <1>1 DEF ChannelIInv, NoneInv
<1>4. ASSUME Receiving PROVE StreamInv' /\ ReaderInv'
  <2>1. StreamInv /\ ReaderInv
    BY <1>4 DEF ChannelIInv
  <2>2. EndPlace' = EndPlace /\ ReaderPlace' = ReaderPlace /\ Header' = Header
    BY <1>1, SamePlaces DEF Taken, Header
  <2>3. EndPlace' = out[1]
    BY <1>1, <2>1, <2>2 DEF StreamInv
  <2>4. out[1][1] = sent
    <3>1. out \in Seq(Byte) /\ Len(out) \in Nat \ {0}
      BY <1>1, EmptySeq DEF ChannelIInv, ChannelTypeOK
    <3>2. out[1] = <<sent, Total(sent) - Len(out) + 1>>
      BY <3>1 DEF ChannelIInv, SenderInv
    <3> QED
      BY <3>2
  <2>5. StreamInv'
    BY <1>1, <2>1, <2>2, <2>3, <2>4 DEF StreamInv
  <2>6. ReaderInv'
    BY <1>1, <2>1, <2>2 DEF ReaderInv
  <2> QED
    BY <2>5, <2>6
<1> QED
  BY <1>1, <1>2, <1>3, <1>4 DEF ChannelIInv, Receiving

\* recv begins where it has stopped, between two messages.
LEMMA StartRecvStep ==
    ASSUME ~Reuse, ChannelIInv, ChannelTypeOK', StartRecv
    PROVE  ChannelIInv'
<1>1. /\ reading = "no" /\ recvRes \notin {"err", "dropped"}
      /\ reading' = "length" /\ buffer' = <<>> /\ need' = Usize
      /\ UNCHANGED <<open, stream, out, sent, put, sendOk, whose, got, recvRes>>
  BY DEF StartRecv, tx
<1>2. SenderInv'
  BY <1>1 DEF ChannelIInv, SenderInv
<1>3. recvRes = "none" => NoneInv'
  BY <1>1 DEF ChannelIInv, NoneInv
<1>4. ASSUME Receiving PROVE StreamInv' /\ ReaderInv'
  <2>1. StreamInv
    BY <1>4 DEF ChannelIInv
  <2>2. Taken' = Taken
    BY <1>1, EmptySeq DEF Taken, Header
  <2>3. EndPlace' = EndPlace /\ ReaderPlace' = ReaderPlace
    BY <1>1, <2>2, SamePlaces
  <2>4. StreamInv'
    BY <1>1, <2>1, <2>3 DEF StreamInv
  <2>5. ReaderInv'
    BY <1>1, EmptySeq DEF ReaderInv
  <2> QED
    BY <2>4, <2>5
<1> QED
  BY <1>1, <1>2, <1>3, <1>4 DEF ChannelIInv, Receiving

\* The bytes taken off the stream, however many, are the next ones of the message.
LEMMA ReadBytesStep ==
    ASSUME ~Reuse, ChannelIInv, ChannelTypeOK', ReadBytes
    PROVE  ChannelIInv'
<1>1. PICK n \in 1..Len(stream) :
          /\ Len(buffer) + n <= need
          /\ buffer' = buffer \o SubSeq(stream, 1, n)
          /\ stream' = SubSeq(stream, n + 1, Len(stream))
  BY DEF ReadBytes
<1>2. /\ reading # "no"
      /\ UNCHANGED <<open, out, sent, put, sendOk, reading, need, whose, got, recvRes>>
  BY DEF ReadBytes, tx
<1>3. /\ stream \in Seq(Byte) /\ buffer \in Seq(Byte) /\ Len(buffer) \in Nat /\ Len(stream) \in Nat
      /\ Len(got) \in Nat /\ need \in Nat /\ sent \in Nat /\ sent <= Len(Size) /\ Len(Size) \in Nat
      /\ Usize \in Nat \ {0} /\ n \in Nat \ {0} /\ n <= Len(stream)
  <2>1. /\ stream \in Seq(Byte) /\ buffer \in Seq(Byte) /\ got \in Seq(0..sent)
        /\ need \in Nat /\ sent \in 0..Len(Size)
    BY DEF ChannelIInv, ChannelTypeOK
  <2>2. Len(stream) \in Nat /\ Len(buffer) \in Nat /\ Len(got) \in Nat
    BY <2>1
  <2>3. Len(Size) \in Nat /\ Usize \in Nat \ {0}
    BY ChannelAssumption
  <2>4. n \in Nat \ {0} /\ n <= Len(stream)
    BY <1>1, <2>2
  <2> QED
    BY <2>1, <2>2, <2>3, <2>4
<1>4. /\ Len(buffer') = Len(buffer) + n
      /\ \A i \in 1..Len(buffer) : buffer'[i] = buffer[i]
      /\ \A i \in 1..n : buffer'[Len(buffer) + i] = stream[i]
      /\ Len(stream') = Len(stream) - n /\ \A i \in 1..(Len(stream) - n) : stream'[i] = stream[n + i]
  <2>1. /\ SubSeq(stream, 1, n) \in Seq(Byte) /\ Len(SubSeq(stream, 1, n)) = n
        /\ \A i \in 1..n : SubSeq(stream, 1, n)[i] = stream[i]
        /\ Len(stream') = Len(stream) - n
        /\ \A i \in 1..(Len(stream) - n) : stream'[i] = stream[n + i]
    BY <1>1, <1>3, Split
  <2>2. /\ Len(buffer') = Len(buffer) + n
        /\ \A i \in 1..Len(buffer) : buffer'[i] = buffer[i]
        /\ \A i \in 1..n : buffer'[Len(buffer) + i] = SubSeq(stream, 1, n)[i]
    BY <1>1, <1>3, <2>1, Join
  <2> QED
    BY <2>1, <2>2
<1>5. SenderInv'
  BY <1>2 DEF ChannelIInv, SenderInv
<1>6. Receiving /\ recvRes # "none"
  <2>1. stream # <<>>
    BY <1>1, EmptySeq
  <2> QED
    BY <1>2, <2>1 DEF ChannelIInv, NoneInv, Receiving, ChannelTypeOK
<1>7. StreamInv /\ ReaderInv
  BY <1>6 DEF ChannelIInv
<1> DEFINE K == Len(got) + 1
<1>8. K <= sent /\ Taken = Header + Len(buffer) /\ Taken \in Nat /\ Header \in Nat
  <2>1. Taken = Header + Len(buffer) /\ Taken \in Nat /\ Header \in Nat
    BY <1>2, <1>3 DEF Taken, Header
  <2>2. CASE reading = "body"
    BY <1>3, <1>7, <2>1, <2>2 DEF ReaderInv, ChannelIInv, ChannelTypeOK
  <2>3. CASE reading = "length"
    <3>1. stream[1] = Place(K, Taken + 1) /\ stream[1][1] <= sent
      <4>1. 1 \in 1..Len(stream)
        BY <1>3
      <4>2. stream[1] = PlaceAt(stream, ReaderPlace, 1) /\ stream[1][1] <= sent
        BY <1>7, <4>1 DEF StreamInv
      <4>3. PlaceAt(stream, ReaderPlace, 1) = Place(K, Taken + 1)
        BY DEF PlaceAt, ReaderPlace
      <4> QED
        BY <4>2, <4>3
    <3>2. CASE K <= Len(Size)
      <4>1. K \in 1..Len(Size) /\ Taken + 1 <= Usize /\ Taken + 1 \in Nat \ {0}
        BY <1>1, <1>3, <1>7, <2>1, <2>3, <3>2 DEF ReaderInv, Header
      <4>2. Total(K) \in Nat /\ Usize <= Total(K)
        BY <1>3, <4>1, MessageBytes DEF Total
      <4>3. Place(K, Taken + 1) = <<K, Taken + 1>>
        BY <1>3, <4>1, <4>2 DEF Place
      <4> QED
        BY <2>1, <3>1, <4>3
    <3>3. CASE ~(K <= Len(Size))
      <4>1. Place(K, Taken + 1) = <<K, Taken + 1>>
        BY <3>3 DEF Place
      <4> QED
        BY <2>1, <3>1, <4>1
    <3> QED
      BY <3>2, <3>3
  <2> QED
    BY <1>2, <2>1, <2>2, <2>3 DEF ChannelIInv, ChannelTypeOK
<1>9. K \in 1..Len(Size) /\ K \in Nat \ {0} /\ Total(K) \in Nat /\ Taken + n <= Total(K)
  <2>1. K \in 1..Len(Size) /\ K \in Nat \ {0}
    BY <1>3, <1>8
  <2>2. Size[K] \in Nat /\ Total(K) = Usize + Size[K]
    BY <2>1, MessageBytes DEF Total
  <2>3. need + Header <= Usize + Size[K]
    BY <1>2, <1>3, <1>7, <2>2 DEF ReaderInv, Header, ChannelIInv, ChannelTypeOK
  <2>4. Taken + n = Header + (Len(buffer) + n)
    BY <1>3, <1>8
  <2>5. Header + (Len(buffer) + n) <= need + Header
    BY <1>1, <1>3, <1>8
  <2>6. Total(K) \in Nat
    BY <1>3, <2>2
  <2> QED
    BY <1>3, <1>8, <2>1, <2>2, <2>3, <2>4, <2>5, <2>6
<1> HIDE DEF K
<1>10. \A j \in 1..n : stream[j] = <<K, Taken + j>>
  <2> DEFINE S == {j \in Nat : j \in 1..n => stream[j] = <<K, Taken + j>>}
  <2>1. 0 \in S
    OBVIOUS
  <2>2. ASSUME NEW j \in Nat, j \in S, j + 1 \in 1..n PROVE stream[j + 1] = <<K, Taken + (j + 1)>>
    <3>1. Place(K, Taken + (j + 1)) = <<K, Taken + (j + 1)>>
      <4>1. Taken + (j + 1) \in Nat \ {0} /\ Taken + (j + 1) <= Total(K) /\ K <= Len(Size)
        <5>1. j + 1 <= n
          BY <1>3, <2>2
        <5>2. Taken + (j + 1) <= Taken + n
          BY <1>3, <1>8, <2>2, <5>1
        <5> QED
          BY <1>3, <1>8, <1>9, <2>2, <5>2
      <4> QED
        BY <1>9, <4>1, PlaceFacts
    <3>2. j + 1 \in 1..Len(stream)
      BY <1>1, <1>3, <2>2
    <3>3. stream[j + 1] = PlaceAt(stream, ReaderPlace, j + 1)
      BY <1>7, <3>2 DEF StreamInv
    <3>4. CASE j = 0
      BY <3>1, <3>3, <3>4 DEF PlaceAt, ReaderPlace, K
    <3>5. CASE j # 0
      <4>1. j \in Nat \ {0} /\ stream[j] = <<K, Taken + j>>
        BY <1>1, <2>2, <3>5
      <4>2. stream[j + 1] = After(stream[j])
        BY <3>3, <4>1, NextPlace
      <4>3. After(stream[j]) = Place(K, (Taken + j) + 1)
        BY <4>1 DEF After
      <4>4. (Taken + j) + 1 = Taken + (j + 1)
        BY <1>8
      <4> QED
        BY <3>1, <4>2, <4>3, <4>4
    <3> QED
      BY <3>4, <3>5
  <2>3. \A j \in Nat : j \in S => j + 1 \in S
    BY <2>2
  <2>4. Nat \subseteq S
    <3> HIDE DEF S
    <3> QED
      BY <2>1, <2>3, Induction
  <2> QED
    BY <2>4
<1>11. Header' = Header /\ Taken' = Taken + n
  <2>1. Header' = Header
    BY <1>2 DEF Header
  <2>2. Taken' = Header' + Len(buffer')
    BY <1>2 DEF Taken
  <2> QED
    BY <1>3, <1>4, <1>8, <2>1, <2>2
<1>12. ReaderInv'
  <2>1. ASSUME NEW i \in 1..Len(buffer') PROVE buffer'[i] = <<Len(got') + 1, Header' + i>>
    <3>1. CASE i <= Len(buffer)
      <4>1. i \in 1..Len(buffer)
        BY <1>3, <3>1
      <4>2. buffer[i] = <<Len(got) + 1, Header + i>>
        BY <1>2, <1>7, <4>1 DEF ReaderInv
      <4> QED
        BY <1>2, <1>4, <1>11, <4>1, <4>2
    <3>2. CASE i > Len(buffer)
      <4> DEFINE j == i - Len(buffer)
      <4>1. j \in 1..n /\ i = Len(buffer) + j
        <5>1. i \in Nat /\ i <= Len(buffer) + n
          BY <1>3, <1>4
        <5> QED
          BY <1>3, <3>2, <5>1
      <4> HIDE DEF j
      <4>2. buffer'[i] = <<K, Taken + j>>
        BY <1>4, <1>10, <4>1
      <4>3. Taken + j = Header + i
        BY <1>3, <1>8, <4>1
      <4> QED
        BY <1>2, <1>11, <4>2, <4>3 DEF K
    <3>3. i <= Len(buffer) \/ i > Len(buffer)
      BY <1>1, <1>3, <1>4
    <3> QED
      BY <3>1, <3>2, <3>3
  <2>2. Len(got) < sent
    BY <1>3, <1>8 DEF K
  <2> QED
    BY <1>2, <1>7, <2>1, <2>2 DEF ReaderInv
<1>13. ASSUME NEW i \in 1..(Len(stream) - n + 1)
       PROVE  PlaceAt(stream', ReaderPlace', i) = PlaceAt(stream, ReaderPlace, n + i)
  <2>1. CASE i = 1
    <3>1. PlaceAt(stream, ReaderPlace, n + 1) = After(stream[n])
      BY <1>3, NextPlace
    <3>2. stream[n] = <<K, Taken + n>>
      BY <1>3, <1>10
    <3>3. After(stream[n]) = Place(K, Taken + n + 1)
      BY <3>2 DEF After
    <3>4. ReaderPlace' = Place(K, Taken + n + 1)
      BY <1>2, <1>11 DEF ReaderPlace, K, Place, Total
    <3> QED
      BY <2>1, <3>1, <3>3, <3>4 DEF PlaceAt
  <2>2. CASE i # 1
    <3> DEFINE j == i - 1
    <3>1. /\ i = j + 1 /\ j \in Nat \ {0} /\ n + j \in Nat \ {0} /\ n + i = (n + j) + 1
          /\ j \in 1..(Len(stream) - n)
      BY <1>1, <1>3, <2>2
    <3> HIDE DEF j
    <3>2. PlaceAt(stream', ReaderPlace', i) = After(stream'[j])
      BY <3>1, NextPlace
    <3>3. PlaceAt(stream, ReaderPlace, n + i) = After(stream[n + j])
      BY <3>1, NextPlace
    <3> QED
      BY <1>4, <3>1, <3>2, <3>3
  <2> QED
    BY <2>1, <2>2
<1>14. StreamInv'
  <2>1. ASSUME NEW i \in 1..Len(stream')
        PROVE  stream'[i] = PlaceAt(stream', ReaderPlace', i) /\ stream'[i][1] <= sent'
    <3>1. /\ i \in 1..(Len(stream) - n + 1) /\ n + i \in 1..Len(stream)
          /\ stream'[i] = stream[n + i]
      <4>1. i \in Nat \ {0} /\ i <= Len(stream) - n
        BY <1>3, <1>4
      <4>2. i \in 1..(Len(stream) - n + 1) /\ n + i \in 1..Len(stream) /\ i \in 1..(Len(stream) - n)
        BY <1>3, <4>1
      <4> QED
        BY <1>4, <4>2
    <3>2. stream[n + i] = PlaceAt(stream, ReaderPlace, n + i) /\ stream[n + i][1] <= sent
      BY <1>7, <3>1 DEF StreamInv
    <3> QED
      BY <1>2, <1>13, <3>1, <3>2
  <2>2. EndPlace' = EndPlace
    <3>1. /\ Len(stream') + 1 \in 1..(Len(stream) - n + 1)
          /\ n + (Len(stream') + 1) = Len(stream) + 1
      <4>1. Len(stream') = Len(stream) - n /\ Len(stream) \in Nat /\ n \in 1..Len(stream)
        BY <1>1, <1>3, <1>4
      <4> QED
        BY <4>1
    <3> QED
      BY <1>13, <3>1 DEF EndPlace
  <2> QED
    BY <1>2, <1>7, <2>1, <2>2 DEF StreamInv
<1> QED
  BY <1>2, <1>5, <1>6, <1>12, <1>14 DEF ChannelIInv, Receiving

\* A length that has been read is that of the next message.
LEMMA LengthReadStep ==
    ASSUME ~Reuse, ChannelIInv, ChannelTypeOK', LengthRead
    PROVE  ChannelIInv'
<1> DEFINE K == Len(got) + 1
<1>1. reading = "length" /\ Len(buffer) = need
  BY DEF LengthRead
<1>2. Usize \in Nat \ {0} /\ Len(got) \in Nat /\ sent \in Nat /\ sent <= Len(Size) /\ Len(Size) \in Nat
  <2>1. got \in Seq(0..sent) /\ sent \in 0..Len(Size)
    BY DEF ChannelIInv, ChannelTypeOK
  <2> QED
    BY <2>1, ChannelAssumption
<1>3. Receiving /\ recvRes # "none"
  <2>1. recvRes # "none"
    BY <1>1, <1>2, EmptySeq DEF ChannelIInv, NoneInv
  <2> QED
    BY <1>1, <2>1 DEF ChannelIInv, ChannelTypeOK, Receiving
<1>4. StreamInv /\ ReaderInv /\ Header = 0
  BY <1>1, <1>3 DEF ChannelIInv, Header
<1>5. need = Usize /\ K \in 1..sent /\ K \in 1..Len(Size)
  <2>1. need = Usize
    BY <1>1, <1>4 DEF ReaderInv
  <2>2. Len(got) < sent
    BY <1>1, <1>2, <1>4, <2>1, EmptySeq DEF ReaderInv
  <2> QED
    BY <1>2, <2>1, <2>2
<1>6. buffer = Length(K)
  <2>1. buffer \in Seq(Byte) /\ Length(K) \in Seq(Byte) /\ Len(Length(K)) = Usize
        /\ \A i \in 1..Usize : Length(K)[i] = <<K, i>>
    BY <1>5, MessageBytes DEF ChannelIInv, ChannelTypeOK
  <2>2. \A i \in 1..Len(buffer) : buffer[i] = <<K, 0 + i>>
    BY <1>1, <1>4 DEF ReaderInv
  <2>3. \A i \in 1..Usize : 0 + i = i
    BY <1>2
  <2>4. \A i \in 1..Len(buffer) : buffer[i] = Length(K)[i]
    BY <1>1, <1>5, <2>1, <2>2, <2>3
  <2> QED
    BY <1>1, <1>5, <2>1, <2>4, SeqEqual
<1>7. PICK k \in 1..sent : buffer = Length(k) /\ TakeLength(k, Size[k])
  BY <1>5, <1>6 DEF LengthRead
<1>8. k = K
  <2>1. k \in 1..Len(Size) /\ 1 \in 1..Usize
    BY <1>2
  <2>2. Length(k)[1] = <<k, 1>> /\ Length(K)[1] = <<K, 1>>
    BY <1>5, <2>1, MessageBytes
  <2> QED
    BY <1>6, <1>7, <2>2
<1>9. /\ reading' = "body" /\ buffer' = <<>> /\ whose' = K /\ need' = Size[K]
      /\ UNCHANGED <<open, stream, out, sent, put, sendOk, got, recvRes>>
  BY <1>7, <1>8 DEF TakeLength, tx
<1>10. SenderInv'
  BY <1>9 DEF ChannelIInv, SenderInv
<1>11. Taken' = Taken
  BY <1>1, <1>2, <1>4, <1>5, <1>9, EmptySeq DEF Taken, Header
<1>12. EndPlace' = EndPlace /\ ReaderPlace' = ReaderPlace
  BY <1>9, <1>11, SamePlaces
<1>13. StreamInv'
  BY <1>4, <1>9, <1>12 DEF StreamInv
<1>14. ReaderInv'
  BY <1>9, EmptySeq DEF ReaderInv
<1> QED
  BY <1>3, <1>9, <1>10, <1>13, <1>14 DEF ChannelIInv, Receiving

\* A body that has been read is that of the next message, and its send returned.
LEMMA BodyIsNext ==
    ASSUME ~Reuse, ChannelIInv, reading = "body", Len(buffer) = need
    PROVE  /\ Receiving /\ whose = Len(got) + 1 /\ buffer = Body(whose)
           /\ ReaderPlace = <<Len(got) + 2, 1>> /\ whose <= put
<1> DEFINE K == Len(got) + 1
<1>1. /\ Usize \in Nat \ {0} /\ Len(got) \in Nat /\ sent \in Nat /\ sent <= Len(Size)
      /\ Len(Size) \in Nat /\ put \in Nat
  <2>1. got \in Seq(0..sent) /\ sent \in 0..Len(Size) /\ put \in 0..sent
    BY DEF ChannelIInv, ChannelTypeOK
  <2> QED
    BY <2>1, ChannelAssumption
<1>2. Receiving /\ StreamInv /\ ReaderInv /\ Header = Usize
  <2>1. recvRes # "none" /\ recvRes \notin {"err", "dropped"}
    BY DEF ChannelIInv, NoneInv
  <2> QED
    BY <2>1 DEF ChannelIInv, ChannelTypeOK, Receiving, Header
<1>3. whose = K /\ need = Size[K] /\ K \in 1..sent /\ K \in 1..Len(Size) /\ K <= sent
  <2>1. whose = K /\ need = Size[K]
    BY <1>2 DEF ReaderInv
  <2>2. K <= sent
    BY <1>1, <2>1 DEF ChannelIInv, ChannelTypeOK
  <2> QED
    BY <1>1, <2>1, <2>2
<1>4. Size[K] \in Nat /\ Total(K) = Usize + Size[K] /\ Total(K) \in Nat
  <2>1. Size[K] \in Nat
    BY <1>3, MessageBytes
  <2> QED
    BY <1>1, <2>1 DEF Total
<1>5. buffer = Body(K)
  <2>1. buffer \in Seq(Byte) /\ Body(K) \in Seq(Byte) /\ Len(Body(K)) = Size[K]
        /\ \A i \in 1..Size[K] : Body(K)[i] = <<K, Usize + i>>
    BY <1>3, MessageBytes DEF ChannelIInv, ChannelTypeOK
  <2>2. \A i \in 1..Len(buffer) : buffer[i] = <<K, Usize + i>>
    BY <1>2 DEF ReaderInv
  <2>3. \A i \in 1..Len(buffer) : buffer[i] = Body(K)[i]
    BY <1>3, <2>1, <2>2
  <2> QED
    BY <1>3, <2>1, <2>3, SeqEqual
<1>6. ReaderPlace = <<K + 1, 1>>
  <2>1. Taken + 1 = Total(K) + 1
    BY <1>2, <1>3, <1>4 DEF Taken
  <2>2. Place(K, Total(K) + 1) = <<K + 1, 1>>
    BY <1>3, PlaceFacts
  <2> QED
    BY <2>1, <2>2 DEF ReaderPlace
\* If it is the last one begun, nothing is under way and nothing is left to send.
<1>7. K <= put
  <2>1. CASE K < sent
    BY <1>1, <1>3, <2>1 DEF ChannelIInv, SenderInv
  <2>2. CASE K = sent
    <3>1. Len(stream) = 0
      <4>1. ASSUME Len(stream) # 0 PROVE FALSE
        <5>1. 1 \in 1..Len(stream)
          <6>1. stream \in Seq(Byte)
            BY DEF ChannelIInv, ChannelTypeOK
          <6> QED
            BY <4>1, <6>1
        <5>2. stream[1] = PlaceAt(stream, ReaderPlace, 1) /\ stream[1][1] <= sent
          BY <1>2, <5>1 DEF StreamInv
        <5>3. stream[1] = <<K + 1, 1>>
          BY <1>6, <5>2 DEF PlaceAt
        <5> QED
          BY <1>1, <2>2, <5>2, <5>3
      <4> QED
        BY <4>1
    <3>2. EndPlace = <<K + 1, 1>>
      BY <1>6, <3>1 DEF EndPlace, PlaceAt
    <3>3. sendOk
      <4>1. EndPlace[1] = K + 1
        BY <3>2
      <4> QED
        BY <1>1, <1>2, <2>2, <4>1 DEF StreamInv
    <3>4. out = <<>>
      <4>1. ASSUME out # <<>> PROVE FALSE
        <5>1. out \in Seq(Byte) /\ Len(out) \in Nat \ {0}
          BY <4>1, EmptySeq DEF ChannelIInv, ChannelTypeOK
        <5>2. out[1] = <<sent, Total(sent) - Len(out) + 1>>
          BY <5>1 DEF ChannelIInv, SenderInv
        <5>3. out[1] = <<K + 1, 1>>
          BY <1>2, <3>2, <3>3, <4>1 DEF StreamInv
        <5> QED
          BY <1>1, <2>2, <5>2, <5>3
      <4> QED
        BY <4>1
    <3> QED
      BY <1>1, <2>2, <3>3, <3>4 DEF ChannelIInv, SenderInv
  <2> QED
    BY <1>1, <1>3, <2>1, <2>2
<1>8. K + 1 = Len(got) + 2
  BY <1>1
<1> QED
  BY <1>2, <1>3, <1>5, <1>6, <1>7, <1>8

\* It is returned as the next message.
LEMMA BodyReadStep ==
    ASSUME ~Reuse, ChannelIInv, ChannelTypeOK', BodyRead
    PROVE  ChannelIInv'
<1>1. /\ Receiving /\ whose = Len(got) + 1 /\ buffer = Body(whose)
      /\ ReaderPlace = <<Len(got) + 2, 1>> /\ whose <= put
  BY BodyIsNext DEF BodyRead
<1>2. got \in Seq(0..sent) /\ Len(got) \in Nat /\ whose # 0 /\ put \in Nat /\ sent \in Nat
  <2>1. got \in Seq(0..sent) /\ sent \in 0..Len(Size) /\ put \in 0..sent
    BY DEF ChannelIInv, ChannelTypeOK
  <2> QED
    BY <1>1, <2>1, ChannelAssumption
<1>3. /\ got' = Append(got, whose) /\ reading' = "no" /\ recvRes' = "some"
      /\ UNCHANGED <<open, stream, out, sent, put, sendOk>>
  BY <1>1, <1>2 DEF BodyRead, tx
<1>4. /\ Len(got') = Len(got) + 1 /\ got'[Len(got) + 1] = whose
      /\ \A i \in 1..Len(got) : got'[i] = got[i]
  <2>1. whose \in 0..sent
    BY DEF ChannelIInv, ChannelTypeOK
  <2> QED
    BY <1>2, <1>3, <2>1
<1>5. SenderInv'
  BY <1>3 DEF ChannelIInv, SenderInv
<1>6. StreamInv /\ ReaderInv
  BY <1>1 DEF ChannelIInv
<1>7. ReaderPlace' = ReaderPlace
  <2>1. ReaderPlace' = Place(Len(got) + 2, 1)
    <3>1. Taken' + 1 = 1 /\ Len(got') + 1 = Len(got) + 2
      BY <1>2, <1>3, <1>4 DEF Taken
    <3> QED
      BY <3>1 DEF ReaderPlace, Place, Total
  <2>2. Place(Len(got) + 2, 1) = <<Len(got) + 2, 1>>
    <3>1. Len(got) + 2 \in Nat \ {0} /\ 1 \in Nat \ {0}
      BY <1>2
    <3>2. CASE Len(got) + 2 <= Len(Size)
      <4>1. Len(got) + 2 \in 1..Len(Size)
        BY <1>2, <3>2, ChannelAssumption
      <4>2. Total(Len(got) + 2) \in Nat \ {0}
        BY <4>1, PlaceFacts
      <4> QED
        BY <4>2 DEF Place
    <3>3. CASE ~(Len(got) + 2 <= Len(Size))
      BY <3>3 DEF Place
    <3> QED
      BY <3>2, <3>3
  <2> QED
    BY <1>1, <2>1, <2>2
<1>8. StreamInv'
  <2>1. EndPlace' = EndPlace
    BY <1>3, <1>7 DEF EndPlace, PlaceAt
  <2>2. \A i \in 1..Len(stream) : PlaceAt(stream', ReaderPlace', i) = PlaceAt(stream, ReaderPlace, i)
    BY <1>3, <1>7
  <2> QED
    BY <1>3, <1>6, <2>1, <2>2 DEF StreamInv
<1>9. ReaderInv'
  BY <1>3 DEF ReaderInv
<1>10. Len(got') <= put' /\ \A i \in 1..Len(got') : got'[i] = i
  <2>1. \A i \in 1..Len(got) : got[i] = i
    BY DEF ChannelIInv
  <2> QED
    BY <1>1, <1>2, <1>3, <1>4, <2>1
<1> QED
  BY <1>3, <1>5, <1>8, <1>9, <1>10 DEF ChannelIInv

\* Where the stream has ended before a length was read, every message whose send
\* returned has been received.
LEMMA NothingMissing ==
    ASSUME ~Reuse, ChannelIInv, Receiving, AtEnd, reading = "length"
    PROVE  Len(got) = put
<1>1. /\ Usize \in Nat \ {0} /\ Len(got) \in Nat /\ sent \in Nat /\ sent <= Len(Size)
      /\ Len(Size) \in Nat /\ put \in Nat /\ Len(got) <= put /\ put <= sent
  <2>1. got \in Seq(0..sent) /\ sent \in 0..Len(Size) /\ put \in 0..sent /\ Len(got) <= put
    BY DEF ChannelIInv, ChannelTypeOK
  <2> QED
    BY <2>1, ChannelAssumption
<1>2. StreamInv /\ ReaderInv /\ Header = 0 /\ stream = <<>>
  BY DEF ChannelIInv, Header, AtEnd
<1>3. Len(buffer) \in Nat /\ Len(buffer) < Usize
  <2>1. buffer \in Seq(Byte)
    BY DEF ChannelIInv, ChannelTypeOK
  <2> QED
    BY <1>2, <2>1 DEF AtEnd, ReaderInv
<1> DEFINE K == Len(got) + 1
<1>4. EndPlace = <<K, Len(buffer) + 1>>
  <2>1. EndPlace = Place(K, Taken + 1)
    BY <1>2, EmptySeq DEF EndPlace, PlaceAt, ReaderPlace
  <2>2. Taken + 1 = Len(buffer) + 1
    BY <1>2, <1>3 DEF Taken
  <2>3. Place(K, Len(buffer) + 1) = <<K, Len(buffer) + 1>>
    <3>1. CASE K <= Len(Size)
      <4>1. K \in 1..Len(Size)
        BY <1>1, <3>1
      <4>2. Size[K] \in Nat
        BY <4>1, MessageBytes
      <4>3. ~(Len(buffer) + 1 > Total(K))
        BY <1>1, <1>3, <4>2 DEF Total
      <4> QED
        BY <4>3 DEF Place
    <3>2. CASE ~(K <= Len(Size))
      BY <3>2 DEF Place
    <3> QED
      BY <3>1, <3>2
  <2> QED
    BY <2>1, <2>2, <2>3
<1>5. EndPlace[1] = K
  BY <1>4
<1>6. CASE sendOk /\ out = <<>>
  <2>1. EndPlace = <<sent + 1, 1>> /\ put = sent
    BY <1>2, <1>6 DEF StreamInv, ChannelIInv, SenderInv
  <2>2. EndPlace[1] = sent + 1
    BY <2>1
  <2> QED
    BY <1>1, <1>5, <2>1, <2>2
<1>7. CASE sendOk /\ out # <<>>
  <2>1. EndPlace = out[1] /\ put = sent - 1
    BY <1>2, <1>7 DEF StreamInv, ChannelIInv, SenderInv
  <2>2. out \in Seq(Byte) /\ Len(out) \in Nat \ {0}
    BY <1>7, EmptySeq DEF ChannelIInv, ChannelTypeOK
  <2>3. out[1] = <<sent, Total(sent) - Len(out) + 1>>
    BY <2>2 DEF ChannelIInv, SenderInv
  <2>4. EndPlace[1] = sent
    BY <2>1, <2>3
  <2> QED
    BY <1>1, <1>5, <2>1, <2>4
<1>8. CASE ~sendOk
  <2>1. EndPlace[1] = sent /\ put = sent - 1
    BY <1>2, <1>8 DEF StreamInv, ChannelIInv, SenderInv
  <2> QED
    BY <1>1, <1>5, <2>1
<1> QED
  BY <1>6, <1>7, <1>8


\* recv returns without an object, or an end is closed.
LEMMA ReturnStep ==
    ASSUME ~Reuse, ChannelIInv, ChannelTypeOK', RecvNone \/ RecvCut \/ RecvFails
    PROVE  ChannelIInv'
<1>1. /\ reading' = "no" /\ recvRes' \in {"none", "err", "dropped"}
      /\ UNCHANGED <<open, stream, out, sent, put, sendOk, got>>
  BY DEF RecvNone, RecvCut, RecvFails, RecvReturns, tx
<1>2. SenderInv'
  BY <1>1 DEF ChannelIInv, SenderInv
<1>3. ASSUME recvRes' = "none" PROVE NoneInv'
  <2>1. AtEnd /\ reading = "length"
    BY <1>3 DEF RecvNone, RecvCut, RecvFails, RecvReturns
  <2>2. Len(got) = put
    <3>1. CASE Receiving
      BY <2>1, <3>1, NothingMissing
    <3>2. CASE ~Receiving
      BY <2>1, <3>2 DEF ChannelIInv, ChannelTypeOK, Receiving, NoneInv
    <3> QED
      BY <3>1, <3>2
  <2> QED
    BY <1>1, <2>1, <2>2 DEF AtEnd, NoneInv
<1> QED
  BY <1>1, <1>2, <1>3 DEF ChannelIInv, Receiving

LEMMA CloseStep ==
    ASSUME ChannelIInv, ChannelTypeOK', NEW e \in Ends, Close(e)
    PROVE  ChannelIInv'
<1>1. /\ open' = [open EXCEPT ![e] = FALSE]
      /\ UNCHANGED <<stream, out, sent, put, sendOk, reading, buffer, need, whose, got, recvRes>>
  BY DEF Close, tx, rx
<1>2. SenderInv'
  BY <1>1 DEF ChannelIInv, SenderInv
<1>3. ASSUME Receiving PROVE StreamInv' /\ ReaderInv'
  <2>1. StreamInv /\ ReaderInv
    BY <1>3 DEF ChannelIInv
  <2>2. Header' = Header /\ Taken' = Taken
    BY <1>1 DEF Taken, Header
  <2>3. EndPlace' = EndPlace /\ ReaderPlace' = ReaderPlace
    BY <1>1, <2>2, SamePlaces
  <2> QED
    BY <1>1, <2>1, <2>2, <2>3 DEF StreamInv, ReaderInv
<1>4. recvRes = "none" => NoneInv'
  BY <1>1 DEF ChannelIInv, NoneInv, ChannelTypeOK, Ends
<1> QED
  BY <1>1, <1>2, <1>3, <1>4 DEF ChannelIInv, Receiving

\* Every step keeps the invariant.
LEMMA ChannelInvStep ==
    ASSUME ~Reuse, ChannelIInv, [ChannelNext]_channel
    PROVE  ChannelIInv'
<1>1. ChannelTypeOK'
  BY ChannelTypeStep DEF ChannelIInv
<1>2. CASE UNCHANGED channel
  <2>1. UNCHANGED <<open, stream, out, sent, put, sendOk, reading, buffer, need, whose, got, recvRes>>
    BY <1>2 DEF channel
  <2>2. Header' = Header /\ Taken' = Taken
    BY <2>1 DEF Taken, Header
  <2>3. EndPlace' = EndPlace /\ ReaderPlace' = ReaderPlace
    BY <2>1, <2>2, SamePlaces
  <2>4. Receiving => StreamInv' /\ ReaderInv'
    BY <2>1, <2>2, <2>3 DEF ChannelIInv, StreamInv, ReaderInv
  <2>5. SenderInv' /\ (recvRes = "none" => NoneInv')
    BY <2>1 DEF ChannelIInv, SenderInv, NoneInv
  <2> QED
    BY <1>1, <2>1, <2>4, <2>5 DEF ChannelIInv, Receiving
<1> QED
  BY <1>1, <1>2, StartSendStep, WriteStep, SendFailsStep, StartRecvStep, ReadBytesStep,
     LengthReadStep, BodyReadStep, ReturnStep, CloseStep DEF ChannelNext, RecvWork

\* In the beginning it holds.
LEMMA ChannelInitInv == ChannelInit => ChannelIInv
<1> SUFFICES ASSUME ChannelInit PROVE ChannelIInv
  OBVIOUS
<1>1. /\ open = [e \in Ends |-> TRUE] /\ stream = <<>> /\ out = <<>> /\ sent = 0 /\ put = 0
      /\ sendOk = TRUE /\ reading = "no" /\ buffer = <<>> /\ need = 0 /\ whose = 0
      /\ got = <<>> /\ recvRes = "new"
  BY DEF ChannelInit
<1>2. \A S : <<>> \in Seq(S) /\ Len(<<>>) = 0
  OBVIOUS
<1>3. ChannelTypeOK
  <2>1. Room \in Nat /\ 0 <= Room /\ Len(Size) \in Nat /\ 0 \in 0..Len(Size)
    BY ChannelAssumption
  <2> QED
    BY <1>1, <1>2, <2>1 DEF ChannelTypeOK
<1>4. SenderInv /\ ReaderInv /\ Len(got) <= put /\ \A i \in 1..Len(got) : got[i] = i
  BY <1>1, <1>2 DEF SenderInv, ReaderInv
<1>5. StreamInv
  <2>1. EndPlace = Place(1, 1)
    <3>1. Len(stream) + 1 = 1 /\ Len(got) + 1 = 1 /\ Taken + 1 = 1
      BY <1>1, <1>2 DEF Taken
    <3> QED
      BY <3>1 DEF EndPlace, PlaceAt, ReaderPlace
  <2>2. EndPlace = <<sent + 1, 1>>
    BY <1>1, <2>1, PlaceFacts
  <2>3. \A i \in 1..Len(stream) : FALSE
    BY <1>1, <1>2
  <2> QED
    BY <1>1, <2>2, <2>3 DEF StreamInv
<1> QED
  BY <1>1, <1>3, <1>4, <1>5 DEF ChannelIInv

\* Whatever the program does, the channel keeps its types: what is in the stream fits
\* in the buffers, recv holds no more than it asked for, and nothing is delivered
\* that was never sent.
THEOREM ChannelTypes == ChannelSpec => []ChannelTypeOK
<1>1. ChannelInit => ChannelTypeOK
  BY ChannelInitInv DEF ChannelIInv
<1>2. ChannelTypeOK /\ [ChannelNext]_channel => ChannelTypeOK'
  BY ChannelTypeStep
<1> QED
  BY <1>1, <1>2, PTL DEF ChannelSpec

\* While a direction that has failed is not used again, the bytes under way lead from
\* the place recv has reached to the place send has reached.
THEOREM ChannelInvariance == ~Reuse => (ChannelSpec => []ChannelIInv)
<1> SUFFICES ASSUME ~Reuse PROVE ChannelSpec => []ChannelIInv
  OBVIOUS
<1>1. ChannelInit => ChannelIInv
  BY ChannelInitInv
<1>2. ChannelIInv /\ [ChannelNext]_channel => ChannelIInv'
  BY ChannelInvStep
<1> QED
  BY <1>1, <1>2, PTL DEF ChannelSpec

\* recv never makes an object of bytes that are not those of one message.
THEOREM Unshifted == ~Reuse => (ChannelSpec => []NeverShifted)
<1> SUFFICES ASSUME ~Reuse PROVE ChannelSpec => []NeverShifted
  OBVIOUS
<1>1. ChannelIInv => NeverShifted
  BY DEF ChannelIInv, NeverShifted
<1> QED
  BY <1>1, ChannelInvariance, PTL

-----------------------------------------------------------------------------
(* The stream of bytes implements the channel of objects *)

\* A step is one of the channel of objects, or none.
LEMMA ChannelStepImplements ==
    ASSUME ~Reuse, ChannelIInv, [ChannelNext]_channel
    PROVE  [Promise!Next]_(Promise!vars)
<1>1. /\ got \in Seq(0..sent) /\ Len(got) \in Nat /\ put \in Nat
      /\ open \in [Ends -> BOOLEAN] /\ Len(got) <= put
  <2>1. got \in Seq(0..sent) /\ open \in [Ends -> BOOLEAN] /\ put \in 0..sent /\ sent \in 0..Len(Size)
    BY DEF ChannelIInv, ChannelTypeOK
  <2> QED
    BY <2>1, ChannelAssumption DEF ChannelIInv
<1>2. "tx" \in Ends /\ "rx" \in Ends /\ Peer("tx") = "rx" /\ Peer("rx") = "tx"
  BY DEF Ends, Peer
<1>3. ASSUME UNCHANGED <<open, put, got>>, Ended' = Ended PROVE UNCHANGED Promise!vars
  <2>1. Puts' = Puts /\ Delivered' = Delivered
    BY <1>3 DEF Puts, Delivered
  <2> QED
    BY <1>3, <2>1 DEF Promise!vars
<1>4. ASSUME UNCHANGED <<open, put, got, recvRes>> PROVE UNCHANGED Promise!vars
  BY <1>3, <1>4 DEF Ended
<1>5. ASSUME Write PROVE [Promise!Next]_(Promise!vars)
  <2>1. open["tx"] /\ open["rx"] /\ UNCHANGED <<open, got, recvRes>> /\ put' \in {put, put + 1}
    BY <1>5 DEF Write, rx
  <2>2. CASE put' = put
    BY <1>4, <2>1, <2>2
  <2>3. CASE put' = put + 1
    <3>1. Puts' = [Puts EXCEPT !["tx"] = @ + 1]
      BY <2>3 DEF Puts, Ends
    <3>2. Delivered' = Delivered /\ Ended' = Ended
      BY <2>1 DEF Delivered, Ended
    <3>3. Promise!Put("tx")
      BY <1>2, <2>1, <3>1, <3>2 DEF Promise!Put
    <3> QED
      BY <1>2, <3>3 DEF Promise!Next
  <2> QED
    BY <2>1, <2>2, <2>3
<1>6. ASSUME BodyRead PROVE [Promise!Next]_(Promise!vars)
  <2>1. Receiving /\ whose = Len(got) + 1 /\ buffer = Body(whose) /\ whose <= put
    BY <1>6, BodyIsNext DEF BodyRead
  <2>2. /\ open["rx"] /\ got' = Append(got, Len(got) + 1) /\ recvRes' = "some"
        /\ UNCHANGED <<open, put>>
    BY <1>1, <1>6, <2>1 DEF BodyRead, tx
  <2>3. Ended' = Ended /\ Puts' = Puts
    BY <2>1, <2>2 DEF Ended, Puts, Receiving
  <2>4. Delivered' = [Delivered EXCEPT !["rx"] = Append(@, Len(@) + 1)]
    BY <2>2 DEF Delivered, Ends
  <2>5. Len(Delivered["rx"]) < Puts[Peer("rx")]
    BY <1>1, <1>2, <2>1 DEF Delivered, Puts
  <2>6. Promise!Deliver("rx")
    BY <2>2, <2>3, <2>4, <2>5 DEF Promise!Deliver
  <2> QED
    BY <1>2, <2>6 DEF Promise!Next
<1>7. ASSUME RecvNone PROVE [Promise!Next]_(Promise!vars)
  <2>1. /\ AtEnd /\ reading = "length" /\ open["rx"] /\ ~open["tx"]
        /\ recvRes' = "none" /\ UNCHANGED <<open, put, got>>
    BY <1>7 DEF RecvNone, AtEnd, RecvReturns, tx
  <2>2. Len(got) = put
    <3>1. CASE Receiving
      BY <2>1, <3>1, NothingMissing
    <3>2. CASE ~Receiving
      BY <2>1, <3>2 DEF ChannelIInv, ChannelTypeOK, Receiving, NoneInv
    <3> QED
      BY <3>1, <3>2
  <2>3. Ended' = [Ended EXCEPT !["rx"] = TRUE]
    BY <2>1 DEF Ended, Ends
  <2>4. Delivered' = Delivered /\ Puts' = Puts
    BY <2>1 DEF Delivered, Puts
  <2>5. Len(Delivered["rx"]) = Puts[Peer("rx")]
    BY <1>2, <2>2 DEF Delivered, Puts
  <2>6. Promise!End("rx")
    BY <1>2, <2>1, <2>3, <2>4, <2>5 DEF Promise!End
  <2> QED
    BY <1>2, <2>6 DEF Promise!Next
\* A recv that fails after Ok(None) is a Fail, and a stutter otherwise.
<1>8. ASSUME RecvCut \/ RecvFails PROVE [Promise!Next]_(Promise!vars)
  <2>1. open["rx"] /\ recvRes' \in {"err", "dropped"} /\ UNCHANGED <<open, put, got>>
    BY <1>8 DEF RecvCut, RecvFails, RecvReturns, tx
  <2>2. Ended' = [Ended EXCEPT !["rx"] = FALSE]
    BY <2>1 DEF Ended, Ends
  <2>3. CASE recvRes = "none"
    <3>1. Delivered' = Delivered /\ Puts' = Puts /\ Ended["rx"]
      BY <1>2, <2>1, <2>3 DEF Delivered, Puts, Ended
    <3>2. Promise!Fail("rx")
      BY <2>1, <2>2, <3>1 DEF Promise!Fail
    <3> QED
      BY <1>2, <3>2 DEF Promise!Next
  <2>4. CASE recvRes # "none"
    <3>1. Ended' = Ended
      BY <2>1, <2>4 DEF Ended
    <3> QED
      BY <1>3, <2>1, <3>1
  <2> QED
    BY <2>3, <2>4
<1>9. ASSUME NEW e \in Ends, Close(e) PROVE [Promise!Next]_(Promise!vars)
  <2>1. /\ open[e] /\ open' = [open EXCEPT ![e] = FALSE] /\ UNCHANGED <<put, got, recvRes>>
    BY <1>9 DEF Close, tx, rx
  <2>2. Puts' = Puts /\ Delivered' = Delivered /\ Ended' = Ended
    BY <2>1 DEF Puts, Delivered, Ended
  <2>3. Promise!Close(e)
    BY <2>1, <2>2 DEF Promise!Close
  <2> QED
    BY <2>3 DEF Promise!Next
<1>10. ASSUME \/ StartSend \/ SendFails \/ StartRecv \/ ReadBytes \/ LengthRead
              \/ UNCHANGED channel
       PROVE  [Promise!Next]_(Promise!vars)
  <2>1. UNCHANGED <<open, put, got, recvRes>>
    BY <1>10 DEF StartSend, SendFails, StartRecv, ReadBytes, LengthRead, TakeLength, channel, tx, rx
  <2> QED
    BY <1>4, <2>1
<1> QED
  BY <1>5, <1>6, <1>7, <1>8, <1>9, <1>10 DEF ChannelNext, RecvWork

\* It begins as one.
LEMMA ChannelInitImplements == ChannelInit => Promise!Init
<1> SUFFICES ASSUME ChannelInit PROVE Promise!Init
  OBVIOUS
<1>1. open = [e \in Ends |-> TRUE] /\ put = 0 /\ got = <<>> /\ recvRes = "new"
  BY DEF ChannelInit
<1>2. /\ Puts = [e \in Ends |-> 0] /\ Delivered = [e \in Ends |-> <<>>]
      /\ Ended = [e \in Ends |-> FALSE]
  BY <1>1 DEF Puts, Delivered, Ended
<1> QED
  BY <1>1, <1>2 DEF Promise!Init

\* Lengths and bodies written and read in any pieces make the promised channel of
\* objects, while a direction that has failed is not used again.
THEOREM StreamImplements == ~Reuse => (ChannelSpec => ImplementsObjectChannel)
<1> SUFFICES ASSUME ~Reuse PROVE ChannelSpec => ImplementsObjectChannel
  OBVIOUS
<1>1. ChannelInit => Promise!Init
  BY ChannelInitImplements
<1>2. ChannelIInv /\ [ChannelNext]_channel => [Promise!Next]_(Promise!vars)
  BY ChannelStepImplements
<1> QED
  BY <1>1, <1>2, ChannelInvariance, PTL DEF ChannelSpec, ImplementsObjectChannel, Promise!Spec

-----------------------------------------------------------------------------
(* The pair and the channel over it *)

\* The steps of the two parts are steps of each or leave it alone.
LEMMA Parts ==
    [Pair \/ Transfer]_<<vars, channel>> => [Next]_vars /\ [ChannelNext]_channel
BY DEF Pair, Transfer

\* Whatever is transferred, and however many rivals there are, the bytes go to the
\* other end of the same channel.
THEOREM TransportOurs == TransportSpec => []PairIsOurs
<1>1. TransportInit => Init
  BY DEF TransportInit
<1>2. [Pair \/ Transfer]_<<vars, channel>> => [Next]_vars
  BY Parts
<1>3. TransportSpec => Spec
  BY <1>1, <1>2, PTL DEF TransportSpec, Spec
<1> QED
  BY <1>3, Ours, PTL

\* What duplex() makes on Windows, from socketpair() to the messages, is the promised
\* channel of objects.
THEOREM TransportImplements == ~Reuse => (TransportSpec => ImplementsObjectChannel)
<1> SUFFICES ASSUME ~Reuse PROVE TransportSpec => ImplementsObjectChannel
  OBVIOUS
<1>1. TransportInit => ChannelInit
  BY DEF TransportInit
<1>2. [Pair \/ Transfer]_<<vars, channel>> => [ChannelNext]_channel
  BY Parts
<1>3. TransportSpec => ChannelSpec
  BY <1>1, <1>2, PTL DEF TransportSpec, ChannelSpec
<1>4. ChannelSpec => ImplementsObjectChannel
  BY StreamImplements
<1> QED
  BY <1>3, <1>4, PTL
=============================================================================
