----------------------------- MODULE WinChannel -----------------------------
(***************************************************************************)
(* One direction of a channel on Windows (src/src/asynchronous.rs), over a *)
(* stream of bytes.  A message is its length and its body, written and     *)
(* read one after the other; the system transfers any number of bytes at a *)
(* time, and the runtimes' write_all and read_exact go on until all are.   *)
(*                                                                         *)
(* Byte i of the k-th message sent is <<k, i>>, so that bytes keep apart   *)
(* what the receiver may take for something else.                          *)
(*                                                                         *)
(* Definitions whose comment begins with "Faulty variant" are not used.    *)
(***************************************************************************)
EXTENDS Naturals, Sequences

CONSTANTS
    Size,    \* Size[k]: bytes in the body of the k-th message; it has some, for it
             \* begins with the lengths of the tables of handles and of sockets
    Usize,   \* bytes of a length
    Room,    \* bytes the sockets buffer
    Garbled, \* lengths that may come of bytes that are not a length
    Reuse    \* BOOLEAN: the program goes on with a direction that has failed

ASSUME ChannelAssumption ==
    /\ Size \in Seq(Nat \ {0}) /\ Usize \in Nat \ {0} /\ Room \in Nat \ {0}
    /\ Garbled \subseteq Nat /\ Reuse \in BOOLEAN

Ends == {"tx", "rx"}
Peer(e) == IF e = "tx" THEN "rx" ELSE "tx"

VARIABLES
    open,    \* open["tx"], open["rx"]
    stream,  \* bytes written and not yet read
    out,     \* what is left of the message being sent
    sent,    \* messages begun
    put,     \* sends that returned Ok(())
    sendOk,  \* no send has failed or been dropped
    reading, \* what recv reads: "no", "length" or "body"
    buffer,  \* bytes of it
    need,    \* how many there must be
    whose,   \* the message whose length it was, or 0
    got,     \* what recv returned: messages, 0 for what is none
    recvRes  \* what recv returned last: "new", "some", "none", "err", "dropped"
channel == <<open, stream, out, sent, put, sendOk, reading, buffer, need, whose, got, recvRes>>
tx == <<out, sent, put, sendOk>>
rx == <<reading, buffer, need, whose, got, recvRes>>

Byte == (Nat \ {0}) \X (Nat \ {0})

ChannelTypeOK ==
    /\ open \in [Ends -> BOOLEAN]
    /\ stream \in Seq(Byte) /\ Len(stream) <= Room /\ out \in Seq(Byte)
    /\ sent \in 0..Len(Size) /\ put \in 0..sent /\ sendOk \in BOOLEAN
    /\ put = sent => out = <<>>
    /\ reading \in {"no", "length", "body"}
    /\ buffer \in Seq(Byte) /\ need \in Nat /\ Len(buffer) <= need
    /\ whose \in 0..sent /\ got \in Seq(0..sent)
    /\ recvRes \in {"new", "some", "none", "err", "dropped"}

Length(k) == [i \in 1..Usize |-> <<k, i>>]
Body(k)   == [i \in 1..Size[k] |-> <<k, Usize + i>>]

ChannelInit ==
    /\ open = [e \in Ends |-> TRUE] /\ stream = <<>>
    /\ out = <<>> /\ sent = 0 /\ put = 0 /\ sendOk = TRUE
    /\ reading = "no" /\ buffer = <<>> /\ need = 0 /\ whose = 0
    /\ got = <<>> /\ recvRes = "new"
-----------------------------------------------------------------------------
(* send *)

StartSend ==
    /\ open["tx"] /\ out = <<>> /\ sent < Len(Size) /\ (sendOk \/ Reuse)
    /\ sent' = sent + 1
    /\ out' = Length(sent + 1) \o Body(sent + 1)
    /\ UNCHANGED <<open, stream, put, sendOk, rx>>

\* Faulty variant: write in the place of write_all.
WriteOnce ==
    /\ open["tx"] /\ open["rx"]
    /\ \E n \in 1..Len(out) :
          /\ Len(stream) + n <= Room
          /\ stream' = stream \o SubSeq(out, 1, n)
          /\ out' = <<>> /\ put' = put + 1
    /\ UNCHANGED <<open, sent, sendOk, rx>>

\* With the last byte send returns Ok(()).
Write ==
    /\ open["tx"] /\ open["rx"]
    /\ \E n \in 1..Len(out) :
          /\ Len(stream) + n <= Room
          /\ stream' = stream \o SubSeq(out, 1, n)
          /\ out' = SubSeq(out, n + 1, Len(out))
          /\ put' = IF n = Len(out) THEN put + 1 ELSE put
    /\ UNCHANGED <<open, sent, sendOk, rx>>

\* The system reports an error, as it does if the receiver is gone; or the future
\* of send is dropped where it awaits.  What was written stays written.
SendFails ==
    /\ open["tx"] /\ out # <<>>
    /\ out' = <<>> /\ sendOk' = FALSE
    /\ UNCHANGED <<open, stream, sent, put, rx>>
-----------------------------------------------------------------------------
(* recv *)

StartRecv ==
    /\ open["rx"] /\ reading = "no" /\ (recvRes \notin {"err", "dropped"} \/ Reuse)
    /\ reading' = "length" /\ buffer' = <<>> /\ need' = Usize
    /\ UNCHANGED <<open, stream, tx, whose, got, recvRes>>

\* Bytes wait for read_exact: some of them, and no more than it asks for.
ReadBytes ==
    /\ open["rx"] /\ reading # "no"
    /\ \E n \in 1..Len(stream) :
          /\ Len(buffer) + n <= need
          /\ buffer' = buffer \o SubSeq(stream, 1, n)
          /\ stream' = SubSeq(stream, n + 1, Len(stream))
    /\ UNCHANGED <<open, tx, reading, need, whose, got, recvRes>>

TakeLength(k, n) ==
    /\ reading' = "body" /\ buffer' = <<>> /\ whose' = k /\ need' = n
    /\ UNCHANGED <<open, stream, tx, got, recvRes>>

\* Faulty variant: read in the place of read_exact, for the length.
LengthReadShort ==
    /\ open["rx"] /\ reading = "length" /\ buffer # <<>>
    /\ IF \E k \in 1..sent : buffer = Length(k)
       THEN \E k \in 1..sent : buffer = Length(k) /\ TakeLength(k, Size[k])
       ELSE \E n \in Garbled : TakeLength(0, n)

LengthRead ==
    /\ open["rx"] /\ reading = "length" /\ Len(buffer) = need
    /\ IF \E k \in 1..sent : buffer = Length(k)
       THEN \E k \in 1..sent : buffer = Length(k) /\ TakeLength(k, Size[k])
       ELSE \E n \in Garbled : TakeLength(0, n)

\* deserialize_with_handles: the message whose body it is, or anything at all.
BodyRead ==
    /\ open["rx"] /\ reading = "body" /\ Len(buffer) = need
    /\ got' = Append(got, IF whose # 0 /\ buffer = Body(whose) THEN whose ELSE 0)
    /\ reading' = "no" /\ recvRes' = "some" /\ whose' = 0
    /\ UNCHANGED <<open, stream, tx, buffer, need>>

AtEnd == stream = <<>> /\ ~open["tx"] /\ Len(buffer) < need

RecvReturns(answer) ==
    /\ reading' = "no" /\ recvRes' = answer /\ whose' = 0
    /\ UNCHANGED <<open, stream, tx, buffer, need, got>>

\* UnexpectedEof or ConnectionReset in the length, however much of it has come.
RecvNone ==
    /\ open["rx"] /\ reading = "length" /\ AtEnd
    /\ RecvReturns("none")

\* Either of them in the body.
RecvCut ==
    /\ open["rx"] /\ reading = "body" /\ AtEnd
    /\ RecvReturns("err")

\* Another error, or the future of recv is dropped: the bytes read are lost.
RecvFails ==
    /\ open["rx"] /\ reading # "no"
    /\ RecvReturns("dropped")

\* An end is dropped, or its process ends.
Close(e) ==
    /\ open[e]
    /\ open' = [open EXCEPT ![e] = FALSE]
    /\ UNCHANGED <<stream, tx, rx>>

RecvWork == ReadBytes \/ LengthRead \/ BodyRead \/ RecvNone \/ RecvCut

ChannelNext ==
    \/ StartSend \/ Write \/ SendFails
    \/ StartRecv \/ RecvWork \/ RecvFails
    \/ \E e \in Ends : Close(e)

ChannelSpec == ChannelInit /\ [][ChannelNext]_channel
-----------------------------------------------------------------------------
(* Properties *)

\* The values of ObjectChannel's variables.
Puts      == [e \in Ends |-> IF e = "tx" THEN put ELSE 0]
Delivered == [e \in Ends |-> IF e = "rx" THEN got ELSE <<>>]
Ended     == [e \in Ends |-> e = "rx" /\ recvRes = "none"]

Promise == INSTANCE ObjectChannel WITH
    alive <- open, put <- Puts, delivered <- Delivered, ended <- Ended

\* While a direction that has failed is not used again, the stream of bytes keeps
\* what a channel of objects promises, as the packets on Unix do: every message
\* whole and in order, and Ok(None) only when no message that was sent is missing,
\* although a length that was cut off is taken for the end too.
ImplementsObjectChannel == Promise!Spec

\* A message whose send returned Ok(()) arrives at a receiver that keeps calling
\* recv, on a channel that had to be made first: neither the split writes nor the
\* lengths read make it wait for ever.
Delivery ==
    []<>(open["rx"] /\ reading # "no") =>
        \A k \in 1..Len(Size) : (put >= k) ~> (Len(got) >= k)

\* "Channels are typed" (lib.rs): recv never makes an object of bytes that are
\* not those of one message.
NeverShifted == \A i \in 1..Len(got) : got[i] # 0
-----------------------------------------------------------------------------
(* The inductive invariant behind the refinement, for programs that stop using  *)
(* a direction after it failed (Reuse = FALSE).                                 *)

\* A place in the stream is the byte that must come there: the i-th of the k-th
\* message, or the first of the next message if there is no such byte.
Total(k) == Usize + Size[k]
Place(k, i) == IF k <= Len(Size) /\ i > Total(k) THEN <<k + 1, 1>> ELSE <<k, i>>
After(b) == Place(b[1], b[2] + 1)

\* The place the i-th byte of a stream must have that begins at a place.
PlaceAt(bytes, start, i) == IF i = 1 THEN start ELSE After(bytes[i - 1])

\* How many bytes of the next message recv has read.
Header == IF reading = "body" THEN Usize ELSE 0
Taken  == IF reading = "no" THEN 0 ELSE Header + Len(buffer)

ReaderPlace == Place(Len(got) + 1, Taken + 1)
EndPlace    == PlaceAt(stream, ReaderPlace, Len(stream) + 1)

Receiving == recvRes \in {"new", "some"}

\* What is left of a message is its end; at most the last one is not sent in full.
SenderInv ==
    /\ put = IF out = <<>> /\ sendOk THEN sent ELSE sent - 1
    /\ out # <<>> => sendOk /\ Len(out) <= Total(sent)
    /\ \A i \in 1..Len(out) : out[i] = <<sent, Total(sent) - Len(out) + i>>

\* The bytes under way lead from the reader's place to the writer's, or to a place
\* inside the message that a failed send left unfinished.
StreamInv ==
    /\ \A i \in 1..Len(stream) : stream[i] = PlaceAt(stream, ReaderPlace, i) /\ stream[i][1] <= sent
    /\ sendOk => EndPlace = IF out = <<>> THEN <<sent + 1, 1>> ELSE out[1]
    /\ ~sendOk => EndPlace[1] = sent

\* recv holds the first bytes of the length or the body of the next message.
ReaderInv ==
    /\ reading # "no" =>
          \A i \in 1..Len(buffer) : buffer[i] = <<Len(got) + 1, Header + i>>
    /\ reading = "length" => need = Usize /\ (buffer # <<>> => Len(got) < sent)
    /\ reading = "body" => whose = Len(got) + 1 /\ need = Size[whose]

\* After Ok(None) there is nothing to read any more.
NoneInv ==
    /\ ~open["tx"] /\ stream = <<>> /\ Len(got) = put /\ reading # "body"
    /\ reading = "length" => need = Usize /\ buffer = <<>>

ChannelIInv ==
    /\ ChannelTypeOK /\ SenderInv
    /\ Receiving => StreamInv /\ ReaderInv
    /\ recvRes = "none" => NoneInv
    /\ recvRes \in {"err", "dropped"} => reading = "no"
    /\ Len(got) <= put /\ \A i \in 1..Len(got) : got[i] = i
=============================================================================
