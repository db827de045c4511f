--------------------------- MODULE ObjectChannel ---------------------------
(***************************************************************************)
(* What src/src/asynchronous.rs promises the users of Sender, Receiver and *)
(* Duplex: a two-ended channel of typed objects.  Each direction is a      *)
(* reliable FIFO of whole objects; the end of the stream is reported only  *)
(* after every object whose send succeeded has been delivered.             *)
(*                                                                         *)
(* Objects are named by their ordinal: the n-th object an end puts is n.   *)
(***************************************************************************)
EXTENDS Naturals, Sequences

CONSTANT Ends,        \* the two ends of the channel
         Peer(_)      \* the opposite end

VARIABLES alive,      \* alive[e]: end e has not been dropped
          put,        \* put[e]: how many sends of e returned Ok(())
          delivered,  \* delivered[e]: ordinals of the objects e has received
          ended       \* ended[e]: the latest recv of e returned Ok(None)

vars == <<alive, put, delivered, ended>>

Init ==
    /\ alive     = [e \in Ends |-> TRUE]
    /\ put       = [e \in Ends |-> 0]
    /\ delivered = [e \in Ends |-> <<>>]
    /\ ended     = [e \in Ends |-> FALSE]

\* send returned Ok(()): both ends exist at that moment.
Put(e) ==
    /\ alive[e] /\ alive[Peer(e)]
    /\ put' = [put EXCEPT ![e] = @ + 1]
    /\ UNCHANGED <<alive, delivered, ended>>

\* recv returned Ok(Some(_)): the next object in order, and no other.
Deliver(e) ==
    /\ alive[e]
    /\ Len(delivered[e]) < put[Peer(e)]
    /\ delivered' = [delivered EXCEPT ![e] = Append(@, Len(@) + 1)]
    /\ UNCHANGED <<alive, put, ended>>

\* recv returned Ok(None): the peer is gone and nothing it sent is missing.
End(e) ==
    /\ alive[e] /\ ~alive[Peer(e)]
    /\ Len(delivered[e]) = put[Peer(e)]
    /\ ended' = [ended EXCEPT ![e] = TRUE]
    /\ UNCHANGED <<alive, put, delivered>>

\* A recv issued after Ok(None) fails in the operating system.
Fail(e) ==
    /\ alive[e] /\ ended[e]
    /\ ended' = [ended EXCEPT ![e] = FALSE]
    /\ UNCHANGED <<alive, put, delivered>>

\* The end is dropped, or its process dies.
Close(e) ==
    /\ alive[e]
    /\ alive' = [alive EXCEPT ![e] = FALSE]
    /\ UNCHANGED <<put, delivered, ended>>

Next == \E e \in Ends : Put(e) \/ Deliver(e) \/ End(e) \/ Fail(e) \/ Close(e)

Spec == Init /\ [][Next]_vars
=============================================================================
