------------------------------ MODULE Channel -------------------------------
(***************************************************************************)
(* What a stream promises its only client: a bounded FIFO channel. Items   *)
(* arrive in the order they were sent, none is lost or repeated, at most   *)
(* Bound are in flight, and unless the client leaves it receives every     *)
(* item and then the end of the stream.                                    *)
(***************************************************************************)
EXTENDS Naturals, Sequences

CONSTANT Bound

VARIABLES
    sent,      \* the items sent, numbered from 1
    received,  \* the items the client has
    closed,    \* the last item has been sent
    over       \* the client is at the end of the stream, or has left

vars == <<sent, received, closed, over>>

Init ==
    /\ sent = <<>> /\ received = <<>>
    /\ closed = FALSE /\ over = FALSE

Send ==
    /\ ~closed /\ ~over
    /\ Len(sent) - Len(received) < Bound
    /\ sent' = Append(sent, Len(sent) + 1)
    /\ closed' \in BOOLEAN
    /\ UNCHANGED <<received, over>>

Receive ==
    /\ ~over
    /\ Len(received) < Len(sent)
    /\ received' = Append(received, sent[Len(received) + 1])
    /\ UNCHANGED <<sent, closed, over>>

End ==
    /\ ~over
    /\ closed /\ received = sent
    /\ over' = TRUE
    /\ UNCHANGED <<sent, received, closed>>

Abandon ==
    /\ ~over
    /\ over' = TRUE
    /\ UNCHANGED <<sent, received, closed>>

Next == Send \/ Receive \/ End \/ Abandon

\* Once something was sent, the client is served or leaves.
Spec == Init /\ [][Next]_vars /\ WF_vars(Receive) /\ WF_vars(End)
=============================================================================
