----------------------------- MODULE FrameChannel -----------------------------
(***************************************************************************)
(* What the framing of the bridge promises one direction of a connection:  *)
(* the payloads that were sent come out whole, in order and unchanged, up  *)
(* to the first one over the limit, which closes the connection.           *)
(***************************************************************************)
EXTENDS Integers, Sequences

CONSTANTS Payload, Limit, MaxFrames

VARIABLES sent, delivered, closed

NextPayload == sent[Len(delivered) + 1]

Init == sent = <<>> /\ delivered = <<>> /\ closed = FALSE

Send ==
    /\ Len(sent) < MaxFrames
    /\ \E p \in Payload : sent' = Append(sent, p)
    /\ UNCHANGED <<delivered, closed>>

Deliver ==
    /\ ~closed /\ Len(delivered) < Len(sent)
    /\ Len(NextPayload) <= Limit
    /\ delivered' = Append(delivered, NextPayload)
    /\ UNCHANGED <<sent, closed>>

\* The connection is lost, or the next payload is refused.
Close == ~closed /\ closed' = TRUE /\ UNCHANGED <<sent, delivered>>

Reconnect == sent' = <<>> /\ delivered' = <<>> /\ closed' = FALSE

Next == Send \/ Deliver \/ Close \/ Reconnect

Spec == Init /\ [][Next]_<<sent, delivered, closed>>
=============================================================================
