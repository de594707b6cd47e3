---------------------------- MODULE FifoChannel ----------------------------
(***************************************************************************)
(* What a connection promises to the layer above it: what one side sends   *)
(* comes out at the other side once, whole, and in the order of sending,   *)
(* until the channel breaks; a broken channel promises nothing.            *)
(***************************************************************************)
EXTENDS Naturals, Sequences

CONSTANT Payloads   \* what may be sent

VARIABLES
    accepted,  \* all that was sent
    received,  \* all that came out
    broken     \* the promise has ended

Init ==
    /\ accepted = <<>>
    /\ received = <<>>
    /\ broken \in BOOLEAN

Put(payload) ==
    /\ ~broken /\ ~broken'
    /\ accepted' = Append(accepted, payload)
    /\ UNCHANGED received

Get ==
    /\ ~broken /\ ~broken'
    /\ Len(received) < Len(accepted)
    /\ received' = Append(received, accepted[Len(received) + 1])
    /\ UNCHANGED accepted

\* Anything may have been sent and come out when the channel is broken, and it
\* stays broken.
Break == broken'

Next ==
    \/ \E payload \in Payloads : Put(payload)
    \/ Get
    \/ Break

Spec == Init /\ [][Next]_<<accepted, received, broken>>

=============================================================================
