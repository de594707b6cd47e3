------------------------- MODULE MCMessageDispatch -------------------------
(***************************************************************************)
(* Instances of MessageDispatch for TLC.                                   *)
(***************************************************************************)
EXTENDS MessageDispatch

CONSTANTS heart, reply, r1, r2

\* The types of the test configuration.
TwoTypes == <<heart, reply>>

\* One thread polls a list with and without a filter, and another with a filter:
\* they take turns or meet.
SomeCalls ==
    {[reader |-> r1, type |-> heart, filtered |-> f] : f \in BOOLEAN}
    \cup {[reader |-> r2, type |-> heart, filtered |-> TRUE]}

=============================================================================
