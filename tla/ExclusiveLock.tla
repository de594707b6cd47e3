--------------------------- MODULE ExclusiveLock ---------------------------
(***************************************************************************)
(* What the page lock service promises to callers that only write: every   *)
(* page has at most one owner, it is acquired when it has none and         *)
(* released by its owner.                                                  *)
(***************************************************************************)

CONSTANTS Threads, Pages, Nobody

VARIABLE owner   \* owner[p]: the thread that owns page p, or Nobody

Init == owner = [p \in Pages |-> Nobody]

Acquire(t, p) ==
    /\ owner[p] = Nobody
    /\ owner' = [owner EXCEPT ![p] = t]

Release(t, p) ==
    /\ owner[p] = t
    /\ owner' = [owner EXCEPT ![p] = Nobody]

Next == \E t \in Threads, p \in Pages : Acquire(t, p) \/ Release(t, p)

Spec == Init /\ [][Next]_owner

=============================================================================
