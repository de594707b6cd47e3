----------------------------- MODULE MCPageLock -----------------------------
(***************************************************************************)
(* Instances of PageLockService for TLC.                                   *)
(***************************************************************************)
EXTENDS PageLockService

CONSTANTS t1, t2, t3, h1, h2, h3

\* SpaceFactor is the code's 2^20; Word is 2^30 because TLC's integers have 32
\* bits.  (0, 2^20 + 1) and (1, 0) have the same fold in both widths.
MCSpaceFactor == 1048576

MCWord == 1073741824

Page(space_id, page_no) == [space_id |-> space_id, page_no |-> page_no]

OnePage == {Page(1, 1)}

TwoPages == {Page(1, 1), Page(2, 1)}

\* The first two have the same fold.
ThreePages == {Page(1, 0), Page(0, MCSpaceFactor + 1), Page(1, 1)}

\* One thread per host.
ApartHosts == (t1 :> h1) @@ (t2 :> h2) @@ (t3 :> h3)

\* Two threads on h1, one on h2.
SharedHosts == (t1 :> h1) @@ (t2 :> h1) @@ (t3 :> h2)

\* Every thread asks for every page.
AllPages == [t \in Threads |-> Pages]

\* t1 asks for every page, the others for one of them.
TwoPagesForT1 == [t \in Threads |-> IF t = t1 THEN Pages ELSE {Page(1, 1)}]

\* t1 and t2, which share a host, ask for the colliding pages; t3 asks for one
\* of them and for the third page.
SplitPages ==
    (t1 :> {Page(1, 0)}) @@ (t2 :> {Page(0, MCSpaceFactor + 1)})
        @@ (t3 :> {Page(1, 0), Page(1, 1)})

=============================================================================
