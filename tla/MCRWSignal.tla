----------------------------- MODULE MCRWSignal -----------------------------
(***************************************************************************)
(* Instances of RWSignal for TLC.                                          *)
(***************************************************************************)
EXTENDS RWSignal

\* bev_map_rw_lock_singal: every thread takes both sides.
BothSides == [t \in Threads |-> {"r", "w"}]

=============================================================================
