------------------------------ MODULE RWSignal ------------------------------
(***************************************************************************)
(* The spin lock of multi_net_io: rw_r_lock, rw_w_lock, rw_r_unlock and    *)
(* rw_w_unlock (libevent_handle.cc) over one std::atomic<int>.  Every      *)
(* function is a test (load) followed by an update (fetch_add, fetch_sub): *)
(* two atomic accesses with other threads' steps between them.  The        *)
(* iterations of the spin loops change nothing and are stuttering steps;   *)
(* leaving the loop is the step that is modelled.                          *)
(***************************************************************************)
EXTENDS Integers, FiniteSets

CONSTANTS
    Threads,   \* the threads that share the signal
    Sides      \* Sides[t]: the sides ("r", "w") thread t takes

ASSUME ThreadsAssumption == IsFiniteSet(Threads)

ASSUME SidesAssumption == Sides \in [Threads -> SUBSET {"r", "w"}]

VARIABLES
    signal_int,   \* the atomic counter
    pc,           \* where each thread is in a lock/unlock pair
    overlapped    \* history: both sides have been inside at the same time

vars == <<signal_int, pc, overlapped>>

\* r_in is between rw_r_lock and rw_r_unlock; r_sub between the two accesses
\* of rw_r_unlock, the update still to come.  Likewise w_in, w_add.
Locations == {"idle", "r_add", "r_in", "r_sub", "w_sub", "w_in", "w_add"}

\* The threads counted in signal_int: updated by the lock, not yet by the unlock.
CountedReaders == {t \in Threads : pc[t] \in {"r_in", "r_sub"}}

CountedWriters == {t \in Threads : pc[t] \in {"w_in", "w_add"}}

Init ==
    /\ signal_int = 0
    /\ pc = [t \in Threads |-> "idle"]
    /\ overlapped = FALSE

Goto(t, from, to) ==
    /\ pc[t] = from
    /\ pc' = [pc EXCEPT ![t] = to]

\* The history variable after a step that ends in the counted sets readers, writers.
Record(readers, writers) ==
    overlapped' = (overlapped \/ (readers # {} /\ writers # {}))

----------------------------------------------------------------------------
(***************************************************************************)
(* Acquiring: the loop is left on one load, the counter is moved           *)
(* afterwards, whatever it is by then.                                     *)
(***************************************************************************)

rw_r_lock_test(t) ==
    /\ "r" \in Sides[t]
    /\ signal_int >= 0
    /\ Goto(t, "idle", "r_add")
    /\ UNCHANGED <<signal_int, overlapped>>

rw_r_lock_add(t) ==
    /\ Goto(t, "r_add", "r_in")
    /\ signal_int' = signal_int + 1
    /\ Record(CountedReaders \cup {t}, CountedWriters)

rw_w_lock_test(t) ==
    /\ "w" \in Sides[t]
    /\ signal_int <= 0
    /\ Goto(t, "idle", "w_sub")
    /\ UNCHANGED <<signal_int, overlapped>>

rw_w_lock_sub(t) ==
    /\ Goto(t, "w_sub", "w_in")
    /\ signal_int' = signal_int - 1
    /\ Record(CountedReaders, CountedWriters \cup {t})

(***************************************************************************)
(* Releasing: the update is skipped when the load does not have the sign   *)
(* of the releasing side.                                                  *)
(***************************************************************************)

\* Faulty variant: the last reader does not give its count back.
rw_r_unlock_test_off_by_one(t) ==
    /\ Goto(t, "r_in", IF signal_int > 1 THEN "r_sub" ELSE "idle")
    /\ UNCHANGED <<signal_int, overlapped>>

rw_r_unlock_test(t) ==
    /\ Goto(t, "r_in", IF signal_int > 0 THEN "r_sub" ELSE "idle")
    /\ UNCHANGED <<signal_int, overlapped>>

rw_r_unlock_sub(t) ==
    /\ Goto(t, "r_sub", "idle")
    /\ signal_int' = signal_int - 1
    /\ UNCHANGED overlapped

rw_w_unlock_test(t) ==
    /\ Goto(t, "w_in", IF signal_int < 0 THEN "w_add" ELSE "idle")
    /\ UNCHANGED <<signal_int, overlapped>>

rw_w_unlock_add(t) ==
    /\ Goto(t, "w_add", "idle")
    /\ signal_int' = signal_int + 1
    /\ UNCHANGED overlapped

Step(t) ==
    \/ rw_r_lock_test(t)   \/ rw_r_lock_add(t)
    \/ rw_w_lock_test(t)   \/ rw_w_lock_sub(t)
    \/ rw_r_unlock_test(t) \/ rw_r_unlock_sub(t)
    \/ rw_w_unlock_test(t) \/ rw_w_unlock_add(t)

Next == \E t \in Threads : Step(t)

Spec == Init /\ [][Next]_vars

----------------------------------------------------------------------------
(***************************************************************************)
(* Properties.                                                             *)
(***************************************************************************)

\* The counter is an integer and every thread is at a location of its functions.
TypeOK ==
    /\ signal_int \in Int
    /\ pc \in [Threads -> Locations]
    /\ overlapped \in BOOLEAN

\* As long as readers and writers have not been inside together, signal_int is
\* exactly the number of readers minus the number of writers, although lock and
\* unlock each take two accesses: the conditional unlocks lose no update.
ExactUntilOverlap ==
    ~overlapped =>
        signal_int = Cardinality(CountedReaders) - Cardinality(CountedWriters)

\* write_singal_ptr: writeBufferOnce takes the write side, nobody the other.
WritersOnly == \A t \in Threads : Sides[t] = {"w"}

\* Of a signal that only writers use, the value is minus their number: no
\* unlock skips its update, and it is zero when nobody is inside.
WriteSignalBalanced == signal_int = - Cardinality(CountedWriters)

(***************************************************************************)
(* What comments of the repository say, and the code does not do.          *)
(***************************************************************************)

\* rw_r_lock: "< 0  == writer".  A negative signal means that a writer is inside.
NegativeMeansWriter == signal_int < 0 => CountedWriters # {}

=============================================================================
