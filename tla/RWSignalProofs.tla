--------------------------- MODULE RWSignalProofs ---------------------------
(***************************************************************************)
(* Proofs about RWSignal for any finite set of threads and any use of the  *)
(* two sides.                                                              *)
(***************************************************************************)
EXTENDS RWSignal, FiniteSetTheorems, TLAPS

\* The sides have not been inside together unless the history says so.
Separated == overlapped \/ CountedReaders = {} \/ CountedWriters = {}

\* The inductive invariant: an unlock finds the sign it expects because, before
\* the first overlap, the count is exact and only one side is counted.
IInv == TypeOK /\ ExactUntilOverlap /\ Separated

USE ThreadsAssumption

\* The counted threads are finite sets, so their cardinalities are numbers.
LEMMA CountedFinite ==
    /\ IsFiniteSet(CountedReaders)
    /\ IsFiniteSet(CountedWriters)
    /\ Cardinality(CountedReaders) \in Nat
    /\ Cardinality(CountedWriters) \in Nat
  <1>1. CountedReaders \subseteq Threads /\ CountedWriters \subseteq Threads
    BY DEF CountedReaders, CountedWriters
  <1>2. IsFiniteSet(CountedReaders) /\ IsFiniteSet(CountedWriters)
    BY <1>1, FS_Subset
  <1>3. QED
    BY <1>2, FS_CardinalityType

\* A set with an element has a positive number of elements.
LEMMA PositiveCardinality ==
    ASSUME NEW S, IsFiniteSet(S), NEW x \in S
    PROVE  Cardinality(S) > 0
  <1>1. Cardinality(S) \in Nat /\ Cardinality(S) # 0
    BY FS_CardinalityType, FS_EmptySet
  <1>2. QED
    BY <1>1

\* A step of one thread leaves the invariant true, whatever the function.
LEMMA StepKeepsIInv ==
    ASSUME IInv, NEW t \in Threads, Step(t)
    PROVE  IInv'
  <1> DEFINE R == CountedReaders
             W == CountedWriters
  <1>0. TypeOK
    BY DEF IInv
  <1>1. CASE rw_r_lock_test(t)
    <2>1. R' = R /\ W' = W
      BY <1>0, <1>1 DEF rw_r_lock_test, Goto, TypeOK, CountedReaders, CountedWriters
    <2>2. TypeOK'
      BY <1>0, <1>1 DEF rw_r_lock_test, Goto, TypeOK, Locations
    <2>3. QED
      BY <2>1, <2>2, <1>1 DEF rw_r_lock_test, IInv, ExactUntilOverlap, Separated
  <1>2. CASE rw_r_lock_add(t)
    <2>1. R' = R \cup {t} /\ W' = W /\ t \notin R
      BY <1>0, <1>2 DEF rw_r_lock_add, Goto, TypeOK, CountedReaders, CountedWriters
    <2>2. TypeOK'
      BY <1>0, <1>2 DEF rw_r_lock_add, Goto, TypeOK, Locations, Record
    <2>3. Cardinality(R') = Cardinality(R) + 1
      BY <2>1, CountedFinite, FS_AddElement
    <2>4. ExactUntilOverlap'
      BY <2>1, <2>3, <1>0, <1>2, CountedFinite
         DEF rw_r_lock_add, Record, IInv, ExactUntilOverlap, TypeOK
    <2>5. Separated'
      BY <2>1, <1>2 DEF rw_r_lock_add, Record, Separated
    <2>6. QED
      BY <2>2, <2>4, <2>5 DEF IInv
  <1>3. CASE rw_w_lock_test(t)
    <2>1. R' = R /\ W' = W
      BY <1>0, <1>3 DEF rw_w_lock_test, Goto, TypeOK, CountedReaders, CountedWriters
    <2>2. TypeOK'
      BY <1>0, <1>3 DEF rw_w_lock_test, Goto, TypeOK, Locations
    <2>3. QED
      BY <2>1, <2>2, <1>3 DEF rw_w_lock_test, IInv, ExactUntilOverlap, Separated
  <1>4. CASE rw_w_lock_sub(t)
    <2>1. R' = R /\ W' = W \cup {t} /\ t \notin W
      BY <1>0, <1>4 DEF rw_w_lock_sub, Goto, TypeOK, CountedReaders, CountedWriters
    <2>2. TypeOK'
      BY <1>0, <1>4 DEF rw_w_lock_sub, Goto, TypeOK, Locations, Record
    <2>3. Cardinality(W') = Cardinality(W) + 1
      BY <2>1, CountedFinite, FS_AddElement
    <2>4. ExactUntilOverlap'
      BY <2>1, <2>3, <1>0, <1>4, CountedFinite
         DEF rw_w_lock_sub, Record, IInv, ExactUntilOverlap, TypeOK
    <2>5. Separated'
      BY <2>1, <1>4 DEF rw_w_lock_sub, Record, Separated
    <2>6. QED
      BY <2>2, <2>4, <2>5 DEF IInv
  <1>5. CASE rw_r_unlock_test(t)
    <2>1. t \in R
      BY <1>5 DEF rw_r_unlock_test, Goto, CountedReaders
    <2>2. Cardinality(R) > 0
      BY <2>1, CountedFinite, PositiveCardinality
    <2>3. TypeOK'
      BY <1>0, <1>5 DEF rw_r_unlock_test, Goto, TypeOK, Locations
    <2>4. CASE overlapped
      BY <2>3, <2>4, <1>5 DEF rw_r_unlock_test, IInv, ExactUntilOverlap, Separated
    <2>5. CASE ~overlapped
      <3>1. W = {}
        BY <2>1, <2>5 DEF IInv, Separated
      <3>2. Cardinality(W) = 0
        BY <3>1, FS_EmptySet
      <3>3. signal_int > 0
        BY <2>2, <2>5, <3>2, CountedFinite DEF IInv, ExactUntilOverlap
      <3>4. R' = R /\ W' = W
        BY <1>0, <1>5, <3>3
           DEF rw_r_unlock_test, Goto, TypeOK, CountedReaders, CountedWriters
      <3>5. QED
        BY <2>3, <3>4, <1>5 DEF rw_r_unlock_test, IInv, ExactUntilOverlap, Separated
    <2>6. QED
      BY <2>4, <2>5, <1>0 DEF TypeOK
  <1>6. CASE rw_r_unlock_sub(t)
    <2>1. R' = R \ {t} /\ W' = W /\ t \in R
      BY <1>0, <1>6 DEF rw_r_unlock_sub, Goto, TypeOK, CountedReaders, CountedWriters
    <2>2. TypeOK'
      BY <1>0, <1>6 DEF rw_r_unlock_sub, Goto, TypeOK, Locations
    <2>3. Cardinality(R') = Cardinality(R) - 1
      BY <2>1, CountedFinite, FS_RemoveElement
    <2>4. ExactUntilOverlap'
      BY <2>1, <2>3, <1>0, <1>6, CountedFinite
         DEF rw_r_unlock_sub, IInv, ExactUntilOverlap, TypeOK
    <2>5. Separated'
      BY <2>1, <1>6 DEF rw_r_unlock_sub, IInv, Separated
    <2>6. QED
      BY <2>2, <2>4, <2>5 DEF IInv
  <1>7. CASE rw_w_unlock_test(t)
    <2>1. t \in W
      BY <1>7 DEF rw_w_unlock_test, Goto, CountedWriters
    <2>2. Cardinality(W) > 0
      BY <2>1, CountedFinite, PositiveCardinality
    <2>3. TypeOK'
      BY <1>0, <1>7 DEF rw_w_unlock_test, Goto, TypeOK, Locations
    <2>4. CASE overlapped
      BY <2>3, <2>4, <1>7 DEF rw_w_unlock_test, IInv, ExactUntilOverlap, Separated
    <2>5. CASE ~overlapped
      <3>1. R = {}
        BY <2>1, <2>5 DEF IInv, Separated
      <3>2. Cardinality(R) = 0
        BY <3>1, FS_EmptySet
      <3>3. signal_int < 0
        BY <2>2, <2>5, <3>2, CountedFinite DEF IInv, ExactUntilOverlap
      <3>4. R' = R /\ W' = W
        BY <1>0, <1>7, <3>3
           DEF rw_w_unlock_test, Goto, TypeOK, CountedReaders, CountedWriters
      <3>5. QED
        BY <2>3, <3>4, <1>7 DEF rw_w_unlock_test, IInv, ExactUntilOverlap, Separated
    <2>6. QED
      BY <2>4, <2>5, <1>0 DEF TypeOK
  <1>8. CASE rw_w_unlock_add(t)
    <2>1. R' = R /\ W' = W \ {t} /\ t \in W
      BY <1>0, <1>8 DEF rw_w_unlock_add, Goto, TypeOK, CountedReaders, CountedWriters
    <2>2. TypeOK'
      BY <1>0, <1>8 DEF rw_w_unlock_add, Goto, TypeOK, Locations
    <2>3. Cardinality(W') = Cardinality(W) - 1
      BY <2>1, CountedFinite, FS_RemoveElement
    <2>4. ExactUntilOverlap'
      BY <2>1, <2>3, <1>0, <1>8, CountedFinite
         DEF rw_w_unlock_add, IInv, ExactUntilOverlap, TypeOK
    <2>5. Separated'
      BY <2>1, <1>8 DEF rw_w_unlock_add, IInv, Separated
    <2>6. QED
      BY <2>2, <2>4, <2>5 DEF IInv
  <1>9. QED
    BY <1>1, <1>2, <1>3, <1>4, <1>5, <1>6, <1>7, <1>8 DEF Step

\* Every reachable state satisfies the inductive invariant.
THEOREM Invariance == Spec => []IInv
  <1>1. Init => IInv
    <2> SUFFICES ASSUME Init PROVE IInv
      OBVIOUS
    <2>1. CountedReaders = {} /\ CountedWriters = {}
      BY DEF Init, CountedReaders, CountedWriters
    <2>2. Cardinality(CountedReaders) = 0 /\ Cardinality(CountedWriters) = 0
      BY <2>1, FS_EmptySet
    <2>3. TypeOK
      <3>1. signal_int \in Int /\ pc \in [Threads -> Locations]
        BY DEF Init, Locations
      <3>2. overlapped \in BOOLEAN
        BY Zenon DEF Init
      <3>3. QED
        BY <3>1, <3>2 DEF TypeOK
    <2>4. ExactUntilOverlap
      BY <2>2 DEF Init, ExactUntilOverlap
    <2>5. QED
      BY <2>1, <2>3, <2>4 DEF IInv, Separated
  <1>2. IInv /\ [Next]_vars => IInv'
    <2> SUFFICES ASSUME IInv, [Next]_vars PROVE IInv'
      OBVIOUS
    <2>1. CASE Next
      BY <2>1, StepKeepsIInv DEF Next
    <2>2. CASE UNCHANGED vars
      BY <2>2 DEF vars, IInv, TypeOK, ExactUntilOverlap, Separated,
                  CountedReaders, CountedWriters
    <2>3. QED
      BY <2>1, <2>2
  <1>3. QED
    BY <1>1, <1>2, PTL DEF Spec

\* rw_r_unlock and rw_w_unlock lose no update before a reader and a writer have
\* been inside together: until then the signal counts the threads inside.
THEOREM SignalExact == Spec => []ExactUntilOverlap
  <1>1. IInv => ExactUntilOverlap
    BY DEF IInv
  <1>2. QED
    BY <1>1, Invariance, PTL

----------------------------------------------------------------------------

\* Threads that never take the read side are never at a location of it.
OnWriteSide ==
    /\ \A t \in Threads : pc[t] \in {"idle", "w_sub", "w_in", "w_add"}
    /\ overlapped = FALSE

\* For write_singal_ptr, which only writeBufferOnce uses and only on the write
\* side, the signal is exact for ever: every unlock gives back what its lock took.
THEOREM WriteSignalExact ==
    ASSUME WritersOnly
    PROVE  Spec => []WriteSignalBalanced
  <1>1. Init => OnWriteSide
    BY DEF Init, OnWriteSide
  <1>2. IInv /\ OnWriteSide /\ [Next]_vars => OnWriteSide'
    <2> SUFFICES ASSUME IInv, OnWriteSide, [Next]_vars PROVE OnWriteSide'
      OBVIOUS
    <2>1. pc \in [Threads -> Locations]
      BY DEF IInv, TypeOK
    <2>2. ASSUME NEW t \in Threads, Step(t) PROVE OnWriteSide'
      <3>1. /\ ~rw_r_lock_test(t)
            /\ ~rw_r_lock_add(t)
            /\ ~rw_r_unlock_test(t)
            /\ ~rw_r_unlock_sub(t)
        BY WritersOnly DEF WritersOnly, OnWriteSide, Goto, rw_r_lock_test,
                           rw_r_lock_add, rw_r_unlock_test, rw_r_unlock_sub
      <3>2. CASE rw_w_lock_test(t)
        BY <2>1, <3>2 DEF rw_w_lock_test, Goto, OnWriteSide
      <3>3. CASE rw_w_lock_sub(t)
        <4>1. CountedReaders = {}
          BY DEF OnWriteSide, CountedReaders
        <4>2. overlapped' = FALSE
          BY <4>1, <3>3 DEF rw_w_lock_sub, Record, OnWriteSide
        <4>3. QED
          BY <2>1, <3>3, <4>2 DEF rw_w_lock_sub, Goto, OnWriteSide
      <3>4. CASE rw_w_unlock_test(t)
        BY <2>1, <3>4 DEF rw_w_unlock_test, Goto, OnWriteSide
      <3>5. CASE rw_w_unlock_add(t)
        BY <2>1, <3>5 DEF rw_w_unlock_add, Goto, OnWriteSide
      <3>6. QED
        BY <2>2, <3>1, <3>2, <3>3, <3>4, <3>5 DEF Step
    <2>3. CASE Next
      BY <2>2, <2>3 DEF Next
    <2>4. CASE UNCHANGED vars
      BY <2>4 DEF vars, OnWriteSide
    <2>5. QED
      BY <2>3, <2>4
  <1>3. IInv /\ OnWriteSide => WriteSignalBalanced
    <2> SUFFICES ASSUME IInv, OnWriteSide PROVE WriteSignalBalanced
      OBVIOUS
    <2>1. CountedReaders = {}
      BY DEF OnWriteSide, CountedReaders
    <2>2. Cardinality(CountedReaders) = 0
      BY <2>1, FS_EmptySet
    <2>3. QED
      BY <2>2, CountedFinite DEF IInv, ExactUntilOverlap, OnWriteSide, WriteSignalBalanced
  <1>4. QED
    BY <1>1, <1>2, <1>3, Invariance, PTL DEF Spec

=============================================================================
