------------------------------ MODULE IdProofs ------------------------------
(***************************************************************************)
(* The identifiers that calls receive are distinct, and recorded under     *)
(* their clients, for any number of clients, calls, tries and restarts.    *)
(***************************************************************************)
EXTENDS IdService, TLAPS

\* A thread of the server between lock_guard and its destructor holds the lock.
LockHeld == \A t \in Tries : pc[t] \in {"locked", "filled", "mapped"} => id_lock = t

\* A response is empty until IDInc fills it, from the counter as it still is
\* while the lock is held.
ResponseFilled ==
    \A t \in Tries :
        /\ pc[t] \in {"none", "sent", "locked"} => given_in[t] = 0
        /\ pc[t] \in {"filled", "mapped"} => response[t] = id /\ given_in[t] = life
        /\ pc[t] \in {"unlocked", "replied"} => given_in[t] > 0

\* Identifiers of this run of the server are below the counter, but for the one
\* that is being given.
BelowCounter ==
    \A t \in Tries :
        /\ given_in[t] <= life
        /\ given_in[t] = life
           => \/ response[t] < id
              \/ response[t] = id /\ id_lock = t /\ pc[t] \in {"filled", "mapped"}

\* No two executions of IDInc give the same identifier.
ResponsesDiffer ==
    \A t, u \in Tries :
        t # u /\ given_in[t] > 0 /\ given_in[u] = given_in[t] => response[t] # response[u]

\* What IDInc has entered in the map stays there.
MapHolds ==
    \A t \in Tries :
        given_in[t] = life /\ pc[t] \in {"mapped", "unlocked", "replied"}
        => /\ response[t] \in DOMAIN idmap
           /\ idmap[response[t]] = t[1]

\* A try that was not made yet has not begun.
TriesInOrder ==
    \A t \in Tries : t[3] > try[<<t[1], t[2]>>] => pc[t] = "none"

\* A call that is under way has a current try; what it received is the response
\* to that try.
OutcomeOfTry ==
    \A c \in Calls :
        /\ Pending(c) \/ Received(c) => try[c] > 0
        /\ Received(c) => pc[Current(c)] = "replied" /\ outcome[c].id = response[Current(c)]

Inv ==
    /\ TypeOK
    /\ life > 0
    /\ LockHeld
    /\ ResponseFilled
    /\ BelowCounter
    /\ ResponsesDiffer
    /\ MapHolds
    /\ TriesInOrder
    /\ OutcomeOfTry

----------------------------------------------------------------------------
(***************************************************************************)
(* Every step preserves the invariant: one lemma for each action.          *)
(***************************************************************************)

\* The initial state.
LEMMA InitInv == Init => Inv
BY ServiceAssumption DEF Init, Inv, TypeOK, LockHeld, ResponseFilled, BelowCounter,
     ResponsesDiffer, MapHolds, TriesInOrder, OutcomeOfTry, Pending, Received, Current,
     NoId, Tries, Calls

\* The current try of a call that was made is a try.
LEMMA CurrentTry ==
    ASSUME Inv, NEW c \in Calls, Pending(c) \/ Received(c)
    PROVE  Current(c) \in Tries
BY ServiceAssumption DEF Inv, TypeOK, OutcomeOfTry, Current, Calls, Tries

\* The next try of a call is one, and has not begun.
LEMMA NextTry ==
    ASSUME Inv, NEW c \in Calls, try[c] <= max_retry
    PROVE  LET t == <<c[1], c[2], try[c] + 1>>
           IN  /\ t \in Tries
               /\ pc[t] = "none"
               /\ c = <<t[1], t[2]>>
<1>1. try[c] \in Nat
  BY ServiceAssumption DEF Inv, TypeOK
<1>2. <<c[1], c[2], try[c] + 1>> \in Tries
  BY <1>1, ServiceAssumption DEF Calls, Tries
<1> QED
  BY <1>1, <1>2 DEF Inv, TriesInOrder, Calls

\* call_IDInc of client.cpp.
LEMMA call_IDInc_Inv ==
    ASSUME Inv, NEW call \in Calls, call_IDInc(call)
    PROVE  Inv'
<1>1. TypeOK'
  BY ServiceAssumption
  DEF Inv, TypeOK, call_IDInc, server, replies, Tries, Calls, NoId, Pending,
      Received, Current
<1>2. LockHeld'
  BY ServiceAssumption
  DEF Inv, TypeOK, LockHeld, call_IDInc, server, replies, Tries, Calls, NoId
<1>3. ResponseFilled'
  BY ServiceAssumption
  DEF Inv, TypeOK, LockHeld, ResponseFilled, TriesInOrder, call_IDInc, server, replies, Tries,
      Calls, NoId
<1>4. BelowCounter'
  <2>1. try[call] <= max_retry
    BY ServiceAssumption DEF call_IDInc
  <2>2. pc[<<call[1], call[2], 1>>] = "none"
    BY <2>1, NextTry DEF call_IDInc
  <2> QED
    BY <2>2 DEF Inv, TypeOK, BelowCounter, call_IDInc, server, replies
<1>5. ResponsesDiffer'
  BY ServiceAssumption
  DEF Inv, ResponsesDiffer, call_IDInc, server, replies
<1>6. MapHolds'
  BY ServiceAssumption
  DEF Inv, TypeOK, LockHeld, ResponseFilled, BelowCounter, MapHolds, TriesInOrder,
      call_IDInc, server, replies, Tries, Calls, NoId
<1>7. TriesInOrder'
  BY ServiceAssumption
  DEF Inv, TypeOK, TriesInOrder, OutcomeOfTry, call_IDInc, server, replies, Tries, Calls,
      NoId, Pending, Received, Current
<1>8. OutcomeOfTry'
  BY ServiceAssumption
  DEF Inv, TypeOK, TriesInOrder, OutcomeOfTry, call_IDInc, server, replies, Tries, Calls,
      NoId, Pending, Received, Current
<1>9. (life > 0)'
  BY DEF Inv, TypeOK, call_IDInc, server, replies
<1> QED
  BY <1>1, <1>2, <1>3, <1>4, <1>5, <1>6, <1>7, <1>8, <1>9 DEF Inv

\* HandleIDcreResponse of client.cpp.
LEMMA HandleIDcreResponse_Inv ==
    ASSUME Inv, NEW call \in Calls, HandleIDcreResponse(call)
    PROVE  Inv'
<1>1. TypeOK'
  BY CurrentTry DEF Inv, TypeOK, HandleIDcreResponse, server, replies
<1>2. LockHeld'
  BY ServiceAssumption
  DEF Inv, LockHeld, HandleIDcreResponse, server, replies
<1>3. ResponseFilled'
  BY ServiceAssumption
  DEF Inv, ResponseFilled, HandleIDcreResponse, server, replies
<1>4. BelowCounter'
  BY ServiceAssumption
  DEF Inv, BelowCounter, HandleIDcreResponse, server, replies
<1>5. ResponsesDiffer'
  BY ServiceAssumption
  DEF Inv, ResponsesDiffer, HandleIDcreResponse, server, replies
<1>6. MapHolds'
  BY ServiceAssumption
  DEF Inv, MapHolds, HandleIDcreResponse, server, replies
<1>7. TriesInOrder'
  BY ServiceAssumption
  DEF Inv, TriesInOrder, HandleIDcreResponse, server, replies
<1>8. OutcomeOfTry'
  BY ServiceAssumption
  DEF Inv, TypeOK, TriesInOrder, OutcomeOfTry, HandleIDcreResponse, server, replies, Tries,
      Calls, NoId, Pending, Received, Current
<1>9. (life > 0)'
  BY DEF Inv, TypeOK, HandleIDcreResponse, server, replies
<1> QED
  BY <1>1, <1>2, <1>3, <1>4, <1>5, <1>6, <1>7, <1>8, <1>9 DEF Inv

\* HandleIDcreResponse_timeout of client.cpp.
LEMMA HandleIDcreResponse_timeout_Inv ==
    ASSUME Inv, NEW call \in Calls, HandleIDcreResponse_timeout(call)
    PROVE  Inv'
<1>1. TypeOK'
  BY ServiceAssumption
  DEF Inv, TypeOK, HandleIDcreResponse_timeout, server, replies, Tries, Calls, NoId,
      Pending, Received, Current
<1>2. LockHeld'
  BY ServiceAssumption
  DEF Inv, LockHeld, HandleIDcreResponse_timeout, server, replies
<1>3. ResponseFilled'
  BY ServiceAssumption
  DEF Inv, ResponseFilled, HandleIDcreResponse_timeout, server, replies
<1>4. BelowCounter'
  BY ServiceAssumption
  DEF Inv, BelowCounter, HandleIDcreResponse_timeout, server, replies
<1>5. ResponsesDiffer'
  BY ServiceAssumption
  DEF Inv, ResponsesDiffer, HandleIDcreResponse_timeout, server, replies
<1>6. MapHolds'
  BY ServiceAssumption
  DEF Inv, MapHolds, HandleIDcreResponse_timeout, server, replies
<1>7. TriesInOrder'
  BY ServiceAssumption
  DEF Inv, TriesInOrder, HandleIDcreResponse_timeout, server, replies
<1>8. OutcomeOfTry'
  BY ServiceAssumption
  DEF Inv, TypeOK, TriesInOrder, OutcomeOfTry, HandleIDcreResponse_timeout, server, replies,
      Tries, Calls, NoId, Pending, Received, Current
<1>9. (life > 0)'
  BY DEF Inv, TypeOK, HandleIDcreResponse_timeout, server, replies
<1> QED
  BY <1>1, <1>2, <1>3, <1>4, <1>5, <1>6, <1>7, <1>8, <1>9 DEF Inv

\* connection_breaks of the channel.
LEMMA connection_breaks_Inv ==
    ASSUME Inv, NEW call \in Calls, connection_breaks(call)
    PROVE  Inv'
<1>1. TypeOK'
  <2>1. CASE try[call] <= max_retry
    <3>1. try' \in [Calls -> 0 .. max_retry + 1]
      BY <2>1, ServiceAssumption DEF Inv, TypeOK, connection_breaks
    <3>2. pc' \in [Tries -> {"none", "sent", "locked", "filled", "mapped", "unlocked",
                              "replied", "lost"}]
      BY <2>1, NextTry DEF Inv, TypeOK, connection_breaks
    <3> QED
      BY <2>1, <3>1, <3>2, ServiceAssumption DEF Inv, TypeOK, connection_breaks, server, replies
  <2>2. CASE try[call] > max_retry
    BY <2>2, ServiceAssumption
    DEF Inv, TypeOK, connection_breaks, server, replies, NoId
  <2> QED
    BY <2>1, <2>2, ServiceAssumption DEF Inv, TypeOK
<1>2. LockHeld'
  BY ServiceAssumption
  DEF Inv, TypeOK, LockHeld, connection_breaks, server, replies, Tries, Calls, NoId,
      Pending, Current
<1>3. ResponseFilled'
  <2>1. CASE try[call] <= max_retry
    BY <2>1, NextTry, ServiceAssumption
    DEF Inv, TypeOK, ResponseFilled, connection_breaks, server, replies
  <2>2. CASE try[call] > max_retry
    BY <2>2, ServiceAssumption
    DEF Inv, TypeOK, ResponseFilled, connection_breaks, server, replies, NoId
  <2> QED
    BY <2>1, <2>2, ServiceAssumption DEF Inv, TypeOK
<1>4. BelowCounter'
  <2>1. CASE try[call] <= max_retry
    BY <2>1, NextTry, ServiceAssumption
    DEF Inv, TypeOK, BelowCounter, connection_breaks, server, replies
  <2>2. CASE try[call] > max_retry
    BY <2>2, ServiceAssumption
    DEF Inv, TypeOK, BelowCounter, connection_breaks, server, replies, NoId
  <2> QED
    BY <2>1, <2>2, ServiceAssumption DEF Inv, TypeOK
<1>5. ResponsesDiffer'
  BY ServiceAssumption
  DEF Inv, ResponsesDiffer, connection_breaks, server, replies
<1>6. MapHolds'
  BY ServiceAssumption
  DEF Inv, TypeOK, LockHeld, ResponseFilled, BelowCounter, MapHolds, TriesInOrder,
         connection_breaks, server, replies, Tries, Calls, NoId, Pending, Current
<1>7. TriesInOrder'
  <2>1. CASE try[call] <= max_retry
    <3>1. /\ try' = [try EXCEPT ![call] = try[call] + 1]
          /\ pc' = [pc EXCEPT ![<<call[1], call[2], try[call] + 1>>] = "sent"]
          /\ try[call] \in Nat
      BY <2>1, ServiceAssumption DEF Inv, TypeOK, connection_breaks
    <3> SUFFICES ASSUME NEW t \in Tries, t[3] > try'[<<t[1], t[2]>>]
                 PROVE  pc'[t] = "none"
      BY DEF TriesInOrder
    <3>2. t[3] \in Nat /\ <<t[1], t[2]>> \in Calls
      BY ServiceAssumption DEF Tries, Calls
    <3>3. t[3] > try[<<t[1], t[2]>>]
      <4> DEFINE c == <<t[1], t[2]>>
      <4>1. try[c] \in Nat /\ try \in [Calls -> 0 .. max_retry + 1] /\ c \in Calls
        BY <3>2, ServiceAssumption DEF Inv, TypeOK
      <4> HIDE DEF c
      <4>2. try'[c] >= try[c] /\ try'[c] \in Nat
        BY <3>1, <4>1
      <4>3. t[3] > try'[c]
        BY DEF c
      <4>4. t[3] > try[c]
        BY <3>2, <4>1, <4>2, <4>3
      <4> QED
        BY <4>4 DEF c
    <3>4. t # <<call[1], call[2], try[call] + 1>>
      BY <3>1, <3>2 DEF Inv, TypeOK, Calls
    <3> QED
      BY <3>1, <3>3, <3>4 DEF Inv, TypeOK, TriesInOrder
  <2>2. CASE try[call] > max_retry
    BY <2>2, ServiceAssumption, SMTT(40)
    DEF Inv, TypeOK, TriesInOrder, connection_breaks, server, replies, NoId, Tries, Calls
  <2> QED
    BY <2>1, <2>2, ServiceAssumption DEF Inv, TypeOK
<1>8. OutcomeOfTry'
  BY ServiceAssumption
  DEF Inv, TypeOK, TriesInOrder, OutcomeOfTry, connection_breaks, server, replies, Tries,
      Calls, NoId, Pending, Received, Current
<1>9. (life > 0)'
  BY DEF Inv, TypeOK, connection_breaks, server, replies
<1> QED
  BY <1>1, <1>2, <1>3, <1>4, <1>5, <1>6, <1>7, <1>8, <1>9 DEF Inv

\* lock_id of server.cpp.
LEMMA lock_id_Inv ==
    ASSUME Inv, NEW t \in Tries, lock_id(t)
    PROVE  Inv'
<1>1. TypeOK'
  BY ServiceAssumption
  DEF Inv, TypeOK, lock_id, server, replies, At, Tries, Calls, NoId, Pending,
      Received, Current
<1>2. LockHeld'
  BY ServiceAssumption
  DEF Inv, TypeOK, LockHeld, lock_id, server, replies, At, Tries, Calls, NoId
<1>3. ResponseFilled'
  BY ServiceAssumption
  DEF Inv, TypeOK, LockHeld, ResponseFilled, TriesInOrder, lock_id, server, replies, At,
      Tries, Calls, NoId
<1>4. BelowCounter'
  BY ServiceAssumption
  DEF Inv, TypeOK, LockHeld, ResponseFilled, BelowCounter, lock_id, server, replies, At,
      Tries, Calls, NoId
<1>5. ResponsesDiffer'
  BY ServiceAssumption
  DEF Inv, ResponsesDiffer, lock_id, server, replies
<1>6. MapHolds'
  BY ServiceAssumption
  DEF Inv, TypeOK, LockHeld, ResponseFilled, BelowCounter, MapHolds, TriesInOrder,
         lock_id, server, replies, At, Tries, Calls, NoId
<1>7. TriesInOrder'
  BY ServiceAssumption
  DEF Inv, TypeOK, TriesInOrder, OutcomeOfTry, lock_id, server, replies, At, Tries, Calls,
      NoId, Pending, Received, Current
<1>8. OutcomeOfTry'
  BY ServiceAssumption
  DEF Inv, TypeOK, TriesInOrder, OutcomeOfTry, lock_id, server, replies, At, Tries, Calls,
      NoId, Pending, Received, Current
<1>9. (life > 0)'
  BY DEF Inv, TypeOK, lock_id, server, replies
<1> QED
  BY <1>1, <1>2, <1>3, <1>4, <1>5, <1>6, <1>7, <1>8, <1>9 DEF Inv

\* set_message of server.cpp.
LEMMA set_message_Inv ==
    ASSUME Inv, NEW t \in Tries, set_message(t)
    PROVE  Inv'
<1>1. TypeOK'
  BY ServiceAssumption
  DEF Inv, TypeOK, set_message, server, replies, At, Tries, Calls, NoId, Pending,
      Received, Current
<1>2. LockHeld'
  BY ServiceAssumption
  DEF Inv, TypeOK, LockHeld, set_message, server, replies, At, Tries, Calls, NoId
<1>3. ResponseFilled'
  BY ServiceAssumption
  DEF Inv, TypeOK, LockHeld, ResponseFilled, TriesInOrder, set_message, server, replies, At,
      Tries, Calls, NoId
<1>4. BelowCounter'
  BY ServiceAssumption
  DEF Inv, TypeOK, LockHeld, ResponseFilled, BelowCounter, set_message, server, replies, At,
      Tries, Calls, NoId
<1>5. ResponsesDiffer'
  BY ServiceAssumption
  DEF Inv, TypeOK, LockHeld, ResponseFilled, BelowCounter, ResponsesDiffer,
         set_message, server, replies, At, Tries, Calls, NoId
<1>6. MapHolds'
  BY ServiceAssumption
  DEF Inv, TypeOK, LockHeld, ResponseFilled, BelowCounter, MapHolds, TriesInOrder,
         set_message, server, replies, At, Tries, Calls, NoId
<1>7. TriesInOrder'
  BY ServiceAssumption
  DEF Inv, TypeOK, TriesInOrder, OutcomeOfTry, set_message, server, replies, At, Tries, Calls,
      NoId, Pending, Received, Current
<1>8. OutcomeOfTry'
  BY ServiceAssumption
  DEF Inv, TypeOK, TriesInOrder, OutcomeOfTry, set_message, server, replies, At, Tries, Calls,
      NoId, Pending, Received, Current
<1>9. (life > 0)'
  BY DEF Inv, TypeOK, set_message, server, replies
<1> QED
  BY <1>1, <1>2, <1>3, <1>4, <1>5, <1>6, <1>7, <1>8, <1>9 DEF Inv

\* set_idmap of server.cpp.
LEMMA set_idmap_Inv ==
    ASSUME Inv, NEW t \in Tries, set_idmap(t)
    PROVE  Inv'
<1>1. TypeOK'
  BY ServiceAssumption
  DEF Inv, TypeOK, set_idmap, server, replies, At, Tries, Calls, NoId, Pending,
      Received, Current
<1>2. LockHeld'
  BY ServiceAssumption
  DEF Inv, TypeOK, LockHeld, set_idmap, server, replies, At, Tries, Calls, NoId
<1>3. ResponseFilled'
  BY ServiceAssumption
  DEF Inv, TypeOK, LockHeld, ResponseFilled, TriesInOrder, set_idmap, server, replies, At,
      Tries, Calls, NoId
<1>4. BelowCounter'
  BY ServiceAssumption
  DEF Inv, TypeOK, LockHeld, ResponseFilled, BelowCounter, set_idmap, server, replies, At,
      Tries, Calls, NoId
<1>5. ResponsesDiffer'
  BY ServiceAssumption
  DEF Inv, ResponsesDiffer, set_idmap, server, replies
<1>6. MapHolds'
  BY ServiceAssumption
  DEF Inv, TypeOK, LockHeld, ResponseFilled, BelowCounter, MapHolds, TriesInOrder,
         set_idmap, server, replies, At, Tries, Calls, NoId
<1>7. TriesInOrder'
  BY ServiceAssumption
  DEF Inv, TypeOK, TriesInOrder, OutcomeOfTry, set_idmap, server, replies, At, Tries, Calls,
      NoId, Pending, Received, Current
<1>8. OutcomeOfTry'
  BY ServiceAssumption
  DEF Inv, TypeOK, TriesInOrder, OutcomeOfTry, set_idmap, server, replies, At, Tries, Calls,
      NoId, Pending, Received, Current
<1>9. (life > 0)'
  BY DEF Inv, TypeOK, set_idmap, server, replies
<1> QED
  BY <1>1, <1>2, <1>3, <1>4, <1>5, <1>6, <1>7, <1>8, <1>9 DEF Inv

\* increment_id of server.cpp.
LEMMA increment_id_Inv ==
    ASSUME Inv, NEW t \in Tries, increment_id(t)
    PROVE  Inv'
<1>1. TypeOK'
  BY ServiceAssumption
  DEF Inv, TypeOK, increment_id, server, replies, At, Tries, Calls, NoId,
      Pending, Received, Current
<1>2. LockHeld'
  BY ServiceAssumption
  DEF Inv, TypeOK, LockHeld, increment_id, server, replies, At, Tries, Calls, NoId
<1>3. ResponseFilled'
  BY ServiceAssumption
  DEF Inv, TypeOK, LockHeld, ResponseFilled, TriesInOrder, increment_id, server, replies, At,
      Tries, Calls, NoId
<1>4. BelowCounter'
  BY ServiceAssumption
  DEF Inv, TypeOK, LockHeld, ResponseFilled, BelowCounter, increment_id, server, replies, At,
      Tries, Calls, NoId
<1>5. ResponsesDiffer'
  BY ServiceAssumption
  DEF Inv, ResponsesDiffer, increment_id, server, replies
<1>6. MapHolds'
  BY ServiceAssumption
  DEF Inv, TypeOK, LockHeld, ResponseFilled, BelowCounter, MapHolds, TriesInOrder,
         increment_id, server, replies, At, Tries, Calls, NoId
<1>7. TriesInOrder'
  BY ServiceAssumption
  DEF Inv, TypeOK, TriesInOrder, OutcomeOfTry, increment_id, server, replies, At, Tries,
      Calls, NoId, Pending, Received, Current
<1>8. OutcomeOfTry'
  BY ServiceAssumption
  DEF Inv, TypeOK, TriesInOrder, OutcomeOfTry, increment_id, server, replies, At, Tries,
      Calls, NoId, Pending, Received, Current
<1>9. (life > 0)'
  BY DEF Inv, TypeOK, increment_id, server, replies
<1> QED
  BY <1>1, <1>2, <1>3, <1>4, <1>5, <1>6, <1>7, <1>8, <1>9 DEF Inv

\* done_run of server.cpp.
LEMMA done_run_Inv ==
    ASSUME Inv, NEW t \in Tries, done_run(t)
    PROVE  Inv'
<1>1. TypeOK'
  BY ServiceAssumption
  DEF Inv, TypeOK, done_run, server, replies, At, Tries, Calls, NoId, Pending,
      Received, Current
<1>2. LockHeld'
  BY ServiceAssumption
  DEF Inv, TypeOK, LockHeld, done_run, server, replies, At, Tries, Calls, NoId
<1>3. ResponseFilled'
  BY ServiceAssumption
  DEF Inv, TypeOK, LockHeld, ResponseFilled, TriesInOrder, done_run, server, replies, At,
      Tries, Calls, NoId
<1>4. BelowCounter'
  BY ServiceAssumption
  DEF Inv, TypeOK, LockHeld, ResponseFilled, BelowCounter, done_run, server, replies, At,
      Tries, Calls, NoId
<1>5. ResponsesDiffer'
  BY ServiceAssumption
  DEF Inv, ResponsesDiffer, done_run, server, replies
<1>6. MapHolds'
  BY ServiceAssumption
  DEF Inv, TypeOK, LockHeld, ResponseFilled, BelowCounter, MapHolds, TriesInOrder,
         done_run, server, replies, At, Tries, Calls, NoId
<1>7. TriesInOrder'
  BY ServiceAssumption
  DEF Inv, TypeOK, TriesInOrder, OutcomeOfTry, done_run, server, replies, At, Tries, Calls,
      NoId, Pending, Received, Current
<1>8. OutcomeOfTry'
  BY ServiceAssumption
  DEF Inv, TypeOK, TriesInOrder, OutcomeOfTry, done_run, server, replies, At, Tries, Calls,
      NoId, Pending, Received, Current
<1>9. (life > 0)'
  BY DEF Inv, TypeOK, done_run, server, replies
<1> QED
  BY <1>1, <1>2, <1>3, <1>4, <1>5, <1>6, <1>7, <1>8, <1>9 DEF Inv

\* restart of server.cpp.
LEMMA restart_Inv ==
    ASSUME Inv, restart
    PROVE  Inv'
<1>1. TypeOK'
  BY ServiceAssumption
  DEF Inv, TypeOK, restart, server, replies, Tries, Calls, NoId, Pending,
      Received, Current
<1>2. LockHeld'
  BY ServiceAssumption
  DEF Inv, TypeOK, LockHeld, restart, server, replies, Tries, Calls, NoId
<1>3. ResponseFilled'
  BY ServiceAssumption
  DEF Inv, TypeOK, LockHeld, ResponseFilled, TriesInOrder, restart, server, replies, Tries,
      Calls, NoId
<1>4. BelowCounter'
  BY ServiceAssumption
  DEF Inv, TypeOK, LockHeld, ResponseFilled, BelowCounter, restart, server, replies, Tries,
      Calls, NoId
<1>5. ResponsesDiffer'
  BY ServiceAssumption
  DEF Inv, ResponsesDiffer, restart, server, replies
<1>6. MapHolds'
  BY ServiceAssumption
  DEF Inv, TypeOK, LockHeld, ResponseFilled, BelowCounter, MapHolds, TriesInOrder,
         restart, server, replies, Tries, Calls, NoId
<1>7. TriesInOrder'
  BY ServiceAssumption
  DEF Inv, TypeOK, TriesInOrder, OutcomeOfTry, restart, server, replies, Tries, Calls, NoId,
      Pending, Received, Current
<1>8. OutcomeOfTry'
  BY CurrentTry DEF Inv, TypeOK, OutcomeOfTry, restart, replies, Pending, Received,
                   Current
<1>9. (life > 0)'
  BY DEF Inv, TypeOK, restart, server, replies
<1> QED
  BY <1>1, <1>2, <1>3, <1>4, <1>5, <1>6, <1>7, <1>8, <1>9 DEF Inv

\* A step that changes nothing.
LEMMA StutterInv == ASSUME Inv, UNCHANGED vars PROVE Inv'
BY DEF vars, Inv, TypeOK, LockHeld, ResponseFilled, BelowCounter, ResponsesDiffer, MapHolds,
       TriesInOrder, OutcomeOfTry, Pending, Received, Current

\* The invariant holds in every reachable state: the state of the lock, the
\* counter, the responses and the map of server.cpp belong together.
THEOREM Invariance == Spec => []Inv
<1>1. Init => Inv
  BY InitInv
<1>2. Inv /\ [Next]_vars => Inv'
  <2> SUFFICES ASSUME Inv, [Next]_vars PROVE Inv'
    OBVIOUS
  <2>1. CASE \E call \in Calls :
              \/ call_IDInc(call)
              \/ HandleIDcreResponse(call)
              \/ HandleIDcreResponse_timeout(call)
              \/ connection_breaks(call)
    BY <2>1, call_IDInc_Inv, HandleIDcreResponse_Inv, HandleIDcreResponse_timeout_Inv,
       connection_breaks_Inv
  <2>2. CASE \E t \in Tries : IDInc(t)
    BY <2>2, lock_id_Inv, set_message_Inv, set_idmap_Inv, increment_id_Inv, done_run_Inv
    DEF IDInc
  <2>3. CASE restart
    BY <2>3, restart_Inv
  <2>4. CASE UNCHANGED vars
    BY <2>4, StutterInv
  <2> QED
    BY <2>1, <2>2, <2>3, <2>4 DEF Next
<1> QED
  BY <1>1, <1>2, PTL DEF Spec

\* Two calls that have received an identifier have received different ones, or
\* theirs are from different runs of the server.
THEOREM IdsUnique == Spec => []UniqueIds
<1>1. Inv => UniqueIds
  <2> SUFFICES ASSUME Inv, NEW c \in Calls, NEW d \in Calls,
                      Received(c), Received(d), c # d, AnsweredIn(c) = AnsweredIn(d)
               PROVE  outcome[c].id # outcome[d].id
    BY DEF UniqueIds
  <2>1. Current(c) \in Tries /\ Current(d) \in Tries
    BY CurrentTry
  <2>2. Current(c) # Current(d)
    BY DEF Current, Calls
  <2>3. outcome[c].id = response[Current(c)] /\ outcome[d].id = response[Current(d)]
    BY DEF Inv, OutcomeOfTry
  <2>4. given_in[Current(c)] > 0 /\ given_in[Current(d)] = given_in[Current(c)]
    BY <2>1 DEF Inv, ResponseFilled, OutcomeOfTry, AnsweredIn
  <2> QED
    BY <2>1, <2>2, <2>3, <2>4 DEF Inv, ResponsesDiffer
<1> QED
  BY <1>1, Invariance, PTL

\* The server's map names, for every identifier it has given and that was
\* received, the client that received it.
THEOREM OwnersRecorded == Spec => []OwnerRecorded
<1>1. Inv => OwnerRecorded
  <2> SUFFICES ASSUME Inv, NEW c \in Calls, Received(c), AnsweredIn(c) = life
               PROVE  /\ outcome[c].id \in DOMAIN idmap
                      /\ idmap[outcome[c].id] = c[1]
    BY DEF OwnerRecorded
  <2>1. Current(c) \in Tries
    BY CurrentTry
  <2>2. pc[Current(c)] = "replied" /\ outcome[c].id = response[Current(c)]
    BY DEF Inv, OutcomeOfTry
  <2>3. Current(c)[1] = c[1]
    BY DEF Current, Calls
  <2> QED
    BY <2>1, <2>2, <2>3 DEF Inv, MapHolds, AnsweredIn
<1> QED
  BY <1>1, Invariance, PTL

\* The state of the service keeps its types.
THEOREM TypeCorrect == Spec => []TypeOK
BY Invariance, PTL DEF Inv

=============================================================================
