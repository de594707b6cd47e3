----------------------------- MODULE IdService -----------------------------
(***************************************************************************)
(* The identifier service: server.cpp counts under id_lock, client.cpp     *)
(* calls IDInc asynchronously through a brpc channel that tries a call     *)
(* again when its connection breaks.                                       *)
(*                                                                         *)
(* One try of a call is one request, and one execution of IDInc on a       *)
(* thread of the server.  An identifier is the number that its decimal     *)
(* text stands for, to_string being one to one.  A client cannot tell from *)
(* which run of the server process it is: given_in, a history of the runs, *)
(* is kept for the properties.                                             *)
(***************************************************************************)
EXTENDS Integers

CONSTANTS
    Clients,
    LogIds,      \* the calls of a client
    max_retry,
    MaxLives,    \* bound: runs of the server process
    None

ASSUME ServiceAssumption ==
    /\ max_retry \in Nat
    /\ MaxLives \in Nat
    /\ None \notin Clients \X LogIds \X (1 .. max_retry + 1)

Calls == Clients \X LogIds

Tries == Clients \X LogIds \X (1 .. max_retry + 1)

VARIABLES
    id, idmap, id_lock,  \* the server's variables; id_lock is the try that holds it
    life,                \* which run of the server this is
    pc,                  \* pc[t]: how far IDInc is for try t
    response,            \* response[t]: the identifier in its response
    given_in,            \* given_in[t]: the run that filled the response, a history
    try,                 \* try[call]: the number of the current try, 0 before the call
    outcome              \* outcome[call]: what the client knows, and the identifier

vars == <<id, idmap, id_lock, life, pc, response, given_in, try, outcome>>

server == <<id, idmap, id_lock, life>>

replies == <<response, given_in>>

\* An empty response.
NoId == 0

Init ==
    /\ id = 1
    /\ idmap = <<>>
    /\ id_lock = None
    /\ life = 1
    /\ pc = [t \in Tries |-> "none"]
    /\ response = [t \in Tries |-> NoId]
    /\ given_in = [t \in Tries |-> 0]
    /\ try = [call \in Calls |-> 0]
    /\ outcome = [call \in Calls |-> [state |-> "none", id |-> NoId]]

Current(call) == <<call[1], call[2], try[call]>>

Pending(call) == outcome[call].state = "pending"

Lost(call) == Pending(call) /\ pc[Current(call)] = "lost"

----------------------------------------------------------------------------
(***************************************************************************)
(* The client.                                                             *)
(***************************************************************************)

\* stub.IDInc with a callback: main goes on to the next call at once.
call_IDInc(call) ==
    /\ try[call] = 0
    /\ try' = [try EXCEPT ![call] = 1]
    /\ pc' = [pc EXCEPT ![<<call[1], call[2], 1>>] = "sent"]
    /\ outcome' = [outcome EXCEPT ![call] = [state |-> "pending", id |-> NoId]]
    /\ UNCHANGED <<replies, server>>

\* HandleIDcreResponse: the reply to the current try.
HandleIDcreResponse(call) ==
    /\ Pending(call)
    /\ pc[Current(call)] = "replied"
    /\ outcome' = [outcome EXCEPT ![call] =
                      [state |-> "received", id |-> response[Current(call)]]]
    /\ UNCHANGED <<pc, replies, try, server>>

\* cntl->Failed() after timeout_ms.
HandleIDcreResponse_timeout(call) ==
    /\ Pending(call)
    /\ outcome' = [outcome EXCEPT ![call] = [state |-> "failed", id |-> NoId]]
    /\ UNCHANGED <<pc, replies, try, server>>

\* The connection of the current try breaks, with the request or the reply on it;
\* the library tries again up to max_retry times, then the call fails.  The
\* server goes on with the old try.
connection_breaks(call) ==
    /\ Pending(call)
    /\ \/ /\ try[call] <= max_retry
          /\ try' = [try EXCEPT ![call] = @ + 1]
          /\ pc' = [pc EXCEPT ![<<call[1], call[2], try[call] + 1>>] = "sent"]
          /\ UNCHANGED outcome
       \/ /\ try[call] > max_retry
          /\ outcome' = [outcome EXCEPT ![call] = [state |-> "failed", id |-> NoId]]
          /\ UNCHANGED <<pc, try>>
    /\ UNCHANGED <<replies, server>>

----------------------------------------------------------------------------
(***************************************************************************)
(* The server: IDInc for one try.                                          *)
(***************************************************************************)

At(t, here, there) == pc[t] = here /\ pc' = [pc EXCEPT ![t] = there]

\* Faulty variant: no lock.
lock_id_never(t) ==
    /\ At(t, "sent", "locked")
    /\ UNCHANGED <<id_lock, id, idmap, life, replies, try, outcome>>

\* lock_guard guard(id_lock).
lock_id(t) ==
    /\ At(t, "sent", "locked")
    /\ id_lock = None
    /\ id_lock' = t
    /\ UNCHANGED <<id, idmap, life, replies, try, outcome>>

\* response->set_message(to_string(id)).
set_message(t) ==
    /\ At(t, "locked", "filled")
    /\ response' = [response EXCEPT ![t] = id]
    /\ given_in' = [given_in EXCEPT ![t] = life]
    /\ UNCHANGED <<id, idmap, id_lock, life, try, outcome>>

\* Faulty variant: the map is filled with the identifier after this one.
set_idmap_next(t) ==
    /\ At(t, "filled", "mapped")
    /\ idmap' = [number \in DOMAIN idmap \cup {id + 1} |->
                    IF number = id + 1 THEN t[1] ELSE idmap[number]]
    /\ UNCHANGED <<id, id_lock, life, replies, try, outcome>>

\* Faulty variant: idmap[remote_side] = id.
set_idmap_by_client(t) ==
    /\ At(t, "filled", "mapped")
    /\ idmap' = [client \in DOMAIN idmap \cup {t[1]} |->
                    IF client = t[1] THEN id ELSE idmap[client]]
    /\ UNCHANGED <<id, id_lock, life, replies, try, outcome>>

\* idmap[id] = remote_side.
set_idmap(t) ==
    /\ At(t, "filled", "mapped")
    /\ idmap' = [number \in DOMAIN idmap \cup {id} |->
                    IF number = id THEN t[1] ELSE idmap[number]]
    /\ UNCHANGED <<id, id_lock, life, replies, try, outcome>>

\* Faulty variant: id_lock.lock() without an unlock.
increment_id_keeps_lock(t) ==
    /\ At(t, "mapped", "unlocked")
    /\ id' = id + 1
    /\ UNCHANGED <<id_lock, idmap, life, replies, try, outcome>>

\* id++, and the destructor of guard.
increment_id(t) ==
    /\ At(t, "mapped", "unlocked")
    /\ id' = id + 1
    /\ id_lock' = None
    /\ UNCHANGED <<idmap, life, replies, try, outcome>>

\* The destructor of done_guard, after that of guard: the reply is sent.
done_run(t) ==
    /\ At(t, "unlocked", "replied")
    /\ UNCHANGED <<replies, try, outcome, server>>

\* The process is started again: nothing of it was stored.
restart ==
    /\ life < MaxLives
    /\ life' = life + 1
    /\ id' = 1
    /\ idmap' = <<>>
    /\ id_lock' = None
    /\ pc' = [t \in Tries |-> IF pc[t] \in {"none", "replied"} THEN pc[t] ELSE "lost"]
    /\ UNCHANGED <<replies, try, outcome>>

IDInc(t) ==
    lock_id(t) \/ set_message(t) \/ set_idmap(t) \/ increment_id(t) \/ done_run(t)

Next ==
    \/ \E call \in Calls :
          \/ call_IDInc(call)
          \/ HandleIDcreResponse(call)
          \/ HandleIDcreResponse_timeout(call)
          \/ connection_breaks(call)
    \/ \E t \in Tries : IDInc(t)
    \/ restart

\* Requests that arrived are executed, replies are delivered, and a broken
\* connection is noticed.
Fairness ==
    /\ \A t \in Tries : WF_vars(IDInc(t))
    /\ \A call \in Calls :
          /\ WF_vars(HandleIDcreResponse(call))
          /\ WF_vars(Lost(call) /\ connection_breaks(call))

Spec == Init /\ [][Next]_vars /\ Fairness

----------------------------------------------------------------------------
(***************************************************************************)
(* Properties.                                                             *)
(***************************************************************************)

\* The types of the state.
TypeOK ==
    /\ id \in Nat \ {0}
    /\ DOMAIN idmap \subseteq Nat /\ \A number \in DOMAIN idmap : idmap[number] \in Clients
    /\ id_lock \in Tries \cup {None}
    /\ life \in Nat
    /\ pc \in [Tries -> {"none", "sent", "locked", "filled", "mapped", "unlocked",
                         "replied", "lost"}]
    /\ response \in [Tries -> Nat]
    /\ given_in \in [Tries -> Nat]
    /\ try \in [Calls -> 0 .. max_retry + 1]
    /\ outcome \in [Calls -> [state : {"none", "pending", "failed", "received"}, id : Nat]]

Received(call) == outcome[call].state = "received"

\* The run of the server that a call was answered by.
AnsweredIn(call) == given_in[Current(call)]

\* Two calls never receive the same identifier from one run of the server,
\* whatever is tried again, broken or restarted in between.  Two runs give the
\* same identifiers, and IDInc does not say which run answers.
UniqueIds ==
    \A c, d \in Calls :
        Received(c) /\ Received(d) /\ c # d /\ AnsweredIn(c) = AnsweredIn(d)
        => outcome[c].id # outcome[d].id

\* A received identifier is entered in the map under the client that received
\* it, as long as the server that gave it runs.
OwnerRecorded ==
    \A c \in Calls :
        Received(c) /\ AnsweredIn(c) = life
        => outcome[c].id \in DOMAIN idmap /\ idmap[outcome[c].id] = c[1]

\* A call that is made ends: it receives an identifier or fails.
EveryCallEnds == \A c \in Calls : (try[c] > 0) ~> ~Pending(c)

=============================================================================
