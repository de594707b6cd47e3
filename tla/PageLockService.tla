-------------------------- MODULE PageLockService --------------------------
(***************************************************************************)
(* The centralized page lock service: client threads calling               *)
(* RemotePageLockClient::request_page_lock, the message layer of each host *)
(* (one event loop, one list of unprocessed replies), and the server's     *)
(* event loop, which runs lock_request_callback on the LockTable.          *)
(*                                                                         *)
(* A request crosses one TCP connection per host, its reply another: each  *)
(* is a FIFO sequence.  sendMessage ignores a connect or a send that fails,*)
(* so either may be lost without anybody noticing.  What the calling       *)
(* program does with the replies is not in the repository; told records    *)
(* what it may conclude from them, and Disciplined says whether it only    *)
(* locks what it does not hold and only unlocks what it does.              *)
(*                                                                         *)
(* readMessage walks the list of replies and erases from it in one step    *)
(* here.  What an erase may do to a reply that the event loop appends in   *)
(* the meantime (MessageDispatch) is a lost reply; what two threads do     *)
(* that walk the list of their host at once is not modelled, and together  *)
(* records that it may have happened.                                      *)
(***************************************************************************)
EXTENDS LockTable, FiniteSets, SequencesExt, Functions

CONSTANTS
    Threads,      \* the client threads
    HostOf,       \* HostOf[t]: the host t runs on
    PagesOf,      \* PagesOf[t]: the pages t asks for
    Modes,        \* the lock types the threads ask for
    Disciplined,  \* the callers heed the replies
    HandlerReady, \* lock_manager_init is over before the first request
    SendMayFail,  \* a connect or a send may fail, on either side
    Configured,   \* the hosts whose configuration names the lock server and
                  \* both message types
    Answerable,   \* the hosts the server's configuration names
    MaxCalls,     \* bound: calls of request_page_lock per thread
    NoCall        \* the thread is not in request_page_lock

ASSUME ServiceAssumption ==
    /\ HostOf \in [Threads -> Hosts]
    /\ PagesOf \in [Threads -> SUBSET Pages]
    /\ Modes \subseteq {R_LOCK, W_LOCK}
    /\ Disciplined \in BOOLEAN
    /\ HandlerReady \in BOOLEAN
    /\ SendMayFail \in BOOLEAN
    /\ Configured \subseteq Hosts
    /\ Answerable \subseteq Hosts
    /\ MaxCalls \in Nat
    /\ NoCall \notin [page : Pages, lock_type : PageLockType]

VARIABLES
    server,          \* how far lock_manager_init has come: the callback of
                     \* "PageLockRequest" is not set, its function is, its
                     \* argument too; or the server has died
    stranded,        \* requests nobody will answer: in the server's
                     \* unprocessed_mess_list, or never sent
    to_server,       \* to_server[h]: requests of h on their way
    to_client,       \* to_client[h]: replies to h on their way
    lost_replies,    \* lost_replies[h]: replies to h that never arrive
    unprocessed,     \* unprocessed[h]: unprocessed_mess_list of "PageLockReply"
    call,            \* call[t]: the request t waits for, or NoCall
    told,            \* told[t][p]: the lock t has been told it holds
    calls,           \* calls[t]: calls made so far (for the bound)
    together         \* history: hosts on which two threads have been in
                     \* request_page_lock at once

net == <<to_server, to_client, lost_replies, unprocessed, stranded>>

client == <<call, told, calls, together>>

vars == <<page_lock_hash, server, net, client>>

\* The member caller is not in the code: it records which thread a message
\* belongs to, and no guard reads it.
PageLockRequest == [page : Pages, lock_type : PageLockType, caller : Threads]

PageLockReply == [page : Pages, reply_type : PageReplyType, caller : Threads]

Calls == [page : Pages, lock_type : PageLockType]

Init ==
    /\ TableInit
    /\ server = IF HandlerReady THEN "ready" ELSE "none"
    /\ stranded = <<>>
    /\ to_server = [h \in Hosts |-> <<>>]
    /\ to_client = [h \in Hosts |-> <<>>]
    /\ lost_replies = [h \in Hosts |-> <<>>]
    /\ unprocessed = [h \in Hosts |-> <<>>]
    /\ call = [t \in Threads |-> NoCall]
    /\ told = [t \in Threads |-> [p \in Pages |-> UNLOCK]]
    /\ calls = [t \in Threads |-> 0]
    /\ together = {}

----------------------------------------------------------------------------
(***************************************************************************)
(* The client.                                                             *)
(***************************************************************************)

\* The calling program: what it may ask next.
MayAsk(t, page, lock_type) ==
    /\ lock_type \in Modes \cup {UNLOCK}
    /\ Disciplined => (lock_type = UNLOCK <=> told[t][page] # UNLOCK)

\* Another thread of its host is in request_page_lock as well.
NotAlone(t) == \E u \in Threads \ {t} : HostOf[u] = HostOf[t] /\ call[u] # NoCall

\* request_page_lock: sendMessage, then the thread is in wait_for_lock_reply.
\* On a host whose configuration lacks the server or the types sendMessage is
\* negative and the call returns -1, which changes nothing.  A program that
\* asks for UNLOCK has stopped using the page.
request_page_lock(t, page, lock_type) ==
    /\ HostOf[t] \in Configured
    /\ call[t] = NoCall
    /\ calls[t] < MaxCalls
    /\ MayAsk(t, page, lock_type)
    /\ calls' = [calls EXCEPT ![t] = @ + 1]
    /\ call' = [call EXCEPT ![t] = [page |-> page, lock_type |-> lock_type]]
    /\ to_server' = [to_server EXCEPT ![HostOf[t]] =
           Append(@, [page |-> page, lock_type |-> lock_type, caller |-> t])]
    /\ told' = [told EXCEPT ![t][page] = IF lock_type = UNLOCK THEN UNLOCK ELSE @]
    /\ together' = IF NotAlone(t) THEN together \cup {HostOf[t]} ELSE together
    /\ UNCHANGED <<page_lock_hash, server, to_client, lost_replies, unprocessed, stranded>>

\* try_run_callback on the client: "PageLockReply" has no callback, so the
\* event loop appends the message to the unprocessed list.
try_run_callback(h) ==
    /\ to_client[h] # <<>>
    /\ unprocessed' = [unprocessed EXCEPT ![h] = Append(@, Head(to_client[h]))]
    /\ to_client' = [to_client EXCEPT ![h] = Tail(@)]
    /\ UNCHANGED <<page_lock_hash, server, to_server, lost_replies, stranded, client>>

\* Faulty variants: any reply is taken; a refusal never is.
filter_takes_all(reply, page) == TRUE

filter_skips_refusals(reply, page) ==
    reply.page = page /\ reply.reply_type # "LOCK_FAIL"

\* PageLockReplyFilter: the page is all that is compared.
PageLockReplyFilter(reply, page) == reply.page = page

\* readMessage(mess, filter): the position of the first reply the filter takes.
readMessage(h, page, i) ==
    /\ i \in DOMAIN unprocessed[h]
    /\ PageLockReplyFilter(unprocessed[h][i], page)
    /\ \A j \in 1 .. i - 1 : ~PageLockReplyFilter(unprocessed[h][j], page)

\* What the calling program concludes from the reply to its request.
Conclusion(lock_type, reply_type, before) ==
    IF lock_type # UNLOCK /\ reply_type = "LOCK_SUCCESS" THEN lock_type ELSE before

\* Faulty variant: the reply is copied and not erased from the list.
wait_without_erase(t) ==
    /\ call[t] # NoCall
    /\ \E i \in DOMAIN unprocessed[HostOf[t]] :
           /\ readMessage(HostOf[t], call[t].page, i)
           /\ told' = [told EXCEPT ![t][call[t].page] =
                  Conclusion(call[t].lock_type, unprocessed[HostOf[t]][i].reply_type, @)]
    /\ call' = [call EXCEPT ![t] = NoCall]
    /\ UNCHANGED <<page_lock_hash, server, net, calls, together>>

\* wait_for_lock_reply: the polling iteration that finds a reply; the others
\* (readMessage returns 0, then sleep) change nothing.
wait_for_lock_reply(t) ==
    /\ call[t] # NoCall
    /\ \E i \in DOMAIN unprocessed[HostOf[t]] :
           LET h == HostOf[t]
               page == call[t].page
           IN  /\ readMessage(h, page, i)
               /\ told' = [told EXCEPT ![t][page] =
                      Conclusion(call[t].lock_type, unprocessed[h][i].reply_type, @)]
               /\ unprocessed' = [unprocessed EXCEPT ![h] = RemoveAt(@, i)]
    /\ call' = [call EXCEPT ![t] = NoCall]
    /\ UNCHANGED <<page_lock_hash, server, to_server, to_client, lost_replies, stranded,
                   calls, together>>

----------------------------------------------------------------------------
(***************************************************************************)
(* The server.                                                             *)
(***************************************************************************)

\* lock_manager_init, last statement: register_recive_handler stores the
\* function and then its argument.  init_handle has started the event loop
\* before.
register_cb_function ==
    /\ server = "none"
    /\ server' = "function"
    /\ UNCHANGED <<page_lock_hash, net, client>>

register_cb_arg ==
    /\ server = "function"
    /\ server' = "ready"
    /\ UNCHANGED <<page_lock_hash, net, client>>

strand(h) ==
    /\ to_server[h] # <<>>
    /\ stranded' = Append(stranded, Head(to_server[h]))
    /\ to_server' = [to_server EXCEPT ![h] = Tail(@)]
    /\ UNCHANGED <<page_lock_hash, server, to_client, lost_replies, unprocessed, client>>

\* The server's event loop with no callback yet: the request is kept in a list
\* nothing reads again.
strand_request(h) == server = "none" /\ strand(h)

\* connect or send failed for the oldest request of the host: sendMessage
\* returns 1 all the same and the thread polls for a reply.
lose_request(h) == SendMayFail /\ strand(h)

\* The same of a reply: lock_request_callback does not learn of it.
lose_reply(h) ==
    /\ SendMayFail
    /\ to_client[h] # <<>>
    /\ lost_replies' = [lost_replies EXCEPT ![h] = Append(@, Head(to_client[h]))]
    /\ to_client' = [to_client EXCEPT ![h] = Tail(@)]
    /\ UNCHANGED <<page_lock_hash, server, to_server, unprocessed, stranded, client>>

\* lock_request_callback: one request is checked and answered.
lock_request_callback(h) ==
    /\ server = "ready"
    /\ h \in Answerable
    /\ to_server[h] # <<>>
    /\ LET request == Head(to_server[h])
       IN  \E reply_type \in PageReplyType :
               /\ check_lock_request(h, request.page, request.lock_type, reply_type)
               /\ to_client' = [to_client EXCEPT ![h] =
                      Append(@, [page |-> request.page, reply_type |-> reply_type,
                                 caller |-> request.caller])]
    /\ to_server' = [to_server EXCEPT ![h] = Tail(@)]
    /\ UNCHANGED <<server, lost_replies, unprocessed, stranded, client>>

\* lock_request_callback, when it kills the server: it runs between the two
\* stores and follows its argument, which is NULL, or sendMessage is negative
\* because the server's configuration does not name the host, and the callback
\* asserts.  The table, whatever was stored in it, is gone with the process.
server_dies(h) ==
    /\ to_server[h] # <<>>
    /\ \/ server = "function"
       \/ server = "ready" /\ h \notin Answerable
    /\ server' = "dead"
    /\ UNCHANGED <<page_lock_hash, net, client>>

----------------------------------------------------------------------------

Ask(t) ==
    \E page \in PagesOf[t], lock_type \in PageLockType :
        request_page_lock(t, page, lock_type)

Next ==
    \/ \E t \in Threads : Ask(t)
    \/ \E t \in Threads : wait_for_lock_reply(t)
    \/ \E h \in Hosts : try_run_callback(h)
    \/ \E h \in Hosts : strand_request(h)
    \/ \E h \in Hosts : lose_request(h)
    \/ \E h \in Hosts : lose_reply(h)
    \/ \E h \in Hosts : lock_request_callback(h)
    \/ \E h \in Hosts : server_dies(h)
    \/ register_cb_function
    \/ register_cb_arg

Spec == Init /\ [][Next]_vars

\* The event loops dispatch what arrives, a polling thread keeps polling, and
\* lock_manager_init finishes.  No thread is obliged to ask for a lock.
Fairness ==
    /\ \A t \in Threads : WF_vars(wait_for_lock_reply(t))
    /\ \A h \in Hosts : WF_vars(try_run_callback(h))
    /\ \A h \in Hosts :
           WF_vars(strand_request(h) \/ lock_request_callback(h) \/ server_dies(h))
    /\ WF_vars(register_cb_function)
    /\ WF_vars(register_cb_arg)

FairSpec == Spec /\ Fairness

----------------------------------------------------------------------------
(***************************************************************************)
(* State formulae the properties are built from.                           *)
(***************************************************************************)

\* Replies the server has sent for the calls of thread t and nobody has read,
\* those that nobody will read included.
RepliesFor(t) ==
    LET h == HostOf[t]
    IN  {r \in Range(to_client[h]) \cup Range(unprocessed[h]) \cup Range(lost_replies[h]) :
            r.caller = t}

\* Thread t holds page p as far as the server can know: it has been granted
\* (the reply may still be on its way) and its UNLOCK has not been executed.
Holds(t, p) ==
    /\ p \in PagesOf[t]
    /\ \/ told[t][p] # UNLOCK
       \/ /\ call[t] = [page |-> p, lock_type |-> UNLOCK]
          /\ RepliesFor(t) = {}
       \/ /\ call[t] \in [page : {p}, lock_type : {R_LOCK, W_LOCK}]
          /\ \E r \in RepliesFor(t) : r.reply_type = "LOCK_SUCCESS"

\* Messages of the calls of host h about page p, wherever they are, counted.
MessagesAbout(h, p) ==
    LET About(q) == Cardinality({i \in DOMAIN q : q[i].page = p})
    IN  About(to_server[h]) + About(to_client[h]) + About(unprocessed[h])
          + About(lost_replies[h])
          + Cardinality({i \in DOMAIN stranded :
                            stranded[i].page = p /\ HostOf[stranded[i].caller] = h})

\* The callback answers LOCK_FAIL to host h in this step.
Refuses(h) ==
    /\ Len(to_client'[h]) > Len(to_client[h])
    /\ Last(to_client'[h]).reply_type = "LOCK_FAIL"

\* Two pages with the same hash key.
SameEntry(p, q) == cal_fold(p) = cal_fold(q)

----------------------------------------------------------------------------
(***************************************************************************)
(* Properties.                                                             *)
(***************************************************************************)

\* Every variable has its type: the table, the channels, the calls.
TypeOK ==
    /\ TableTypeOK
    /\ server \in {"none", "function", "ready", "dead"}
    /\ stranded \in Seq(PageLockRequest)
    /\ to_server \in [Hosts -> Seq(PageLockRequest)]
    /\ to_client \in [Hosts -> Seq(PageLockReply)]
    /\ lost_replies \in [Hosts -> Seq(PageLockReply)]
    /\ unprocessed \in [Hosts -> Seq(PageLockReply)]
    /\ call \in [Threads -> Calls \cup {NoCall}]
    /\ told \in [Threads -> [Pages -> PageLockType]]
    /\ calls \in [Threads -> 0 .. MaxCalls]
    /\ together \subseteq Hosts

\* A page that one thread has been told it may write is locked by no other
\* thread, whether of the same host or of another: lock_compatibility_matrix
\* grants a W_LOCK beside nothing.  The same for two pages whose folds
\* collide, which check_lock_request cannot tell apart.
MutualExclusion ==
    \A t, u \in Threads : \A p \in PagesOf[t], q \in PagesOf[u] :
        SameEntry(p, q) /\ <<t, p>> # <<u, q>> /\ told[t][p] = W_LOCK
            => told[u][q] = UNLOCK

\* lock_holder names exactly the hosts whose grant has not been unlocked, in
\* every state, also while requests and replies are on their way and after some
\* were lost: a grant whose reply is lost keeps its host in the list.
HolderListAgrees ==
    \A p \in Pages :
        LET entry == page_lock_hash[cal_fold(p)]
            holders == {HostOf[t] : t \in {u \in Threads : Holds(u, p)}}
        IN  IF entry = NULL THEN holders = {} ELSE entry.lock_holder = holders

\* LOCK_FAIL is only sent while some thread holds the page asked for, or one
\* with the same fold.
RefusalJustified ==
    [][\A h \in Hosts : Refuses(h) =>
           \E t \in Threads : \E p \in PagesOf[t] :
               SameEntry(p, Last(to_client'[h]).page) /\ Holds(t, p)]_vars

\* For every host and page there are exactly as many messages (requests and
\* replies on their way, lost, or not yet read) as threads waiting in
\* wait_for_lock_reply: no request is answered twice, none disappears without
\* its connection failing, and no answer is left over for a later call.  Of a
\* host on which two threads have walked the list at once nothing is said.
OneAnswerPerCall ==
    \A h \in Hosts \ together, p \in Pages :
        MessagesAbout(h, p) =
            Cardinality({t \in Threads : HostOf[t] = h /\ call[t] # NoCall /\ call[t].page = p})

\* A reply is only taken by the thread whose request it answers, although
\* PageLockReplyFilter compares nothing but the page.
ReplyReachesCaller ==
    [][\A t \in Threads :
           call[t] # NoCall /\ call'[t] = NoCall =>
               \E r \in RepliesFor(t) :
                   /\ r \in Range(unprocessed[HostOf[t]])
                   /\ r \notin Range(unprocessed'[HostOf[t]])]_vars

\* Rule 1 of the version rules (lock_common.h): version_no never decreases,
\* and an entry is never dropped and started again from 0.
VersionNeverReduces ==
    [][\A f \in Folds : page_lock_hash[f] # NULL =>
           /\ page_lock_hash'[f] # NULL
           /\ page_lock_hash'[f].version_no >= page_lock_hash[f].version_no]_vars

\* Every call of request_page_lock returns, unless its own request or its own
\* reply is lost or the server has died: no other call, lock or lost message can
\* keep a thread in wait_for_lock_reply.
AnsweredUnlessStranded ==
    \A t \in Threads :
        call[t] # NoCall
        ~> \/ call[t] = NoCall
           \/ \E i \in DOMAIN stranded : stranded[i].caller = t
           \/ \E r \in Range(lost_replies[HostOf[t]]) : r.caller = t
           \/ server = "dead"

(***************************************************************************)
(* For a workload of W_LOCK and UNLOCK the service is a set of exclusive   *)
(* locks with one owner per page.                                          *)
(***************************************************************************)
owner == [p \in Pages |-> IF \E t \in Threads : Holds(t, p)
                          THEN CHOOSE t \in Threads : Holds(t, p) ELSE NULL]

Abstract == INSTANCE ExclusiveLock WITH Nobody <- NULL

\* Every step of the service is an Acquire, a Release or a stutter of the
\* exclusive locks: the grant takes effect in lock_request_callback.
ImplementsExclusiveLock == Abstract!Spec

=============================================================================
