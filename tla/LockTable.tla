----------------------------- MODULE LockTable -----------------------------
(***************************************************************************)
(* The table of RemotePageLockManager: one PageLock_t per hash key, and    *)
(* the functions of remote_page_lock_manager.cc that read and update it.   *)
(*                                                                         *)
(* lock_holder is a std::list of host names of which the code only uses    *)
(* push_back, remove (of every equal element) and empty, so it is a set    *)
(* here.  The space_id and page_no members of PageLock_t are written once  *)
(* and never read; they are left out.                                      *)
(***************************************************************************)
EXTENDS Integers, Sequences

CONSTANTS
    Hosts,        \* the host names that can ask for a lock
    Pages,        \* the pages asked for: records [space_id, page_no]
    SpaceFactor,  \* m_space << 20, as a factor: 2^20 in the code
    Word,         \* uint32_t arithmetic wraps at Word: 2^32 in the code
    NULL          \* no entry

R_LOCK == 0

W_LOCK == 1

UNLOCK == 2

PageLockType == {R_LOCK, W_LOCK, UNLOCK}

PageReplyType == {"LOCK_SUCCESS", "LOCK_FAIL", "UNLOCK_SUCCESS", "UNLOCK_FAIL"}

WaitInfor == [name : Hosts, type : PageLockType]

PageLock_t ==
    [version_no : Nat, lock_type : PageLockType,
     lock_holder : SUBSET Hosts, wait_list : Seq(WaitInfor)]

\* Two pages with the same fold share an entry: HASH_FIND_INT compares keys only.
cal_fold(page) ==
    (page.space_id * SpaceFactor + page.space_id + page.page_no) % Word

Folds == {cal_fold(p) : p \in Pages}

ASSUME PagesAssumption ==
    /\ Pages \subseteq [space_id : Nat, page_no : Nat]
    /\ SpaceFactor \in Nat
    /\ Word \in Nat \ {0}

ASSUME NullAssumption == NULL \notin PageLock_t

VARIABLE page_lock_hash   \* page_lock_hash[f]: the entry with key f, or NULL

\* Faulty variant: equal types are compatible.
matrix_equal_types(request, status) == request = status

\* lock_compatibility_matrix[request][status]
lock_compatibility_matrix(request, status) == request = R_LOCK /\ status = R_LOCK

----------------------------------------------------------------------------

\* Faulty variant: the holder pushed is the host name of the new, still empty
\* entry instead of the asker's.
insert_null_holder(asker, lock_type) ==
    [version_no |-> 0, lock_type |-> lock_type,
     lock_holder |-> {NULL}, wait_list |-> <<>>]

insert_page_lock_t(asker, lock_type) ==
    [version_no |-> 0, lock_type |-> lock_type,
     lock_holder |-> {asker}, wait_list |-> <<>>]

\* Faulty variants: the type is kept; the asker stays in the list.
unlock_keeps_type(asker, entry) ==
    [entry EXCEPT !.lock_holder = @ \ {asker}]

unlock_keeps_holder(asker, entry) ==
    [entry EXCEPT !.lock_type = UNLOCK]

\* The entry becomes UNLOCK whoever still holds it; the first waiter is only
\* served when nobody does.
update_unlock_page_lock_t(asker, entry) ==
    LET left == entry.lock_holder \ {asker}
    IN  IF left = {} /\ entry.wait_list # <<>>
        THEN [entry EXCEPT !.lock_type = Head(entry.wait_list).type,
                           !.lock_holder = {Head(entry.wait_list).name},
                           !.wait_list = Tail(entry.wait_list)]
        ELSE [entry EXCEPT !.lock_type = UNLOCK, !.lock_holder = left]

\* Faulty variants: the type is not stored; a read starts a new version count.
success_keeps_type(asker, lock_type, entry) ==
    [entry EXCEPT !.lock_holder = @ \cup {asker}]

success_resets_version(asker, lock_type, entry) ==
    [entry EXCEPT !.version_no = IF lock_type = W_LOCK THEN @ + 1 ELSE 0,
                  !.lock_type = lock_type,
                  !.lock_holder = @ \cup {asker}]

update_success_page_lock_t(asker, lock_type, entry) ==
    [entry EXCEPT !.version_no = IF lock_type = W_LOCK THEN @ + 1 ELSE @,
                  !.lock_type = lock_type,
                  !.lock_holder = @ \cup {asker}]

\* A waiter already listed may be raised to a stronger type; one that is not
\* listed is put in a local WaitInfor that is never pushed.
update_fail_page_lock_t(asker, lock_type, entry) ==
    [entry EXCEPT !.wait_list =
        [i \in DOMAIN @ |->
            IF @[i].name = asker /\ lock_type > @[i].type
            THEN [@[i] EXCEPT !.type = lock_type] ELSE @[i]]]

\* check_lock_request: one disjunct per return; reply_type is its answer.
check_lock_request(asker, page, lock_type, reply_type) ==
    LET fold == cal_fold(page)
        entry == page_lock_hash[fold]
        Store(e) == page_lock_hash' = [page_lock_hash EXCEPT ![fold] = e]
    IN  \/ /\ entry = NULL
           /\ reply_type = "LOCK_SUCCESS"
           /\ Store(insert_page_lock_t(asker, lock_type))
        \/ /\ entry # NULL
           /\ lock_type = UNLOCK
           /\ reply_type = "UNLOCK_SUCCESS"
           /\ Store(update_unlock_page_lock_t(asker, entry))
        \/ /\ entry # NULL
           /\ lock_type # UNLOCK
           /\ \/ entry.lock_type = UNLOCK
              \/ lock_compatibility_matrix(lock_type, entry.lock_type)
           /\ reply_type = "LOCK_SUCCESS"
           /\ Store(update_success_page_lock_t(asker, lock_type, entry))
        \/ /\ entry # NULL
           /\ lock_type # UNLOCK
           /\ entry.lock_type # UNLOCK
           /\ ~lock_compatibility_matrix(lock_type, entry.lock_type)
           /\ reply_type = "LOCK_FAIL"
           /\ Store(update_fail_page_lock_t(asker, lock_type, entry))

\* lock_manager_init: the hash is empty.
TableInit == page_lock_hash = [f \in Folds |-> NULL]

TableTypeOK == page_lock_hash \in [Folds -> PageLock_t \cup {NULL}]

=============================================================================
