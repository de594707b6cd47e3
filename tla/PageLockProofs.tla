--------------------------- MODULE PageLockProofs ---------------------------
(***************************************************************************)
(* Proofs about the page lock service, for any hosts, threads and pages.   *)
(***************************************************************************)
EXTENDS PageLockService, SequenceTheorems, FiniteSetTheorems, TLAPS

----------------------------------------------------------------------------
(***************************************************************************)
(* Sequences of messages: what Append, Tail and RemoveAt do to the         *)
(* elements of a sequence whose messages name their caller.                *)
(***************************************************************************)

\* No two messages of q have the same caller.
Distinct(q) == \A i, j \in 1 .. Len(q) : q[i].caller = q[j].caller => i = j

\* The callers of the messages of q.
Callers(q) == {m.caller : m \in Range(q)}

\* The places of the messages of q about page p.
Places(q, p) == {i \in DOMAIN q : q[i].page = p}

\* The elements of a sequence over S are in S.
LEMMA RangeType ==
    ASSUME NEW S, NEW q \in Seq(S)
    PROVE  Range(q) \subseteq S /\ DOMAIN q = 1 .. Len(q)
  BY DEF Range

\* push_back: one element more.
LEMMA AppendMessage ==
    ASSUME NEW S, NEW q \in Seq(S), NEW m \in S
    PROVE  /\ Append(q, m) \in Seq(S)
           /\ Range(Append(q, m)) = Range(q) \cup {m}
           /\ Distinct(q) /\ m.caller \notin Callers(q) => Distinct(Append(q, m))
  <1>1. /\ Append(q, m) \in Seq(S)
        /\ Len(Append(q, m)) = Len(q) + 1
        /\ \A i \in 1 .. Len(q) : Append(q, m)[i] = q[i]
        /\ Append(q, m)[Len(q) + 1] = m
        /\ DOMAIN Append(q, m) = 1 .. Len(q) + 1
        /\ DOMAIN q = 1 .. Len(q)
        /\ Len(q) \in Nat
    OBVIOUS
  <1>2. Range(Append(q, m)) = Range(q) \cup {m}
    BY <1>1 DEF Range
  <1>3. ASSUME Distinct(q), m.caller \notin Callers(q)
        PROVE  Distinct(Append(q, m))
    <2>1. \A i \in 1 .. Len(q) : q[i].caller # m.caller
      BY <1>1, <1>3 DEF Callers, Range
    <2>2. QED
      BY <1>1, <1>3, <2>1 DEF Distinct
  <1>4. QED
    BY <1>1, <1>2, <1>3

\* Taking the first message: the others stay, and none of them has its caller.
LEMMA TakeFirst ==
    ASSUME NEW S, NEW q \in Seq(S), q # <<>>
    PROVE  /\ Head(q) \in S
           /\ Head(q) \in Range(q)
           /\ Tail(q) \in Seq(S)
           /\ Range(q) = {Head(q)} \cup Range(Tail(q))
           /\ Distinct(q) => /\ Distinct(Tail(q))
                             /\ Head(q).caller \notin Callers(Tail(q))
  <1>1. /\ Head(q) \in S
        /\ Head(q) = q[1]
        /\ Tail(q) \in Seq(S)
        /\ Len(q) \in Nat \ {0}
        /\ Len(Tail(q)) = Len(q) - 1
        /\ \A i \in 1 .. Len(q) - 1 : Tail(q)[i] = q[i + 1]
        /\ DOMAIN q = 1 .. Len(q)
        /\ DOMAIN Tail(q) = 1 .. Len(q) - 1
    OBVIOUS
  <1>2. Range(q) = {Head(q)} \cup Range(Tail(q))
    <2>1. ASSUME NEW x \in Range(q) PROVE x \in {Head(q)} \cup Range(Tail(q))
      <3>1. PICK i \in 1 .. Len(q) : x = q[i]
        BY <1>1, <2>1 DEF Range
      <3>2. CASE i = 1
        BY <3>1, <3>2, <1>1
      <3>3. CASE i # 1
        <4>1. i - 1 \in 1 .. Len(q) - 1 /\ Tail(q)[i - 1] = x
          BY <1>1, <3>1, <3>3
        <4>2. QED
          BY <1>1, <4>1 DEF Range
      <3>4. QED
        BY <3>2, <3>3
    <2>2. ASSUME NEW x \in Range(Tail(q)) PROVE x \in Range(q)
      <3>1. PICK i \in 1 .. Len(q) - 1 : x = q[i + 1]
        BY <1>1, <2>2 DEF Range
      <3>2. QED
        BY <1>1, <3>1 DEF Range
    <2>3. Head(q) \in Range(q)
      BY <1>1 DEF Range
    <2>4. QED
      BY <2>1, <2>2, <2>3
  <1>3. ASSUME Distinct(q)
        PROVE  Distinct(Tail(q)) /\ Head(q).caller \notin Callers(Tail(q))
    <2>1. Distinct(Tail(q))
      BY <1>1, <1>3 DEF Distinct
    <2>2. \A i \in 1 .. Len(q) - 1 : Tail(q)[i].caller # Head(q).caller
      BY <1>1, <1>3 DEF Distinct
    <2>3. QED
      BY <1>1, <2>1, <2>2 DEF Callers, Range
  <1>4. QED
    BY <1>1, <1>2, <1>3

\* list::erase of element k: the later ones move up by one place.
LEMMA ErasePositions ==
    ASSUME NEW S, NEW q \in Seq(S), NEW k \in 1 .. Len(q)
    PROVE  /\ RemoveAt(q, k) \in Seq(S)
           /\ Len(q) \in Nat \ {0}
           /\ Len(RemoveAt(q, k)) = Len(q) - 1
           /\ DOMAIN q = 1 .. Len(q)
           /\ DOMAIN RemoveAt(q, k) = 1 .. Len(q) - 1
           /\ \A i \in 1 .. Len(q) - 1 :
                  RemoveAt(q, k)[i] = q[IF i < k THEN i ELSE i + 1]
  <1> DEFINE r == RemoveAt(q, k)
             old(i) == IF i < k THEN i ELSE i + 1
  <1> DEFINE a == SubSeq(q, 1, k - 1)
             b == SubSeq(q, k + 1, Len(q))
  <1>1. /\ Len(q) \in Nat \ {0}
        /\ k \in Nat \ {0}
        /\ k <= Len(q)
        /\ DOMAIN q = 1 .. Len(q)
    OBVIOUS
  <1>2. a \in Seq(S) /\ Len(a) = k - 1 /\ \A i \in 1 .. k - 1 : a[i] = q[i]
    BY <1>1, SubSeqProperties
  <1>3. b \in Seq(S) /\ Len(b) = Len(q) - k /\ \A i \in 1 .. Len(q) - k : b[i] = q[k + i]
    <2>1. \A i \in k + 1 .. Len(q) : q[i] \in S
      BY <1>1
    <2>2. k + 1 \in Int /\ Len(q) \in Int
      BY <1>1
    <2>3. /\ b \in Seq(S)
          /\ Len(b) = IF k + 1 <= Len(q) THEN Len(q) - (k + 1) + 1 ELSE 0
          /\ \A i \in 1 .. Len(q) - (k + 1) + 1 : b[i] = q[(k + 1) + i - 1]
      BY <2>1, <2>2, SubSeqProperties
    <2> HIDE DEF b
    <2>4. Len(b) = Len(q) - k
      <3>1. Len(b) = IF k + 1 <= Len(q) THEN Len(q) - (k + 1) + 1 ELSE 0
        BY <2>3
      <3>2. k + 1 <= Len(q) => Len(q) - (k + 1) + 1 = Len(q) - k
        BY <1>1, SMTT(40)
      <3>3. ~(k + 1 <= Len(q)) => Len(q) - k = 0
        <4>1. \A m, n \in Nat : m <= n /\ ~(m + 1 <= n) => n - m = 0
          OBVIOUS
        <4>2. QED
          BY <1>1, <4>1
      <3>4. QED
        BY <3>1, <3>2, <3>3, Zenon
    <2>5. ASSUME NEW i \in 1 .. Len(q) - k PROVE b[i] = q[k + i]
      <3>1. i \in 1 .. Len(q) - (k + 1) + 1 /\ (k + 1) + i - 1 = k + i
        BY <1>1
      <3>2. QED
        BY <2>3, <3>1
    <2>6. QED
      BY <2>3, <2>4, <2>5
  <1> HIDE DEF a, b
  <1>4. /\ a \o b \in Seq(S)
        /\ Len(a \o b) = Len(a) + Len(b)
        /\ \A i \in 1 .. Len(a) + Len(b) :
               (a \o b)[i] = IF i <= Len(a) THEN a[i] ELSE b[i - Len(a)]
    BY <1>2, <1>3, ConcatProperties
  <1>5. r = a \o b
    BY DEF RemoveAt, a, b
  <1> HIDE DEF r
  <1>6. r \in Seq(S) /\ Len(r) = Len(q) - 1 /\ DOMAIN r = 1 .. Len(q) - 1
    <2>1. r \in Seq(S) /\ Len(r) = Len(a) + Len(b)
      BY <1>4, <1>5
    <2>2. Len(a) + Len(b) = Len(q) - 1
      BY <1>1, <1>2, <1>3
    <2>3. QED
      BY <2>1, <2>2
  <1>7. ASSUME NEW i \in 1 .. Len(q) - 1 PROVE r[i] = q[old(i)]
    <2>1. CASE i < k
      BY <1>1, <1>2, <1>3, <1>4, <1>5, <2>1
    <2>2. CASE ~(i < k)
      <3>1. r[i] = b[i - (k - 1)]
        BY <1>1, <1>2, <1>3, <1>4, <1>5, <2>2
      <3>2. i - (k - 1) \in 1 .. Len(q) - k
        BY <1>1, <2>2
      <3>3. b[i - (k - 1)] = q[k + (i - (k - 1))]
        BY <1>3, <3>2
      <3>4. k + (i - (k - 1)) = i + 1
        BY <1>1
      <3>5. QED
        BY <2>2, <3>1, <3>3, <3>4
    <2>3. QED
      BY <2>1, <2>2, <1>1
  <1>8. QED
    BY <1>1, <1>6, <1>7 DEF r

\* The others stay, and none of them has its caller.
LEMMA EraseAt ==
    ASSUME NEW S, NEW q \in Seq(S), NEW k \in 1 .. Len(q)
    PROVE  /\ RemoveAt(q, k) \in Seq(S)
           /\ q[k] \in Range(q)
           /\ Range(q) = {q[k]} \cup Range(RemoveAt(q, k))
           /\ Distinct(q) => /\ Distinct(RemoveAt(q, k))
                             /\ q[k].caller \notin Callers(RemoveAt(q, k))
  <1> DEFINE r == RemoveAt(q, k)
             old(i) == IF i < k THEN i ELSE i + 1
  <1>1. /\ r \in Seq(S)
        /\ Len(q) \in Nat \ {0}
        /\ Len(r) = Len(q) - 1
        /\ DOMAIN q = 1 .. Len(q)
        /\ DOMAIN r = 1 .. Len(q) - 1
        /\ \A i \in 1 .. Len(q) - 1 : r[i] = q[old(i)]
    BY ErasePositions
  <1>2. q[k] \in Range(q) /\ Range(q) = {q[k]} \cup Range(r)
    <2>1. q[k] \in Range(q) /\ Range(r) \subseteq Range(q)
      BY <1>1, SMTT(40) DEF Range
    <2>2. ASSUME NEW x \in Range(q), x # q[k] PROVE x \in Range(r)
      <3>1. PICK i \in 1 .. Len(q) : x = q[i]
        BY <1>1, <2>2 DEF Range
      <3>2. \E j \in 1 .. Len(q) - 1 : old(j) = i
        <4>1. CASE i < k
          <5>1. i \in 1 .. Len(q) - 1 /\ old(i) = i
            BY <1>1, <4>1
          <5>2. QED
            BY <5>1
        <4>2. CASE i > k
          <5>1. i - 1 \in 1 .. Len(q) - 1 /\ old(i - 1) = i
            BY <1>1, <4>2
          <5>2. QED
            BY <5>1
        <4>3. i # k
          BY <2>2, <3>1
        <4>4. QED
          BY <1>1, <4>1, <4>2, <4>3
      <3>3. QED
        BY <1>1, <3>1, <3>2 DEF Range
    <2>3. QED
      BY <2>1, <2>2
  <1>3. ASSUME Distinct(q)
        PROVE  Distinct(r) /\ q[k].caller \notin Callers(r)
    <2>1. \A i \in 1 .. Len(q) - 1 : old(i) \in 1 .. Len(q) /\ old(i) # k
      BY <1>1
    <2>2. \A i, j \in 1 .. Len(q) - 1 : old(i) = old(j) => i = j
      BY <1>1
    <2>3. Distinct(r)
      <3> SUFFICES ASSUME NEW i \in 1 .. Len(r), NEW j \in 1 .. Len(r), r[i].caller = r[j].caller
                   PROVE  i = j
        BY DEF Distinct
      <3>1. i \in 1 .. Len(q) - 1 /\ j \in 1 .. Len(q) - 1
        BY <1>1
      <3>2. r[i] = q[old(i)] /\ r[j] = q[old(j)]
        BY <1>1, <3>1
      <3> HIDE DEF r, old
      <3>3. old(i) = old(j)
        BY <1>3, <2>1, <3>1, <3>2 DEF Distinct
      <3>4. QED
        BY <2>2, <3>1, <3>3
    <2>4. \A i \in 1 .. Len(q) - 1 : r[i].caller # q[k].caller
      BY <1>1, <1>3, <2>1 DEF Distinct
    <2>5. QED
      BY <1>1, <2>3, <2>4 DEF Callers, Range
  <1>4. QED
    BY <1>1, <1>2, <1>3

----------------------------------------------------------------------------
(***************************************************************************)
(* Counting the messages about a page.                                     *)
(***************************************************************************)

\* There are finitely many.
LEMMA PlacesFinite ==
    ASSUME NEW S, NEW q \in Seq(S), NEW p
    PROVE  IsFiniteSet(Places(q, p)) /\ Cardinality(Places(q, p)) \in Nat
  <1>1. Places(q, p) \subseteq 1 .. Len(q) /\ Len(q) \in Nat
    BY DEF Places
  <1>2. IsFiniteSet(1 .. Len(q))
    BY <1>1, FS_Interval
  <1>3. IsFiniteSet(Places(q, p))
    BY <1>1, <1>2, FS_Subset
  <1>4. QED
    BY <1>3, FS_CardinalityType

\* push_back counts its message.
LEMMA CountAppend ==
    ASSUME NEW S, NEW q \in Seq(S), NEW m \in S, NEW p
    PROVE  Cardinality(Places(Append(q, m), p)) =
               Cardinality(Places(q, p)) + (IF m.page = p THEN 1 ELSE 0)
  <1> DEFINE r == Append(q, m)
  <1>1. /\ DOMAIN r = 1 .. Len(q) + 1
        /\ DOMAIN q = 1 .. Len(q)
        /\ Len(q) \in Nat
        /\ \A i \in 1 .. Len(q) : r[i] = q[i]
        /\ r[Len(q) + 1] = m
    OBVIOUS
  <1>2. IsFiniteSet(Places(q, p)) /\ Cardinality(Places(q, p)) \in Nat
    BY PlacesFinite
  <1> HIDE DEF r
  <1>3. CASE m.page = p
    <2>1. Places(r, p) = Places(q, p) \cup {Len(q) + 1}
      BY <1>1, <1>3 DEF Places
    <2>2. Len(q) + 1 \notin Places(q, p)
      BY <1>1 DEF Places
    <2>3. Cardinality(Places(r, p)) = Cardinality(Places(q, p)) + 1
      BY <1>2, <2>1, <2>2, FS_AddElement
    <2>4. QED
      BY <1>3, <2>3 DEF r
  <1>4. CASE m.page # p
    <2>1. Places(r, p) = Places(q, p)
      BY <1>1, <1>4 DEF Places
    <2>2. QED
      BY <1>2, <1>4, <2>1 DEF r
  <1>5. QED
    BY <1>3, <1>4

\* erase discounts the message it removes.
LEMMA CountErase ==
    ASSUME NEW S, NEW q \in Seq(S), NEW k \in 1 .. Len(q), NEW p
    PROVE  Cardinality(Places(RemoveAt(q, k), p)) =
               Cardinality(Places(q, p)) - (IF q[k].page = p THEN 1 ELSE 0)
  <1> DEFINE r == RemoveAt(q, k)
             old(i) == IF i < k THEN i ELSE i + 1
             A == Places(r, p)
             B == Places(q, p) \ {k}
             f == [i \in A |-> old(i)]
  <1>1. /\ r \in Seq(S)
        /\ Len(q) \in Nat \ {0}
        /\ DOMAIN q = 1 .. Len(q)
        /\ DOMAIN r = 1 .. Len(q) - 1
        /\ \A i \in 1 .. Len(q) - 1 : r[i] = q[old(i)]
    BY ErasePositions
  <1>2. IsFiniteSet(A) /\ IsFiniteSet(Places(q, p)) /\ Cardinality(Places(q, p)) \in Nat
    BY <1>1, PlacesFinite
  <1>3. Cardinality(A) = Cardinality(B)
    <2> HIDE DEF r
    <2>1. \A i \in 1 .. Len(q) - 1 : old(i) \in 1 .. Len(q) /\ old(i) # k
      BY <1>1
    <2>2. \A i \in A : old(i) \in B
      BY <1>1, <2>1 DEF Places
    <2>3. \A i, j \in A : old(i) = old(j) => i = j
      BY <1>1 DEF Places
    <2>4. ASSUME NEW j \in B PROVE \E i \in A : old(i) = j
      <3>0. j \in 1 .. Len(q) /\ j # k /\ q[j].page = p
        BY <1>1 DEF Places
      <3>1. CASE j < k
        <4>1. j \in 1 .. Len(q) - 1 /\ old(j) = j
          BY <1>1, <3>0, <3>1
        <4>2. QED
          BY <1>1, <3>0, <4>1 DEF Places
      <3>2. CASE j > k
        <4>1. j - 1 \in 1 .. Len(q) - 1 /\ old(j - 1) = j
          BY <1>1, <3>0, <3>2
        <4>2. QED
          BY <1>1, <3>0, <4>1 DEF Places
      <3>3. QED
        BY <1>1, <3>0, <3>1, <3>2
    <2> HIDE DEF A, B, old
    <2>5. f \in Bijection(A, B)
      <3>1. f \in [A -> B]
        BY <2>2
      <3>2. \A i, j \in A : f[i] = f[j] => i = j
        BY <2>3
      <3>3. \A j \in B : \E i \in A : f[i] = j
        BY <2>4
      <3> HIDE DEF f
      <3>4. QED
        BY <3>1, <3>2, <3>3 DEF Bijection, Injection, Surjection, IsInjective
    <2>6. ExistsBijection(A, B)
      BY <2>5 DEF ExistsBijection
    <2>7. QED
      BY <1>2, <2>6, FS_Bijection
  <1>4. CASE q[k].page = p
    <2>1. k \in Places(q, p)
      BY <1>1, <1>4 DEF Places
    <2>2. Cardinality(B) = Cardinality(Places(q, p)) - 1
      BY <1>2, <2>1, FS_RemoveElement
    <2>3. QED
      BY <1>3, <1>4, <2>2
  <1>5. CASE q[k].page # p
    <2>1. B = Places(q, p)
      BY <1>5 DEF Places
    <2>2. Cardinality(A) = Cardinality(Places(q, p))
      BY <1>3, <2>1
    <2> HIDE DEF A
    <2>3. QED
      BY <1>2, <1>5, <2>2 DEF A
  <1>6. QED
    BY <1>4, <1>5

\* Taking the first message is erasing it.
LEMMA CountTail ==
    ASSUME NEW S, NEW q \in Seq(S), q # <<>>, NEW p
    PROVE  Cardinality(Places(Tail(q), p)) =
               Cardinality(Places(q, p)) - (IF Head(q).page = p THEN 1 ELSE 0)
  <1> DEFINE r == RemoveAt(q, 1)
  <1>1. /\ Len(q) \in Nat \ {0}
        /\ 1 \in 1 .. Len(q)
        /\ Head(q) = q[1]
        /\ DOMAIN Tail(q) = 1 .. Len(q) - 1
        /\ \A i \in 1 .. Len(q) - 1 : Tail(q)[i] = q[i + 1]
    OBVIOUS
  <1>2. /\ DOMAIN r = 1 .. Len(q) - 1
        /\ \A i \in 1 .. Len(q) - 1 : r[i] = q[i + 1]
    <2>1. /\ DOMAIN r = 1 .. Len(q) - 1
          /\ \A i \in 1 .. Len(q) - 1 : r[i] = q[IF i < 1 THEN i ELSE i + 1]
      BY <1>1, ErasePositions
    <2> HIDE DEF r
    <2>2. \A i \in 1 .. Len(q) - 1 : ~(i < 1)
      BY <1>1
    <2>3. QED
      BY <2>1, <2>2
  <1>3. Places(Tail(q), p) = Places(r, p)
    <2> HIDE DEF r
    <2>1. QED
      BY <1>1, <1>2 DEF Places
  <1>4. QED
    BY <1>1, <1>3, CountErase

USE PagesAssumption, NullAssumption, ServiceAssumption

----------------------------------------------------------------------------
(***************************************************************************)
(* Types.                                                                  *)
(***************************************************************************)

\* The entry functions of the lock manager return entries.
LEMMA EntryTypes ==
    ASSUME NEW asker \in Hosts, NEW lock_type \in PageLockType, NEW entry \in PageLock_t
    PROVE  /\ insert_page_lock_t(asker, lock_type) \in PageLock_t
           /\ update_unlock_page_lock_t(asker, entry) \in PageLock_t
           /\ update_success_page_lock_t(asker, lock_type, entry) \in PageLock_t
           /\ update_fail_page_lock_t(asker, lock_type, entry) \in PageLock_t
  <1>0. /\ entry.wait_list \in Seq(WaitInfor)
        /\ entry.version_no \in Nat
        /\ entry.lock_type \in PageLockType
        /\ entry.lock_holder \subseteq Hosts
    BY DEF PageLock_t
  <1>1. insert_page_lock_t(asker, lock_type) \in PageLock_t
    BY DEF insert_page_lock_t, PageLock_t
  <1>2. update_unlock_page_lock_t(asker, entry) \in PageLock_t
    <2>1. CASE entry.lock_holder \ {asker} = {} /\ entry.wait_list # <<>>
      <3>1. Head(entry.wait_list) \in WaitInfor /\ Tail(entry.wait_list) \in Seq(WaitInfor)
        BY <1>0, <2>1
      <3>2. QED
        BY <1>0, <2>1, <3>1 DEF update_unlock_page_lock_t, PageLock_t, WaitInfor
    <2>2. CASE ~(entry.lock_holder \ {asker} = {} /\ entry.wait_list # <<>>)
      BY <1>0, <2>2 DEF update_unlock_page_lock_t, PageLock_t, PageLockType, UNLOCK
    <2>3. QED
      BY <2>1, <2>2
  <1>3. update_success_page_lock_t(asker, lock_type, entry) \in PageLock_t
    <2>1. entry.lock_holder \cup {asker} \in SUBSET Hosts /\ entry.version_no + 1 \in Nat
      BY <1>0
    <2>2. CASE lock_type = W_LOCK
      BY <2>1, <2>2 DEF update_success_page_lock_t, PageLock_t
    <2>3. CASE lock_type # W_LOCK
      BY <1>0, <2>1, <2>3 DEF update_success_page_lock_t, PageLock_t
    <2>4. QED
      BY <2>2, <2>3
  <1>4. update_fail_page_lock_t(asker, lock_type, entry) \in PageLock_t
    <2> DEFINE w == entry.wait_list
               raised == [i \in DOMAIN w |->
                             IF w[i].name = asker /\ lock_type > w[i].type
                             THEN [w[i] EXCEPT !.type = lock_type] ELSE w[i]]
    <2>1. \A i \in DOMAIN w : w[i] \in WaitInfor
      BY <1>0
    <2>2. \A i \in DOMAIN w : raised[i] \in WaitInfor
      BY <2>1 DEF WaitInfor
    <2>3. DOMAIN w = 1 .. Len(w) /\ Len(w) \in Nat
      BY <1>0
    <2>4. raised \in Seq(WaitInfor)
      <3>1. raised \in [1 .. Len(w) -> WaitInfor]
        BY <2>2, <2>3
      <3> HIDE DEF raised, w
      <3>2. QED
        BY <2>3, <3>1
    <2>5. update_fail_page_lock_t(asker, lock_type, entry) = [entry EXCEPT !.wait_list = raised]
      BY DEF update_fail_page_lock_t
    <2>6. QED
      BY <2>4, <2>5 DEF PageLock_t
  <1>5. QED
    BY <1>1, <1>2, <1>3, <1>4

\* The request types of the pages: a page's fold is a key of the table.
LEMMA FoldType ==
    ASSUME NEW p \in Pages
    PROVE  cal_fold(p) \in Folds
  BY DEF Folds

\* check_lock_request stores an entry under the fold of the page.
LEMMA TableStep ==
    ASSUME TableTypeOK, NEW h \in Hosts, NEW p \in Pages, NEW lock_type \in PageLockType,
           NEW reply_type, check_lock_request(h, p, lock_type, reply_type)
    PROVE  TableTypeOK'
  <1> DEFINE f == cal_fold(p)
             entry == page_lock_hash[f]
  <1>1. f \in Folds
    BY FoldType
  <1>2. entry = NULL \/ entry \in PageLock_t
    BY <1>1 DEF TableTypeOK
  <1>3. \E e \in PageLock_t : page_lock_hash' = [page_lock_hash EXCEPT ![f] = e]
    <2>1. CASE entry = NULL
      <3>1. insert_page_lock_t(h, lock_type) \in PageLock_t
        BY DEF insert_page_lock_t, PageLock_t
      <3>2. QED
        BY <2>1, <3>1 DEF check_lock_request
    <2>2. CASE entry # NULL
      <3>1. entry \in PageLock_t
        BY <1>2, <2>2
      <3>2. QED
        BY <2>2, <3>1, EntryTypes DEF check_lock_request
    <2>3. QED
      BY <2>1, <2>2
  <1>4. QED
    BY <1>1, <1>3 DEF TableTypeOK

\* The steps that move no message and touch neither the table nor a call: the
\* two stores of the registration, the end of the server, and a stutter.
ServerStep ==
    \/ register_cb_function
    \/ register_cb_arg
    \/ \E h \in Hosts : server_dies(h)
    \/ UNCHANGED vars

\* Every step keeps the types: one step per action of the service.
LEMMA TypeStep == TypeOK /\ [Next]_vars => TypeOK'
  <1> SUFFICES ASSUME TypeOK, [Next]_vars PROVE TypeOK'
    OBVIOUS
  <1> USE DEF TypeOK
  <1>1. ASSUME NEW t \in Threads, Ask(t) PROVE TypeOK'
    <2>1. PICK p \in PagesOf[t], lock_type \in PageLockType : request_page_lock(t, p, lock_type)
      BY <1>1 DEF Ask
    <2>2. p \in Pages /\ HostOf[t] \in Hosts
      OBVIOUS
    <2> DEFINE m == [page |-> p, lock_type |-> lock_type, caller |-> t]
    <2>3. m \in PageLockRequest
      BY <2>2 DEF PageLockRequest
    <2>4. to_server' \in [Hosts -> Seq(PageLockRequest)]
      <3>1. Append(to_server[HostOf[t]], m) \in Seq(PageLockRequest)
        BY <2>2, <2>3, AppendMessage
      <3>2. QED
        BY <2>1, <2>2, <3>1 DEF request_page_lock
    <2>5. call' \in [Threads -> Calls \cup {NoCall}]
      BY <2>1, <2>2 DEF request_page_lock, Calls
    <2>6. told' \in [Threads -> [Pages -> PageLockType]]
      BY <2>1, <2>2 DEF request_page_lock, PageLockType
    <2>7. calls' \in [Threads -> 0 .. MaxCalls] /\ together' \subseteq Hosts
      BY <2>1, <2>2 DEF request_page_lock
    <2>8. QED
      BY <2>1, <2>4, <2>5, <2>6, <2>7 DEF request_page_lock, TableTypeOK
  <1>2. ASSUME NEW t \in Threads, wait_for_lock_reply(t) PROVE TypeOK'
    <2> DEFINE h == HostOf[t]
               page == call[t].page
    <2>1. h \in Hosts /\ call[t] \in Calls /\ page \in Pages
      BY <1>2 DEF wait_for_lock_reply, Calls
    <2>2. unprocessed[h] \in Seq(PageLockReply)
      BY <2>1
    <2>3. PICK i \in DOMAIN unprocessed[h] :
             /\ told' = [told EXCEPT ![t][page] =
                    Conclusion(call[t].lock_type, unprocessed[h][i].reply_type, @)]
             /\ unprocessed' = [unprocessed EXCEPT ![h] = RemoveAt(@, i)]
      BY <1>2 DEF wait_for_lock_reply
    <2>4. unprocessed' \in [Hosts -> Seq(PageLockReply)]
      <3>1. RemoveAt(unprocessed[h], i) \in Seq(PageLockReply)
        BY <2>2, <2>3, RangeType, EraseAt
      <3>2. QED
        BY <2>1, <2>3, <3>1
    <2>5. told' \in [Threads -> [Pages -> PageLockType]]
      <3>1. Conclusion(call[t].lock_type, unprocessed[h][i].reply_type, told[t][page]) \in PageLockType
        BY <2>1 DEF Conclusion, Calls
      <3>2. QED
        BY <2>1, <2>3, <3>1
    <2>6. call' \in [Threads -> Calls \cup {NoCall}]
      BY <1>2 DEF wait_for_lock_reply
    <2>7. QED
      BY <1>2, <2>4, <2>5, <2>6 DEF wait_for_lock_reply, TableTypeOK
  <1>3. ASSUME NEW h \in Hosts, try_run_callback(h) PROVE TypeOK'
    <2>1. to_client[h] \in Seq(PageLockReply) /\ to_client[h] # <<>>
      BY <1>3 DEF try_run_callback
    <2>2. Head(to_client[h]) \in PageLockReply /\ Tail(to_client[h]) \in Seq(PageLockReply)
      BY <2>1, TakeFirst
    <2>3. Append(unprocessed[h], Head(to_client[h])) \in Seq(PageLockReply)
      BY <2>2, AppendMessage
    <2>4. QED
      BY <1>3, <2>2, <2>3 DEF try_run_callback, TableTypeOK, client
  <1>4. ASSUME NEW h \in Hosts, strand(h) PROVE TypeOK'
    <2>1. to_server[h] \in Seq(PageLockRequest) /\ to_server[h] # <<>>
      BY <1>4 DEF strand
    <2>2. Head(to_server[h]) \in PageLockRequest /\ Tail(to_server[h]) \in Seq(PageLockRequest)
      BY <2>1, TakeFirst
    <2>3. Append(stranded, Head(to_server[h])) \in Seq(PageLockRequest)
      BY <2>2, AppendMessage
    <2>4. QED
      BY <1>4, <2>2, <2>3 DEF strand, TableTypeOK, client
  <1>5. ASSUME NEW h \in Hosts, lock_request_callback(h) PROVE TypeOK'
    <2> DEFINE request == Head(to_server[h])
    <2>1. to_server[h] \in Seq(PageLockRequest) /\ to_server[h] # <<>>
      BY <1>5 DEF lock_request_callback
    <2>2. request \in PageLockRequest /\ Tail(to_server[h]) \in Seq(PageLockRequest)
      BY <2>1, TakeFirst
    <2>3. PICK reply_type \in PageReplyType :
             /\ check_lock_request(h, request.page, request.lock_type, reply_type)
             /\ to_client' = [to_client EXCEPT ![h] =
                    Append(@, [page |-> request.page, reply_type |-> reply_type,
                               caller |-> request.caller])]
      BY <1>5 DEF lock_request_callback
    <2> DEFINE r == [page |-> request.page, reply_type |-> reply_type, caller |-> request.caller]
    <2>4. /\ request.page \in Pages
          /\ request.lock_type \in PageLockType
          /\ r \in PageLockReply
      BY <2>2, <2>3 DEF PageLockRequest, PageLockReply
    <2>5. TableTypeOK'
      BY <2>3, <2>4, TableStep
    <2>6. Append(to_client[h], r) \in Seq(PageLockReply)
      BY <2>4, AppendMessage
    <2>7. to_client' \in [Hosts -> Seq(PageLockReply)]
      BY <2>3, <2>6
    <2>8. to_server' \in [Hosts -> Seq(PageLockRequest)]
      BY <1>5, <2>2 DEF lock_request_callback
    <2>9. QED
      BY <1>5, <2>5, <2>7, <2>8 DEF lock_request_callback, client
  <1>6. ASSUME NEW h \in Hosts, lose_reply(h) PROVE TypeOK'
    <2>1. to_client[h] \in Seq(PageLockReply) /\ to_client[h] # <<>>
      BY <1>6 DEF lose_reply
    <2>2. Head(to_client[h]) \in PageLockReply /\ Tail(to_client[h]) \in Seq(PageLockReply)
      BY <2>1, TakeFirst
    <2>3. Append(lost_replies[h], Head(to_client[h])) \in Seq(PageLockReply)
      BY <2>2, AppendMessage
    <2>4. QED
      BY <1>6, <2>2, <2>3 DEF lose_reply, TableTypeOK, client
  <1>9. ASSUME UNCHANGED <<page_lock_hash, net, client>>,
               server' \in {"none", "function", "ready", "dead"}
        PROVE  TypeOK'
    BY <1>9 DEF TableTypeOK, net, client
  <1>7. ASSUME ServerStep PROVE TypeOK'
    BY <1>7, <1>9
       DEF ServerStep, register_cb_function, register_cb_arg, server_dies, vars, net, client
  <1>8. QED
    BY <1>1, <1>2, <1>3, <1>4, <1>5, <1>6, <1>7
       DEF Next, strand_request, lose_request, ServerStep

\* The service is type correct in every reachable state.
THEOREM TypeCorrect == Spec => []TypeOK
  <1>1. Init => TypeOK
    <2> SUFFICES ASSUME Init PROVE TypeOK
      OBVIOUS
    <2>1. TableTypeOK
      BY DEF Init, TableInit, TableTypeOK
    <2>2. server \in {"none", "function", "ready", "dead"}
      BY DEF Init
    <2>3. QED
      BY <2>1, <2>2 DEF Init, TypeOK, PageLockType, UNLOCK
  <1>2. QED
    BY <1>1, TypeStep, PTL DEF Spec

----------------------------------------------------------------------------
(***************************************************************************)
(* The table.                                                              *)
(***************************************************************************)

\* Nobody is ever on a wait list, so an UNLOCK hands the page to nobody.
NoWaiters ==
    \A f \in Folds : page_lock_hash[f] # NULL => page_lock_hash[f].wait_list = <<>>

\* What check_lock_request does to the entry of the page, one case per return.
EntryEffect(h, lt, rt, before, after) ==
    /\ after # NULL
    /\ after.wait_list = <<>>
    /\ \/ /\ before = NULL
          /\ rt = "LOCK_SUCCESS"
          /\ after.lock_type = lt
          /\ after.lock_holder = {h}
       \/ /\ before # NULL
          /\ lt = UNLOCK
          /\ rt = "UNLOCK_SUCCESS"
          /\ after.version_no = before.version_no
          /\ after.lock_type = UNLOCK
          /\ after.lock_holder = before.lock_holder \ {h}
       \/ /\ before # NULL
          /\ lt # UNLOCK
          /\ before.lock_type = UNLOCK \/ (lt = R_LOCK /\ before.lock_type = R_LOCK)
          /\ rt = "LOCK_SUCCESS"
          /\ after.version_no >= before.version_no
          /\ after.lock_type = lt
          /\ after.lock_holder = before.lock_holder \cup {h}
       \/ /\ before # NULL
          /\ lt # UNLOCK
          /\ before.lock_type # UNLOCK
          /\ rt = "LOCK_FAIL"
          /\ after.version_no = before.version_no
          /\ after.lock_type = before.lock_type
          /\ after.lock_holder = before.lock_holder

\* check_lock_request touches the entry of the page and no other.
LEMMA TableEffect ==
    ASSUME TableTypeOK, NoWaiters, NEW h \in Hosts, NEW p \in Pages,
           NEW lt \in PageLockType, NEW rt, check_lock_request(h, p, lt, rt)
    PROVE  /\ \A f \in Folds : f # cal_fold(p) => page_lock_hash'[f] = page_lock_hash[f]
           /\ EntryEffect(h, lt, rt, page_lock_hash[cal_fold(p)], page_lock_hash'[cal_fold(p)])
  <1> DEFINE F == cal_fold(p)
             entry == page_lock_hash[F]
             Stores(e) == page_lock_hash' = [page_lock_hash EXCEPT ![F] = e]
  <1>1. F \in Folds /\ (entry = NULL \/ entry \in PageLock_t)
    BY FoldType DEF TableTypeOK
  <1>2. ASSUME NEW e, Stores(e), EntryEffect(h, lt, rt, entry, e)
        PROVE  /\ \A f \in Folds : f # F => page_lock_hash'[f] = page_lock_hash[f]
               /\ EntryEffect(h, lt, rt, entry, page_lock_hash'[F])
    <2>1. page_lock_hash'[F] = e /\ \A f \in Folds : f # F => page_lock_hash'[f] = page_lock_hash[f]
      BY <1>1, <1>2 DEF TableTypeOK
    <2>2. QED
      BY <1>2, <2>1
  <1>3. CASE entry = NULL
    <2> DEFINE e == insert_page_lock_t(h, lt)
    <2>1. Stores(e) /\ rt = "LOCK_SUCCESS"
      BY <1>3 DEF check_lock_request
    <2>2. e \in PageLock_t
      BY DEF insert_page_lock_t, PageLock_t
    <2>3. e.lock_type = lt /\ e.wait_list = <<>> /\ e.lock_holder = {h}
      BY DEF insert_page_lock_t
    <2>4. e # NULL
      BY <2>2
    <2> HIDE DEF e
    <2>5. EntryEffect(h, lt, rt, entry, e)
      BY <1>3, <2>1, <2>3, <2>4 DEF EntryEffect
    <2>6. QED
      BY <1>2, <2>1, <2>5
  <1>4. ASSUME entry # NULL PROVE entry \in PageLock_t /\ entry.wait_list = <<>>
                                  /\ entry.version_no \in Nat
    BY <1>1, <1>4 DEF NoWaiters, PageLock_t
  <1>5. CASE entry # NULL /\ lt = UNLOCK
    <2> DEFINE e == update_unlock_page_lock_t(h, entry)
    <2>1. Stores(e) /\ rt = "UNLOCK_SUCCESS"
      BY <1>5 DEF check_lock_request
    <2>2. e \in PageLock_t
      BY <1>4, <1>5, EntryTypes
    <2>3. /\ e.wait_list = <<>>
          /\ e.lock_type = UNLOCK
          /\ e.version_no = entry.version_no
          /\ e.lock_holder = entry.lock_holder \ {h}
      BY <1>4, <1>5 DEF update_unlock_page_lock_t, PageLock_t
    <2>4. e # NULL
      BY <2>2
    <2> HIDE DEF e
    <2>5. EntryEffect(h, lt, rt, entry, e)
      BY <1>5, <2>1, <2>3, <2>4 DEF EntryEffect
    <2>6. QED
      BY <1>2, <2>1, <2>5
  <1>6. CASE /\ entry # NULL
             /\ lt # UNLOCK
             /\ entry.lock_type = UNLOCK \/ lock_compatibility_matrix(lt, entry.lock_type)
    <2> DEFINE e == update_success_page_lock_t(h, lt, entry)
    <2>1. Stores(e) /\ rt = "LOCK_SUCCESS"
      BY <1>6 DEF check_lock_request
    <2>2. e \in PageLock_t
      BY <1>4, <1>6, EntryTypes
    <2>3. /\ e.lock_type = lt
          /\ e.wait_list = <<>>
          /\ e.lock_holder = entry.lock_holder \cup {h}
      BY <1>4, <1>6 DEF update_success_page_lock_t, PageLock_t
    <2>4. e.version_no >= entry.version_no
      <3>1. e.version_no = entry.version_no \/ e.version_no = entry.version_no + 1
        BY <1>4, <1>6 DEF update_success_page_lock_t, PageLock_t
      <3> HIDE DEF e
      <3>2. QED
        BY <1>4, <1>6, <3>1
    <2>5. e # NULL
      BY <2>2
    <2> HIDE DEF e
    <2>6. EntryEffect(h, lt, rt, entry, e)
      BY <1>6, <2>1, <2>3, <2>4, <2>5 DEF EntryEffect, lock_compatibility_matrix
    <2>7. QED
      BY <1>2, <2>1, <2>6
  <1>7. CASE /\ entry # NULL
             /\ lt # UNLOCK
             /\ entry.lock_type # UNLOCK
             /\ ~lock_compatibility_matrix(lt, entry.lock_type)
    <2> DEFINE e == update_fail_page_lock_t(h, lt, entry)
    <2>1. Stores(e) /\ rt = "LOCK_FAIL"
      BY <1>7 DEF check_lock_request
    <2>2. e \in PageLock_t
      BY <1>4, <1>7, EntryTypes
    <2>3. /\ e.version_no = entry.version_no
          /\ e.lock_type = entry.lock_type
          /\ e.lock_holder = entry.lock_holder
      BY <1>4, <1>7 DEF update_fail_page_lock_t, PageLock_t
    <2>4. e.wait_list = <<>>
      <3>1. DOMAIN e.wait_list = DOMAIN entry.wait_list
        BY <1>4, <1>7 DEF update_fail_page_lock_t, PageLock_t
      <3>2. e.wait_list \in Seq(WaitInfor)
        BY <2>2 DEF PageLock_t
      <3>3. DOMAIN entry.wait_list = {}
        BY <1>4, <1>7
      <3> HIDE DEF e
      <3>4. DOMAIN e.wait_list = 1 .. Len(e.wait_list) /\ Len(e.wait_list) \in Nat
        BY <3>2
      <3>5. 1 \notin 1 .. Len(e.wait_list)
        BY <3>1, <3>3, <3>4
      <3>6. Len(e.wait_list) = 0
        BY <3>4, <3>5
      <3>7. QED
        BY <3>2, <3>6
    <2>5. e # NULL
      BY <2>2
    <2> HIDE DEF e
    <2>6. EntryEffect(h, lt, rt, entry, e)
      BY <1>7, <2>1, <2>3, <2>4, <2>5 DEF EntryEffect
    <2>7. QED
      BY <1>2, <2>1, <2>6
  <1>8. QED
    BY <1>3, <1>5, <1>6, <1>7

\* What a step does to the table: nothing, or what check_lock_request does for
\* the first request of some host.
LEMMA TableChange ==
    ASSUME TypeOK, NoWaiters, [Next]_vars
    PROVE  \/ page_lock_hash' = page_lock_hash
           \/ \E h \in Hosts, p \in Pages, lt \in PageLockType, rt \in PageReplyType :
                  /\ \A f \in Folds : f # cal_fold(p) => page_lock_hash'[f] = page_lock_hash[f]
                  /\ EntryEffect(h, lt, rt, page_lock_hash[cal_fold(p)], page_lock_hash'[cal_fold(p)])
  <1>1. ASSUME NEW h \in Hosts, lock_request_callback(h)
        PROVE  \E p \in Pages, lt \in PageLockType, rt \in PageReplyType :
                  /\ \A f \in Folds : f # cal_fold(p) => page_lock_hash'[f] = page_lock_hash[f]
                  /\ EntryEffect(h, lt, rt, page_lock_hash[cal_fold(p)], page_lock_hash'[cal_fold(p)])
    <2> DEFINE m == Head(to_server[h])
    <2>1. m \in PageLockRequest
      BY <1>1, TakeFirst DEF TypeOK, lock_request_callback
    <2>2. m.page \in Pages /\ m.lock_type \in PageLockType
      BY <2>1 DEF PageLockRequest
    <2>3. PICK rt \in PageReplyType : check_lock_request(h, m.page, m.lock_type, rt)
      BY <1>1 DEF lock_request_callback
    <2>4. TableTypeOK
      BY DEF TypeOK
    <2> HIDE DEF m
    <2>5. QED
      BY <2>2, <2>3, <2>4, TableEffect
  <1>2. ASSUME NEW t \in Threads, Ask(t) PROVE page_lock_hash' = page_lock_hash
    BY <1>2 DEF Ask, request_page_lock
  <1>3. ASSUME NEW t \in Threads, wait_for_lock_reply(t) PROVE page_lock_hash' = page_lock_hash
    BY <1>3 DEF wait_for_lock_reply
  <1>4. ASSUME NEW h \in Hosts, try_run_callback(h) PROVE page_lock_hash' = page_lock_hash
    BY <1>4 DEF try_run_callback
  <1>5. ASSUME NEW h \in Hosts, strand(h) PROVE page_lock_hash' = page_lock_hash
    BY <1>5 DEF strand
  <1>6. ASSUME NEW h \in Hosts, lose_reply(h) PROVE page_lock_hash' = page_lock_hash
    BY <1>6 DEF lose_reply
  <1>7. CASE ServerStep
    BY <1>7 DEF ServerStep, register_cb_function, register_cb_arg, server_dies, vars
  <1>8. QED
    BY <1>1, <1>2, <1>3, <1>4, <1>5, <1>6, <1>7
       DEF Next, strand_request, lose_request, ServerStep

\* No action ever puts a host on a wait list.
LEMMA NoWaitersStep == TypeOK /\ NoWaiters /\ [Next]_vars => NoWaiters'
  <1> SUFFICES ASSUME TypeOK, NoWaiters, [Next]_vars PROVE NoWaiters'
    OBVIOUS
  <1>1. CASE page_lock_hash' = page_lock_hash
    BY <1>1 DEF NoWaiters
  <1>2. ASSUME NEW h \in Hosts, NEW p \in Pages, NEW lt \in PageLockType, NEW rt \in PageReplyType,
               \A f \in Folds : f # cal_fold(p) => page_lock_hash'[f] = page_lock_hash[f],
               EntryEffect(h, lt, rt, page_lock_hash[cal_fold(p)], page_lock_hash'[cal_fold(p)])
        PROVE  NoWaiters'
    <2>1. page_lock_hash'[cal_fold(p)].wait_list = <<>>
      BY <1>2 DEF EntryEffect
    <2>2. QED
      BY <1>2, <2>1 DEF NoWaiters
  <1>3. QED
    BY <1>1, <1>2, TableChange

\* The table starts empty.
LEMMA NoWaitersInit == Init => NoWaiters
  BY DEF Init, TableInit, NoWaiters

\* Version rule 1 of lock_common.h, for any use of the service: an entry of the
\* hash is never dropped and its version_no never decreases.
THEOREM VersionsKept == Spec => VersionNeverReduces
  <1> DEFINE Kept == \A f \in Folds : page_lock_hash[f] # NULL =>
                         /\ page_lock_hash'[f] # NULL
                         /\ page_lock_hash'[f].version_no >= page_lock_hash[f].version_no
  <1>1. ASSUME TypeOK, NoWaiters, [Next]_vars PROVE Kept
    <2> SUFFICES ASSUME NEW f \in Folds, page_lock_hash[f] # NULL
                 PROVE  /\ page_lock_hash'[f] # NULL
                        /\ page_lock_hash'[f].version_no >= page_lock_hash[f].version_no
      OBVIOUS
    <2>1. page_lock_hash[f].version_no \in Nat
      BY <1>1 DEF TypeOK, TableTypeOK, PageLock_t
    <2>2. CASE page_lock_hash'[f] = page_lock_hash[f]
      BY <2>1, <2>2
    <2>3. ASSUME NEW h \in Hosts, NEW lt \in PageLockType, NEW rt \in PageReplyType,
                 EntryEffect(h, lt, rt, page_lock_hash[f], page_lock_hash'[f])
          PROVE  /\ page_lock_hash'[f] # NULL
                 /\ page_lock_hash'[f].version_no >= page_lock_hash[f].version_no
      BY <2>1, <2>3 DEF EntryEffect
    <2>4. QED
      BY <1>1, <2>2, <2>3, TableChange
  <1>2. TypeOK /\ NoWaiters /\ [Next]_vars => [Kept]_vars
    BY <1>1
  <1>3. QED
    BY <1>2, TypeCorrect, NoWaitersInit, NoWaitersStep, TypeStep, PTL DEF Spec, VersionNeverReduces

----------------------------------------------------------------------------
(***************************************************************************)
(* Requests and replies.                                                   *)
(***************************************************************************)

\* No two threads of a host ask for the same page.  Two that do take each
\* other's replies: PageLockReplyFilter compares nothing but the page.
OneAsker ==
    \A t, u \in Threads :
        t # u /\ HostOf[t] = HostOf[u] => PagesOf[t] \cap PagesOf[u] = {}

\* A message belongs to the call its thread is waiting in.
Addressed ==
    \A h \in Hosts :
        /\ \A m \in Range(to_server[h]) :
               /\ HostOf[m.caller] = h
               /\ call[m.caller] = [page |-> m.page, lock_type |-> m.lock_type]
        /\ \A m \in Range(to_client[h]) \cup Range(unprocessed[h]) :
               /\ HostOf[m.caller] = h
               /\ call[m.caller] # NoCall
               /\ call[m.caller].page = m.page

\* A thread has at most one message, in one place.
OneMessage ==
    \A h \in Hosts :
        /\ Distinct(to_server[h]) /\ Distinct(to_client[h]) /\ Distinct(unprocessed[h])
        /\ Callers(to_server[h]) \cap Callers(to_client[h]) = {}
        /\ Callers(to_server[h]) \cap Callers(unprocessed[h]) = {}
        /\ Callers(to_client[h]) \cap Callers(unprocessed[h]) = {}

\* The replies of thread t that it may still read, and the lost ones.
LiveReplies(t) ==
    {r \in Range(to_client[HostOf[t]]) \cup Range(unprocessed[HostOf[t]]) : r.caller = t}

LostReplies(t) == {r \in Range(lost_replies[HostOf[t]]) : r.caller = t}

\* A thread whose reply is lost waits, and has no other message.
LostApart ==
    \A h \in Hosts : \A m \in Range(lost_replies[h]) :
        /\ m.caller \in Threads
        /\ HostOf[m.caller] = h
        /\ call[m.caller] # NoCall
        /\ m.caller \notin Callers(to_server[h])
        /\ m.caller \notin Callers(to_client[h])
        /\ m.caller \notin Callers(unprocessed[h])

\* A thread only asks for its pages.
OwnPages == \A t \in Threads : call[t] # NoCall => call[t].page \in PagesOf[t]

MessageInv == TypeOK /\ Addressed /\ OneMessage /\ LostApart /\ OwnPages

\* The messages in the three sequences of a host are requests and replies.
LEMMA MessageTypes ==
    ASSUME TypeOK, NEW h \in Hosts
    PROVE  /\ to_server[h] \in Seq(PageLockRequest)
           /\ to_client[h] \in Seq(PageLockReply)
           /\ unprocessed[h] \in Seq(PageLockReply)
           /\ \A m \in Range(to_server[h]) :
                  m.caller \in Threads /\ m.page \in Pages /\ m.lock_type \in PageLockType
           /\ \A m \in Range(to_client[h]) \cup Range(unprocessed[h]) :
                  m.caller \in Threads /\ m.page \in Pages
  <1>1. /\ to_server[h] \in Seq(PageLockRequest)
        /\ to_client[h] \in Seq(PageLockReply)
        /\ unprocessed[h] \in Seq(PageLockReply)
    BY DEF TypeOK
  <1>2. /\ Range(to_server[h]) \subseteq PageLockRequest
        /\ Range(to_client[h]) \subseteq PageLockReply
        /\ Range(unprocessed[h]) \subseteq PageLockReply
    BY <1>1, RangeType
  <1>3. QED
    BY <1>1, <1>2 DEF PageLockRequest, PageLockReply

\* A call is not NoCall.
LEMMA CallTypes ==
    ASSUME TypeOK, NEW t \in Threads, call[t] # NoCall
    PROVE  call[t].page \in Pages /\ call[t].lock_type \in PageLockType
  BY DEF TypeOK, Calls

\* A thread that is in no call has no message anywhere.
LEMMA IdleHasNoMessage ==
    ASSUME TypeOK, Addressed, NEW t \in Threads, call[t] = NoCall, NEW h \in Hosts
    PROVE  /\ t \notin Callers(to_server[h])
           /\ t \notin Callers(to_client[h])
           /\ t \notin Callers(unprocessed[h])
  <1>1. \A m \in Range(to_server[h]) : m.caller # t
    <2> SUFFICES ASSUME NEW m \in Range(to_server[h]), m.caller = t PROVE FALSE
      OBVIOUS
    <2>1. call[t] = [page |-> m.page, lock_type |-> m.lock_type]
      BY ZenonT(40) DEF Addressed
    <2>2. m.page \in Pages /\ m.lock_type \in PageLockType
      BY MessageTypes
    <2>3. call[t] \in [page : Pages, lock_type : PageLockType]
      BY <2>1, <2>2
    <2>4. QED
      BY <2>3
  <1>2. \A m \in Range(to_client[h]) \cup Range(unprocessed[h]) : m.caller # t
    BY DEF Addressed
  <1>3. QED
    BY <1>1, <1>2 DEF Callers

\* The replies of a thread are those it may still read and the lost ones.
LEMMA RepliesSplit ==
    \A t : /\ RepliesFor(t) = LiveReplies(t) \cup LostReplies(t)
           /\ RepliesFor(t)' = LiveReplies(t)' \cup LostReplies(t)'
  BY DEF RepliesFor, LiveReplies, LostReplies

\* While no reply is lost, only the others matter.
LEMMA RepliesKept ==
    ASSUME lost_replies' = lost_replies, NEW t, LiveReplies(t)' = LiveReplies(t)
    PROVE  RepliesFor(t)' = RepliesFor(t)
  <1>1. LostReplies(t)' = LostReplies(t)
    BY DEF LostReplies
  <1>2. QED
    BY <1>1, RepliesSplit

\* request_page_lock sends the first message of a call.
LEMMA MessagesAsk ==
    ASSUME MessageInv, NEW t \in Threads, NEW p \in PagesOf[t], NEW lt \in PageLockType,
           request_page_lock(t, p, lt)
    PROVE  /\ Addressed' /\ OneMessage' /\ LostApart' /\ OwnPages'
           /\ call'[t] = [page |-> p, lock_type |-> lt]
           /\ \A u \in Threads : u # t => call'[u] = call[u]
           /\ RepliesFor(t) = {}
           /\ \A u \in Threads : RepliesFor(u)' = RepliesFor(u)
  <1> DEFINE h == HostOf[t]
             m == [page |-> p, lock_type |-> lt, caller |-> t]
  <1>2. TypeOK /\ h \in Hosts /\ p \in Pages /\ m \in PageLockRequest
    BY DEF MessageInv, PageLockRequest
  <1>3. call[t] = NoCall
    BY DEF request_page_lock
  <1>4. /\ to_server' = [to_server EXCEPT ![h] = Append(@, m)]
        /\ call' = [call EXCEPT ![t] = [page |-> p, lock_type |-> lt]]
        /\ to_client' = to_client
        /\ unprocessed' = unprocessed
    BY DEF request_page_lock
  <1>5. \A g \in Hosts : /\ t \notin Callers(to_server[g])
                         /\ t \notin Callers(to_client[g])
                         /\ t \notin Callers(unprocessed[g])
    BY <1>2, <1>3, IdleHasNoMessage DEF MessageInv
  <1>6. /\ Range(to_server'[h]) = Range(to_server[h]) \cup {m}
        /\ Distinct(to_server'[h])
    <2>1. to_server[h] \in Seq(PageLockRequest) /\ Distinct(to_server[h])
      BY <1>2 DEF TypeOK, MessageInv, OneMessage
    <2>2. to_server'[h] = Append(to_server[h], m)
      BY <1>2, <1>4 DEF TypeOK
    <2>3. QED
      BY <1>2, <1>5, <2>1, <2>2, AppendMessage
  <1>7. \A g \in Hosts : g # h => to_server'[g] = to_server[g]
    BY <1>2, <1>4 DEF TypeOK
  <1>8. /\ call'[t] = [page |-> p, lock_type |-> lt]
        /\ \A u \in Threads : u # t => call'[u] = call[u]
    BY <1>2, <1>4 DEF TypeOK
  <1>9. Addressed'
    <2> SUFFICES ASSUME NEW g \in Hosts
                 PROVE  /\ \A x \in Range(to_server'[g]) :
                               /\ HostOf[x.caller] = g
                               /\ call'[x.caller] = [page |-> x.page, lock_type |-> x.lock_type]
                        /\ \A x \in Range(to_client[g]) \cup Range(unprocessed[g]) :
                               /\ HostOf[x.caller] = g
                               /\ call'[x.caller] # NoCall
                               /\ call'[x.caller].page = x.page
      BY <1>4 DEF Addressed
    <2>1. ASSUME NEW x \in Range(to_server[g])
          PROVE  /\ HostOf[x.caller] = g
                 /\ call'[x.caller] = [page |-> x.page, lock_type |-> x.lock_type]
      <3>1. x.caller \in Threads /\ x.caller # t
        BY <1>2, <1>5, MessageTypes DEF Callers
      <3>2. QED
        BY <1>8, <3>1 DEF MessageInv, Addressed
    <2>2. ASSUME NEW x \in Range(to_server'[g])
          PROVE  /\ HostOf[x.caller] = g
                 /\ call'[x.caller] = [page |-> x.page, lock_type |-> x.lock_type]
      <3>1. CASE x \in Range(to_server[g])
        BY <2>1, <3>1
      <3>2. CASE x \notin Range(to_server[g])
        <4>1. g = h /\ x = m
          BY <1>6, <1>7, <2>2, <3>2
        <4>2. QED
          BY <1>8, <4>1
      <3>3. QED
        BY <3>1, <3>2
    <2>3. ASSUME NEW x \in Range(to_client[g]) \cup Range(unprocessed[g])
          PROVE  /\ HostOf[x.caller] = g
                 /\ call'[x.caller] # NoCall
                 /\ call'[x.caller].page = x.page
      <3>1. x.caller \in Threads /\ x.caller # t
        BY <1>2, <1>5, MessageTypes DEF Callers
      <3>2. QED
        BY <1>8, <3>1 DEF MessageInv, Addressed
    <2>4. QED
      BY <2>2, <2>3
  <1>10. OneMessage'
    <2> SUFFICES ASSUME NEW g \in Hosts
                 PROVE  /\ Distinct(to_server'[g])
                        /\ Distinct(to_client[g]) /\ Distinct(unprocessed[g])
                        /\ Callers(to_server'[g]) \cap Callers(to_client[g]) = {}
                        /\ Callers(to_server'[g]) \cap Callers(unprocessed[g]) = {}
                        /\ Callers(to_client[g]) \cap Callers(unprocessed[g]) = {}
      BY <1>4 DEF OneMessage
    <2>1. Callers(to_server'[g]) \subseteq Callers(to_server[g]) \cup {t}
      BY <1>6, <1>7 DEF Callers
    <2>2. Distinct(to_server'[g])
      BY <1>6, <1>7 DEF MessageInv, OneMessage
    <2>3. QED
      BY <1>5, <2>1, <2>2 DEF MessageInv, OneMessage
  <1>11. OwnPages'
    BY <1>8 DEF MessageInv, OwnPages
  <1>12. \A u \in Threads : LiveReplies(u)' = LiveReplies(u)
    BY <1>4 DEF LiveReplies
  <1>13. LiveReplies(t) = {}
    BY <1>2, <1>5 DEF LiveReplies, Callers
  <1>14. lost_replies' = lost_replies
    BY DEF request_page_lock
  <1>15. LostApart'
    <2> SUFFICES ASSUME NEW g \in Hosts, NEW x \in Range(lost_replies[g])
                 PROVE  /\ x.caller \in Threads
                        /\ HostOf[x.caller] = g
                        /\ call'[x.caller] # NoCall
                        /\ x.caller \notin Callers(to_server'[g])
                        /\ x.caller \notin Callers(to_client[g])
                        /\ x.caller \notin Callers(unprocessed[g])
      BY <1>4, <1>14 DEF LostApart
    <2>0. /\ x.caller \in Threads
          /\ HostOf[x.caller] = g
          /\ call[x.caller] # NoCall
          /\ x.caller \notin Callers(to_server[g])
          /\ x.caller \notin Callers(to_client[g])
          /\ x.caller \notin Callers(unprocessed[g])
      BY DEF MessageInv, LostApart
    <2>1. x.caller # t
      BY <1>3, <2>0
    <2>2. Callers(to_server'[g]) \subseteq Callers(to_server[g]) \cup {t}
      BY <1>6, <1>7 DEF Callers
    <2>3. QED
      BY <1>8, <2>0, <2>1, <2>2
  <1>16. LostReplies(t) = {}
    BY <1>2, <1>3 DEF MessageInv, LostApart, LostReplies
  <1>17. RepliesFor(t) = {} /\ \A u \in Threads : RepliesFor(u)' = RepliesFor(u)
    BY <1>12, <1>13, <1>14, <1>16, RepliesSplit, RepliesKept
  <1>18. QED
    BY <1>8, <1>9, <1>10, <1>11, <1>15, <1>17

\* wait_for_lock_reply: the reply the filter takes is the thread's own, because
\* nobody else on the host asks for the page.
LEMMA MessagesWait ==
    ASSUME OneAsker, MessageInv, NEW t \in Threads, wait_for_lock_reply(t)
    PROVE  /\ Addressed' /\ OneMessage' /\ LostApart' /\ OwnPages'
           /\ call[t] # NoCall
           /\ call'[t] = NoCall
           /\ \A u \in Threads : u # t => call'[u] = call[u]
           /\ \E r \in Range(unprocessed[HostOf[t]]) :
                  /\ RepliesFor(t) = {r}
                  /\ r \notin Range(unprocessed'[HostOf[t]])
                  /\ told' = [told EXCEPT ![t][call[t].page] =
                         Conclusion(call[t].lock_type, r.reply_type, @)]
           /\ RepliesFor(t)' = {}
           /\ \A u \in Threads : u # t => RepliesFor(u)' = RepliesFor(u)
  <1> DEFINE h == HostOf[t]
             page == call[t].page
  <1>1. TypeOK /\ h \in Hosts /\ call[t] # NoCall
    BY DEF MessageInv, wait_for_lock_reply
  <1>2. page \in PagesOf[t] /\ page \in Pages
    BY <1>1 DEF MessageInv, OwnPages
  <1>3. PICK i \in DOMAIN unprocessed[h] :
           /\ unprocessed[h][i].page = page
           /\ told' = [told EXCEPT ![t][page] =
                  Conclusion(call[t].lock_type, unprocessed[h][i].reply_type, @)]
           /\ unprocessed' = [unprocessed EXCEPT ![h] = RemoveAt(@, i)]
    BY DEF wait_for_lock_reply, readMessage, PageLockReplyFilter
  <1> DEFINE r == unprocessed[h][i]
  <1>4. /\ call' = [call EXCEPT ![t] = NoCall]
        /\ to_server' = to_server
        /\ to_client' = to_client
    BY DEF wait_for_lock_reply
  <1>5. r \in Range(unprocessed[h]) /\ r.caller \in Threads
    <2>1. r \in Range(unprocessed[h])
      BY <1>3 DEF Range
    <2>2. QED
      BY <1>1, <2>1, MessageTypes
  <1>6. r.caller = t
    <2>1. HostOf[r.caller] = h /\ call[r.caller] # NoCall /\ call[r.caller].page = page
      BY <1>1, <1>3, <1>5 DEF MessageInv, Addressed
    <2>2. page \in PagesOf[r.caller]
      BY <1>5, <2>1 DEF MessageInv, OwnPages
    <2>3. QED
      BY <1>2, <1>5, <2>1, <2>2 DEF OneAsker
  <1>7. /\ Range(unprocessed[h]) = {r} \cup Range(unprocessed'[h])
        /\ Distinct(unprocessed'[h])
        /\ t \notin Callers(unprocessed'[h])
    <2>1. unprocessed[h] \in Seq(PageLockReply) /\ Distinct(unprocessed[h])
      BY <1>1 DEF TypeOK, MessageInv, OneMessage
    <2>2. unprocessed'[h] = RemoveAt(unprocessed[h], i)
      BY <1>1, <1>3 DEF TypeOK
    <2>3. i \in 1 .. Len(unprocessed[h])
      BY <1>3, <2>1, RangeType
    <2>4. QED
      BY <1>6, <2>1, <2>2, <2>3, EraseAt
  <1>8. \A g \in Hosts : g # h => unprocessed'[g] = unprocessed[g]
    BY <1>1, <1>3 DEF TypeOK
  <1>9. \A g \in Hosts : /\ Range(unprocessed'[g]) \subseteq Range(unprocessed[g])
                         /\ Callers(unprocessed'[g]) \subseteq Callers(unprocessed[g])
                         /\ Distinct(unprocessed'[g])
    BY <1>7, <1>8 DEF Callers, MessageInv, OneMessage
  <1>10. \A g \in Hosts : /\ t \notin Callers(to_server[g])
                          /\ t \notin Callers(to_client[g])
                          /\ t \notin Callers(unprocessed'[g])
    <2> SUFFICES ASSUME NEW g \in Hosts
                 PROVE  /\ t \notin Callers(to_server[g])
                        /\ t \notin Callers(to_client[g])
                        /\ t \notin Callers(unprocessed'[g])
      OBVIOUS
    <2>1. CASE g = h
      <3>1. t \in Callers(unprocessed[h])
        BY <1>5, <1>6 DEF Callers
      <3>2. QED
        BY <1>1, <1>7, <2>1, <3>1 DEF MessageInv, OneMessage
    <2>2. CASE g # h
      <3>0. /\ \A x \in Range(to_server[g]) : HostOf[x.caller] = g
            /\ \A x \in Range(to_client[g]) \cup Range(unprocessed[g]) : HostOf[x.caller] = g
        BY DEF MessageInv, Addressed
      <3>1. /\ \A x \in Range(to_server[g]) : x.caller # t
            /\ \A x \in Range(to_client[g]) \cup Range(unprocessed[g]) : x.caller # t
        BY <2>2, <3>0
      <3>2. QED
        BY <1>8, <2>2, <3>1 DEF Callers
    <2>3. QED
      BY <2>1, <2>2
  <1>11. call'[t] = NoCall /\ \A u \in Threads : u # t => call'[u] = call[u]
    BY <1>1, <1>4 DEF TypeOK
  <1>12. Addressed'
    <2> SUFFICES ASSUME NEW g \in Hosts
                 PROVE  /\ \A x \in Range(to_server[g]) :
                               /\ HostOf[x.caller] = g
                               /\ call'[x.caller] = [page |-> x.page, lock_type |-> x.lock_type]
                        /\ \A x \in Range(to_client[g]) \cup Range(unprocessed'[g]) :
                               /\ HostOf[x.caller] = g
                               /\ call'[x.caller] # NoCall
                               /\ call'[x.caller].page = x.page
      BY <1>4 DEF Addressed
    <2>1. \A x \in Range(to_server[g]) : x.caller \in Threads /\ x.caller # t
      BY <1>1, <1>10, MessageTypes DEF Callers
    <2>2. \A x \in Range(to_client[g]) \cup Range(unprocessed'[g]) :
             x.caller \in Threads /\ x.caller # t
      BY <1>1, <1>9, <1>10, MessageTypes DEF Callers
    <2>3. \A x \in Range(to_server[g]) :
             /\ HostOf[x.caller] = g
             /\ call'[x.caller] = [page |-> x.page, lock_type |-> x.lock_type]
      <3>1. \A x \in Range(to_server[g]) :
               /\ HostOf[x.caller] = g
               /\ call[x.caller] = [page |-> x.page, lock_type |-> x.lock_type]
        BY DEF MessageInv, Addressed
      <3>2. \A x \in Range(to_server[g]) : call'[x.caller] = call[x.caller]
        BY <1>11, <2>1, Zenon
      <3>3. QED
        BY <3>1, <3>2, Zenon
    <2>4. \A x \in Range(to_client[g]) \cup Range(unprocessed'[g]) :
             /\ HostOf[x.caller] = g
             /\ call'[x.caller] # NoCall
             /\ call'[x.caller].page = x.page
      <3>1. Range(unprocessed'[g]) \subseteq Range(unprocessed[g])
        BY <1>9
      <3>2. QED
        BY <1>11, <2>2, <3>1 DEF MessageInv, Addressed
    <2>5. QED
      BY <2>3, <2>4
  <1>13. OneMessage'
    BY <1>4, <1>9 DEF MessageInv, OneMessage
  <1>14. OwnPages'
    BY <1>11 DEF MessageInv, OwnPages
  <1>15. LiveReplies(t) = {r}
    <2>1. ASSUME NEW x \in Range(to_client[h]) \cup Range(unprocessed[h]), x.caller = t
          PROVE  x = r
      BY <1>1, <1>7, <1>10, <2>1 DEF Callers
    <2>2. QED
      BY <1>5, <1>6, <2>1 DEF LiveReplies
  <1>16. LiveReplies(t)' = {}
    BY <1>1, <1>4, <1>10 DEF LiveReplies, Callers
  <1>17. ASSUME NEW u \in Threads, u # t PROVE LiveReplies(u)' = LiveReplies(u)
    <2>1. CASE HostOf[u] = h
      <3>1. LiveReplies(u)' = {x \in Range(to_client[h]) \cup Range(unprocessed'[h]) : x.caller = u}
        BY <1>4, <2>1 DEF LiveReplies
      <3>2. LiveReplies(u) = {x \in Range(to_client[h]) \cup Range(unprocessed[h]) : x.caller = u}
        BY <2>1 DEF LiveReplies
      <3>3. QED
        BY <1>6, <1>7, <1>17, <3>1, <3>2
    <2>2. CASE HostOf[u] # h
      BY <1>4, <1>8, <2>2 DEF LiveReplies
    <2>3. QED
      BY <2>1, <2>2
  <1>18. r \notin Range(unprocessed'[h])
    BY <1>6, <1>7 DEF Callers
  <1>19. lost_replies' = lost_replies
    BY DEF wait_for_lock_reply
  <1>20. \A g \in Hosts : \A x \in Range(lost_replies[g]) : x.caller # t
    <2>1. t \in Callers(unprocessed[h])
      BY <1>5, <1>6 DEF Callers
    <2>2. QED
      BY <2>1 DEF MessageInv, LostApart
  <1>21. LostApart'
    <2> SUFFICES ASSUME NEW g \in Hosts, NEW x \in Range(lost_replies[g])
                 PROVE  /\ x.caller \in Threads
                        /\ HostOf[x.caller] = g
                        /\ call'[x.caller] # NoCall
                        /\ x.caller \notin Callers(to_server[g])
                        /\ x.caller \notin Callers(to_client[g])
                        /\ x.caller \notin Callers(unprocessed'[g])
      BY <1>4, <1>19 DEF LostApart
    <2>0. /\ x.caller \in Threads
          /\ HostOf[x.caller] = g
          /\ call[x.caller] # NoCall
          /\ x.caller \notin Callers(to_server[g])
          /\ x.caller \notin Callers(to_client[g])
          /\ x.caller \notin Callers(unprocessed[g])
      BY DEF MessageInv, LostApart
    <2>1. x.caller # t
      BY <1>20
    <2>2. QED
      BY <1>9, <1>11, <2>0, <2>1
  <1>22. LostReplies(t) = {} /\ LostReplies(t)' = {}
    BY <1>1, <1>19, <1>20 DEF LostReplies
  <1>23. RepliesFor(t) = {r} /\ RepliesFor(t)' = {}
    BY <1>15, <1>16, <1>22, RepliesSplit
  <1>24. \A u \in Threads : u # t => RepliesFor(u)' = RepliesFor(u)
    BY <1>17, <1>19, RepliesKept
  <1>25. QED
    BY <1>1, <1>3, <1>5, <1>11, <1>12, <1>13, <1>14, <1>18, <1>21, <1>23, <1>24

\* try_run_callback on the client: a reply moves to the unprocessed list.
LEMMA MessagesQueue ==
    ASSUME MessageInv, NEW h \in Hosts, try_run_callback(h)
    PROVE  /\ Addressed' /\ OneMessage' /\ LostApart' /\ OwnPages'
           /\ \A u \in Threads : RepliesFor(u)' = RepliesFor(u)
  <1> DEFINE r == Head(to_client[h])
  <1>1. TypeOK
    BY DEF MessageInv
  <1>2. /\ to_client[h] # <<>>
        /\ unprocessed' = [unprocessed EXCEPT ![h] = Append(@, r)]
        /\ to_client' = [to_client EXCEPT ![h] = Tail(@)]
        /\ to_server' = to_server
        /\ call' = call
    BY DEF try_run_callback, client
  <1>3. /\ to_client'[h] = Tail(to_client[h])
        /\ unprocessed'[h] = Append(unprocessed[h], r)
        /\ \A g \in Hosts : g # h => to_client'[g] = to_client[g] /\ unprocessed'[g] = unprocessed[g]
    BY <1>1, <1>2 DEF TypeOK
  <1>4. /\ to_client[h] \in Seq(PageLockReply) /\ Distinct(to_client[h])
        /\ unprocessed[h] \in Seq(PageLockReply) /\ Distinct(unprocessed[h])
    BY <1>1 DEF TypeOK, MessageInv, OneMessage
  <1>5. /\ r \in PageLockReply /\ r \in Range(to_client[h])
        /\ Range(to_client[h]) = {r} \cup Range(to_client'[h])
        /\ Distinct(to_client'[h])
        /\ r.caller \notin Callers(to_client'[h])
    BY <1>2, <1>3, <1>4, TakeFirst
  <1>6. r.caller \notin Callers(to_server[h]) /\ r.caller \notin Callers(unprocessed[h])
    BY <1>5 DEF MessageInv, OneMessage, Callers
  <1>7. /\ Range(unprocessed'[h]) = Range(unprocessed[h]) \cup {r}
        /\ Distinct(unprocessed'[h])
    BY <1>3, <1>4, <1>5, <1>6, AppendMessage
  <1>8. \A g \in Hosts :
           Range(to_client'[g]) \cup Range(unprocessed'[g]) =
               Range(to_client[g]) \cup Range(unprocessed[g])
    BY <1>3, <1>5, <1>7
  <1>9. Addressed'
    <2> SUFFICES ASSUME NEW g \in Hosts
                 PROVE  /\ \A x \in Range(to_server[g]) :
                               /\ HostOf[x.caller] = g
                               /\ call[x.caller] = [page |-> x.page, lock_type |-> x.lock_type]
                        /\ \A x \in Range(to_client'[g]) \cup Range(unprocessed'[g]) :
                               /\ HostOf[x.caller] = g
                               /\ call[x.caller] # NoCall
                               /\ call[x.caller].page = x.page
      BY <1>2 DEF Addressed
    <2>1. Range(to_client'[g]) \cup Range(unprocessed'[g]) =
              Range(to_client[g]) \cup Range(unprocessed[g])
      BY <1>8
    <2>2. QED
      BY <2>1 DEF MessageInv, Addressed
  <1>10. OneMessage'
    <2> SUFFICES ASSUME NEW g \in Hosts
                 PROVE  /\ Distinct(to_server[g])
                        /\ Distinct(to_client'[g]) /\ Distinct(unprocessed'[g])
                        /\ Callers(to_server[g]) \cap Callers(to_client'[g]) = {}
                        /\ Callers(to_server[g]) \cap Callers(unprocessed'[g]) = {}
                        /\ Callers(to_client'[g]) \cap Callers(unprocessed'[g]) = {}
      BY <1>2 DEF OneMessage
    <2>1. /\ Callers(to_client'[h]) \subseteq Callers(to_client[h])
          /\ Callers(unprocessed'[h]) = Callers(unprocessed[h]) \cup {r.caller}
      BY <1>5, <1>7 DEF Callers
    <2>2. CASE g = h
      <3>1. /\ Distinct(to_server[h])
            /\ Callers(to_server[h]) \cap Callers(to_client[h]) = {}
            /\ Callers(to_server[h]) \cap Callers(unprocessed[h]) = {}
            /\ Callers(to_client[h]) \cap Callers(unprocessed[h]) = {}
        BY DEF MessageInv, OneMessage
      <3>2. QED
        BY <1>5, <1>6, <1>7, <2>1, <2>2, <3>1
    <2>3. CASE g # h
      BY <1>3, <2>3 DEF MessageInv, OneMessage
    <2>4. QED
      BY <2>2, <2>3
  <1>11. OwnPages'
    BY <1>2 DEF MessageInv, OwnPages
  <1>12. \A u \in Threads : LiveReplies(u)' = LiveReplies(u)
    BY <1>8 DEF LiveReplies
  <1>13. lost_replies' = lost_replies
    BY DEF try_run_callback
  <1>14. LostApart'
    <2> SUFFICES ASSUME NEW g \in Hosts, NEW x \in Range(lost_replies[g])
                 PROVE  /\ x.caller \in Threads
                        /\ HostOf[x.caller] = g
                        /\ call[x.caller] # NoCall
                        /\ x.caller \notin Callers(to_server[g])
                        /\ x.caller \notin Callers(to_client'[g])
                        /\ x.caller \notin Callers(unprocessed'[g])
      BY <1>2, <1>13 DEF LostApart
    <2>0. /\ x.caller \in Threads
          /\ HostOf[x.caller] = g
          /\ call[x.caller] # NoCall
          /\ x.caller \notin Callers(to_server[g])
          /\ x.caller \notin Callers(to_client[g])
          /\ x.caller \notin Callers(unprocessed[g])
      BY DEF MessageInv, LostApart
    <2>1. CASE g = h
      <3>1. /\ Callers(to_client'[h]) \subseteq Callers(to_client[h])
            /\ Callers(unprocessed'[h]) = Callers(unprocessed[h]) \cup {r.caller}
            /\ r.caller \in Callers(to_client[h])
        BY <1>5, <1>7 DEF Callers
      <3>2. QED
        BY <2>0, <2>1, <3>1
    <2>2. CASE g # h
      BY <1>3, <2>0, <2>2
    <2>3. QED
      BY <2>1, <2>2
  <1>15. \A u \in Threads : RepliesFor(u)' = RepliesFor(u)
    BY <1>12, <1>13, RepliesKept
  <1>16. QED
    BY <1>9, <1>10, <1>11, <1>14, <1>15

\* A request that is stranded leaves its host's connection; no reply moves.
LEMMA MessagesStrand ==
    ASSUME MessageInv, NEW h \in Hosts, strand(h)
    PROVE  /\ Addressed' /\ OneMessage' /\ LostApart' /\ OwnPages'
           /\ \A u \in Threads : RepliesFor(u)' = RepliesFor(u)
  <1>1. TypeOK
    BY DEF MessageInv
  <1>2. /\ to_server[h] # <<>>
        /\ to_server' = [to_server EXCEPT ![h] = Tail(@)]
        /\ to_client' = to_client
        /\ unprocessed' = unprocessed
        /\ call' = call
    BY DEF strand, client
  <1>3. /\ to_server'[h] = Tail(to_server[h])
        /\ \A g \in Hosts : g # h => to_server'[g] = to_server[g]
    BY <1>1, <1>2 DEF TypeOK
  <1>4. to_server[h] \in Seq(PageLockRequest) /\ Distinct(to_server[h])
    BY <1>1 DEF TypeOK, MessageInv, OneMessage
  <1>5. Range(to_server'[h]) \subseteq Range(to_server[h]) /\ Distinct(to_server'[h])
    BY <1>2, <1>3, <1>4, TakeFirst
  <1>6. \A g \in Hosts : /\ Range(to_server'[g]) \subseteq Range(to_server[g])
                         /\ Callers(to_server'[g]) \subseteq Callers(to_server[g])
                         /\ Distinct(to_server'[g])
    BY <1>3, <1>5 DEF Callers, MessageInv, OneMessage
  <1>7. Addressed'
    <2> SUFFICES ASSUME NEW g \in Hosts
                 PROVE  /\ \A x \in Range(to_server'[g]) :
                               /\ HostOf[x.caller] = g
                               /\ call[x.caller] = [page |-> x.page, lock_type |-> x.lock_type]
                        /\ \A x \in Range(to_client[g]) \cup Range(unprocessed[g]) :
                               /\ HostOf[x.caller] = g
                               /\ call[x.caller] # NoCall
                               /\ call[x.caller].page = x.page
      BY <1>2 DEF Addressed
    <2>1. Range(to_server'[g]) \subseteq Range(to_server[g])
      BY <1>6
    <2>2. QED
      BY <2>1 DEF MessageInv, Addressed
  <1>8. OneMessage'
    BY <1>2, <1>6 DEF MessageInv, OneMessage
  <1>9. OwnPages'
    BY <1>2 DEF MessageInv, OwnPages
  <1>10. \A u \in Threads : LiveReplies(u)' = LiveReplies(u)
    BY <1>2 DEF LiveReplies
  <1>11. lost_replies' = lost_replies
    BY DEF strand
  <1>12. LostApart'
    <2> SUFFICES ASSUME NEW g \in Hosts, NEW x \in Range(lost_replies[g])
                 PROVE  /\ x.caller \in Threads
                        /\ HostOf[x.caller] = g
                        /\ call[x.caller] # NoCall
                        /\ x.caller \notin Callers(to_server'[g])
                        /\ x.caller \notin Callers(to_client[g])
                        /\ x.caller \notin Callers(unprocessed[g])
      BY <1>2, <1>11 DEF LostApart
    <2>1. Callers(to_server'[g]) \subseteq Callers(to_server[g])
      BY <1>6
    <2>2. QED
      BY <2>1 DEF MessageInv, LostApart
  <1>13. \A u \in Threads : RepliesFor(u)' = RepliesFor(u)
    BY <1>10, <1>11, RepliesKept
  <1>14. QED
    BY <1>7, <1>8, <1>9, <1>12, <1>13

\* lock_request_callback: the request of a thread turns into its reply.
LEMMA MessagesCallback ==
    ASSUME MessageInv, NEW h \in Hosts, lock_request_callback(h)
    PROVE  /\ Addressed' /\ OneMessage' /\ LostApart' /\ OwnPages'
           /\ call' = call
           /\ told' = told
           /\ \E t \in Threads, rt \in PageReplyType :
                  /\ HostOf[t] = h
                  /\ call[t] # NoCall
                  /\ check_lock_request(h, call[t].page, call[t].lock_type, rt)
                  /\ RepliesFor(t) = {}
                  /\ RepliesFor(t)' = {[page |-> call[t].page, reply_type |-> rt, caller |-> t]}
                  /\ \A u \in Threads : u # t => RepliesFor(u)' = RepliesFor(u)
                  /\ to_client' = [to_client EXCEPT ![h] =
                         Append(@, [page |-> call[t].page, reply_type |-> rt, caller |-> t])]
  <1>1. TypeOK /\ to_server[h] # <<>>
    BY DEF MessageInv, lock_request_callback
  <1>0. PICK m \in PageLockRequest : m = Head(to_server[h])
    BY <1>1, TakeFirst DEF TypeOK
  <1> DEFINE t == m.caller
             p == m.page
             lt == m.lock_type
  <1>2. PICK rt \in PageReplyType :
           /\ check_lock_request(h, p, lt, rt)
           /\ to_client' = [to_client EXCEPT ![h] =
                  Append(@, [page |-> p, reply_type |-> rt, caller |-> t])]
    BY <1>0 DEF lock_request_callback
  <1> DEFINE r == [page |-> p, reply_type |-> rt, caller |-> t]
  <1>3. /\ to_server' = [to_server EXCEPT ![h] = Tail(@)]
        /\ unprocessed' = unprocessed
        /\ call' = call
        /\ told' = told
    BY DEF lock_request_callback, client
  <1>4. /\ to_server'[h] = Tail(to_server[h])
        /\ to_client'[h] = Append(to_client[h], r)
        /\ \A g \in Hosts : g # h => to_server'[g] = to_server[g] /\ to_client'[g] = to_client[g]
    BY <1>1, <1>2, <1>3 DEF TypeOK
  <1>5. /\ to_server[h] \in Seq(PageLockRequest) /\ Distinct(to_server[h])
        /\ to_client[h] \in Seq(PageLockReply) /\ Distinct(to_client[h])
        /\ Callers(to_server[h]) \cap Callers(to_client[h]) = {}
        /\ Callers(to_server[h]) \cap Callers(unprocessed[h]) = {}
        /\ Callers(to_client[h]) \cap Callers(unprocessed[h]) = {}
        /\ Distinct(unprocessed[h])
    BY <1>1 DEF TypeOK, MessageInv, OneMessage
  <1>6. /\ m \in PageLockRequest /\ m \in Range(to_server[h])
        /\ Range(to_server'[h]) \subseteq Range(to_server[h])
        /\ Distinct(to_server'[h])
        /\ t \notin Callers(to_server'[h])
    BY <1>1, <1>4, <1>5, <1>0, TakeFirst
  <1>7. t \in Threads /\ p \in Pages /\ lt \in PageLockType /\ r \in PageLockReply
    BY <1>6 DEF PageLockRequest, PageLockReply
  <1>8. t \notin Callers(to_client[h]) /\ t \notin Callers(unprocessed[h])
    <2>1. t \in Callers(to_server[h])
      BY <1>6 DEF Callers
    <2>2. QED
      BY <1>5, <2>1
  <1>9. /\ Range(to_client'[h]) = Range(to_client[h]) \cup {r}
        /\ Distinct(to_client'[h])
    <2>1. r.caller = t
      OBVIOUS
    <2> HIDE DEF r, t
    <2>2. QED
      BY <1>4, <1>5, <1>7, <1>8, <2>1, AppendMessage
  <1>10. /\ HostOf[t] = h
         /\ call[t] = [page |-> p, lock_type |-> lt]
    BY <1>6 DEF MessageInv, Addressed
  <1>11. call[t] # NoCall /\ call[t].page = p /\ call[t].lock_type = lt
    <2>1. call[t] \in [page : Pages, lock_type : PageLockType]
      BY <1>7, <1>10
    <2>2. QED
      BY <1>10, <2>1
  <1> HIDE DEF t, p, lt, r
  <1>13. r.caller = t /\ r.page = p /\ r.reply_type = rt
    BY DEF r
  <1>14. Addressed'
    <2> SUFFICES ASSUME NEW g \in Hosts
                 PROVE  /\ \A x \in Range(to_server'[g]) :
                               /\ HostOf[x.caller] = g
                               /\ call[x.caller] = [page |-> x.page, lock_type |-> x.lock_type]
                        /\ \A x \in Range(to_client'[g]) \cup Range(unprocessed[g]) :
                               /\ HostOf[x.caller] = g
                               /\ call[x.caller] # NoCall
                               /\ call[x.caller].page = x.page
      BY <1>3 DEF Addressed
    <2>1. Range(to_server'[g]) \subseteq Range(to_server[g])
      BY <1>4, <1>6
    <2>2. \/ Range(to_client'[g]) \subseteq Range(to_client[g])
          \/ /\ g = h
             /\ Range(to_client'[g]) = Range(to_client[g]) \cup {r}
      BY <1>4, <1>9
    <2>3. \A x \in Range(to_server'[g]) :
             /\ HostOf[x.caller] = g
             /\ call[x.caller] = [page |-> x.page, lock_type |-> x.lock_type]
      BY <2>1 DEF MessageInv, Addressed
    <2>4. ASSUME NEW x \in Range(to_client'[g]) \cup Range(unprocessed[g])
          PROVE  /\ HostOf[x.caller] = g
                 /\ call[x.caller] # NoCall
                 /\ call[x.caller].page = x.page
      <3>1. CASE x \in Range(to_client[g]) \cup Range(unprocessed[g])
        BY <3>1 DEF MessageInv, Addressed
      <3>2. CASE x \notin Range(to_client[g]) \cup Range(unprocessed[g])
        <4>1. g = h /\ x = r
          BY <2>2, <2>4, <3>2
        <4>2. QED
          BY <1>10, <1>11, <1>13, <4>1
      <3>3. QED
        BY <3>1, <3>2
    <2>5. QED
      BY <2>3, <2>4
  <1>15. OneMessage'
    <2> SUFFICES ASSUME NEW g \in Hosts
                 PROVE  /\ Distinct(to_server'[g])
                        /\ Distinct(to_client'[g]) /\ Distinct(unprocessed[g])
                        /\ Callers(to_server'[g]) \cap Callers(to_client'[g]) = {}
                        /\ Callers(to_server'[g]) \cap Callers(unprocessed[g]) = {}
                        /\ Callers(to_client'[g]) \cap Callers(unprocessed[g]) = {}
      BY <1>3 DEF OneMessage
    <2>1. CASE g = h
      <3>1. /\ Callers(to_server'[h]) \subseteq Callers(to_server[h])
            /\ Callers(to_client'[h]) = Callers(to_client[h]) \cup {t}
        BY <1>6, <1>9, <1>13 DEF Callers
      <3>2. QED
        BY <1>5, <1>6, <1>8, <1>9, <2>1, <3>1
    <2>2. CASE g # h
      BY <1>4, <2>2 DEF MessageInv, OneMessage
    <2>3. QED
      BY <2>1, <2>2
  <1>16. OwnPages'
    BY <1>3 DEF MessageInv, OwnPages
  <1>17. LiveReplies(t) = {}
    BY <1>8, <1>10 DEF LiveReplies, Callers
  <1>18. \A x : x \in LiveReplies(t)' <=> x = r
    <2>1. LiveReplies(t)' = {x \in Range(to_client'[h]) \cup Range(unprocessed[h]) : x.caller = t}
      BY <1>3, <1>10 DEF LiveReplies
    <2>2. LiveReplies(t) = {x \in Range(to_client[h]) \cup Range(unprocessed[h]) : x.caller = t}
      BY <1>10 DEF LiveReplies
    <2>3. QED
      BY <1>9, <1>13, <1>17, <2>1, <2>2
  <1>19. ASSUME NEW u \in Threads, u # t PROVE LiveReplies(u)' = LiveReplies(u)
    <2>1. CASE HostOf[u] = h
      <3>1. LiveReplies(u)' = {x \in Range(to_client'[h]) \cup Range(unprocessed[h]) : x.caller = u}
        BY <1>3, <2>1 DEF LiveReplies
      <3>2. LiveReplies(u) = {x \in Range(to_client[h]) \cup Range(unprocessed[h]) : x.caller = u}
        BY <2>1 DEF LiveReplies
      <3>3. QED
        BY <1>9, <1>13, <1>19, <3>1, <3>2
    <2>2. CASE HostOf[u] # h
      BY <1>3, <1>4, <2>2 DEF LiveReplies
    <2>3. QED
      BY <2>1, <2>2
  <1>20. LiveReplies(t)' = {r}
    BY <1>18
  <1>21. /\ check_lock_request(h, call[t].page, call[t].lock_type, rt)
         /\ r = [page |-> call[t].page, reply_type |-> rt, caller |-> t]
         /\ to_client' = [to_client EXCEPT ![h] = Append(@, r)]
    BY <1>2, <1>11 DEF r
  <1>22. lost_replies' = lost_replies
    BY DEF lock_request_callback
  <1>23. t \in Callers(to_server[h])
    BY <1>6 DEF Callers, t
  <1>24. LostApart'
    <2> SUFFICES ASSUME NEW g \in Hosts, NEW x \in Range(lost_replies[g])
                 PROVE  /\ x.caller \in Threads
                        /\ HostOf[x.caller] = g
                        /\ call[x.caller] # NoCall
                        /\ x.caller \notin Callers(to_server'[g])
                        /\ x.caller \notin Callers(to_client'[g])
                        /\ x.caller \notin Callers(unprocessed[g])
      BY <1>3, <1>22 DEF LostApart
    <2>0. /\ x.caller \in Threads
          /\ HostOf[x.caller] = g
          /\ call[x.caller] # NoCall
          /\ x.caller \notin Callers(to_server[g])
          /\ x.caller \notin Callers(to_client[g])
          /\ x.caller \notin Callers(unprocessed[g])
      BY DEF MessageInv, LostApart
    <2>1. CASE g = h
      <3>1. /\ Callers(to_server'[h]) \subseteq Callers(to_server[h])
            /\ Callers(to_client'[h]) = Callers(to_client[h]) \cup {t}
        BY <1>6, <1>9, <1>13 DEF Callers
      <3>2. QED
        BY <1>23, <2>0, <2>1, <3>1
    <2>2. CASE g # h
      BY <1>4, <2>0, <2>2
    <2>3. QED
      BY <2>1, <2>2
  <1>25. LostReplies(t) = {} /\ LostReplies(t)' = {}
    <2>1. \A x \in Range(lost_replies[h]) : x.caller # t
      BY <1>23 DEF MessageInv, LostApart
    <2>2. QED
      BY <1>10, <1>22, <2>1 DEF LostReplies
  <1>26. RepliesFor(t) = {} /\ RepliesFor(t)' = {r}
    BY <1>17, <1>20, <1>25, RepliesSplit
  <1>27. \A u \in Threads : u # t => RepliesFor(u)' = RepliesFor(u)
    BY <1>19, <1>22, RepliesKept
  <1>28. QED
    BY <1>3, <1>7, <1>10, <1>11, <1>14, <1>15, <1>16, <1>21, <1>24, <1>26, <1>27

\* A reply that is lost: nobody will read it, and it is still its thread's.
LEMMA MessagesLose ==
    ASSUME MessageInv, NEW h \in Hosts, lose_reply(h)
    PROVE  /\ Addressed' /\ OneMessage' /\ LostApart' /\ OwnPages'
           /\ \A u \in Threads : RepliesFor(u)' = RepliesFor(u)
  <1> DEFINE r == Head(to_client[h])
  <1>1. TypeOK
    BY DEF MessageInv
  <1>2. /\ to_client[h] # <<>>
        /\ lost_replies' = [lost_replies EXCEPT ![h] = Append(@, r)]
        /\ to_client' = [to_client EXCEPT ![h] = Tail(@)]
        /\ to_server' = to_server
        /\ unprocessed' = unprocessed
        /\ call' = call
    BY DEF lose_reply, client
  <1>3. /\ to_client'[h] = Tail(to_client[h])
        /\ lost_replies'[h] = Append(lost_replies[h], r)
        /\ \A g \in Hosts : g # h => to_client'[g] = to_client[g] /\ lost_replies'[g] = lost_replies[g]
    BY <1>1, <1>2 DEF TypeOK
  <1>4. /\ to_client[h] \in Seq(PageLockReply) /\ Distinct(to_client[h])
        /\ lost_replies[h] \in Seq(PageLockReply)
    BY <1>1 DEF TypeOK, MessageInv, OneMessage
  <1>5. /\ r \in PageLockReply /\ r \in Range(to_client[h])
        /\ Range(to_client[h]) = {r} \cup Range(to_client'[h])
        /\ Distinct(to_client'[h])
        /\ r.caller \notin Callers(to_client'[h])
    BY <1>2, <1>3, <1>4, TakeFirst
  <1>6. r.caller \notin Callers(to_server[h]) /\ r.caller \notin Callers(unprocessed[h])
    BY <1>5 DEF MessageInv, OneMessage, Callers
  <1>7. Range(lost_replies'[h]) = Range(lost_replies[h]) \cup {r}
    BY <1>3, <1>4, <1>5, AppendMessage
  <1>8. \A g \in Hosts : /\ Range(to_client'[g]) \subseteq Range(to_client[g])
                         /\ Callers(to_client'[g]) \subseteq Callers(to_client[g])
                         /\ Distinct(to_client'[g])
    BY <1>3, <1>5 DEF Callers, MessageInv, OneMessage
  <1>9. Addressed'
    <2> SUFFICES ASSUME NEW g \in Hosts
                 PROVE  /\ \A x \in Range(to_server[g]) :
                               /\ HostOf[x.caller] = g
                               /\ call[x.caller] = [page |-> x.page, lock_type |-> x.lock_type]
                        /\ \A x \in Range(to_client'[g]) \cup Range(unprocessed[g]) :
                               /\ HostOf[x.caller] = g
                               /\ call[x.caller] # NoCall
                               /\ call[x.caller].page = x.page
      BY <1>2 DEF Addressed
    <2>1. Range(to_client'[g]) \subseteq Range(to_client[g])
      BY <1>8
    <2>2. QED
      BY <2>1 DEF MessageInv, Addressed
  <1>10. OneMessage'
    BY <1>2, <1>8 DEF MessageInv, OneMessage
  <1>11. OwnPages'
    BY <1>2 DEF MessageInv, OwnPages
  <1>12. LostApart'
    <2> SUFFICES ASSUME NEW g \in Hosts, NEW x \in Range(lost_replies'[g])
                 PROVE  /\ x.caller \in Threads
                        /\ HostOf[x.caller] = g
                        /\ call[x.caller] # NoCall
                        /\ x.caller \notin Callers(to_server[g])
                        /\ x.caller \notin Callers(to_client'[g])
                        /\ x.caller \notin Callers(unprocessed[g])
      BY <1>2 DEF LostApart
    <2>1. CASE x \in Range(lost_replies[g])
      BY <1>8, <2>1 DEF MessageInv, LostApart
    <2>2. CASE x \notin Range(lost_replies[g])
      <3>1. g = h /\ x = r
        BY <1>3, <1>7, <2>2
      <3>2. r.caller \in Threads
        BY <1>5 DEF PageLockReply
      <3>3. HostOf[r.caller] = h /\ call[r.caller] # NoCall
        BY <1>5 DEF MessageInv, Addressed
      <3>4. QED
        BY <1>5, <1>6, <3>1, <3>2, <3>3
    <2>3. QED
      BY <2>1, <2>2
  <1>13. \A g \in Hosts :
            Range(to_client'[g]) \cup Range(unprocessed'[g]) \cup Range(lost_replies'[g]) =
                Range(to_client[g]) \cup Range(unprocessed[g]) \cup Range(lost_replies[g])
    BY <1>2, <1>3, <1>5, <1>7
  <1>14. \A u \in Threads : RepliesFor(u)' = RepliesFor(u)
    BY <1>13 DEF RepliesFor
  <1>15. QED
    BY <1>9, <1>10, <1>11, <1>12, <1>14

\* A step that moves no message and no call.
LEMMA MessagesIdle ==
    ASSUME MessageInv, UNCHANGED <<net, client>>
    PROVE  /\ Addressed' /\ OneMessage' /\ LostApart' /\ OwnPages'
           /\ \A u \in Threads : RepliesFor(u)' = RepliesFor(u)
  <1>1. /\ to_server' = to_server
        /\ to_client' = to_client
        /\ unprocessed' = unprocessed
        /\ lost_replies' = lost_replies
        /\ call' = call
    BY DEF net, client
  <1>2. Addressed'
    BY <1>1 DEF MessageInv, Addressed
  <1>3. OneMessage'
    BY <1>1 DEF MessageInv, OneMessage
  <1>4. OwnPages' /\ \A u \in Threads : RepliesFor(u)' = RepliesFor(u)
    BY <1>1 DEF MessageInv, OwnPages, RepliesFor
  <1>5. LostApart'
    BY <1>1 DEF MessageInv, LostApart
  <1>6. QED
    BY <1>2, <1>3, <1>4, <1>5

\* Every step keeps the messages apart: one step per action of the service.
LEMMA MessageStep ==
    ASSUME OneAsker, MessageInv, [Next]_vars
    PROVE  MessageInv'
  <1>1. TypeOK'
    BY TypeStep DEF MessageInv
  <1>2. ASSUME NEW t \in Threads, Ask(t) PROVE Addressed' /\ OneMessage' /\ LostApart' /\ OwnPages'
    BY <1>2, MessagesAsk DEF Ask
  <1>3. ASSUME NEW t \in Threads, wait_for_lock_reply(t)
        PROVE  Addressed' /\ OneMessage' /\ LostApart' /\ OwnPages'
    BY <1>3, MessagesWait
  <1>4. ASSUME NEW h \in Hosts, try_run_callback(h)
        PROVE  Addressed' /\ OneMessage' /\ LostApart' /\ OwnPages'
    BY <1>4, MessagesQueue
  <1>5. ASSUME NEW h \in Hosts, strand(h) PROVE Addressed' /\ OneMessage' /\ LostApart' /\ OwnPages'
    BY <1>5, MessagesStrand
  <1>6. ASSUME NEW h \in Hosts, lock_request_callback(h)
        PROVE  Addressed' /\ OneMessage' /\ LostApart' /\ OwnPages'
    BY <1>6, MessagesCallback
  <1>7. ASSUME NEW h \in Hosts, lose_reply(h)
        PROVE  Addressed' /\ OneMessage' /\ LostApart' /\ OwnPages'
    BY <1>7, MessagesLose
  <1>8. ASSUME ServerStep PROVE Addressed' /\ OneMessage' /\ LostApart' /\ OwnPages'
    BY <1>8, MessagesIdle
       DEF ServerStep, register_cb_function, register_cb_arg, server_dies, vars
  <1>9. QED
    BY <1>1, <1>2, <1>3, <1>4, <1>5, <1>6, <1>7, <1>8
       DEF Next, strand_request, lose_request, ServerStep, MessageInv

\* The service starts with no message and no call.
LEMMA MessageInit == Init => Addressed /\ OneMessage /\ LostApart /\ OwnPages
  <1> SUFFICES ASSUME Init PROVE Addressed /\ OneMessage /\ LostApart /\ OwnPages
    OBVIOUS
  <1>1. \A h \in Hosts : to_server[h] = <<>> /\ to_client[h] = <<>> /\ unprocessed[h] = <<>>
                       /\ lost_replies[h] = <<>>
    BY DEF Init
  <1>2. Range(<<>>) = {} /\ Callers(<<>>) = {} /\ Distinct(<<>>)
    BY DEF Range, Callers, Distinct
  <1>3. Addressed /\ OneMessage /\ LostApart
    BY <1>1, <1>2 DEF Addressed, OneMessage, LostApart
  <1>4. OwnPages
    BY DEF Init, OwnPages
  <1>5. QED
    BY <1>3, <1>4

\* PageLockReplyFilter compares nothing but the page.  When no two threads of a
\* host ask for the same page that is enough, whatever the threads ask for and
\* whether or not they heed the replies: a call only returns with the reply to
\* its own request.
THEOREM RepliesReachCallers ==
    ASSUME OneAsker
    PROVE  Spec => ReplyReachesCaller
  <1> DEFINE Own(t) == \E r \in RepliesFor(t) :
                           /\ r \in Range(unprocessed[HostOf[t]])
                           /\ r \notin Range(unprocessed'[HostOf[t]])
             Reaches == \A t \in Threads : call[t] # NoCall /\ call'[t] = NoCall => Own(t)
  <1>1. ASSUME MessageInv, [Next]_vars PROVE Reaches
    <2> SUFFICES ASSUME NEW u \in Threads, call[u] # NoCall, call'[u] = NoCall PROVE Own(u)
      OBVIOUS
    <2>0. TypeOK'
      BY <1>1, TypeStep DEF MessageInv
    <2>1. ASSUME NEW t \in Threads, Ask(t) PROVE FALSE
      <3>1. PICK p \in PagesOf[t], lt \in PageLockType : request_page_lock(t, p, lt)
        BY <2>1 DEF Ask
      <3>2. call'[t] = [page |-> p, lock_type |-> lt] /\ (u # t => call'[u] = call[u])
        BY <1>1, <3>1, MessagesAsk
      <3>3. call'[t] \in [page : Pages, lock_type : PageLockType]
        BY <3>2
      <3>4. QED
        BY <3>2, <3>3
    <2>2. ASSUME NEW t \in Threads, wait_for_lock_reply(t) PROVE Own(u)
      <3>1. /\ \A v \in Threads : v # t => call'[v] = call[v]
            /\ \E r \in Range(unprocessed[HostOf[t]]) :
                   RepliesFor(t) = {r} /\ r \notin Range(unprocessed'[HostOf[t]])
        BY <1>1, <2>2, MessagesWait
      <3>2. u = t
        BY <3>1
      <3>3. QED
        BY <3>1, <3>2
    <2>3. ASSUME call' = call PROVE FALSE
      BY <2>3
    <2>4. QED
      BY <1>1, <2>1, <2>2, <2>3
         DEF Next, try_run_callback, strand_request, lose_request, strand, lose_reply,
             lock_request_callback, register_cb_function, register_cb_arg, server_dies, vars,
             client
  <1>2. MessageInv /\ [Next]_vars => MessageInv'
    BY MessageStep
  <1>3. Init /\ TypeOK => MessageInv
    BY MessageInit DEF MessageInv
  <1>4. MessageInv /\ [Next]_vars => [Reaches]_vars
    BY <1>1
  <1>5. QED
    BY <1>2, <1>3, <1>4, TypeCorrect, PTL DEF Spec, ReplyReachesCaller

----------------------------------------------------------------------------
(***************************************************************************)
(* One answer per call, for any use of the service.                        *)
(***************************************************************************)

\* A request is sent on the connection of its thread's host.
SentFromHost ==
    \A h \in Hosts : \A m \in Range(to_server[h]) : HostOf[m.caller] = h

\* The threads of host h that wait for a reply about page p.
Waiting(h, p) ==
    {t \in Threads : HostOf[t] = h /\ call[t] # NoCall /\ call[t].page = p}

\* The stranded requests of host h about page p.
StrandedOf(h, p) ==
    {i \in DOMAIN stranded : stranded[i].page = p /\ HostOf[stranded[i].caller] = h}

\* One message per waiting thread, on every host.
AllAnswered ==
    \A h \in Hosts, p \in Pages : MessagesAbout(h, p) = Cardinality(Waiting(h, p))

AnswerInv == TypeOK /\ SentFromHost /\ AllAnswered

\* The counts of AllAnswered are natural numbers.
LEMMA CountsAreNat ==
    ASSUME IsFiniteSet(Threads), TypeOK, NEW h \in Hosts, NEW p \in Pages
    PROVE  /\ Cardinality(Places(to_server[h], p)) \in Nat
           /\ Cardinality(Places(to_client[h], p)) \in Nat
           /\ Cardinality(Places(unprocessed[h], p)) \in Nat
           /\ Cardinality(Places(lost_replies[h], p)) \in Nat
           /\ IsFiniteSet(StrandedOf(h, p))
           /\ Cardinality(StrandedOf(h, p)) \in Nat
           /\ IsFiniteSet(Waiting(h, p))
           /\ Cardinality(Waiting(h, p)) \in Nat
           /\ MessagesAbout(h, p) =
                  Cardinality(Places(to_server[h], p)) + Cardinality(Places(to_client[h], p))
                    + Cardinality(Places(unprocessed[h], p)) + Cardinality(Places(lost_replies[h], p))
                    + Cardinality(StrandedOf(h, p))
  <1>1. /\ Cardinality(Places(to_server[h], p)) \in Nat
        /\ Cardinality(Places(to_client[h], p)) \in Nat
        /\ Cardinality(Places(unprocessed[h], p)) \in Nat
        /\ Cardinality(Places(lost_replies[h], p)) \in Nat
    BY MessageTypes, PlacesFinite DEF TypeOK
  <1>2. IsFiniteSet(StrandedOf(h, p))
    <2>1. StrandedOf(h, p) \subseteq 1 .. Len(stranded) /\ Len(stranded) \in Nat
      BY DEF StrandedOf, TypeOK
    <2>2. IsFiniteSet(1 .. Len(stranded))
      BY <2>1, FS_Interval
    <2>3. QED
      BY <2>1, <2>2, FS_Subset
  <1>3. IsFiniteSet(Waiting(h, p))
    <2>1. Waiting(h, p) \subseteq Threads
      BY DEF Waiting
    <2>2. QED
      BY <2>1, FS_Subset
  <1>4. MessagesAbout(h, p) =
            Cardinality(Places(to_server[h], p)) + Cardinality(Places(to_client[h], p))
              + Cardinality(Places(unprocessed[h], p)) + Cardinality(Places(lost_replies[h], p))
                    + Cardinality(StrandedOf(h, p))
    BY DEF MessagesAbout, Places, StrandedOf
  <1>5. QED
    BY <1>1, <1>2, <1>3, <1>4, FS_CardinalityType

\* request_page_lock: one waiting thread more, one request more.
LEMMA AskCounts ==
    ASSUME IsFiniteSet(Threads), AnswerInv, TypeOK', NEW t \in Threads, Ask(t)
    PROVE  AnswerInv'
  <1>1. PICK p \in PagesOf[t], lt \in PageLockType : request_page_lock(t, p, lt)
    BY DEF Ask
  <1> DEFINE h == HostOf[t]
             m == [page |-> p, lock_type |-> lt, caller |-> t]
  <1>2. TypeOK /\ h \in Hosts /\ p \in Pages /\ m \in PageLockRequest
    BY DEF AnswerInv, PageLockRequest
  <1>3. /\ call[t] = NoCall
        /\ call' = [call EXCEPT ![t] = [page |-> p, lock_type |-> lt]]
        /\ to_server' = [to_server EXCEPT ![h] = Append(@, m)]
        /\ to_client' = to_client
        /\ unprocessed' = unprocessed
        /\ lost_replies' = lost_replies
        /\ stranded' = stranded
    BY <1>1 DEF request_page_lock
  <1>4. /\ to_server'[h] = Append(to_server[h], m)
        /\ \A g \in Hosts : g # h => to_server'[g] = to_server[g]
    BY <1>2, <1>3 DEF TypeOK
  <1>5. /\ call'[t] = [page |-> p, lock_type |-> lt]
        /\ call'[t] # NoCall
        /\ call'[t].page = p
        /\ \A u \in Threads : u # t => call'[u] = call[u]
    <2>1. call'[t] = [page |-> p, lock_type |-> lt] /\ \A u \in Threads : u # t => call'[u] = call[u]
      BY <1>2, <1>3 DEF TypeOK
    <2>2. [page |-> p, lock_type |-> lt] \in [page : Pages, lock_type : PageLockType]
      BY <1>2
    <2>3. QED
      BY <2>1, <2>2
  <1>6. SentFromHost'
    <2>1. Range(to_server'[h]) = Range(to_server[h]) \cup {m}
      BY <1>2, <1>4, MessageTypes, AppendMessage
    <2>2. m.caller = t
      OBVIOUS
    <2> HIDE DEF m
    <2>3. QED
      BY <1>4, <2>1, <2>2 DEF AnswerInv, SentFromHost
  <1>7. ASSUME NEW g \in Hosts, NEW q \in Pages
        PROVE  MessagesAbout(g, q)' = Cardinality(Waiting(g, q)')
    <2>1. MessagesAbout(g, q) = Cardinality(Waiting(g, q))
      BY DEF AnswerInv, AllAnswered
    <2> DEFINE a == Cardinality(Places(to_server[g], q))
               b == Cardinality(Places(to_client[g], q))
               c == Cardinality(Places(unprocessed[g], q))
               d == Cardinality(Places(lost_replies[g], q))
               e == Cardinality(StrandedOf(g, q))
               a2 == Cardinality(Places(to_server'[g], q))
    <2>2. /\ a \in Nat /\ b \in Nat /\ c \in Nat /\ d \in Nat /\ e \in Nat
          /\ IsFiniteSet(Waiting(g, q)) /\ Cardinality(Waiting(g, q)) \in Nat
          /\ MessagesAbout(g, q) = a + b + c + d + e
      BY <1>2, CountsAreNat
    <2>3. MessagesAbout(g, q)' = a2 + b + c + d + e
      BY <1>3 DEF MessagesAbout, Places, StrandedOf
    <2>4. CASE g = h /\ q = p
      <3>1. a2 = a + 1
        <4>1. to_server[h] \in Seq(PageLockRequest) /\ m.page = p
          BY <1>2 DEF TypeOK
        <4> HIDE DEF m
        <4>2. Cardinality(Places(Append(to_server[h], m), q)) =
                  Cardinality(Places(to_server[h], q)) + 1
          BY <1>2, <2>4, <4>1, CountAppend
        <4>3. QED
          BY <1>4, <2>4, <4>2
      <3>2. Waiting(g, q)' = Waiting(g, q) \cup {t} /\ t \notin Waiting(g, q)
        BY <1>3, <1>5, <2>4 DEF Waiting
      <3>3. Cardinality(Waiting(g, q)') = Cardinality(Waiting(g, q)) + 1
        BY <2>2, <3>2, FS_AddElement
      <3> HIDE DEF a, b, c, d, e, a2
      <3>4. (a + 1) + b + c + d + e = (a + b + c + d + e) + 1
        BY <2>2
      <3>5. QED
        BY <2>1, <2>2, <2>3, <3>1, <3>3, <3>4, Zenon
    <2>5. CASE ~(g = h /\ q = p)
      <3>1. a2 = a
        <4>1. CASE g = h
          <5>1. to_server[h] \in Seq(PageLockRequest) /\ m.page # q
            BY <1>2, <2>5, <4>1 DEF TypeOK
          <5> HIDE DEF m
          <5>2. Cardinality(Places(Append(to_server[h], m), q)) =
                    Cardinality(Places(to_server[h], q)) + 0
            BY <1>2, <5>1, CountAppend
          <5>3. a2 = a + 0
            BY <1>4, <4>1, <5>2
          <5> HIDE DEF a, b, c, d, e, a2
          <5>4. a + 0 = a
            BY <2>2
          <5>5. QED
            BY <5>3, <5>4
        <4>2. CASE g # h
          BY <1>4, <4>2
        <4>3. QED
          BY <4>1, <4>2
      <3>2. Waiting(g, q)' = Waiting(g, q)
        BY <1>3, <1>5, <2>5 DEF Waiting
      <3> HIDE DEF a, b, c, d, e, a2
      <3>3. QED
        BY <2>1, <2>2, <2>3, <3>1, <3>2
    <2>6. QED
      BY <2>4, <2>5
  <1>8. AllAnswered'
    BY <1>7 DEF AllAnswered
  <1>9. QED
    BY <1>6, <1>8 DEF AnswerInv

\* wait_for_lock_reply: the reply taken is about the page of the call.
LEMMA WaitCounts ==
    ASSUME IsFiniteSet(Threads), AnswerInv, TypeOK', NEW t \in Threads, wait_for_lock_reply(t)
    PROVE  AnswerInv'
  <1> DEFINE h == HostOf[t]
             p == call[t].page
  <1>1. TypeOK /\ h \in Hosts /\ call[t] # NoCall
    BY DEF AnswerInv, wait_for_lock_reply
  <1>2. PICK i \in DOMAIN unprocessed[h] :
           /\ unprocessed[h][i].page = p
           /\ unprocessed' = [unprocessed EXCEPT ![h] = RemoveAt(@, i)]
    BY DEF wait_for_lock_reply, readMessage, PageLockReplyFilter
  <1>3. /\ call' = [call EXCEPT ![t] = NoCall]
        /\ to_server' = to_server
        /\ to_client' = to_client
        /\ lost_replies' = lost_replies
        /\ stranded' = stranded
    BY DEF wait_for_lock_reply
  <1>4. /\ unprocessed'[h] = RemoveAt(unprocessed[h], i)
        /\ \A g \in Hosts : g # h => unprocessed'[g] = unprocessed[g]
        /\ unprocessed[h] \in Seq(PageLockReply)
        /\ i \in 1 .. Len(unprocessed[h])
    BY <1>1, <1>2, RangeType DEF TypeOK
  <1>5. call'[t] = NoCall /\ \A u \in Threads : u # t => call'[u] = call[u]
    BY <1>1, <1>3 DEF TypeOK
  <1>6. SentFromHost'
    BY <1>3 DEF AnswerInv, SentFromHost
  <1>7. ASSUME NEW g \in Hosts, NEW q \in Pages
        PROVE  MessagesAbout(g, q)' = Cardinality(Waiting(g, q)')
    <2>1. MessagesAbout(g, q) = Cardinality(Waiting(g, q))
      BY DEF AnswerInv, AllAnswered
    <2> DEFINE a == Cardinality(Places(to_server[g], q))
               b == Cardinality(Places(to_client[g], q))
               c == Cardinality(Places(unprocessed[g], q))
               d == Cardinality(Places(lost_replies[g], q))
               e == Cardinality(StrandedOf(g, q))
               c2 == Cardinality(Places(unprocessed'[g], q))
    <2>2. /\ a \in Nat /\ b \in Nat /\ c \in Nat /\ d \in Nat /\ e \in Nat
          /\ IsFiniteSet(Waiting(g, q)) /\ Cardinality(Waiting(g, q)) \in Nat
          /\ MessagesAbout(g, q) = a + b + c + d + e
      BY <1>1, CountsAreNat
    <2>3. MessagesAbout(g, q)' = a + b + c2 + d + e
      BY <1>3 DEF MessagesAbout, Places, StrandedOf
    <2>4. CASE g = h /\ q = p
      <3>1. c2 = c - 1
        BY <1>2, <1>4, <2>4, CountErase
      <3>2. Waiting(g, q)' = Waiting(g, q) \ {t} /\ t \in Waiting(g, q)
        BY <1>1, <1>5, <2>4 DEF Waiting
      <3>3. Cardinality(Waiting(g, q)') = Cardinality(Waiting(g, q)) - 1
        <4>1. Cardinality(Waiting(g, q) \ {t}) = Cardinality(Waiting(g, q)) - 1
          BY <2>2, <3>2, FS_RemoveElement
        <4>2. QED
          BY <3>2, <4>1
      <3> HIDE DEF a, b, c, d, e, c2
      <3>4. a + b + (c - 1) + d + e = (a + b + c + d + e) - 1
        BY <2>2
      <3>5. QED
        BY <2>1, <2>2, <2>3, <3>1, <3>3, <3>4, Zenon
    <2>5. CASE ~(g = h /\ q = p)
      <3>1. c2 = c
        <4>1. CASE g = h
          <5>1. unprocessed[h][i].page # q
            BY <1>2, <2>5, <4>1
          <5>2. QED
            BY <1>4, <2>2, <4>1, <5>1, CountErase, SMTT(40)
        <4>2. CASE g # h
          BY <1>4, <4>2
        <4>3. QED
          BY <4>1, <4>2
      <3>2. Waiting(g, q)' = Waiting(g, q)
        BY <1>5, <2>5 DEF Waiting
      <3> HIDE DEF a, b, c, d, e, c2
      <3>3. QED
        BY <2>1, <2>2, <2>3, <3>1, <3>2
    <2>6. QED
      BY <2>4, <2>5
  <1>8. AllAnswered'
    BY <1>7 DEF AllAnswered
  <1>9. QED
    BY <1>6, <1>8 DEF AnswerInv

\* A message that moves from one place of its host to another is still counted
\* once.
LEMMA MoveCounts ==
    ASSUME IsFiniteSet(Threads), AnswerInv, SentFromHost', call' = call,
           \A g \in Hosts, q \in Pages : MessagesAbout(g, q)' = MessagesAbout(g, q),
           TypeOK'
    PROVE  AnswerInv'
  <1>1. \A g \in Hosts, q \in Pages : Waiting(g, q)' = Waiting(g, q)
    BY DEF Waiting
  <1>2. \A g \in Hosts, q \in Pages : MessagesAbout(g, q)' = Cardinality(Waiting(g, q)')
    BY <1>1 DEF AnswerInv, AllAnswered
  <1>3. QED
    BY <1>2 DEF AnswerInv, AllAnswered

\* try_run_callback on the client: from the connection to the list.
LEMMA QueueCounts ==
    ASSUME IsFiniteSet(Threads), AnswerInv, TypeOK', NEW h \in Hosts, try_run_callback(h)
    PROVE  AnswerInv'
  <1> DEFINE r == Head(to_client[h])
  <1>1. TypeOK /\ to_client[h] # <<>>
    BY DEF AnswerInv, try_run_callback
  <1>2. /\ unprocessed' = [unprocessed EXCEPT ![h] = Append(@, r)]
        /\ to_client' = [to_client EXCEPT ![h] = Tail(@)]
        /\ to_server' = to_server
        /\ lost_replies' = lost_replies
        /\ stranded' = stranded
        /\ call' = call
    BY DEF try_run_callback, client
  <1>3. /\ to_client'[h] = Tail(to_client[h])
        /\ unprocessed'[h] = Append(unprocessed[h], r)
        /\ \A g \in Hosts : g # h => to_client'[g] = to_client[g] /\ unprocessed'[g] = unprocessed[g]
    BY <1>1, <1>2 DEF TypeOK
  <1>4. /\ to_client[h] \in Seq(PageLockReply)
        /\ unprocessed[h] \in Seq(PageLockReply)
        /\ r \in PageLockReply
    BY <1>1, TakeFirst DEF TypeOK
  <1>5. ASSUME NEW g \in Hosts, NEW q \in Pages
        PROVE  MessagesAbout(g, q)' = MessagesAbout(g, q)
    <2> DEFINE a == Cardinality(Places(to_server[g], q))
               b == Cardinality(Places(to_client[g], q))
               c == Cardinality(Places(unprocessed[g], q))
               d == Cardinality(Places(lost_replies[g], q))
               e == Cardinality(StrandedOf(g, q))
               b2 == Cardinality(Places(to_client'[g], q))
               c2 == Cardinality(Places(unprocessed'[g], q))
               k == IF r.page = q THEN 1 ELSE 0
    <2>1. /\ a \in Nat /\ b \in Nat /\ c \in Nat /\ d \in Nat /\ e \in Nat
          /\ MessagesAbout(g, q) = a + b + c + d + e
      BY <1>1, CountsAreNat
    <2>2. MessagesAbout(g, q)' = a + b2 + c2 + d + e
      BY <1>2 DEF MessagesAbout, Places, StrandedOf
    <2>3. CASE g # h
      BY <1>3, <2>1, <2>2, <2>3
    <2>4. CASE g = h
      <3> HIDE DEF r
      <3>1. Cardinality(Places(Tail(to_client[h]), q)) = Cardinality(Places(to_client[h], q)) - k
        BY <1>1, <1>4, CountTail DEF r
      <3>2. Cardinality(Places(Append(unprocessed[h], r), q)) =
                Cardinality(Places(unprocessed[h], q)) + k
        BY <1>4, CountAppend
      <3>3. b2 = b - k /\ c2 = c + k
        BY <1>3, <2>4, <3>1, <3>2
      <3>4. k \in Nat
        OBVIOUS
      <3> HIDE DEF a, b, c, d, e, b2, c2, k
      <3>5. a + (b - k) + (c + k) + d + e = a + b + c + d + e
        BY <2>1, <3>4
      <3>6. QED
        BY <2>1, <2>2, <3>3, <3>5
    <2>5. QED
      BY <2>3, <2>4
  <1>6. SentFromHost'
    BY <1>2 DEF AnswerInv, SentFromHost
  <1>7. QED
    BY <1>2, <1>5, <1>6, MoveCounts

\* A reply that is lost.
LEMMA LoseCounts ==
    ASSUME IsFiniteSet(Threads), AnswerInv, TypeOK', NEW h \in Hosts, lose_reply(h)
    PROVE  AnswerInv'
  <1> DEFINE r == Head(to_client[h])
  <1>1. TypeOK /\ to_client[h] # <<>>
    BY DEF AnswerInv, lose_reply
  <1>2. /\ lost_replies' = [lost_replies EXCEPT ![h] = Append(@, r)]
        /\ to_client' = [to_client EXCEPT ![h] = Tail(@)]
        /\ to_server' = to_server
        /\ unprocessed' = unprocessed
        /\ stranded' = stranded
        /\ call' = call
    BY DEF lose_reply, client
  <1>3. /\ to_client'[h] = Tail(to_client[h])
        /\ lost_replies'[h] = Append(lost_replies[h], r)
        /\ \A g \in Hosts : g # h => to_client'[g] = to_client[g] /\ lost_replies'[g] = lost_replies[g]
    BY <1>1, <1>2 DEF TypeOK
  <1>4. /\ to_client[h] \in Seq(PageLockReply)
        /\ lost_replies[h] \in Seq(PageLockReply)
        /\ r \in PageLockReply
    BY <1>1, TakeFirst DEF TypeOK
  <1>5. ASSUME NEW g \in Hosts, NEW q \in Pages
        PROVE  MessagesAbout(g, q)' = MessagesAbout(g, q)
    <2> DEFINE a == Cardinality(Places(to_server[g], q))
               b == Cardinality(Places(to_client[g], q))
               c == Cardinality(Places(unprocessed[g], q))
               d == Cardinality(Places(lost_replies[g], q))
               e == Cardinality(StrandedOf(g, q))
               b2 == Cardinality(Places(to_client'[g], q))
               d2 == Cardinality(Places(lost_replies'[g], q))
               k == IF r.page = q THEN 1 ELSE 0
    <2>1. /\ a \in Nat /\ b \in Nat /\ c \in Nat /\ d \in Nat /\ e \in Nat
          /\ MessagesAbout(g, q) = a + b + c + d + e
      BY <1>1, CountsAreNat
    <2>2. MessagesAbout(g, q)' = a + b2 + c + d2 + e
      BY <1>2 DEF MessagesAbout, Places, StrandedOf
    <2>3. CASE g # h
      BY <1>3, <2>1, <2>2, <2>3
    <2>4. CASE g = h
      <3> HIDE DEF r
      <3>1. Cardinality(Places(Tail(to_client[h]), q)) = Cardinality(Places(to_client[h], q)) - k
        BY <1>1, <1>4, CountTail DEF r
      <3>2. Cardinality(Places(Append(lost_replies[h], r), q)) =
                Cardinality(Places(lost_replies[h], q)) + k
        BY <1>4, CountAppend
      <3>3. b2 = b - k /\ d2 = d + k
        BY <1>3, <2>4, <3>1, <3>2
      <3>4. k \in Nat
        OBVIOUS
      <3> HIDE DEF a, b, c, d, e, b2, d2, k
      <3>5. a + (b - k) + c + (d + k) + e = a + b + c + d + e
        BY <2>1, <3>4
      <3>6. QED
        BY <2>1, <2>2, <3>3, <3>5
    <2>5. QED
      BY <2>3, <2>4
  <1>6. SentFromHost'
    BY <1>2 DEF AnswerInv, SentFromHost
  <1>7. QED
    BY <1>2, <1>5, <1>6, MoveCounts

\* A request that is stranded.
LEMMA StrandCounts ==
    ASSUME IsFiniteSet(Threads), AnswerInv, TypeOK', NEW h \in Hosts, strand(h)
    PROVE  AnswerInv'
  <1> DEFINE m == Head(to_server[h])
  <1>1. TypeOK /\ to_server[h] # <<>>
    BY DEF AnswerInv, strand
  <1>2. /\ to_server' = [to_server EXCEPT ![h] = Tail(@)]
        /\ stranded' = Append(stranded, m)
        /\ to_client' = to_client
        /\ unprocessed' = unprocessed
        /\ lost_replies' = lost_replies
        /\ call' = call
    BY DEF strand, client
  <1>3. /\ to_server'[h] = Tail(to_server[h])
        /\ \A g \in Hosts : g # h => to_server'[g] = to_server[g]
    BY <1>1, <1>2 DEF TypeOK
  <1>4. /\ to_server[h] \in Seq(PageLockRequest)
        /\ m \in PageLockRequest
        /\ m \in Range(to_server[h])
        /\ Range(to_server'[h]) \subseteq Range(to_server[h])
    BY <1>1, <1>3, TakeFirst DEF TypeOK
  <1>5. HostOf[m.caller] = h
    BY <1>4 DEF AnswerInv, SentFromHost
  <1>6. SentFromHost'
    BY <1>3, <1>4 DEF AnswerInv, SentFromHost
  <1>7. /\ DOMAIN stranded = 1 .. Len(stranded)
        /\ Len(stranded) \in Nat
        /\ DOMAIN stranded' = 1 .. Len(stranded) + 1
        /\ \A i \in 1 .. Len(stranded) : stranded'[i] = stranded[i]
        /\ stranded'[Len(stranded) + 1] = m
    BY <1>1, <1>2 DEF TypeOK
  <1> HIDE DEF m
  <1>8. ASSUME NEW g \in Hosts, NEW q \in Pages
        PROVE  MessagesAbout(g, q)' = MessagesAbout(g, q)
    <2> DEFINE a == Cardinality(Places(to_server[g], q))
               b == Cardinality(Places(to_client[g], q))
               c == Cardinality(Places(unprocessed[g], q))
               d == Cardinality(Places(lost_replies[g], q))
               e == Cardinality(StrandedOf(g, q))
               a2 == Cardinality(Places(to_server'[g], q))
               e2 == Cardinality(StrandedOf(g, q)')
    <2>1. /\ a \in Nat /\ b \in Nat /\ c \in Nat /\ d \in Nat /\ e \in Nat
          /\ IsFiniteSet(StrandedOf(g, q))
          /\ MessagesAbout(g, q) = a + b + c + d + e
      BY <1>1, CountsAreNat
    <2>2. MessagesAbout(g, q)' = a2 + b + c + d + e2
      BY <1>2 DEF MessagesAbout, Places, StrandedOf
    <2>3. CASE g = h /\ m.page = q
      <3>1. Cardinality(Places(Tail(to_server[h]), q)) = Cardinality(Places(to_server[h], q)) - 1
        BY <1>1, <1>4, <2>3, CountTail DEF m
      <3>2. a2 = a - 1
        BY <1>3, <2>3, <3>1
      <3>3. /\ StrandedOf(g, q)' = StrandedOf(g, q) \cup {Len(stranded) + 1}
            /\ Len(stranded) + 1 \notin StrandedOf(g, q)
        BY <1>5, <1>7, <2>3 DEF StrandedOf
      <3>4. e2 = e + 1
        BY <2>1, <3>3, FS_AddElement
      <3> HIDE DEF a, b, c, d, e, a2, e2
      <3>5. (a - 1) + b + c + d + (e + 1) = a + b + c + d + e
        BY <2>1
      <3>6. QED
        BY <2>1, <2>2, <3>2, <3>4, <3>5
    <2>4. CASE ~(g = h /\ m.page = q)
      <3>1. a2 = a
        <4>1. CASE g = h
          <5>1. Cardinality(Places(Tail(to_server[h]), q)) = Cardinality(Places(to_server[h], q)) - 0
            BY <1>1, <1>4, <2>4, <4>1, CountTail DEF m
          <5>2. a2 = a - 0
            BY <1>3, <4>1, <5>1
          <5> HIDE DEF a, b, c, d, e, a2, e2
          <5>3. a - 0 = a
            BY <2>1
          <5>4. QED
            BY <5>2, <5>3
        <4>2. CASE g # h
          BY <1>3, <4>2
        <4>3. QED
          BY <4>1, <4>2
      <3>2. StrandedOf(g, q)' = StrandedOf(g, q)
        BY <1>5, <1>7, <2>4 DEF StrandedOf
      <3>3. QED
        BY <2>1, <2>2, <3>1, <3>2
    <2>5. QED
      BY <2>3, <2>4
  <1>9. QED
    BY <1>2, <1>6, <1>8, MoveCounts

\* lock_request_callback: a request becomes a reply about the same page.
LEMMA CallbackCounts ==
    ASSUME IsFiniteSet(Threads), AnswerInv, TypeOK', NEW h \in Hosts, lock_request_callback(h)
    PROVE  AnswerInv'
  <1> DEFINE m == Head(to_server[h])
  <1>1. TypeOK /\ to_server[h] # <<>>
    BY DEF AnswerInv, lock_request_callback
  <1>2. PICK rt \in PageReplyType :
           to_client' = [to_client EXCEPT ![h] =
               Append(@, [page |-> m.page, reply_type |-> rt, caller |-> m.caller])]
    BY DEF lock_request_callback
  <1> DEFINE r == [page |-> m.page, reply_type |-> rt, caller |-> m.caller]
  <1>3. /\ to_server' = [to_server EXCEPT ![h] = Tail(@)]
        /\ lost_replies' = lost_replies
        /\ stranded' = stranded
        /\ unprocessed' = unprocessed
        /\ call' = call
    BY DEF lock_request_callback, client
  <1>4. /\ to_server'[h] = Tail(to_server[h])
        /\ to_client'[h] = Append(to_client[h], r)
        /\ \A g \in Hosts : g # h => to_server'[g] = to_server[g] /\ to_client'[g] = to_client[g]
    BY <1>1, <1>2, <1>3 DEF TypeOK
  <1>5. /\ to_server[h] \in Seq(PageLockRequest)
        /\ to_client[h] \in Seq(PageLockReply)
        /\ m \in PageLockRequest
        /\ Range(to_server'[h]) \subseteq Range(to_server[h])
    BY <1>1, <1>4, TakeFirst DEF TypeOK
  <1>6. r \in PageLockReply /\ r.page = m.page
    BY <1>5 DEF PageLockRequest, PageLockReply
  <1>7. SentFromHost'
    BY <1>4, <1>5 DEF AnswerInv, SentFromHost
  <1>8. ASSUME NEW g \in Hosts, NEW q \in Pages
        PROVE  MessagesAbout(g, q)' = MessagesAbout(g, q)
    <2> DEFINE a == Cardinality(Places(to_server[g], q))
               b == Cardinality(Places(to_client[g], q))
               c == Cardinality(Places(unprocessed[g], q))
               d == Cardinality(Places(lost_replies[g], q))
               e == Cardinality(StrandedOf(g, q))
               a2 == Cardinality(Places(to_server'[g], q))
               b2 == Cardinality(Places(to_client'[g], q))
               k == IF m.page = q THEN 1 ELSE 0
    <2>1. /\ a \in Nat /\ b \in Nat /\ c \in Nat /\ d \in Nat /\ e \in Nat
          /\ MessagesAbout(g, q) = a + b + c + d + e
      BY <1>1, CountsAreNat
    <2>2. MessagesAbout(g, q)' = a2 + b2 + c + d + e
      BY <1>3 DEF MessagesAbout, Places, StrandedOf
    <2>3. CASE g # h
      BY <1>4, <2>1, <2>2, <2>3
    <2>4. CASE g = h
      <3>1. Cardinality(Places(Tail(to_server[h]), q)) = Cardinality(Places(to_server[h], q)) - k
        BY <1>1, <1>5, CountTail
      <3> HIDE DEF m, r
      <3>2. Cardinality(Places(Append(to_client[h], r), q)) =
                Cardinality(Places(to_client[h], q)) + k
        BY <1>5, <1>6, CountAppend
      <3>3. a2 = a - k /\ b2 = b + k
        BY <1>4, <2>4, <3>1, <3>2
      <3>4. k \in Nat
        OBVIOUS
      <3> HIDE DEF a, b, c, d, e, a2, b2, k
      <3>5. (a - k) + (b + k) + c + d + e = a + b + c + d + e
        BY <2>1, <3>4
      <3>6. QED
        BY <2>1, <2>2, <3>3, <3>5
    <2>5. QED
      BY <2>3, <2>4
  <1>9. QED
    BY <1>3, <1>7, <1>8, MoveCounts

\* For any hosts, threads, pages and workload, and whatever requests and replies
\* are lost: on a host whose threads have never called request_page_lock at the
\* same time there are exactly as many messages about a page, those lost
\* included, as threads waiting for one, so no call is answered twice and no
\* answer is left over for a later call.
THEOREM AnswersCounted ==
    ASSUME IsFiniteSet(Threads)
    PROVE  Spec => []OneAnswerPerCall
  <1>1. Init => SentFromHost /\ AllAnswered
    <2> SUFFICES ASSUME Init PROVE SentFromHost /\ AllAnswered
      OBVIOUS
    <2>1. \A h \in Hosts : to_server[h] = <<>> /\ to_client[h] = <<>> /\ unprocessed[h] = <<>>
                         /\ lost_replies[h] = <<>>
      BY DEF Init
    <2>2. SentFromHost
      BY <2>1 DEF SentFromHost, Range
    <2>3. Cardinality({}) = 0
      BY FS_EmptySet
    <2>4. ASSUME NEW h \in Hosts, NEW p \in Pages
          PROVE  MessagesAbout(h, p) = Cardinality(Waiting(h, p))
      <3>1. Places(<<>>, p) = {} /\ StrandedOf(h, p) = {} /\ Waiting(h, p) = {}
        BY DEF Init, Places, StrandedOf, Waiting
      <3>2. MessagesAbout(h, p) = 0 + 0 + 0 + 0 + 0
        BY <2>1, <2>3, <3>1 DEF MessagesAbout, Places, StrandedOf
      <3>3. QED
        BY <2>3, <3>1, <3>2
    <2>5. QED
      BY <2>2, <2>4 DEF AllAnswered
  <1>2. AnswerInv /\ [Next]_vars => AnswerInv'
    <2> SUFFICES ASSUME AnswerInv, [Next]_vars PROVE AnswerInv'
      OBVIOUS
    <2>1. TypeOK'
      BY TypeStep DEF AnswerInv
    <2>2. ASSUME NEW t \in Threads, Ask(t) PROVE AnswerInv'
      BY <2>1, <2>2, AskCounts
    <2>3. ASSUME NEW t \in Threads, wait_for_lock_reply(t) PROVE AnswerInv'
      BY <2>1, <2>3, WaitCounts
    <2>4. ASSUME NEW h \in Hosts, try_run_callback(h) PROVE AnswerInv'
      BY <2>1, <2>4, QueueCounts
    <2>5. ASSUME NEW h \in Hosts, strand(h) PROVE AnswerInv'
      BY <2>1, <2>5, StrandCounts
    <2>6. ASSUME NEW h \in Hosts, lock_request_callback(h) PROVE AnswerInv'
      BY <2>1, <2>6, CallbackCounts
    <2>7. ASSUME UNCHANGED <<net, client>> PROVE AnswerInv'
      <3>1. SentFromHost' /\ call' = call
        BY <2>7 DEF AnswerInv, SentFromHost, net, client
      <3>2. \A g \in Hosts, q \in Pages : MessagesAbout(g, q)' = MessagesAbout(g, q)
        BY <2>7 DEF MessagesAbout, net
      <3>3. QED
        BY <2>1, <3>1, <3>2, MoveCounts
    <2>8. CASE ServerStep
      BY <2>7, <2>8 DEF ServerStep, register_cb_function, register_cb_arg, server_dies, vars
    <2>9. ASSUME NEW h \in Hosts, lose_reply(h) PROVE AnswerInv'
      BY <2>1, <2>9, LoseCounts
    <2>10. QED
      BY <2>2, <2>3, <2>4, <2>5, <2>6, <2>8, <2>9
         DEF Next, strand_request, lose_request, ServerStep
  <1>3. AnswerInv => OneAnswerPerCall
    BY DEF AnswerInv, AllAnswered, OneAnswerPerCall, Waiting
  <1>4. QED
    BY <1>1, <1>2, <1>3, TypeCorrect, PTL DEF Spec, AnswerInv

----------------------------------------------------------------------------
(***************************************************************************)
(* Who holds a page, for callers that heed the replies and of which no two *)
(* on one host ask for the same page: what the lock manager records, when  *)
(* it refuses, and, for callers that only ask for W_LOCK, mutual exclusion *)
(* and the refinement of ExclusiveLock.  lock_reader_writer shows what     *)
(* shared locks do.                                                        *)
(***************************************************************************)

USE PagesAssumption, NullAssumption, ServiceAssumption

\* The callers only lock what they do not hold and only unlock what they do.
DisciplinedUse == Disciplined = TRUE /\ OneAsker

\* Moreover, they never ask for R_LOCK.
ExclusiveUse == DisciplinedUse /\ Modes = {W_LOCK}

\* No two pages share an entry of the hash.
ApartFolds == \A p, q \in Pages : SameEntry(p, q) => p = q

(***************************************************************************)
(* The inductive invariant of a disciplined use, in parts.                 *)
(***************************************************************************)

\* Only the allowed types are asked for, each for a page that the thread has
\* not been told it holds (any more).
CallsOfUse ==
    \A t \in Threads :
        /\ \A p \in Pages : told[t][p] \in Modes \cup {UNLOCK}
        /\ call[t] # NoCall =>
               /\ call[t].lock_type \in Modes \cup {UNLOCK}
               /\ told[t][call[t].page] = UNLOCK

\* A page that is held has an entry, so its UNLOCK finds one.
HeldHasEntry ==
    \A t \in Threads : \A p \in PagesOf[t] :
        Holds(t, p) => page_lock_hash[cal_fold(p)] # NULL

\* An entry is only locked on behalf of a thread that holds one of its pages.
LockedIsHeld ==
    \A f \in Folds :
        page_lock_hash[f] # NULL /\ page_lock_hash[f].lock_type # UNLOCK =>
            \E t \in Threads : \E p \in PagesOf[t] : cal_fold(p) = f /\ Holds(t, p)

HoldInv == MessageInv /\ NoWaiters /\ CallsOfUse /\ HeldHasEntry /\ LockedIsHeld

(***************************************************************************)
(* The two kinds of steps, as far as the table and the holders go.         *)
(***************************************************************************)

\* Nothing happens to the table, and nobody begins or ends to hold a page.
Quiet ==
    /\ page_lock_hash' = page_lock_hash
    /\ \A t \in Threads : \A p \in PagesOf[t] : Holds(t, p)' <=> Holds(t, p)

\* lock_request_callback serves the call of thread t: a grant makes t hold the
\* page, an UNLOCK ends that, and all other holders stay.
Served(t, p, lt, rt) ==
    /\ \A f \in Folds : f # cal_fold(p) => page_lock_hash'[f] = page_lock_hash[f]
    /\ EntryEffect(HostOf[t], lt, rt, page_lock_hash[cal_fold(p)], page_lock_hash'[cal_fold(p)])
    /\ Holds(t, p) <=> lt = UNLOCK
    /\ Holds(t, p)' <=> lt # UNLOCK /\ rt = "LOCK_SUCCESS"
    /\ \A u \in Threads : \A q \in PagesOf[u] :
           u # t \/ q # p => (Holds(u, q)' <=> Holds(u, q))

----------------------------------------------------------------------------
(***************************************************************************)
(* Lemmas.                                                                 *)
(***************************************************************************)

\* Holding, in terms of what the thread was told, its call and its replies.
HoldsByCall ==
    \A t \in Threads : \A p \in PagesOf[t] :
        /\ call[t] = NoCall \/ call[t].page # p =>
               (Holds(t, p) <=> told[t][p] # UNLOCK)
        /\ call[t] # NoCall /\ call[t].page = p /\ told[t][p] = UNLOCK =>
               (Holds(t, p) <=>
                   \/ call[t].lock_type = UNLOCK /\ RepliesFor(t) = {}
                   \/ /\ call[t].lock_type # UNLOCK
                      /\ \E r \in RepliesFor(t) : r.reply_type = "LOCK_SUCCESS")

\* That is what Holds says of a state of the right types.
LEMMA HoldsMeans == TypeOK => HoldsByCall
  <1> SUFFICES ASSUME TypeOK, NEW t \in Threads, NEW p \in PagesOf[t]
               PROVE  /\ call[t] = NoCall \/ call[t].page # p =>
                             (Holds(t, p) <=> told[t][p] # UNLOCK)
                      /\ call[t] # NoCall /\ call[t].page = p /\ told[t][p] = UNLOCK =>
                             (Holds(t, p) <=>
                                 \/ call[t].lock_type = UNLOCK /\ RepliesFor(t) = {}
                                 \/ /\ call[t].lock_type # UNLOCK
                                    /\ \E r \in RepliesFor(t) : r.reply_type = "LOCK_SUCCESS")
    BY DEF HoldsByCall
  <1>0. p \in Pages
    OBVIOUS
  <1>1. call[t] = [page |-> p, lock_type |-> UNLOCK] <=>
            call[t] # NoCall /\ call[t].page = p /\ call[t].lock_type = UNLOCK
    <2>1. [page |-> p, lock_type |-> UNLOCK] \in Calls
      BY <1>0 DEF Calls, PageLockType
    <2>2. call[t] = NoCall => call[t] # [page |-> p, lock_type |-> UNLOCK]
      BY <2>1 DEF Calls
    <2>3. call[t] # NoCall => call[t] \in Calls
      BY DEF TypeOK
    <2>4. QED
      BY <2>2, <2>3 DEF Calls
  <1>2. call[t] \in [page : {p}, lock_type : {R_LOCK, W_LOCK}] <=>
            call[t] # NoCall /\ call[t].page = p /\ call[t].lock_type # UNLOCK
    <2>1. [page : {p}, lock_type : {R_LOCK, W_LOCK}] \subseteq Calls
      BY <1>0 DEF Calls, PageLockType
    <2>2. call[t] = NoCall => call[t] \notin [page : {p}, lock_type : {R_LOCK, W_LOCK}]
      BY <2>1 DEF Calls
    <2>3. call[t] # NoCall => call[t] \in Calls
      BY DEF TypeOK
    <2>4. UNLOCK \notin {R_LOCK, W_LOCK}
      BY DEF UNLOCK, R_LOCK, W_LOCK
    <2>5. QED
      BY <2>2, <2>3, <2>4 DEF Calls, PageLockType
  <1>3. Holds(t, p) <=>
            \/ told[t][p] # UNLOCK
            \/ /\ call[t] # NoCall /\ call[t].page = p /\ call[t].lock_type = UNLOCK
               /\ RepliesFor(t) = {}
            \/ /\ call[t] # NoCall /\ call[t].page = p /\ call[t].lock_type # UNLOCK
               /\ \E r \in RepliesFor(t) : r.reply_type = "LOCK_SUCCESS"
    BY <1>1, <1>2 DEF Holds
  <1>4. QED
    BY <1>3

\* The same in the state after a step.
LEMMA HoldsMeansNext == TypeOK' => HoldsByCall'
  BY HoldsMeans, PTL

\* A step that changes neither what a thread was told, nor its call, nor the
\* replies to it, does not change what it holds.
LEMMA HoldsKept ==
    ASSUME TypeOK, TypeOK', NEW t \in Threads, NEW p \in PagesOf[t],
           told'[t][p] = told[t][p], call'[t] = call[t], RepliesFor(t)' = RepliesFor(t)
    PROVE  Holds(t, p)' <=> Holds(t, p)
  BY DEF Holds

\* request_page_lock: a thread that asks for UNLOCK still holds the page for the
\* server, one that asks for a lock does not hold it yet.
LEMMA AskIsQuiet ==
    ASSUME DisciplinedUse, HoldInv, TypeOK', NEW t \in Threads, Ask(t)
    PROVE  Quiet /\ CallsOfUse'
  <1>1. PICK p \in PagesOf[t], lt \in PageLockType : request_page_lock(t, p, lt)
    BY DEF Ask
  <1>2. TypeOK /\ MessageInv /\ p \in Pages /\ lt \in Modes \cup {UNLOCK}
    BY <1>1 DEF HoldInv, MessageInv, request_page_lock, MayAsk
  <1>3. /\ call[t] = NoCall
        /\ lt = UNLOCK <=> told[t][p] # UNLOCK
    BY <1>1, Zenon DEF request_page_lock, MayAsk, DisciplinedUse
  <1>4. /\ page_lock_hash' = page_lock_hash
        /\ told' = [told EXCEPT ![t][p] = IF lt = UNLOCK THEN UNLOCK ELSE @]
    BY <1>1 DEF request_page_lock
  <1>5. /\ call'[t] = [page |-> p, lock_type |-> lt]
        /\ \A u \in Threads : u # t => call'[u] = call[u]
        /\ RepliesFor(t) = {}
        /\ \A u \in Threads : RepliesFor(u)' = RepliesFor(u)
    BY <1>1, <1>2, MessagesAsk
  <1>6. /\ told'[t][p] = UNLOCK
        /\ \A u \in Threads, q \in Pages : u # t \/ q # p => told'[u][q] = told[u][q]
    BY <1>2, <1>3, <1>4 DEF TypeOK
  <1>7. call'[t] # NoCall /\ call'[t].page = p /\ call'[t].lock_type = lt
    <2>1. call'[t] \in [page : Pages, lock_type : PageLockType]
      BY <1>2, <1>5
    <2>2. QED
      BY <1>5, <2>1
  <1>8. ASSUME NEW u \in Threads, NEW q \in PagesOf[u]
        PROVE  Holds(u, q)' <=> Holds(u, q)
    <2>0. q \in Pages
      OBVIOUS
    <2>1. CASE u # t
      <3>1. told'[u][q] = told[u][q] /\ call'[u] = call[u] /\ RepliesFor(u)' = RepliesFor(u)
        BY <1>5, <1>6, <2>0, <2>1
      <3>2. QED
        BY <1>2, <3>1, HoldsKept
    <2>2. CASE u = t /\ q # p
      <3>1. Holds(u, q) <=> told[u][q] # UNLOCK
        BY <1>2, <1>3, <2>2, HoldsMeans, HoldsMeansNext DEF HoldsByCall
      <3>2. Holds(u, q)' <=> told'[u][q] # UNLOCK
        BY <1>7, <2>2, HoldsMeans, HoldsMeansNext DEF HoldsByCall
      <3>3. QED
        BY <1>6, <2>0, <2>2, <3>1, <3>2
    <2>3. CASE u = t /\ q = p
      <3>1. Holds(t, p) <=> told[t][p] # UNLOCK
        BY <1>2, <1>3, HoldsMeans, HoldsMeansNext DEF HoldsByCall
      <3>2. RepliesFor(t)' = {}
        BY <1>5
      <3>3. Holds(t, p)' <=> lt = UNLOCK
        BY <1>6, <1>7, <3>2, HoldsMeans, HoldsMeansNext DEF HoldsByCall
      <3>4. QED
        BY <1>3, <2>3, <3>1, <3>3
    <2>4. QED
      BY <2>1, <2>2, <2>3
  <1>9. CallsOfUse'
    <2>1. ASSUME NEW u \in Threads, NEW q \in Pages PROVE told'[u][q] \in Modes \cup {UNLOCK}
      BY <1>6 DEF HoldInv, CallsOfUse
    <2>2. ASSUME NEW u \in Threads, call'[u] # NoCall
          PROVE  call'[u].lock_type \in Modes \cup {UNLOCK} /\ told'[u][call'[u].page] = UNLOCK
      <3>1. CASE u = t
        BY <1>2, <1>6, <1>7, <3>1
      <3>2. CASE u # t
        <4>1. call'[u] = call[u]
          BY <1>5, <3>2
        <4>2. call[u].page \in Pages
          BY <1>2, <2>2, <4>1, CallTypes
        <4>3. told'[u][call[u].page] = told[u][call[u].page]
          BY <1>6, <3>2, <4>2
        <4>4. QED
          BY <2>2, <4>1, <4>3 DEF HoldInv, CallsOfUse
      <3>3. QED
        BY <3>1, <3>2
    <2>3. QED
      BY <2>1, <2>2 DEF CallsOfUse
  <1>10. QED
    BY <1>4, <1>8, <1>9 DEF Quiet

\* wait_for_lock_reply: a thread that takes a grant held the page before, as far
\* as the server is concerned, and holds it now because it was told.
LEMMA WaitIsQuiet ==
    ASSUME DisciplinedUse, HoldInv, TypeOK', NEW t \in Threads, wait_for_lock_reply(t)
    PROVE  Quiet /\ CallsOfUse'
  <1> DEFINE p == call[t].page
             lt == call[t].lock_type
  <1>1. TypeOK /\ MessageInv /\ OneAsker
    BY DEF HoldInv, MessageInv, DisciplinedUse
  <1>2. page_lock_hash' = page_lock_hash
    BY DEF wait_for_lock_reply
  <1>3. /\ call[t] # NoCall
        /\ call'[t] = NoCall
        /\ \A u \in Threads : u # t => call'[u] = call[u]
        /\ \A u \in Threads : u # t => RepliesFor(u)' = RepliesFor(u)
    BY <1>1, MessagesWait
  <1>4. PICK r \in Range(unprocessed[HostOf[t]]) :
           /\ RepliesFor(t) = {r}
           /\ told' = [told EXCEPT ![t][p] = Conclusion(lt, r.reply_type, @)]
    BY <1>1, MessagesWait
  <1>5. p \in Pages /\ lt \in PageLockType
    BY <1>1, <1>3, CallTypes
  <1>6. told[t][p] = UNLOCK /\ lt \in Modes \cup {UNLOCK}
    BY <1>3 DEF HoldInv, CallsOfUse
  <1>7. /\ told'[t][p] = IF lt # UNLOCK /\ r.reply_type = "LOCK_SUCCESS" THEN lt ELSE UNLOCK
        /\ \A u \in Threads, q \in Pages : u # t \/ q # p => told'[u][q] = told[u][q]
    BY <1>1, <1>4, <1>5, <1>6 DEF TypeOK, Conclusion
  <1>8. ASSUME NEW u \in Threads, NEW q \in PagesOf[u]
        PROVE  Holds(u, q)' <=> Holds(u, q)
    <2>0. q \in Pages
      OBVIOUS
    <2>1. CASE u # t
      <3>1. told'[u][q] = told[u][q] /\ call'[u] = call[u] /\ RepliesFor(u)' = RepliesFor(u)
        BY <1>3, <1>7, <2>0, <2>1
      <3>2. QED
        BY <1>1, <3>1, HoldsKept
    <2>2. CASE u = t /\ q # p
      <3>1. Holds(u, q) <=> told[u][q] # UNLOCK
        BY <1>1, <1>3, <2>2, HoldsMeans, HoldsMeansNext DEF HoldsByCall
      <3>2. Holds(u, q)' <=> told'[u][q] # UNLOCK
        BY <1>3, <2>2, HoldsMeans, HoldsMeansNext DEF HoldsByCall
      <3>3. QED
        BY <1>7, <2>0, <2>2, <3>1, <3>2
    <2>3. CASE u = t /\ q = p
      <3>1. Holds(u, q) <=> lt # UNLOCK /\ r.reply_type = "LOCK_SUCCESS"
        <4>1. RepliesFor(t) # {}
          BY <1>4
        <4>2. QED
          BY <1>1, <1>3, <1>4, <1>6, <2>3, <4>1, HoldsMeans, HoldsMeansNext DEF HoldsByCall
      <3>2. Holds(u, q)' <=> told'[u][q] # UNLOCK
        BY <1>3, <2>3, HoldsMeans, HoldsMeansNext DEF HoldsByCall
      <3>3. QED
        BY <1>7, <2>3, <3>1, <3>2
    <2>4. QED
      BY <2>1, <2>2, <2>3
  <1>9. CallsOfUse'
    <2>1. ASSUME NEW u \in Threads, NEW q \in Pages PROVE told'[u][q] \in Modes \cup {UNLOCK}
      BY <1>6, <1>7 DEF HoldInv, CallsOfUse
    <2>2. ASSUME NEW u \in Threads, call'[u] # NoCall
          PROVE  call'[u].lock_type \in Modes \cup {UNLOCK} /\ told'[u][call'[u].page] = UNLOCK
      <3>1. u # t /\ call'[u] = call[u]
        BY <1>3, <2>2
      <3>2. call[u].page \in Pages
        BY <1>1, <2>2, <3>1, CallTypes
      <3>3. told'[u][call[u].page] = told[u][call[u].page]
        BY <1>7, <3>1, <3>2
      <3>4. QED
        BY <2>2, <3>1, <3>3 DEF HoldInv, CallsOfUse
    <2>3. QED
      BY <2>1, <2>2 DEF CallsOfUse
  <1>10. QED
    BY <1>2, <1>8, <1>9 DEF Quiet

\* A step that touches no call and leaves every thread its replies is quiet.
LEMMA OthersAreQuiet ==
    ASSUME HoldInv, TypeOK', page_lock_hash' = page_lock_hash, UNCHANGED client,
           \A u \in Threads : RepliesFor(u)' = RepliesFor(u)
    PROVE  Quiet /\ CallsOfUse'
  <1>1. TypeOK /\ call' = call /\ told' = told
    BY DEF HoldInv, MessageInv, client
  <1>2. Quiet
    BY <1>1, HoldsKept DEF Quiet
  <1>3. CallsOfUse'
    BY <1>1 DEF HoldInv, CallsOfUse
  <1>4. QED
    BY <1>2, <1>3

\* lock_request_callback serves one call.
LEMMA CallbackServes ==
    ASSUME HoldInv, TypeOK', NEW h \in Hosts, lock_request_callback(h)
    PROVE  /\ CallsOfUse'
           /\ \E t \in Threads, p \in Pages, lt \in Modes \cup {UNLOCK}, rt \in PageReplyType :
                  /\ HostOf[t] = h
                  /\ p \in PagesOf[t]
                  /\ Served(t, p, lt, rt)
                  /\ to_client' = [to_client EXCEPT ![h] =
                         Append(@, [page |-> p, reply_type |-> rt, caller |-> t])]
  <1>1. TypeOK /\ TableTypeOK /\ MessageInv /\ NoWaiters
    BY DEF HoldInv, MessageInv, TypeOK
  <1>2. PICK t \in Threads, rt \in PageReplyType :
           /\ HostOf[t] = h
           /\ call[t] # NoCall
           /\ check_lock_request(h, call[t].page, call[t].lock_type, rt)
           /\ RepliesFor(t) = {}
           /\ RepliesFor(t)' = {[page |-> call[t].page, reply_type |-> rt, caller |-> t]}
           /\ \A u \in Threads : u # t => RepliesFor(u)' = RepliesFor(u)
           /\ to_client' = [to_client EXCEPT ![h] =
                  Append(@, [page |-> call[t].page, reply_type |-> rt, caller |-> t])]
    BY <1>1, MessagesCallback
  <1>3. call' = call /\ told' = told
    BY <1>1, MessagesCallback
  <1>4. PICK p \in Pages, lt \in PageLockType : p = call[t].page /\ lt = call[t].lock_type
    BY <1>1, <1>2, CallTypes
  <1>5. /\ p \in PagesOf[t]
        /\ lt \in Modes \cup {UNLOCK}
        /\ told[t][p] = UNLOCK
    BY <1>1, <1>2, <1>4 DEF HoldInv, MessageInv, OwnPages, CallsOfUse
  <1>6. /\ \A f \in Folds : f # cal_fold(p) => page_lock_hash'[f] = page_lock_hash[f]
        /\ EntryEffect(h, lt, rt, page_lock_hash[cal_fold(p)], page_lock_hash'[cal_fold(p)])
    BY <1>1, <1>2, <1>4, TableEffect
  <1>7. Holds(t, p) <=> lt = UNLOCK
    BY <1>1, <1>2, <1>4, <1>5, HoldsMeans, HoldsMeansNext DEF HoldsByCall
  <1>8. Holds(t, p)' <=> lt # UNLOCK /\ rt = "LOCK_SUCCESS"
    <2> DEFINE r == [page |-> p, reply_type |-> rt, caller |-> t]
    <2>1. RepliesFor(t)' = {r} /\ r.reply_type = rt
      BY <1>2, <1>4
    <2>2. /\ call'[t] # NoCall /\ call'[t].page = p /\ call'[t].lock_type = lt
          /\ told'[t][p] = UNLOCK
      BY <1>2, <1>3, <1>4, <1>5
    <2> HIDE DEF r
    <2>3. Holds(t, p)' <=>
              \/ lt = UNLOCK /\ RepliesFor(t)' = {}
              \/ lt # UNLOCK /\ \E x \in RepliesFor(t)' : x.reply_type = "LOCK_SUCCESS"
      BY <1>5, <2>2, HoldsMeans, HoldsMeansNext DEF HoldsByCall
    <2>4. QED
      BY <2>1, <2>3
  <1>9. ASSUME NEW u \in Threads, NEW q \in PagesOf[u], u # t \/ q # p
        PROVE  Holds(u, q)' <=> Holds(u, q)
    <2>1. CASE u # t
      BY <1>1, <1>2, <1>3, <2>1, HoldsKept
    <2>2. CASE u = t /\ q # p
      <3>1. Holds(u, q) <=> told[u][q] # UNLOCK
        BY <1>1, <1>4, <2>2, HoldsMeans, HoldsMeansNext DEF HoldsByCall
      <3>2. call'[u].page # q
        BY <1>3, <1>4, <2>2
      <3>3. Holds(u, q)' <=> told'[u][q] # UNLOCK
        BY <3>2, HoldsMeans, HoldsMeansNext DEF HoldsByCall
      <3>4. QED
        BY <1>3, <3>1, <3>3
    <2>3. QED
      BY <1>9, <2>1, <2>2
  <1>10. Served(t, p, lt, rt)
    BY <1>2, <1>6, <1>7, <1>8, <1>9 DEF Served
  <1>11. CallsOfUse'
    BY <1>3 DEF HoldInv, CallsOfUse
  <1>12. QED
    BY <1>2, <1>4, <1>5, <1>10, <1>11

\* Every step is quiet or serves one call.
LEMMA StepEffect ==
    ASSUME DisciplinedUse, HoldInv, [Next]_vars
    PROVE  /\ CallsOfUse'
           /\ \/ Quiet
              \/ \E t \in Threads, p \in Pages, lt \in Modes \cup {UNLOCK}, rt \in PageReplyType :
                     p \in PagesOf[t] /\ Served(t, p, lt, rt)
  <1>1. TypeOK' /\ MessageInv
    BY TypeStep DEF HoldInv, MessageInv
  <1>2. ASSUME NEW t \in Threads, Ask(t) PROVE Quiet /\ CallsOfUse'
    BY <1>1, <1>2, AskIsQuiet
  <1>3. ASSUME NEW t \in Threads, wait_for_lock_reply(t) PROVE Quiet /\ CallsOfUse'
    BY <1>1, <1>3, WaitIsQuiet
  <1>4. ASSUME NEW h \in Hosts, try_run_callback(h) PROVE Quiet /\ CallsOfUse'
    BY <1>1, <1>4, MessagesQueue, OthersAreQuiet DEF try_run_callback
  <1>5. ASSUME NEW h \in Hosts, strand(h) PROVE Quiet /\ CallsOfUse'
    BY <1>1, <1>5, MessagesStrand, OthersAreQuiet DEF strand
  <1>6. ASSUME NEW h \in Hosts, lock_request_callback(h)
        PROVE  /\ CallsOfUse'
               /\ \E t \in Threads, p \in Pages, lt \in Modes \cup {UNLOCK}, rt \in PageReplyType :
                      p \in PagesOf[t] /\ Served(t, p, lt, rt)
    BY <1>1, <1>6, CallbackServes
  <1>7. ASSUME NEW h \in Hosts, lose_reply(h) PROVE Quiet /\ CallsOfUse'
    BY <1>1, <1>7, MessagesLose, OthersAreQuiet DEF lose_reply
  <1>8. ASSUME ServerStep PROVE Quiet /\ CallsOfUse'
    BY <1>1, <1>8, MessagesIdle, OthersAreQuiet
       DEF ServerStep, register_cb_function, register_cb_arg, server_dies, vars
  <1>9. QED
    BY <1>2, <1>3, <1>4, <1>5, <1>6, <1>7, <1>8
       DEF Next, strand_request, lose_request, ServerStep

\* Every step of a disciplined use keeps the invariant.
LEMMA HoldStep ==
    ASSUME DisciplinedUse, HoldInv, [Next]_vars
    PROVE  HoldInv'
  <1>1. MessageInv' /\ NoWaiters' /\ CallsOfUse'
    BY MessageStep, NoWaitersStep, StepEffect DEF HoldInv, MessageInv, DisciplinedUse
  <1>2. ASSUME Quiet PROVE HeldHasEntry' /\ LockedIsHeld'
    <2>1. HeldHasEntry'
      BY <1>2 DEF HoldInv, HeldHasEntry, Quiet
    <2>2. LockedIsHeld'
      BY <1>2 DEF HoldInv, LockedIsHeld, Quiet
    <2>3. QED
      BY <2>1, <2>2
  <1>3. ASSUME NEW t \in Threads, NEW p \in Pages, NEW lt \in Modes \cup {UNLOCK},
               NEW rt \in PageReplyType, p \in PagesOf[t], Served(t, p, lt, rt)
        PROVE  HeldHasEntry' /\ LockedIsHeld'
    <2> DEFINE F == cal_fold(p)
    <2>1. page_lock_hash'[F] # NULL
      BY <1>3 DEF Served, EntryEffect
    <2>2. HeldHasEntry'
      <3>1. ASSUME NEW u \in Threads, NEW q \in PagesOf[u], Holds(u, q)', cal_fold(q) # F
            PROVE  page_lock_hash'[cal_fold(q)] # NULL
        <4>1. Holds(u, q) /\ cal_fold(q) \in Folds
          BY <1>3, <3>1, FoldType DEF Served
        <4>2. page_lock_hash'[cal_fold(q)] = page_lock_hash[cal_fold(q)]
          BY <1>3, <3>1, <4>1 DEF Served
        <4>3. QED
          BY <4>1, <4>2 DEF HoldInv, HeldHasEntry
      <3>2. QED
        BY <2>1, <3>1 DEF HeldHasEntry
    <2>3. LockedIsHeld'
      <3> SUFFICES ASSUME NEW f \in Folds, page_lock_hash'[f] # NULL,
                          page_lock_hash'[f].lock_type # UNLOCK
                   PROVE  \E u \in Threads : \E q \in PagesOf[u] : cal_fold(q) = f /\ Holds(u, q)'
        BY DEF LockedIsHeld
      <3>1. CASE f # F
        <4>1. page_lock_hash'[f] = page_lock_hash[f]
          BY <1>3, <3>1 DEF Served
        <4>0. PICK u \in Threads : \E q \in PagesOf[u] : cal_fold(q) = f /\ Holds(u, q)
          BY <4>1 DEF HoldInv, LockedIsHeld
        <4>2. PICK q \in PagesOf[u] : cal_fold(q) = f /\ Holds(u, q)
          BY <4>0
        <4>3. q # p
          BY <3>1, <4>2
        <4>4. Holds(u, q)'
          BY <1>3, <4>2, <4>3 DEF Served
        <4>5. QED
          BY <4>2, <4>4
      <3>2. CASE f = F /\ rt = "LOCK_SUCCESS"
        <4>1. lt # UNLOCK
          BY <1>3, <3>2 DEF Served, EntryEffect
        <4>2. QED
          BY <1>3, <3>2, <4>1 DEF Served
      <3>3. CASE f = F /\ rt # "LOCK_SUCCESS"
        <4>1. /\ page_lock_hash[F] # NULL
              /\ lt # UNLOCK
              /\ page_lock_hash'[F].lock_type = page_lock_hash[F].lock_type
          BY <1>3, <3>3 DEF Served, EntryEffect
        <4>0. PICK u \in Threads : \E q \in PagesOf[u] : cal_fold(q) = f /\ Holds(u, q)
          BY <3>3, <4>1 DEF HoldInv, LockedIsHeld
        <4>2. PICK q \in PagesOf[u] : cal_fold(q) = f /\ Holds(u, q)
          BY <4>0
        <4>3. u # t \/ q # p
          BY <1>3, <4>1, <4>2 DEF Served
        <4>4. Holds(u, q)'
          BY <1>3, <4>2, <4>3 DEF Served
        <4>5. QED
          BY <4>2, <4>4
      <3>4. QED
        BY <3>1, <3>2, <3>3
    <2>4. QED
      BY <2>2, <2>3
  <1>4. QED
    BY <1>1, <1>2, <1>3, StepEffect DEF HoldInv

\* Nobody holds anything at the beginning.
LEMMA NobodyHolds ==
    ASSUME Init, TypeOK, NEW t \in Threads, NEW p \in PagesOf[t]
    PROVE  ~Holds(t, p)
  <1>1. p \in Pages /\ call[t] = NoCall /\ told[t][p] = UNLOCK
    BY DEF Init
  <1>2. QED
    BY <1>1, HoldsMeans, HoldsMeansNext DEF HoldsByCall

LEMMA HoldInit == Init /\ TypeOK => HoldInv
  <1> SUFFICES ASSUME Init, TypeOK PROVE HoldInv
    OBVIOUS
  <1>1. MessageInv /\ NoWaiters
    BY MessageInit, NoWaitersInit DEF MessageInv
  <1>2. CallsOfUse
    BY DEF Init, CallsOfUse
  <1>3. HeldHasEntry
    BY NobodyHolds DEF HeldHasEntry
  <1>4. LockedIsHeld
    BY DEF Init, TableInit, LockedIsHeld
  <1>5. QED
    BY <1>1, <1>2, <1>3, <1>4 DEF HoldInv

----------------------------------------------------------------------------
(***************************************************************************)
(* Disciplined use: refusals and the list of holders.                      *)
(***************************************************************************)

\* The lock manager refuses a request only while some thread holds the page, or
\* one with the same fold: for any number of threads, with shared locks too,
\* and whatever requests and replies were lost.
THEOREM RefusalsJustified ==
    ASSUME DisciplinedUse
    PROVE  Spec => RefusalJustified
  <1> DEFINE Justified(h) == \E t \in Threads : \E p \in PagesOf[t] :
                                 SameEntry(p, Last(to_client'[h]).page) /\ Holds(t, p)
             Just == \A h \in Hosts : Refuses(h) => Justified(h)
  <1>1. ASSUME HoldInv, [Next]_vars PROVE Just
    <2> SUFFICES ASSUME NEW h \in Hosts, Refuses(h) PROVE Justified(h)
      OBVIOUS
    <2>0. TypeOK /\ TypeOK' /\ MessageInv
      BY <1>1, TypeStep DEF HoldInv, MessageInv
    <2>1. ASSUME Len(to_client'[h]) <= Len(to_client[h]) PROVE FALSE
      <3>1. Len(to_client'[h]) \in Nat /\ Len(to_client[h]) \in Nat
        BY <2>0 DEF TypeOK
      <3>2. QED
        BY <2>1, <3>1 DEF Refuses
    <2>2. ASSUME to_client' = to_client PROVE FALSE
      <3>1. Len(to_client[h]) \in Nat
        BY <2>0 DEF TypeOK
      <3>2. QED
        BY <2>1, <2>2, <3>1
    <2>3. ASSUME NEW g \in Hosts, try_run_callback(g) \/ lose_reply(g) PROVE FALSE
      <3>1. to_client' = [to_client EXCEPT ![g] = Tail(@)] /\ to_client[g] # <<>>
        BY <2>3 DEF try_run_callback, lose_reply
      <3>2. Len(to_client[h]) \in Nat /\ (g = h => Len(Tail(to_client[h])) <= Len(to_client[h]))
        BY <2>0, <3>1 DEF TypeOK
      <3>3. to_client'[h] = IF g = h THEN Tail(to_client[h]) ELSE to_client[h]
        BY <2>0, <3>1 DEF TypeOK
      <3>4. QED
        BY <2>1, <3>2, <3>3
    <2>4. ASSUME NEW g \in Hosts, lock_request_callback(g) PROVE Justified(h)
      <3>1. PICK t \in Threads, p \in Pages, lt \in Modes \cup {UNLOCK}, rt \in PageReplyType :
               /\ HostOf[t] = g
               /\ p \in PagesOf[t]
               /\ Served(t, p, lt, rt)
               /\ to_client' = [to_client EXCEPT ![g] =
                      Append(@, [page |-> p, reply_type |-> rt, caller |-> t])]
        BY <1>1, <2>0, <2>4, CallbackServes
      <3> DEFINE r == [page |-> p, reply_type |-> rt, caller |-> t]
      <3>2. g = h
        <4> SUFFICES ASSUME g # h PROVE FALSE
          OBVIOUS
        <4>1. to_client'[h] = to_client[h] /\ Len(to_client[h]) \in Nat
          BY <2>0, <3>1 DEF TypeOK
        <4>2. QED
          BY <2>1, <4>1
      <3>3. r \in PageLockReply
        BY <3>1 DEF PageLockReply
      <3>4. Last(to_client'[h]) = r
        <4>1. to_client[h] \in Seq(PageLockReply) /\ to_client'[h] = Append(to_client[h], r)
          BY <2>0, <3>1, <3>2 DEF TypeOK
        <4>2. Len(Append(to_client[h], r)) = Len(to_client[h]) + 1
              /\ Append(to_client[h], r)[Len(to_client[h]) + 1] = r
          BY <3>3, <4>1
        <4> HIDE DEF r
        <4>3. QED
          BY <4>1, <4>2 DEF Last
      <3>5. rt = "LOCK_FAIL" /\ Last(to_client'[h]).page = p
        BY <3>4 DEF Refuses
      <3>6. page_lock_hash[cal_fold(p)] # NULL /\ page_lock_hash[cal_fold(p)].lock_type # UNLOCK
        BY <3>1, <3>5 DEF Served, EntryEffect
      <3>7. cal_fold(p) \in Folds
        BY FoldType
      <3>8. \E u \in Threads : \E q \in PagesOf[u] : cal_fold(q) = cal_fold(p) /\ Holds(u, q)
        BY <1>1, <3>6, <3>7 DEF HoldInv, LockedIsHeld
      <3>9. QED
        BY <3>5, <3>8 DEF SameEntry
    <2>5. ASSUME NEW t \in Threads, Ask(t) PROVE to_client' = to_client
      BY <2>5 DEF Ask, request_page_lock
    <2>6. ASSUME NEW t \in Threads, wait_for_lock_reply(t) PROVE to_client' = to_client
      BY <2>6 DEF wait_for_lock_reply
    <2>7. ASSUME NEW g \in Hosts, strand(g) PROVE to_client' = to_client
      BY <2>7 DEF strand
    <2>8. ASSUME ServerStep PROVE to_client' = to_client
      BY <2>8 DEF ServerStep, register_cb_function, register_cb_arg, server_dies, vars, net
    <2>9. QED
      BY <1>1, <2>2, <2>3, <2>4, <2>5, <2>6, <2>7, <2>8
         DEF Next, strand_request, lose_request, ServerStep
  <1>2. HoldInv /\ [Next]_vars => HoldInv'
    BY HoldStep
  <1>3. HoldInv /\ [Next]_vars => [Just]_vars
    BY <1>1
  <1>4. QED
    BY <1>2, <1>3, HoldInit, TypeCorrect, PTL DEF Spec, RefusalJustified

\* As long as no two pages have the same fold, lock_holder names exactly the
\* hosts whose grant has not been unlocked: for any number of threads, with
\* shared locks too, while requests and replies are on their way or lost.
THEOREM HoldersListed ==
    ASSUME DisciplinedUse, ApartFolds
    PROVE  Spec => []HolderListAgrees
  <1> DEFINE holders(p) == {HostOf[t] : t \in {u \in Threads : Holds(u, p)}}
             Listed(p) == IF page_lock_hash[cal_fold(p)] = NULL THEN holders(p) = {}
                          ELSE page_lock_hash[cal_fold(p)].lock_holder = holders(p)
  <1>0. \A t \in Threads : \A p : Holds(t, p) => p \in PagesOf[t]
    BY DEF Holds
  <1>1. ASSUME HoldInv, HolderListAgrees, [Next]_vars PROVE HolderListAgrees'
    <2>0. TypeOK /\ TypeOK'
      BY <1>1, TypeStep DEF HoldInv, MessageInv
    <2>9. \A t \in Threads : \A p : Holds(t, p)' => p \in PagesOf[t]
      BY DEF Holds
    <2>1. CASE Quiet
      <3>1. \A p \in Pages : holders(p)' = holders(p)
        BY <1>0, <2>9, <2>1 DEF Quiet
      <3>2. QED
        BY <1>1, <2>1, <3>1 DEF HolderListAgrees, Quiet
    <2>2. ASSUME NEW t \in Threads, NEW p \in Pages, NEW lt \in Modes \cup {UNLOCK},
                 NEW rt \in PageReplyType, p \in PagesOf[t], Served(t, p, lt, rt)
          PROVE  HolderListAgrees'
      <3> SUFFICES ASSUME NEW q \in Pages PROVE Listed(q)'
        BY DEF HolderListAgrees
      <3>0. Listed(q)
        BY <1>1 DEF HolderListAgrees
      <3>1. CASE q # p
        <4>1. cal_fold(q) # cal_fold(p) /\ cal_fold(q) \in Folds
          BY <3>1, FoldType DEF ApartFolds, SameEntry
        <4>2. page_lock_hash'[cal_fold(q)] = page_lock_hash[cal_fold(q)]
          BY <2>2, <4>1 DEF Served
        <4>3. holders(q)' = holders(q)
          BY <1>0, <2>9, <2>2, <3>1 DEF Served
        <4>4. QED
          BY <3>0, <4>2, <4>3
      <3>2. CASE q = p
        <4> DEFINE h == HostOf[t]
        <4>1. \A u \in Threads : u # t => (Holds(u, p)' <=> Holds(u, p))
          BY <1>0, <2>9, <2>2 DEF Served
        <4>2. \A u \in Threads : Holds(u, p) /\ HostOf[u] = h => u = t
          BY <1>0, <2>2 DEF DisciplinedUse, OneAsker
        <4>3. page_lock_hash'[cal_fold(p)] # NULL
          BY <2>2 DEF Served, EntryEffect
        <4>4. lt = UNLOCK => page_lock_hash[cal_fold(p)] # NULL
          BY <1>1, <2>2 DEF Served, HoldInv, HeldHasEntry
        <4>5. CASE lt = UNLOCK
          <5>1. page_lock_hash'[cal_fold(p)].lock_holder = page_lock_hash[cal_fold(p)].lock_holder \ {h}
            BY <2>2, <4>4, <4>5 DEF Served, EntryEffect
          <5>2. ~Holds(t, p)'
            BY <2>2, <4>5 DEF Served
          <5>3. holders(p)' = holders(p) \ {h}
            BY <4>1, <4>2, <5>2
          <5>4. QED
            BY <3>0, <3>2, <4>3, <4>4, <4>5, <5>1, <5>3
        <4>6. CASE lt # UNLOCK /\ rt = "LOCK_SUCCESS"
          <5>1. Holds(t, p)'
            BY <2>2, <4>6 DEF Served
          <5>2. holders(p)' = holders(p) \cup {h}
            <6>1. ~Holds(t, p)
              BY <2>2, <4>6 DEF Served
            <6>2. QED
              BY <4>1, <5>1, <6>1
          <5>3. page_lock_hash'[cal_fold(p)].lock_holder =
                    IF page_lock_hash[cal_fold(p)] = NULL THEN {h}
                    ELSE page_lock_hash[cal_fold(p)].lock_holder \cup {h}
            BY <2>2, <4>6 DEF Served, EntryEffect
          <5>4. page_lock_hash'[cal_fold(p)].lock_holder = holders(p) \cup {h}
            BY <3>0, <3>2, <5>3
          <5>5. page_lock_hash'[cal_fold(p)].lock_holder = holders(p)'
            BY <5>2, <5>4
          <5>6. QED
            BY <3>2, <4>3, <5>5
        <4>7. CASE lt # UNLOCK /\ rt # "LOCK_SUCCESS"
          <5>1. /\ page_lock_hash[cal_fold(p)] # NULL
                /\ page_lock_hash'[cal_fold(p)].lock_holder = page_lock_hash[cal_fold(p)].lock_holder
            BY <2>2, <4>7 DEF Served, EntryEffect
          <5>2. Holds(t, p)' <=> Holds(t, p)
            BY <2>2, <4>7 DEF Served
          <5>3. holders(p)' = holders(p)
            BY <4>1, <5>2
          <5>4. QED
            BY <3>0, <3>2, <4>3, <5>1, <5>3
        <4>8. QED
          BY <4>5, <4>6, <4>7
      <3>3. QED
        BY <3>1, <3>2
    <2>3. QED
      BY <1>1, <2>1, <2>2, StepEffect
  <1>2. ASSUME Init, TypeOK PROVE HolderListAgrees
    <2>1. \A p \in Pages : page_lock_hash[cal_fold(p)] = NULL
      BY <1>2, FoldType DEF Init, TableInit
    <2>2. \A p \in Pages : holders(p) = {}
      BY <1>0, <1>2, NobodyHolds
    <2>3. QED
      BY <2>1, <2>2 DEF HolderListAgrees
  <1>3. HoldInv /\ [Next]_vars => HoldInv'
    BY HoldStep
  <1>4. HoldInv /\ HolderListAgrees /\ [Next]_vars => HolderListAgrees'
    BY <1>1
  <1>5. Init /\ TypeOK => HolderListAgrees
    BY <1>2
  <1>6. QED
    BY <1>3, <1>4, <1>5, HoldInit, TypeCorrect, PTL DEF Spec

----------------------------------------------------------------------------
(***************************************************************************)
(* Exclusive use: mutual exclusion and the refinement of ExclusiveLock.    *)
(***************************************************************************)

\* The entry of a page that is held is write-locked.
HeldRecorded ==
    \A t \in Threads : \A p \in PagesOf[t] :
        Holds(t, p) => page_lock_hash[cal_fold(p)].lock_type = W_LOCK

\* An entry has at most one holder.
HeldUnique ==
    \A t, u \in Threads : \A p \in PagesOf[t], q \in PagesOf[u] :
        Holds(t, p) /\ Holds(u, q) /\ SameEntry(p, q) => t = u /\ p = q

ExclusionInv == HoldInv /\ HeldRecorded /\ HeldUnique

\* What serving a call means for an exclusive use: an UNLOCK ends the only hold
\* on the entry, a grant begins the first one, a refusal changes nothing.
LEMMA ServedExclusive ==
    ASSUME ExclusiveUse, ExclusionInv, NEW t \in Threads, NEW p \in PagesOf[t],
           NEW lt \in Modes \cup {UNLOCK}, NEW rt \in PageReplyType, Served(t, p, lt, rt)
    PROVE  LET entry == page_lock_hash'[cal_fold(p)]
           IN  \/ /\ Holds(t, p) /\ ~Holds(t, p)'
                  /\ \A u \in Threads : \A q \in PagesOf[u] :
                         Holds(u, q)' => cal_fold(q) # cal_fold(p)
               \/ /\ ~Holds(t, p) /\ Holds(t, p)'
                  /\ entry.lock_type = W_LOCK
                  /\ \A u \in Threads : \A q \in PagesOf[u] :
                         Holds(u, q) => cal_fold(q) # cal_fold(p)
               \/ /\ ~Holds(t, p) /\ ~Holds(t, p)'
                  /\ page_lock_hash[cal_fold(p)] # NULL
                  /\ entry.lock_type = page_lock_hash[cal_fold(p)].lock_type
  <1>1. lt = UNLOCK \/ lt = W_LOCK
    BY DEF ExclusiveUse
  <1>2. W_LOCK # UNLOCK /\ W_LOCK # R_LOCK
    BY DEF W_LOCK, UNLOCK, R_LOCK
  <1>3. CASE lt = UNLOCK
    <2>1. Holds(t, p) /\ ~Holds(t, p)'
      BY <1>3 DEF Served
    <2>2. ASSUME NEW u \in Threads, NEW q \in PagesOf[u], Holds(u, q)'
          PROVE  cal_fold(q) # cal_fold(p)
      <3>1. u # t \/ q # p
        BY <2>1, <2>2
      <3>2. Holds(u, q)
        BY <2>2, <3>1 DEF Served
      <3>3. QED
        BY <2>1, <3>1, <3>2 DEF ExclusionInv, HeldUnique, SameEntry
    <2>3. QED
      BY <2>1, <2>2
  <1>4. CASE lt = W_LOCK /\ rt = "LOCK_SUCCESS"
    <2>1. ~Holds(t, p) /\ Holds(t, p)'
      BY <1>2, <1>4 DEF Served
    <2>2. /\ page_lock_hash'[cal_fold(p)].lock_type = W_LOCK
          /\ page_lock_hash[cal_fold(p)] = NULL \/ page_lock_hash[cal_fold(p)].lock_type = UNLOCK
      BY <1>2, <1>4 DEF Served, EntryEffect
    <2>3. ASSUME NEW u \in Threads, NEW q \in PagesOf[u], Holds(u, q)
          PROVE  cal_fold(q) # cal_fold(p)
      BY <1>2, <2>2, <2>3 DEF ExclusionInv, HoldInv, HeldHasEntry, HeldRecorded
    <2>4. QED
      BY <2>1, <2>2, <2>3
  <1>5. CASE lt = W_LOCK /\ rt # "LOCK_SUCCESS"
    <2>1. ~Holds(t, p) /\ ~Holds(t, p)'
      BY <1>2, <1>5 DEF Served
    <2>2. /\ page_lock_hash[cal_fold(p)] # NULL
          /\ page_lock_hash'[cal_fold(p)].lock_type = page_lock_hash[cal_fold(p)].lock_type
      BY <1>2, <1>5 DEF Served, EntryEffect
    <2>3. QED
      BY <2>1, <2>2
  <1>6. QED
    BY <1>1, <1>3, <1>4, <1>5

\* Every step of an exclusive use keeps the invariant.
LEMMA ExclusionStep ==
    ASSUME ExclusiveUse, ExclusionInv, [Next]_vars
    PROVE  ExclusionInv'
  <1>1. HoldInv' /\ DisciplinedUse /\ HoldInv /\ HeldRecorded /\ HeldUnique
    BY HoldStep DEF ExclusiveUse, ExclusionInv
  <1>2. ASSUME Quiet PROVE HeldRecorded' /\ HeldUnique'
    <2>1. HeldRecorded'
      BY <1>1, <1>2 DEF HeldRecorded, Quiet
    <2>2. HeldUnique'
      BY <1>1, <1>2 DEF HeldUnique, Quiet, SameEntry
    <2>3. QED
      BY <2>1, <2>2
  <1>3. ASSUME NEW t \in Threads, NEW p \in Pages, NEW lt \in Modes \cup {UNLOCK},
               NEW rt \in PageReplyType, p \in PagesOf[t], Served(t, p, lt, rt)
        PROVE  HeldRecorded' /\ HeldUnique'
    <2> DEFINE F == cal_fold(p)
    <2>1. \A u \in Threads : \A q \in PagesOf[u] :
             (u # t \/ q # p) => (Holds(u, q)' <=> Holds(u, q))
      BY <1>3 DEF Served
    <2>2. \A u \in Threads : \A q \in PagesOf[u] :
             cal_fold(q) # F => page_lock_hash'[cal_fold(q)] = page_lock_hash[cal_fold(q)]
      BY <1>3, FoldType DEF Served
    <2>3. CASE /\ Holds(t, p) /\ ~Holds(t, p)'
               /\ \A u \in Threads : \A q \in PagesOf[u] : Holds(u, q)' => cal_fold(q) # F
      <3>1. \A u \in Threads : \A q \in PagesOf[u] : Holds(u, q)' => Holds(u, q) /\ cal_fold(q) # F
        BY <2>1, <2>3
      <3>2. HeldRecorded'
        BY <1>1, <2>2, <3>1 DEF HeldRecorded
      <3>3. HeldUnique'
        BY <1>1, <3>1 DEF HeldUnique, SameEntry
      <3>4. QED
        BY <3>2, <3>3
    <2>4. CASE /\ ~Holds(t, p) /\ Holds(t, p)'
               /\ page_lock_hash'[F].lock_type = W_LOCK
               /\ \A u \in Threads : \A q \in PagesOf[u] : Holds(u, q) => cal_fold(q) # F
      <3>1. \A u \in Threads : \A q \in PagesOf[u] :
               Holds(u, q)' => (Holds(u, q) /\ cal_fold(q) # F) \/ (u = t /\ q = p)
        BY <2>1, <2>4
      <3>2. HeldRecorded'
        BY <1>1, <2>2, <2>4, <3>1 DEF HeldRecorded
      <3>3. HeldUnique'
        <4> SUFFICES ASSUME NEW u \in Threads, NEW v \in Threads,
                            NEW q \in PagesOf[u], NEW s \in PagesOf[v],
                            Holds(u, q)', Holds(v, s)', cal_fold(q) = cal_fold(s)
                     PROVE  u = v /\ q = s
          BY DEF HeldUnique, SameEntry
        <4>1. (Holds(u, q) /\ cal_fold(q) # F) \/ (u = t /\ q = p)
          BY <3>1
        <4>2. (Holds(v, s) /\ cal_fold(s) # F) \/ (v = t /\ s = p)
          BY <3>1
        <4>3. QED
          BY <1>1, <4>1, <4>2 DEF HeldUnique, SameEntry
      <3>4. QED
        BY <3>2, <3>3
    <2>5. CASE /\ ~Holds(t, p) /\ ~Holds(t, p)'
               /\ page_lock_hash[F] # NULL
               /\ page_lock_hash'[F].lock_type = page_lock_hash[F].lock_type
      <3>1. \A u \in Threads : \A q \in PagesOf[u] : Holds(u, q)' => Holds(u, q)
        BY <2>1, <2>5
      <3>2. HeldRecorded'
        BY <1>1, <2>2, <2>5, <3>1 DEF HeldRecorded
      <3>3. HeldUnique'
        BY <1>1, <3>1 DEF HeldUnique, SameEntry
      <3>4. QED
        BY <3>2, <3>3
    <2>6. QED
      BY <1>3, <2>3, <2>4, <2>5, ServedExclusive
  <1>4. QED
    BY <1>1, <1>2, <1>3, StepEffect DEF ExclusionInv

\* Nobody holds anything at the beginning.
LEMMA ExclusionInit == Init /\ TypeOK => ExclusionInv
  BY HoldInit, NobodyHolds DEF ExclusionInv, HeldRecorded, HeldUnique

\* For any number of hosts, threads and pages, and any collision of folds: a
\* page that a thread has been told it may write, or one with the same fold, is
\* held by nobody else, whatever messages are on their way.
THEOREM Exclusion ==
    ASSUME ExclusiveUse
    PROVE  Spec => []MutualExclusion
  <1>1. ExclusionInv /\ [Next]_vars => ExclusionInv'
    BY ExclusionStep
  <1>2. ExclusionInv => MutualExclusion
    <2> SUFFICES ASSUME ExclusionInv, NEW t \in Threads, NEW u \in Threads,
                        NEW p \in PagesOf[t], NEW q \in PagesOf[u],
                        SameEntry(p, q), <<t, p>> # <<u, q>>, told[t][p] = W_LOCK,
                        told[u][q] # UNLOCK
                 PROVE  FALSE
      BY DEF MutualExclusion
    <2>1. Holds(t, p) /\ Holds(u, q)
      BY DEF Holds, W_LOCK, UNLOCK
    <2>2. QED
      BY <2>1 DEF ExclusionInv, HeldUnique
  <1>3. QED
    BY <1>1, <1>2, ExclusionInit, TypeCorrect, PTL DEF Spec

\* The owner of a page is the thread that holds it.
OwnerIsHolder ==
    \A p \in Pages :
        /\ \A t \in Threads : Holds(t, p) => owner[p] = t
        /\ (\A t \in Threads : ~Holds(t, p)) => owner[p] = NULL

\* The CHOOSE of the refinement mapping has one candidate.
LEMMA OwnerMeans == HeldUnique => OwnerIsHolder
  <1> SUFFICES ASSUME HeldUnique, NEW p \in Pages
               PROVE  /\ \A t \in Threads : Holds(t, p) => owner[p] = t
                      /\ (\A t \in Threads : ~Holds(t, p)) => owner[p] = NULL
    BY DEF OwnerIsHolder
  <1>1. owner[p] = IF \E t \in Threads : Holds(t, p)
                   THEN CHOOSE t \in Threads : Holds(t, p) ELSE NULL
    BY DEF owner
  <1>2. ASSUME NEW t \in Threads, Holds(t, p) PROVE owner[p] = t
    <2>1. owner[p] \in Threads /\ Holds(owner[p], p)
      BY <1>1, <1>2, Zenon
    <2>2. \A u \in Threads : Holds(u, p) => p \in PagesOf[u]
      BY DEF Holds
    <2>3. QED
      BY <1>2, <2>1, <2>2 DEF HeldUnique, SameEntry
  <1>3. QED
    BY <1>1, <1>2

\* The same in the state after a step.
LEMMA OwnerMeansNext == HeldUnique' => OwnerIsHolder'
  BY OwnerMeans, PTL

\* A step of the service is a step or a stutter of the exclusive locks.
LEMMA RefinementStep ==
    ASSUME ExclusiveUse, ExclusionInv, [Next]_vars
    PROVE  [Abstract!Next]_owner
  <1>1. ExclusionInv' /\ HoldInv /\ DisciplinedUse
    BY ExclusionStep DEF ExclusionInv, ExclusiveUse
  <1>2. OwnerIsHolder /\ OwnerIsHolder'
    BY <1>1, OwnerMeans, OwnerMeansNext DEF ExclusionInv
  <1>3. \A p \in Pages : \A t \in Threads :
           (Holds(t, p) => p \in PagesOf[t]) /\ (Holds(t, p)' => p \in PagesOf[t])
    BY DEF Holds
  <1>4. DOMAIN owner = Pages /\ DOMAIN owner' = Pages
    BY DEF owner
  <1>5. owner = [q \in Pages |-> owner[q]] /\ owner' = [q \in Pages |-> owner'[q]]
    BY DEF owner
  <1>6. ASSUME NEW p \in Pages, \A t \in Threads : Holds(t, p)' <=> Holds(t, p)
        PROVE  owner'[p] = owner[p]
    <2>1. CASE \E t \in Threads : Holds(t, p)
      BY <1>2, <1>6, <2>1 DEF OwnerIsHolder
    <2>2. CASE ~\E t \in Threads : Holds(t, p)
      BY <1>2, <1>6, <2>2 DEF OwnerIsHolder
    <2>3. QED
      BY <2>1, <2>2
  <1>7. CASE Quiet
    <2>1. \A p \in Pages : owner'[p] = owner[p]
      BY <1>3, <1>6, <1>7 DEF Quiet
    <2>2. owner' = owner
      BY <1>5, <2>1
    <2>3. QED
      BY <2>2
  <1>8. ASSUME NEW t \in Threads, NEW p \in Pages, NEW lt \in Modes \cup {UNLOCK},
               NEW rt \in PageReplyType, p \in PagesOf[t], Served(t, p, lt, rt)
        PROVE  [Abstract!Next]_owner
    <2> DEFINE F == cal_fold(p)
    <2>1. \A u \in Threads : u # t => (Holds(u, p)' <=> Holds(u, p))
      BY <1>3, <1>8 DEF Served
    <2>2. \A q \in Pages : q # p => owner'[q] = owner[q]
      BY <1>3, <1>6, <1>8 DEF Served
    <2>3. CASE /\ Holds(t, p) /\ ~Holds(t, p)'
               /\ \A u \in Threads : \A q \in PagesOf[u] : Holds(u, q)' => cal_fold(q) # F
      <3>1. owner[p] = t
        BY <1>2, <2>3 DEF OwnerIsHolder
      <3>2. owner'[p] = NULL
        <4>1. \A u \in Threads : ~Holds(u, p)'
          BY <1>3, <2>3
        <4>2. QED
          BY <1>2, <4>1 DEF OwnerIsHolder
      <3>3. owner' = [owner EXCEPT ![p] = NULL]
        BY <1>4, <1>5, <2>2, <3>2
      <3>4. Abstract!Release(t, p)
        BY <3>1, <3>3 DEF Abstract!Release
      <3>5. QED
        BY <3>4 DEF Abstract!Next
    <2>4. CASE /\ ~Holds(t, p) /\ Holds(t, p)'
               /\ \A u \in Threads : \A q \in PagesOf[u] : Holds(u, q) => cal_fold(q) # F
      <3>1. owner'[p] = t
        BY <1>2, <2>4 DEF OwnerIsHolder
      <3>2. owner[p] = NULL
        <4>1. \A u \in Threads : ~Holds(u, p)
          BY <1>3, <2>4
        <4>2. QED
          BY <1>2, <4>1 DEF OwnerIsHolder
      <3>3. owner' = [owner EXCEPT ![p] = t]
        BY <1>4, <1>5, <2>2, <3>1
      <3>4. Abstract!Acquire(t, p)
        BY <3>2, <3>3 DEF Abstract!Acquire
      <3>5. QED
        BY <3>4 DEF Abstract!Next
    <2>5. CASE ~Holds(t, p) /\ ~Holds(t, p)'
      <3>1. \A u \in Threads : Holds(u, p)' <=> Holds(u, p)
        BY <2>1, <2>5
      <3>2. owner'[p] = owner[p]
        BY <1>6, <3>1
      <3>3. owner' = owner
        BY <1>5, <2>2, <3>2
      <3>4. QED
        BY <3>3
    <2>6. QED
      BY <1>8, <2>3, <2>4, <2>5, ServedExclusive
  <1>9. QED
    BY <1>1, <1>7, <1>8, StepEffect

\* For callers that only ask for W_LOCK and UNLOCK the service, with its
\* messages, polls and losses, is a set of exclusive locks: a page is
\* acquired in the lock_request_callback that grants it, when it has no owner,
\* and released in the one that executes its owner's UNLOCK.
THEOREM Implements ==
    ASSUME ExclusiveUse
    PROVE  Spec => ImplementsExclusiveLock
  <1>1. Init /\ TypeOK => Abstract!Init
    <2> SUFFICES ASSUME Init, TypeOK PROVE owner = [p \in Pages |-> NULL]
      BY DEF Abstract!Init
    <2>1. ExclusionInv /\ \A p \in Pages : \A t \in Threads : Holds(t, p) => p \in PagesOf[t]
      BY ExclusionInit DEF Holds
    <2>2. \A p \in Pages : owner[p] = NULL
      BY <2>1, NobodyHolds, OwnerMeans DEF ExclusionInv, OwnerIsHolder
    <2>3. owner = [p \in Pages |-> owner[p]]
      BY DEF owner
    <2>4. QED
      BY <2>2, <2>3
  <1>2. ExclusionInv /\ [Next]_vars => ExclusionInv'
    BY ExclusionStep
  <1>3. ExclusionInv /\ [Next]_vars => [Abstract!Next]_owner
    BY RefinementStep
  <1>4. QED
    BY <1>1, <1>2, <1>3, ExclusionInit, TypeCorrect, PTL
       DEF Spec, ImplementsExclusiveLock, Abstract!Spec

=============================================================================
