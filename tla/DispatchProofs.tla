--------------------------- MODULE DispatchProofs ---------------------------
(***************************************************************************)
(* Proofs about the message layer, for any message types, in any order of  *)
(* the configuration, any threads that read and any number of messages.    *)
(***************************************************************************)
EXTENDS MessageDispatch, SequenceTheorems, TLAPS

----------------------------------------------------------------------------
(***************************************************************************)
(* The inductive invariant, in parts.                                      *)
(***************************************************************************)

\* The messages that the event loop has taken out of the buffer are those up to
\* this number.
Taken == Len(arrived) - Len(input)

Increasing(q) == \A i, j \in DOMAIN q : i < j => q[i] < q[j]

\* The buffer holds the latest messages, in order.
BufferInTurn ==
    /\ Taken \in Nat
    /\ \A i \in DOMAIN input : input[i] = Taken + i

\* A type whose second step of the start-up is done has its members set; before
\* the end of the start-up nothing is registered, handled or read.
StartUp ==
    /\ \A k \in DOMAIN TypeOrder :
           started >= 3 + 2 * k => cb_function[TypeOrder[k]] # "garbage"
    /\ ~InitDone => /\ \A ty \in Types : cb_function[ty] # "set"
                    /\ \A r \in Readers : reading[r] = Nothing
                    /\ read = <<>> /\ handled = <<>> /\ ready = {}

\* What is in a list has been taken, is of the list's type and in order.
ListsInTurn ==
    \A ty \in Types :
        /\ Increasing(unprocessed_mess_list[ty])
        /\ \A n \in Listed(ty) : n <= Taken /\ arrived[n] = ty

\* Until two threads meet, each is alone in its list.
ReadersApart ==
    ~crowded => \A r, s \in Readers :
        reading[r] # Nothing /\ reading[s] # Nothing /\ reading[r].type = reading[s].type => r = s

\* Until then, what a reader has copied is still in the list.
CopiedIsListed ==
    ~crowded => \A r \in Readers :
        reading[r] # Nothing /\ reading[r].message # NotYet =>
            reading[r].message \in Listed(reading[r].type)

\* Until then, what was returned by readMessage has been taken, once, and left its
\* list.
ReadLeftList ==
    ~crowded =>
    /\ IsInjective(read)
    /\ \A n \in ToSet(read) :
           n <= Taken /\ arrived[n] \in Types /\ n \notin Listed(arrived[n])

\* What was given to a callback has been taken, once, and of a type that has one.
HandledByCallback ==
    /\ \A i, j \in DOMAIN handled : handled[i].message = handled[j].message => i = j
    /\ \A m \in Handled :
           m <= Taken /\ arrived[m] \in Types /\ cb_function[arrived[m]] = "set"

\* As long as no append was lost, nothing of what was taken is missing.
NoneMissing ==
    /\ \A n \in ready : n <= Taken
    /\ ~raced =>
           /\ deaf = {}
           /\ \A n \in ready : arrived[n] \in Types =>
                  n \in Listed(arrived[n]) \cup Handled \cup ToSet(read)

\* Until two threads meet in a list, what callbacks have got of a type is behind
\* all that went to its list.
CallbacksLater ==
    ~crowded =>
    \A m \in Handled :
        /\ \A n \in Listed(arrived[m]) : n < m
        /\ \A n \in ToSet(read) : arrived[n] = arrived[m] => n < m

DispatchInv ==
    /\ TypeOK
    /\ BufferInTurn
    /\ StartUp
    /\ ListsInTurn
    /\ ReadersApart
    /\ CopiedIsListed
    /\ ReadLeftList
    /\ HandledByCallback
    /\ NoneMissing
    /\ CallbacksLater

----------------------------------------------------------------------------
(***************************************************************************)
(* What push_back and erase do to a list.                                  *)
(***************************************************************************)

\* Messages that have arrived stay so.
LEMMA SeqWidens ==
    ASSUME NEW S, NEW T, S \subseteq T, NEW q \in Seq(S)
    PROVE  q \in Seq(T)
OBVIOUS

\* push_back of a message behind all others.
LEMMA PushedBack ==
    ASSUME NEW S, NEW q \in Seq(S), NEW n \in S
    PROVE  /\ Append(q, n) \in Seq(S)
           /\ ToSet(Append(q, n)) = ToSet(q) \cup {n}
<1>1. /\ Append(q, n) \in Seq(S)
      /\ Len(q) \in Nat
      /\ DOMAIN q = 1 .. Len(q)
      /\ DOMAIN Append(q, n) = 1 .. Len(q) + 1
      /\ Append(q, n)[Len(q) + 1] = n
      /\ \A i \in 1 .. Len(q) : Append(q, n)[i] = q[i]
  OBVIOUS
<1> DEFINE a == Append(q, n)
<1> HIDE DEF a
<1>2. ToSet(a) \subseteq ToSet(q) \cup {n}
  BY <1>1 DEF ToSet, a
<1>3. ToSet(q) \subseteq ToSet(a)
  BY <1>1 DEF ToSet, a
<1>4. n \in ToSet(a)
  BY <1>1 DEF ToSet, a
<1> QED
  BY <1>1, <1>2, <1>3, <1>4 DEF a

\* It keeps the order.
LEMMA PushedInOrder ==
    ASSUME NEW S, S \subseteq Nat, NEW q \in Seq(S), NEW n \in S,
           Increasing(q), \A m \in ToSet(q) : m < n
    PROVE  Increasing(Append(q, n))
<1>1. /\ Len(q) \in Nat
      /\ DOMAIN q = 1 .. Len(q)
      /\ DOMAIN Append(q, n) = 1 .. Len(q) + 1
      /\ Append(q, n)[Len(q) + 1] = n
      /\ \A i \in 1 .. Len(q) : Append(q, n)[i] = q[i]
  OBVIOUS
<1> DEFINE a == Append(q, n)
<1> HIDE DEF a
<1> SUFFICES ASSUME NEW i \in 1 .. Len(q) + 1, NEW j \in 1 .. Len(q) + 1, i < j
             PROVE  a[i] < a[j]
  BY <1>1 DEF Increasing, a
<1>2. i \in 1 .. Len(q) /\ a[i] = q[i] /\ q[i] \in ToSet(q)
  BY <1>1 DEF a, ToSet
<1>3. CASE j = Len(q) + 1
  BY <1>1, <1>2, <1>3 DEF a
<1>4. CASE j \in 1 .. Len(q)
  BY <1>1, <1>2, <1>4 DEF a, Increasing
<1> QED
  BY <1>1, <1>3, <1>4

\* A value that is behind all of an injective sequence, or in none of its places.
LEMMA PushedOnce ==
    ASSUME NEW S, NEW q \in Seq(S), NEW n \in S, IsInjective(q), n \notin ToSet(q)
    PROVE  IsInjective(Append(q, n))
<1>1. /\ Len(q) \in Nat
      /\ DOMAIN q = 1 .. Len(q)
      /\ DOMAIN Append(q, n) = 1 .. Len(q) + 1
      /\ Append(q, n)[Len(q) + 1] = n
      /\ \A i \in 1 .. Len(q) : Append(q, n)[i] = q[i] /\ q[i] # n
  BY DEF ToSet
<1> DEFINE a == Append(q, n)
<1> HIDE DEF a
<1> SUFFICES ASSUME NEW i \in 1 .. Len(q) + 1, NEW j \in 1 .. Len(q) + 1, a[i] = a[j]
             PROVE  i = j
  BY <1>1 DEF IsInjective, a
<1>2. CASE i = Len(q) + 1 \/ j = Len(q) + 1
  BY <1>1, <1>2 DEF a
<1>3. CASE i \in 1 .. Len(q) /\ j \in 1 .. Len(q)
  BY <1>1, <1>3, SMTT(40) DEF a, IsInjective
<1> QED
  BY <1>1, <1>2, <1>3

\* erase(it): the elements behind it move up by one place.
LEMMA ErasedPlace ==
    ASSUME NEW S, NEW q \in Seq(S), NEW k \in 1 .. Len(q)
    PROVE  /\ RemoveAt(q, k) \in Seq(S)
           /\ Len(q) \in Nat \ {0}
           /\ DOMAIN q = 1 .. Len(q)
           /\ DOMAIN RemoveAt(q, k) = 1 .. Len(q) - 1
           /\ \A i \in 1 .. Len(q) - 1 :
                  RemoveAt(q, k)[i] = q[IF i < k THEN i ELSE i + 1]
<1> DEFINE front == SubSeq(q, 1, k - 1)
           back == SubSeq(q, k + 1, Len(q))
<1>1. /\ Len(q) \in Nat \ {0} /\ k \in Nat \ {0} /\ k <= Len(q)
      /\ DOMAIN q = 1 .. Len(q)
  OBVIOUS
<1>2. front \in Seq(S) /\ Len(front) = k - 1 /\ \A i \in 1 .. k - 1 : front[i] = q[i]
  BY <1>1, SubSeqProperties
<1>3. /\ back \in Seq(S)
      /\ Len(back) = IF k + 1 <= Len(q) THEN Len(q) - (k + 1) + 1 ELSE 0
      /\ \A i \in 1 .. Len(q) - (k + 1) + 1 : back[i] = q[(k + 1) + i - 1]
  <2>1. (\A i \in k + 1 .. Len(q) : q[i] \in S) /\ k + 1 \in Int /\ Len(q) \in Int
    BY <1>1
  <2> QED
    BY <2>1, SubSeqProperties
<1> HIDE DEF front, back
<1>4. Len(front) + Len(back) = Len(q) - 1
  <2>1. \A m, n \in Nat : m <= n =>
            (IF m + 1 <= n THEN n - (m + 1) + 1 ELSE 0) = n - m
    OBVIOUS
  <2>2. Len(back) = Len(q) - k
    BY <1>1, <1>3, <2>1
  <2> QED
    BY <1>1, <1>2, <2>2, SMTT(40)
<1>5. /\ front \o back \in Seq(S)
      /\ Len(front \o back) = Len(q) - 1
      /\ \A i \in 1 .. Len(q) - 1 :
             (front \o back)[i] = IF i <= k - 1 THEN front[i] ELSE back[i - (k - 1)]
  BY <1>2, <1>3, <1>4, ConcatProperties
<1>6. RemoveAt(q, k) = front \o back
  BY DEF RemoveAt, front, back
<1>7. ASSUME NEW i \in 1 .. Len(q) - 1
      PROVE  (front \o back)[i] = q[IF i < k THEN i ELSE i + 1]
  <2>1. CASE i < k
    BY <1>1, <1>2, <1>5, <2>1
  <2>2. CASE ~(i < k)
    <3>1. /\ i - (k - 1) \in 1 .. Len(q) - (k + 1) + 1
          /\ (k + 1) + (i - (k - 1)) - 1 = i + 1
          /\ ~(i <= k - 1)
      BY <1>1, <2>2
    <3>2. (front \o back)[i] = back[i - (k - 1)]
      BY <1>5, <3>1
    <3>3. back[i - (k - 1)] = q[i + 1]
      BY <1>3, <3>1
    <3> QED
      BY <2>2, <3>2, <3>3
  <2> QED
    BY <2>1, <2>2
<1> DEFINE r == front \o back
<1> HIDE DEF r
<1>8. r \in Seq(S) /\ DOMAIN r = 1 .. Len(q) - 1
  <2>1. r \in Seq(S) /\ Len(r) = Len(q) - 1
    BY <1>5 DEF r
  <2> QED
    BY <2>1
<1> QED
  BY <1>1, <1>6, <1>7, <1>8 DEF r

\* readMessage erases the message it has copied, and nothing else.
LEMMA ErasedMessage ==
    ASSUME NEW S, S \subseteq Nat, NEW q \in Seq(S), Increasing(q), NEW n \in ToSet(q)
    PROVE  /\ RemoveFirst(q, n) \in Seq(S)
           /\ ToSet(RemoveFirst(q, n)) = ToSet(q) \ {n}
           /\ Increasing(RemoveFirst(q, n))
<1>0. \A i \in 1 .. Len(q) : q[i] \in Nat
  <2>1. \A i \in 1 .. Len(q) : q[i] \in S
    OBVIOUS
  <2> QED
    BY <2>1, Zenon
<1>1. PICK k \in 1 .. Len(q) : q[k] = n
  BY DEF ToSet
<1> DEFINE r == RemoveAt(q, k)
           old(i) == IF i < k THEN i ELSE i + 1
<1>2. /\ r \in Seq(S)
      /\ Len(q) \in Nat \ {0} /\ k \in Nat
      /\ DOMAIN q = 1 .. Len(q)
      /\ DOMAIN r = 1 .. Len(q) - 1
      /\ \A i \in 1 .. Len(q) - 1 : r[i] = q[old(i)]
  BY ErasedPlace
<1>3. \A i, j \in 1 .. Len(q) : q[i] \in Nat /\ (q[i] = q[j] => i = j)
  <2>2. \A i, j \in 1 .. Len(q) : i < j => q[i] < q[j]
    BY <1>2 DEF Increasing
  <2> SUFFICES ASSUME NEW i \in 1 .. Len(q), NEW j \in 1 .. Len(q), i # j
               PROVE  q[i] # q[j]
    BY <1>0
  <2>3. i < j \/ j < i
    BY <1>2
  <2> QED
    BY <1>0, <2>2, <2>3
<1>4. RemoveFirst(q, n) = r
  <2> DEFINE I == {i \in 1 .. Len(q) : q[i] = n}
  <2>1. I = {k} /\ k <= k
    BY <1>1, <1>2, <1>3
  <2>2. (IF I # {} THEN Min(I) ELSE 0) = k
    BY <2>1 DEF Min
  <2>3. SelectInSeq(q, LAMBDA v : v = n) = k
    BY <2>2 DEF SelectInSeq
  <2> QED
    BY <1>1, <2>3 DEF RemoveFirst
<1> HIDE DEF r
<1>5. \A i \in 1 .. Len(q) - 1 : old(i) \in 1 .. Len(q) /\ old(i) # k
  BY <1>2
<1>6. \A i, j \in 1 .. Len(q) - 1 : i < j => old(i) < old(j)
  BY <1>2
<1>7. \A i \in 1 .. Len(q) : i # k => \E j \in 1 .. Len(q) - 1 : old(j) = i
  <2> SUFFICES ASSUME NEW i \in 1 .. Len(q), i # k
               PROVE  \E j \in 1 .. Len(q) - 1 : old(j) = i
    OBVIOUS
  <2>1. CASE i < k
    <3>1. i \in 1 .. Len(q) - 1 /\ old(i) = i
      BY <1>2, <2>1
    <3> QED
      BY <3>1
  <2>2. CASE i > k
    <3>1. i - 1 \in 1 .. Len(q) - 1 /\ old(i - 1) = i
      BY <1>2, <2>2
    <3> QED
      BY <3>1
  <2> QED
    BY <1>2, <2>1, <2>2
<1> HIDE DEF old
<1>8. Increasing(r)
  BY <1>2, <1>5, <1>6 DEF Increasing
<1>9. ToSet(r) \subseteq ToSet(q) \ {n}
  BY <1>1, <1>2, <1>3, <1>5 DEF ToSet
<1>10. ToSet(q) \ {n} \subseteq ToSet(r)
  <2> SUFFICES ASSUME NEW i \in 1 .. Len(q), q[i] # n PROVE q[i] \in ToSet(r)
    BY <1>2 DEF ToSet
  <2>1. PICK j \in 1 .. Len(q) - 1 : old(j) = i
    BY <1>1, <1>7
  <2> QED
    BY <1>2, <2>1 DEF ToSet
<1> QED
  BY <1>2, <1>4, <1>8, <1>9, <1>10

\* If another thread has erased the message, the list stays as it is.
LEMMA ErasedAtMost ==
    ASSUME NEW S, S \subseteq Nat, NEW q \in Seq(S), Increasing(q), NEW n
    PROVE  /\ RemoveFirst(q, n) \in Seq(S)
           /\ ToSet(RemoveFirst(q, n)) = ToSet(q) \ {n}
           /\ Increasing(RemoveFirst(q, n))
<1>1. CASE n \in ToSet(q)
  BY <1>1, ErasedMessage
<1>2. CASE n \notin ToSet(q)
  <2>1. RemoveFirst(q, n) = q
    BY <1>2 DEF RemoveFirst, ToSet
  <2> QED
    BY <1>2, <2>1
<1> QED
  BY <1>1, <1>2

----------------------------------------------------------------------------
(***************************************************************************)
(* One lemma for each action.                                              *)
(***************************************************************************)
USE DispatchAssumption

\* The types of the configuration and the steps of the start-up.
LEMMA Configured ==
    /\ Len(TypeOrder) \in Nat
    /\ DOMAIN TypeOrder = 1 .. Len(TypeOrder)
    /\ \A k \in 1 .. Len(TypeOrder) : TypeOrder[k] \in Types
    /\ \A ty \in Types : \E k \in 1 .. Len(TypeOrder) : TypeOrder[k] = ty
    /\ \A ty \in Types : Position(ty) \in 1 .. Len(TypeOrder)
    /\ \A k, l \in 1 .. Len(TypeOrder) : TypeOrder[k] = TypeOrder[l] => k = l
    /\ InitSteps \in Nat
    /\ InitSteps = 3 + 2 * Len(TypeOrder)
<1>1. /\ Len(TypeOrder) \in Nat
      /\ DOMAIN TypeOrder = 1 .. Len(TypeOrder)
      /\ \A k \in 1 .. Len(TypeOrder) : TypeOrder[k] \in Types
  OBVIOUS
<1>2. \A ty \in Types : \E k \in 1 .. Len(TypeOrder) : TypeOrder[k] = ty
  BY <1>1 DEF Types, ToSet
<1>3. \A ty \in Types : Position(ty) \in 1 .. Len(TypeOrder)
  BY <1>1, <1>2 DEF Position
<1>4. \A k, l \in 1 .. Len(TypeOrder) : TypeOrder[k] = TypeOrder[l] => k = l
  BY <1>1 DEF IsInjective
<1> QED
  BY <1>1, <1>2, <1>3, <1>4 DEF InitSteps

\* The type that an even step of the start-up enters.
LEMMA EvenStep ==
    ASSUME NEW s \in Nat, NEW l \in Nat, 3 <= s, s <= 2 + 2 * l, s % 2 = 0
    PROVE  (s - 2) \div 2 \in 1 .. l /\ s = 2 + 2 * ((s - 2) \div 2)
<1> DEFINE k == (s - 2) \div 2
<1>1. s - 2 \in Nat /\ (s - 2) % 2 = 0 /\ s # 3
  OBVIOUS
<1>2. s - 2 = 2 * k /\ k \in Int
  BY <1>1
<1> HIDE DEF k
<1>3. k \in 1 .. l
  BY <1>1, <1>2
<1> QED
  BY <1>2, <1>3 DEF k

\* When init_handle has returned, every configured type is entered and its
\* function is set or NULL.
LEMMA AfterStartUp ==
    ASSUME DispatchInv, InitDone, NEW ty
    PROVE  /\ ty \in Types => Entered(ty) /\ cb_function[ty] # "garbage"
           /\ Entered(ty) => ty \in Types
<1>1. Entered(ty) => ty \in Types
  BY DEF Entered
<1>2. ASSUME ty \in Types PROVE Entered(ty)
  BY <1>2, Configured DEF Entered, InitDone
<1>3. ASSUME ty \in Types PROVE cb_function[ty] # "garbage"
  <2>1. PICK k \in 1 .. Len(TypeOrder) : TypeOrder[k] = ty
    BY <1>3, Configured
  <2>2. started >= 3 + 2 * k
    BY Configured DEF InitDone
  <2> QED
    BY <2>1, <2>2, Configured DEF DispatchInv, StartUp
<1> QED
  BY <1>1, <1>2, <1>3

\* The parts that depend on neither the start-up nor the registrations.
LEMMA SameMessages ==
    ASSUME DispatchInv,
           UNCHANGED <<arrived, input, unprocessed_mess_list, deaf, app, handled, ready, raced>>,
           \A ty \in Types : cb_function[ty] = "set" => cb_function'[ty] = "set"
    PROVE  /\ BufferInTurn'
           /\ ListsInTurn'
           /\ ReadersApart'
           /\ CopiedIsListed'
           /\ ReadLeftList'
           /\ HandledByCallback'
           /\ NoneMissing'
           /\ CallbacksLater'
<1>1. /\ arrived' = arrived /\ input' = input /\ deaf' = deaf /\ ready' = ready /\ raced' = raced
      /\ reading' = reading /\ read' = read /\ crowded' = crowded
      /\ unprocessed_mess_list' = unprocessed_mess_list /\ handled' = handled
  BY DEF app
<1>2. Taken' = Taken /\ Handled' = Handled /\ \A ty : Listed(ty)' = Listed(ty)
  BY <1>1 DEF Taken, Handled, Listed
<1>3. BufferInTurn'
  BY <1>1, <1>2 DEF DispatchInv, BufferInTurn
<1>4. ListsInTurn'
  BY <1>1, <1>2 DEF DispatchInv, ListsInTurn
<1>5. ReadersApart' /\ CopiedIsListed'
  BY <1>1, <1>2 DEF DispatchInv, ReadersApart, CopiedIsListed
<1>6. ReadLeftList'
  BY <1>1, <1>2 DEF DispatchInv, ReadLeftList
<1>7. HandledByCallback'
  BY <1>1, <1>2 DEF DispatchInv, HandledByCallback
<1>8. NoneMissing'
  BY <1>1, <1>2 DEF DispatchInv, NoneMissing
<1>9. CallbacksLater'
  BY <1>1, <1>2 DEF DispatchInv, CallbacksLater
<1> QED
  BY <1>3, <1>4, <1>5, <1>6, <1>7, <1>8, <1>9

LEMMA init_handle_Inv == ASSUME DispatchInv, init_handle PROVE DispatchInv'
<1>1. started \in Nat /\ started < 3 /\ started' = started + 1 /\ ~InitDone
  BY Configured DEF DispatchInv, TypeOK, init_handle, InitDone
<1>2. TypeOK'
  <2>1. started' \in 0 .. InitSteps
    BY <1>1, Configured
  <2> QED
    BY <2>1 DEF DispatchInv, TypeOK, init_handle, app
<1>3. StartUp'
  <2>1. \A k \in DOMAIN TypeOrder : ~(started' >= 3 + 2 * k)
    BY <1>1, Configured
  <2> QED
    BY <1>1, <2>1 DEF DispatchInv, StartUp, init_handle, app
<1> QED
  BY <1>2, <1>3, SameMessages DEF DispatchInv, init_handle

\* An entry is cleared before anything of its list was read.
LEMMA init_group_infor_map_Inv ==
    ASSUME DispatchInv, init_group_infor_map PROVE DispatchInv'
<1> USE DEF init_group_infor_map
<1>1. started \in 3 .. InitSteps - 1 /\ started' = started + 1 /\ ~InitDone
  BY Configured DEF InitDone
<1>2. /\ read = <<>> /\ handled = <<>> /\ ready = {}
      /\ \A r \in Readers : reading[r] = Nothing
      /\ \A ty \in Types : cb_function[ty] # "set"
  BY <1>1 DEF DispatchInv, StartUp
<1>3. CASE started % 2 = 1 /\ UNCHANGED <<cb_function, unprocessed_mess_list>>
  <2>1. TypeOK'
    <3>1. started' \in 0 .. InitSteps
      BY <1>1, Configured
    <3> QED
      BY <3>1, <1>3 DEF DispatchInv, TypeOK, app
  <2>2. StartUp'
    <3>1. \A k \in DOMAIN TypeOrder : started' >= 3 + 2 * k => started >= 3 + 2 * k
      <4> SUFFICES ASSUME NEW k \in 1 .. Len(TypeOrder), started + 1 = 3 + 2 * k PROVE FALSE
        BY <1>1, Configured
      <4> QED
        BY <1>1, <1>3, Configured, SMTT(40)
    <3> QED
      BY <1>1, <1>2, <1>3, <3>1 DEF DispatchInv, StartUp, app
  <2> QED
    BY <1>3, <2>1, <2>2, SameMessages DEF DispatchInv
<1>4. CASE started % 2 = 0 /\ ~(started % 2 = 1)
  <2> DEFINE k == (started - 2) \div 2
             ty == TypeOrder[k]
  <2>1. k \in 1 .. Len(TypeOrder) /\ started = 2 + 2 * k
    <3>1. /\ started \in Nat /\ 3 <= started /\ started <= 2 + 2 * Len(TypeOrder)
          /\ started % 2 = 0
      BY <1>1, <1>4, Configured
    <3> QED
      BY <3>1, EvenStep, Configured
  <2> HIDE DEF k
  <2>2. ty \in Types
    BY <2>1, Configured
  <2>3. /\ cb_function' = [cb_function EXCEPT ![ty] = "NULL"]
        /\ unprocessed_mess_list' = [unprocessed_mess_list EXCEPT ![ty] = <<>>]
        /\ UNCHANGED <<cb_arg, arrived, input, loop, deaf, reading, read, crowded, handled, ready,
                       raced>>
    BY <1>4 DEF k, app
  <2> HIDE DEF ty
  <2>4. TypeOK'
    <3>1. started' \in 0 .. InitSteps
      BY <1>1, Configured
    <3>2. cb_function' \in [Types -> {"garbage", "NULL", "set"}]
      BY <2>2, <2>3 DEF DispatchInv, TypeOK
    <3>3. unprocessed_mess_list' \in [Types -> Seq(DOMAIN arrived)]
      BY <2>2, <2>3 DEF DispatchInv, TypeOK
    <3> QED
      BY <2>3, <3>1, <3>2, <3>3 DEF DispatchInv, TypeOK
  <2>5. BufferInTurn' /\ Taken' = Taken
    BY <2>3 DEF DispatchInv, BufferInTurn, Taken
  <2>6. StartUp'
    <3>1. ASSUME NEW l \in DOMAIN TypeOrder, started' >= 3 + 2 * l
          PROVE  cb_function'[TypeOrder[l]] # "garbage"
      <4>1. l \in 1 .. Len(TypeOrder) /\ TypeOrder[l] \in Types
        BY Configured
      <4>2. CASE l = k
        BY <2>2, <2>3, <4>2 DEF DispatchInv, TypeOK, ty
      <4>3. CASE l # k
        <5>1. started >= 3 + 2 * l
          BY <1>1, <2>1, <3>1, <4>1, <4>3
        <5> QED
          BY <2>2, <2>3, <4>1, <5>1 DEF DispatchInv, TypeOK, StartUp
      <4> QED
        BY <4>2, <4>3
    <3>2. \A u \in Types : cb_function'[u] # "set"
      BY <1>2, <2>2, <2>3 DEF DispatchInv, TypeOK
    <3> QED
      BY <1>2, <2>3, <3>1, <3>2 DEF StartUp
  <2>7. \A u \in Types : /\ Increasing(unprocessed_mess_list[u]) => Increasing(unprocessed_mess_list'[u])
                         /\ Listed(u)' \subseteq Listed(u)
    BY <2>2, <2>3, SMTT(40) DEF DispatchInv, TypeOK, Increasing, Listed, ToSet
  <2>8. ListsInTurn'
    BY <2>3, <2>5, <2>7 DEF DispatchInv, ListsInTurn
  <2>9. read' = <<>> /\ handled' = <<>> /\ ready' = {} /\ \A r \in Readers : reading'[r] = Nothing
    BY <1>2, <2>3
  <2>10. ReadersApart' /\ CopiedIsListed'
    BY <2>9 DEF ReadersApart, CopiedIsListed
  <2>11. ReadLeftList'
    BY <2>9 DEF ReadLeftList, ToSet, IsInjective
  <2>12. HandledByCallback' /\ CallbacksLater'
    BY <2>9 DEF HandledByCallback, CallbacksLater, Handled
  <2>13. NoneMissing'
    BY <2>3, <2>9 DEF DispatchInv, NoneMissing
  <2> QED
    BY <2>4, <2>5, <2>6, <2>8, <2>10, <2>11, <2>12, <2>13 DEF DispatchInv
<1> QED
  <2>1. started % 2 = 1 /\ started % 2 = 0 => FALSE
    BY <1>1, Configured
  <2> QED
    BY <1>3, <1>4, <2>1

LEMMA register_Inv ==
    ASSUME DispatchInv, NEW ty \in Types, register_cb_function(ty) \/ register_cb_arg(ty)
    PROVE  DispatchInv'
<1>1. CASE register_cb_function(ty)
  <2> USE DEF register_cb_function
  <2>1. TypeOK'
    <3>1. cb_function' \in [Types -> {"garbage", "NULL", "set"}]
      BY <1>1 DEF DispatchInv, TypeOK
    <3> QED
      BY <1>1, <3>1 DEF DispatchInv, TypeOK, app
  <2>2. \A u \in Types : cb_function'[u] = cb_function[u] \/ cb_function'[u] = "set"
    BY <1>1 DEF DispatchInv, TypeOK
  <2>3. StartUp'
    BY <1>1, <2>2, Configured, SMTT(40) DEF DispatchInv, StartUp, InitDone
  <2> QED
    BY <1>1, <2>1, <2>2, <2>3, SameMessages DEF DispatchInv
<1>2. CASE register_cb_arg(ty)
  <2> USE DEF register_cb_arg
  <2>1. TypeOK'
    <3>1. cb_arg' \in [Types -> {"NULL", "set"}]
      BY <1>2 DEF DispatchInv, TypeOK
    <3> QED
      BY <1>2, <3>1 DEF DispatchInv, TypeOK, app
  <2>2. StartUp'
    BY <1>2 DEF DispatchInv, StartUp, InitDone, app
  <2> QED
    BY <1>2, <2>1, <2>2, SameMessages DEF DispatchInv
<1> QED
  BY <1>1, <1>2

\* All messages that are somewhere have arrived.
LEMMA Known ==
    ASSUME DispatchInv
    PROVE  /\ Len(arrived) \in Nat /\ DOMAIN arrived = 1 .. Len(arrived)
           /\ Len(input) \in Nat /\ DOMAIN input = 1 .. Len(input)
           /\ \A u \in Types : /\ unprocessed_mess_list[u] \in Seq(DOMAIN arrived)
                               /\ Listed(u) \subseteq DOMAIN arrived
           /\ ToSet(read) \subseteq DOMAIN arrived
           /\ Handled \subseteq DOMAIN arrived
           /\ ready \subseteq DOMAIN arrived
           /\ Taken \in Nat /\ Taken = Len(arrived) - Len(input)
<1>1. /\ Len(arrived) \in Nat /\ DOMAIN arrived = 1 .. Len(arrived)
      /\ Len(input) \in Nat /\ DOMAIN input = 1 .. Len(input)
  BY DEF DispatchInv, TypeOK
<1>2. ASSUME NEW u \in Types
      PROVE  /\ unprocessed_mess_list[u] \in Seq(DOMAIN arrived)
             /\ Listed(u) \subseteq DOMAIN arrived
  <2>1. unprocessed_mess_list[u] \in Seq(DOMAIN arrived)
    BY DEF DispatchInv, TypeOK
  <2> QED
    BY <2>1 DEF Listed, ToSet
<1>3. ToSet(read) \subseteq DOMAIN arrived
  BY DEF DispatchInv, TypeOK, ToSet
<1>4. Handled \subseteq DOMAIN arrived
  <2> DEFINE S == [message : DOMAIN arrived, arg : {"NULL", "set"}]
  <2>1. handled \in Seq(S)
    BY DEF DispatchInv, TypeOK
  <2>2. \A x \in S : x.message \in DOMAIN arrived
    OBVIOUS
  <2> HIDE DEF S
  <2>3. \A i \in DOMAIN handled : handled[i] \in S
    BY <2>1
  <2> QED
    BY <2>2, <2>3 DEF Handled
<1>5. ready \subseteq DOMAIN arrived
  BY DEF DispatchInv, TypeOK
<1>6. Taken \in Nat /\ Taken = Len(arrived) - Len(input)
  BY DEF DispatchInv, BufferInTurn, Taken
<1> QED
  BY <1>1, <1>2, <1>3, <1>4, <1>5, <1>6

LEMMA default_bufferevent_read_cb_Inv ==
    ASSUME DispatchInv, NEW ty \in Types \cup {Other}, default_bufferevent_read_cb(ty)
    PROVE  DispatchInv'
<1>1. /\ arrived' = Append(arrived, ty) /\ input' = Append(input, Len(arrived) + 1)
      /\ Len(arrived) < MaxMessages
      /\ loop' \in {"waiting", "callback", "crashed"}
      /\ UNCHANGED <<started, cb_function, cb_arg, unprocessed_mess_list, deaf, reading, read,
                     crowded, handled, ready, raced>>
  BY DEF default_bufferevent_read_cb, startup, app
<1>2. /\ Len(arrived) \in Nat /\ DOMAIN arrived = 1 .. Len(arrived)
      /\ Len(input) \in Nat /\ DOMAIN input = 1 .. Len(input)
      /\ Taken \in Nat /\ Taken = Len(arrived) - Len(input)
  BY Known
<1>3. /\ arrived' \in Seq(Types \cup {Other})
      /\ Len(arrived') = Len(arrived) + 1
      /\ DOMAIN arrived' = 1 .. Len(arrived) + 1
      /\ \A n \in DOMAIN arrived : arrived'[n] = arrived[n]
  BY <1>1, <1>2 DEF DispatchInv, TypeOK
<1>4. DOMAIN arrived \subseteq DOMAIN arrived' /\ Len(arrived) + 1 \in DOMAIN arrived'
  BY <1>2, <1>3
<1>5. /\ input' \in Seq(DOMAIN arrived')
      /\ Len(input') = Len(input) + 1
      /\ DOMAIN input' = 1 .. Len(input) + 1
      /\ \A i \in DOMAIN input : input'[i] = input[i]
      /\ input'[Len(input) + 1] = Len(arrived) + 1
  <2>1. input \in Seq(DOMAIN arrived')
    BY <1>4, SeqWidens DEF DispatchInv, TypeOK
  <2> QED
    BY <1>1, <1>2, <1>4, <2>1
<1>6. Taken' = Taken
  BY <1>2, <1>3, <1>5 DEF Taken
<1>7. Handled' = Handled /\ \A u : Listed(u)' = Listed(u)
  BY <1>1 DEF Handled, Listed
<1>8. /\ \A u \in Types : Listed(u) \subseteq DOMAIN arrived
      /\ ToSet(read) \subseteq DOMAIN arrived
      /\ Handled \subseteq DOMAIN arrived
      /\ ready \subseteq DOMAIN arrived
  BY Known
<1>9. TypeOK'
  <2>1. Len(arrived') <= MaxMessages
    BY <1>1, <1>2, <1>3
  <2>2. unprocessed_mess_list' \in [Types -> Seq(DOMAIN arrived')]
    <3>1. \A u \in Types : unprocessed_mess_list[u] \in Seq(DOMAIN arrived')
      BY <1>4, Known, SeqWidens
    <3> QED
      BY <1>1, <3>1 DEF DispatchInv, TypeOK
  <2>3. reading' \in [Readers -> [type : Types, filtered : BOOLEAN,
                                  message : DOMAIN arrived' \cup {NotYet}] \cup {Nothing}]
    BY <1>1, <1>4 DEF DispatchInv, TypeOK
  <2>4. read' \in Seq(DOMAIN arrived')
    BY <1>1, <1>4, SeqWidens DEF DispatchInv, TypeOK
  <2>5. handled' \in Seq([message : DOMAIN arrived', arg : {"NULL", "set"}])
    <3> DEFINE S == [message : DOMAIN arrived, arg : {"NULL", "set"}]
               T == [message : DOMAIN arrived', arg : {"NULL", "set"}]
    <3>1. S \subseteq T
      BY <1>4
    <3>2. handled \in Seq(S)
      BY DEF DispatchInv, TypeOK
    <3> HIDE DEF S, T
    <3>3. handled \in Seq(T)
      BY <3>1, <3>2, SeqWidens
    <3> QED
      BY <1>1, <3>3 DEF T
  <2>6. ready' \subseteq DOMAIN arrived'
    BY <1>1, <1>4, <1>8
  <2> QED
    BY <1>1, <1>3, <1>5, <2>1, <2>2, <2>3, <2>4, <2>5, <2>6 DEF DispatchInv, TypeOK
<1>10. BufferInTurn'
  <2>1. ASSUME NEW i \in DOMAIN input' PROVE input'[i] = Taken + i
    <3>1. CASE i \in DOMAIN input
      BY <1>5, <3>1 DEF DispatchInv, BufferInTurn
    <3>2. CASE i = Len(input) + 1
      BY <1>2, <1>5, <3>2
    <3> QED
      BY <1>2, <1>5, <2>1, <3>1, <3>2
  <2> QED
    BY <1>2, <1>6, <2>1 DEF BufferInTurn
<1>11. StartUp'
  BY <1>1 DEF DispatchInv, StartUp, InitDone
<1>12. ListsInTurn'
  BY <1>1, <1>3, <1>6, <1>7, <1>8 DEF DispatchInv, ListsInTurn
<1>13. ReadersApart' /\ CopiedIsListed'
  BY <1>1, <1>7 DEF DispatchInv, ReadersApart, CopiedIsListed
<1>14. ReadLeftList'
  BY <1>1, <1>3, <1>6, <1>7, <1>8 DEF DispatchInv, ReadLeftList
<1>15. HandledByCallback'
  BY <1>1, <1>3, <1>6, <1>7, <1>8 DEF DispatchInv, HandledByCallback
<1>16. NoneMissing'
  BY <1>1, <1>3, <1>6, <1>7, <1>8 DEF DispatchInv, NoneMissing
<1>17. CallbacksLater'
  BY <1>1, <1>3, <1>6, <1>7, <1>8 DEF DispatchInv, CallbacksLater
<1> QED
  BY <1>9, <1>10, <1>11, <1>12, <1>13, <1>14, <1>15, <1>16, <1>17 DEF DispatchInv

\* What a step of readMessage that only looks leaves as it is.
Looks(r) ==
    /\ InitDone
    /\ crowded => crowded'
    /\ \A s \in Readers : s # r => reading'[s] = reading[s]
    /\ UNCHANGED <<started, cb_function, cb_arg, arrived, input, loop, unprocessed_mess_list, deaf,
                   read, handled, ready, raced>>

\* Such a step keeps the invariant if the reader is alone in the list, and what it
\* has copied is listed.
LEMMA LooksInv ==
    ASSUME DispatchInv, NEW r \in Readers, Looks(r),
           crowded' \in BOOLEAN,
           reading' \in [Readers -> [type : Types, filtered : BOOLEAN,
                                     message : DOMAIN arrived \cup {NotYet}] \cup {Nothing}],
           ~crowded' /\ reading'[r] # Nothing =>
               /\ reading'[r].message # NotYet => reading'[r].message \in Listed(reading'[r].type)
               /\ \A s \in Readers : reading[s] # Nothing /\ reading[s].type = reading'[r].type
                                     => s = r
    PROVE  DispatchInv'
<1>1. TypeOK'
  BY DEF DispatchInv, TypeOK, Looks
<1>2. Taken' = Taken /\ Handled' = Handled /\ \A u : Listed(u)' = Listed(u)
  BY DEF Taken, Handled, Listed, Looks
<1>3. BufferInTurn' /\ ListsInTurn'
  BY <1>2 DEF DispatchInv, BufferInTurn, ListsInTurn, Looks
<1>4. StartUp'
  BY DEF DispatchInv, StartUp, InitDone, Looks
<1>5. ReadersApart'
  <2> SUFFICES ASSUME ~crowded', NEW q \in Readers, NEW s \in Readers,
                      reading'[q] # Nothing, reading'[s] # Nothing,
                      reading'[q].type = reading'[s].type
               PROVE  q = s
    BY DEF ReadersApart
  <2>1. CASE q = r \/ s = r
    BY <2>1 DEF Looks
  <2>2. CASE q # r /\ s # r
    BY <2>2 DEF DispatchInv, ReadersApart, Looks
  <2> QED
    BY <2>1, <2>2
<1>6. CopiedIsListed'
  <2> SUFFICES ASSUME ~crowded', NEW s \in Readers, reading'[s] # Nothing,
                      reading'[s].message # NotYet
               PROVE  reading'[s].message \in Listed(reading'[s].type)
    BY <1>2 DEF CopiedIsListed
  <2> QED
    BY DEF DispatchInv, CopiedIsListed, Looks
<1>7. ReadLeftList' /\ HandledByCallback'
  BY <1>2 DEF DispatchInv, ReadLeftList, HandledByCallback, Looks
<1>8. NoneMissing' /\ CallbacksLater'
  BY <1>2 DEF DispatchInv, NoneMissing, CallbacksLater, Looks
<1> QED
  BY <1>1, <1>3, <1>4, <1>5, <1>6, <1>7, <1>8 DEF DispatchInv

\* A thread that enters where another is sets crowded.
LEMMA readMessage_enter_Inv ==
    ASSUME DispatchInv, NEW c \in Calls, readMessage_enter(c.reader, c.type, c.filtered)
    PROVE  DispatchInv'
<1>1. PICK r, ty, f : r = c.reader /\ ty = c.type /\ f = c.filtered
  OBVIOUS
<1>2. r \in Readers /\ ty \in Types /\ f \in BOOLEAN
  BY <1>1, CallsAssumption
<1> DEFINE x == [type |-> ty, filtered |-> f, message |-> NotYet]
<1>3. /\ reading' = [reading EXCEPT ![r] = x]
      /\ crowded' = (crowded \/ \E q \in Readers : reading[q] # Nothing /\ reading[q].type = ty)
      /\ InitDone
      /\ UNCHANGED <<started, cb_function, cb_arg, arrived, input, loop, unprocessed_mess_list,
                     deaf, read, handled, ready, raced>>
  BY <1>1 DEF readMessage_enter, startup
<1>4. x \in [type : Types, filtered : BOOLEAN, message : DOMAIN arrived \cup {NotYet}]
      /\ x.type = ty /\ x.message = NotYet
  BY <1>2
<1> HIDE DEF x
<1>5. /\ reading' \in [Readers -> [type : Types, filtered : BOOLEAN,
                                   message : DOMAIN arrived \cup {NotYet}] \cup {Nothing}]
      /\ reading'[r] = x
      /\ \A s \in Readers : s # r => reading'[s] = reading[s]
  BY <1>2, <1>3, <1>4 DEF DispatchInv, TypeOK
<1>6. crowded' \in BOOLEAN /\ (crowded => crowded')
  BY <1>3
<1>7. Looks(r)
  BY <1>3, <1>5, <1>6 DEF Looks
<1> QED
  BY <1>2, <1>3, <1>4, <1>5, <1>6, <1>7, LooksInv

\* The reader copies what it finds in the list.
LEMMA readMessage_copy_Inv ==
    ASSUME DispatchInv, NEW r \in Readers, readMessage_copy(r)
    PROVE  DispatchInv'
<1>1. PICK ty : ty = reading[r].type
  OBVIOUS
<1>2. /\ reading[r] # Nothing
      /\ reading[r] \in [type : Types, filtered : BOOLEAN, message : DOMAIN arrived \cup {NotYet}]
  BY DEF readMessage_copy, Looking, DispatchInv, TypeOK
<1>3. ty \in Types
  BY <1>1, <1>2
<1>4. PICK i \in DOMAIN unprocessed_mess_list[ty] :
          reading' = [reading EXCEPT ![r].message = unprocessed_mess_list[ty][i]]
  BY <1>1 DEF readMessage_copy
<1> DEFINE n == unprocessed_mess_list[ty][i]
<1>5. n \in Listed(ty) /\ n \in DOMAIN arrived
  BY <1>3, Known DEF Listed, ToSet
<1>6. reading' = [reading EXCEPT ![r].message = n]
  BY <1>4
<1> HIDE DEF n
<1> DEFINE x == [reading[r] EXCEPT !.message = n]
<1>7. /\ x \in [type : Types, filtered : BOOLEAN, message : DOMAIN arrived \cup {NotYet}]
      /\ x.type = ty /\ x.message = n
  BY <1>1, <1>2, <1>5
<1>8. reading' = [reading EXCEPT ![r] = x]
  BY <1>6
<1> HIDE DEF x
<1>9. /\ reading' \in [Readers -> [type : Types, filtered : BOOLEAN,
                                   message : DOMAIN arrived \cup {NotYet}] \cup {Nothing}]
      /\ reading'[r] = x
      /\ \A s \in Readers : s # r => reading'[s] = reading[s]
  BY <1>7, <1>8 DEF DispatchInv, TypeOK
<1>10. InitDone
  BY <1>2 DEF DispatchInv, StartUp
<1>11. Looks(r) /\ crowded' = crowded
  BY <1>9, <1>10 DEF readMessage_copy, Looks, startup
<1>12. ~crowded => \A s \in Readers : reading[s] # Nothing /\ reading[s].type = ty => s = r
  BY <1>1, <1>2 DEF DispatchInv, ReadersApart
<1>13. crowded' \in BOOLEAN
  BY <1>11 DEF DispatchInv, TypeOK
<1> QED
  BY <1>5, <1>7, <1>9, <1>11, <1>12, <1>13, LooksInv

\* readMessage finds nothing and returns.
LEMMA readMessage_none_Inv ==
    ASSUME DispatchInv, NEW r \in Readers, readMessage_none(r)
    PROVE  DispatchInv'
<1>1. reading[r] # Nothing /\ reading' = [reading EXCEPT ![r] = Nothing]
  BY DEF readMessage_none, Looking
<1>2. /\ reading' \in [Readers -> [type : Types, filtered : BOOLEAN,
                                   message : DOMAIN arrived \cup {NotYet}] \cup {Nothing}]
      /\ reading'[r] = Nothing
      /\ \A s \in Readers : s # r => reading'[s] = reading[s]
  BY <1>1 DEF DispatchInv, TypeOK
<1>3. InitDone
  BY <1>1 DEF DispatchInv, StartUp
<1>4. Looks(r) /\ crowded' = crowded
  BY <1>2, <1>3 DEF readMessage_none, Looks, startup
<1>5. crowded' \in BOOLEAN
  BY <1>4 DEF DispatchInv, TypeOK
<1> QED
  BY <1>2, <1>4, <1>5, LooksInv

\* erase moves the message from the list to what was returned.
LEMMA readMessage_erase_Inv ==
    ASSUME DispatchInv, NEW r \in Readers, readMessage_erase(r)
    PROVE  DispatchInv'
<1>0. PICK ty, n : ty = reading[r].type /\ n = reading[r].message
  OBVIOUS
<1>1. /\ reading[r] # Nothing /\ n # NotYet
      /\ unprocessed_mess_list' = [unprocessed_mess_list EXCEPT ![ty] = RemoveFirst(@, n)]
      /\ deaf' \subseteq deaf
      /\ loop' \in {loop, "crashed"}
      /\ read' = Append(read, n)
      /\ reading' = [reading EXCEPT ![r] = Nothing]
      /\ UNCHANGED <<started, cb_function, cb_arg, arrived, input, handled, ready, raced, crowded>>
  BY <1>0 DEF readMessage_erase, Looking, startup
<1>2. ty \in Types /\ n \in DOMAIN arrived
  BY <1>0, <1>1 DEF DispatchInv, TypeOK
<1>3. ~crowded => n \in Listed(ty) /\ n <= Taken /\ arrived[n] = ty
  BY <1>0, <1>1, <1>2 DEF DispatchInv, CopiedIsListed, ListsInTurn
<1>4. DOMAIN arrived \subseteq Nat
  BY Known
<1>5. /\ RemoveFirst(unprocessed_mess_list[ty], n) \in Seq(DOMAIN arrived)
      /\ ToSet(RemoveFirst(unprocessed_mess_list[ty], n)) = Listed(ty) \ {n}
      /\ Increasing(RemoveFirst(unprocessed_mess_list[ty], n))
  <2>1. /\ unprocessed_mess_list[ty] \in Seq(DOMAIN arrived)
        /\ Increasing(unprocessed_mess_list[ty])
    BY <1>2, Known DEF DispatchInv, ListsInTurn
  <2> QED
    BY <1>4, <2>1, ErasedAtMost DEF Listed
<1>6. /\ DOMAIN unprocessed_mess_list = Types
      /\ unprocessed_mess_list'[ty] = RemoveFirst(unprocessed_mess_list[ty], n)
      /\ \A u \in Types : u # ty => unprocessed_mess_list'[u] = unprocessed_mess_list[u]
  BY <1>1, <1>2 DEF DispatchInv, TypeOK
<1> DEFINE New(u) == ToSet(unprocessed_mess_list'[u])
<1>7. /\ New(ty) = Listed(ty) \ {n}
      /\ \A u \in Types : u # ty => New(u) = Listed(u)
      /\ \A u : Listed(u)' = New(u)
  BY <1>5, <1>6 DEF Listed
<1> HIDE DEF New
<1>8. /\ read' \in Seq(DOMAIN arrived)
      /\ ToSet(read') = ToSet(read) \cup {n}
  BY <1>1, <1>2, PushedBack DEF DispatchInv, TypeOK
<1>9. ~crowded => n \notin ToSet(read)
  BY <1>2, <1>3 DEF DispatchInv, ReadLeftList
<1>10. ~crowded => IsInjective(read')
  BY <1>1, <1>2, <1>9, PushedOnce DEF DispatchInv, TypeOK, ReadLeftList
<1>11. Taken' = Taken /\ Handled' = Handled
  BY <1>1 DEF Taken, Handled
<1>12. TypeOK'
  <2>1. unprocessed_mess_list' \in [Types -> Seq(DOMAIN arrived)]
    BY <1>1, <1>2, <1>5 DEF DispatchInv, TypeOK
  <2>2. reading' \in [Readers -> [type : Types, filtered : BOOLEAN,
                                  message : DOMAIN arrived \cup {NotYet}] \cup {Nothing}]
    BY <1>1 DEF DispatchInv, TypeOK
  <2>3. loop' \in {"waiting", "callback", "crashed"} /\ deaf' \subseteq Types
    BY <1>1 DEF DispatchInv, TypeOK
  <2> QED
    BY <1>1, <1>8, <2>1, <2>2, <2>3 DEF DispatchInv, TypeOK
<1>13. BufferInTurn'
  BY <1>1, <1>11 DEF DispatchInv, BufferInTurn
<1>14. StartUp'
  <2>1. InitDone
    BY <1>1 DEF DispatchInv, StartUp
  <2> QED
    BY <1>1, <2>1 DEF DispatchInv, StartUp, InitDone
<1>15. ListsInTurn'
  <2> SUFFICES ASSUME NEW u \in Types
               PROVE  /\ Increasing(unprocessed_mess_list'[u])
                      /\ \A m \in New(u) : m <= Taken /\ arrived[m] = u
    BY <1>1, <1>7, <1>11 DEF ListsInTurn
  <2>1. CASE u = ty
    BY <1>5, <1>6, <1>7, <2>1 DEF DispatchInv, ListsInTurn
  <2>2. CASE u # ty
    BY <1>6, <1>7, <2>2 DEF DispatchInv, ListsInTurn
  <2> QED
    BY <2>1, <2>2
<1>16. ReadersApart' /\ CopiedIsListed'
  <2>0. reading'[r] = Nothing /\ \A s \in Readers : s # r => reading'[s] = reading[s]
    BY <1>1 DEF DispatchInv, TypeOK
  <2>1. ReadersApart'
    BY <1>1, <2>0 DEF DispatchInv, ReadersApart
  <2>2. ASSUME ~crowded, NEW s \in Readers, reading'[s] # Nothing, reading'[s].message # NotYet
        PROVE  reading'[s].message \in New(reading'[s].type)
    <3>1. s # r /\ reading'[s] = reading[s]
      BY <2>0, <2>2
    <3>2. reading[s].type \in Types /\ reading[s].type # ty
      BY <1>0, <1>1, <2>2, <3>1 DEF DispatchInv, TypeOK, ReadersApart
    <3> QED
      BY <1>7, <2>2, <3>1, <3>2 DEF DispatchInv, CopiedIsListed
  <2> QED
    BY <1>1, <1>7, <2>1, <2>2 DEF CopiedIsListed
<1>17. ReadLeftList'
  <2>1. ASSUME ~crowded, NEW m \in ToSet(read) \cup {n}
        PROVE  m <= Taken /\ arrived[m] \in Types /\ m \notin New(arrived[m])
    <3>1. CASE m = n
      BY <1>2, <1>3, <1>7, <2>1, <3>1
    <3>2. CASE m \in ToSet(read)
      BY <1>7, <2>1, <3>2 DEF DispatchInv, ReadLeftList
    <3> QED
      BY <2>1, <3>1, <3>2
  <2> QED
    BY <1>1, <1>7, <1>8, <1>10, <1>11, <2>1 DEF ReadLeftList
<1>18. HandledByCallback'
  BY <1>1, <1>11 DEF DispatchInv, HandledByCallback
<1>19. NoneMissing'
  <2>1. ASSUME NEW m \in ready, arrived[m] \in Types,
               m \in Listed(arrived[m]) \cup Handled \cup ToSet(read)
        PROVE  m \in New(arrived[m]) \cup Handled \cup ToSet(read')
    BY <1>7, <1>8, <2>1
  <2> QED
    BY <1>1, <1>7, <1>11, <2>1 DEF DispatchInv, NoneMissing
<1>20. CallbacksLater'
  <2> SUFFICES ASSUME ~crowded, NEW m \in Handled
               PROVE  /\ \A l \in New(arrived[m]) : l < m
                      /\ \A l \in ToSet(read') : arrived[l] = arrived[m] => l < m
    BY <1>1, <1>7, <1>11 DEF CallbacksLater
  <2>1. /\ arrived[m] \in Types
        /\ \A l \in Listed(arrived[m]) : l < m
        /\ \A l \in ToSet(read) : arrived[l] = arrived[m] => l < m
    BY DEF DispatchInv, HandledByCallback, CallbacksLater
  <2>2. arrived[n] = arrived[m] => n < m
    BY <1>2, <1>3, <2>1
  <2> QED
    BY <1>7, <1>8, <2>1, <2>2
<1> QED
  BY <1>12, <1>13, <1>14, <1>15, <1>16, <1>17, <1>18, <1>19, <1>20 DEF DispatchInv

\* A turn of the loop takes the next message, which is later than all others.
LEMMA TakesNext ==
    ASSUME DispatchInv, input # <<>>, input' = Tail(input), arrived' = arrived
    PROVE  /\ Head(input) = Taken + 1
           /\ Taken + 1 \in DOMAIN arrived
           /\ arrived[Taken + 1] \in Types \cup {Other}
           /\ input' \in Seq(DOMAIN arrived)
           /\ Taken' = Taken + 1
           /\ BufferInTurn'
<1>1. /\ Len(arrived) \in Nat /\ DOMAIN arrived = 1 .. Len(arrived)
      /\ Len(input) \in Nat /\ DOMAIN input = 1 .. Len(input)
      /\ Taken \in Nat /\ Taken = Len(arrived) - Len(input)
  BY Known
<1>2. input \in Seq(DOMAIN arrived) /\ arrived \in Seq(Types \cup {Other})
  BY DEF DispatchInv, TypeOK
<1>3. /\ Len(input) >= 1
      /\ input' \in Seq(DOMAIN arrived)
      /\ Len(input') = Len(input) - 1
      /\ Head(input) = input[1]
      /\ \A i \in 1 .. Len(input) - 1 : input'[i] = input[i + 1]
  BY <1>1, <1>2
<1>4. DOMAIN input' = 1 .. Len(input) - 1
  BY <1>3
<1>5. Head(input) = Taken + 1 /\ Taken + 1 \in DOMAIN arrived
  <2>1. 1 \in DOMAIN input
    BY <1>1, <1>3
  <2>2. input[1] = Taken + 1
    BY <2>1 DEF DispatchInv, BufferInTurn
  <2> QED
    BY <1>1, <1>3, <2>2
<1>6. Taken' = Taken + 1
  BY <1>1, <1>3 DEF Taken
<1>7. BufferInTurn'
  <2>1. ASSUME NEW i \in DOMAIN input' PROVE input'[i] = (Taken + 1) + i
    <3>1. i \in 1 .. Len(input) - 1 /\ i + 1 \in DOMAIN input
      BY <1>1, <1>3, <1>4
    <3>2. input[i + 1] = Taken + (i + 1)
      BY <3>1 DEF DispatchInv, BufferInTurn
    <3> QED
      BY <1>1, <1>3, <3>1, <3>2
  <2> QED
    BY <1>1, <1>6, <2>1 DEF BufferInTurn
<1> QED
  BY <1>2, <1>3, <1>5, <1>6, <1>7

\* What try_run_callback takes, and what it leaves alone in every case.
Takes(n) ==
    /\ n = Taken + 1
    /\ input # <<>>
    /\ input' = Tail(input)
    /\ ready' = IF InitDone THEN ready \cup {n} ELSE ready
    /\ loop' \in {"waiting", "callback", "crashed"}
    /\ UNCHANGED <<started, cb_function, cb_arg, arrived, reading, read, crowded>>

\* The message is dropped: it is of no known type, its append is lost, or the
\* process has crashed.
LEMMA DroppedInv ==
    ASSUME DispatchInv, NEW n, Takes(n), UNCHANGED <<unprocessed_mess_list, handled>>,
           deaf' \subseteq Types,
           \/ raced' = TRUE
           \/ /\ UNCHANGED <<deaf, raced>>
              /\ InitDone => arrived[n] \notin Types
    PROVE  DispatchInv'
<1>1. /\ n \in DOMAIN arrived /\ input' \in Seq(DOMAIN arrived)
      /\ Taken' = Taken + 1 /\ Taken \in Nat /\ BufferInTurn'
  BY TakesNext, Known DEF Takes
<1>2. Handled' = Handled /\ \A u : Listed(u)' = Listed(u)
  BY DEF Handled, Listed
<1>3. TypeOK'
  <2>1. raced' \in BOOLEAN
    BY Zenon DEF DispatchInv, TypeOK
  <2>2. ready' \subseteq DOMAIN arrived
    BY <1>1 DEF DispatchInv, TypeOK, Takes
  <2> QED
    BY <1>1, <2>1, <2>2 DEF DispatchInv, TypeOK, Takes
<1>4. StartUp'
  BY DEF DispatchInv, StartUp, InitDone, Takes
<1>5. /\ \A m \in DOMAIN arrived : m <= Taken => m <= Taken'
      /\ n <= Taken'
      /\ \A u \in Types : Listed(u) \subseteq DOMAIN arrived
      /\ ToSet(read) \subseteq DOMAIN arrived
      /\ Handled \subseteq DOMAIN arrived
      /\ ready \subseteq DOMAIN arrived
  BY <1>1, Known DEF Takes
<1>6. ListsInTurn'
  BY <1>2, <1>5 DEF DispatchInv, ListsInTurn, Takes
<1>7. ReadersApart' /\ CopiedIsListed'
  BY <1>2 DEF DispatchInv, ReadersApart, CopiedIsListed, Takes
<1>8. ReadLeftList'
  BY <1>2, <1>5 DEF DispatchInv, ReadLeftList, Takes
<1>9. HandledByCallback'
  BY <1>2, <1>5 DEF DispatchInv, HandledByCallback, Takes
<1>10. CallbacksLater'
  BY <1>2 DEF DispatchInv, CallbacksLater, Takes
<1>11. NoneMissing'
  BY <1>1, <1>2, <1>5 DEF DispatchInv, NoneMissing, Takes
<1> QED
  BY <1>1, <1>3, <1>4, <1>6, <1>7, <1>8, <1>9, <1>10, <1>11 DEF DispatchInv

\* The message is appended to the list of its type, which has no callback.
LEMMA ListedInv ==
    ASSUME DispatchInv, NEW n, NEW ty \in Types, Takes(n), arrived[n] = ty,
           cb_function[ty] # "set",
           unprocessed_mess_list' = [unprocessed_mess_list EXCEPT ![ty] = Append(@, n)],
           UNCHANGED <<handled, deaf, raced>>
    PROVE  DispatchInv'
<1>1. /\ n \in DOMAIN arrived /\ input' \in Seq(DOMAIN arrived)
      /\ Taken' = Taken + 1 /\ Taken \in Nat /\ BufferInTurn'
  BY TakesNext, Known DEF Takes
<1>2. /\ \A m \in DOMAIN arrived : m <= Taken => m < n /\ m <= Taken'
      /\ n <= Taken'
      /\ DOMAIN arrived \subseteq Nat
      /\ \A u \in Types : /\ unprocessed_mess_list[u] \in Seq(DOMAIN arrived)
                          /\ Listed(u) \subseteq DOMAIN arrived
      /\ ToSet(read) \subseteq DOMAIN arrived
      /\ Handled \subseteq DOMAIN arrived
      /\ ready \subseteq DOMAIN arrived
  <2>1. DOMAIN arrived = 1 .. Len(arrived) /\ Len(arrived) \in Nat
    BY Known
  <2>2. n = Taken + 1
    BY DEF Takes
  <2>3. \A m \in DOMAIN arrived : m <= Taken => m < n /\ m <= Taken'
    BY <1>1, <2>1, <2>2
  <2>4. n <= Taken' /\ DOMAIN arrived \subseteq Nat
    BY <1>1, <2>1, <2>2
  <2> QED
    BY <2>3, <2>4, Known
<1>3. \A m \in Listed(ty) : m < n
  BY <1>2 DEF DispatchInv, ListsInTurn
<1>4. /\ Append(unprocessed_mess_list[ty], n) \in Seq(DOMAIN arrived)
      /\ ToSet(Append(unprocessed_mess_list[ty], n)) = Listed(ty) \cup {n}
      /\ Increasing(Append(unprocessed_mess_list[ty], n))
  <2>1. PICK q \in Seq(DOMAIN arrived) : q = unprocessed_mess_list[ty]
    BY <1>2
  <2>2. Increasing(q) /\ ToSet(q) = Listed(ty) /\ \A m \in ToSet(q) : m < n
    BY <1>3, <2>1 DEF DispatchInv, ListsInTurn, Listed
  <2>3. Append(q, n) \in Seq(DOMAIN arrived) /\ ToSet(Append(q, n)) = ToSet(q) \cup {n}
    BY <1>1, PushedBack
  <2>4. Increasing(Append(q, n))
    BY <1>1, <1>2, <2>2, PushedInOrder
  <2> QED
    BY <2>1, <2>2, <2>3, <2>4
<1>5. /\ unprocessed_mess_list'[ty] = Append(unprocessed_mess_list[ty], n)
      /\ \A u \in Types : u # ty => unprocessed_mess_list'[u] = unprocessed_mess_list[u]
  BY DEF DispatchInv, TypeOK
<1> DEFINE New(u) == ToSet(unprocessed_mess_list'[u])
<1>6. /\ New(ty) = Listed(ty) \cup {n}
      /\ \A u \in Types : u # ty => New(u) = Listed(u)
      /\ \A u : Listed(u)' = New(u)
  BY <1>4, <1>5 DEF Listed
<1> HIDE DEF New
<1>7. Handled' = Handled
  BY DEF Handled
<1>8. TypeOK'
  <2>1. unprocessed_mess_list' \in [Types -> Seq(DOMAIN arrived)]
    BY <1>4 DEF DispatchInv, TypeOK
  <2>2. ready' \subseteq DOMAIN arrived
    BY <1>1, <1>2 DEF Takes
  <2> QED
    BY <1>1, <2>1, <2>2 DEF DispatchInv, TypeOK, Takes
<1>9. StartUp'
  BY DEF DispatchInv, StartUp, InitDone, Takes
<1>10. ListsInTurn'
  <2> SUFFICES ASSUME NEW u \in Types
               PROVE  /\ Increasing(unprocessed_mess_list'[u])
                      /\ \A m \in New(u) : m <= Taken' /\ arrived[m] = u
    BY <1>6 DEF ListsInTurn, Takes
  <2>1. CASE u = ty
    BY <1>2, <1>4, <1>5, <1>6, <2>1 DEF DispatchInv, ListsInTurn
  <2>2. CASE u # ty
    BY <1>2, <1>5, <1>6, <2>2 DEF DispatchInv, ListsInTurn
  <2> QED
    BY <2>1, <2>2
<1>11. ReadersApart' /\ CopiedIsListed'
  <2>1. \A r \in Readers : reading[r] # Nothing => reading[r].type \in Types
    BY DEF DispatchInv, TypeOK
  <2>2. \A u \in Types : Listed(u) \subseteq New(u)
    BY <1>6
  <2>3. ReadersApart'
    BY DEF DispatchInv, ReadersApart, Takes
  <2> QED
    BY <1>6, <2>1, <2>2, <2>3 DEF DispatchInv, CopiedIsListed, Takes
<1>12. ReadLeftList'
  <2>1. ASSUME ~crowded, NEW m \in ToSet(read)
        PROVE  m <= Taken' /\ arrived[m] \in Types /\ m \notin New(arrived[m])
    <3>1. m <= Taken /\ arrived[m] \in Types /\ m \notin Listed(arrived[m])
      BY <2>1 DEF DispatchInv, ReadLeftList
    <3>2. m <= Taken' /\ m # n
      BY <1>2, <3>1
    <3> QED
      BY <1>6, <3>1, <3>2
  <2> QED
    BY <1>6, <2>1 DEF DispatchInv, ReadLeftList, Takes
<1>13. HandledByCallback'
  BY <1>2, <1>7 DEF DispatchInv, HandledByCallback, Takes
<1>14. CallbacksLater'
  <2> SUFFICES ASSUME ~crowded, NEW m \in Handled
               PROVE  /\ \A l \in New(arrived[m]) : l < m
                      /\ \A l \in ToSet(read) : arrived[l] = arrived[m] => l < m
    BY <1>6, <1>7 DEF CallbacksLater, Takes
  <2>1. arrived[m] \in Types /\ arrived[m] # ty
    BY DEF DispatchInv, HandledByCallback
  <2> QED
    BY <1>6, <2>1 DEF DispatchInv, CallbacksLater
<1>15. NoneMissing'
  <2>1. \A u \in Types : Listed(u) \subseteq New(u)
    BY <1>6
  <2>2. n \in New(arrived[n])
    BY <1>6
  <2>3. \A m \in ready' : m \in ready \/ m = n
    BY DEF Takes
  <2>4. \A m \in ready' : m <= Taken'
    BY <1>2, <2>3 DEF DispatchInv, NoneMissing
  <2>5. ASSUME ~raced, NEW m \in ready', arrived[m] \in Types
        PROVE  m \in New(arrived[m]) \cup Handled \cup ToSet(read)
    BY <2>1, <2>2, <2>3, <2>5 DEF DispatchInv, NoneMissing
  <2> QED
    BY <1>6, <1>7, <2>4, <2>5 DEF DispatchInv, NoneMissing, Takes
<1> QED
  BY <1>1, <1>8, <1>9, <1>10, <1>11, <1>12, <1>13, <1>14, <1>15 DEF DispatchInv

\* The message is given to the callback of its type.
LEMMA HandledInv ==
    ASSUME DispatchInv, NEW n, NEW ty \in Types, Takes(n), arrived[n] = ty,
           cb_function[ty] = "set",
           handled' = Append(handled, [message |-> n, arg |-> cb_arg[ty]]),
           UNCHANGED <<unprocessed_mess_list, deaf, raced>>
    PROVE  DispatchInv'
<1>1. /\ n \in DOMAIN arrived /\ input' \in Seq(DOMAIN arrived)
      /\ Taken' = Taken + 1 /\ Taken \in Nat /\ BufferInTurn'
  BY TakesNext, Known DEF Takes
<1>2. /\ \A m \in DOMAIN arrived : m <= Taken => m < n /\ m <= Taken'
      /\ n <= Taken'
      /\ DOMAIN arrived \subseteq Nat
      /\ \A u \in Types : Listed(u) \subseteq DOMAIN arrived
      /\ ToSet(read) \subseteq DOMAIN arrived
      /\ Handled \subseteq DOMAIN arrived
      /\ ready \subseteq DOMAIN arrived
  BY <1>1, Known, SMTT(40) DEF Takes
<1> DEFINE S == [message : DOMAIN arrived, arg : {"NULL", "set"}]
           e == [message |-> n, arg |-> cb_arg[ty]]
<1>3. handled \in Seq(S) /\ e \in S /\ e.message = n
  BY <1>1 DEF DispatchInv, TypeOK
<1> HIDE DEF S
<1>4. handled' = Append(handled, e)
  OBVIOUS
<1> HIDE DEF e
<1>5. /\ handled' \in Seq(S)
      /\ Len(handled) \in Nat
      /\ DOMAIN handled = 1 .. Len(handled)
      /\ DOMAIN handled' = 1 .. Len(handled) + 1
      /\ handled'[Len(handled) + 1] = e
      /\ \A i \in 1 .. Len(handled) : handled'[i] = handled[i]
  BY <1>3, <1>4
<1>6. Handled' = Handled \cup {n}
  <2>1. Handled' = {handled'[i].message : i \in DOMAIN handled'}
    BY DEF Handled
  <2>2. ASSUME NEW i \in DOMAIN handled' PROVE handled'[i].message \in Handled \cup {n}
    BY <1>3, <1>5 DEF Handled
  <2>3. ASSUME NEW i \in DOMAIN handled
        PROVE  \E j \in DOMAIN handled' : handled'[j].message = handled[i].message
    BY <1>5
  <2>4. \E j \in DOMAIN handled' : handled'[j].message = n
    <3>1. Len(handled) + 1 \in DOMAIN handled'
      BY <1>5
    <3> QED
      BY <1>3, <1>5, <3>1
  <2>5. Handled' \subseteq Handled \cup {n}
    BY <2>1, <2>2
  <2>6. Handled \subseteq Handled'
    BY <2>1, <2>3 DEF Handled
  <2>7. n \in Handled'
    BY <2>1, <2>4
  <2> QED
    BY <2>5, <2>6, <2>7
<1>7. \A m \in Handled : m < n
  BY <1>2 DEF DispatchInv, HandledByCallback
<1>8. \A u : Listed(u)' = Listed(u)
  BY DEF Listed
<1>9. TypeOK'
  <2>1. ready' \subseteq DOMAIN arrived
    BY <1>1, <1>2 DEF Takes
  <2>2. handled' \in Seq([message : DOMAIN arrived, arg : {"NULL", "set"}])
    BY <1>5 DEF S
  <2> QED
    BY <1>1, <2>1, <2>2 DEF DispatchInv, TypeOK, Takes
<1>10. StartUp'
  <2>1. InitDone
    BY DEF DispatchInv, StartUp
  <2> QED
    BY <2>1 DEF DispatchInv, StartUp, InitDone, Takes
<1>11. ListsInTurn'
  BY <1>2, <1>8 DEF DispatchInv, ListsInTurn, Takes
<1>12. ReadersApart' /\ CopiedIsListed'
  BY <1>8 DEF DispatchInv, ReadersApart, CopiedIsListed, Takes
<1>13. ReadLeftList'
  BY <1>2, <1>8 DEF DispatchInv, ReadLeftList, Takes
<1>14. HandledByCallback'
  <2>1. ASSUME NEW i \in DOMAIN handled', NEW j \in DOMAIN handled',
               handled'[i].message = handled'[j].message
        PROVE  i = j
    <3>1. ASSUME NEW k \in 1 .. Len(handled)
          PROVE  handled'[k] = handled[k] /\ handled[k].message # n
      <4>1. handled[k].message \in Handled
        BY <1>5 DEF Handled
      <4>2. handled[k].message < n /\ handled[k].message \in Nat /\ n \in Nat
        BY <1>1, <1>2, <1>7, <4>1
      <4> QED
        BY <1>5, <4>2
    <3>2. CASE i = Len(handled) + 1 \/ j = Len(handled) + 1
      BY <1>3, <1>5, <2>1, <3>1, <3>2
    <3>3. CASE i \in 1 .. Len(handled) /\ j \in 1 .. Len(handled)
      BY <1>5, <2>1, <3>3 DEF DispatchInv, HandledByCallback
    <3> QED
      BY <1>5, <3>2, <3>3
  <2>2. \A m \in Handled \cup {n} :
            m <= Taken' /\ arrived[m] \in Types /\ cb_function[arrived[m]] = "set"
    BY <1>2 DEF DispatchInv, HandledByCallback
  <2> QED
    BY <1>6, <2>1, <2>2 DEF HandledByCallback, Takes
<1>15. CallbacksLater'
  <2>1. ASSUME ~crowded, NEW m \in Handled \cup {n}
        PROVE  /\ \A l \in Listed(arrived[m]) : l < m
               /\ \A l \in ToSet(read) : arrived[l] = arrived[m] => l < m
    <3>1. CASE m \in Handled
      BY <2>1, <3>1 DEF DispatchInv, CallbacksLater
    <3>2. CASE m = n
      BY <1>2, <2>1, <3>2 DEF DispatchInv, ListsInTurn, ReadLeftList
    <3> QED
      BY <2>1, <3>1, <3>2
  <2> QED
    BY <1>6, <1>8, <2>1 DEF CallbacksLater, Takes
<1>16. NoneMissing'
  BY <1>2, <1>6, <1>8 DEF DispatchInv, NoneMissing, Takes
<1> QED
  BY <1>1, <1>9, <1>10, <1>11, <1>12, <1>13, <1>14, <1>15, <1>16 DEF DispatchInv

LEMMA read_callback_Inv ==
    ASSUME DispatchInv, read_callback_message_from_libevent PROVE DispatchInv'
<1>1. CASE /\ input = <<>> /\ loop' = "waiting"
           /\ UNCHANGED <<input, unprocessed_mess_list, deaf, raced, handled, ready, startup,
                          arrived, app>>
  <2>1. TypeOK' /\ StartUp'
    BY <1>1 DEF DispatchInv, TypeOK, StartUp, InitDone, startup, app
  <2> QED
    BY <1>1, <2>1, SameMessages DEF DispatchInv, startup
<1>2. CASE input # <<>>
  <2>1. PICK n : n = Head(input)
    OBVIOUS
  <2>2. PICK ty : ty = arrived[n]
    OBVIOUS
  <2>3. /\ input' = Tail(input)
        /\ ready' = IF InitDone THEN ready \cup {n} ELSE ready
        /\ \/ Entered(ty) /\ try_run_callback(ty, n)
           \/ /\ ~Entered(ty) /\ loop' = "waiting"
              /\ UNCHANGED <<unprocessed_mess_list, deaf, raced, handled>>
        /\ UNCHANGED <<started, cb_function, cb_arg, arrived, reading, read, crowded>>
    BY <1>2, <2>1, <2>2 DEF read_callback_message_from_libevent, startup, app
  <2>4. Takes(n) /\ ty \in Types \cup {Other}
    <3>1. loop' \in {"waiting", "callback", "crashed"}
      BY <2>3 DEF try_run_callback
    <3> QED
      BY <1>2, <2>1, <2>2, <2>3, <3>1, TakesNext DEF Takes
  <2>5. deaf \subseteq Types
    BY DEF DispatchInv, TypeOK
  <2>6. CASE ~Entered(ty) /\ UNCHANGED <<unprocessed_mess_list, deaf, raced, handled>>
    <3>1. InitDone => arrived[n] \notin Types
      BY <2>2, <2>6, AfterStartUp
    <3> QED
      BY <2>4, <2>5, <2>6, <3>1, DroppedInv
  <2>7. CASE Entered(ty) /\ try_run_callback(ty, n)
    <3>1. ty \in Types
      BY <2>7 DEF Entered
    <3>2. CASE /\ cb_function[ty] = "set"
               /\ handled' = Append(handled, [message |-> n, arg |-> cb_arg[ty]])
               /\ UNCHANGED <<unprocessed_mess_list, deaf, raced>>
      BY <2>2, <2>4, <3>1, <3>2, HandledInv
    <3>3. CASE /\ cb_function[ty] # "set"
               /\ unprocessed_mess_list' = [unprocessed_mess_list EXCEPT ![ty] = Append(@, n)]
               /\ UNCHANGED <<handled, deaf, raced>>
      BY <2>2, <2>4, <3>1, <3>3, ListedInv
    <3>4. CASE /\ raced' = TRUE /\ deaf' \in {deaf, deaf \cup {ty}}
               /\ UNCHANGED <<unprocessed_mess_list, handled>>
      <4>1. deaf' \subseteq Types
        BY <2>5, <3>1, <3>4
      <4> QED
        BY <2>4, <3>4, <4>1, DroppedInv
    <3>5. CASE /\ cb_function[ty] = "garbage"
               /\ UNCHANGED <<unprocessed_mess_list, deaf, raced, handled>>
      <4>1. ~InitDone
        BY <3>1, <3>5, AfterStartUp
      <4> QED
        BY <2>4, <2>5, <3>5, <4>1, DroppedInv
    <3> QED
      BY <2>7, <3>2, <3>3, <3>4, <3>5 DEF try_run_callback, push_back
  <2> QED
    BY <2>3, <2>6, <2>7
<1> QED
  BY <1>1, <1>2 DEF read_callback_message_from_libevent

LEMMA StutterInv == ASSUME DispatchInv, UNCHANGED vars PROVE DispatchInv'
<1>1. TypeOK' /\ StartUp'
  BY DEF vars, DispatchInv, TypeOK, StartUp, InitDone, startup, app
<1> QED
  BY <1>1, SameMessages DEF DispatchInv, vars, startup

\* Nothing has arrived.
LEMMA InitInv == Init => DispatchInv
<1> SUFFICES ASSUME Init PROVE DispatchInv
  OBVIOUS
<1>1. /\ \A ty \in Types : unprocessed_mess_list[ty] = <<>> /\ Listed(ty) = {}
      /\ Handled = {} /\ ToSet(read) = {} /\ Taken = 0
  BY DEF Init, Listed, Handled, ToSet, Taken
<1>2. TypeOK
  <2>1. started \in 0 .. InitSteps
    BY Configured DEF Init
  <2>2. arrived \in Seq(Types \cup {Other}) /\ Len(arrived) <= MaxMessages
    BY DEF Init
  <2>3. input \in Seq(DOMAIN arrived) /\ read \in Seq(DOMAIN arrived)
    BY DEF Init
  <2>4. handled \in Seq([message : DOMAIN arrived, arg : {"NULL", "set"}])
    BY DEF Init
  <2>5. unprocessed_mess_list \in [Types -> Seq(DOMAIN arrived)]
    BY DEF Init
  <2> QED
    BY <2>1, <2>2, <2>3, <2>4, <2>5 DEF Init, TypeOK
<1>3. BufferInTurn /\ StartUp
  <2>1. \A k \in DOMAIN TypeOrder : ~(started >= 3 + 2 * k)
    BY Configured DEF Init
  <2> QED
    BY <1>1, <2>1 DEF Init, BufferInTurn, StartUp
<1>4. ListsInTurn
  BY <1>1 DEF ListsInTurn, Increasing
<1>5. ReadersApart /\ CopiedIsListed /\ CallbacksLater
  BY <1>1 DEF Init, ReadersApart, CopiedIsListed, CallbacksLater
<1>6. ReadLeftList
  BY <1>1 DEF Init, ReadLeftList, IsInjective
<1>7. HandledByCallback /\ NoneMissing
  BY <1>1 DEF Init, HandledByCallback, NoneMissing
<1> QED
  BY <1>2, <1>3, <1>4, <1>5, <1>6, <1>7 DEF DispatchInv

----------------------------------------------------------------------------
(***************************************************************************)
(* Theorems.                                                               *)
(***************************************************************************)

\* Buffer, lists, callbacks and readers of a group agree on where each message
\* is, in every reachable state.
THEOREM Invariance == Spec => []DispatchInv
<1>1. DispatchInv /\ [Next]_vars => DispatchInv'
  <2> SUFFICES ASSUME DispatchInv, [Next]_vars PROVE DispatchInv'
    OBVIOUS
  <2>1. CASE init_handle
    BY <2>1, init_handle_Inv
  <2>2. CASE init_group_infor_map
    BY <2>2, init_group_infor_map_Inv
  <2>3. CASE \E ty \in Types : register_cb_function(ty) \/ register_cb_arg(ty)
    BY <2>3, register_Inv
  <2>4. CASE \E ty \in Types \cup {Other} : default_bufferevent_read_cb(ty)
    BY <2>4, default_bufferevent_read_cb_Inv
  <2>5. CASE read_callback_message_from_libevent
    BY <2>5, read_callback_Inv
  <2>6. CASE \/ \E c \in Calls : readMessage_enter(c.reader, c.type, c.filtered)
             \/ \E r \in Readers : readMessage_copy(r) \/ readMessage_none(r)
    BY <2>6, readMessage_enter_Inv, readMessage_copy_Inv, readMessage_none_Inv
  <2>7. CASE \E r \in Readers : readMessage_erase(r)
    BY <2>7, readMessage_erase_Inv
  <2>8. CASE UNCHANGED vars
    BY <2>8, StutterInv
  <2> QED
    BY <2>1, <2>2, <2>3, <2>4, <2>5, <2>6, <2>7, <2>8 DEF Next
<1> QED
  BY <1>1, InitInv, PTL DEF Spec

\* The start-up, the lists and the buffer keep their types, whatever the event
\* loop meets.
THEOREM TypeCorrect == Spec => []TypeOK
<1>1. DispatchInv => TypeOK
  BY DEF DispatchInv
<1> QED
  BY <1>1, Invariance, PTL

\* A message that the event loop takes after init_handle has returned is in its
\* list, or was given to one callback, or to one reader: never to two, never
\* twice, and to none only after an append was lost to an erase, as long as no two
\* threads have been in readMessage of one list.
THEOREM OnceEach == Spec => []EachMessageOnce
<1>1. DispatchInv => EachMessageOnce
  <2> SUFFICES ASSUME DispatchInv, ~crowded PROVE EachMessageOnce
    BY DEF EachMessageOnce
  <2>1. /\ IsInjective(read)
        /\ \A i, j \in DOMAIN handled : handled[i].message = handled[j].message => i = j
    BY DEF DispatchInv, ReadLeftList, HandledByCallback
  <2>2. ASSUME NEW n \in ready, arrived[n] \in Types
        PROVE  \/ n \in Listed(arrived[n]) /\ n \notin Handled /\ n \notin ToSet(read)
               \/ n \notin Listed(arrived[n]) /\ n \in Handled /\ n \notin ToSet(read)
               \/ n \notin Listed(arrived[n]) /\ n \notin Handled /\ n \in ToSet(read)
               \/ /\ raced
                  /\ n \notin Listed(arrived[n]) /\ n \notin Handled /\ n \notin ToSet(read)
    <3>1. n \in Nat /\ ~(n < n)
      BY Known
    <3>2. ~raced => n \in Listed(arrived[n]) \cup Handled \cup ToSet(read)
      BY <2>2 DEF DispatchInv, NoneMissing
    <3>3. n \in Handled => n \notin Listed(arrived[n]) /\ n \notin ToSet(read)
      BY <3>1 DEF DispatchInv, CallbacksLater
    <3>4. n \in ToSet(read) => n \notin Listed(arrived[n])
      BY DEF DispatchInv, ReadLeftList
    <3> QED
      BY <3>2, <3>3, <3>4
  <2> QED
    BY <2>1, <2>2 DEF EachMessageOnce
<1> QED
  BY <1>1, Invariance, PTL

\* However late a callback is registered, it only gets messages that came after
\* all that are in the list of its type or were read from it, as long as no two
\* threads have been in readMessage of one list.
THEOREM InOrderOfArrival == Spec => []ListsBeforeCallbacks
<1>1. DispatchInv => ListsBeforeCallbacks
  <2> SUFFICES ASSUME DispatchInv, ~crowded, NEW ty \in Types
               PROVE  /\ \A i, j \in DOMAIN unprocessed_mess_list[ty] :
                             i < j => unprocessed_mess_list[ty][i] < unprocessed_mess_list[ty][j]
                      /\ \A n \in Listed(ty) \cup {m \in ToSet(read) : arrived[m] = ty} :
                             \A m \in Handled : arrived[m] = ty => n < m
    BY DEF ListsBeforeCallbacks
  <2>1. Increasing(unprocessed_mess_list[ty])
    BY DEF DispatchInv, ListsInTurn
  <2> QED
    BY <2>1 DEF Increasing, DispatchInv, CallbacksLater
<1> QED
  BY <1>1, Invariance, PTL

\* A wild or NULL pointer is followed, if at all, before init_handle has returned
\* or between the two stores of a registration, for a message of its type; a list
\* node is freed twice only if two threads have been in readMessage of the list.
THEOREM SafeOutsideWindows == Spec => CrashOnlyInWindows
<1> DEFINE Safe == loop # "crashed" /\ loop' = "crashed" =>
                       \/ ~InitDone
                       \/ input # <<>> /\ HalfRegistered(arrived[Head(input)])
                       \/ crowded
<1>1. DispatchInv /\ [Next]_vars => Safe
  <2> SUFFICES ASSUME DispatchInv, [Next]_vars, loop # "crashed", loop' = "crashed", InitDone,
                      ~(input # <<>> /\ HalfRegistered(arrived[Head(input)])), ~crowded
               PROVE  FALSE
    OBVIOUS
  <2>1. ASSUME NEW ty, default_bufferevent_read_cb(ty) PROVE FALSE
    BY <2>1, Configured DEF default_bufferevent_read_cb, CallbackSet, ArgSet, InitDone
  <2>2. ASSUME read_callback_message_from_libevent PROVE FALSE
    <3>1. input # <<>>
      BY <2>2 DEF read_callback_message_from_libevent
    <3>2. PICK ty, n : Entered(ty) /\ try_run_callback(ty, n) /\ ~HalfRegistered(ty)
      BY <2>2, <3>1 DEF read_callback_message_from_libevent
    <3>3. cb_function[ty] # "garbage"
      BY <3>2, AfterStartUp
    <3> QED
      BY <3>2, <3>3 DEF try_run_callback
  <2>3. ASSUME NEW r \in Readers, readMessage_erase(r) PROVE FALSE
    <3>1. /\ reading[r] # Nothing /\ reading[r].message # NotYet
          /\ loop' \in {loop, IF reading[r].message \in Listed(reading[r].type) THEN loop
                              ELSE "crashed"}
      BY <2>3 DEF readMessage_erase, Looking, Listed
    <3> QED
      BY <3>1 DEF DispatchInv, CopiedIsListed
  <2>4. loop' # loop
    OBVIOUS
  <2> QED
    BY <2>1, <2>2, <2>3, <2>4 DEF Next, vars, startup, init_handle, init_group_infor_map,
       register_cb_function, register_cb_arg, readMessage_enter, readMessage_copy,
       readMessage_none
<1> QED
  BY <1>1, Invariance, PTL DEF Spec, CrashOnlyInWindows

=============================================================================
