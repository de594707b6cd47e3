---------------------------- MODULE FrameProofs ----------------------------
(***************************************************************************)
(* A connection delivers the frames that were sent, for all messages,      *)
(* header sizes, ways in which the bytes arrive and threads on either      *)
(* side, until the frames get garbled.                                     *)
(*                                                                         *)
(* The argument never counts bytes from the beginning of the connection.   *)
(* It says of each byte under way which bytes follow it (Chain), which one *)
(* is the first (Front), and how far the last frame has been written.      *)
(***************************************************************************)
EXTENDS FrameStream, FiniteSetTheorems, TLAPS

Pairs == Nat \X Nat

\* The bytes of frame i, when s is what was sent.
FullOf(s, i) == HeaderSize + s[i].size

DataOf(s, i) == [k \in 1 .. s[i].size |-> <<i, HeaderSize + k>>]

\* What follows byte k of frame i, which is at position j of b, when s was sent
\* and the last frame has been written up to its byte last.
Follows(b, s, last, j, i, k) ==
    /\ i = Len(s) => Len(b) - j = last - k
    /\ i < Len(s) => /\ j + FullOf(s, i) - k + 1 <= Len(b)
                     /\ b[j + FullOf(s, i) - k + 1] = <<i + 1, 1>>
    /\ \A l \in j .. Len(b) : k + l - j <= FullOf(s, i) => b[l] = <<i, k + l - j>>

Chain(b, s, last) ==
    \A j \in 1 .. Len(b) :
        \E i \in 1 .. Len(s) : \E k \in 1 .. FullOf(s, i) :
            b[j] = <<i, k>> /\ Follows(b, s, last, j, i, k)

\* The first byte of b is the first one of frame n, or the first one behind its
\* header when that was taken.
Front(b, s, last, n, taken) ==
    /\ b # <<>> => b[1] = <<n, IF taken THEN HeaderSize + 1 ELSE 1>>
    /\ b = <<>> => IF taken THEN n = Len(s) /\ last = HeaderSize
                   ELSE n = Len(s) + 1 /\ last # HeaderSize

\* How far a last frame can have been written: the header, or all of it.
Ends(s, last) ==
    \/ s = <<>> /\ last = 0
    \/ s # <<>> /\ (last = HeaderSize \/ last = FullOf(s, Len(s)))

Bytes == input \o stream

Writing == \E s \in Senders : writing[s] # Idle

Last == IF Writing THEN HeaderSize
        ELSE IF sent = <<>> THEN 0 ELSE FullOf(sent, Len(sent))

\* The frame that is read next, and whether its header has been.
Current == Len(delivered) + 1

HeadTaken == IF callback_set THEN cache_block
             ELSE \E w \in Waiters : at[w] \in {"size", "data"}

StreamTypes ==
    /\ input \in Seq(Pairs) /\ stream \in Seq(Pairs)
    /\ sent \in Seq(Messages)
    /\ delivered \in Seq(Seq(Pairs))
    /\ low \in Nat /\ block \in Nat /\ read_signal \in Int
    /\ callback_set \in BOOLEAN /\ cache_block \in BOOLEAN
    /\ loop \in {"waiting", "callback"}
    /\ at \in [Waiters -> {"idle", "block", "size", "data", "done"}]
    /\ max_size \in [Waiters -> Nat]
    /\ writing \in [Senders -> Nat \cup {Idle}]

\* Who is in writeBufferOnce has the last frame's data still to write.
WritesLast == \A s \in Senders : writing[s] # Idle => writing[s] = Len(sent) /\ sent # <<>>

\* The size of the frame whose header was taken is kept: by the connection, or
\* by the thread that waits for the data.
SizeKept ==
    /\ HeadTaken => block = sent[Current].size
    /\ \A w \in Waiters : /\ at[w] = "size" => cache_block
                          /\ at[w] = "data" => max_size[w] = block

\* With a callback nobody waits and the watermark is that of the cached block;
\* without one the event loop only moves bytes.
ModesApart ==
    /\ callback_set => /\ low = IF cache_block THEN block ELSE 0
                       /\ \A w \in Waiters : at[w] = "idle"
    /\ ~callback_set => loop = "waiting"

\* Until something garbles the frames, one thread at most is in writeBufferOnce,
\* and one in recive_str_Wait.
Ungarbled ==
    /\ garbled = FALSE
    /\ \A s, u \in Senders : writing[s] # Idle /\ writing[u] # Idle => s = u
    /\ \A v, w \in Waiters : at[v] # "idle" /\ at[w] # "idle" => v = w

\* The properties, of frames that are not garbled.
DeliveredInOrder ==
    \A i \in DOMAIN delivered : i \in DOMAIN sent /\ delivered[i] = Data(i)

SignalCounts == read_signal = - Cardinality(Locking)

NoneHidden == callback_set /\ loop = "waiting" /\ AllKnown => ~FrameReady

StreamInv ==
    /\ Ungarbled
    /\ StreamTypes
    /\ WritesLast
    /\ Chain(Bytes, sent, Last)
    /\ Front(Bytes, sent, Last, Current, HeadTaken)
    /\ SizeKept
    /\ ModesApart
    /\ DeliveredInOrder
    /\ SignalCounts
    /\ NoneHidden

----------------------------------------------------------------------------
(***************************************************************************)
(* What the sequences of bytes do, apart from any state.                   *)
(***************************************************************************)

\* A frame is longer than two headers.
LEMMA FrameSizes ==
    ASSUME NEW s \in Seq(Messages), NEW i \in 1 .. Len(s)
    PROVE  /\ HeaderSize \in Nat \ {0}
           /\ s[i].size \in Nat
           /\ s[i].size > HeaderSize
           /\ FullOf(s, i) = HeaderSize + s[i].size
           /\ FullOf(s, i) \in Nat
BY MessagesAssumption DEF FullOf

\* A header and the data of a frame are sequences of bytes.
LEMMA HeaderIs ==
    ASSUME NEW i \in Nat
    PROVE  /\ Header(i) \in Seq(Pairs)
           /\ Len(Header(i)) = HeaderSize
           /\ \A k \in 1 .. HeaderSize : Header(i)[k] = <<i, k>>
<1>1. Header(i) \in [1 .. HeaderSize -> Pairs]
  BY MessagesAssumption DEF Header, Pairs
<1>2. DOMAIN Header(i) = 1 .. HeaderSize /\ HeaderSize \in Nat
  BY MessagesAssumption DEF Header
<1>3. Header(i) \in Seq(Pairs)
  BY <1>1, <1>2
<1> QED
  BY <1>2, <1>3 DEF Header

LEMMA DataIs ==
    ASSUME NEW s \in Seq(Messages), NEW i \in 1 .. Len(s)
    PROVE  /\ DataOf(s, i) \in Seq(Pairs)
           /\ Len(DataOf(s, i)) = s[i].size
           /\ \A k \in 1 .. s[i].size : DataOf(s, i)[k] = <<i, HeaderSize + k>>
<1>1. s[i].size \in Nat /\ HeaderSize \in Nat /\ i \in Nat
  BY FrameSizes
<1>2. DataOf(s, i) \in [1 .. s[i].size -> Pairs]
  BY <1>1 DEF DataOf, Pairs
<1>3. DOMAIN DataOf(s, i) = 1 .. s[i].size
  BY DEF DataOf
<1>4. DataOf(s, i) \in Seq(Pairs)
  BY <1>1, <1>2
<1> QED
  BY <1>1, <1>3, <1>4 DEF DataOf

\* The bytes behind the first m of b.
LEMMA WithoutIs ==
    ASSUME NEW b \in Seq(Pairs), NEW m \in 0 .. Len(b)
    PROVE  /\ Without(b, m) \in Seq(Pairs)
           /\ Len(Without(b, m)) = Len(b) - m
           /\ \A j \in 1 .. Len(b) - m : Without(b, m)[j] = b[j + m]
           /\ First(b, m) \in Seq(Pairs)
           /\ Len(First(b, m)) = m
           /\ \A j \in 1 .. m : First(b, m)[j] = b[j]
BY DEF Without, First

\* Sequences are equal when their bytes are.
LEMMA SameBytes ==
    ASSUME NEW a \in Seq(Pairs), NEW c \in Seq(Pairs), Len(a) = Len(c),
           \A j \in 1 .. Len(a) : a[j] = c[j]
    PROVE  a = c
OBVIOUS

\* Two buffers one after the other.
LEMMA JoinIs ==
    ASSUME NEW a \in Seq(Pairs), NEW c \in Seq(Pairs)
    PROVE  /\ a \o c \in Seq(Pairs)
           /\ Len(a \o c) = Len(a) + Len(c)
           /\ \A j \in 1 .. Len(a) : (a \o c)[j] = a[j]
           /\ \A j \in 1 .. Len(c) : (a \o c)[Len(a) + j] = c[j]
           /\ \A j \in Len(a) + 1 .. Len(a) + Len(c) : (a \o c)[j] = c[j - Len(a)]
OBVIOUS

\* What is taken from the first of two buffers is taken from both together.
LEMMA TakenFromBoth ==
    ASSUME NEW a \in Seq(Pairs), NEW c \in Seq(Pairs), NEW m \in 0 .. Len(a)
    PROVE  /\ First(a \o c, m) = First(a, m)
           /\ Without(a \o c, m) = Without(a, m) \o c
<1> DEFINE b == a \o c
           e == Without(a, m)
           g == e \o c
           h == Without(b, m)
<1>1. /\ b \in Seq(Pairs) /\ Len(b) = Len(a) + Len(c)
      /\ \A j \in 1 .. Len(a) : b[j] = a[j]
      /\ \A j \in Len(a) + 1 .. Len(a) + Len(c) : b[j] = c[j - Len(a)]
  BY JoinIs
<1>2. Len(a) \in Nat /\ Len(c) \in Nat /\ m \in Nat /\ m <= Len(a) /\ m \in 0 .. Len(b)
  BY <1>1
<1> HIDE DEF b
<1>3. First(b, m) = First(a, m)
  <2>1. /\ First(b, m) \in Seq(Pairs) /\ First(a, m) \in Seq(Pairs)
        /\ Len(First(b, m)) = m /\ Len(First(a, m)) = m
        /\ \A j \in 1 .. m : First(b, m)[j] = b[j] /\ First(a, m)[j] = a[j]
    BY <1>1, <1>2, WithoutIs
  <2>2. \A j \in 1 .. m : First(b, m)[j] = First(a, m)[j]
    BY <1>1, <1>2, <2>1
  <2> QED
    BY <2>1, <2>2, SameBytes
<1>4. /\ e \in Seq(Pairs) /\ Len(e) = Len(a) - m
      /\ \A j \in 1 .. Len(a) - m : e[j] = a[j + m]
  BY WithoutIs
<1>5. /\ h \in Seq(Pairs) /\ Len(h) = Len(b) - m
      /\ \A j \in 1 .. Len(b) - m : h[j] = b[j + m]
  BY <1>1, <1>2, WithoutIs
<1> HIDE DEF e, h
<1>6. /\ g \in Seq(Pairs) /\ Len(g) = Len(e) + Len(c)
      /\ \A j \in 1 .. Len(e) : g[j] = e[j]
      /\ \A j \in Len(e) + 1 .. Len(e) + Len(c) : g[j] = c[j - Len(e)]
  BY <1>4, JoinIs
<1> HIDE DEF g
<1>7. ASSUME NEW j \in 1 .. Len(h) PROVE h[j] = g[j]
  <2>0. j \in Nat /\ j >= 1 /\ j <= Len(a) + Len(c) - m
    BY <1>1, <1>2, <1>5
  <2>1. CASE j <= Len(e)
    BY <1>1, <1>2, <1>4, <1>5, <1>6, <2>0, <2>1
  <2>2. CASE j > Len(e)
    <3>1. g[j] = c[j - Len(e)]
      BY <1>2, <1>4, <1>6, <2>0, <2>2, SMTT(40)
    <3>2. h[j] = b[j + m]
      BY <1>1, <1>2, <1>5, <2>0
    <3>3. b[j + m] = c[(j + m) - Len(a)]
      BY <1>1, <1>2, <1>4, <2>0, <2>2
    <3>4. (j + m) - Len(a) = j - Len(e)
      BY <1>2, <1>4, <2>0
    <3> QED
      BY <3>1, <3>2, <3>3, <3>4
  <2> QED
    BY <1>2, <1>4, <2>0, <2>1, <2>2
<1>8. h = g
  <2>1. Len(h) = Len(g)
    BY <1>1, <1>2, <1>4, <1>5, <1>6
  <2> QED
    BY <1>5, <1>6, <1>7, <2>1, SameBytes
<1> QED
  BY <1>3, <1>8 DEF b, e, g, h

\* Bytes that move from one buffer to the next stay in the same order.
LEMMA MovedBytes ==
    ASSUME NEW a \in Seq(Pairs), NEW c \in Seq(Pairs), NEW m \in 0 .. Len(c)
    PROVE  (a \o First(c, m)) \o Without(c, m) = a \o c
<1> DEFINE d == First(c, m)
           e == Without(c, m)
           f == a \o d
           g == a \o c
           h == f \o e
<1>0. Len(a) \in Nat /\ Len(c) \in Nat /\ m \in Nat /\ m <= Len(c)
  OBVIOUS
<1>1. /\ d \in Seq(Pairs) /\ e \in Seq(Pairs)
      /\ Len(d) = m /\ Len(e) = Len(c) - m
      /\ \A j \in 1 .. m : d[j] = c[j]
      /\ \A j \in 1 .. Len(c) - m : e[j] = c[j + m]
  BY WithoutIs
<1> HIDE DEF d, e
<1>2. /\ f \in Seq(Pairs) /\ Len(f) = Len(a) + Len(d)
      /\ \A j \in 1 .. Len(a) : f[j] = a[j]
      /\ \A j \in Len(a) + 1 .. Len(a) + Len(d) : f[j] = d[j - Len(a)]
  BY <1>1, JoinIs
<1>3. /\ g \in Seq(Pairs) /\ Len(g) = Len(a) + Len(c)
      /\ \A j \in 1 .. Len(a) : g[j] = a[j]
      /\ \A j \in Len(a) + 1 .. Len(a) + Len(c) : g[j] = c[j - Len(a)]
  BY JoinIs
<1> HIDE DEF f, g
<1>4. /\ h \in Seq(Pairs) /\ Len(h) = Len(f) + Len(e)
      /\ \A j \in 1 .. Len(f) : h[j] = f[j]
      /\ \A j \in Len(f) + 1 .. Len(f) + Len(e) : h[j] = e[j - Len(f)]
  BY <1>1, <1>2, JoinIs
<1> HIDE DEF h
<1>5. ASSUME NEW j \in 1 .. Len(h) PROVE h[j] = g[j]
  <2>0. j \in Nat /\ j >= 1 /\ j <= Len(a) + Len(c)
    BY <1>0, <1>1, <1>2, <1>4
  <2>1. CASE j <= Len(a)
    BY <1>0, <1>1, <1>2, <1>3, <1>4, <2>0, <2>1
  <2>2. CASE j > Len(a) /\ j <= Len(f)
    <3>1. h[j] = f[j] /\ f[j] = d[j - Len(a)] /\ g[j] = c[j - Len(a)]
      BY <1>0, <1>1, <1>2, <1>3, <1>4, <2>0, <2>2
    <3>2. d[j - Len(a)] = c[j - Len(a)]
      BY <1>0, <1>1, <1>2, <2>0, <2>2
    <3> QED
      BY <3>1, <3>2
  <2>3. CASE j > Len(f)
    <3>1. h[j] = e[j - Len(f)] /\ j - Len(f) \in 1 .. Len(c) - m
      BY <1>0, <1>1, <1>2, <1>4, <2>0, <2>3
    <3>2. e[j - Len(f)] = c[(j - Len(f)) + m]
      BY <1>1, <3>1
    <3>3. (j - Len(f)) + m = j - Len(a)
      BY <1>0, <1>1, <1>2, <2>0
    <3>4. g[j] = c[j - Len(a)]
      BY <1>0, <1>1, <1>2, <1>3, <2>0, <2>3
    <3> QED
      BY <3>1, <3>2, <3>3, <3>4
  <2> QED
    BY <1>0, <1>1, <1>2, <2>0, <2>1, <2>2, <2>3
<1>6. h = g
  <2>1. Len(h) = Len(g)
    BY <1>0, <1>1, <1>2, <1>3, <1>4
  <2> QED
    BY <1>3, <1>4, <1>5, <2>1, SameBytes
<1> QED
  BY <1>6 DEF d, e, f, g, h

\* The byte at position j, when it is known.
LEMMA ChainAt ==
    ASSUME NEW b, NEW s, NEW last, Chain(b, s, last),
           NEW j \in 1 .. Len(b), NEW i, NEW k, b[j] = <<i, k>>
    PROVE  i \in 1 .. Len(s) /\ k \in 1 .. FullOf(s, i) /\ Follows(b, s, last, j, i, k)
<1>1. PICK i1 \in 1 .. Len(s) : \E k1 \in 1 .. FullOf(s, i1) :
          b[j] = <<i1, k1>> /\ Follows(b, s, last, j, i1, k1)
  BY DEF Chain
<1>2. PICK k1 \in 1 .. FullOf(s, i1) : b[j] = <<i1, k1>> /\ Follows(b, s, last, j, i1, k1)
  BY <1>1
<1>3. i1 = i /\ k1 = k
  BY <1>2
<1> QED
  BY <1>2, <1>3

\* What follows a byte does not depend on what was taken before it.
LEMMA ChainShift ==
    ASSUME NEW b \in Seq(Pairs), NEW s \in Seq(Messages), NEW last \in Nat,
           Chain(b, s, last), NEW m \in 0 .. Len(b)
    PROVE  Chain(Without(b, m), s, last)
<1> DEFINE e == Without(b, m)
<1>1. /\ e \in Seq(Pairs) /\ Len(e) = Len(b) - m
      /\ \A j \in 1 .. Len(b) - m : e[j] = b[j + m]
  BY WithoutIs
<1>2. Len(b) \in Nat /\ m \in Nat /\ m <= Len(b)
  OBVIOUS
<1> HIDE DEF e
<1>3. ASSUME NEW j \in 1 .. Len(e)
      PROVE  \E i \in 1 .. Len(s) : \E k \in 1 .. FullOf(s, i) :
                 e[j] = <<i, k>> /\ Follows(e, s, last, j, i, k)
  <2>1. j \in Nat /\ j >= 1 /\ j <= Len(b) - m /\ j + m \in 1 .. Len(b)
    BY <1>1, <1>2
  <2>2. PICK i \in 1 .. Len(s) : \E k \in 1 .. FullOf(s, i) :
            b[j + m] = <<i, k>> /\ Follows(b, s, last, j + m, i, k)
    BY <2>1 DEF Chain
  <2>3. PICK k \in 1 .. FullOf(s, i) :
            b[j + m] = <<i, k>> /\ Follows(b, s, last, j + m, i, k)
    BY <2>2
  <2> DEFINE F == FullOf(s, i)
  <2>4. F \in Nat /\ k \in Nat /\ k <= F /\ k >= 1 /\ i \in Nat
    BY <2>3, FrameSizes
  <2>5. e[j] = <<i, k>>
    BY <1>1, <2>1, <2>3
  <2>6. i = Len(s) => Len(e) - j = last - k
    BY <1>1, <1>2, <2>1, <2>3, <2>4 DEF Follows
  <2>7. i < Len(s) => j + F - k + 1 <= Len(e) /\ e[j + F - k + 1] = <<i + 1, 1>>
    <3> HIDE DEF F
    <3>1. i < Len(s) => (j + m) + F - k + 1 <= Len(b) /\ b[(j + m) + F - k + 1] = <<i + 1, 1>>
      BY <2>3 DEF Follows, F
    <3>2. (j + m) + F - k + 1 = (j + F - k + 1) + m
      BY <1>2, <2>1, <2>4
    <3>3. i < Len(s) => j + F - k + 1 \in 1 .. Len(b) - m
      BY <1>2, <2>1, <2>4, <3>1
    <3> QED
      BY <1>1, <1>2, <3>1, <3>2, <3>3
  <2>8. ASSUME NEW l \in j .. Len(e), k + l - j <= F
        PROVE  e[l] = <<i, k + l - j>>
    <3> HIDE DEF F
    <3>1. l \in Nat /\ l + m \in j + m .. Len(b) /\ k + (l + m) - (j + m) = k + l - j
      BY <1>1, <1>2, <2>1, <2>4, <2>8
    <3>2. b[l + m] = <<i, k + (l + m) - (j + m)>>
      BY <2>3, <2>8, <3>1 DEF Follows, F
    <3>3. e[l] = b[l + m]
      <4>1. l \in 1 .. Len(b) - m
        BY <1>2, <2>1, <3>1
      <4> QED
        BY <1>1, <4>1
    <3> QED
      BY <3>1, <3>2, <3>3
  <2>9. Follows(e, s, last, j, i, k)
    BY <2>6, <2>7, <2>8 DEF Follows
  <2> QED
    BY <2>3, <2>5, <2>9
<1> QED
  BY <1>3 DEF Chain, e

\* The frame whose header was taken has been sent.
LEMMA CurrentSent ==
    ASSUME NEW b \in Seq(Pairs), NEW s \in Seq(Messages), NEW last, Ends(s, last),
           Chain(b, s, last), NEW n, NEW taken, Front(b, s, last, n, taken),
           taken \/ b # <<>>
    PROVE  n \in 1 .. Len(s)
<1>1. CASE b # <<>>
  <2>1. 1 \in 1 .. Len(b)
    BY <1>1
  <2>2. b[1] = <<n, IF taken THEN HeaderSize + 1 ELSE 1>>
    BY <1>1 DEF Front
  <2> QED
    BY <2>1, <2>2, ChainAt
<1>2. CASE b = <<>>
  <2>1. n = Len(s) /\ last = HeaderSize
    BY <1>2 DEF Front
  <2>2. s # <<>>
    BY <2>1, MessagesAssumption DEF Ends
  <2> QED
    BY <2>1, <2>2
<1> QED
  BY <1>1, <1>2

\* The first HeaderSize bytes in front of a frame are its header; behind it
\* comes the frame's data, if anything does.
LEMMA HeaderTaken ==
    ASSUME NEW b \in Seq(Pairs), NEW s \in Seq(Messages), NEW last \in Nat, Ends(s, last),
           Chain(b, s, last), NEW n \in Nat, Front(b, s, last, n, FALSE),
           Len(b) >= HeaderSize
    PROVE  /\ n \in 1 .. Len(s)
           /\ First(b, HeaderSize) = Header(n)
           /\ Chain(Without(b, HeaderSize), s, last)
           /\ Front(Without(b, HeaderSize), s, last, n, TRUE)
<1> DEFINE H == HeaderSize
           e == Without(b, H)
           F == FullOf(s, n)
<1>1. H \in Nat /\ H >= 1 /\ Len(b) \in Nat /\ H \in 0 .. Len(b) /\ H <= Len(b)
  BY MessagesAssumption
<1>2. b # <<>> /\ 1 \in 1 .. Len(b)
  BY <1>1
<1>3. b[1] = <<n, 1>>
  BY <1>2 DEF Front
<1>4. n \in 1 .. Len(s) /\ Follows(b, s, last, 1, n, 1)
  BY <1>2, <1>3, ChainAt
<1>5. F \in Nat /\ F > H
  BY <1>1, <1>4, FrameSizes
<1>6. ASSUME NEW l \in 1 .. Len(b), l <= F PROVE b[l] = <<n, l>>
  <2>1. l \in Nat /\ 1 + l - 1 = l
    OBVIOUS
  <2> QED
    BY <1>4, <1>6, <2>1 DEF Follows
<1>7. First(b, H) = Header(n)
  <2> HIDE DEF F, H
  <2>1. /\ First(b, H) \in Seq(Pairs) /\ Len(First(b, H)) = H
        /\ \A j \in 1 .. H : First(b, H)[j] = b[j]
    BY <1>1, WithoutIs
  <2>2. /\ Header(n) \in Seq(Pairs) /\ Len(Header(n)) = H
        /\ \A j \in 1 .. H : Header(n)[j] = <<n, j>>
    BY HeaderIs DEF H
  <2>3. ASSUME NEW j \in 1 .. H PROVE First(b, H)[j] = Header(n)[j]
    <3>1. j \in 1 .. Len(b) /\ j <= F
      BY <1>1, <1>5
    <3> QED
      BY <1>6, <2>1, <2>2, <3>1
  <2> QED
    BY <2>1, <2>2, <2>3, SameBytes
<1>8. Chain(e, s, last)
  BY <1>1, ChainShift
<1>9. /\ Len(e) = Len(b) - H
      /\ \A j \in 1 .. Len(b) - H : e[j] = b[j + H]
      /\ e \in Seq(Pairs)
  BY <1>1, WithoutIs
<1>10. Front(e, s, last, n, TRUE)
  <2> HIDE DEF e, F
  <2>1. CASE e # <<>>
    <3>1. Len(e) # 0 /\ Len(e) \in Nat
      BY <1>9, <2>1
    <3>2. e[1] = b[1 + H] /\ 1 + H \in 1 .. Len(b) /\ 1 + H <= F
      BY <1>1, <1>5, <1>9, <3>1
    <3> QED
      BY <1>1, <1>6, <2>1, <3>2 DEF Front
  <2>2. CASE e = <<>>
    <3>1. Len(b) = H
      BY <1>1, <1>9, <2>2
    <3>2. ~(n < Len(s))
      BY <1>1, <1>4, <1>5, <3>1 DEF Follows, F
    <3>3. n = Len(s)
      BY <1>4, <3>2
    <3>4. last = H
      BY <1>1, <1>4, <3>1, <3>3 DEF Follows
    <3> QED
      BY <2>2, <3>3, <3>4 DEF Front
  <2> QED
    BY <2>1, <2>2
<1> QED
  BY <1>4, <1>7, <1>8, <1>10

\* Behind the header come the bytes of the frame's data; behind them the next frame.
LEMMA DataTaken ==
    ASSUME NEW b \in Seq(Pairs), NEW s \in Seq(Messages), NEW last \in Nat, Ends(s, last),
           Chain(b, s, last), NEW n \in Nat, Front(b, s, last, n, TRUE),
           Len(b) >= s[n].size
    PROVE  /\ First(b, s[n].size) = DataOf(s, n)
           /\ Chain(Without(b, s[n].size), s, last)
           /\ Front(Without(b, s[n].size), s, last, n + 1, FALSE)
<1> DEFINE H == HeaderSize
           D == s[n].size
           e == Without(b, D)
           F == FullOf(s, n)
<1>0. n \in 1 .. Len(s)
  BY CurrentSent
<1>1. /\ H \in Nat /\ H >= 1 /\ D \in Nat /\ D > H /\ Len(b) \in Nat
      /\ D \in 0 .. Len(b) /\ D <= Len(b) /\ F = H + D
  BY <1>0, FrameSizes
<1>2. b # <<>> /\ 1 \in 1 .. Len(b)
  BY <1>1
<1>3. b[1] = <<n, H + 1>>
  BY <1>2 DEF Front
<1>4. Follows(b, s, last, 1, n, H + 1)
  BY <1>2, <1>3, ChainAt
<1> HIDE DEF H, D, F
<1>5. ASSUME NEW l \in 1 .. Len(b), l <= D PROVE b[l] = <<n, H + l>>
  <2>1. l \in Nat /\ (H + 1) + l - 1 = H + l /\ H + l <= F
    BY <1>1, <1>5
  <2> QED
    BY <1>4, <2>1 DEF Follows, F
<1>6. First(b, D) = DataOf(s, n)
  <2>1. /\ First(b, D) \in Seq(Pairs) /\ Len(First(b, D)) = D
        /\ \A j \in 1 .. D : First(b, D)[j] = b[j]
    BY <1>1, WithoutIs
  <2>2. /\ DataOf(s, n) \in Seq(Pairs) /\ Len(DataOf(s, n)) = D
        /\ \A j \in 1 .. D : DataOf(s, n)[j] = <<n, H + j>>
    BY <1>0, DataIs DEF D, H
  <2>3. ASSUME NEW j \in 1 .. D PROVE First(b, D)[j] = DataOf(s, n)[j]
    <3>1. j \in 1 .. Len(b) /\ j <= D
      BY <1>1
    <3> QED
      BY <1>5, <2>1, <2>2, <3>1
  <2> QED
    BY <2>1, <2>2, <2>3, SameBytes
<1>7. Chain(e, s, last)
  BY <1>1, ChainShift
<1>8. /\ Len(e) = Len(b) - D
      /\ \A j \in 1 .. Len(b) - D : e[j] = b[j + D]
      /\ e \in Seq(Pairs)
  BY <1>1, WithoutIs
<1>9. /\ n = Len(s) => Len(b) - 1 = last - (H + 1)
      /\ n < Len(s) => 1 + F - (H + 1) + 1 <= Len(b) /\ b[1 + F - (H + 1) + 1] = <<n + 1, 1>>
  BY <1>4 DEF Follows, F
<1>10. 1 + F - (H + 1) + 1 = D + 1 /\ s # <<>>
  BY <1>0, <1>1
<1>11. last = H \/ (n = Len(s) => last = F)
  BY <1>10 DEF Ends, H, F
<1>12. Front(e, s, last, n + 1, FALSE)
  <2> HIDE DEF e
  <2>1. CASE n < Len(s)
    <3>1. e[1] = <<n + 1, 1>> /\ e # <<>>
      <4>1. 1 \in 1 .. Len(b) - D
        BY <1>1, <1>9, <1>10, <2>1, SMTT(40)
      <4> QED
        BY <1>1, <1>8, <1>9, <1>10, <2>1, <4>1
    <3> QED
      BY <3>1 DEF Front
  <2>2. CASE n = Len(s)
    <3>1. Len(b) = last - H
      BY <1>1, <1>9, <2>2
    <3>2. last = F
      BY <1>1, <1>11, <2>2, <3>1
    <3>3. Len(e) = 0
      BY <1>1, <1>8, <3>1, <3>2
    <3>4. e = <<>> /\ last # HeaderSize
      BY <1>1, <1>8, <3>2, <3>3 DEF H
    <3> QED
      BY <2>2, <3>4 DEF Front
  <2>3. n \in Nat /\ Len(s) \in Nat /\ n <= Len(s)
    BY <1>0
  <2>4. n < Len(s) \/ n = Len(s)
    BY <2>3
  <2> QED
    BY <2>1, <2>2, <2>4
<1> QED
  BY <1>6, <1>7, <1>12 DEF D

\* A header is written behind a frame that is complete.
LEMMA HeaderAppended ==
    ASSUME NEW b \in Seq(Pairs), NEW s \in Seq(Messages), NEW last \in Nat, Ends(s, last),
           last # HeaderSize, Chain(b, s, last), NEW n, NEW taken, Front(b, s, last, n, taken),
           NEW message \in Messages
    PROVE  /\ Chain(b \o Header(Len(s) + 1), Append(s, message), HeaderSize)
           /\ Front(b \o Header(Len(s) + 1), Append(s, message), HeaderSize, n, taken)
<1> DEFINE H == HeaderSize
           L == Len(s)
           t == Append(s, message)
           h == Header(L + 1)
           c == b \o h
           B == Len(b)
<1>1. H \in Nat /\ H >= 1 /\ L \in Nat /\ B \in Nat
  BY MessagesAssumption
<1>2. h \in Seq(Pairs) /\ Len(h) = H /\ \A k \in 1 .. H : h[k] = <<L + 1, k>>
  BY <1>1, HeaderIs
<1>3. /\ t \in Seq(Messages) /\ Len(t) = L + 1
      /\ \A i \in 1 .. L : t[i] = s[i] /\ FullOf(t, i) = FullOf(s, i)
  BY DEF FullOf
<1>4. L + 1 \in 1 .. Len(t)
  BY <1>1, <1>3
<1>5. FullOf(t, L + 1) \in Nat /\ FullOf(t, L + 1) > H
  <2> HIDE DEF t, L
  <2>1. /\ t[L + 1].size \in Nat /\ t[L + 1].size > H
        /\ FullOf(t, L + 1) = H + t[L + 1].size
    BY <1>3, <1>4, FrameSizes
  <2> QED
    BY <1>1, <2>1
<1> HIDE DEF h, H
<1>6. /\ c \in Seq(Pairs) /\ Len(c) = B + H
      /\ \A j \in 1 .. B : c[j] = b[j]
      /\ \A j \in B + 1 .. B + H : c[j] = h[j - B]
  BY <1>2, JoinIs
<1> HIDE DEF c, t, L, B
<1>7. ASSUME NEW j \in B + 1 .. B + H
      PROVE  c[j] = <<L + 1, j - B>>
  <2>1. j - B \in 1 .. H
    BY <1>1
  <2> QED
    BY <1>2, <1>6, <2>1
<1>8. ASSUME NEW j \in 1 .. Len(c)
      PROVE  \E i \in 1 .. Len(t) : \E k \in 1 .. FullOf(t, i) :
                 c[j] = <<i, k>> /\ Follows(c, t, H, j, i, k)
  <2>0. j \in Nat /\ 1 <= j /\ j <= B + H
    BY <1>1, <1>6
  <2>1. CASE j <= B
    <3>1. j \in 1 .. Len(b)
      BY <2>0, <2>1, <1>1 DEF B
    <3>2. PICK i \in 1 .. Len(s) : \E k \in 1 .. FullOf(s, i) :
              b[j] = <<i, k>> /\ Follows(b, s, last, j, i, k)
      BY <3>1 DEF Chain
    <3>3. PICK k \in 1 .. FullOf(s, i) : b[j] = <<i, k>> /\ Follows(b, s, last, j, i, k)
      BY <3>2
    <3> DEFINE F == FullOf(s, i)
    <3>4. /\ i \in Nat /\ i >= 1 /\ i <= L /\ F \in Nat /\ FullOf(t, i) = F
          /\ k \in Nat /\ 1 <= k /\ k <= F
      BY <3>3, <1>1, <1>3, FrameSizes DEF L
    <3> HIDE DEF F
    <3>5. /\ i = L => B - j = last - k
          /\ i < L => j + F - k + 1 <= B /\ b[j + F - k + 1] = <<i + 1, 1>>
          /\ \A l \in j .. B : k + l - j <= F => b[l] = <<i, k + l - j>>
      BY <3>3 DEF Follows, L, B, F
    <3>6. i = L => last = F
      BY <3>4, <1>1 DEF Ends, L, F, H
    <3>7. j + F - k <= B
      BY <3>4, <3>5, <3>6, <2>0, <1>1
    <3>8. j + F - k + 1 <= Len(c) /\ c[j + F - k + 1] = <<i + 1, 1>>
      <4>1. CASE i < L
        <5>1. j + F - k + 1 \in 1 .. B
          BY <1>1, <2>0, <3>4, <3>5, <4>1, SMTT(40)
        <5> QED
          BY <1>1, <1>6, <3>5, <4>1, <5>1
      <4>2. CASE i = L
        <5>1. j + F - k + 1 = B + 1
          BY <1>1, <2>0, <3>4, <3>5, <3>6, <4>2
        <5>2. c[B + 1] = <<L + 1, 1>>
          <6>1. B + 1 \in B + 1 .. B + H /\ (B + 1) - B = 1
            BY <1>1
          <6> QED
            BY <1>7, <6>1
        <5> QED
          BY <1>1, <1>6, <4>2, <5>1, <5>2
      <4> QED
        BY <1>1, <3>4, <4>1, <4>2
    <3>9. ASSUME NEW l \in j .. Len(c), k + l - j <= F
          PROVE  c[l] = <<i, k + l - j>>
      <4>1. l \in j .. B /\ l \in 1 .. B
        BY <1>1, <1>6, <2>0, <3>4, <3>7, <3>9, SMTT(40)
      <4> QED
        BY <1>6, <3>5, <3>9, <4>1
    <3>10. c[j] = <<i, k>> /\ i # Len(t) /\ i \in 1 .. Len(t) /\ k \in 1 .. FullOf(t, i)
      BY <1>1, <1>3, <1>6, <2>0, <2>1, <3>3, <3>4
    <3>11. Follows(c, t, H, j, i, k)
      BY <3>4, <3>8, <3>9, <3>10 DEF Follows
    <3> QED
      BY <3>10, <3>11
  <2>2. CASE j > B
    <3> DEFINE i == L + 1
               k == j - B
    <3>1. j \in B + 1 .. B + H /\ k \in 1 .. H
      BY <1>1, <2>0, <2>2
    <3>2. c[j] = <<i, k>>
      BY <1>7, <3>1
    <3>3. k \in 1 .. FullOf(t, i) /\ i \in 1 .. Len(t) /\ i = Len(t)
      BY <1>1, <1>3, <1>4, <1>5, <3>1
    <3>4. Len(c) - j = H - k
      BY <1>1, <1>6, <2>0
    <3>5. ASSUME NEW l \in j .. Len(c) PROVE c[l] = <<i, k + l - j>>
      <4>1. l \in B + 1 .. B + H /\ k + l - j = l - B
        BY <1>1, <1>6, <2>0, <2>2
      <4> QED
        BY <1>7, <4>1
    <3>6. Follows(c, t, H, j, i, k)
      BY <1>1, <3>3, <3>4, <3>5 DEF Follows
    <3> QED
      BY <3>2, <3>3, <3>6
  <2> QED
    BY <1>1, <2>0, <2>1, <2>2
<1>9. Front(c, t, H, n, taken)
  <2>1. c # <<>>
    BY <1>1, <1>6
  <2>2. CASE b # <<>>
    <3>1. 1 \in 1 .. B
      BY <2>2 DEF B
    <3> QED
      BY <1>6, <2>1, <2>2, <3>1 DEF Front
  <2>3. CASE b = <<>>
    <3>1. ~taken /\ n = L + 1
      BY <2>3 DEF Front, L
    <3>2. B = 0
      BY <2>3 DEF B
    <3>3. c[1] = <<L + 1, 1>>
      <4>1. 1 \in B + 1 .. B + H /\ 1 - B = 1
        BY <1>1, <3>2
      <4> QED
        BY <1>7, <4>1
    <3> QED
      BY <2>1, <3>1, <3>3 DEF Front
  <2> QED
    BY <2>2, <2>3
<1>10. Chain(c, t, H)
  BY <1>8 DEF Chain
<1> QED
  BY <1>9, <1>10 DEF c, t, h, H, L

\* The data of the last frame is written behind its header.
LEMMA DataAppended ==
    ASSUME NEW b \in Seq(Pairs), NEW s \in Seq(Messages), s # <<>>,
           Chain(b, s, HeaderSize), NEW n, NEW taken, Front(b, s, HeaderSize, n, taken)
    PROVE  /\ Chain(b \o DataOf(s, Len(s)), s, FullOf(s, Len(s)))
           /\ Front(b \o DataOf(s, Len(s)), s, FullOf(s, Len(s)), n, taken)
<1> DEFINE H == HeaderSize
           L == Len(s)
           D == s[L].size
           d == DataOf(s, L)
           c == b \o d
           B == Len(b)
           G == FullOf(s, L)
<1>1. L \in 1 .. Len(s)
  OBVIOUS
<1>2. /\ H \in Nat /\ H >= 1 /\ L \in Nat /\ B \in Nat /\ D \in Nat /\ D > H /\ G = H + D
  BY <1>1, FrameSizes
<1>3. d \in Seq(Pairs) /\ Len(d) = D /\ \A k \in 1 .. D : d[k] = <<L, H + k>>
  BY <1>1, DataIs
<1> HIDE DEF d, H, D, G
<1>4. /\ c \in Seq(Pairs) /\ Len(c) = B + D
      /\ \A j \in 1 .. B : c[j] = b[j]
      /\ \A j \in B + 1 .. B + D : c[j] = d[j - B]
  BY <1>3, JoinIs
<1> HIDE DEF c, L, B
<1>5. ASSUME NEW j \in B + 1 .. B + D
      PROVE  c[j] = <<L, H + (j - B)>>
  <2>1. j - B \in 1 .. D
    BY <1>2
  <2> QED
    BY <1>3, <1>4, <2>1
<1>6. ASSUME NEW j \in 1 .. Len(c)
      PROVE  \E i \in 1 .. Len(s) : \E k \in 1 .. FullOf(s, i) :
                 c[j] = <<i, k>> /\ Follows(c, s, G, j, i, k)
  <2>0. j \in Nat /\ 1 <= j /\ j <= B + D
    BY <1>2, <1>4
  <2>1. CASE j <= B
    <3>1. j \in 1 .. Len(b) /\ j \in 1 .. B
      BY <2>0, <2>1, <1>2 DEF B
    <3>2. PICK i \in 1 .. Len(s) : \E k \in 1 .. FullOf(s, i) :
              b[j] = <<i, k>> /\ Follows(b, s, HeaderSize, j, i, k)
      BY <3>1 DEF Chain
    <3>3. PICK k \in 1 .. FullOf(s, i) : b[j] = <<i, k>> /\ Follows(b, s, HeaderSize, j, i, k)
      BY <3>2
    <3> DEFINE F == FullOf(s, i)
    <3>4. /\ i \in Nat /\ i >= 1 /\ i <= L /\ F \in Nat
          /\ k \in Nat /\ 1 <= k /\ k <= F
      BY <3>3, FrameSizes DEF L
    <3>5. i = L => F = G
      BY DEF G
    <3> HIDE DEF F
    <3>6. /\ i = L => B - j = H - k
          /\ i < L => j + F - k + 1 <= B /\ b[j + F - k + 1] = <<i + 1, 1>>
          /\ \A l \in j .. B : k + l - j <= F => b[l] = <<i, k + l - j>>
      BY <3>3 DEF Follows, L, B, F, H
    <3>7. i = L => Len(c) - j = G - k
      <4>1. Len(c) = B + D
        BY <1>4
      <4>2. i = L => B - j = H - k
        BY <3>6
      <4> QED
        BY <1>2, <2>0, <3>4, <4>1, <4>2
    <3>8. i < L => j + F - k + 1 <= Len(c) /\ c[j + F - k + 1] = <<i + 1, 1>>
      <4>1. i < L => j + F - k + 1 \in 1 .. B
        BY <1>2, <2>0, <3>4, <3>6
      <4> QED
        BY <1>2, <1>4, <2>0, <3>4, <3>6, <4>1
    <3>9. ASSUME NEW l \in j .. Len(c), k + l - j <= F
          PROVE  c[l] = <<i, k + l - j>>
      <4>0. l \in Nat /\ j <= l /\ l <= B + D
        BY <1>2, <1>4, <2>0
      <4>1. CASE l <= B
        <5>1. l \in 1 .. B /\ l \in j .. B
          BY <1>2, <2>0, <4>0, <4>1
        <5> QED
          BY <1>4, <3>6, <3>9, <5>1
      <4>2. CASE l > B
        <5>1. i = L
          BY <1>2, <2>0, <3>4, <3>6, <3>9, <4>0, <4>2
        <5>2. l \in B + 1 .. B + D /\ H + (l - B) = k + l - j
          BY <1>2, <2>0, <3>4, <3>6, <4>0, <4>2, <5>1
        <5> QED
          BY <1>5, <5>1, <5>2
      <4> QED
        BY <1>2, <4>0, <4>1, <4>2, SMTT(40)
    <3>10. c[j] = <<i, k>>
      BY <1>4, <3>1, <3>3
    <3>11. Follows(c, s, G, j, i, k)
      BY <3>7, <3>8, <3>9 DEF Follows, L, F
    <3> QED
      BY <3>3, <3>10, <3>11
  <2>2. CASE j > B
    <3> DEFINE k == H + (j - B)
    <3>1. j \in B + 1 .. B + D /\ k \in 1 .. G
      BY <1>2, <2>0, <2>2
    <3>2. c[j] = <<L, k>>
      BY <1>5, <3>1
    <3>3. Len(c) - j = G - k
      BY <1>2, <1>4, <2>0
    <3>4. ASSUME NEW l \in j .. Len(c) PROVE c[l] = <<L, k + l - j>>
      <4>1. l \in B + 1 .. B + D /\ k + l - j = H + (l - B)
        BY <1>2, <1>4, <2>0, <2>2
      <4> QED
        BY <1>5, <4>1
    <3>5. Follows(c, s, G, j, L, k)
      BY <1>2, <3>3, <3>4 DEF Follows, L
    <3>6. L \in 1 .. Len(s) /\ k \in 1 .. FullOf(s, L)
      BY <1>1, <3>1 DEF G
    <3> HIDE DEF k
    <3> QED
      BY <3>2, <3>5, <3>6
  <2> QED
    BY <1>2, <2>0, <2>1, <2>2
<1>7. Front(c, s, G, n, taken)
  <2>1. c # <<>>
    BY <1>2, <1>4
  <2>2. CASE b # <<>>
    <3>1. 1 \in 1 .. B
      BY <2>2 DEF B
    <3> QED
      BY <1>4, <2>1, <2>2, <3>1 DEF Front
  <2>3. CASE b = <<>>
    <3>1. taken /\ n = L
      BY <2>3 DEF Front, L
    <3>2. B = 0
      BY <2>3 DEF B
    <3>3. c[1] = <<L, HeaderSize + 1>>
      <4>1. 1 \in B + 1 .. B + D /\ H + (1 - B) = H + 1
        BY <1>2, <3>2
      <4> QED
        BY <1>5, <4>1 DEF H
    <3> QED
      BY <2>1, <3>1, <3>3 DEF Front
  <2> QED
    BY <2>2, <2>3
<1>8. Chain(c, s, G)
  BY <1>6 DEF Chain
<1> QED
  BY <1>7, <1>8 DEF c, d, G, L

\* Three buffers one after the other.
LEMMA JoinedTwice ==
    ASSUME NEW a \in Seq(Pairs), NEW c \in Seq(Pairs), NEW d \in Seq(Pairs)
    PROVE  a \o (c \o d) = (a \o c) \o d
<1> DEFINE e == c \o d
           g == a \o c
<1>1. /\ e \in Seq(Pairs) /\ Len(e) = Len(c) + Len(d)
      /\ First(e, Len(c)) = c /\ Without(e, Len(c)) = d
  <2>1. /\ e \in Seq(Pairs) /\ Len(e) = Len(c) + Len(d)
        /\ \A j \in 1 .. Len(c) : e[j] = c[j]
        /\ \A j \in 1 .. Len(d) : e[Len(c) + j] = d[j]
    BY JoinIs
  <2>2. Len(c) \in Nat /\ Len(d) \in Nat /\ Len(c) \in 0 .. Len(e)
    BY <2>1
  <2> HIDE DEF e
  <2>3. /\ Without(e, Len(c)) \in Seq(Pairs) /\ Len(Without(e, Len(c))) = Len(e) - Len(c)
        /\ \A j \in 1 .. Len(e) - Len(c) : Without(e, Len(c))[j] = e[j + Len(c)]
        /\ First(e, Len(c)) \in Seq(Pairs) /\ Len(First(e, Len(c))) = Len(c)
        /\ \A j \in 1 .. Len(c) : First(e, Len(c))[j] = e[j]
    BY <2>1, <2>2, WithoutIs
  <2>4. First(e, Len(c)) = c
    BY <2>1, <2>3, SameBytes
  <2>5. Len(Without(e, Len(c))) = Len(d)
    BY <2>1, <2>2, <2>3
  <2>6. ASSUME NEW j \in 1 .. Len(d) PROVE Without(e, Len(c))[j] = d[j]
    <3>1. j + Len(c) = Len(c) + j /\ j \in 1 .. Len(e) - Len(c)
      BY <2>1, <2>2
    <3> QED
      BY <2>1, <2>3, <3>1
  <2> QED
    BY <2>1, <2>3, <2>4, <2>5, <2>6, SameBytes
<1>2. Len(c) \in 0 .. Len(e)
  BY <1>1
<1> HIDE DEF e
<1>3. (a \o First(e, Len(c))) \o Without(e, Len(c)) = a \o e
  BY <1>1, <1>2, MovedBytes
<1> QED
  BY <1>1, <1>3 DEF e

----------------------------------------------------------------------------
(***************************************************************************)
(* Every step keeps the invariant.                                         *)
(***************************************************************************)

\* What the provers need to know of the bytes under way.
LEMMA Underway ==
    ASSUME StreamInv
    PROVE  /\ Bytes \in Seq(Pairs)
           /\ Len(Bytes) = Len(input) + Len(stream)
           /\ Len(input) \in Nat /\ Len(stream) \in Nat /\ Len(sent) \in Nat
           /\ Last \in Nat /\ Ends(sent, Last)
           /\ Writing => Last = HeaderSize
           /\ ~Writing => Last # HeaderSize
           /\ Current \in Nat /\ Current = Len(delivered) + 1
           /\ HeadTaken => Current \in 1 .. Len(sent)
           /\ input # <<>> => Current \in 1 .. Len(sent)
<1>1. Bytes \in Seq(Pairs) /\ Len(Bytes) = Len(input) + Len(stream)
  BY JoinIs DEF StreamInv, StreamTypes, Bytes
<1>2. /\ Len(input) \in Nat /\ Len(stream) \in Nat /\ Len(sent) \in Nat
      /\ Current \in Nat /\ Current = Len(delivered) + 1
  BY DEF StreamInv, StreamTypes, Current
<1>3. HeaderSize \in Nat \ {0}
  BY MessagesAssumption
<1>4. CASE Writing
  <2>1. sent # <<>> /\ Last = HeaderSize
    BY <1>4 DEF StreamInv, WritesLast, Writing, Last
  <2> QED
    BY <1>1, <1>2, <1>3, <1>4, <2>1, CurrentSent DEF Ends, StreamInv, StreamTypes
<1>5. CASE ~Writing
  <2>1. CASE sent = <<>>
    <3>1. Last = 0 /\ Ends(sent, Last)
      BY <1>5, <2>1 DEF Last, Ends
    <3> QED
      BY <1>1, <1>2, <1>3, <1>5, <3>1, CurrentSent DEF StreamInv, StreamTypes
  <2>2. CASE sent # <<>>
    <3>1. Len(sent) \in 1 .. Len(sent)
      BY <2>2 DEF StreamInv, StreamTypes
    <3>2. Last = FullOf(sent, Len(sent)) /\ Ends(sent, Last)
      BY <1>5, <2>2 DEF Last, Ends
    <3>3. Last \in Nat /\ Last > HeaderSize
      <4>1. sent \in Seq(Messages)
        BY DEF StreamInv, StreamTypes
      <4>2. /\ sent[Len(sent)].size \in Nat /\ sent[Len(sent)].size > HeaderSize
            /\ FullOf(sent, Len(sent)) = HeaderSize + sent[Len(sent)].size
        BY <3>1, <4>1, FrameSizes
      <4> QED
        BY <1>3, <3>2, <4>2
    <3> QED
      BY <1>1, <1>2, <1>3, <1>5, <3>2, <3>3, CurrentSent DEF StreamInv, StreamTypes
  <2> QED
    BY <2>1, <2>2
<1> QED
  BY <1>4, <1>5

\* Every waiter but w is idle, when f says where they are.
AloneIn(f, w) == \A v \in Waiters : v # w => f[v] = "idle"

\* Then the signal is taken by w or by nobody.
LEMMA LockingOne ==
    ASSUME NEW f, NEW w \in Waiters, AloneIn(f, w)
    PROVE  Cardinality({v \in Waiters : f[v] \in {"block", "size", "data"}}) =
               IF f[w] \in {"block", "size", "data"} THEN 1 ELSE 0
<1> DEFINE S == {v \in Waiters : f[v] \in {"block", "size", "data"}}
<1>1. CASE f[w] \in {"block", "size", "data"}
  <2>1. S = {w}
    BY <1>1 DEF AloneIn
  <2> QED
    BY <1>1, <2>1, FS_Singleton
<1>2. CASE f[w] \notin {"block", "size", "data"}
  <2>1. S = {}
    BY <1>2 DEF AloneIn
  <2> QED
    BY <1>2, <2>1, FS_EmptySet
<1> QED
  BY <1>1, <1>2

\* A header says which frame it is of, and so does the data.
LEMMA SizeRead ==
    ASSUME StreamTypes, NEW n \in 1 .. Len(sent)
    PROVE  SizesIn(Header(n)) = {sent[n].size} /\ KnownIn(DataOf(sent, n)) = {sent[n].known}
<1>0. DOMAIN sent = 1 .. Len(sent) /\ sent \in Seq(Messages)
  BY DEF StreamTypes
<1>1. \A i \in DOMAIN sent : Header(n) = Header(i) => n = i
  <2>1. ASSUME NEW i \in DOMAIN sent, Header(n) = Header(i) PROVE n = i
    <3>1. 1 \in 1 .. HeaderSize
      BY MessagesAssumption
    <3>2. Header(n)[1] = <<n, 1>> /\ Header(i)[1] = <<i, 1>>
      BY <3>1 DEF Header
    <3> QED
      BY <2>1, <3>2
  <2> QED
    BY <2>1
<1>2. \A i \in DOMAIN sent : DataOf(sent, n) = Data(i) => n = i
  <2>1. ASSUME NEW i \in DOMAIN sent, DataOf(sent, n) = DataOf(sent, i) PROVE n = i
    <3>1. 1 \in 1 .. sent[n].size /\ 1 \in 1 .. sent[i].size
      BY <1>0, FrameSizes, SMTT(40)
    <3>2. DataOf(sent, n)[1] = <<n, HeaderSize + 1>> /\ DataOf(sent, i)[1] = <<i, HeaderSize + 1>>
      BY <3>1 DEF DataOf
    <3> QED
      BY <2>1, <3>2
  <2> QED
    BY <2>1 DEF Data, DataOf
<1>3. {i \in DOMAIN sent : Header(n) = Header(i)} = {n}
  BY <1>0, <1>1
<1>4. {i \in DOMAIN sent : DataOf(sent, n) = Data(i)} = {n}
  BY <1>0, <1>2 DEF Data, DataOf
<1> QED
  BY <1>3, <1>4 DEF SizesIn, KnownIn

\* The header of a frame is written.
LEMMA BlockWritten ==
    ASSUME StreamInv, NEW s \in Senders, NEW message \in Messages,
           writeBufferOnce_block(s, message), ~garbled'
    PROVE  StreamInv'
<1> DEFINE n1 == Len(sent) + 1
<1>1. /\ Bytes \in Seq(Pairs) /\ Len(input) \in Nat /\ Len(sent) \in Nat
      /\ Last \in Nat /\ Ends(sent, Last)
      /\ ~Writing => Last # HeaderSize
      /\ Current \in Nat /\ Current = Len(delivered) + 1
      /\ HeadTaken => Current \in 1 .. Len(sent)
      /\ input # <<>> => Current \in 1 .. Len(sent)
  BY Underway
<1>2. /\ \A u \in Senders : writing[u] = Idle
      /\ sent' = Append(sent, message)
      /\ stream' = stream \o Header(n1)
      /\ writing' = [writing EXCEPT ![s] = n1]
      /\ UNCHANGED <<input, low, callback_set, loop, block, cache_block, read_signal, delivered,
                     at, max_size>>
  BY DEF writeBufferOnce_block, receiver, waiting
<1>3. StreamTypes
  BY DEF StreamInv
<1>4. /\ sent \in Seq(Messages) /\ sent' \in Seq(Messages) /\ Len(sent') = n1
      /\ \A i \in 1 .. Len(sent) : sent'[i] = sent[i]
      /\ DOMAIN sent = 1 .. Len(sent) /\ DOMAIN sent' = 1 .. n1
      /\ sent' # <<>>
  <2>1. sent \in Seq(Messages) /\ DOMAIN sent = 1 .. Len(sent)
    BY <1>3 DEF StreamTypes
  <2>2. sent' \in Seq(Messages) /\ Len(sent') = n1 /\ DOMAIN sent' = 1 .. n1
    BY <1>2, <2>1
  <2>3. \A i \in 1 .. Len(sent) : sent'[i] = sent[i]
    BY <1>2, <2>1
  <2>4. sent' # <<>>
    BY <1>1, <2>2
  <2> QED
    BY <2>1, <2>2, <2>3, <2>4
<1>5. /\ n1 \in Nat /\ Header(n1) \in Seq(Pairs)
      /\ input \in Seq(Pairs) /\ stream \in Seq(Pairs)
  BY <1>1, <1>3, HeaderIs DEF StreamTypes
<1>6. ~Writing /\ Writing' /\ Last' = HeaderSize
  <2>1. ~Writing
    BY <1>2 DEF Writing
  <2>2. writing'[s] # Idle
    BY <1>2, <1>3, <1>5, StreamAssumption DEF StreamTypes
  <2> QED
    BY <2>1, <2>2 DEF Writing, Last
<1>7. Bytes' = Bytes \o Header(n1)
  BY <1>2, <1>5, JoinedTwice DEF Bytes
<1>8. HeadTaken' = HeadTaken /\ Current' = Current
  BY <1>2 DEF HeadTaken, Current
<1>9. Chain(Bytes, sent, Last) /\ Front(Bytes, sent, Last, Current, HeadTaken)
  BY DEF StreamInv
<1>10. /\ Chain(Bytes \o Header(n1), Append(sent, message), HeaderSize)
       /\ Front(Bytes \o Header(n1), Append(sent, message), HeaderSize, Current, HeadTaken)
  BY <1>1, <1>4, <1>6, <1>9, HeaderAppended
<1>11. Chain(Bytes, sent, Last)' /\ Front(Bytes, sent, Last, Current, HeadTaken)'
  BY <1>2, <1>6, <1>7, <1>8, <1>10
<1>12. StreamTypes'
  <2>1. stream' \in Seq(Pairs)
    BY <1>2, <1>5, JoinIs
  <2>2. writing' \in [Senders -> Nat \cup {Idle}]
    BY <1>2, <1>3, <1>5 DEF StreamTypes
  <2> QED
    BY <1>2, <1>3, <1>4, <2>1, <2>2 DEF StreamTypes
<1>13. WritesLast'
  BY <1>2, <1>3, <1>4 DEF WritesLast, StreamTypes
<1>14. SizeKept'
  <2>1. HeadTaken => block = sent'[Current].size
    BY <1>1, <1>4 DEF StreamInv, SizeKept
  <2> QED
    BY <1>2, <1>8, <2>1 DEF StreamInv, SizeKept
<1>15. ModesApart'
  BY <1>2 DEF StreamInv, ModesApart
<1>16. DeliveredInOrder'
  <2>1. ASSUME NEW i \in DOMAIN delivered PROVE i \in DOMAIN sent' /\ delivered[i] = Data(i)'
    <3>1. i \in DOMAIN sent /\ delivered[i] = Data(i)
      BY DEF StreamInv, DeliveredInOrder
    <3>2. sent'[i] = sent[i] /\ i \in DOMAIN sent'
      BY <1>1, <1>4, <3>1
    <3> QED
      BY <3>1, <3>2 DEF Data
  <2> QED
    BY <1>2, <2>1 DEF DeliveredInOrder
<1>17. SignalCounts'
  BY <1>2 DEF StreamInv, SignalCounts, Locking
<1>18. NoneHidden'
  <2> SUFFICES ASSUME callback_set', loop' = "waiting", AllKnown', FrameReady' PROVE FALSE
    BY DEF NoneHidden
  <2>1. AllKnown
    BY <1>1, <1>4 DEF AllKnown
  <2>2. CASE cache_block
    BY <1>2, <2>1, <2>2 DEF FrameReady, StreamInv, NoneHidden
  <2>3. CASE ~cache_block
    <3>1. Len(input) >= HeaderSize /\ Len(input) >= HeaderSize + sent'[Current].size
      BY <1>2, <1>8, <2>3 DEF FrameReady, Current
    <3>2. input # <<>>
      BY <3>1, MessagesAssumption
    <3>3. sent'[Current] = sent[Current]
      BY <1>1, <1>4, <3>2
    <3> QED
      BY <1>2, <2>1, <2>3, <3>1, <3>3 DEF FrameReady, Current, StreamInv, NoneHidden
  <2> QED
    BY <2>2, <2>3
<1>19. Ungarbled'
  BY <1>2, <1>3 DEF StreamInv, Ungarbled, StreamTypes
<1> QED
  BY <1>11, <1>12, <1>13, <1>14, <1>15, <1>16, <1>17, <1>18, <1>19 DEF StreamInv

\* The data of a frame is written.
LEMMA DataWritten ==
    ASSUME StreamInv, NEW s \in Senders, writeBufferOnce_data(s)
    PROVE  StreamInv'
<1>1. /\ Bytes \in Seq(Pairs) /\ Len(sent) \in Nat
      /\ Writing => Last = HeaderSize
  BY Underway
<1>2. /\ writing[s] # Idle
      /\ stream' = stream \o Data(writing[s])
      /\ writing' = [writing EXCEPT ![s] = Idle]
      /\ UNCHANGED <<sent, input, low, callback_set, loop, block, cache_block, read_signal,
                     delivered, at, max_size, garbled>>
  BY DEF writeBufferOnce_data, receiver, waiting
<1>3. StreamTypes
  BY DEF StreamInv
<1>0. \A u \in Senders : u # s => writing[u] = Idle
  BY <1>2 DEF StreamInv, Ungarbled
<1>4. /\ writing[s] = Len(sent) /\ sent # <<>>
      /\ sent \in Seq(Messages) /\ Len(sent) \in 1 .. Len(sent)
  BY <1>2, <1>3 DEF StreamInv, WritesLast, StreamTypes
<1> DEFINE d == DataOf(sent, Len(sent))
<1>5. /\ stream' = stream \o d
      /\ d \in Seq(Pairs)
      /\ input \in Seq(Pairs) /\ stream \in Seq(Pairs)
  BY <1>2, <1>3, <1>4, DataIs DEF Data, DataOf, StreamTypes
<1> HIDE DEF d
<1>6. Last = HeaderSize /\ ~Writing' /\ Last' = FullOf(sent, Len(sent))
  <2>1. Writing
    BY <1>2 DEF Writing
  <2>2. ~Writing'
    BY <1>0, <1>2, <1>3 DEF Writing, StreamTypes
  <2> QED
    BY <1>1, <1>2, <1>4, <2>1, <2>2 DEF Last
<1>7. Bytes' = Bytes \o d
  BY <1>2, <1>5, JoinedTwice DEF Bytes
<1>8. HeadTaken' = HeadTaken /\ Current' = Current
  BY <1>2 DEF HeadTaken, Current
<1>9. Chain(Bytes, sent, HeaderSize) /\ Front(Bytes, sent, HeaderSize, Current, HeadTaken)
  BY <1>6 DEF StreamInv
<1>10. /\ Chain(Bytes \o d, sent, FullOf(sent, Len(sent)))
       /\ Front(Bytes \o d, sent, FullOf(sent, Len(sent)), Current, HeadTaken)
  BY <1>1, <1>4, <1>9, DataAppended DEF d
<1>11. Chain(Bytes, sent, Last)' /\ Front(Bytes, sent, Last, Current, HeadTaken)'
  BY <1>2, <1>6, <1>7, <1>8, <1>10
<1>12. StreamTypes'
  <2>1. stream' \in Seq(Pairs)
    BY <1>5, JoinIs
  <2>2. writing' \in [Senders -> Nat \cup {Idle}]
    BY <1>2, <1>3 DEF StreamTypes
  <2> QED
    BY <1>2, <1>3, <2>1, <2>2 DEF StreamTypes
<1>13. WritesLast'
  BY <1>0, <1>2, <1>3 DEF WritesLast, StreamTypes
<1>14. SizeKept' /\ ModesApart'
  BY <1>2, <1>8 DEF StreamInv, SizeKept, ModesApart
<1>15. DeliveredInOrder'
  BY <1>2 DEF StreamInv, DeliveredInOrder, Data
<1>16. SignalCounts'
  BY <1>2 DEF StreamInv, SignalCounts, Locking
<1>17. NoneHidden'
  BY <1>2 DEF StreamInv, NoneHidden, AllKnown, FrameReady
<1>18. Ungarbled'
  BY <1>0, <1>2, <1>3 DEF StreamInv, Ungarbled, StreamTypes
<1> QED
  BY <1>11, <1>12, <1>13, <1>14, <1>15, <1>16, <1>17, <1>18 DEF StreamInv

\* Bytes arrive.
LEMMA BytesArrive ==
    ASSUME StreamInv, NEW n \in 1 .. Len(stream), default_bufferevent_read_cb(n)
    PROVE  StreamInv'
<1>1. /\ loop = "waiting"
      /\ input' = input \o First(stream, n)
      /\ stream' = Without(stream, n)
      /\ loop' = IF callback_set /\ Len(input') >= low THEN "callback" ELSE "waiting"
      /\ UNCHANGED <<low, callback_set, block, cache_block, read_signal, delivered, at, max_size,
                     writing, sent, garbled>>
  BY DEF default_bufferevent_read_cb, receiver, waiting, sender
<1>2. StreamTypes
  BY DEF StreamInv
<1>3. input \in Seq(Pairs) /\ stream \in Seq(Pairs) /\ n \in 0 .. Len(stream)
  BY <1>2 DEF StreamTypes
<1>4. Bytes' = Bytes
  BY <1>1, <1>3, MovedBytes DEF Bytes
<1>5. HeadTaken' = HeadTaken /\ Current' = Current /\ Last' = Last
  BY <1>1 DEF HeadTaken, Current, Last, Writing
<1>6. Chain(Bytes, sent, Last)' /\ Front(Bytes, sent, Last, Current, HeadTaken)'
  BY <1>1, <1>4, <1>5 DEF StreamInv
<1>7. StreamTypes'
  <2>1. input' \in Seq(Pairs) /\ stream' \in Seq(Pairs)
    BY <1>1, <1>3, WithoutIs, JoinIs
  <2> QED
    BY <1>1, <1>2, <2>1 DEF StreamTypes
<1>8. WritesLast' /\ SizeKept' /\ ModesApart'
  BY <1>1, <1>5 DEF StreamInv, WritesLast, SizeKept, ModesApart
<1>9. DeliveredInOrder'
  BY <1>1 DEF StreamInv, DeliveredInOrder, Data
<1>10. SignalCounts'
  BY <1>1 DEF StreamInv, SignalCounts, Locking
<1>11. NoneHidden'
  <2> SUFFICES ASSUME callback_set, loop' = "waiting" PROVE ~FrameReady'
    BY <1>1 DEF NoneHidden
  <2>1. ~(Len(input') >= low)
    BY <1>1
  <2>2. cache_block /\ low = block
    <3>1. Len(input') \in Nat
      BY <1>7 DEF StreamTypes
    <3> QED
      BY <2>1, <3>1 DEF StreamInv, ModesApart
  <2> QED
    BY <1>1, <2>1, <2>2 DEF FrameReady
<1>12. Ungarbled'
  BY <1>1 DEF StreamInv, Ungarbled
<1> QED
  BY <1>6, <1>7, <1>8, <1>9, <1>10, <1>11, <1>12 DEF StreamInv

\* A frame's data is handed over in its turn.
LEMMA FrameDelivered ==
    ASSUME StreamTypes, DeliveredInOrder, Current \in 1 .. Len(sent), sent' = sent,
           delivered' = Append(delivered, DataOf(sent, Current))
    PROVE  /\ delivered' \in Seq(Seq(Pairs)) /\ Len(delivered') = Len(delivered) + 1
           /\ delivered' # delivered /\ delivered'[Len(delivered')] = DataOf(sent, Current)
           /\ DeliveredInOrder'
<1> DEFINE d == DataOf(sent, Current)
           L == Len(delivered)
<1>1. /\ sent \in Seq(Messages) /\ DOMAIN sent = 1 .. Len(sent)
      /\ delivered \in Seq(Seq(Pairs)) /\ DOMAIN delivered = 1 .. L
      /\ L \in Nat /\ Current = L + 1
  BY DEF StreamTypes, Current
<1>2. d \in Seq(Pairs)
  BY <1>1, DataIs
<1>3. L + 1 \in DOMAIN sent /\ d = Data(L + 1)
  BY <1>1 DEF Data, DataOf
<1> HIDE DEF d
<1>4. delivered' = Append(delivered, d)
  BY DEF d
<1>5. delivered' \in Seq(Seq(Pairs)) /\ Len(delivered') = L + 1
  BY <1>1, <1>2, <1>4
<1>6. /\ DOMAIN delivered' = 1 .. L + 1
      /\ delivered'[L + 1] = d
      /\ \A i \in 1 .. L : delivered'[i] = delivered[i]
  BY <1>1, <1>2, <1>4
<1>7. ASSUME NEW i \in 1 .. L + 1 PROVE i \in DOMAIN sent /\ delivered'[i] = Data(i)
  <2>1. CASE i = L + 1
    BY <1>3, <1>6, <2>1
  <2>2. CASE i # L + 1
    <3>1. i \in 1 .. L
      BY <1>1, <2>2
    <3> QED
      BY <1>1, <1>6, <3>1 DEF DeliveredInOrder
  <2> QED
    BY <2>1, <2>2
<1>8. DeliveredInOrder'
  BY <1>6, <1>7 DEF DeliveredInOrder, Data
<1>9. delivered' # delivered
  <2> SUFFICES ASSUME delivered' = delivered PROVE FALSE
    OBVIOUS
  <2>1. Len(delivered') = L
    OBVIOUS
  <2> HIDE DEF L
  <2> QED
    BY <1>1, <1>5, <2>1
<1> QED
  BY <1>5, <1>6, <1>8, <1>9 DEF d

\* The last lines of a turn of read_callback_message_from_libevent.
LoopGoesOn ==
    \/ /\ delivered' = delivered
       /\ loop' = "waiting"
    \/ /\ delivered' # delivered
       /\ \E known \in KnownIn(delivered'[Len(delivered')]) :
              loop' = IF known THEN "callback" ELSE "waiting"

\* With the size of the frame in front known, readBuffer_NoWait reads its data
\* or keeps the size.
LEMMA FrameRead ==
    ASSUME StreamInv, callback_set, NEW bytes \in Seq(Pairs), NEW size, NEW signal,
           rw_w_unlock(signal) = 0,
           Chain(bytes \o stream, sent, Last), Front(bytes \o stream, sent, Last, Current, TRUE),
           size = sent[Current].size, readBuffer_NoWait(size, bytes, signal),
           LoopGoesOn,
           UNCHANGED <<stream, callback_set, waiting, sender>>
    PROVE  StreamInv'
<1> DEFINE b == bytes \o stream
           n == Current
<1>1. /\ Last \in Nat /\ Ends(sent, Last)
      /\ n \in Nat /\ n = Len(delivered) + 1 /\ Len(delivered) \in Nat
  BY Underway DEF StreamInv, StreamTypes
<1>2. StreamTypes
  BY DEF StreamInv
<1>3. /\ sent \in Seq(Messages) /\ stream \in Seq(Pairs)
      /\ delivered \in Seq(Seq(Pairs)) /\ DOMAIN sent = 1 .. Len(sent)
  BY <1>2 DEF StreamTypes
<1>4. b \in Seq(Pairs) /\ Len(b) = Len(bytes) + Len(stream)
  BY <1>3, JoinIs
<1>5. n \in 1 .. Len(sent)
  BY <1>1, <1>3, <1>4, CurrentSent
<1>6. /\ size \in Nat /\ size > HeaderSize /\ HeaderSize \in Nat
      /\ Len(bytes) \in Nat /\ Len(stream) \in Nat
  BY <1>3, <1>5, FrameSizes
<1>7. /\ UNCHANGED <<stream, callback_set, at, max_size, writing, sent, garbled>>
      /\ Last' = Last
  BY DEF waiting, sender, Last, Writing
<1>8. block' = size /\ read_signal' = 0
  BY DEF readBuffer_NoWait
<1>9. WritesLast' /\ Ungarbled'
  BY <1>7 DEF StreamInv, WritesLast, Ungarbled
<1>10. read_signal = 0 /\ SignalCounts'
  <2>1. Locking = {} /\ Locking' = {}
    BY <1>7 DEF StreamInv, ModesApart, Locking
  <2>2. Cardinality({}) = 0
    BY FS_EmptySet
  <2> QED
    BY <1>8, <2>1, <2>2 DEF StreamInv, SignalCounts
<1> HIDE DEF b, n
<1>11. CASE Len(bytes) < size
  <2>1. /\ input' = bytes /\ low' = size /\ cache_block' = TRUE
        /\ delivered' = delivered
    BY <1>6, <1>11 DEF readBuffer_NoWait
  <2>2. loop' = "waiting"
    BY <2>1 DEF LoopGoesOn
  <2>3. Bytes' = b /\ Current' = n /\ HeadTaken'
    BY <1>7, <2>1 DEF Bytes, Current, HeadTaken, b, n
  <2>4. Chain(Bytes, sent, Last)'
    BY <1>7, <2>3 DEF b
  <2>5. Front(Bytes, sent, Last, Current, HeadTaken)'
    BY <1>7, <2>3 DEF Front, b, n
  <2>6. StreamTypes'
    BY <1>2, <1>6, <1>7, <1>8, <2>1, <2>2 DEF StreamTypes
  <2>7. SizeKept' /\ ModesApart'
    <3>1. \A w \in Waiters : at'[w] = "idle"
      BY <1>7 DEF StreamInv, ModesApart
    <3> QED
      BY <1>7, <1>8, <2>1, <2>2, <2>3, <3>1 DEF SizeKept, ModesApart, n
  <2>8. DeliveredInOrder'
    BY <1>7, <2>1 DEF StreamInv, DeliveredInOrder, Data
  <2>9. NoneHidden'
    BY <1>6, <1>8, <1>11, <2>1 DEF NoneHidden, FrameReady
  <2> QED
    BY <1>9, <1>10, <2>4, <2>5, <2>6, <2>7, <2>8, <2>9 DEF StreamInv
<1>12. CASE Len(bytes) >= size
  <2> DEFINE d == DataOf(sent, n)
  <2>1. /\ input' = Without(bytes, size) /\ low' = 0 /\ cache_block' = FALSE
        /\ delivered' = Append(delivered, First(bytes, size))
    BY <1>6, <1>12 DEF readBuffer_NoWait
  <2>2. size \in 0 .. Len(bytes) /\ Len(b) >= sent[n].size /\ size = sent[n].size
    BY <1>4, <1>6, <1>12 DEF n
  <2>3. First(b, size) = First(bytes, size) /\ Without(b, size) = Without(bytes, size) \o stream
    BY <1>3, <2>2, TakenFromBoth DEF b
  <2>4. Chain(b, sent, Last) /\ Front(b, sent, Last, n, TRUE)
    BY DEF b, n
  <2>5. /\ First(b, size) = d
        /\ Chain(Without(b, size), sent, Last)
        /\ Front(Without(b, size), sent, Last, n + 1, FALSE)
    <3>1. Len(b) >= sent[n].size
      BY <2>2
    <3>2. /\ First(b, sent[n].size) = DataOf(sent, n)
          /\ Chain(Without(b, sent[n].size), sent, Last)
          /\ Front(Without(b, sent[n].size), sent, Last, n + 1, FALSE)
      BY <1>1, <1>3, <1>4, <2>4, <3>1, DataTaken
    <3>3. size = sent[n].size
      BY <2>2
    <3> QED
      BY <3>2, <3>3
  <2>6. d \in Seq(Pairs)
    BY <1>3, <1>5, DataIs
  <2>7. /\ delivered' \in Seq(Seq(Pairs)) /\ Len(delivered') = Len(delivered) + 1
        /\ delivered' # delivered /\ delivered'[Len(delivered')] = d
        /\ DeliveredInOrder'
    <3>1. delivered' = Append(delivered, d) /\ DeliveredInOrder
      BY <2>1, <2>3, <2>5 DEF StreamInv
    <3> QED
      BY <1>2, <1>5, <1>7, <3>1, FrameDelivered DEF n
  <2>8. Bytes' = Without(b, size) /\ Current' = n + 1 /\ ~HeadTaken'
    BY <1>1, <1>7, <2>1, <2>3, <2>7 DEF Bytes, Current, HeadTaken
  <2>9. Chain(Bytes, sent, Last)'
    BY <1>7, <2>5, <2>8
  <2>10. Front(Bytes, sent, Last, Current, HeadTaken)'
    BY <1>7, <2>5, <2>8 DEF Front
  <2>11. loop' = IF sent[n].known THEN "callback" ELSE "waiting"
    <3>1. KnownIn(d) = {sent[n].known}
      BY <1>2, <1>5, SizeRead
    <3> HIDE DEF d
    <3> QED
      BY <2>7, <3>1 DEF LoopGoesOn
  <2>12. StreamTypes'
    <3>1. input' \in Seq(Pairs)
      BY <2>1, <2>2, WithoutIs
    <3>2. loop' \in {"waiting", "callback"}
      BY <2>11
    <3>3. delivered' \in Seq(Seq(Pairs))
      BY <2>7
    <3> QED
      <4>0. cache_block' \in BOOLEAN
        BY <2>1, Zenon
      <4>1. low' \in Nat /\ block' \in Nat /\ read_signal' \in Int
        BY <1>6, <1>8, <2>1
      <4>2. /\ stream' \in Seq(Pairs) /\ sent' \in Seq(Messages) /\ callback_set' \in BOOLEAN
            /\ at' \in [Waiters -> {"idle", "block", "size", "data", "done"}]
            /\ max_size' \in [Waiters -> Nat]
            /\ writing' \in [Senders -> Nat \cup {Idle}]
        BY <1>2, <1>7 DEF StreamTypes
      <4> QED
        BY <3>1, <3>2, <3>3, <4>0, <4>1, <4>2 DEF StreamTypes
  <2>13. SizeKept' /\ ModesApart'
    <3>1. \A w \in Waiters : at'[w] = "idle"
      BY <1>7 DEF StreamInv, ModesApart
    <3> QED
      BY <1>7, <2>1, <2>8, <3>1 DEF SizeKept, ModesApart
  <2>14. NoneHidden'
    <3>1. AllKnown' => loop' = "callback"
      BY <1>3, <1>5, <1>7, <2>11 DEF AllKnown
    <3> QED
      BY <3>1 DEF NoneHidden
  <2> QED
    BY <1>9, <1>10, <2>7, <2>9, <2>10, <2>12, <2>13, <2>14 DEF StreamInv
<1> QED
  BY <1>6, <1>11, <1>12

\* One turn of the read callback.
LEMMA CallbackReads ==
    ASSUME StreamInv, read_callback_message_from_libevent
    PROVE  StreamInv'
<1>1. /\ Bytes \in Seq(Pairs) /\ Len(Bytes) = Len(input) + Len(stream)
      /\ Len(input) \in Nat /\ Len(stream) \in Nat
      /\ Last \in Nat /\ Ends(sent, Last)
      /\ Current \in Nat
      /\ HeadTaken => Current \in 1 .. Len(sent)
      /\ input # <<>> => Current \in 1 .. Len(sent)
  BY Underway
<1>2. StreamTypes
  BY DEF StreamInv
<1>3. input \in Seq(Pairs) /\ stream \in Seq(Pairs) /\ sent \in Seq(Messages)
  BY <1>2 DEF StreamTypes
<1>4. callback_set
  BY DEF read_callback_message_from_libevent, StreamInv, ModesApart
<1>5. HeadTaken <=> cache_block
  BY <1>4 DEF HeadTaken
<1>6. Chain(Bytes, sent, Last) /\ Front(Bytes, sent, Last, Current, HeadTaken)
  BY DEF StreamInv
<1>7. HeaderSize \in Nat \ {0}
  BY MessagesAssumption
<1>8. read_signal = 0
  <2>1. Locking = {}
    BY <1>4 DEF StreamInv, ModesApart, Locking
  <2> QED
    BY <2>1, FS_EmptySet DEF StreamInv, SignalCounts
<1>9. ASSUME Len(input) <= HeaderSize, loop' = "waiting",
             UNCHANGED <<input, low, receiver, stream, callback_set, waiting, sender>>
      PROVE  StreamInv'
  <2>1. UNCHANGED <<input, stream, low, callback_set, block, cache_block, read_signal, delivered,
                    at, max_size, writing, sent, garbled>>
    BY <1>9 DEF receiver, waiting, sender
  <2>2. Bytes' = Bytes /\ HeadTaken' = HeadTaken /\ Current' = Current /\ Last' = Last
    BY <2>1 DEF Bytes, HeadTaken, Current, Last, Writing
  <2>3. Chain(Bytes, sent, Last)' /\ Front(Bytes, sent, Last, Current, HeadTaken)'
    BY <1>6, <2>1, <2>2
  <2>4. StreamTypes'
    BY <1>2, <1>9, <2>1 DEF StreamTypes
  <2>5. WritesLast' /\ SizeKept' /\ ModesApart' /\ Ungarbled'
    BY <1>9, <2>1, <2>2 DEF StreamInv, WritesLast, SizeKept, ModesApart, Ungarbled
  <2>6. DeliveredInOrder' /\ SignalCounts'
    BY <2>1 DEF StreamInv, DeliveredInOrder, Data, SignalCounts, Locking
  <2>7. ~FrameReady
    <3>1. CASE cache_block
      <4>1. Current \in 1 .. Len(sent) /\ block = sent[Current].size
        BY <1>1, <1>5, <3>1 DEF StreamInv, SizeKept
      <4>2. block \in Nat /\ block > HeaderSize
        BY <1>3, <4>1, FrameSizes
      <4> QED
        BY <1>1, <1>7, <1>9, <3>1, <4>2 DEF FrameReady
    <3>2. CASE ~cache_block
      <4> SUFFICES ASSUME Len(input) >= HeaderSize, Len(input) >= HeaderSize + sent[Current].size
                   PROVE  FALSE
        BY <3>2 DEF FrameReady, Current
      <4>1. input # <<>>
        BY <1>7
      <4>2. sent[Current].size \in Nat /\ sent[Current].size > HeaderSize
        BY <1>1, <1>3, <4>1, FrameSizes
      <4> QED
        BY <1>1, <1>7, <1>9, <4>2
    <3> QED
      BY <3>1, <3>2
  <2>8. NoneHidden'
    BY <2>1, <2>7 DEF NoneHidden, FrameReady
  <2> QED
    BY <2>3, <2>4, <2>5, <2>6, <2>8 DEF StreamInv
<1>10. ASSUME cache_block, readBuffer_NoWait(block, input, read_signal),
              LoopGoesOn,
              UNCHANGED <<stream, callback_set, waiting, sender>>
       PROVE  StreamInv'
  <2>1. rw_w_unlock(read_signal) = 0
    BY <1>8 DEF rw_w_unlock
  <2>2. block = sent[Current].size
    BY <1>5, <1>10 DEF StreamInv, SizeKept
  <2>3. Chain(input \o stream, sent, Last) /\ Front(input \o stream, sent, Last, Current, TRUE)
    BY <1>5, <1>6, <1>10 DEF Bytes, Front
  <2> QED
    BY <1>3, <1>4, <1>10, <2>1, <2>2, <2>3, FrameRead
<1>11. ASSUME ~cache_block, Len(input) > HeaderSize, NEW size \in SizesIn(First(input, HeaderSize)),
              readBuffer_NoWait(size, Without(input, HeaderSize), rw_w_lock(read_signal)),
              LoopGoesOn,
              UNCHANGED <<stream, callback_set, waiting, sender>>
       PROVE  StreamInv'
  <2> DEFINE bytes == Without(input, HeaderSize)
  <2>1. rw_w_unlock(rw_w_lock(read_signal)) = 0
    BY <1>8 DEF rw_w_unlock, rw_w_lock
  <2>2. HeaderSize \in 0 .. Len(input) /\ Len(Bytes) >= HeaderSize
    BY <1>1, <1>7, <1>11
  <2>3. Front(Bytes, sent, Last, Current, FALSE)
    BY <1>5, <1>6, <1>11 DEF Front
  <2>4. /\ Current \in 1 .. Len(sent)
        /\ First(Bytes, HeaderSize) = Header(Current)
        /\ Chain(Without(Bytes, HeaderSize), sent, Last)
        /\ Front(Without(Bytes, HeaderSize), sent, Last, Current, TRUE)
    BY <1>1, <1>3, <1>6, <2>2, <2>3, HeaderTaken
  <2>5. /\ First(Bytes, HeaderSize) = First(input, HeaderSize)
        /\ Without(Bytes, HeaderSize) = bytes \o stream
    BY <1>3, <2>2, TakenFromBoth DEF Bytes
  <2>6. size = sent[Current].size
    <3>1. SizesIn(Header(Current)) = {sent[Current].size}
      BY <1>2, <2>4, SizeRead
    <3> QED
      BY <1>11, <2>4, <2>5, <3>1
  <2>7. bytes \in Seq(Pairs)
    BY <1>3, <2>2, WithoutIs
  <2>8. Chain(bytes \o stream, sent, Last) /\ Front(bytes \o stream, sent, Last, Current, TRUE)
    BY <2>4, <2>5
  <2> QED
    BY <1>4, <1>11, <2>1, <2>6, <2>7, <2>8, FrameRead
<1> QED
  BY <1>9, <1>10, <1>11
  DEF read_callback_message_from_libevent, recive_str_NoWait, LoopGoesOn

\* While one thread waits, and only when no callback is set: whether a header has
\* been taken, and the signal, depend on this thread alone.
LEMMA WaiterAlone ==
    ASSUME StreamInv, NEW w \in Waiters, AloneIn(at, w), at[w] # "idle" \/ ~callback_set
    PROVE  /\ ~callback_set /\ loop = "waiting"
           /\ HeadTaken <=> at[w] \in {"size", "data"}
           /\ read_signal = IF at[w] \in {"block", "size", "data"} THEN -1 ELSE 0
<1>1. ~callback_set /\ loop = "waiting"
  BY DEF StreamInv, ModesApart
<1>2. HeadTaken <=> at[w] \in {"size", "data"}
  BY <1>1 DEF HeadTaken, AloneIn
<1>3. read_signal = - Cardinality(Locking)
  BY DEF StreamInv, SignalCounts
<1>4. Cardinality(Locking) = IF at[w] \in {"block", "size", "data"} THEN 1 ELSE 0
  BY LockingOne DEF Locking
<1> QED
  BY <1>1, <1>2, <1>3, <1>4

\* The same after a step of the thread, if nothing else was changed in the mode.
LEMMA WaiterAloneNext ==
    ASSUME NEW w \in Waiters, AloneIn(at', w), ~callback_set, callback_set' = callback_set,
           loop' = loop, loop = "waiting",
           read_signal' = IF at'[w] \in {"block", "size", "data"} THEN -1 ELSE 0
    PROVE  /\ HeadTaken' <=> at'[w] \in {"size", "data"}
           /\ SignalCounts' /\ ModesApart' /\ NoneHidden'
<1>1. HeadTaken' <=> at'[w] \in {"size", "data"}
  BY DEF HeadTaken, AloneIn
<1>2. Cardinality(Locking') = IF at'[w] \in {"block", "size", "data"} THEN 1 ELSE 0
  BY LockingOne DEF Locking
<1>3. SignalCounts'
  BY <1>2 DEF SignalCounts
<1>4. ModesApart' /\ NoneHidden'
  BY DEF ModesApart, NoneHidden
<1> QED
  BY <1>1, <1>3, <1>4

\* The steps of a waiting thread that leave the bytes alone: taking the signal,
\* copying the size, forgetting the block.
LEMMA WaiterGoesOn ==
    ASSUME StreamInv, NEW w \in Waiters,
           recive_str_Wait(w) \/ readBuffer_Wait_size(w) \/ readBuffer_Wait_done(w),
           ~garbled'
    PROVE  StreamInv'
<1>1. StreamTypes
  BY DEF StreamInv
<1>2. /\ UNCHANGED <<stream, input, low, callback_set, loop, block, delivered, writing, sent>>
      /\ at' = [at EXCEPT ![w] = at'[w]]
      /\ \A v \in Waiters : v # w => at'[v] = at[v]
  BY <1>1 DEF recive_str_Wait, readBuffer_Wait_size, readBuffer_Wait_done, Goto, receiver, sender,
              StreamTypes
<1>3. at[w] # "idle" \/ ~callback_set
  BY DEF recive_str_Wait, readBuffer_Wait_size, readBuffer_Wait_done, Goto
<1>13. AloneIn(at, w) /\ AloneIn(at', w)
  <2>1. CASE recive_str_Wait(w)
    BY <1>2, <2>1 DEF recive_str_Wait, AloneIn
  <2>2. CASE readBuffer_Wait_size(w) \/ readBuffer_Wait_done(w)
    BY <1>2, <2>2 DEF readBuffer_Wait_size, readBuffer_Wait_done, Goto, StreamInv, Ungarbled,
                      AloneIn
  <2> QED
    BY <2>1, <2>2
<1>4. /\ ~callback_set /\ loop = "waiting"
      /\ HeadTaken <=> at[w] \in {"size", "data"}
      /\ read_signal = IF at[w] \in {"block", "size", "data"} THEN -1 ELSE 0
  BY <1>3, <1>13, WaiterAlone
\* What the three steps do with the locals of the thread and with the signal.
<1>5. /\ at' \in [Waiters -> {"idle", "block", "size", "data", "done"}]
      /\ max_size' \in [Waiters -> Nat] /\ read_signal' \in Int
      /\ read_signal' = IF at'[w] \in {"block", "size", "data"} THEN -1 ELSE 0
      /\ at[w] \in {"size", "data"} <=> at'[w] \in {"size", "data"}
      /\ at'[w] # "size"
      /\ at'[w] = "data" => max_size'[w] = block
  <2>1. CASE recive_str_Wait(w)
    BY <1>1, <1>4, <2>1 DEF recive_str_Wait, Goto, StreamTypes, rw_w_lock
  <2>2. CASE readBuffer_Wait_size(w)
    <3>1. cache_block
      BY <2>2 DEF readBuffer_Wait_size, Goto, StreamInv, SizeKept
    <3> QED
      BY <1>1, <1>4, <2>2, <3>1 DEF readBuffer_Wait_size, Goto, StreamTypes, receiver
  <2>3. CASE readBuffer_Wait_done(w)
    BY <1>1, <1>4, <2>3 DEF readBuffer_Wait_done, Goto, StreamTypes
  <2> QED
    BY <2>1, <2>2, <2>3
<1>6. cache_block' \in BOOLEAN
  <2>1. cache_block' = cache_block \/ cache_block' = FALSE
    BY DEF recive_str_Wait, readBuffer_Wait_size, readBuffer_Wait_done, receiver
  <2>2. cache_block \in BOOLEAN
    BY <1>1 DEF StreamTypes
  <2> QED
    BY <2>1, <2>2, Zenon
<1>7. StreamTypes'
  BY <1>1, <1>2, <1>5, <1>6 DEF StreamTypes
<1>8. /\ HeadTaken' <=> at'[w] \in {"size", "data"}
      /\ SignalCounts' /\ ModesApart' /\ NoneHidden'
  BY <1>2, <1>4, <1>5, <1>13, WaiterAloneNext
<1>9. Bytes' = Bytes /\ Current' = Current /\ Last' = Last /\ (HeadTaken' <=> HeadTaken)
  BY <1>2, <1>4, <1>5, <1>8 DEF Bytes, Current, Last, Writing
<1>10. Chain(Bytes, sent, Last)' /\ Front(Bytes, sent, Last, Current, HeadTaken)'
  BY <1>2, <1>9 DEF StreamInv, Front
<1>11. WritesLast' /\ DeliveredInOrder'
  BY <1>2 DEF StreamInv, WritesLast, DeliveredInOrder, Data
<1>12. SizeKept'
  <2>1. HeadTaken' => block' = sent'[Current'].size
    BY <1>2, <1>9 DEF StreamInv, SizeKept
  <2> QED
    BY <1>2, <1>5, <1>13, <2>1 DEF SizeKept, AloneIn
<1>14. Ungarbled'
  BY <1>2, <1>13 DEF StreamInv, Ungarbled, AloneIn
<1> QED
  BY <1>7, <1>8, <1>10, <1>11, <1>12, <1>14 DEF StreamInv

\* A waiting thread takes a header.
LEMMA WaiterTakesHeader ==
    ASSUME StreamInv, NEW w \in Waiters, readBufferControlBlock_Wait(w)
    PROVE  StreamInv'
<1>1. /\ Bytes \in Seq(Pairs) /\ Len(Bytes) = Len(input) + Len(stream)
      /\ Len(input) \in Nat /\ Len(stream) \in Nat
      /\ Last \in Nat /\ Ends(sent, Last) /\ Current \in Nat
  BY Underway
<1>2. StreamTypes
  BY DEF StreamInv
<1>3. input \in Seq(Pairs) /\ stream \in Seq(Pairs) /\ sent \in Seq(Messages)
  BY <1>2 DEF StreamTypes
<1>4. /\ at[w] = "block" /\ at' = [at EXCEPT ![w] = "size"] /\ at'[w] = "size"
      /\ Len(input) >= HeaderSize
      /\ block' \in SizesIn(First(input, HeaderSize))
      /\ cache_block' = TRUE
      /\ input' = Without(input, HeaderSize)
      /\ UNCHANGED <<stream, low, callback_set, loop, read_signal, delivered, max_size, writing,
                     sent, garbled>>
      /\ \A v \in Waiters : v # w => at'[v] = at[v]
  BY <1>2 DEF readBufferControlBlock_Wait, Goto, sender, StreamTypes
<1>18. AloneIn(at, w) /\ AloneIn(at', w)
  BY <1>4 DEF StreamInv, Ungarbled, AloneIn
<1>5. ~callback_set /\ loop = "waiting" /\ ~HeadTaken /\ read_signal = -1
  BY <1>4, <1>18, WaiterAlone
<1>6. HeadTaken' /\ SignalCounts' /\ ModesApart' /\ NoneHidden'
  <2>1. read_signal' = IF at'[w] \in {"block", "size", "data"} THEN -1 ELSE 0
    BY <1>4, <1>5
  <2> QED
    BY <1>4, <1>5, <1>18, <2>1, WaiterAloneNext
<1>7. HeaderSize \in 0 .. Len(input) /\ Len(Bytes) >= HeaderSize
  BY <1>1, <1>4, MessagesAssumption
<1>8. Chain(Bytes, sent, Last) /\ Front(Bytes, sent, Last, Current, FALSE)
  BY <1>5 DEF StreamInv, Front
<1>9. /\ Current \in 1 .. Len(sent)
      /\ First(Bytes, HeaderSize) = Header(Current)
      /\ Chain(Without(Bytes, HeaderSize), sent, Last)
      /\ Front(Without(Bytes, HeaderSize), sent, Last, Current, TRUE)
  BY <1>1, <1>3, <1>7, <1>8, HeaderTaken
<1>10. /\ First(Bytes, HeaderSize) = First(input, HeaderSize)
       /\ Without(Bytes, HeaderSize) = Without(input, HeaderSize) \o stream
  BY <1>3, <1>7, TakenFromBoth DEF Bytes
<1>11. block' = sent[Current].size
  <2>1. SizesIn(Header(Current)) = {sent[Current].size}
    BY <1>2, <1>9, SizeRead
  <2> QED
    BY <1>4, <1>9, <1>10, <2>1
<1>12. Bytes' = Without(Bytes, HeaderSize) /\ Current' = Current /\ Last' = Last
  BY <1>4, <1>10 DEF Bytes, Current, Last, Writing
<1>13. Chain(Bytes, sent, Last)'
  BY <1>4, <1>9, <1>12
<1>14. Front(Bytes, sent, Last, Current, HeadTaken)'
  BY <1>4, <1>6, <1>9, <1>12 DEF Front
<1>15. StreamTypes'
  <2>1. input' \in Seq(Pairs)
    BY <1>3, <1>4, <1>7, WithoutIs
  <2>2. block' \in Nat
    BY <1>3, <1>9, <1>11, FrameSizes
  <2>3. cache_block' \in BOOLEAN
    BY <1>4, Zenon
  <2>4. at' \in [Waiters -> {"idle", "block", "size", "data", "done"}]
    BY <1>2, <1>4 DEF StreamTypes
  <2> QED
    BY <1>2, <1>4, <2>1, <2>2, <2>3, <2>4 DEF StreamTypes
<1>16. WritesLast' /\ DeliveredInOrder'
  BY <1>4 DEF StreamInv, WritesLast, DeliveredInOrder, Data
<1>17. SizeKept'
  BY <1>4, <1>11, <1>12, <1>18 DEF SizeKept, AloneIn
<1>19. Ungarbled'
  BY <1>4, <1>18 DEF StreamInv, Ungarbled, AloneIn
<1> QED
  BY <1>6, <1>13, <1>14, <1>15, <1>16, <1>17, <1>19 DEF StreamInv

\* A waiting thread takes the data.
LEMMA WaiterTakesData ==
    ASSUME StreamInv, NEW w \in Waiters, readBuffer_Wait_data(w)
    PROVE  StreamInv'
<1> DEFINE n == Current
           size == max_size[w]
<1>1. /\ Bytes \in Seq(Pairs) /\ Len(Bytes) = Len(input) + Len(stream)
      /\ Len(input) \in Nat /\ Len(stream) \in Nat
      /\ Last \in Nat /\ Ends(sent, Last) /\ n \in Nat
      /\ HeadTaken => n \in 1 .. Len(sent)
  BY Underway
<1>2. StreamTypes
  BY DEF StreamInv
<1>3. input \in Seq(Pairs) /\ stream \in Seq(Pairs) /\ sent \in Seq(Messages)
  BY <1>2 DEF StreamTypes
<1>4. /\ at[w] = "data" /\ at' = [at EXCEPT ![w] = "done"] /\ at'[w] = "done"
      /\ Len(input) >= size
      /\ delivered' = Append(delivered, First(input, size))
      /\ input' = Without(input, size)
      /\ read_signal' = rw_w_unlock(read_signal)
      /\ UNCHANGED <<stream, low, callback_set, loop, block, cache_block, max_size, writing, sent,
                     garbled>>
      /\ \A v \in Waiters : v # w => at'[v] = at[v]
  BY <1>2 DEF readBuffer_Wait_data, Goto, sender, StreamTypes
<1>19. AloneIn(at, w) /\ AloneIn(at', w)
  BY <1>4 DEF StreamInv, Ungarbled, AloneIn
<1>5. ~callback_set /\ loop = "waiting" /\ HeadTaken /\ read_signal = -1
  BY <1>4, <1>19, WaiterAlone
<1>6. ~HeadTaken' /\ SignalCounts' /\ ModesApart' /\ NoneHidden' /\ read_signal' = 0
  <2>1. read_signal' = 0
    BY <1>4, <1>5 DEF rw_w_unlock
  <2>2. read_signal' = IF at'[w] \in {"block", "size", "data"} THEN -1 ELSE 0
    BY <1>4, <2>1
  <2> QED
    BY <1>4, <1>5, <1>19, <2>1, <2>2, WaiterAloneNext
<1>7. size = sent[n].size /\ n \in 1 .. Len(sent)
  BY <1>1, <1>4, <1>5 DEF StreamInv, SizeKept
<1>8. size \in 0 .. Len(input) /\ Len(Bytes) >= sent[n].size
  <2>1. sent[n].size \in Nat
    BY <1>3, <1>7, FrameSizes
  <2> HIDE DEF size, n
  <2> QED
    BY <1>1, <1>4, <1>7, <2>1
<1>9. Chain(Bytes, sent, Last) /\ Front(Bytes, sent, Last, n, TRUE)
  BY <1>5 DEF StreamInv, Front
<1> HIDE DEF n, size
<1>10. /\ First(Bytes, sent[n].size) = DataOf(sent, n)
       /\ Chain(Without(Bytes, sent[n].size), sent, Last)
       /\ Front(Without(Bytes, sent[n].size), sent, Last, n + 1, FALSE)
  BY <1>1, <1>3, <1>8, <1>9, DataTaken
<1>11. /\ First(Bytes, size) = First(input, size)
       /\ Without(Bytes, size) = Without(input, size) \o stream
  BY <1>3, <1>8, TakenFromBoth DEF Bytes
<1>12. /\ delivered' \in Seq(Seq(Pairs)) /\ Len(delivered') = Len(delivered) + 1
       /\ DeliveredInOrder'
  <2>1. delivered' = Append(delivered, DataOf(sent, n)) /\ DeliveredInOrder
    BY <1>4, <1>7, <1>10, <1>11 DEF StreamInv
  <2> QED
    BY <1>2, <1>4, <1>7, <2>1, FrameDelivered DEF n
<1>13. Bytes' = Without(Bytes, sent[n].size) /\ Current' = n + 1 /\ Last' = Last
  BY <1>4, <1>7, <1>11, <1>12 DEF Bytes, Current, Last, Writing, n
<1>14. Chain(Bytes, sent, Last)'
  BY <1>4, <1>10, <1>13
<1>15. Front(Bytes, sent, Last, Current, HeadTaken)'
  BY <1>4, <1>6, <1>10, <1>13 DEF Front
<1>16. StreamTypes'
  <2>1. input' \in Seq(Pairs)
    BY <1>3, <1>4, <1>8, WithoutIs
  <2>2. at' \in [Waiters -> {"idle", "block", "size", "data", "done"}]
    BY <1>2, <1>4 DEF StreamTypes
  <2>3. read_signal' \in Int /\ delivered' \in Seq(Seq(Pairs))
    BY <1>6, <1>12
  <2>4. /\ UNCHANGED <<stream, low, callback_set, loop, block, cache_block, max_size, writing,
                       sent>>
    BY <1>4
  <2> QED
    BY <1>2, <2>1, <2>2, <2>3, <2>4 DEF StreamTypes
<1>17. WritesLast'
  BY <1>4 DEF StreamInv, WritesLast
<1>18. SizeKept'
  BY <1>4, <1>6, <1>19 DEF SizeKept, AloneIn
<1>20. Ungarbled'
  BY <1>4, <1>19 DEF StreamInv, Ungarbled, AloneIn
<1> QED
  BY <1>6, <1>12, <1>14, <1>15, <1>16, <1>17, <1>18, <1>20 DEF StreamInv

\* A new connection, unless a callback meets a block that nobody read.
LEMMA StreamInit == ASSUME Init, ~garbled PROVE StreamInv
<1>1. /\ stream = <<>> /\ input = <<>> /\ low = 0 /\ callback_set \in BOOLEAN
      /\ loop = "waiting" /\ read_signal = 0 /\ sent = <<>> /\ delivered = <<>>
      /\ at = [w \in Waiters |-> "idle"]
      /\ max_size = [w \in Waiters |-> 0]
      /\ writing = [s \in Senders |-> Idle]
  BY DEF Init
<1>2. cache_block \in BOOLEAN /\ block \in Nat /\ (callback_set => cache_block = FALSE)
  <2>1. cache_block \in BOOLEAN
    BY StreamAssumption, Zenon DEF Init
  <2>2. Sizes \subseteq Nat
    BY MessagesAssumption DEF Sizes
  <2>3. block \in Nat
    BY <2>2 DEF Init
  <2>4. callback_set => ~cache_block
    BY DEF Init
  <2> QED
    BY <2>1, <2>3, <2>4
<1>3. ~HeadTaken /\ ~Writing /\ Bytes = <<>> /\ Current = 1 /\ Last = 0
  <2>1. ~HeadTaken
    BY <1>1, <1>2 DEF HeadTaken
  <2>2. ~Writing
    BY <1>1 DEF Writing
  <2>3. Bytes = <<>> /\ Current = 1
    BY <1>1 DEF Bytes, Current
  <2> QED
    BY <1>1, <2>1, <2>2, <2>3 DEF Last
<1>4. StreamTypes
  BY <1>1, <1>2 DEF StreamTypes
<1>5. WritesLast /\ SizeKept /\ ModesApart /\ DeliveredInOrder
  BY <1>1, <1>2, <1>3 DEF WritesLast, SizeKept, ModesApart, DeliveredInOrder
<1>10. Ungarbled
  BY <1>1 DEF Ungarbled
<1>6. Chain(Bytes, sent, Last)
  BY <1>3 DEF Chain
<1>7. Front(Bytes, sent, Last, Current, HeadTaken)
  <2>1. Current = Len(sent) + 1
    BY <1>1, <1>3
  <2> QED
    BY <1>3, <2>1, MessagesAssumption DEF Front
<1>8. SignalCounts
  <2>1. Locking = {}
    BY <1>1 DEF Locking
  <2> QED
    BY <1>1, <2>1, FS_EmptySet DEF SignalCounts
<1>9. NoneHidden
  <2>1. Len(input) = 0
    BY <1>1
  <2> QED
    BY <1>2, <2>1, MessagesAssumption DEF NoneHidden, FrameReady
<1> QED
  BY <1>4, <1>5, <1>6, <1>7, <1>8, <1>9, <1>10 DEF StreamInv

\* A step that changes nothing.
LEMMA StreamStutter == ASSUME StreamInv, UNCHANGED vars PROVE StreamInv'
<1>1. UNCHANGED <<stream, input, low, callback_set, loop, block, cache_block, read_signal,
                  delivered, at, max_size, writing, sent, garbled>>
  BY DEF vars, receiver, waiting, sender
<1>2. Bytes' = Bytes /\ HeadTaken' = HeadTaken /\ Current' = Current /\ Last' = Last
  BY <1>1 DEF Bytes, HeadTaken, Current, Last, Writing
<1>3. Chain(Bytes, sent, Last)' /\ Front(Bytes, sent, Last, Current, HeadTaken)'
  BY <1>1, <1>2 DEF StreamInv
<1>4. StreamTypes' /\ WritesLast' /\ SizeKept' /\ ModesApart' /\ Ungarbled'
  BY <1>1, <1>2 DEF StreamInv, StreamTypes, WritesLast, SizeKept, ModesApart, Ungarbled
<1>5. DeliveredInOrder' /\ SignalCounts'
  BY <1>1 DEF StreamInv, DeliveredInOrder, Data, SignalCounts, Locking
<1>6. NoneHidden'
  BY <1>1 DEF StreamInv, NoneHidden, AllKnown, FrameReady
<1> QED
  BY <1>3, <1>4, <1>5, <1>6 DEF StreamInv

\* What is garbled stays so.
LEMMA StaysGarbled == ASSUME [Next]_vars, garbled PROVE garbled'
<1>1. ASSUME NEW s \in Senders, Send(s) PROVE garbled'
  BY <1>1 DEF Send, writeBufferOnce_block, writeBufferOnce_data, writeBufferOnce_fails
<1>2. CASE Arrive
  BY <1>2 DEF Arrive, default_bufferevent_read_cb, sender
<1>3. CASE read_callback_message_from_libevent
  BY <1>3 DEF read_callback_message_from_libevent, sender
<1>4. ASSUME NEW w \in Waiters, Wait(w) PROVE garbled'
  BY <1>4 DEF Wait, recive_str_Wait, readBufferControlBlock_Wait, readBuffer_Wait_size,
              readBuffer_Wait_data, readBuffer_Wait_done, sender
<1>5. CASE UNCHANGED vars
  BY <1>5 DEF vars, sender
<1> QED
  BY <1>1, <1>2, <1>3, <1>4, <1>5 DEF Next

\* The bytes of a connection are those of the frames that were sent and are not
\* yet read, in every reachable state in which they are not garbled, whichever
\* threads send and wait.
THEOREM StreamInvariance == Spec => [](garbled \/ StreamInv)
<1>1. Init => garbled \/ StreamInv
  BY StreamInit
<1>2. (garbled \/ StreamInv) /\ [Next]_vars => (garbled \/ StreamInv)'
  <2> SUFFICES ASSUME StreamInv, [Next]_vars, ~garbled' PROVE StreamInv'
    BY StaysGarbled
  <2>1. ASSUME NEW s \in Senders, Send(s) PROVE StreamInv'
    BY <2>1, BlockWritten, DataWritten DEF Send, writeBufferOnce_fails
  <2>2. CASE Arrive
    BY <2>2, BytesArrive DEF Arrive
  <2>3. CASE read_callback_message_from_libevent
    BY <2>3, CallbackReads
  <2>4. ASSUME NEW w \in Waiters, Wait(w) PROVE StreamInv'
    BY <2>4, WaiterGoesOn, WaiterTakesHeader, WaiterTakesData DEF Wait
  <2>5. CASE UNCHANGED vars
    BY <2>5, StreamStutter
  <2> QED
    BY <2>1, <2>2, <2>3, <2>4, <2>5 DEF Next
<1> QED
  BY <1>1, <1>2, PTL DEF Spec

\* Whatever pieces the bytes arrive in, whether the callback reads or threads
\* wait, and whichever threads send, the frames come out whole, in order, and
\* with their own data, until they get garbled.
THEOREM InOrder == Spec => []FramesInOrder
<1>1. garbled \/ StreamInv => FramesInOrder
  BY DEF StreamInv, DeliveredInOrder, FramesInOrder
<1> QED
  BY <1>1, StreamInvariance, PTL

\* The read callback never returns with a complete frame in the buffer that is
\* not garbled: the watermark and the cached block do not hide one.
THEOREM NoneLeftBehind == Spec => []NoFrameLeftBehind
<1>1. garbled \/ StreamInv => NoFrameLeftBehind
  BY DEF StreamInv, NoneHidden, NoFrameLeftBehind
<1> QED
  BY <1>1, StreamInvariance, PTL

\* The read signal is taken as often as it is given back, although a resumed
\* frame unlocks what it has not locked, until two waiters overlap or the frames
\* get garbled otherwise.
THEOREM SignalBalanced == Spec => []ReadSignalBalanced
<1>1. garbled \/ StreamInv => ReadSignalBalanced
  BY DEF StreamInv, SignalCounts, ReadSignalBalanced
<1> QED
  BY <1>1, StreamInvariance, PTL

\* The data of the frames of s, one after the other.
DataSent(s) == [i \in DOMAIN s |-> Payload(i, s[i])]

\* The refinement mapping, before and after a step.
LEMMA DataSentIs ==
    /\ [i \in DOMAIN sent |-> Data(i)] = DataSent(sent)
    /\ [i \in DOMAIN sent |-> Data(i)]' = DataSent(sent')
BY Zenon DEF Data, DataSent, Payload

\* One message more is one frame's data more.
LEMMA PayloadIsData ==
    ASSUME NEW s \in Seq(Messages), NEW m \in Messages, Len(s) < MaxFrames
    PROVE  /\ DataSent(Append(s, m)) = Append(DataSent(s), Payload(Len(s) + 1, m))
           /\ Payload(Len(s) + 1, m) \in {Payload(i, n) : i \in 1 .. MaxFrames, n \in Messages}
<1> DEFINE A == [i \in 1 .. Len(s) |-> Payload(i, s[i])]
           S == {Payload(i, n) : i \in 1 .. MaxFrames, n \in Messages}
           x == Payload(Len(s) + 1, m)
<1>1. Len(s) \in Nat /\ DOMAIN s = 1 .. Len(s) /\ DOMAIN Append(s, m) = 1 .. Len(s) + 1
      /\ \A i \in 1 .. Len(s) : s[i] \in Messages
  OBVIOUS
<1>2. Len(s) + 1 \in 1 .. MaxFrames /\ \A i \in 1 .. Len(s) : i \in 1 .. MaxFrames
  BY <1>1, StreamAssumption
<1>3. x \in S /\ \A i \in 1 .. Len(s) : Payload(i, s[i]) \in S
  BY <1>1, <1>2
<1>4. A \in Seq(S) /\ Len(A) = Len(s) /\ \A i \in 1 .. Len(s) : A[i] = Payload(i, s[i])
  <2> HIDE DEF S
  <2> QED
    BY <1>1, <1>3
<1>5. DataSent(s) = A
  BY <1>1 DEF DataSent
<1>6. DataSent(Append(s, m)) = [i \in 1 .. Len(s) + 1 |-> Payload(i, Append(s, m)[i])]
  BY <1>1 DEF DataSent
<1>7. \A i \in 1 .. Len(s) + 1 :
         Payload(i, Append(s, m)[i]) = IF i = Len(s) + 1 THEN x ELSE A[i]
  <2>1. \A i \in 1 .. Len(s) + 1 : Append(s, m)[i] = IF i = Len(s) + 1 THEN m ELSE s[i]
    BY <1>1
  <2>2. \A i \in 1 .. Len(s) + 1 : i # Len(s) + 1 => i \in 1 .. Len(s)
    BY <1>1
  <2> QED
    BY <1>4, <2>1, <2>2
<1>8. Append(A, x) = [i \in 1 .. Len(s) + 1 |-> IF i = Len(s) + 1 THEN x ELSE A[i]]
  <2> HIDE DEF A, S, x
  <2>1. PICK r : r = Append(A, x)
    OBVIOUS
  <2>2. /\ r \in Seq(S) /\ Len(r) = Len(s) + 1
        /\ \A i \in 1 .. Len(s) + 1 : r[i] = IF i = Len(s) + 1 THEN x ELSE A[i]
    BY <1>1, <1>3, <1>4, <2>1
  <2>3. r = [i \in 1 .. Len(s) + 1 |-> r[i]]
    BY <1>1, <2>2
  <2> QED
    BY <2>1, <2>2, <2>3, Zenon
<1> HIDE DEF A
<1> QED
  BY <1>3, <1>5, <1>6, <1>7, <1>8

\* What a step that reads a frame does to the channel.
LEMMA ChannelGet ==
    ASSUME StreamInv, StreamInv', UNCHANGED sent,
           NEW d, delivered' = Append(delivered, d)
    PROVE  Channel!Next
<1>1. delivered \in Seq(Seq(Pairs)) /\ delivered' \in Seq(Seq(Pairs)) /\ sent \in Seq(Messages)
  BY DEF StreamInv, StreamTypes
<1>2. Len(delivered) \in Nat /\ Len(delivered') = Len(delivered) + 1
      /\ delivered'[Len(delivered) + 1] = d
  BY <1>1
<1>3. Len(delivered) + 1 \in DOMAIN sent /\ d = Data(Len(delivered) + 1)
  <2>1. Len(delivered) + 1 \in DOMAIN delivered'
    BY <1>1, <1>2
  <2> QED
    BY <1>2, <2>1 DEF StreamInv, DeliveredInOrder, Data
<1>4. Len(sent) \in Nat /\ DOMAIN sent = 1 .. Len(sent)
  BY <1>1
<1> DEFINE A == [i \in DOMAIN sent |-> Data(i)]
<1>5. A' = A
  BY DEF Data
<1>6. Len(A) = Len(sent) /\ A[Len(delivered) + 1] = d
  BY <1>3, <1>4
<1>7. Len(delivered) < Len(A)
  BY <1>2, <1>3, <1>4, <1>6
<1>8. Channel!Get
  BY <1>5, <1>6, <1>7 DEF Channel!Get, StreamInv, Ungarbled
<1> QED
  BY <1>8 DEF Channel!Next

\* A step of the connection is a step or a stutter of the channel.
LEMMA ChannelStep ==
    ASSUME StreamInv, StreamInv', [Next]_vars
    PROVE  [Channel!Next]_<<[i \in DOMAIN sent |-> Data(i)], delivered, garbled>>
<1>0. ~garbled /\ ~garbled'
  BY DEF StreamInv, Ungarbled
<1>1. CASE sent' = sent /\ delivered' = delivered
  <2>1. [i \in DOMAIN sent |-> Data(i)]' = [i \in DOMAIN sent |-> Data(i)]
    BY <1>1 DEF Data
  <2>2. garbled' = garbled
    BY DEF StreamInv, Ungarbled
  <2> QED
    BY <1>1, <2>1, <2>2
<1>2. ASSUME NEW s \in Senders, NEW m \in Messages, writeBufferOnce_block(s, m)
      PROVE  Channel!Next
  <2>1. sent \in Seq(Messages)
    BY DEF StreamInv, StreamTypes
  <2>2. sent' = Append(sent, m) /\ Len(sent) < MaxFrames /\ delivered' = delivered
    BY <1>2 DEF writeBufferOnce_block, receiver
  <2>3. Channel!Put(Payload(Len(sent) + 1, m))
    <3>1. DataSent(sent') = Append(DataSent(sent), Payload(Len(sent) + 1, m))
      BY <2>1, <2>2, PayloadIsData
    <3> QED
      BY <1>0, <2>2, <3>1, DataSentIs, Zenon DEF Channel!Put
  <2>4. Payload(Len(sent) + 1, m) \in {Payload(i, n) : i \in 1 .. MaxFrames, n \in Messages}
    BY <2>1, <2>2, PayloadIsData
  <2> QED
    BY <2>3, <2>4 DEF Channel!Next
<1>3. ASSUME NEW s \in Senders, writeBufferOnce_data(s) \/ writeBufferOnce_fails(s)
      PROVE  sent' = sent /\ delivered' = delivered
  BY <1>3 DEF writeBufferOnce_data, writeBufferOnce_fails, receiver
<1>4. CASE Arrive
  BY <1>1, <1>4 DEF Arrive, default_bufferevent_read_cb, receiver, sender
<1>5. CASE read_callback_message_from_libevent
  <2>1. sent' = sent
    BY <1>5 DEF read_callback_message_from_libevent, sender
  <2>2. delivered' = delivered \/ \E d : delivered' = Append(delivered, d)
    BY <1>5 DEF read_callback_message_from_libevent, recive_str_NoWait, readBuffer_NoWait, receiver
  <2> QED
    BY <1>1, <2>1, <2>2, ChannelGet
<1>6. ASSUME NEW w \in Waiters, Wait(w)
      PROVE  /\ sent' = sent
             /\ delivered' = delivered \/ \E d : delivered' = Append(delivered, d)
  BY <1>6 DEF Wait, recive_str_Wait, readBufferControlBlock_Wait, readBuffer_Wait_size,
              readBuffer_Wait_data, readBuffer_Wait_done, receiver, sender
<1>7. CASE UNCHANGED vars
  BY <1>1, <1>7 DEF vars, receiver, sender
<1> QED
  BY <1>1, <1>2, <1>3, <1>4, <1>5, <1>6, <1>7, ChannelGet DEF Next, Send

\* Until its frames get garbled a connection is a FIFO channel: a frame is sent in
\* the first write of writeBufferOnce and comes out in the step that takes the
\* last of its data, whole and after all those sent before it.
THEOREM ImplementsChannel == Spec => ImplementsFifoChannel
<1>1. Init => Channel!Init
  <2> SUFFICES ASSUME Init PROVE Channel!Init
    OBVIOUS
  <2>1. sent = <<>> /\ delivered = <<>>
    BY DEF Init
  <2>2. [i \in DOMAIN sent |-> Data(i)] = <<>>
    BY <2>1
  <2>3. garbled \in BOOLEAN
    BY DEF Init
  <2> QED
    BY <2>1, <2>2, <2>3 DEF Channel!Init
<1>2. (garbled \/ StreamInv) /\ (garbled \/ StreamInv)' /\ [Next]_vars
      => [Channel!Next]_<<[i \in DOMAIN sent |-> Data(i)], delivered, garbled>>
  <2> SUFFICES ASSUME garbled \/ StreamInv, (garbled \/ StreamInv)', [Next]_vars
               PROVE  [Channel!Next]_<<[i \in DOMAIN sent |-> Data(i)], delivered, garbled>>
    OBVIOUS
  <2>1. CASE garbled'
    BY <2>1 DEF Channel!Next, Channel!Break
  <2>2. CASE ~garbled'
    BY <2>2, StaysGarbled, ChannelStep
  <2> QED
    BY <2>1, <2>2
<1> QED
  BY <1>1, <1>2, StreamInvariance, PTL DEF Spec, ImplementsFifoChannel, Channel!Spec

=============================================================================
