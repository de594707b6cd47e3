----------------------------- MODULE JsonProofs -----------------------------
(***************************************************************************)
(* Proofs about JsonPacket: for every set of well-formed packets, every    *)
(* buffer length and every number of parses.                               *)
(*                                                                         *)
(* Two things are invariant while a text is read.  The stack is what the   *)
(* earlier parses left with, on top of it, what the events read so far of  *)
(* this text pushed: the tables below give it before each event of a call  *)
(* of the writer.  The buffer, the offsets and the names depend only on    *)
(* how many values the reader has met.                                     *)
(***************************************************************************)
EXTENDS JsonPacket, FiniteSetTheorems, SequenceTheorems, TLAPS

Count(p) == Len(p.items)

Notes(p) == Len(p.notes)

NoteKey(p, j) == p.notes[j].key

NoteOffset(p, j) == p.notes[j].offset

NoteSize(p, j) == p.notes[j].size

Size(p, v) == Len(Sent(p, v))

Array == Item("ARRAY", "")

Object == Item("OBJECT", "")

KeyItem(key) == Item("KEY", key)

----------------------------------------------------------------------------
(***************************************************************************)
(* The stack before event e of call c, over the stack b that the earlier   *)
(* parses left.                                                            *)
(***************************************************************************)

InText(b) == Append(b, Array)

InObject(b) == Append(InText(b), Object)

InNotes(b) == Append(InObject(b), Array)

InNote(b) == Append(InNotes(b), Object)

WithKey(b, key) == Append(b, KeyItem(key))

NoteNamed(b, key) == Append(InNote(b), Item("PTR_KEY", key))

NotePlaced(b, key, offset) == Append(NoteNamed(b, key), Item("PTR_OFFSET", offset))

HeaderStacks(b) ==
    << b, InText(b), InObject(b), WithKey(InObject(b), "SegmentType"), InObject(b),
       WithKey(InObject(b), "PacketHeader"), InObject(b), InText(b) >>

ItemStacks(b, key) ==
    << InText(b), InObject(b), WithKey(InObject(b), "SegmentType"), InObject(b),
       WithKey(InObject(b), key), InObject(b), InText(b) >>

NoteStacks(b, key, offset) ==
    << InText(b), InObject(b), WithKey(InObject(b), "SegmentType"), InObject(b),
       WithKey(InObject(b), "note_arry"), InNotes(b), InNote(b),
       WithKey(InNote(b), "ptr_key"), NoteNamed(b, key),
       WithKey(NoteNamed(b, key), "ptr_offset"), NotePlaced(b, key, offset),
       WithKey(NotePlaced(b, key, offset), "ptr_val"), InNote(b), InNotes(b),
       InObject(b), InText(b), b >>

\* The number of events that call c leaves out because it is not the first of its kind.
Skipped(p, c) ==
    IF c \in {1, 2, Count(p) + 2} THEN 0
    ELSE IF c <= Count(p) + 1 THEN 3 ELSE 5

Above(b, p, c, e) ==
    IF c = 1 THEN HeaderStacks(b)[e]
    ELSE IF c <= Count(p) + 1 THEN ItemStacks(b, KeyOf(p, c - 1))[e + Skipped(p, c)]
    ELSE IF c <= Count(p) + Notes(p) + 1
    THEN NoteStacks(b, NoteKey(p, c - 1 - Count(p)),
                    NoteOffset(p, c - 1 - Count(p)))[e + Skipped(p, c)]
    ELSE IF Notes(p) = 0 THEN InText(b) ELSE b

\* How many of the packet's values have been met before event e of call c.
Met(p, c, e) ==
    LET value == IF c = 1 THEN 6 ELSE IF c <= Count(p) + 1 THEN 5 ELSE 12
    IN  IF c <= Count(p) + Notes(p) + 1 /\ e + Skipped(p, c) > value THEN c ELSE c - 1

\* The arrays that the first n parses of q left on the stack.
Unended(q, n) == {m \in 1 .. n : q[m].notes = <<>>}

Left(q, n) == [i \in 1 .. Cardinality(Unended(q, n)) |-> Array]

----------------------------------------------------------------------------
(***************************************************************************)
(* The data, once n values of packet p have been met.                      *)
(***************************************************************************)

Byte == {"zero", "item", "note", "address"} \X Nat \X Nat

ItemsMet(p, n) == IF n <= Count(p) THEN n ELSE Count(p) + 1

Start(p, v) == item_ptr(KeyOf(p, v))

Stored(p, v) == Start(p, v) + Size(p, v) <= Len(bytes)

Stop(p, v) == IF Stored(p, v) THEN Start(p, v) + Size(p, v) ELSE Start(p, v)

BufferOK ==
    /\ bytes \in Seq(Byte)
    /\ tail_offset \in Nat /\ tail_offset <= Len(bytes)
    /\ object_ptrs \in Seq(Nat)

\* The items met have the last entries of object_ptrs, in order.
Named(p, n) ==
    /\ ItemsMet(p, n) <= Len(object_ptrs)
    /\ \A v \in 0 .. ItemsMet(p, n) - 1 :
          /\ KeyOf(p, v) \in DOMAIN name_id_map
          /\ name_id_map[KeyOf(p, v)] = Len(object_ptrs) - ItemsMet(p, n) + v + 1

\* They lie in the buffer one after the other.
InRow(p, n) ==
    /\ \A v \in 0 .. ItemsMet(p, n) - 1 :
          /\ Stop(p, v) <= tail_offset
          /\ \A w \in v + 1 .. ItemsMet(p, n) - 1 : Stop(p, v) <= Start(p, w)
          /\ v + 1 < ItemsMet(p, n) => Start(p, v + 1) = Stop(p, v)
    /\ 0 < n /\ n <= Count(p) + 1 => tail_offset = Stop(p, n - 1)

\* No note is for an item, other than the last, that was left out.
NotesHaveItems(p, n) ==
    \A j \in 1 .. Notes(p), v \in 0 .. ItemsMet(p, n) - 1 :
        v < Count(p) /\ NoteKey(p, j) = KeyOf(p, v) => Stored(p, v)

\* Byte k of item v is covered by the address of a note.
Covered(p, v, k) ==
    \E j \in 1 .. Notes(p) : /\ NoteKey(p, j) = KeyOf(p, v)
                             /\ k \in NoteOffset(p, j) + 1 .. NoteOffset(p, j) + PointerSize

Holds(p, v) ==
    \A k \in 1 .. Size(p, v) : bytes[Start(p, v) + k] = Sent(p, v)[k] \/ Covered(p, v, k)

Contents(p, n) ==
    NotesHaveItems(p, n) =>
        \A v \in 0 .. ItemsMet(p, n) - 1 :
            Stored(p, v) => Holds(p, v)

\* The offset of value v when every value before it is in the buffer.
Place(p, v) == Cardinality(Written(p, 0 .. v - 1))

Placed(p, n) ==
    Fits(p) => /\ tail_offset = Place(p, n)
               /\ \A v \in 0 .. ItemsMet(p, n) - 1 : Start(p, v) = Place(p, v)

\* The pointer of note j leads to its value.
PointsTo(p, j) ==
    /\ \A k \in 1 .. PointerSize :
          bytes[item_ptr(NoteKey(p, j)) + NoteOffset(p, j) + k]
              = <<"address", Place(p, Count(p) + j), k>>
    /\ \A k \in 1 .. NoteSize(p, j) :
          bytes[Place(p, Count(p) + j) + k] = <<"note", j, k>>

Pointed(p, n) == Fits(p) => \A j \in 1 .. n - 1 - Count(p) : PointsTo(p, j)

Data(p, n) ==
    /\ BufferOK
    /\ Named(p, n)
    /\ InRow(p, n)
    /\ Contents(p, n)
    /\ Placed(p, n)
    /\ Pointed(p, n)

----------------------------------------------------------------------------
(***************************************************************************)
(* The inductive invariant.                                                *)
(***************************************************************************)

\* The reader is at an event of the text or at its end.
At(p, c, e) ==
    \/ c \in 1 .. Len(Text(p)) /\ e \in 1 .. Len(Text(p)[c])
    \/ c = Len(Text(p)) + 1 /\ e = 1

\* The reader's place in the text of p, over the stack b of earlier parses.
InPlace(b, p) ==
    /\ At(p, call, event)
    /\ parse_stack = Above(b, p, call, event)
    /\ Data(p, Met(p, call, event))

Reading == parses # <<>> /\ InPlace(Left(parses, Len(parses) - 1), Packet)

JsonInv ==
    /\ parses \in Seq(Packets)
    /\ object_ptrs \in Seq(Nat)
    /\ status \in {"idle", "parsing", "crashed"}
    /\ failed = FALSE
    /\ status = "parsing" => Reading
    /\ status = "idle" => parse_stack = Left(parses, Len(parses))
    /\ ItemsReadBack /\ NotesPointToValues /\ WholeOrLeftOut

----------------------------------------------------------------------------
(***************************************************************************)
(* The values of a packet.                                                 *)
(***************************************************************************)

\* Sequences of items and of notes.
LEMMA ItemsType ==
    ASSUME NEW s \in Seq([key : STRING, size : Nat, number : BOOLEAN])
    PROVE  /\ Len(s) \in Nat
           /\ \A i \in 1 .. Len(s) : s[i].key \in STRING /\ s[i].size \in Nat
<1> DEFINE S == [key : STRING, size : Nat, number : BOOLEAN]
<1>1. s \in Seq(S)
  OBVIOUS
<1>2. \A i \in 1 .. Len(s) : s[i] \in S
  <2> HIDE DEF S
  <2> QED BY <1>1
<1>3. \A r \in S : r.key \in STRING /\ r.size \in Nat
  OBVIOUS
<1>4. Len(s) \in Nat
  <2> HIDE DEF S
  <2> QED OBVIOUS
<1>5. QED
  BY <1>2, <1>3, <1>4, Zenon

\* The same for the notes.
LEMMA NotesType ==
    ASSUME NEW s \in Seq([key : STRING, offset : Nat, size : Nat])
    PROVE  /\ Len(s) \in Nat
           /\ \A i \in 1 .. Len(s) : s[i].key \in STRING /\ s[i].offset \in Nat /\ s[i].size \in Nat
<1> DEFINE S == [key : STRING, offset : Nat, size : Nat]
<1>1. s \in Seq(S)
  OBVIOUS
<1>2. \A i \in 1 .. Len(s) : s[i] \in S
  <2> HIDE DEF S
  <2> QED BY <1>1
<1>3. \A r \in S : r.key \in STRING /\ r.offset \in Nat /\ r.size \in Nat
  OBVIOUS
<1>4. Len(s) \in Nat
  <2> HIDE DEF S
  <2> QED OBVIOUS
<1>5. QED
  BY <1>2, <1>3, <1>4, Zenon

\* The fields of a well-formed packet.
LEMMA PacketTypes ==
    ASSUME NEW p \in Packets
    PROVE  /\ Count(p) \in Nat /\ Notes(p) \in Nat
           /\ \A i \in 1 .. Count(p) : KeyOf(p, i) \in STRING /\ KeyOf(p, i) \notin Reserved
           /\ \A j \in 1 .. Notes(p) : /\ NoteKey(p, j) \in STRING
                                       /\ NoteOffset(p, j) \in Nat
                                       /\ NoteSize(p, j) \in Nat
<1>1. WellFormed(p)
  BY PacketsAssumption
<1>2. p.items \in Seq([key : STRING, size : Nat, number : BOOLEAN])
  BY <1>1, Zenon DEF WellFormed
<1>3. p.notes \in Seq([key : STRING, offset : Nat, size : Nat])
  BY <1>1, Zenon DEF WellFormed
<1>4. /\ Count(p) \in Nat
      /\ \A i \in 1 .. Count(p) : p.items[i].key \in STRING
  BY <1>2, ItemsType, Zenon DEF Count
<1>5. /\ Notes(p) \in Nat
      /\ \A j \in 1 .. Notes(p) : /\ NoteKey(p, j) \in STRING
                                  /\ NoteOffset(p, j) \in Nat
                                  /\ NoteSize(p, j) \in Nat
  BY <1>3, NotesType, Zenon DEF Notes, NoteKey, NoteOffset, NoteSize
<1>6. \A i \in 1 .. Count(p) : p.items[i].key \notin Reserved
  BY <1>1, Zenon DEF WellFormed, Count
<1>7. \A i \in 1 .. Count(p) : i # 0
  BY <1>4
<1>8. \A i \in 1 .. Count(p) : KeyOf(p, i) = p.items[i].key
  BY <1>7, Zenon DEF KeyOf
<1>9. QED
  BY <1>4, <1>5, <1>6, <1>8, Zenon

\* The numbers of the items and of all values.
LEMMA Ranges ==
    ASSUME NEW p \in Packets
    PROVE  Items(p) = 0 .. Count(p) /\ Values(p) = 0 .. Count(p) + Notes(p)
  BY Zenon DEF Items, Values, Count, Notes

\* A value is a sequence of bytes that know where they belong.
LEMMA ValueType ==
    ASSUME NEW kind \in {"zero", "item", "note", "address"}, NEW i \in Nat, NEW length \in Nat
    PROVE  /\ Value(kind, i, length) \in Seq(Byte)
           /\ Len(Value(kind, i, length)) = length
           /\ \A k \in 1 .. length : Value(kind, i, length)[k] = <<kind, i, k>>
<1> DEFINE f == [k \in 1 .. length |-> <<kind, i, k>>]
<1>1. \A k \in Nat : <<kind, i, k>> \in Byte
  BY Zenon DEF Byte
<1>2. \A k \in 1 .. length : k \in Nat
  OBVIOUS
<1>3. \A k \in 1 .. length : f[k] \in Byte
  BY <1>1, <1>2, Zenon
<1>4. DOMAIN f = 1 .. length
  OBVIOUS
<1>5. f \in [1 .. length -> Byte]
  BY <1>3, <1>4
<1>6. \A k \in 1 .. length : f[k] = <<kind, i, k>>
  OBVIOUS
<1>7. f \in Seq(Byte) /\ Len(f) = length
  <2> HIDE DEF f
  <2> QED BY <1>5
<1>8. Value(kind, i, length) = f
  BY Zenon DEF Value
<1>9. QED
  <2> HIDE DEF f
  <2> QED BY <1>6, <1>7, <1>8

\* The value of note j.
LEMMA SentNote ==
    ASSUME NEW p \in Packets, NEW j \in 1 .. Notes(p)
    PROVE  /\ Count(p) + j \in Values(p)
           /\ Sent(p, Count(p) + j) \in Seq(Byte)
           /\ Size(p, Count(p) + j) = NoteSize(p, j)
           /\ \A k \in 1 .. NoteSize(p, j) : Sent(p, Count(p) + j)[k] = <<"note", j, k>>
<1>1. Count(p) \in Nat /\ Notes(p) \in Nat /\ NoteSize(p, j) \in Nat
  BY PacketTypes
<1>2. Count(p) + j > Count(p) /\ (Count(p) + j) - Count(p) = j /\ j \in Nat
  BY <1>1
<1>3. Sent(p, Count(p) + j) = Value("note", j, NoteSize(p, j))
  BY <1>2, Zenon DEF Sent, Count, NoteSize
<1>4. Count(p) + j \in Values(p)
  BY <1>1, Ranges
<1>5. "note" \in {"zero", "item", "note", "address"}
  OBVIOUS
<1>6. /\ Value("note", j, NoteSize(p, j)) \in Seq(Byte)
      /\ Len(Value("note", j, NoteSize(p, j))) = NoteSize(p, j)
      /\ \A k \in 1 .. NoteSize(p, j) : Value("note", j, NoteSize(p, j))[k] = <<"note", j, k>>
  BY <1>1, <1>2, <1>5, ValueType, Zenon
<1>7. QED
  BY <1>3, <1>4, <1>6, Zenon DEF Size

\* The value of an item.
LEMMA SentItem ==
    ASSUME NEW p \in Packets, NEW v \in Items(p)
    PROVE  \E length \in Nat : Sent(p, v) = Value("item", v, length)
<1>1. Count(p) \in Nat
  BY PacketTypes
<1>2. v \in Nat /\ ~(v > Count(p)) /\ (v = 0 \/ v \in 1 .. Count(p))
  BY <1>1, Ranges
<1>3. UintSize \in Nat
  BY PacketAssumption
<1>4. p.header \in Nat
  BY PacketsAssumption, Zenon DEF WellFormed
<1>5. p.items \in Seq([key : STRING, size : Nat, number : BOOLEAN])
  BY PacketsAssumption, Zenon DEF WellFormed
<1>6. \A i \in 1 .. Count(p) : p.items[i].size \in Nat
  BY <1>5, ItemsType, Zenon DEF Count
<1>7. Sent(p, v) = Value("item", v, IF v = 0 THEN p.header
                         ELSE IF p.items[v].number THEN UintSize ELSE p.items[v].size)
  BY <1>2, Zenon DEF Sent, Count
<1>8. CASE v = 0
  BY <1>4, <1>7, <1>8, Zenon
<1>9. CASE v # 0
  <2>1. p.items[v].size \in Nat
    BY <1>2, <1>6, <1>9, Zenon
  <2>2. Sent(p, v) = Value("item", v, IF p.items[v].number THEN UintSize ELSE p.items[v].size)
    BY <1>7, <1>9, Zenon
  <2>3. QED
    BY <1>3, <2>1, <2>2, Zenon
<1>10. QED
  BY <1>8, <1>9, Zenon

\* A value is a sequence of bytes.
LEMMA SentType ==
    ASSUME NEW p \in Packets, NEW v \in Values(p)
    PROVE  Sent(p, v) \in Seq(Byte) /\ Size(p, v) \in Nat
<1>1. Count(p) \in Nat /\ Notes(p) \in Nat
  BY PacketTypes
<1>2. Sent(p, v) \in Seq(Byte)
  <2>1. CASE v > Count(p)
    <3>1. v - Count(p) \in 1 .. Notes(p) /\ v = Count(p) + (v - Count(p))
      BY <1>1, <2>1, Ranges
    <3>2. QED
      BY <3>1, SentNote
  <2>2. CASE v <= Count(p)
    <3>1. v \in Items(p) /\ v \in Nat
      BY <1>1, <2>2, Ranges
    <3>2. PICK length \in Nat : Sent(p, v) = Value("item", v, length)
      BY <3>1, SentItem, Zenon
    <3>3. "item" \in {"zero", "item", "note", "address"}
      OBVIOUS
    <3>4. Value("item", v, length) \in Seq(Byte)
      BY <3>1, <3>3, ValueType, Zenon
    <3>5. QED
      BY <3>2, <3>4, Zenon
  <2>3. QED
    BY <1>1, <2>1, <2>2, Ranges
<1>3. QED
  BY <1>2 DEF Size

\* The keys of a packet differ, and a note is for an item of its packet.
LEMMA KeysDiffer ==
    ASSUME NEW p \in Packets, NEW v \in Items(p), NEW w \in Items(p),
           KeyOf(p, v) = KeyOf(p, w)
    PROVE  v = w
<1>1. Count(p) \in Nat
  BY PacketTypes
<1>2. /\ v = 0 \/ v \in 1 .. Count(p)
      /\ w = 0 \/ w \in 1 .. Count(p)
  BY <1>1, Ranges
<1>3. \A i \in 1 .. Count(p) : i # 0 /\ KeyOf(p, i) # "PacketHeader"
  BY <1>1, PacketTypes DEF Reserved
<1>4. KeyOf(p, 0) = "PacketHeader"
  BY Zenon DEF KeyOf
<1>5. \A i, k \in 1 .. Count(p) : KeyOf(p, i) = KeyOf(p, k) => i = k
  <2>1. \A i, k \in 1 .. Count(p) : p.items[i].key = p.items[k].key => i = k
    BY PacketsAssumption, Zenon DEF WellFormed, Count
  <2>2. QED
    BY <1>3, <2>1, Zenon DEF KeyOf
<1>6. QED
  BY <1>2, <1>3, <1>4, <1>5

\* Every note is for a pointer inside an item (WellFormed).
LEMMA NoteItem ==
    ASSUME NEW p \in Packets, NEW j \in 1 .. Notes(p)
    PROVE  \E v \in Items(p) : /\ NoteKey(p, j) = KeyOf(p, v)
                               /\ NoteOffset(p, j) + PointerSize <= Size(p, v)
  BY PacketsAssumption, Zenon DEF WellFormed, Notes, NoteKey, NoteOffset, Size

\* The pointers of two notes for one item do not overlap (WellFormed).
LEMMA NotesApart ==
    ASSUME NEW p \in Packets, NEW j \in 1 .. Notes(p), NEW k \in 1 .. Notes(p), j # k,
           NoteKey(p, j) = NoteKey(p, k)
    PROVE  \/ NoteOffset(p, j) + PointerSize <= NoteOffset(p, k)
           \/ NoteOffset(p, k) + PointerSize <= NoteOffset(p, j)
  BY PacketsAssumption, Zenon DEF WellFormed, Notes, NoteKey, NoteOffset

----------------------------------------------------------------------------
(***************************************************************************)
(* Places: how many bytes come before a value.                             *)
(***************************************************************************)

\* The bytes of one value, counted.
LEMMA WrittenOne ==
    ASSUME NEW p \in Packets, NEW v \in Values(p)
    PROVE  /\ IsFiniteSet({v} \X (1 .. Size(p, v)))
           /\ Cardinality({v} \X (1 .. Size(p, v))) = Size(p, v)
<1>1. Size(p, v) \in Nat
  BY SentType
<1>2. IsFiniteSet({v}) /\ Cardinality({v}) = 1
  BY FS_Singleton
<1>3. /\ IsFiniteSet(1 .. Size(p, v))
      /\ Cardinality(1 .. Size(p, v)) = Size(p, v)
  BY <1>1, FS_Interval
<1>4. /\ IsFiniteSet({v} \X (1 .. Size(p, v)))
      /\ Cardinality({v} \X (1 .. Size(p, v))) = Cardinality({v}) * Cardinality(1 .. Size(p, v))
  BY <1>2, <1>3, FS_Product, Zenon
<1>5. Cardinality({v}) * Cardinality(1 .. Size(p, v)) = Size(p, v)
  <2>1. \A n \in Nat : 1 * n = n
    OBVIOUS
  <2>2. QED
    BY <1>1, <1>2, <1>3, <2>1, Zenon
<1>6. QED
  BY <1>4, <1>5, Zenon

\* Any values of a packet have finitely many bytes.
LEMMA WrittenFinite ==
    ASSUME NEW p \in Packets, NEW vs, vs \subseteq Values(p)
    PROVE  IsFiniteSet(Written(p, vs)) /\ Cardinality(Written(p, vs)) \in Nat
<1> DEFINE One == [v \in vs |-> {v} \X (1 .. Size(p, v))]
           Ones == {One[v] : v \in vs}
<1>1. Count(p) \in Nat /\ Notes(p) \in Nat
  BY PacketTypes
<1>2. IsFiniteSet(Values(p))
  <2>1. Values(p) = 0 .. Count(p) + Notes(p) /\ 0 \in Int /\ Count(p) + Notes(p) \in Int
    BY <1>1, Ranges
  <2>2. QED
    BY <2>1, FS_Interval
<1>3. IsFiniteSet(vs)
  BY <1>2, FS_Subset
<1>4. One \in Surjection(vs, Ones)
  BY DEF Surjection
<1>5. IsFiniteSet(Ones)
  <2> HIDE DEF One, Ones
  <2> QED BY <1>3, <1>4, FS_Surjection
<1>6. \A T \in Ones : IsFiniteSet(T)
  <2>1. \A v \in vs : IsFiniteSet({v} \X (1 .. Size(p, v)))
    BY WrittenOne
  <2>2. QED
    BY <2>1
<1>7. IsFiniteSet(UNION Ones)
  <2> HIDE DEF Ones
  <2> QED BY <1>5, <1>6, FS_UNION
<1>8. Written(p, vs) = UNION Ones
  BY DEF Written, Size
<1>9. QED
  BY <1>7, <1>8, FS_CardinalityType

\* The bytes of two disjoint sets of values add up.
LEMMA WrittenSum ==
    ASSUME NEW p \in Packets, NEW vs, NEW ws, vs \subseteq Values(p), ws \subseteq Values(p),
           vs \cap ws = {}
    PROVE  Cardinality(Written(p, vs \cup ws))
               = Cardinality(Written(p, vs)) + Cardinality(Written(p, ws))
<1>1. Written(p, vs \cup ws) = Written(p, vs) \cup Written(p, ws)
  BY DEF Written
<1>2. Written(p, vs) \cap Written(p, ws) = {}
  <2>1. SUFFICES ASSUME NEW b, b \in Written(p, vs), b \in Written(p, ws) PROVE FALSE
    OBVIOUS
  <2>2. b[1] \in vs
    BY <2>1 DEF Written
  <2>3. b[1] \in ws
    BY <2>1 DEF Written
  <2>4. QED
    BY <2>2, <2>3
<1>3. IsFiniteSet(Written(p, vs)) /\ Cardinality(Written(p, vs)) \in Nat
  BY WrittenFinite
<1>4. IsFiniteSet(Written(p, ws)) /\ Cardinality(Written(p, ws)) \in Nat
  BY WrittenFinite
<1>5. Cardinality(Written(p, vs) \cap Written(p, ws)) = 0
  BY <1>2, FS_EmptySet
<1>6. Cardinality(Written(p, vs) \cup Written(p, ws))
          = Cardinality(Written(p, vs)) + Cardinality(Written(p, ws))
            - Cardinality(Written(p, vs) \cap Written(p, ws))
  BY <1>3, <1>4, FS_Union
<1>7. \A a, b \in Nat : a + b - 0 = a + b
  OBVIOUS
<1>8. QED
  BY <1>1, <1>3, <1>4, <1>5, <1>6, <1>7, Zenon

\* Values lie in the order they were written.
LEMMA PlaceOrder ==
    ASSUME NEW p \in Packets, NEW w \in 0 .. Count(p) + Notes(p) + 1, NEW v \in 0 .. w
    PROVE  /\ Place(p, v) \in Nat /\ Place(p, w) \in Nat
           /\ Cardinality(Written(p, v .. w - 1)) \in Nat
           /\ Place(p, w) = Place(p, v) + Cardinality(Written(p, v .. w - 1))
           /\ Place(p, v) <= Place(p, w)
<1>1. Count(p) \in Nat /\ Notes(p) \in Nat
  BY PacketTypes
<1>2. 0 .. w - 1 \subseteq Values(p) /\ 0 .. v - 1 \subseteq Values(p) /\ v .. w - 1 \subseteq Values(p)
  BY <1>1, Ranges
<1>3. 0 .. w - 1 = (0 .. v - 1) \cup (v .. w - 1) /\ (0 .. v - 1) \cap (v .. w - 1) = {}
  BY <1>1
<1>4. /\ Place(p, v) \in Nat /\ Place(p, w) \in Nat
      /\ Cardinality(Written(p, v .. w - 1)) \in Nat
  BY <1>2, WrittenFinite DEF Place
<1>5. Cardinality(Written(p, (0 .. v - 1) \cup (v .. w - 1)))
         = Cardinality(Written(p, 0 .. v - 1)) + Cardinality(Written(p, v .. w - 1))
  BY <1>2, <1>3, WrittenSum
<1>6. Place(p, w) = Place(p, v) + Cardinality(Written(p, v .. w - 1))
  BY <1>3, <1>5, Zenon DEF Place
<1>7. QED
  BY <1>4, <1>6

\* A value begins where the one before it ends.
LEMMA PlaceNext ==
    ASSUME NEW p \in Packets, NEW v \in Values(p)
    PROVE  /\ Place(p, v) \in Nat
           /\ Place(p, v + 1) = Place(p, v) + Size(p, v)
<1>1. Count(p) \in Nat /\ Notes(p) \in Nat
  BY PacketTypes
<1>2. v \in Nat /\ v + 1 \in 0 .. Count(p) + Notes(p) + 1 /\ v \in 0 .. v + 1
  BY <1>1, Ranges
<1>3. /\ Place(p, v) \in Nat
      /\ Place(p, v + 1) = Place(p, v) + Cardinality(Written(p, v .. (v + 1) - 1))
  BY <1>2, PlaceOrder
<1>4. v .. (v + 1) - 1 = {v}
  BY <1>2
<1>5. Written(p, {v}) = {v} \X (1 .. Size(p, v))
  BY DEF Written, Size
<1>6. Cardinality(Written(p, v .. (v + 1) - 1)) = Size(p, v)
  BY <1>4, <1>5, WrittenOne
<1>7. QED
  BY <1>3, <1>6

\* The header begins at offset 0.
LEMMA PlaceZero ==
    ASSUME NEW p \in Packets
    PROVE  Place(p, 0) = 0
<1>1. 0 .. 0 - 1 = {}
  OBVIOUS
<1>2. Written(p, {}) = {}
  BY DEF Written
<1>3. QED
  BY <1>1, <1>2, FS_EmptySet DEF Place

\* What the values of the notes take, and what the buffer must hold.
LEMMA FitsPlace ==
    ASSUME NEW p \in Packets
    PROVE  /\ Place(p, Count(p) + Notes(p) + 1) = Cardinality(Written(p, Values(p)))
           /\ NoteSizes(p) \in Nat
           /\ Place(p, Count(p) + Notes(p) + 1) = Place(p, Count(p) + 1) + NoteSizes(p)
<1>1. Count(p) \in Nat /\ Notes(p) \in Nat
  BY PacketTypes
<1>2. Values(p) = 0 .. (Count(p) + Notes(p) + 1) - 1
  BY <1>1, Ranges
<1>3. Values(p) \ Items(p) = Count(p) + 1 .. (Count(p) + Notes(p) + 1) - 1
  BY <1>1, Ranges
<1>4. /\ Count(p) + Notes(p) + 1 \in 0 .. Count(p) + Notes(p) + 1
      /\ Count(p) + 1 \in 0 .. Count(p) + Notes(p) + 1
  BY <1>1
<1>5. /\ Cardinality(Written(p, Count(p) + 1 .. (Count(p) + Notes(p) + 1) - 1)) \in Nat
      /\ Place(p, Count(p) + Notes(p) + 1) = Place(p, Count(p) + 1)
             + Cardinality(Written(p, Count(p) + 1 .. (Count(p) + Notes(p) + 1) - 1))
  BY <1>4, PlaceOrder
<1>6. NoteSizes(p) = Cardinality(Written(p, Count(p) + 1 .. (Count(p) + Notes(p) + 1) - 1))
  BY <1>3, Zenon DEF NoteSizes
<1>7. Place(p, Count(p) + Notes(p) + 1) = Cardinality(Written(p, Values(p)))
  BY <1>2, Zenon DEF Place
<1>8. QED
  BY <1>5, <1>6, <1>7, Zenon

----------------------------------------------------------------------------
(***************************************************************************)
(* The buffer.                                                             *)
(***************************************************************************)

\* The bytes c and the tail u after length bytes of data are put at offset o
\* of the bytes b with tail t.
PutDone(b, t, o, data, length, c, u) ==
    /\ c \in Seq(Byte) /\ Len(c) = Len(b)
    /\ u \in Nat /\ u <= Len(b) /\ t <= u
    /\ o + length > Len(b) => c = b /\ u = t
    /\ o + length <= Len(b) =>
           /\ u = IF o + length > t THEN o + length ELSE t
           /\ \A k \in 1 .. length : c[o + k] = data[k]
    /\ \A a \in 1 .. Len(b) : a \notin o + 1 .. o + length => c[a] = b[a]

\* put writes all of the data or nothing, and touches no other byte.
LEMMA PutEffect ==
    ASSUME NEW b \in Seq(Byte), NEW t \in Nat, t <= Len(b), NEW o \in Nat,
           NEW data \in Seq(Byte), NEW length, length = Len(data),
           NEW c, NEW u, <<c, u>> = put(<<b, t>>, o, data)
    PROVE  PutDone(b, t, o, data, length, c, u)
<1> DEFINE f == [a \in DOMAIN b |-> IF a - o \in DOMAIN data THEN data[a - o] ELSE b[a]]
<1>1. length \in Nat /\ DOMAIN data = 1 .. length /\ DOMAIN b = 1 .. Len(b) /\ Len(b) \in Nat
  OBVIOUS
<1>2. CASE o + length > Len(b)
  <2>1. put(<<b, t>>, o, data) = <<b, t>>
    BY <1>2 DEF put
  <2>2. c = b /\ u = t
    BY <2>1
  <2>3. QED
    BY <1>1, <1>2, <2>2 DEF PutDone
<1>3. CASE o + length <= Len(b)
  <2>1. ~(o + Len(data) > Len(b))
    BY <1>1, <1>3
  <2>2. put(<<b, t>>, o, data) = <<f, IF o + length > t THEN o + length ELSE t>>
    BY <2>1 DEF put
  <2>3. c = f /\ u = IF o + length > t THEN o + length ELSE t
    <3> HIDE DEF f
    <3> QED BY <2>2
  <2>4. \A a \in 1 .. Len(b) : f[a] = IF a - o \in 1 .. length THEN data[a - o] ELSE b[a]
    BY <1>1
  <2>5. DOMAIN f = 1 .. Len(b)
    BY <1>1
  <2>6. \A a \in 1 .. Len(b) : f[a] \in Byte
    <3>1. (\A k \in 1 .. length : data[k] \in Byte) /\ (\A a \in 1 .. Len(b) : b[a] \in Byte)
      OBVIOUS
    <3>2. QED
      BY <2>4, <3>1, Zenon
  <2>7. f \in [1 .. Len(b) -> Byte]
    BY <2>5, <2>6
  <2>8. f \in Seq(Byte) /\ Len(f) = Len(b)
    <3> HIDE DEF f
    <3> QED BY <1>1, <2>7
  <2>9. \A k \in 1 .. length : f[o + k] = data[k]
    <3> HIDE DEF f
    <3>1. TAKE k \in 1 .. length
    <3>2. o + k \in 1 .. Len(b) /\ (o + k) - o = k
      BY <1>1, <1>3
    <3>3. QED
      BY <2>4, <3>2
  <2>10. \A a \in 1 .. Len(b) : a \notin o + 1 .. o + length => f[a] = b[a]
    <3> HIDE DEF f
    <3>1. TAKE a \in 1 .. Len(b)
    <3>2. a \notin o + 1 .. o + length => a - o \notin 1 .. length
      BY <1>1
    <3>3. QED
      BY <2>4, <3>2
  <2>11. u \in Nat /\ u <= Len(b) /\ t <= u
    BY <1>1, <1>3, <2>3
  <2> HIDE DEF f
  <2>12. QED
    BY <1>1, <1>3, <2>3, <2>8, <2>9, <2>10, <2>11 DEF PutDone
<1>4. QED
  BY <1>1, <1>2, <1>3

\* What the callbacks do with the value of item n, and with that of note j.
ItemStep(p, n) ==
    /\ set_buffer(append(buffer, Sent(p, n)))
    /\ name_item(KeyOf(p, n))

NoteStep(p, j) ==
    /\ set_buffer(put(append(buffer, Sent(p, Count(p) + j)),
                      item_ptr(NoteKey(p, j)) + NoteOffset(p, j), get_address(tail_offset)))
    /\ UNCHANGED <<object_ptrs, name_id_map>>

AppendDone(data, length, c, u) ==
    /\ c \in Seq(Byte) /\ Len(c) = Len(bytes)
    /\ u \in Nat /\ u <= Len(bytes)
    /\ u = IF tail_offset + length <= Len(bytes) THEN tail_offset + length ELSE tail_offset
    /\ tail_offset + length <= Len(bytes) => \A k \in 1 .. length : c[tail_offset + k] = data[k]
    /\ \A a \in 1 .. tail_offset : c[a] = bytes[a]

\* append: the data is behind the old tail, or nothing has changed.
LEMMA AppendEffect ==
    ASSUME BufferOK, NEW data \in Seq(Byte), NEW length, length = Len(data),
           NEW c, NEW u, <<c, u>> = append(buffer, data)
    PROVE  AppendDone(data, length, c, u)
<1>1. bytes \in Seq(Byte) /\ tail_offset \in Nat /\ tail_offset <= Len(bytes) /\ length \in Nat
  BY DEF BufferOK
<1>2. <<c, u>> = put(<<bytes, tail_offset>>, tail_offset, data)
  BY DEF append, buffer
<1>3. PutDone(bytes, tail_offset, tail_offset, data, length, c, u)
  BY <1>1, <1>2, PutEffect, Zenon
<1>4. QED
  BY <1>1, <1>3 DEF PutDone, AppendDone

\* An address is a sequence of bytes.
LEMMA AddressType ==
    ASSUME NEW o \in Nat
    PROVE  /\ get_address(o) \in Seq(Byte)
           /\ Len(get_address(o)) = PointerSize
           /\ \A k \in 1 .. PointerSize : get_address(o)[k] = <<"address", o, k>>
<1>1. PointerSize \in Nat
  BY PacketAssumption
<1>2. get_address(o) = Value("address", o, PointerSize)
  BY Zenon DEF get_address, Value
<1>3. "address" \in {"zero", "item", "note", "address"}
  OBVIOUS
<1>4. QED
  BY <1>1, <1>2, <1>3, ValueType

----------------------------------------------------------------------------
(***************************************************************************)
(* The value of an item is met.                                            *)
(***************************************************************************)

\* The buffer after an item's value was appended, whole or not at all.
LEMMA ItemEffect ==
    ASSUME NEW p \in Packets, NEW n \in 0 .. Count(p), BufferOK, ItemStep(p, n)
    PROVE  /\ BufferOK'
           /\ Len(bytes') = Len(bytes)
           /\ tail_offset' = IF tail_offset + Size(p, n) <= Len(bytes)
                             THEN tail_offset + Size(p, n) ELSE tail_offset
           /\ tail_offset + Size(p, n) <= Len(bytes) =>
                  \A k \in 1 .. Size(p, n) : bytes'[tail_offset + k] = Sent(p, n)[k]
           /\ \A a \in 1 .. tail_offset : bytes'[a] = bytes[a]
<1>1. n \in Values(p)
  BY PacketTypes, Ranges
<1>2. Sent(p, n) \in Seq(Byte) /\ Size(p, n) = Len(Sent(p, n))
  BY <1>1, SentType DEF Size
<1>3. append(buffer, Sent(p, n)) = <<bytes', tail_offset'>>
  <2>1. \E c, u : append(buffer, Sent(p, n)) = <<c, u>>
    BY Zenon DEF append, put, buffer
  <2>2. PICK c, u : append(buffer, Sent(p, n)) = <<c, u>>
    BY <2>1, Zenon
  <2>3. bytes' = c /\ tail_offset' = u
    BY <2>2 DEF ItemStep, set_buffer
  <2>4. QED
    BY <2>2, <2>3, Zenon
<1>4. PICK c, u : c = bytes' /\ u = tail_offset'
  BY Zenon
<1>5. AppendDone(Sent(p, n), Size(p, n), c, u)
  BY <1>2, <1>3, <1>4, AppendEffect, Zenon
<1>6. /\ bytes' \in Seq(Byte) /\ Len(bytes') = Len(bytes)
      /\ tail_offset' \in Nat /\ tail_offset' <= Len(bytes)
      /\ tail_offset' = IF tail_offset + Size(p, n) <= Len(bytes)
                        THEN tail_offset + Size(p, n) ELSE tail_offset
      /\ tail_offset + Size(p, n) <= Len(bytes) =>
             \A k \in 1 .. Size(p, n) : bytes'[tail_offset + k] = Sent(p, n)[k]
      /\ \A a \in 1 .. tail_offset : bytes'[a] = bytes[a]
  BY <1>4, <1>5 DEF AppendDone
<1>7. object_ptrs' = Append(object_ptrs, tail_offset)
  BY DEF ItemStep, name_item
<1>8. object_ptrs' \in Seq(Nat)
  BY <1>7 DEF BufferOK
<1>9. QED
  BY <1>6, <1>8 DEF BufferOK

\* The starts of the items met before stay, the new item starts at the tail.
LEMMA ItemStarts ==
    ASSUME NEW p \in Packets, NEW n \in 0 .. Count(p), BufferOK, Named(p, n), ItemStep(p, n)
    PROVE  /\ Named(p, n + 1)'
           /\ \A v \in 0 .. n - 1 : Start(p, v)' = Start(p, v) /\ Start(p, v) \in Nat
           /\ Start(p, n)' = tail_offset
<1>1. Count(p) \in Nat /\ n \in Nat
  BY PacketTypes
<1>2. ItemsMet(p, n) = n /\ ItemsMet(p, n + 1) = n + 1
  BY <1>1 DEF ItemsMet
<1>3. object_ptrs \in Seq(Nat) /\ tail_offset \in Nat
  BY DEF BufferOK
<1>4. object_ptrs' = Append(object_ptrs, tail_offset)
  BY DEF ItemStep, name_item
<1>5. name_id_map' = [k \in DOMAIN name_id_map \cup {KeyOf(p, n)} |->
                         IF k = KeyOf(p, n) THEN Len(object_ptrs) + 1 ELSE name_id_map[k]]
  BY DEF ItemStep, name_item
<1>6. /\ Len(object_ptrs') = Len(object_ptrs) + 1 /\ Len(object_ptrs) \in Nat
      /\ object_ptrs'[Len(object_ptrs) + 1] = tail_offset
      /\ \A i \in 1 .. Len(object_ptrs) : object_ptrs'[i] = object_ptrs[i] /\ object_ptrs[i] \in Nat
  BY <1>3, <1>4
<1>7. /\ KeyOf(p, n) \in DOMAIN name_id_map'
      /\ name_id_map'[KeyOf(p, n)] = Len(object_ptrs) + 1
  BY <1>5
<1>8. n <= Len(object_ptrs)
  BY <1>2 DEF Named
<1>9. \A v \in 0 .. n - 1 : /\ KeyOf(p, v) \in DOMAIN name_id_map
                            /\ name_id_map[KeyOf(p, v)] = Len(object_ptrs) - n + v + 1
  BY <1>2 DEF Named
<1>10. ASSUME NEW v \in 0 .. n - 1
       PROVE  /\ KeyOf(p, v) \in DOMAIN name_id_map'
              /\ name_id_map'[KeyOf(p, v)] = name_id_map[KeyOf(p, v)]
  <2>1. v \in Items(p) /\ n \in Items(p) /\ v # n
    BY <1>1, Ranges
  <2>2. KeyOf(p, v) # KeyOf(p, n)
    BY <2>1, KeysDiffer
  <2>3. QED
    BY <1>5, <1>9, <2>2
<1>11. Named(p, n + 1)'
  <2>1. \A v \in 0 .. (n + 1) - 1 : v = n \/ v \in 0 .. n - 1
    BY <1>1
  <2>2. n + 1 <= Len(object_ptrs')
    BY <1>1, <1>6, <1>8
  <2>3. Len(object_ptrs') - (n + 1) + n + 1 = Len(object_ptrs) + 1
    BY <1>1, <1>6
  <2>4. \A v \in 0 .. n - 1 : Len(object_ptrs') - (n + 1) + v + 1 = Len(object_ptrs) - n + v + 1
    BY <1>1, <1>6
  <2>5. \A v \in 0 .. (n + 1) - 1 :
            /\ KeyOf(p, v) \in DOMAIN name_id_map'
            /\ name_id_map'[KeyOf(p, v)] = Len(object_ptrs') - (n + 1) + v + 1
    BY <1>7, <1>9, <1>10, <2>1, <2>3, <2>4
  <2>6. QED
    BY <1>2, <2>2, <2>5 DEF Named
<1>12. \A v \in 0 .. n - 1 : Start(p, v)' = Start(p, v) /\ Start(p, v) \in Nat
  <2>1. TAKE v \in 0 .. n - 1
  <2>2. name_id_map[KeyOf(p, v)] \in 1 .. Len(object_ptrs)
    BY <1>1, <1>6, <1>8, <1>9
  <2>3. object_ptrs'[name_id_map'[KeyOf(p, v)]] = object_ptrs[name_id_map[KeyOf(p, v)]]
    BY <1>6, <1>10, <2>2
  <2>4. QED
    BY <1>6, <2>2, <2>3 DEF Start, item_ptr
<1>13. Start(p, n)' = tail_offset
  BY <1>6, <1>7 DEF Start, item_ptr
<1>14. QED
  BY <1>11, <1>12, <1>13

\* Once one more item has been met the data is what it should be.
LEMMA ItemData ==
    ASSUME NEW p \in Packets, NEW n \in 0 .. Count(p), Data(p, n), ItemStep(p, n)
    PROVE  Data(p, n + 1)'
<1>1. Count(p) \in Nat /\ Notes(p) \in Nat /\ n \in Nat /\ n \in Values(p) /\ Size(p, n) \in Nat
  BY PacketTypes, Ranges, SentType
<1>2. BufferOK /\ Named(p, n) /\ InRow(p, n) /\ Contents(p, n) /\ Placed(p, n)
  BY DEF Data
<1>3. ItemsMet(p, n) = n /\ ItemsMet(p, n + 1) = n + 1
  BY <1>1 DEF ItemsMet
<1>4. tail_offset \in Nat /\ Len(bytes) \in Nat /\ tail_offset <= Len(bytes)
  BY <1>2 DEF BufferOK
<1>5. /\ BufferOK'
      /\ Len(bytes') = Len(bytes)
      /\ tail_offset' = IF tail_offset + Size(p, n) <= Len(bytes)
                        THEN tail_offset + Size(p, n) ELSE tail_offset
      /\ tail_offset + Size(p, n) <= Len(bytes) =>
             \A k \in 1 .. Size(p, n) : bytes'[tail_offset + k] = Sent(p, n)[k]
      /\ \A a \in 1 .. tail_offset : bytes'[a] = bytes[a]
  BY <1>2, ItemEffect
<1>6. /\ Named(p, n + 1)'
      /\ \A v \in 0 .. n - 1 : Start(p, v)' = Start(p, v) /\ Start(p, v) \in Nat
      /\ Start(p, n)' = tail_offset
  BY <1>2, ItemStarts
<1>7. \A v \in 0 .. n - 1 : (Stored(p, v)' <=> Stored(p, v)) /\ Stop(p, v)' = Stop(p, v)
  BY <1>5, <1>6 DEF Stored, Stop
<1>8. /\ Stored(p, n)' <=> tail_offset + Size(p, n) <= Len(bytes)
      /\ Stop(p, n)' = tail_offset'
  BY <1>5, <1>6 DEF Stored, Stop
<1>9. \A v \in 0 .. n : v = n \/ v \in 0 .. n - 1
  BY <1>1
<1>10. tail_offset' \in Nat /\ tail_offset <= tail_offset'
  BY <1>1, <1>4, <1>5
<1>11. \A v \in 0 .. n - 1 : /\ Size(p, v) \in Nat
                             /\ Stop(p, v) \in Nat /\ Start(p, v) <= Stop(p, v)
                             /\ Stop(p, v) <= tail_offset
  <2>1. TAKE v \in 0 .. n - 1
  <2>2. v \in Values(p)
    BY <1>1, Ranges
  <2>3. Size(p, v) \in Nat
    BY <2>2, SentType
  <2>4. Stop(p, v) <= tail_offset
    BY <1>2, <1>3 DEF InRow
  <2>5. QED
    BY <1>6, <2>3, <2>4 DEF Stop
<1>12. InRow(p, n + 1)'
  <2>1. \A v \in 0 .. n : Stop(p, v)' <= tail_offset'
    BY <1>7, <1>8, <1>9, <1>10, <1>11, <1>4
  <2>2. ASSUME NEW v \in 0 .. n, NEW w \in v + 1 .. n
        PROVE  Stop(p, v)' <= Start(p, w)'
    <3>1. v \in 0 .. n - 1
      BY <1>1
    <3>2. CASE w = n
      BY <1>6, <1>7, <1>11, <3>1, <3>2
    <3>3. CASE w # n
      <4>1. w \in v + 1 .. n - 1 /\ w \in 0 .. n - 1
        BY <1>1, <3>1, <3>3
      <4>2. Stop(p, v) <= Start(p, w)
        BY <1>2, <1>3, <3>1, <4>1 DEF InRow
      <4>3. QED
        BY <1>6, <1>7, <3>1, <4>1, <4>2
    <3>4. QED
      BY <3>2, <3>3
  <2>3. ASSUME NEW v \in 0 .. n, v + 1 < n + 1
        PROVE  Start(p, v + 1)' = Stop(p, v)'
    <3>1. v \in 0 .. n - 1
      BY <1>1, <2>3
    <3>2. CASE v + 1 = n
      <4>1. tail_offset = Stop(p, n - 1) /\ n - 1 = v
        BY <1>1, <1>2, <3>1, <3>2 DEF InRow
      <4>2. QED
        BY <1>6, <1>7, <3>1, <3>2, <4>1
    <3>3. CASE v + 1 # n
      <4>1. v + 1 < n /\ v + 1 \in 0 .. n - 1
        BY <1>1, <3>1, <3>3
      <4>2. Start(p, v + 1) = Stop(p, v)
        BY <1>2, <1>3, <3>1, <4>1 DEF InRow
      <4>3. QED
        BY <1>6, <1>7, <3>1, <4>1, <4>2
    <3>4. QED
      BY <3>2, <3>3
  <2>4. (n + 1) - 1 = n
    BY <1>1
  <2>5. QED
    BY <1>3, <1>8, <2>1, <2>2, <2>3, <2>4 DEF InRow
<1>13. Contents(p, n + 1)'
  <2>1. SUFFICES ASSUME NotesHaveItems(p, n + 1)', NEW v \in 0 .. n, Stored(p, v)'
                 PROVE  Holds(p, v)'
    <3>1. (n + 1) - 1 = n
      BY <1>1
    <3>2. QED
      BY <1>3, <3>1 DEF Contents
  <2>2. CASE v = n
    <3>1. \A k \in 1 .. Size(p, n) : bytes'[tail_offset + k] = Sent(p, n)[k]
      BY <1>5, <1>8, <2>1, <2>2
    <3>2. QED
      BY <1>6, <2>2, <3>1 DEF Holds
  <2>3. CASE v \in 0 .. n - 1
    <3>1. NotesHaveItems(p, n)
      <4>1. SUFFICES ASSUME NEW j \in 1 .. Notes(p), NEW w \in 0 .. n - 1,
                            w < Count(p), NoteKey(p, j) = KeyOf(p, w)
                     PROVE  Stored(p, w)
        BY <1>3 DEF NotesHaveItems
      <4>2. w \in 0 .. (n + 1) - 1
        BY <1>1
      <4>3. Stored(p, w)'
        BY <1>3, <2>1, <4>1, <4>2 DEF NotesHaveItems
      <4>4. QED
        BY <1>7, <4>3
    <3>2. Stored(p, v) /\ Holds(p, v)
      BY <1>2, <1>3, <1>7, <2>1, <2>3, <3>1 DEF Contents
    <3>3. \A k \in 1 .. Size(p, v) : bytes'[Start(p, v) + k] = bytes[Start(p, v) + k]
      <4>1. Start(p, v) + Size(p, v) <= tail_offset /\ Start(p, v) \in Nat /\ Size(p, v) \in Nat
        BY <1>6, <1>11, <2>3, <3>2 DEF Stop
      <4>2. \A k \in 1 .. Size(p, v) : Start(p, v) + k \in 1 .. tail_offset
        BY <1>4, <4>1
      <4>3. QED
        BY <1>5, <4>2
    <3>4. Start(p, v)' = Start(p, v)
      BY <1>6, <2>3
    <3>5. QED
      BY <3>2, <3>3, <3>4 DEF Holds
  <2>4. QED
    BY <1>9, <2>2, <2>3
<1>14. Placed(p, n + 1)'
  <2>1. SUFFICES ASSUME Fits(p)'
                 PROVE  /\ tail_offset' = Place(p, n + 1)
                        /\ \A v \in 0 .. n : Start(p, v)' = Place(p, v)
    <3>1. (n + 1) - 1 = n
      BY <1>1
    <3>2. QED
      BY <1>3, <3>1 DEF Placed, Place
  <2>2. Cardinality(Written(p, Values(p))) <= Len(bytes) /\ Fits(p)
    BY <1>5, <2>1 DEF Fits
  <2>3. tail_offset = Place(p, n) /\ \A v \in 0 .. n - 1 : Start(p, v) = Place(p, v)
    BY <1>2, <1>3, <2>2 DEF Placed
  <2>4. Place(p, n + 1) = Place(p, n) + Size(p, n) /\ Place(p, n) \in Nat
    BY <1>1, PlaceNext
  <2>5. Place(p, n + 1) <= Len(bytes)
    <3>1. /\ Count(p) + Notes(p) + 1 \in 0 .. Count(p) + Notes(p) + 1
          /\ n + 1 \in 0 .. Count(p) + Notes(p) + 1
      BY <1>1
    <3>2. /\ Place(p, n + 1) <= Place(p, Count(p) + Notes(p) + 1)
          /\ Place(p, n + 1) \in Nat /\ Place(p, Count(p) + Notes(p) + 1) \in Nat
      BY <3>1, PlaceOrder
    <3>3. QED
      BY <1>4, <2>2, <3>2, FitsPlace
  <2>6. QED
    BY <1>5, <1>6, <1>9, <2>3, <2>4, <2>5
<1>15. Pointed(p, n + 1)'
  <2>1. 1 .. (n + 1) - 1 - Count(p) = {}
    BY <1>1
  <2>2. QED
    BY <2>1 DEF Pointed
<1>16. QED
  BY <1>5, <1>6, <1>12, <1>13, <1>14, <1>15 DEF Data

----------------------------------------------------------------------------
(***************************************************************************)
(* The value of a note is met.                                             *)
(***************************************************************************)

\* Where byte k of size bytes from offset a on is, and is not.
LEMMA ByteOf ==
    ASSUME NEW a \in Nat, NEW size \in Nat, NEW t \in Nat, a + size <= t, NEW k \in 1 .. size
    PROVE  a + k \in 1 .. t
  OBVIOUS

\* A part of a range that ends by t ends by t.
LEMMA PartOf ==
    ASSUME NEW a \in Nat, NEW size \in Nat, NEW t \in Nat, a + size <= t,
           NEW o \in Nat, NEW length \in Nat, o + length <= size
    PROVE  a + o \in Nat /\ (a + o) + length <= t
  OBVIOUS

\* A byte of what begins behind a range is not in that range.
LEMMA ByteAfter ==
    ASSUME NEW a \in Nat, NEW size \in Nat, NEW o \in Nat, NEW length \in Nat,
           o + length <= a, NEW k \in 1 .. size
    PROVE  a + k \notin o + 1 .. o + length
  OBVIOUS

\* The address goes to offset o, the value to the tail.
LEMMA NoteEffect ==
    ASSUME NEW p \in Packets, NEW j \in 1 .. Notes(p), BufferOK, NoteStep(p, j),
           NEW o \in Nat, o = item_ptr(NoteKey(p, j)) + NoteOffset(p, j)
    PROVE  /\ BufferOK'
           /\ Len(bytes') = Len(bytes)
           /\ tail_offset <= tail_offset'
           /\ tail_offset + NoteSize(p, j) <= Len(bytes) /\ o + PointerSize <= tail_offset =>
                  /\ tail_offset' = tail_offset + NoteSize(p, j)
                  /\ \A k \in 1 .. NoteSize(p, j) : bytes'[tail_offset + k] = <<"note", j, k>>
                  /\ \A k \in 1 .. PointerSize : bytes'[o + k] = <<"address", tail_offset, k>>
           /\ \A a \in 1 .. tail_offset : a \notin o + 1 .. o + PointerSize => bytes'[a] = bytes[a]
<1> DEFINE data == Sent(p, Count(p) + j)
<1>1. NoteSize(p, j) \in Nat /\ PointerSize \in Nat
  BY PacketTypes, PacketAssumption
<1>2. /\ data \in Seq(Byte) /\ NoteSize(p, j) = Len(data)
      /\ \A k \in 1 .. NoteSize(p, j) : data[k] = <<"note", j, k>>
  BY SentNote DEF Size
<1>3. tail_offset \in Nat /\ Len(bytes) \in Nat /\ tail_offset <= Len(bytes)
  BY DEF BufferOK
<1>4. PICK c, u : append(buffer, data) = <<c, u>>
  <2>1. \E c, u : append(buffer, data) = <<c, u>>
    BY Zenon DEF append, put, buffer
  <2>2. QED
    BY <2>1, Zenon
<1> HIDE DEF data
<1>5. AppendDone(data, NoteSize(p, j), c, u)
  BY <1>2, <1>4, AppendEffect, Zenon
<1>6. /\ c \in Seq(Byte) /\ Len(c) = Len(bytes) /\ u \in Nat /\ u <= Len(bytes)
      /\ u = IF tail_offset + NoteSize(p, j) <= Len(bytes)
             THEN tail_offset + NoteSize(p, j) ELSE tail_offset
      /\ \A a \in 1 .. tail_offset : c[a] = bytes[a]
  BY <1>5 DEF AppendDone
<1>7. tail_offset + NoteSize(p, j) <= Len(bytes) =>
          \A k \in 1 .. NoteSize(p, j) : c[tail_offset + k] = <<"note", j, k>>
  BY <1>2, <1>5 DEF AppendDone
<1>8. PICK d, w : put(<<c, u>>, o, get_address(tail_offset)) = <<d, w>>
  <2>1. \E d, w : put(<<c, u>>, o, get_address(tail_offset)) = <<d, w>>
    BY Zenon DEF put
  <2>2. QED
    BY <2>1, Zenon
<1>9. /\ get_address(tail_offset) \in Seq(Byte) /\ PointerSize = Len(get_address(tail_offset))
      /\ \A k \in 1 .. PointerSize : get_address(tail_offset)[k] = <<"address", tail_offset, k>>
  BY <1>3, AddressType
<1>10. PutDone(c, u, o, get_address(tail_offset), PointerSize, d, w)
  BY <1>6, <1>8, <1>9, PutEffect, Zenon
<1>11. set_buffer(<<d, w>>)
  BY <1>4, <1>8, Zenon DEF NoteStep, data
<1>12. bytes' = d /\ tail_offset' = w
  BY <1>11 DEF set_buffer
<1>13. /\ d \in Seq(Byte) /\ Len(d) = Len(c)
       /\ w \in Nat /\ w <= Len(c) /\ u <= w
       /\ o + PointerSize <= Len(c) => w = IF o + PointerSize > u THEN o + PointerSize ELSE u
       /\ \A a \in 1 .. Len(c) : a \notin o + 1 .. o + PointerSize => d[a] = c[a]
  BY <1>10 DEF PutDone
<1>14. o + PointerSize <= Len(c) => \A k \in 1 .. PointerSize : d[o + k] = <<"address", tail_offset, k>>
  BY <1>9, <1>10 DEF PutDone
<1>15. object_ptrs' = object_ptrs
  BY DEF NoteStep
<1>16. BufferOK' /\ Len(bytes') = Len(bytes) /\ tail_offset <= tail_offset'
  BY <1>1, <1>3, <1>6, <1>12, <1>13, <1>15 DEF BufferOK
<1>17. \A a \in 1 .. tail_offset : a \notin o + 1 .. o + PointerSize => d[a] = bytes[a]
  BY <1>3, <1>6, <1>13
<1>18. ASSUME tail_offset + NoteSize(p, j) <= Len(bytes), o + PointerSize <= tail_offset
       PROVE  /\ w = tail_offset + NoteSize(p, j)
              /\ \A k \in 1 .. NoteSize(p, j) : d[tail_offset + k] = <<"note", j, k>>
              /\ \A k \in 1 .. PointerSize : d[o + k] = <<"address", tail_offset, k>>
  <2>1. o + PointerSize <= Len(c) /\ w = tail_offset + NoteSize(p, j)
    BY <1>1, <1>3, <1>6, <1>13, <1>18
  <2>2. \A k \in 1 .. NoteSize(p, j) : /\ tail_offset + k \in 1 .. Len(c)
                                       /\ tail_offset + k \notin o + 1 .. o + PointerSize
    BY <1>1, <1>3, <1>6, <1>18
  <2>3. \A k \in 1 .. NoteSize(p, j) : d[tail_offset + k] = c[tail_offset + k]
    BY <1>13, <2>2
  <2>4. QED
    BY <1>7, <1>14, <1>18, <2>1, <2>3
<1>19. QED
  BY <1>12, <1>16, <1>17, <1>18

\* The ptr_val branch of String: one value more has been met.
LEMMA NoteData ==
    ASSUME NEW p \in Packets, NEW j \in 1 .. Notes(p), Data(p, Count(p) + j), NoteStep(p, j)
    PROVE  Data(p, Count(p) + j + 1)'
<1> DEFINE n == Count(p) + j
<1>1. /\ Count(p) \in Nat /\ Notes(p) \in Nat /\ j \in Nat /\ n \in Nat /\ n \in Values(p)
      /\ PointerSize \in Nat /\ NoteOffset(p, j) \in Nat /\ NoteSize(p, j) \in Nat
      /\ Size(p, n) = NoteSize(p, j)
  BY PacketTypes, Ranges, SentNote, PacketAssumption
<1>2. BufferOK /\ Named(p, n) /\ InRow(p, n) /\ Contents(p, n) /\ Placed(p, n) /\ Pointed(p, n)
  BY DEF Data
<1>3. ItemsMet(p, n) = Count(p) + 1 /\ ItemsMet(p, n + 1) = Count(p) + 1
  BY <1>1 DEF ItemsMet
<1>4. /\ tail_offset \in Nat /\ Len(bytes) \in Nat /\ tail_offset <= Len(bytes)
      /\ object_ptrs \in Seq(Nat)
  BY <1>2 DEF BufferOK
<1>5. object_ptrs' = object_ptrs /\ name_id_map' = name_id_map
  BY DEF NoteStep
<1>6. \A v \in 0 .. Count(p) : /\ Start(p, v)' = Start(p, v) /\ Start(p, v) \in Nat
                               /\ Size(p, v) \in Nat /\ v \in Items(p) /\ v \in Values(p)
  <2>1. TAKE v \in 0 .. Count(p)
  <2>2. v \in Values(p) /\ v \in Items(p) /\ v \in 0 .. ItemsMet(p, n) - 1
    BY <1>1, <1>3, Ranges
  <2>3. Size(p, v) \in Nat
    BY <2>2, SentType
  <2>4. /\ name_id_map[KeyOf(p, v)] = Len(object_ptrs) - ItemsMet(p, n) + v + 1
        /\ ItemsMet(p, n) <= Len(object_ptrs)
    BY <1>2, <2>2 DEF Named
  <2>5. name_id_map[KeyOf(p, v)] \in 1 .. Len(object_ptrs)
    <3>1. Len(object_ptrs) \in Nat
      BY <1>4
    <3>2. v \in 0 .. Count(p) /\ Count(p) \in Nat /\ ItemsMet(p, n) = Count(p) + 1
      BY <1>1, <1>3
    <3>3. QED
      BY <2>4, <3>1, <3>2
  <2>6. Start(p, v) \in Nat
    BY <1>4, <2>5 DEF Start, item_ptr
  <2>7. Start(p, v)' = Start(p, v)
    BY <1>5 DEF Start, item_ptr
  <2>8. QED
    BY <2>2, <2>3, <2>6, <2>7
<1>7. PICK v \in 0 .. Count(p) : /\ NoteKey(p, j) = KeyOf(p, v)
                                 /\ NoteOffset(p, j) + PointerSize <= Size(p, v)
  BY NoteItem, Ranges
<1>8. PICK o \in Nat : o = Start(p, v) + NoteOffset(p, j)
  BY <1>1, <1>6
<1>9. o = item_ptr(NoteKey(p, j)) + NoteOffset(p, j)
  BY <1>7, <1>8, Zenon DEF Start
<1>10. /\ BufferOK'
       /\ Len(bytes') = Len(bytes)
       /\ tail_offset <= tail_offset'
       /\ tail_offset + NoteSize(p, j) <= Len(bytes) /\ o + PointerSize <= tail_offset =>
              /\ tail_offset' = tail_offset + NoteSize(p, j)
              /\ \A k \in 1 .. NoteSize(p, j) : bytes'[tail_offset + k] = <<"note", j, k>>
              /\ \A k \in 1 .. PointerSize : bytes'[o + k] = <<"address", tail_offset, k>>
       /\ \A a \in 1 .. tail_offset : a \notin o + 1 .. o + PointerSize => bytes'[a] = bytes[a]
  BY <1>2, <1>9, NoteEffect
<1>11. \A w \in 0 .. Count(p) : (Stored(p, w)' <=> Stored(p, w)) /\ Stop(p, w)' = Stop(p, w)
  BY <1>6, <1>10 DEF Stored, Stop
<1>12. /\ (Count(p) + 1) - 1 = Count(p)
       /\ tail_offset' \in Nat
  BY <1>1, <1>10 DEF BufferOK
<1> HIDE DEF n
<1>13. /\ \A w \in 0 .. Count(p) : Stop(p, w) <= tail_offset
       /\ \A w \in 0 .. Count(p), x \in 0 .. Count(p) : w < x => Stop(p, w) <= Start(p, x)
       /\ \A w \in 0 .. Count(p) : w + 1 < Count(p) + 1 => Start(p, w + 1) = Stop(p, w)
  <2>1. \A w \in 0 .. Count(p), x \in 0 .. Count(p) : w < x => x \in w + 1 .. (Count(p) + 1) - 1
    BY <1>1
  <2>2. QED
    BY <1>2, <1>3, <1>12, <2>1 DEF InRow
<1>14. Named(p, n + 1)'
  BY <1>2, <1>3, <1>5 DEF Named
<1>15. InRow(p, n + 1)'
  <2>1. \A w \in 0 .. Count(p) : Stop(p, w)' \in Nat
    BY <1>6, <1>11 DEF Stop
  <2>2. \A w \in 0 .. Count(p) : Stop(p, w)' <= tail_offset'
    BY <1>4, <1>10, <1>11, <1>12, <1>13, <2>1
  <2>3. ASSUME NEW w \in 0 .. Count(p), NEW x \in w + 1 .. Count(p)
        PROVE  Stop(p, w)' <= Start(p, x)'
    <3>1. x \in 0 .. Count(p) /\ w < x
      BY <1>1
    <3>2. QED
      BY <1>6, <1>11, <1>13, <3>1
  <2>4. ASSUME NEW w \in 0 .. Count(p), w + 1 < Count(p) + 1
        PROVE  Start(p, w + 1)' = Stop(p, w)'
    <3>1. w + 1 \in 0 .. Count(p)
      BY <1>1, <2>4
    <3>2. QED
      BY <1>6, <1>11, <1>13, <2>4, <3>1
  <2>5. ~(n + 1 <= Count(p) + 1)
    BY <1>1 DEF n
  <2>6. QED
    BY <1>3, <1>12, <2>2, <2>3, <2>4, <2>5 DEF InRow
<1>16. Contents(p, n + 1)'
  <2>1. SUFFICES ASSUME NotesHaveItems(p, n + 1)', NEW w \in 0 .. Count(p), Stored(p, w)'
                 PROVE  Holds(p, w)'
    BY <1>3, <1>12 DEF Contents
  <2>2. NotesHaveItems(p, n)
    <3>1. SUFFICES ASSUME NEW i \in 1 .. Notes(p), NEW x \in 0 .. Count(p),
                          x < Count(p), NoteKey(p, i) = KeyOf(p, x)
                   PROVE  Stored(p, x)
      BY <1>3, <1>12 DEF NotesHaveItems
    <3>2. Stored(p, x)'
      BY <1>3, <1>12, <2>1, <3>1 DEF NotesHaveItems
    <3>3. QED
      BY <1>11, <3>2
  <2>3. Stored(p, w) /\ Holds(p, w)
    BY <1>2, <1>3, <1>11, <1>12, <2>1, <2>2 DEF Contents
  <2>4. SUFFICES ASSUME NEW k \in 1 .. Size(p, w), ~Covered(p, w, k)
                 PROVE  bytes'[Start(p, w) + k] = bytes[Start(p, w) + k]
    BY <1>6, <2>3 DEF Holds
  <2>5. /\ Start(p, w) + Size(p, w) <= tail_offset
        /\ Start(p, w) \in Nat /\ Size(p, w) \in Nat
        /\ Stop(p, w) = Start(p, w) + Size(p, w)
    BY <1>6, <1>13, <2>3 DEF Stop
  <2>6. Start(p, w) + k \in 1 .. tail_offset /\ k \in Nat
    BY <1>4, <2>5
  <2>7. Start(p, w) + k \notin o + 1 .. o + PointerSize
    <3>1. CASE w = v
      <4>1. k \notin NoteOffset(p, j) + 1 .. NoteOffset(p, j) + PointerSize
        BY <1>7, <2>4, <3>1 DEF Covered
      <4>2. QED
        BY <1>1, <1>8, <2>5, <2>6, <3>1, <4>1
    <3>2. CASE w < v
      <4>1. Start(p, w) + Size(p, w) <= Start(p, v)
        BY <1>13, <2>5, <3>2
      <4>2. Start(p, v) \in Nat /\ k <= Size(p, w)
        BY <1>6, <2>5
      <4>3. QED
        BY <1>1, <1>8, <2>5, <2>6, <4>1, <4>2
    <3>3. CASE v < w
      <4>1. v < Count(p)
        BY <1>1, <3>3
      <4>2. Stored(p, v)
        BY <1>3, <1>7, <1>12, <2>2, <4>1 DEF NotesHaveItems
      <4>3. Start(p, v) + Size(p, v) <= Start(p, w)
        BY <1>13, <3>3, <4>2 DEF Stop
      <4>4. Start(p, v) \in Nat /\ Size(p, v) \in Nat
        BY <1>6
      <4>5. QED
        BY <1>1, <1>7, <1>8, <2>5, <2>6, <4>3, <4>4
    <3>4. QED
      BY <3>1, <3>2, <3>3
  <2>8. QED
    BY <1>10, <2>6, <2>7
<1>17. ASSUME Fits(p)
       PROVE  /\ tail_offset = Place(p, n)
              /\ \A w \in 0 .. Count(p) : Start(p, w) = Place(p, w)
              /\ tail_offset + NoteSize(p, j) = Place(p, n + 1)
              /\ tail_offset + NoteSize(p, j) <= Len(bytes)
              /\ o + PointerSize <= Place(p, v + 1)
              /\ o + PointerSize <= Place(p, Count(p) + 1)
              /\ o + PointerSize <= tail_offset
  <2>1. tail_offset = Place(p, n) /\ \A w \in 0 .. Count(p) : Start(p, w) = Place(p, w)
    BY <1>2, <1>3, <1>12, <1>17 DEF Placed
  <2>2. Place(p, n + 1) = Place(p, n) + Size(p, n) /\ Place(p, n) \in Nat
    BY <1>1, PlaceNext DEF n
  <2>3. Place(p, v + 1) = Place(p, v) + Size(p, v) /\ Place(p, v) \in Nat
    BY <1>6, PlaceNext
  <2>4. /\ Count(p) + Notes(p) + 1 \in 0 .. Count(p) + Notes(p) + 1
        /\ n + 1 \in 0 .. Count(p) + Notes(p) + 1
        /\ n \in 0 .. Count(p) + Notes(p) + 1
        /\ Count(p) + 1 \in 0 .. Count(p) + Notes(p) + 1
        /\ Count(p) + 1 \in 0 .. n
        /\ v + 1 \in 0 .. Count(p) + 1
    BY <1>1 DEF n
  <2>5. /\ Place(p, n + 1) <= Place(p, Count(p) + Notes(p) + 1)
        /\ Place(p, n + 1) \in Nat /\ Place(p, Count(p) + Notes(p) + 1) \in Nat
    BY <2>4, PlaceOrder
  <2>6. Place(p, Count(p) + 1) <= Place(p, n) /\ Place(p, Count(p) + 1) \in Nat
    BY <2>4, PlaceOrder
  <2>7. Place(p, v + 1) <= Place(p, Count(p) + 1) /\ Place(p, v + 1) \in Nat
    BY <2>4, PlaceOrder
  <2>8. Place(p, Count(p) + Notes(p) + 1) <= Len(bytes)
    BY <1>17, FitsPlace DEF Fits
  <2>9. o + PointerSize <= Place(p, v + 1)
    <3>1. o = Place(p, v) + NoteOffset(p, j)
      BY <1>8, <2>1
    <3>2. QED
      BY <1>1, <1>6, <1>7, <2>3, <3>1
  <2>10. o + PointerSize <= Place(p, Count(p) + 1) /\ o + PointerSize <= tail_offset
    BY <1>1, <2>1, <2>2, <2>6, <2>7, <2>9
  <2>11. tail_offset + NoteSize(p, j) = Place(p, n + 1)
    BY <1>1, <2>1, <2>2
  <2>12. tail_offset + NoteSize(p, j) <= Len(bytes)
    BY <1>4, <2>5, <2>8, <2>11
  <2>13. QED
    BY <2>1, <2>9, <2>10, <2>11, <2>12
<1>18. Fits(p)' => Fits(p)
  BY <1>10 DEF Fits
<1>19. Placed(p, n + 1)'
  <2>1. SUFFICES ASSUME Fits(p)
                 PROVE  /\ tail_offset' = Place(p, n + 1)
                        /\ \A w \in 0 .. Count(p) : Start(p, w)' = Place(p, w)
    BY <1>3, <1>12, <1>18 DEF Placed, Place
  <2>2. QED
    BY <1>6, <1>10, <1>17, <2>1
<1>20. Pointed(p, n + 1)'
  <2>1. SUFFICES ASSUME Fits(p), NEW i \in 1 .. j
                 PROVE  PointsTo(p, i)'
    <3>1. (n + 1) - 1 - Count(p) = j
      BY <1>1 DEF n
    <3>2. QED
      BY <1>18, <3>1 DEF Pointed
  <2>2. /\ tail_offset = Place(p, n)
        /\ \A w \in 0 .. Count(p) : Start(p, w) = Place(p, w)
        /\ tail_offset + NoteSize(p, j) <= Len(bytes)
        /\ o + PointerSize <= Place(p, v + 1)
        /\ o + PointerSize <= Place(p, Count(p) + 1)
        /\ o + PointerSize <= tail_offset
    BY <1>17, <2>1
  <2>3. i \in 1 .. Notes(p) /\ i \in Nat
    BY <1>1
  <2>4. NoteOffset(p, i) \in Nat /\ NoteSize(p, i) \in Nat
    BY <2>3, PacketTypes
  <2>5. item_ptr(NoteKey(p, i))' = item_ptr(NoteKey(p, i))
    BY <1>5 DEF item_ptr
  <2>6. CASE i = j
    <3>1. /\ \A k \in 1 .. NoteSize(p, j) : bytes'[tail_offset + k] = <<"note", j, k>>
          /\ \A k \in 1 .. PointerSize : bytes'[o + k] = <<"address", tail_offset, k>>
      BY <1>10, <2>2
    <3>2. \A k \in 1 .. PointerSize : bytes'[o + k] = <<"address", Place(p, Count(p) + j), k>>
      BY <2>2, <3>1 DEF n
    <3>3. \A k \in 1 .. NoteSize(p, j) : bytes'[Place(p, Count(p) + j) + k] = <<"note", j, k>>
      BY <2>2, <3>1 DEF n
    <3>4. o = item_ptr(NoteKey(p, j))' + NoteOffset(p, j)
      BY <1>9, <2>5, <2>6
    <3>5. QED
      BY <2>6, <3>2, <3>3, <3>4 DEF PointsTo, Place
  <2>7. CASE i # j
    <3>1. i \in 1 .. n - 1 - Count(p)
      BY <1>1, <2>7 DEF n
    <3>2. PointsTo(p, i)
      BY <1>2, <2>1, <3>1 DEF Pointed
    <3>3. /\ Count(p) + i \in Values(p) /\ Count(p) + i + 1 \in 0 .. n
          /\ n \in 0 .. Count(p) + Notes(p) + 1
          /\ Count(p) + 1 \in 0 .. Count(p) + i
          /\ Count(p) + i \in 0 .. Count(p) + Notes(p) + 1
      BY <1>1, <2>3, <2>7, Ranges DEF n
    <3>4. /\ Place(p, Count(p) + i + 1) <= Place(p, n)
          /\ Place(p, Count(p) + i + 1) \in Nat /\ Place(p, n) \in Nat
      BY <3>3, PlaceOrder
    <3>5. /\ Place(p, Count(p) + 1) <= Place(p, Count(p) + i)
          /\ Place(p, Count(p) + 1) \in Nat /\ Place(p, Count(p) + i) \in Nat
      BY <3>3, PlaceOrder
    <3>6. Place(p, Count(p) + i + 1) = Place(p, Count(p) + i) + NoteSize(p, i)
      BY <2>3, <3>3, PlaceNext, SentNote
    <3>7. \A k \in 1 .. NoteSize(p, i) : /\ Place(p, Count(p) + i) + k \in 1 .. tail_offset
                                         /\ Place(p, Count(p) + i) + k \notin o + 1 .. o + PointerSize
      <4>1. Place(p, Count(p) + i) + NoteSize(p, i) <= tail_offset
        BY <2>2, <3>4, <3>6
      <4>2. o + PointerSize <= Place(p, Count(p) + i)
        BY <1>1, <1>8, <2>2, <3>5
      <4>3. Place(p, Count(p) + i) \in Nat /\ NoteSize(p, i) \in Nat /\ tail_offset \in Nat
            /\ PointerSize \in Nat
        BY <1>1, <1>4, <2>4, <3>5
      <4>4. \A k \in 1 .. NoteSize(p, i) : Place(p, Count(p) + i) + k \in 1 .. tail_offset
        BY <4>1, <4>3, ByteOf, Zenon
      <4>5. \A k \in 1 .. NoteSize(p, i) : Place(p, Count(p) + i) + k \notin o + 1 .. o + PointerSize
        BY <1>8, <4>2, <4>3, ByteAfter, Zenon
      <4>6. QED
        BY <4>4, <4>5, Zenon
    <3>8. PICK x \in 0 .. Count(p) : /\ NoteKey(p, i) = KeyOf(p, x)
                                     /\ NoteOffset(p, i) + PointerSize <= Size(p, x)
      BY <2>3, NoteItem, Ranges
    <3>9. item_ptr(NoteKey(p, i)) = Place(p, x)
      <4>1. item_ptr(NoteKey(p, i)) = Start(p, x)
        BY <3>8, Zenon DEF Start
      <4>2. QED
        BY <2>2, <4>1
    <3>10. /\ Place(p, x + 1) = Place(p, x) + Size(p, x) /\ Place(p, x) \in Nat
           /\ Place(p, v + 1) = Place(p, v) + Size(p, v) /\ Place(p, v) \in Nat
           /\ o = Place(p, v) + NoteOffset(p, j)
           /\ Size(p, x) \in Nat /\ Size(p, v) \in Nat
      BY <1>6, <1>8, <2>2, PlaceNext
    <3>11. Place(p, x + 1) <= Place(p, n)
      <4>1. x + 1 \in 0 .. n
        BY <1>1 DEF n
      <4>2. QED
        BY <3>3, <4>1, PlaceOrder
    <3>12. ASSUME NEW k \in 1 .. PointerSize
           PROVE  /\ Place(p, x) + NoteOffset(p, i) + k \in 1 .. tail_offset
                  /\ Place(p, x) + NoteOffset(p, i) + k \notin o + 1 .. o + PointerSize
      <4>1. Place(p, x) + NoteOffset(p, i) + k \in 1 .. tail_offset
        <5>1. Place(p, x) + Size(p, x) <= tail_offset
          BY <2>2, <3>10, <3>11
        <5>2. /\ Place(p, x) \in Nat /\ Size(p, x) \in Nat /\ tail_offset \in Nat
              /\ PointerSize \in Nat
          BY <1>1, <1>4, <3>10, Zenon
        <5>3. /\ Place(p, x) + NoteOffset(p, i) \in Nat
              /\ (Place(p, x) + NoteOffset(p, i)) + PointerSize <= tail_offset
          BY <2>4, <3>8, <5>1, <5>2, PartOf, Zenon
        <5>4. QED
          BY <5>2, <5>3, ByteOf, Zenon
      <4>2. CASE x = v
        <5>1. \/ NoteOffset(p, i) + PointerSize <= NoteOffset(p, j)
              \/ NoteOffset(p, j) + PointerSize <= NoteOffset(p, i)
          BY <1>7, <2>3, <2>7, <3>8, <4>2, NotesApart
        <5>2. QED
          BY <1>1, <2>4, <3>10, <4>1, <4>2, <5>1
      <4>3. CASE x < v
        <5>1. x + 1 \in 0 .. v /\ v \in 0 .. Count(p) + Notes(p) + 1
          BY <1>1, <4>3
        <5>2. Place(p, x + 1) <= Place(p, v)
          BY <5>1, PlaceOrder
        <5>3. QED
          BY <1>1, <2>4, <3>8, <3>10, <4>1, <5>2
      <4>4. CASE v < x
        <5>1. v + 1 \in 0 .. x /\ x \in 0 .. Count(p) + Notes(p) + 1
          BY <1>1, <4>4
        <5>2. Place(p, v + 1) <= Place(p, x)
          BY <5>1, PlaceOrder
        <5>3. QED
          BY <1>1, <1>7, <2>4, <3>10, <4>1, <5>2
      <4>5. QED
        BY <4>1, <4>2, <4>3, <4>4
    <3>13. \A k \in 1 .. PointerSize :
               bytes'[item_ptr(NoteKey(p, i))' + NoteOffset(p, i) + k]
                   = <<"address", Place(p, Count(p) + i), k>>
      <4>1. TAKE k \in 1 .. PointerSize
      <4>2. bytes[Place(p, x) + NoteOffset(p, i) + k] = <<"address", Place(p, Count(p) + i), k>>
        BY <3>2, <3>9 DEF PointsTo
      <4>3. bytes'[Place(p, x) + NoteOffset(p, i) + k] = bytes[Place(p, x) + NoteOffset(p, i) + k]
        BY <1>10, <3>12
      <4>4. QED
        BY <2>5, <3>9, <4>2, <4>3
    <3>14. \A k \in 1 .. NoteSize(p, i) : bytes'[Place(p, Count(p) + i) + k] = <<"note", i, k>>
      BY <1>10, <3>2, <3>7 DEF PointsTo
    <3>15. QED
      BY <3>13, <3>14 DEF PointsTo, Place
  <2>8. QED
    BY <2>6, <2>7
<1>21. QED
  <2>1. Data(p, n + 1)'
    BY <1>10, <1>14, <1>15, <1>16, <1>19, <1>20 DEF Data
  <2>2. QED
    BY <2>1 DEF n

----------------------------------------------------------------------------
(***************************************************************************)
(* The stack.                                                              *)
(***************************************************************************)

IsStack(s) == \E S : s \in Seq(S)

\* The top of a stack after a push, and what a pop gives back.
LEMMA AppendTop ==
    ASSUME NEW s, IsStack(s), NEW x
    PROVE  /\ IsStack(Append(s, x))
           /\ Append(s, x)[Len(Append(s, x))] = x
           /\ SubSeq(Append(s, x), 1, Len(Append(s, x)) - 1) = s
           /\ Append(s, x) # <<>>
<1>1. PICK S : s \in Seq(S)
  BY Zenon DEF IsStack
<1>2. PICK T : T = S \cup {x}
  BY Zenon
<1>3. s \in Seq(T) /\ x \in T
  BY <1>1, <1>2
<1>4. Append(s, x) \in Seq(T)
  BY <1>3
<1>5. Append(s, x)[Len(Append(s, x))] = x /\ Append(s, x) # <<>>
  BY <1>3
<1>6. SubSeq(Append(s, x), 1, Len(Append(s, x)) - 1) = s
  BY <1>3
<1>7. QED
  BY <1>4, <1>5, <1>6, Zenon DEF IsStack

\* Under the top.
ThreeOver(t, s, x, y, z) ==
    /\ t[Len(t)] = z /\ t[Len(t) - 1] = y /\ t[Len(t) - 2] = x
    /\ SubSeq(t, 1, Len(t) - 3) = s

\* The same for three pushes: the stack that string_ptr_val looks into.
LEMMA AppendThree ==
    ASSUME NEW s, IsStack(s), NEW x, NEW y, NEW z, NEW t,
           t = Append(Append(Append(s, x), y), z)
    PROVE  ThreeOver(t, s, x, y, z)
<1>1. PICK S : s \in Seq(S)
  BY Zenon DEF IsStack
<1>2. PICK T : T = S \cup {x, y, z}
  BY Zenon
<1>3. s \in Seq(T) /\ x \in T /\ y \in T /\ z \in T
  BY <1>1, <1>2
<1>4. PICK n \in Nat : n = Len(s)
  BY <1>3
<1>5. /\ t \in Seq(T) /\ Len(t) = n + 3
      /\ t[n + 3] = z /\ t[n + 2] = y /\ t[n + 1] = x
      /\ \A i \in 1 .. n : t[i] = s[i]
  BY <1>3, <1>4
<1>6. Len(t) - 1 = n + 2 /\ Len(t) - 2 = n + 1 /\ Len(t) - 3 = n
  BY <1>4, <1>5
<1>7. SubSeq(t, 1, n) = s
  <2>1. /\ SubSeq(t, 1, n) \in Seq(T) /\ Len(SubSeq(t, 1, n)) = n
        /\ \A i \in 1 .. n : SubSeq(t, 1, n)[i] = t[i]
    BY <1>4, <1>5
  <2>2. \A i \in 1 .. n : SubSeq(t, 1, n)[i] = s[i]
    BY <1>5, <2>1
  <2>3. QED
    BY <1>3, <1>4, <2>1, <2>2
<1>8. QED
  BY <1>5, <1>6, <1>7 DEF ThreeOver

\* The stacks of the tables are stacks.
LEMMA Stacks ==
    ASSUME NEW b, IsStack(b)
    PROVE  /\ IsStack(InText(b)) /\ IsStack(InObject(b)) /\ IsStack(InNotes(b)) /\ IsStack(InNote(b))
           /\ \A key : IsStack(NoteNamed(b, key))
           /\ \A key, offset : IsStack(NotePlaced(b, key, offset))
<1>1. IsStack(InText(b))
  BY AppendTop, Zenon DEF InText
<1>2. IsStack(InObject(b))
  BY <1>1, AppendTop, Zenon DEF InObject
<1>3. IsStack(InNotes(b))
  BY <1>2, AppendTop, Zenon DEF InNotes
<1>4. IsStack(InNote(b))
  BY <1>3, AppendTop, Zenon DEF InNote
<1>5. \A key : IsStack(NoteNamed(b, key))
  BY <1>4, AppendTop, Zenon DEF NoteNamed
<1>6. \A key, offset : IsStack(NotePlaced(b, key, offset))
  BY <1>5, AppendTop, Zenon DEF NotePlaced
<1>7. QED
  BY <1>1, <1>2, <1>3, <1>4, <1>5, <1>6, Zenon

----------------------------------------------------------------------------
(***************************************************************************)
(* What each callback does to the stack and to the data.                   *)
(***************************************************************************)

Callback == StartObject \/ Key \/ Uint \/ String \/ EndObject \/ StartArray \/ EndArray

Moved == Advance /\ UNCHANGED <<status, failed, parses>>

Quiet == UNCHANGED <<object_ptrs, name_id_map, bytes, tail_offset>>

Step(stack) == Moved /\ parse_stack' = stack

\* The event decides which callback it is.
LEMMA WhichCallback ==
    ASSUME Callback
    PROVE  /\ token.event = "StartObject" => StartObject
           /\ token.event = "Key" => Key
           /\ token.event = "Uint" => Uint
           /\ token.event = "String" => String
           /\ token.event = "EndObject" => EndObject
           /\ token.event = "StartArray" => StartArray
           /\ token.event = "EndArray" => EndArray
<1>1. /\ StartObject => token.event = "StartObject"
      /\ Key => token.event = "Key"
      /\ Uint => token.event = "Uint"
      /\ String => token.event = "String"
      /\ EndObject => token.event = "EndObject"
      /\ StartArray => token.event = "StartArray"
      /\ EndArray => token.event = "EndArray"
  BY Zenon DEF StartObject, Key, Uint, String, EndObject, EndArray, End, StartArray, Event
<1>2. PICK e : e = token.event
  BY Zenon
<1>3. QED
  BY <1>1, <1>2 DEF Callback

\* StartObject pushes an object.
LEMMA DoStartObject ==
    ASSUME StartObject
    PROVE  Step(Append(parse_stack, Object)) /\ Quiet
  BY Zenon DEF StartObject, Continue, Step, Moved, Quiet, Object

\* Key pushes the key.
LEMMA DoKey ==
    ASSUME Key
    PROVE  Step(WithKey(parse_stack, token.key)) /\ Quiet
  BY Zenon DEF Key, Continue, Step, Moved, Quiet, WithKey, KeyItem

\* EndObject over an object pops it and does not fail.
LEMMA DoEndObject ==
    ASSUME EndObject, failed = FALSE, NEW s, IsStack(s), parse_stack = Append(s, Object)
    PROVE  Step(s) /\ Quiet
<1>1. Top = Object /\ Popped(1) = s
  BY AppendTop, Zenon DEF Top, Popped
<1>2. Top.type = "OBJECT"
  BY <1>1 DEF Object, Item
<1>3. End("EndObject", "OBJECT")
  BY Zenon DEF EndObject
<1>4. parse_stack' = s /\ Advance /\ UNCHANGED <<status, parses>> /\ Quiet
  BY <1>1, <1>2, <1>3, Zenon DEF End, Quiet
<1>5. failed' = (failed \/ Top.type # "OBJECT")
  BY <1>3, Zenon DEF End
<1>6. failed' = failed
  BY <1>2, <1>5
<1>7. QED
  BY <1>4, <1>6, Zenon DEF Step, Moved

\* EndArray over an array pops it and does not fail.
LEMMA DoEndArray ==
    ASSUME EndArray, failed = FALSE, NEW s, IsStack(s), parse_stack = Append(s, Array)
    PROVE  Step(s) /\ Quiet
<1>1. Top = Array /\ Popped(1) = s
  BY AppendTop, Zenon DEF Top, Popped
<1>2. Top.type = "ARRAY"
  BY <1>1 DEF Array, Item
<1>3. End("EndArray", "ARRAY")
  BY Zenon DEF EndArray
<1>4. parse_stack' = s /\ Advance /\ UNCHANGED <<status, parses>> /\ Quiet
  BY <1>1, <1>2, <1>3, Zenon DEF End, Quiet
<1>5. failed' = (failed \/ Top.type # "ARRAY")
  BY <1>3, Zenon DEF End
<1>6. failed' = failed
  BY <1>2, <1>5
<1>7. QED
  BY <1>4, <1>6, Zenon DEF Step, Moved

\* An array under a key takes its place.
LEMMA DoStartArray ==
    ASSUME StartArray, NEW s, IsStack(s), NEW key, parse_stack = WithKey(s, key)
    PROVE  Step(Append(s, Array)) /\ Quiet
<1>1. Top = KeyItem(key) /\ Popped(1) = s /\ parse_stack # <<>>
  BY AppendTop, Zenon DEF Top, Popped, WithKey
<1>2. Top.type = "KEY"
  BY <1>1 DEF KeyItem, Item
<1>3. start_array("KEY")
  BY <1>1, <1>2, Zenon DEF StartArray
<1>4. parse_stack' = Append(s, Array) /\ UNCHANGED status
  BY <1>1, <1>3, Zenon DEF start_array, Array
<1>5. QED
  BY <1>4, Zenon DEF StartArray, Continue, Step, Moved, Quiet

\* The array of a text: over arrays, or over nothing.
LEMMA DoStartText ==
    ASSUME StartArray, IsStack(parse_stack),
           parse_stack # <<>> => Top = Array
    PROVE  \/ Step(Append(parse_stack, Array)) /\ Quiet
           \/ status' = "crashed" /\ UNCHANGED <<failed, parses, object_ptrs>>
<1>1. PICK type : start_array(type) /\ (parse_stack # <<>> => type = Top.type)
  BY Zenon DEF StartArray
<1>2. Array.type # "KEY"
  BY DEF Array, Item
<1>3. CASE parse_stack = <<>> /\ type = "KEY"
  BY <1>1, <1>3, Zenon DEF start_array, StartArray, Continue
<1>4. CASE ~(parse_stack = <<>> /\ type = "KEY")
  <2>1. type # "KEY"
    BY <1>1, <1>2, <1>4, Zenon
  <2>2. parse_stack' = Append(parse_stack, Array) /\ UNCHANGED status
    BY <1>1, <1>4, <2>1, Zenon DEF start_array, Array
  <2>3. QED
    BY <2>2, Zenon DEF StartArray, Continue, Step, Moved, Quiet
<1>5. QED
  BY <1>3, <1>4, Zenon

\* Uint, by the key on top of the stack.
LEMMA DoUint ==
    ASSUME Uint, NEW s, IsStack(s), NEW key, parse_stack = WithKey(s, key)
    PROVE  /\ key = "SegmentType" => Step(s) /\ Quiet
           /\ key = "ptr_offset" => Step(Append(s, Item("PTR_OFFSET", token.value))) /\ Quiet
           /\ key \notin Reserved => /\ Step(s)
                                     /\ set_buffer(append(buffer, Value("item", token.value, UintSize)))
                                     /\ name_item(key)
<1>1. Top = KeyItem(key) /\ Popped(1) = s
  BY AppendTop, Zenon DEF Top, Popped, WithKey
<1>2. Top.key = key
  BY <1>1 DEF KeyItem, Item
<1>3. Moved
  BY Zenon DEF Uint, Continue, Moved
<1>4. "SegmentType" # "ptr_offset" /\ "SegmentType" \in Reserved /\ "ptr_offset" \in Reserved
  BY DEF Reserved
<1>5. CASE key = "SegmentType"
  BY <1>1, <1>2, <1>3, <1>4, <1>5, Zenon DEF Uint, Step, Quiet
<1>6. CASE key = "ptr_offset"
  BY <1>1, <1>2, <1>3, <1>4, <1>6, Zenon DEF Uint, Step, Quiet
<1>7. CASE key \notin Reserved
  <2>1. key # "SegmentType" /\ key # "ptr_offset"
    BY <1>4, <1>7, Zenon
  <2>2. QED
    BY <1>1, <1>2, <1>3, <2>1, <1>7, Zenon DEF Uint, Step
<1>8. QED
  BY <1>5, <1>6, <1>7, Zenon

\* String, by the key on top of the stack, for all but the value of a note.
LEMMA DoString ==
    ASSUME String, NEW s, IsStack(s), NEW key, parse_stack = WithKey(s, key)
    PROVE  /\ key = "ptr_key" => Step(Append(s, Item("PTR_KEY", token.key))) /\ Quiet
           /\ key \notin {"ptr_key", "ptr_val"} =>
                  /\ Step(s)
                  /\ set_buffer(append(buffer, token.value))
                  /\ name_item(key)
<1>1. Top = KeyItem(key) /\ Popped(1) = s
  BY AppendTop, Zenon DEF Top, Popped, WithKey
<1>2. Top.key = key
  BY <1>1 DEF KeyItem, Item
<1>3. Moved
  BY Zenon DEF String, Continue, Moved
<1>4. "ptr_key" # "ptr_val"
  OBVIOUS
<1>5. CASE key = "ptr_key"
  BY <1>1, <1>2, <1>3, <1>4, <1>5, Zenon DEF String, Step, Quiet, string_ptr_val
<1>6. CASE key \notin {"ptr_key", "ptr_val"}
  BY <1>1, <1>2, <1>3, <1>6, Zenon DEF String, Step, string_ptr_val
<1>7. QED
  BY <1>5, <1>6, Zenon

\* The value of a note: its item and offset lie under the key.
LEMMA DoNoteValue ==
    ASSUME NEW p, NEW j, NEW b, IsStack(b), String, token.value = Sent(p, Count(p) + j),
           parse_stack = WithKey(NotePlaced(b, NoteKey(p, j), NoteOffset(p, j)), "ptr_val")
    PROVE  Step(InNote(b)) /\ NoteStep(p, j)
<1>1. IsStack(InNote(b))
  BY Stacks, Zenon
<1>2. parse_stack = Append(Append(Append(InNote(b), Item("PTR_KEY", NoteKey(p, j))),
                                  Item("PTR_OFFSET", NoteOffset(p, j))), KeyItem("ptr_val"))
  BY Zenon DEF WithKey, NotePlaced, NoteNamed
<1>3. /\ Top = KeyItem("ptr_val")
      /\ parse_stack[Len(parse_stack) - 1] = Item("PTR_OFFSET", NoteOffset(p, j))
      /\ parse_stack[Len(parse_stack) - 2] = Item("PTR_KEY", NoteKey(p, j))
      /\ Popped(3) = InNote(b)
  <2>1. PICK t : t = parse_stack
    BY Zenon
  <2>2. ThreeOver(t, InNote(b), Item("PTR_KEY", NoteKey(p, j)),
                  Item("PTR_OFFSET", NoteOffset(p, j)), KeyItem("ptr_val"))
    BY <1>1, <1>2, <2>1, AppendThree, Zenon
  <2>3. QED
    BY <2>1, <2>2, Zenon DEF ThreeOver, Top, Popped
<1>4. /\ Top.key = "ptr_val"
      /\ parse_stack[Len(parse_stack) - 1].key = NoteOffset(p, j)
      /\ parse_stack[Len(parse_stack) - 2].key = NoteKey(p, j)
  BY <1>3 DEF KeyItem, Item
<1>5. "ptr_key" # "ptr_val"
  OBVIOUS
<1>6. string_ptr_val
  BY <1>4, <1>5, Zenon DEF String
<1>7. /\ parse_stack' = InNote(b)
      /\ NoteStep(p, j)
  BY <1>3, <1>4, <1>6, Zenon DEF string_ptr_val, NoteStep, item_ptr
<1>8. Moved
  BY Zenon DEF String, Continue, Moved
<1>9. QED
  BY <1>7, <1>8, Zenon DEF Step

----------------------------------------------------------------------------
(***************************************************************************)
(* The text.                                                               *)
(***************************************************************************)

ItemEvents(key, value) ==
    <<StartObjectToken, KeyToken("SegmentType"), UintToken(1), KeyToken(key), value,
      EndObjectToken>>

NoteEvents(key, offset, value) ==
    <<StartObjectToken, KeyToken("SegmentType"), UintToken(2),
      KeyToken("note_arry"), StartArrayToken,
      StartObjectToken, KeyToken("ptr_key"), NameToken(key),
      KeyToken("ptr_offset"), UintToken(offset),
      KeyToken("ptr_val"), StringToken(value), EndObjectToken,
      EndArrayToken, EndObjectToken, EndArrayToken>>

\* Call c writes the events of t up to to, without those it skips.
Part(p, c, t, to) ==
    /\ Len(Text(p)[c]) = to - Skipped(p, c)
    /\ \A e \in 1 .. to - Skipped(p, c) : Text(p)[c][e] = t[e + Skipped(p, c)]

\* The events of a call are a part of the events of a SINGLE call.
LEMMA PartOfTuple ==
    ASSUME NEW S, NEW s \in Seq(S), NEW m \in 0 .. Len(s), NEW n \in m .. Len(s)
    PROVE  /\ Len(SubSeq(s, m + 1, n)) = n - m
           /\ \A e \in 1 .. n - m : SubSeq(s, m + 1, n)[e] = s[e + m]
  OBVIOUS

\* The length of a sequence given as a function.
LEMMA FunctionLength ==
    ASSUME NEW n \in Nat, NEW f, DOMAIN f = 1 .. n, f = [c \in 1 .. n |-> f[c]]
    PROVE  Len(f) = n
<1>1. PICK S : S = {f[c] : c \in 1 .. n}
  BY Zenon
<1>2. f \in [1 .. n -> S]
  BY <1>1
<1>3. QED
  BY <1>2

\* One call for every value.
CallText(p, c) ==
    LET i == c - 1
        j == c - 1 - Len(p.items)
    IN  IF c = 1 THEN set_packet_header(Sent(p, 0))
        ELSE IF i <= Len(p.items)
        THEN set_packet_item(p.items[i].key, ItemToken(p, i), i = 1, i = Len(p.items))
        ELSE set_note_for_ptr(p.notes[j].key, p.notes[j].offset, Sent(p, i),
                              j = 1, j = Len(p.notes))

\* The text has one part for each value.
LEMMA TextCalls ==
    ASSUME NEW p \in Packets
    PROVE  /\ Len(Text(p)) = Count(p) + Notes(p) + 1
           /\ \A c \in 1 .. Count(p) + Notes(p) + 1 : Text(p)[c] = CallText(p, c)
<1>1. Count(p) \in Nat /\ Notes(p) \in Nat
  BY PacketTypes
<1>2. PICK n \in Nat : n = 1 + Count(p) + Notes(p)
  BY <1>1
<1>3. Text(p) = [c \in 1 .. n |-> CallText(p, c)]
  BY <1>2, Zenon DEF Text, CallText, Count, Notes
<1>4. DOMAIN Text(p) = 1 .. n /\ \A c \in 1 .. n : Text(p)[c] = CallText(p, c)
  BY <1>3, Zenon
<1>5. Text(p) = [c \in 1 .. n |-> Text(p)[c]]
  BY <1>3, Zenon
<1>6. Len(Text(p)) = n
  BY <1>4, <1>5, FunctionLength, Zenon
<1>7. n = Count(p) + Notes(p) + 1
  BY <1>1, <1>2
<1>8. QED
  BY <1>4, <1>6, <1>7, Zenon

\* What set_packet_header wrote.
LEMMA HeaderCall ==
    ASSUME NEW p \in Packets
    PROVE  Part(p, 1, set_packet_header(Sent(p, 0)), 7)
<1>1. Count(p) \in Nat /\ Notes(p) \in Nat
  BY PacketTypes
<1>2. 1 \in 1 .. Count(p) + Notes(p) + 1
  BY <1>1
<1>3. Text(p)[1] = set_packet_header(Sent(p, 0))
  BY <1>2, TextCalls, Zenon DEF CallText
<1>4. Skipped(p, 1) = 0
  BY Zenon DEF Skipped
<1>5. Len(set_packet_header(Sent(p, 0))) = 7
  BY DEF set_packet_header
<1>6. \A e \in 1 .. 7 - 0 : e + 0 = e
  OBVIOUS
<1>7. 7 - 0 = 7
  OBVIOUS
<1>8. QED
  BY <1>3, <1>4, <1>5, <1>6, <1>7, Zenon DEF Part

\* What the call for item i wrote.
LEMMA ItemCall ==
    ASSUME NEW p \in Packets, NEW i \in 1 .. Count(p)
    PROVE  Part(p, i + 1, ItemEvents(KeyOf(p, i), ItemToken(p, i)), IF i = Count(p) THEN 6 ELSE 5)
<1>1. Count(p) \in Nat /\ Notes(p) \in Nat
  BY PacketTypes
<1>2. /\ i + 1 \in 1 .. Count(p) + Notes(p) + 1 /\ i + 1 # 1 /\ (i + 1) - 1 = i
      /\ i <= Count(p) /\ i # 0
  BY <1>1
<1>3. PICK t : t = ItemEvents(KeyOf(p, i), ItemToken(p, i))
  BY Zenon
<1>4. \E S : t \in Seq(S)
  <2>1. PICK a, b, c, d, e, f : t = <<a, b, c, d, e, f>>
    BY <1>3, Zenon DEF ItemEvents
  <2>2. t \in Seq({a, b, c, d, e, f})
    BY <2>1
  <2>3. QED
    BY <2>2, Zenon
<1>5. Len(t) = 6
  BY <1>3 DEF ItemEvents
<1>6. PICK n \in {5, 6} : n = IF i = Count(p) THEN 6 ELSE 5
  BY Zenon
<1>7. PICK m \in {0, 3} : m = Skipped(p, i + 1)
  <2>1. i + 1 <= Count(p) + 1
    BY <1>1
  <2>2. QED
    BY <2>1, Zenon DEF Skipped
<1>8. m + 1 = IF i = 1 THEN 1 ELSE 4
  <2>1. CASE i = 1
    <3>1. i + 1 \in {1, 2, Count(p) + 2}
      BY <2>1
    <3>2. m = 0
      BY <1>7, <3>1, Zenon DEF Skipped
    <3>3. QED
      BY <2>1, <3>2
  <2>2. CASE i # 1
    <3>1. i + 1 \notin {1, 2, Count(p) + 2} /\ i + 1 <= Count(p) + 1
      BY <1>1, <2>2
    <3>2. m = 3
      BY <1>7, <3>1, Zenon DEF Skipped
    <3>3. QED
      BY <2>2, <3>2
  <2>3. QED
    BY <2>1, <2>2
<1>9. Text(p)[i + 1] = SubSeq(t, m + 1, n)
  <2>1. Text(p)[i + 1] = CallText(p, i + 1)
    BY <1>2, TextCalls, Zenon
  <2>2. CallText(p, i + 1)
            = set_packet_item(p.items[i].key, ItemToken(p, i), i = 1, i = Len(p.items))
    BY <1>2, Zenon DEF CallText, Count
  <2>3. p.items[i].key = KeyOf(p, i)
    BY <1>2, Zenon DEF KeyOf
  <2>4. QED
    BY <1>3, <1>6, <1>8, <2>1, <2>2, <2>3, Zenon DEF set_packet_item, ItemEvents, Count
<1>10. /\ Len(SubSeq(t, m + 1, n)) = n - m
       /\ \A e \in 1 .. n - m : SubSeq(t, m + 1, n)[e] = t[e + m]
  <2>1. m \in 0 .. Len(t) /\ n \in m .. Len(t)
    BY <1>5
  <2>2. QED
    BY <1>4, <2>1, PartOfTuple, Zenon
<1>11. QED
  BY <1>3, <1>6, <1>7, <1>9, <1>10, Zenon DEF Part

\* What the call for note j wrote.
LEMMA NoteCall ==
    ASSUME NEW p \in Packets, NEW j \in 1 .. Notes(p)
    PROVE  Part(p, Count(p) + j + 1,
                NoteEvents(NoteKey(p, j), NoteOffset(p, j), Sent(p, Count(p) + j)),
                IF j = Notes(p) THEN 16 ELSE 13)
<1>1. Count(p) \in Nat /\ Notes(p) \in Nat
  BY PacketTypes
<1>2. PICK c \in Nat : c = Count(p) + j + 1
  BY <1>1
<1>3. /\ c \in 1 .. Count(p) + Notes(p) + 1 /\ c # 1 /\ c - 1 = Count(p) + j
      /\ (c - 1) - Count(p) = j
      /\ ~(c - 1 <= Count(p))
  BY <1>2, <1>1
<1>4. PICK t : t = NoteEvents(NoteKey(p, j), NoteOffset(p, j), Sent(p, Count(p) + j))
  BY Zenon
<1>5. \E S : t \in Seq(S)
  <2>1. PICK a1, a2, a3, a4, a5, a6, a7, a8, a9, b1, b2, b3, b4, b5, b6, b7 :
            t = <<a1, a2, a3, a4, a5, a6, a7, a8, a9, b1, b2, b3, b4, b5, b6, b7>>
    BY <1>4, Zenon DEF NoteEvents
  <2>2. t \in Seq({a1, a2, a3, a4, a5, a6, a7, a8, a9, b1, b2, b3, b4, b5, b6, b7})
    BY <2>1
  <2>3. QED
    BY <2>2, Zenon
<1>6. Len(t) = 16
  BY <1>4 DEF NoteEvents
<1>7. PICK n \in {13, 16} : n = IF j = Notes(p) THEN 16 ELSE 13
  BY Zenon
<1>8. PICK m \in {0, 5} : m = Skipped(p, c)
  <2>1. ~(c <= Count(p) + 1)
    BY <1>2, <1>1
  <2>2. QED
    BY <2>1, Zenon DEF Skipped
<1>9. m + 1 = IF j = 1 THEN 1 ELSE 6
  <2>1. CASE j = 1
    <3>1. c \in {1, 2, Count(p) + 2}
      BY <1>2, <1>1, <2>1
    <3>2. m = 0
      BY <1>8, <3>1, Zenon DEF Skipped
    <3>3. QED
      BY <2>1, <3>2
  <2>2. CASE j # 1
    <3>1. c \notin {1, 2, Count(p) + 2} /\ ~(c <= Count(p) + 1)
      BY <1>2, <1>1, <2>2
    <3>2. m = 5
      BY <1>8, <3>1, Zenon DEF Skipped
    <3>3. QED
      BY <2>2, <3>2
  <2>3. QED
    BY <2>1, <2>2
<1>10. Text(p)[c] = SubSeq(t, m + 1, n)
  <2>1. Text(p)[c] = CallText(p, c)
    BY <1>3, TextCalls, Zenon
  <2>2. CallText(p, c)
            = set_note_for_ptr(p.notes[j].key, p.notes[j].offset, Sent(p, Count(p) + j),
                               j = 1, j = Len(p.notes))
    BY <1>3, Zenon DEF CallText, Count
  <2>3. QED
    BY <1>4, <1>7, <1>9, <2>1, <2>2, Zenon
       DEF set_note_for_ptr, NoteEvents, Notes, NoteKey, NoteOffset
<1>11. /\ Len(SubSeq(t, m + 1, n)) = n - m
       /\ \A e \in 1 .. n - m : SubSeq(t, m + 1, n)[e] = t[e + m]
  <2>1. m \in 0 .. Len(t) /\ n \in m .. Len(t)
    BY <1>6
  <2>2. QED
    BY <1>5, <2>1, PartOfTuple, Zenon
<1>12. QED
  BY <1>2, <1>4, <1>7, <1>8, <1>10, <1>11, Zenon DEF Part

----------------------------------------------------------------------------
(***************************************************************************)
(* One event of each call: from one stack of the table to the next.        *)
(***************************************************************************)

\* What a callback finds in its event.
LEMMA TokenFields ==
    /\ StartObjectToken.event = "StartObject" /\ EndObjectToken.event = "EndObject"
    /\ StartArrayToken.event = "StartArray" /\ EndArrayToken.event = "EndArray"
    /\ \A key : KeyToken(key).event = "Key" /\ KeyToken(key).key = key
    /\ \A value : StringToken(value).event = "String" /\ StringToken(value).value = value
    /\ \A key : NameToken(key).event = "String" /\ NameToken(key).key = key
    /\ \A number : UintToken(number).event = "Uint" /\ UintToken(number).value = number
  BY DEF StartObjectToken, EndObjectToken, StartArrayToken, EndArrayToken, KeyToken,
         StringToken, NameToken, UintToken, Token

\* The value of an item is appended and named by its key.
Appended(key, value) == set_buffer(append(buffer, value)) /\ name_item(key)

Crash == status' = "crashed" /\ UNCHANGED <<failed, parses, object_ptrs>>

\* Reading the header: its array may crash the first parse.
LEMMA HeaderStep ==
    ASSUME NEW value, NEW b, IsStack(b), b # <<>> => b[Len(b)] = Array,
           failed = FALSE, Callback, NEW e \in 1 .. 7,
           token = set_packet_header(value)[e], parse_stack = HeaderStacks(b)[e]
    PROVE  \/ /\ Step(HeaderStacks(b)[e + 1])
              /\ IF e = 6 THEN Appended("PacketHeader", value) ELSE Quiet
           \/ Crash
<1>1. /\ IsStack(InText(b)) /\ IsStack(InObject(b))
      /\ "PacketHeader" \notin {"ptr_key", "ptr_val"}
  <2>1. "PacketHeader" \notin {"ptr_key", "ptr_val"}
    OBVIOUS
  <2>2. QED
    BY <2>1, Stacks, Zenon
<1>2. CASE e = 1
  <2>1. token = StartArrayToken
    BY <1>2 DEF set_packet_header
  <2>2. /\ parse_stack = b
        /\ HeaderStacks(b)[e + 1] = InText(b)
        /\ e # 6
    BY <1>2 DEF HeaderStacks
  <2>3. StartArray
    BY <2>1, WhichCallback, TokenFields, Zenon
  <2>4. QED
    BY <1>1, <2>2, <2>3, DoStartText, Zenon DEF InText, Crash, Top
<1>3. CASE e = 2
  <2>1. token = StartObjectToken
    BY <1>3 DEF set_packet_header
  <2>2. /\ parse_stack = InText(b)
        /\ HeaderStacks(b)[e + 1] = InObject(b)
        /\ e # 6
    BY <1>3 DEF HeaderStacks
  <2>3. StartObject
    BY <2>1, WhichCallback, TokenFields, ZenonT(40)
  <2>4. InObject(b) = Append(InText(b), Object)
    BY ZenonT(40) DEF InObject
  <2>5. Step(InObject(b)) /\ Quiet
    BY <1>1, <2>2, <2>3, <2>4, DoStartObject, ZenonT(40)
  <2>6. QED
    BY <2>2, <2>5, ZenonT(40)
<1>4. CASE e = 3
  <2>1. token = KeyToken("SegmentType")
    BY <1>4 DEF set_packet_header
  <2>2. /\ parse_stack = InObject(b)
        /\ HeaderStacks(b)[e + 1] = WithKey(InObject(b), "SegmentType")
        /\ e # 6
    BY <1>4 DEF HeaderStacks
  <2>3. Key
    BY <2>1, WhichCallback, TokenFields, ZenonT(40)
  <2>4. token.key = "SegmentType"
    BY <2>1, TokenFields, ZenonT(40)
  <2>5. Step(WithKey(InObject(b), "SegmentType")) /\ Quiet
    BY <1>1, <2>2, <2>3, <2>4, DoKey, ZenonT(40)
  <2>6. QED
    BY <2>2, <2>5, ZenonT(40)
<1>5. CASE e = 4
  <2>1. token = UintToken(0)
    BY <1>5 DEF set_packet_header
  <2>2. /\ parse_stack = WithKey(InObject(b), "SegmentType")
        /\ HeaderStacks(b)[e + 1] = InObject(b)
        /\ e # 6
    BY <1>5 DEF HeaderStacks
  <2>3. Uint
    BY <2>1, WhichCallback, TokenFields, ZenonT(40)
  <2>4. token.value = 0
    BY <2>1, TokenFields, ZenonT(40)
  <2>5. Step(InObject(b)) /\ Quiet
    BY <1>1, <2>2, <2>3, <2>4, DoUint, ZenonT(40)
  <2>6. QED
    BY <2>2, <2>5, ZenonT(40)
<1>6. CASE e = 5
  <2>1. token = KeyToken("PacketHeader")
    BY <1>6 DEF set_packet_header
  <2>2. /\ parse_stack = InObject(b)
        /\ HeaderStacks(b)[e + 1] = WithKey(InObject(b), "PacketHeader")
        /\ e # 6
    BY <1>6 DEF HeaderStacks
  <2>3. Key
    BY <2>1, WhichCallback, TokenFields, ZenonT(40)
  <2>4. token.key = "PacketHeader"
    BY <2>1, TokenFields, ZenonT(40)
  <2>5. Step(WithKey(InObject(b), "PacketHeader")) /\ Quiet
    BY <1>1, <2>2, <2>3, <2>4, DoKey, ZenonT(40)
  <2>6. QED
    BY <2>2, <2>5, ZenonT(40)
<1>7. CASE e = 6
  <2>1. token = StringToken(value)
    BY <1>7 DEF set_packet_header
  <2>2. /\ parse_stack = WithKey(InObject(b), "PacketHeader")
        /\ HeaderStacks(b)[e + 1] = InObject(b)
    BY <1>7 DEF HeaderStacks
  <2>3. String
    BY <2>1, WhichCallback, TokenFields, ZenonT(40)
  <2>4. token.value = value
    BY <2>1, TokenFields, ZenonT(40)
  <2>5. Step(InObject(b)) /\ Appended("PacketHeader", value)
    BY <1>1, <2>2, <2>3, <2>4, DoString, ZenonT(40) DEF Appended
  <2>6. QED
    BY <1>7, <2>2, <2>5, ZenonT(40)
<1>8. CASE e = 7
  <2>1. token = EndObjectToken
    BY <1>8 DEF set_packet_header
  <2>2. /\ parse_stack = InObject(b)
        /\ HeaderStacks(b)[e + 1] = InText(b)
        /\ e # 6
    BY <1>8 DEF HeaderStacks
  <2>3. EndObject
    BY <2>1, WhichCallback, TokenFields, ZenonT(40)
  <2>4. InObject(b) = Append(InText(b), Object)
    BY ZenonT(40) DEF InObject
  <2>5. Step(InText(b)) /\ Quiet
    BY <1>1, <2>2, <2>3, <2>4, DoEndObject, ZenonT(40)
  <2>6. QED
    BY <2>2, <2>5, ZenonT(40)
<1>9. QED
  BY <1>2, <1>3, <1>4, <1>5, <1>6, <1>7, <1>8

\* Reading an item: a string, or a number.
LEMMA ItemCallStep ==
    ASSUME NEW key, key \notin Reserved, NEW item, NEW value, NEW b, IsStack(b),
           \/ item = StringToken(value)
           \/ \E number : item = UintToken(number) /\ value = Value("item", number, UintSize),
           failed = FALSE, Callback, NEW e \in 1 .. 6,
           token = ItemEvents(key, item)[e], parse_stack = ItemStacks(b, key)[e]
    PROVE  /\ Step(ItemStacks(b, key)[e + 1])
           /\ IF e = 5 THEN Appended(key, value) ELSE Quiet
<1>1. IsStack(InText(b)) /\ IsStack(InObject(b)) /\ key \notin {"ptr_key", "ptr_val"}
  <2>1. key \notin {"ptr_key", "ptr_val"}
    BY DEF Reserved
  <2>2. QED
    BY <2>1, Stacks, ZenonT(40)
<1>2. CASE e = 1
  <2>1. token = StartObjectToken
    BY <1>2 DEF ItemEvents
  <2>2. /\ parse_stack = InText(b)
        /\ ItemStacks(b, key)[e + 1] = InObject(b)
        /\ e # 5
    BY <1>2 DEF ItemStacks
  <2>3. StartObject
    BY <2>1, WhichCallback, TokenFields, ZenonT(40)
  <2>4. InObject(b) = Append(InText(b), Object)
    BY ZenonT(40) DEF InObject
  <2>5. Step(InObject(b)) /\ Quiet
    BY <1>1, <2>2, <2>3, <2>4, DoStartObject, ZenonT(40)
  <2>6. QED
    BY <2>2, <2>5, ZenonT(40)
<1>3. CASE e = 2
  <2>1. token = KeyToken("SegmentType")
    BY <1>3 DEF ItemEvents
  <2>2. /\ parse_stack = InObject(b)
        /\ ItemStacks(b, key)[e + 1] = WithKey(InObject(b), "SegmentType")
        /\ e # 5
    BY <1>3 DEF ItemStacks
  <2>3. Key
    BY <2>1, WhichCallback, TokenFields, ZenonT(40)
  <2>4. token.key = "SegmentType"
    BY <2>1, TokenFields, ZenonT(40)
  <2>5. Step(WithKey(InObject(b), "SegmentType")) /\ Quiet
    BY <1>1, <2>2, <2>3, <2>4, DoKey, ZenonT(40)
  <2>6. QED
    BY <2>2, <2>5, ZenonT(40)
<1>4. CASE e = 3
  <2>1. token = UintToken(1)
    BY <1>4 DEF ItemEvents
  <2>2. /\ parse_stack = WithKey(InObject(b), "SegmentType")
        /\ ItemStacks(b, key)[e + 1] = InObject(b)
        /\ e # 5
    BY <1>4 DEF ItemStacks
  <2>3. Uint
    BY <2>1, WhichCallback, TokenFields, ZenonT(40)
  <2>4. token.value = 1
    BY <2>1, TokenFields, ZenonT(40)
  <2>5. Step(InObject(b)) /\ Quiet
    BY <1>1, <2>2, <2>3, <2>4, DoUint, ZenonT(40)
  <2>6. QED
    BY <2>2, <2>5, ZenonT(40)
<1>5. CASE e = 4
  <2>1. token = KeyToken(key)
    BY <1>5 DEF ItemEvents
  <2>2. /\ parse_stack = InObject(b)
        /\ ItemStacks(b, key)[e + 1] = WithKey(InObject(b), key)
        /\ e # 5
    BY <1>5 DEF ItemStacks
  <2>3. Key
    BY <2>1, WhichCallback, TokenFields, ZenonT(40)
  <2>4. token.key = key
    BY <2>1, TokenFields, ZenonT(40)
  <2>5. Step(WithKey(InObject(b), key)) /\ Quiet
    BY <1>1, <2>2, <2>3, <2>4, DoKey, ZenonT(40)
  <2>6. QED
    BY <2>2, <2>5, ZenonT(40)
<1>6. CASE e = 5
  <2>1. token = item
    BY <1>6 DEF ItemEvents
  <2>2. /\ parse_stack = WithKey(InObject(b), key)
        /\ ItemStacks(b, key)[e + 1] = InObject(b)
    BY <1>6 DEF ItemStacks
  <2>3. CASE item = StringToken(value)
    <3>1. String
      BY <2>1, <2>3, WhichCallback, TokenFields, ZenonT(40)
    <3>2. token.value = value
      BY <2>1, <2>3, TokenFields, ZenonT(40)
    <3>3. Step(InObject(b)) /\ set_buffer(append(buffer, token.value)) /\ name_item(key)
      BY <1>1, <2>2, <3>1, DoString, ZenonT(40)
    <3>4. Appended(key, value)
      BY <3>2, <3>3, ZenonT(40) DEF Appended
    <3>5. QED
      BY <1>6, <2>2, <3>3, <3>4, ZenonT(40)
  <2>4. CASE \E number : item = UintToken(number) /\ value = Value("item", number, UintSize)
    <3>1. PICK number : item = UintToken(number) /\ value = Value("item", number, UintSize)
      BY <2>4, ZenonT(40)
    <3>2. Uint
      BY <2>1, <3>1, WhichCallback, TokenFields, ZenonT(40)
    <3>3. token.value = number
      BY <2>1, <3>1, TokenFields, ZenonT(40)
    <3>4. Step(InObject(b)) /\ Appended(key, value)
      BY <1>1, <2>2, <3>1, <3>2, <3>3, DoUint, ZenonT(40) DEF Appended
    <3>5. QED
      BY <1>6, <2>2, <3>4, ZenonT(40)
  <2>5. QED
    BY <2>3, <2>4, ZenonT(40)
<1>7. CASE e = 6
  <2>1. token = EndObjectToken
    BY <1>7 DEF ItemEvents
  <2>2. /\ parse_stack = InObject(b)
        /\ ItemStacks(b, key)[e + 1] = InText(b)
        /\ e # 5
    BY <1>7 DEF ItemStacks
  <2>3. EndObject
    BY <2>1, WhichCallback, TokenFields, ZenonT(40)
  <2>4. InObject(b) = Append(InText(b), Object)
    BY ZenonT(40) DEF InObject
  <2>5. Step(InText(b)) /\ Quiet
    BY <1>1, <2>2, <2>3, <2>4, DoEndObject, ZenonT(40)
  <2>6. QED
    BY <2>2, <2>5, ZenonT(40)
<1>8. QED
  BY <1>2, <1>3, <1>4, <1>5, <1>6, <1>7

\* Reading a note: its value takes its item and its offset off the stack.
LEMMA NoteCallStep ==
    ASSUME NEW p, NEW j, NEW b, IsStack(b), failed = FALSE, Callback, NEW e \in 1 .. 16,
           token = NoteEvents(NoteKey(p, j), NoteOffset(p, j), Sent(p, Count(p) + j))[e],
           parse_stack = NoteStacks(b, NoteKey(p, j), NoteOffset(p, j))[e]
    PROVE  /\ Step(NoteStacks(b, NoteKey(p, j), NoteOffset(p, j))[e + 1])
           /\ IF e = 12 THEN NoteStep(p, j) ELSE Quiet
<1> DEFINE named == NoteNamed(b, NoteKey(p, j))
           placed == NotePlaced(b, NoteKey(p, j), NoteOffset(p, j))
<1>1. /\ IsStack(InText(b)) /\ IsStack(InObject(b)) /\ IsStack(InNotes(b)) /\ IsStack(InNote(b))
      /\ IsStack(named) /\ IsStack(placed)
  BY Stacks, ZenonT(40)
<1>2. CASE e = 1
  <2>1. token = StartObjectToken
    BY <1>2 DEF NoteEvents
  <2>2. /\ parse_stack = InText(b)
        /\ NoteStacks(b, NoteKey(p, j), NoteOffset(p, j))[e + 1] = InObject(b)
        /\ e # 12
    BY <1>2 DEF NoteStacks
  <2>3. StartObject
    BY <2>1, WhichCallback, TokenFields, ZenonT(40)
  <2>4. InObject(b) = Append(InText(b), Object)
    BY ZenonT(40) DEF InObject
  <2>5. Step(InObject(b)) /\ Quiet
    BY <1>1, <2>2, <2>3, <2>4, DoStartObject, ZenonT(40)
  <2>6. QED
    BY <2>2, <2>5, ZenonT(40)
<1>3. CASE e = 2
  <2>1. token = KeyToken("SegmentType")
    BY <1>3 DEF NoteEvents
  <2>2. /\ parse_stack = InObject(b)
        /\ NoteStacks(b, NoteKey(p, j), NoteOffset(p, j))[e + 1] = WithKey(InObject(b), "SegmentType")
        /\ e # 12
    BY <1>3 DEF NoteStacks
  <2>3. Key
    BY <2>1, WhichCallback, TokenFields, ZenonT(40)
  <2>4. token.key = "SegmentType"
    BY <2>1, TokenFields, ZenonT(40)
  <2>5. Step(WithKey(InObject(b), "SegmentType")) /\ Quiet
    BY <1>1, <2>2, <2>3, <2>4, DoKey, ZenonT(40)
  <2>6. QED
    BY <2>2, <2>5, ZenonT(40)
<1>4. CASE e = 3
  <2>1. token = UintToken(2)
    BY <1>4 DEF NoteEvents
  <2>2. /\ parse_stack = WithKey(InObject(b), "SegmentType")
        /\ NoteStacks(b, NoteKey(p, j), NoteOffset(p, j))[e + 1] = InObject(b)
        /\ e # 12
    BY <1>4 DEF NoteStacks
  <2>3. Uint
    BY <2>1, WhichCallback, TokenFields, ZenonT(40)
  <2>4. token.value = 2
    BY <2>1, TokenFields, ZenonT(40)
  <2>5. Step(InObject(b)) /\ Quiet
    BY <1>1, <2>2, <2>3, <2>4, DoUint, ZenonT(40)
  <2>6. QED
    BY <2>2, <2>5, ZenonT(40)
<1>5. CASE e = 4
  <2>1. token = KeyToken("note_arry")
    BY <1>5 DEF NoteEvents
  <2>2. /\ parse_stack = InObject(b)
        /\ NoteStacks(b, NoteKey(p, j), NoteOffset(p, j))[e + 1] = WithKey(InObject(b), "note_arry")
        /\ e # 12
    BY <1>5 DEF NoteStacks
  <2>3. Key
    BY <2>1, WhichCallback, TokenFields, ZenonT(40)
  <2>4. token.key = "note_arry"
    BY <2>1, TokenFields, ZenonT(40)
  <2>5. Step(WithKey(InObject(b), "note_arry")) /\ Quiet
    BY <1>1, <2>2, <2>3, <2>4, DoKey, ZenonT(40)
  <2>6. QED
    BY <2>2, <2>5, ZenonT(40)
<1>6. CASE e = 5
  <2>1. token = StartArrayToken
    BY <1>6 DEF NoteEvents
  <2>2. /\ parse_stack = WithKey(InObject(b), "note_arry")
        /\ NoteStacks(b, NoteKey(p, j), NoteOffset(p, j))[e + 1] = InNotes(b)
        /\ e # 12
    BY <1>6 DEF NoteStacks
  <2>3. StartArray
    BY <2>1, WhichCallback, TokenFields, ZenonT(40)
  <2>4. InNotes(b) = Append(InObject(b), Array)
    BY ZenonT(40) DEF InNotes
  <2>5. Step(InNotes(b)) /\ Quiet
    BY <1>1, <2>2, <2>3, <2>4, DoStartArray, ZenonT(40)
  <2>6. QED
    BY <2>2, <2>5, ZenonT(40)
<1>7. CASE e = 6
  <2>1. token = StartObjectToken
    BY <1>7 DEF NoteEvents
  <2>2. /\ parse_stack = InNotes(b)
        /\ NoteStacks(b, NoteKey(p, j), NoteOffset(p, j))[e + 1] = InNote(b)
        /\ e # 12
    BY <1>7 DEF NoteStacks
  <2>3. StartObject
    BY <2>1, WhichCallback, TokenFields, ZenonT(40)
  <2>4. InNote(b) = Append(InNotes(b), Object)
    BY ZenonT(40) DEF InNote
  <2>5. Step(InNote(b)) /\ Quiet
    BY <1>1, <2>2, <2>3, <2>4, DoStartObject, ZenonT(40)
  <2>6. QED
    BY <2>2, <2>5, ZenonT(40)
<1>8. CASE e = 7
  <2>1. token = KeyToken("ptr_key")
    BY <1>8 DEF NoteEvents
  <2>2. /\ parse_stack = InNote(b)
        /\ NoteStacks(b, NoteKey(p, j), NoteOffset(p, j))[e + 1] = WithKey(InNote(b), "ptr_key")
        /\ e # 12
    BY <1>8 DEF NoteStacks
  <2>3. Key
    BY <2>1, WhichCallback, TokenFields, ZenonT(40)
  <2>4. token.key = "ptr_key"
    BY <2>1, TokenFields, ZenonT(40)
  <2>5. Step(WithKey(InNote(b), "ptr_key")) /\ Quiet
    BY <1>1, <2>2, <2>3, <2>4, DoKey, ZenonT(40)
  <2>6. QED
    BY <2>2, <2>5, ZenonT(40)
<1>9. CASE e = 8
  <2>1. token = NameToken(NoteKey(p, j))
    BY <1>9 DEF NoteEvents
  <2>2. /\ parse_stack = WithKey(InNote(b), "ptr_key")
        /\ NoteStacks(b, NoteKey(p, j), NoteOffset(p, j))[e + 1] = named
        /\ e # 12
    BY <1>9 DEF NoteStacks
  <2>3. String
    BY <2>1, WhichCallback, TokenFields, ZenonT(40)
  <2>4. token.key = NoteKey(p, j)
    BY <2>1, TokenFields, ZenonT(40)
  <2>5. named = Append(InNote(b), Item("PTR_KEY", NoteKey(p, j)))
    BY ZenonT(40) DEF NoteNamed
  <2>6. Step(named) /\ Quiet
    BY <1>1, <2>2, <2>3, <2>4, <2>5, DoString, ZenonT(40)
  <2>7. QED
    BY <2>2, <2>6, ZenonT(40)
<1>10. CASE e = 9
  <2>1. token = KeyToken("ptr_offset")
    BY <1>10 DEF NoteEvents
  <2>2. /\ parse_stack = named
        /\ NoteStacks(b, NoteKey(p, j), NoteOffset(p, j))[e + 1] = WithKey(named, "ptr_offset")
        /\ e # 12
    BY <1>10 DEF NoteStacks
  <2>3. Key
    BY <2>1, WhichCallback, TokenFields, ZenonT(40)
  <2>4. token.key = "ptr_offset"
    BY <2>1, TokenFields, ZenonT(40)
  <2>5. Step(WithKey(named, "ptr_offset")) /\ Quiet
    BY <1>1, <2>2, <2>3, <2>4, DoKey, ZenonT(40)
  <2>6. QED
    BY <2>2, <2>5, ZenonT(40)
<1>11. CASE e = 10
  <2>1. token = UintToken(NoteOffset(p, j))
    BY <1>11 DEF NoteEvents
  <2>2. /\ parse_stack = WithKey(named, "ptr_offset")
        /\ NoteStacks(b, NoteKey(p, j), NoteOffset(p, j))[e + 1] = placed
        /\ e # 12
    BY <1>11 DEF NoteStacks
  <2>3. Uint
    BY <2>1, WhichCallback, TokenFields, ZenonT(40)
  <2>4. token.value = NoteOffset(p, j)
    BY <2>1, TokenFields, ZenonT(40)
  <2>5. placed = Append(named, Item("PTR_OFFSET", NoteOffset(p, j)))
    BY ZenonT(40) DEF NotePlaced
  <2>6. Step(placed) /\ Quiet
    BY <1>1, <2>2, <2>3, <2>4, <2>5, DoUint, ZenonT(40)
  <2>7. QED
    BY <2>2, <2>6, ZenonT(40)
<1>12. CASE e = 11
  <2>1. token = KeyToken("ptr_val")
    BY <1>12 DEF NoteEvents
  <2>2. /\ parse_stack = placed
        /\ NoteStacks(b, NoteKey(p, j), NoteOffset(p, j))[e + 1] = WithKey(placed, "ptr_val")
        /\ e # 12
    BY <1>12 DEF NoteStacks
  <2>3. Key
    BY <2>1, WhichCallback, TokenFields, ZenonT(40)
  <2>4. token.key = "ptr_val"
    BY <2>1, TokenFields, ZenonT(40)
  <2>5. Step(WithKey(placed, "ptr_val")) /\ Quiet
    BY <1>1, <2>2, <2>3, <2>4, DoKey, ZenonT(40)
  <2>6. QED
    BY <2>2, <2>5, ZenonT(40)
<1>13. CASE e = 12
  <2>1. token = StringToken(Sent(p, Count(p) + j))
    BY <1>13 DEF NoteEvents
  <2>2. /\ parse_stack = WithKey(placed, "ptr_val")
        /\ NoteStacks(b, NoteKey(p, j), NoteOffset(p, j))[e + 1] = InNote(b)
    BY <1>13 DEF NoteStacks
  <2>3. String
    BY <2>1, WhichCallback, TokenFields, ZenonT(40)
  <2>4. token.value = Sent(p, Count(p) + j)
    BY <2>1, TokenFields, ZenonT(40)
  <2>5. Step(InNote(b)) /\ NoteStep(p, j)
    BY <1>1, <2>2, <2>3, <2>4, DoNoteValue, ZenonT(40)
  <2>6. QED
    BY <1>13, <2>2, <2>5, ZenonT(40)
<1>14. CASE e = 13
  <2>1. token = EndObjectToken
    BY <1>14 DEF NoteEvents
  <2>2. /\ parse_stack = InNote(b)
        /\ NoteStacks(b, NoteKey(p, j), NoteOffset(p, j))[e + 1] = InNotes(b)
        /\ e # 12
    BY <1>14 DEF NoteStacks
  <2>3. EndObject
    BY <2>1, WhichCallback, TokenFields, ZenonT(40)
  <2>4. InNote(b) = Append(InNotes(b), Object)
    BY ZenonT(40) DEF InNote
  <2>5. Step(InNotes(b)) /\ Quiet
    BY <1>1, <2>2, <2>3, <2>4, DoEndObject, ZenonT(40)
  <2>6. QED
    BY <2>2, <2>5, ZenonT(40)
<1>15. CASE e = 14
  <2>1. token = EndArrayToken
    BY <1>15 DEF NoteEvents
  <2>2. /\ parse_stack = InNotes(b)
        /\ NoteStacks(b, NoteKey(p, j), NoteOffset(p, j))[e + 1] = InObject(b)
        /\ e # 12
    BY <1>15 DEF NoteStacks
  <2>3. EndArray
    BY <2>1, WhichCallback, TokenFields, Zenon
  <2>4. InNotes(b) = Append(InObject(b), Array)
    BY Zenon DEF InNotes
  <2>5. Step(InObject(b)) /\ Quiet
    BY <1>1, <2>2, <2>3, <2>4, DoEndArray, Zenon
  <2>6. QED
    BY <2>2, <2>5, Zenon
<1>16. CASE e = 15
  <2>1. token = EndObjectToken
    BY <1>16 DEF NoteEvents
  <2>2. /\ parse_stack = InObject(b)
        /\ NoteStacks(b, NoteKey(p, j), NoteOffset(p, j))[e + 1] = InText(b)
        /\ e # 12
    BY <1>16 DEF NoteStacks
  <2>3. EndObject
    BY <2>1, WhichCallback, TokenFields, Zenon
  <2>4. InObject(b) = Append(InText(b), Object)
    BY Zenon DEF InObject
  <2>5. Step(InText(b)) /\ Quiet
    BY <1>1, <2>2, <2>3, <2>4, DoEndObject, Zenon
  <2>6. QED
    BY <2>2, <2>5, Zenon
<1>17. CASE e = 16
  <2>1. token = EndArrayToken
    BY <1>17 DEF NoteEvents
  <2>2. /\ parse_stack = InText(b)
        /\ NoteStacks(b, NoteKey(p, j), NoteOffset(p, j))[e + 1] = b
        /\ e # 12
    BY <1>17 DEF NoteStacks
  <2>3. EndArray
    BY <2>1, WhichCallback, TokenFields, Zenon
  <2>4. InText(b) = Append(b, Array)
    BY Zenon DEF InText
  <2>5. Step(b) /\ Quiet
    BY <1>1, <2>2, <2>3, <2>4, DoEndArray, Zenon
  <2>6. QED
    BY <2>2, <2>5, Zenon
<1>18. QED
  BY <1>2, <1>3, <1>4, <1>5, <1>6, <1>7, <1>8, <1>9, <1>10, <1>11, <1>12, <1>13, <1>14, <1>15, <1>16, <1>17

----------------------------------------------------------------------------
(***************************************************************************)
(* From one place of the text to the next.                                 *)
(***************************************************************************)

\* The place after event e of call c.
Follows(p, c, e, d, f) ==
    IF e < Len(Text(p)[c]) THEN d = c /\ f = e + 1 ELSE d = c + 1 /\ f = 1

\* At place (d, f) the stack is s and n values have been met.
Reaches(b, p, d, f, s, n) == At(p, d, f) /\ Above(b, p, d, f) = s /\ Met(p, d, f) = n

\* The number of events left out, for each kind of call.
LEMMA SkippedOf ==
    ASSUME NEW p \in Packets
    PROVE  /\ Skipped(p, 1) = 0
           /\ \A i \in 1 .. Count(p) : Skipped(p, i + 1) = IF i = 1 THEN 0 ELSE 3
           /\ \A j \in 1 .. Notes(p) : Skipped(p, Count(p) + j + 1) = IF j = 1 THEN 0 ELSE 5
<1>1. Count(p) \in Nat /\ Notes(p) \in Nat
  BY PacketTypes
<1>2. QED
  BY <1>1 DEF Skipped

\* The stack while the header is read.
LEMMA HeaderAbove ==
    ASSUME NEW p \in Packets, NEW b, NEW e
    PROVE  Above(b, p, 1, e) = HeaderStacks(b)[e]
  BY Zenon DEF Above

\* The header is met with its sixth event.
LEMMA HeaderMet ==
    ASSUME NEW p \in Packets, NEW e \in Nat
    PROVE  Met(p, 1, e) = IF e > 6 THEN 1 ELSE 0
<1>1. Count(p) \in Nat /\ Notes(p) \in Nat
  BY PacketTypes
<1>2. QED
  BY <1>1, SkippedOf DEF Met

\* How many events a call has.
LEMMA CallLength ==
    ASSUME NEW p \in Packets
    PROVE  /\ Len(Text(p)[1]) = 7
           /\ \A i \in 1 .. Count(p) :
                 Len(Text(p)[i + 1]) = (IF i = Count(p) THEN 6 ELSE 5) - Skipped(p, i + 1)
           /\ \A j \in 1 .. Notes(p) :
                 Len(Text(p)[Count(p) + j + 1])
                     = (IF j = Notes(p) THEN 16 ELSE 13) - Skipped(p, Count(p) + j + 1)
<1>1. Len(Text(p)[1]) = 7
  <2>1. Len(Text(p)[1]) = 7 - Skipped(p, 1)
    BY HeaderCall, Zenon DEF Part
  <2>2. QED
    BY <2>1, SkippedOf
<1>2. QED
  BY <1>1, ItemCall, NoteCall, Zenon DEF Part

\* The start of a call after the first: its stack, and that all values before it are met.
LEMMA CallStart ==
    ASSUME NEW p \in Packets, NEW b, NEW c \in 2 .. Count(p) + Notes(p) + 2
    PROVE  /\ At(p, c, 1)
           /\ Met(p, c, 1) = c - 1
           /\ Above(b, p, c, 1) =
                  IF c = 2 \/ (c = Count(p) + 2 /\ Notes(p) # 0) THEN InText(b)
                  ELSE IF c <= Count(p) + 1 THEN InObject(b)
                  ELSE IF c <= Count(p) + Notes(p) + 1 THEN InNotes(b)
                  ELSE IF Notes(p) = 0 THEN InText(b) ELSE b
<1>1. Count(p) \in Nat /\ Notes(p) \in Nat
  BY PacketTypes
<1>2. Len(Text(p)) = Count(p) + Notes(p) + 1
  BY TextCalls
<1>3. CASE c <= Count(p) + 1
  <2>1. PICK i \in 1 .. Count(p) : c = i + 1
    <3>1. c - 1 \in 1 .. Count(p) /\ c = (c - 1) + 1
      BY <1>1, <1>3
    <3>2. QED
      BY <3>1, Zenon
  <2>2. PICK k \in {0, 3} : k = Skipped(p, c) /\ (k = 0 <=> i = 1)
    BY <2>1, SkippedOf
  <2>3. Len(Text(p)[c]) = (IF i = Count(p) THEN 6 ELSE 5) - k
    BY <2>1, <2>2, CallLength
  <2>4. At(p, c, 1)
    BY <1>1, <1>2, <1>3, <2>3 DEF At
  <2>5. /\ c # 1 /\ c <= Count(p) + 1 /\ c - 1 = i /\ c <= Count(p) + Notes(p) + 1
    BY <1>1, <1>3, <2>1
  <2>6. Met(p, c, 1) = IF 1 + k > 5 THEN c ELSE i
    BY <2>5, <2>2, Zenon DEF Met
  <2>7. Above(b, p, c, 1) = ItemStacks(b, KeyOf(p, i))[1 + k]
    BY <2>5, <2>2, Zenon DEF Above
  <2>8. ItemStacks(b, KeyOf(p, i))[1 + k] = IF k = 0 THEN InText(b) ELSE InObject(b)
    BY <2>2 DEF ItemStacks
  <2>9. QED
    BY <1>1, <1>3, <2>1, <2>2, <2>4, <2>6, <2>7, <2>8
<1>4. CASE c > Count(p) + 1 /\ c <= Count(p) + Notes(p) + 1
  <2>1. PICK j \in 1 .. Notes(p) : c = Count(p) + j + 1
    <3>1. c - 1 - Count(p) \in 1 .. Notes(p) /\ c = Count(p) + (c - 1 - Count(p)) + 1
      BY <1>1, <1>4
    <3>2. QED
      BY <3>1, Zenon
  <2>2. PICK k \in {0, 5} : k = Skipped(p, c) /\ (k = 0 <=> j = 1)
    BY <2>1, SkippedOf
  <2>3. Len(Text(p)[c]) = (IF j = Notes(p) THEN 16 ELSE 13) - k
    BY <2>1, <2>2, CallLength
  <2>4. At(p, c, 1)
    BY <1>1, <1>2, <1>4, <2>3 DEF At
  <2>5. /\ c # 1 /\ ~(c <= Count(p) + 1) /\ c <= Count(p) + Notes(p) + 1
        /\ c - 1 = Count(p) + j /\ c - 1 - Count(p) = j
    BY <1>1, <1>4, <2>1
  <2>6. Met(p, c, 1) = IF 1 + k > 12 THEN c ELSE Count(p) + j
    BY <2>5, <2>2, Zenon DEF Met
  <2>7. Above(b, p, c, 1) = NoteStacks(b, NoteKey(p, j), NoteOffset(p, j))[1 + k]
    BY <2>5, <2>2, Zenon DEF Above
  <2>8. NoteStacks(b, NoteKey(p, j), NoteOffset(p, j))[1 + k]
            = IF k = 0 THEN InText(b) ELSE InNotes(b)
    BY <2>2 DEF NoteStacks
  <2>9. QED
    BY <1>1, <1>4, <2>1, <2>2, <2>4, <2>6, <2>7, <2>8
<1>5. CASE c = Count(p) + Notes(p) + 2
  <2>1. At(p, c, 1)
    BY <1>1, <1>2, <1>5 DEF At
  <2>2. /\ c # 1 /\ ~(c <= Count(p) + 1) /\ ~(c <= Count(p) + Notes(p) + 1)
    BY <1>1, <1>5
  <2>3. Met(p, c, 1) = c - 1
    BY <2>2, Zenon DEF Met
  <2>4. Above(b, p, c, 1) = IF Notes(p) = 0 THEN InText(b) ELSE b
    BY <2>2, Zenon DEF Above
  <2>5. QED
    BY <1>1, <1>5, <2>1, <2>3, <2>4
<1>6. QED
  BY <1>1, <1>3, <1>4, <1>5

\* The place after an event of the header, at a call's end included.
LEMMA AfterHeader ==
    ASSUME NEW p \in Packets, NEW b, NEW e \in 1 .. 7, NEW d, NEW f, Follows(p, 1, e, d, f)
    PROVE  Reaches(b, p, d, f, HeaderStacks(b)[e + 1],
                   IF e >= 6 THEN 1 ELSE 0)
<1>1. Count(p) \in Nat /\ Notes(p) \in Nat
  BY PacketTypes
<1>2. Len(Text(p)[1]) = 7 /\ Len(Text(p)) = Count(p) + Notes(p) + 1
  BY CallLength, TextCalls
<1>3. CASE e < 7
  <2>1. d = 1 /\ f = e + 1
    BY <1>2, <1>3 DEF Follows
  <2>2. At(p, d, f)
    <3>1. d \in 1 .. Count(p) + Notes(p) + 1 /\ f \in 1 .. 7
      BY <1>1, <1>3, <2>1
    <3>2. QED
      BY <1>2, <2>1, <3>1, Zenon DEF At
  <2>3. Above(b, p, d, f) = HeaderStacks(b)[f]
    BY <2>1, HeaderAbove, Zenon
  <2>4. Met(p, d, f) = IF e >= 6 THEN 1 ELSE 0
    BY <1>3, <2>1, HeaderMet
  <2>5. QED
    BY <2>1, <2>2, <2>3, <2>4 DEF Reaches
<1>4. CASE e = 7
  <2>1. d = 2 /\ f = 1
    BY <1>2, <1>4 DEF Follows
  <2>2. At(p, d, f) /\ Met(p, d, f) = 1 /\ Above(b, p, d, f) = InText(b)
    BY <1>1, <2>1, CallStart
  <2>3. HeaderStacks(b)[e + 1] = InText(b)
    BY <1>4 DEF HeaderStacks
  <2>4. QED
    BY <1>4, <2>2, <2>3 DEF Reaches
<1>5. QED
  BY <1>3, <1>4

\* The place after an event of an item, at a call's end included.
LEMMA AfterItem ==
    ASSUME NEW p \in Packets, NEW b, NEW i \in 1 .. Count(p), NEW e \in Nat \ {0}, NEW g \in Nat,
           g = e + Skipped(p, i + 1), g <= IF i = Count(p) THEN 6 ELSE 5,
           NEW d, NEW f, Follows(p, i + 1, e, d, f)
    PROVE  Reaches(b, p, d, f, ItemStacks(b, KeyOf(p, i))[g + 1],
                   IF g >= 5 THEN i + 1 ELSE i)
<1>1. Count(p) \in Nat /\ Notes(p) \in Nat
  BY PacketTypes
<1>2. PICK k \in {0, 3} : k = Skipped(p, i + 1)
  BY SkippedOf
<1>3. /\ Len(Text(p)[i + 1]) = (IF i = Count(p) THEN 6 ELSE 5) - k
      /\ Len(Text(p)) = Count(p) + Notes(p) + 1
  BY <1>2, CallLength, TextCalls
<1>4. CASE g < IF i = Count(p) THEN 6 ELSE 5
  <2>1. d = i + 1 /\ f = e + 1
    BY <1>2, <1>3, <1>4 DEF Follows
  <2>2. At(p, d, f)
    BY <1>1, <1>2, <1>3, <1>4, <2>1, SMTT(40) DEF At
  <2>3. /\ d # 1 /\ d <= Count(p) + 1 /\ d - 1 = i /\ d <= Count(p) + Notes(p) + 1
    BY <1>1, <2>1
  <2>4. Above(b, p, d, f) = ItemStacks(b, KeyOf(p, i))[f + k]
    BY <1>2, <2>3, <2>1, Zenon DEF Above
  <2>5. Met(p, d, f) = IF f + k > 5 THEN d ELSE i
    BY <1>2, <2>3, <2>1, Zenon DEF Met
  <2>6. f + k = g + 1
    BY <1>2, <2>1
  <2>7. QED
    BY <2>1, <2>2, <2>4, <2>5, <2>6 DEF Reaches
<1>5. CASE g = IF i = Count(p) THEN 6 ELSE 5
  <2>1. d = i + 2 /\ f = 1
    BY <1>2, <1>3, <1>5 DEF Follows
  <2>2. d \in 2 .. Count(p) + Notes(p) + 2 /\ d # 2 /\ d - 1 = i + 1
    BY <1>1, <2>1
  <2>3. /\ At(p, d, f) /\ Met(p, d, f) = i + 1
        /\ Above(b, p, d, f) = IF i = Count(p) THEN InText(b) ELSE InObject(b)
    BY <1>1, <2>1, <2>2, CallStart
  <2>4. ItemStacks(b, KeyOf(p, i))[g + 1] = IF i = Count(p) THEN InText(b) ELSE InObject(b)
    BY <1>5 DEF ItemStacks
  <2>5. QED
    BY <1>5, <2>3, <2>4 DEF Reaches
<1>6. QED
  BY <1>4, <1>5

\* The place after an event of a note, at the end of the text included.
LEMMA AfterNote ==
    ASSUME NEW p \in Packets, NEW b, NEW j \in 1 .. Notes(p), NEW e \in Nat \ {0}, NEW g \in Nat,
           g = e + Skipped(p, Count(p) + j + 1), g <= IF j = Notes(p) THEN 16 ELSE 13,
           NEW d, NEW f, Follows(p, Count(p) + j + 1, e, d, f)
    PROVE  Reaches(b, p, d, f, NoteStacks(b, NoteKey(p, j), NoteOffset(p, j))[g + 1],
                   IF g >= 12 THEN Count(p) + j + 1 ELSE Count(p) + j)
<1>1. Count(p) \in Nat /\ Notes(p) \in Nat
  BY PacketTypes
<1>2. PICK k \in {0, 5} : k = Skipped(p, Count(p) + j + 1)
  BY SkippedOf
<1>3. /\ Len(Text(p)[Count(p) + j + 1]) = (IF j = Notes(p) THEN 16 ELSE 13) - k
      /\ Len(Text(p)) = Count(p) + Notes(p) + 1
  BY <1>2, CallLength, TextCalls
<1>4. CASE g < IF j = Notes(p) THEN 16 ELSE 13
  <2>1. d = Count(p) + j + 1 /\ f = e + 1
    BY <1>2, <1>3, <1>4 DEF Follows
  <2>2. At(p, d, f)
    <3>1. d \in 1 .. Count(p) + Notes(p) + 1
      BY <1>1, <2>1
    <3>2. f \in 1 .. (IF j = Notes(p) THEN 16 ELSE 13) - k
      BY <1>2, <1>4, <2>1
    <3>3. QED
      BY <1>3, <2>1, <3>1, <3>2, Zenon DEF At
  <2>3. /\ d # 1 /\ ~(d <= Count(p) + 1) /\ d <= Count(p) + Notes(p) + 1
        /\ d - 1 = Count(p) + j /\ d - 1 - Count(p) = j
    BY <1>1, <2>1
  <2>4. Above(b, p, d, f) = NoteStacks(b, NoteKey(p, j), NoteOffset(p, j))[f + k]
    BY <1>2, <2>3, <2>1, Zenon DEF Above
  <2>5. Met(p, d, f) = IF f + k > 12 THEN d ELSE Count(p) + j
    BY <1>2, <2>3, <2>1, Zenon DEF Met
  <2>6. f + k = g + 1
    BY <1>2, <2>1
  <2>7. QED
    BY <2>1, <2>2, <2>4, <2>5, <2>6 DEF Reaches
<1>5. CASE g = IF j = Notes(p) THEN 16 ELSE 13
  <2>1. d = Count(p) + j + 2 /\ f = 1
    <3>1. ~(e < Len(Text(p)[Count(p) + j + 1]))
      BY <1>2, <1>3, <1>5
    <3>2. d = (Count(p) + j + 1) + 1 /\ f = 1
      BY <3>1, Zenon DEF Follows
    <3>3. QED
      BY <1>1, <3>2
  <2>2. d \in 2 .. Count(p) + Notes(p) + 2 /\ d > Count(p) + 2 /\ d - 1 = Count(p) + j + 1
    BY <1>1, <2>1
  <2>3. /\ At(p, d, f) /\ Met(p, d, f) = Count(p) + j + 1
        /\ Above(b, p, d, f) = IF j = Notes(p) THEN b ELSE InNotes(b)
    BY <1>1, <2>1, <2>2, CallStart
  <2>4. NoteStacks(b, NoteKey(p, j), NoteOffset(p, j))[g + 1]
            = IF j = Notes(p) THEN b ELSE InNotes(b)
    BY <1>5 DEF NoteStacks
  <2>5. QED
    BY <1>5, <2>3, <2>4 DEF Reaches
<1>6. QED
  BY <1>4, <1>5

----------------------------------------------------------------------------
(***************************************************************************)
(* A callback keeps what holds while a text is read.                       *)
(***************************************************************************)

\* What does not touch the buffer, the offsets or the names.
LEMMA QuietData ==
    ASSUME NEW p, NEW n, Data(p, n), Quiet
    PROVE  Data(p, n)'
<1>1. /\ object_ptrs' = object_ptrs /\ name_id_map' = name_id_map
      /\ bytes' = bytes /\ tail_offset' = tail_offset
  BY Zenon DEF Quiet
<1>2. BufferOK' = BufferOK /\ Named(p, n)' = Named(p, n)
  BY <1>1, Zenon DEF BufferOK, Named
<1>3. InRow(p, n)' = InRow(p, n)
  BY <1>1, Zenon DEF InRow, Start, Stop, Stored, item_ptr
<1>4. Contents(p, n)' = Contents(p, n)
  BY <1>1, Zenon DEF Contents, NotesHaveItems, Holds, Start, Stored, item_ptr
<1>5. Placed(p, n)' = Placed(p, n) /\ Pointed(p, n)' = Pointed(p, n)
  BY <1>1, Zenon DEF Placed, Pointed, PointsTo, Fits, Start, item_ptr
<1>6. QED
  BY <1>2, <1>3, <1>4, <1>5, Zenon DEF Data

\* A callback in the header; the first may be the crash of an empty stack.
LEMMA ReadHeader ==
    ASSUME NEW p \in Packets, NEW b, IsStack(b), b # <<>> => b[Len(b)] = Array,
           p = Packet, failed = FALSE, Callback, InPlace(b, p), call = 1, event \in 1 .. 7
    PROVE  Crash \/ (Moved /\ InPlace(b, p)')
<1>1. PICK e \in 1 .. 7 : e = event
  BY Zenon
<1>2. Part(p, 1, set_packet_header(Sent(p, 0)), 7) /\ Skipped(p, 1) = 0
  BY HeaderCall, SkippedOf
<1>3. Text(p)[1][e] = set_packet_header(Sent(p, 0))[e]
  <2>1. e \in 1 .. 7 - 0 /\ e + 0 = e
    OBVIOUS
  <2>2. QED
    BY <1>2, <2>1, ZenonT(40) DEF Part
<1>4. token = set_packet_header(Sent(p, 0))[e]
  BY <1>1, <1>3, Zenon DEF token, json
<1>5. parse_stack = HeaderStacks(b)[e]
  BY <1>1, HeaderAbove, Zenon DEF InPlace
<1>6. CASE Crash
  BY <1>6
<1>7. CASE ~Crash
  <2>1. /\ Step(HeaderStacks(b)[e + 1])
        /\ IF e = 6 THEN Appended("PacketHeader", Sent(p, 0)) ELSE Quiet
    BY <1>4, <1>5, <1>7, HeaderStep, Zenon
  <2>2. PICK d, f : d = call' /\ f = event'
    BY Zenon
  <2>3. Follows(p, 1, e, d, f)
    BY <1>1, <2>1, <2>2, Zenon DEF Follows, Step, Moved, Advance, json
  <2>4. /\ At(p, d, f)
        /\ Above(b, p, d, f) = HeaderStacks(b)[e + 1]
        /\ Met(p, d, f) = IF e >= 6 THEN 1 ELSE 0
    BY <2>3, AfterHeader DEF Reaches
  <2>5. PICK n : n = Met(p, 1, e)
    BY Zenon
  <2>6. n = IF e > 6 THEN 1 ELSE 0
    BY <2>5, HeaderMet
  <2>7. Data(p, n)
    BY <1>1, <2>5, Zenon DEF InPlace
  <2>8. PICK m : m = Met(p, d, f)
    BY Zenon
  <2>9. Data(p, m)'
    <3>1. CASE e = 6
      <4>1. KeyOf(p, 0) = "PacketHeader"
        BY Zenon DEF KeyOf
      <4>2. ItemStep(p, 0)
        BY <2>1, <3>1, <4>1, Zenon DEF ItemStep, Appended
      <4>3. n = 0 /\ m = 0 + 1 /\ 0 \in 0 .. Count(p)
        BY <2>4, <2>6, <2>8, <3>1, PacketTypes
      <4>4. QED
        BY <2>7, <4>2, <4>3, ItemData, Zenon
    <3>2. CASE e # 6
      <4>1. m = n
        BY <2>4, <2>6, <2>8, <3>2
      <4>2. QED
        BY <2>1, <2>7, <3>2, <4>1, QuietData, Zenon
    <3>3. QED
      BY <3>1, <3>2
  <2>10. InPlace(b, p)'
    BY <2>1, <2>2, <2>4, <2>8, <2>9, Zenon DEF InPlace, Step
  <2>11. QED
    BY <2>1, <2>10, Zenon DEF Step
<1>8. QED
  BY <1>6, <1>7

\* A callback in an item.
LEMMA ReadItem ==
    ASSUME NEW p \in Packets, NEW b, IsStack(b), p = Packet, failed = FALSE, Callback, InPlace(b, p),
           NEW i \in 1 .. Count(p), call = i + 1, event \in 1 .. Len(Text(p)[call])
    PROVE  Moved /\ InPlace(b, p)'
<1> DEFINE to == IF i = Count(p) THEN 6 ELSE 5
<1>1. PICK c \in Nat, k \in {0, 3} : c = i + 1 /\ k = Skipped(p, c)
  BY SkippedOf
<1>2. Part(p, c, ItemEvents(KeyOf(p, i), ItemToken(p, i)), to)
  BY <1>1, ItemCall
<1>3. PICK e \in 1 .. to - k : e = event
  BY <1>1, <1>2, Zenon DEF Part
<1>4. PICK g \in 1 .. 6 : g = e + k /\ g <= to
  BY <1>3
<1>5. token = ItemEvents(KeyOf(p, i), ItemToken(p, i))[g]
  BY <1>1, <1>2, <1>3, <1>4, Zenon DEF token, json, Part
<1>6. Count(p) \in Nat /\ Notes(p) \in Nat
  BY PacketTypes
<1>7. c # 1 /\ c <= Count(p) + 1 /\ c - 1 = i /\ c <= Count(p) + Notes(p) + 1
  BY <1>1, <1>6
<1>8. parse_stack = ItemStacks(b, KeyOf(p, i))[g]
  BY <1>1, <1>3, <1>4, <1>7, Zenon DEF InPlace, Above
<1>9. \/ ItemToken(p, i) = StringToken(Sent(p, i))
      \/ \E number : /\ ItemToken(p, i) = UintToken(number)
                     /\ Sent(p, i) = Value("item", number, UintSize)
  <2>1. ~(i > Count(p)) /\ i # 0
    BY <1>6
  <2>2. CASE p.items[i].number
    <3>1. Sent(p, i) = Value("item", i, UintSize)
      BY <2>1, <2>2, Zenon DEF Sent, Count
    <3>2. ItemToken(p, i) = UintToken(i)
      BY <2>2, Zenon DEF ItemToken
    <3>3. QED
      BY <3>1, <3>2, Zenon
  <2>3. CASE ~p.items[i].number
    BY <2>3, Zenon DEF ItemToken
  <2>4. QED
    BY <2>2, <2>3, Zenon
<1>10. KeyOf(p, i) \notin Reserved
  BY PacketTypes
<1>11. /\ Step(ItemStacks(b, KeyOf(p, i))[g + 1])
       /\ IF g = 5 THEN Appended(KeyOf(p, i), Sent(p, i)) ELSE Quiet
  BY <1>5, <1>8, <1>9, <1>10, ItemCallStep, ZenonT(40)
<1>12. PICK d, f : d = call' /\ f = event'
  BY Zenon
<1>13. Follows(p, i + 1, e, d, f)
  BY <1>3, <1>11, <1>12, Zenon DEF Follows, Step, Moved, Advance, json
<1>14. e \in Nat \ {0} /\ g \in Nat /\ g = e + Skipped(p, i + 1)
  BY <1>1, <1>3, <1>4
<1>15. /\ At(p, d, f)
       /\ Above(b, p, d, f) = ItemStacks(b, KeyOf(p, i))[g + 1]
       /\ Met(p, d, f) = IF g >= 5 THEN i + 1 ELSE i
  <2>1. Reaches(b, p, d, f, ItemStacks(b, KeyOf(p, i))[g + 1],
              IF g >= 5 THEN i + 1 ELSE i)
    BY <1>4, <1>13, <1>14, AfterItem, Zenon
  <2>2. QED
    BY <2>1, Zenon DEF Reaches
<1>16. PICK n : n = Met(p, c, e)
  BY Zenon
<1>17. n = IF g > 5 THEN c ELSE i
  BY <1>1, <1>4, <1>7, <1>16, Zenon DEF Met
<1>18. Data(p, n)
  BY <1>1, <1>3, <1>16, Zenon DEF InPlace
<1>19. PICK m : m = Met(p, d, f)
  BY Zenon
<1>20. Data(p, m)'
  <2>1. CASE g = 5
    <3>1. ItemStep(p, i)
      BY <1>11, <2>1, Zenon DEF ItemStep, Appended
    <3>2. n = i /\ m = i + 1 /\ i \in 0 .. Count(p)
      BY <1>6, <1>15, <1>17, <1>19, <2>1
    <3>3. QED
      BY <1>18, <3>1, <3>2, ItemData, Zenon
  <2>2. CASE g # 5
    <3>1. m = n
      BY <1>1, <1>4, <1>15, <1>17, <1>19, <2>2
    <3>2. QED
      BY <1>11, <1>18, <2>2, <3>1, QuietData, Zenon
  <2>3. QED
    BY <2>1, <2>2
<1>21. InPlace(b, p)'
  BY <1>11, <1>12, <1>15, <1>19, <1>20, Zenon DEF InPlace, Step
<1>22. QED
  BY <1>11, <1>21, Zenon DEF Step

\* Call c is that of note j, after n items and with m notes.
CallOfNote(c, n, m, j) ==
    /\ c # 1 /\ ~(c <= n + 1) /\ c <= n + m + 1
    /\ c - 1 = n + j /\ c - 1 - n = j

\* The arithmetic of a note's call.
LEMMA NoteIndex ==
    ASSUME NEW n \in Nat, NEW m \in Nat, NEW j \in 1 .. m, NEW c, c = n + j + 1
    PROVE  CallOfNote(c, n, m, j)
  BY DEF CallOfNote

\* A callback in a note.
LEMMA ReadNote ==
    ASSUME NEW p \in Packets, NEW b, IsStack(b), p = Packet, failed = FALSE, Callback, InPlace(b, p),
           NEW j \in 1 .. Notes(p), call = Count(p) + j + 1, event \in 1 .. Len(Text(p)[call])
    PROVE  Moved /\ InPlace(b, p)'
<1> DEFINE to == IF j = Notes(p) THEN 16 ELSE 13
           events == NoteEvents(NoteKey(p, j), NoteOffset(p, j), Sent(p, Count(p) + j))
           stacks == NoteStacks(b, NoteKey(p, j), NoteOffset(p, j))
<1>1. Count(p) \in Nat /\ Notes(p) \in Nat
  BY PacketTypes
<1>2. PICK c \in Nat, k \in {0, 5} : c = Count(p) + j + 1 /\ k = Skipped(p, c)
  BY <1>1, SkippedOf
<1>3. Part(p, c, events, to)
  BY <1>2, NoteCall
<1>4. PICK e \in 1 .. to - k : e = event
  BY <1>2, <1>3, Zenon DEF Part
<1>5. PICK g \in 1 .. 16 : g = e + k /\ g <= to
  BY <1>4
<1>6. token = events[g]
  BY <1>2, <1>3, <1>4, <1>5, Zenon DEF token, json, Part
<1>7. /\ c # 1 /\ ~(c <= Count(p) + 1) /\ c <= Count(p) + Notes(p) + 1
      /\ c - 1 = Count(p) + j /\ c - 1 - Count(p) = j
  <2>1. CallOfNote(c, Count(p), Notes(p), j)
    BY <1>1, <1>2, NoteIndex, Zenon
  <2>2. QED
    BY <2>1, Zenon DEF CallOfNote
<1>8. parse_stack = stacks[g]
  BY <1>2, <1>4, <1>5, <1>7, Zenon DEF InPlace, Above
<1>9. /\ Step(stacks[g + 1])
       /\ IF g = 12 THEN NoteStep(p, j) ELSE Quiet
  BY <1>6, <1>8, NoteCallStep, Zenon
<1>10. PICK d, f : d = call' /\ f = event'
  BY Zenon
<1>11. Follows(p, Count(p) + j + 1, e, d, f)
  BY <1>4, <1>9, <1>10, Zenon DEF Follows, Step, Moved, Advance, json
<1>12. e \in Nat \ {0} /\ g \in Nat /\ g = e + Skipped(p, Count(p) + j + 1)
  BY <1>2, <1>4, <1>5
<1>13. /\ At(p, d, f)
       /\ Above(b, p, d, f) = stacks[g + 1]
       /\ Met(p, d, f) = IF g >= 12 THEN Count(p) + j + 1 ELSE Count(p) + j
  <2>1. Reaches(b, p, d, f, stacks[g + 1],
              IF g >= 12 THEN Count(p) + j + 1 ELSE Count(p) + j)
    BY <1>5, <1>11, <1>12, AfterNote, Zenon
  <2>2. QED
    BY <2>1, Zenon DEF Reaches
<1>14. PICK n : n = Met(p, c, e)
  BY Zenon
<1>15. n = IF g > 12 THEN c ELSE Count(p) + j
  BY <1>2, <1>5, <1>7, <1>14, Zenon DEF Met
<1>16. Data(p, n)
  BY <1>2, <1>4, <1>14, Zenon DEF InPlace
<1>17. PICK m : m = Met(p, d, f)
  BY Zenon
<1>18. Data(p, m)'
  <2>1. CASE g = 12
    <3>1. NoteStep(p, j)
      BY <1>9, <2>1, Zenon
    <3>2. n = Count(p) + j /\ m = Count(p) + j + 1
      BY <1>13, <1>15, <1>17, <2>1
    <3>3. QED
      BY <1>16, <3>1, <3>2, NoteData, Zenon
  <2>2. CASE g # 12
    <3>1. m = n
      BY <1>2, <1>5, <1>13, <1>15, <1>17, <2>2
    <3>2. QED
      BY <1>9, <1>16, <2>2, <3>1, QuietData, Zenon
  <2>3. QED
    BY <2>1, <2>2
<1>19. InPlace(b, p)'
  BY <1>9, <1>10, <1>13, <1>17, <1>18, Zenon DEF InPlace, Step
<1>20. QED
  BY <1>9, <1>19, Zenon DEF Step

\* Every callback moves the reader to the next place, or crashes.
LEMMA ReadStep ==
    ASSUME NEW p \in Packets, NEW b, IsStack(b), b # <<>> => b[Len(b)] = Array,
           p = Packet, failed = FALSE, Callback, InPlace(b, p)
    PROVE  Crash \/ (Moved /\ InPlace(b, p)')
<1>1. Count(p) \in Nat /\ Notes(p) \in Nat /\ Len(Text(p)) = Count(p) + Notes(p) + 1
  BY PacketTypes, TextCalls
<1>2. ~(call > Len(Text(p)))
  BY Zenon DEF Callback, StartObject, Key, Uint, String, EndObject, EndArray, End, StartArray,
               Event, Ended, json
<1>3. call \in 1 .. Count(p) + Notes(p) + 1 /\ event \in 1 .. Len(Text(p)[call])
  <2>1. At(p, call, event)
    BY Zenon DEF InPlace
  <2>2. call # Len(Text(p)) + 1
    BY <1>1, <1>2
  <2>3. QED
    BY <1>1, <2>1, <2>2, Zenon DEF At
<1>4. CASE call = 1
  <2>1. event \in 1 .. 7
    BY <1>3, <1>4, CallLength, Zenon
  <2>2. QED
    BY <1>4, <2>1, ReadHeader, Zenon
<1>5. CASE call \in 2 .. Count(p) + 1
  <2>1. PICK i \in 1 .. Count(p) : call = i + 1
    <3>1. call - 1 \in 1 .. Count(p) /\ call = (call - 1) + 1
      BY <1>1, <1>5
    <3>2. QED
      BY <3>1, Zenon
  <2>2. QED
    BY <1>3, <2>1, ReadItem, Zenon
<1>6. CASE call \in Count(p) + 2 .. Count(p) + Notes(p) + 1
  <2>1. PICK j \in 1 .. Notes(p) : call = Count(p) + j + 1
    <3>1. call - 1 - Count(p) \in 1 .. Notes(p) /\ call = Count(p) + (call - 1 - Count(p)) + 1
      BY <1>1, <1>6
    <3>2. QED
      BY <3>1, Zenon
  <2>2. QED
    BY <1>3, <2>1, ReadNote, Zenon
<1>7. QED
  BY <1>1, <1>3, <1>4, <1>5, <1>6

----------------------------------------------------------------------------
(***************************************************************************)
(* What the parses leave on the stack.                                     *)
(***************************************************************************)

\* A sequence of equal elements, and one more.
LEMMA Rows ==
    ASSUME NEW k \in Nat, NEW x, NEW r, r = [i \in 1 .. k |-> x]
    PROVE  /\ r \in Seq({x}) /\ Len(r) = k
           /\ Append(r, x) = [i \in 1 .. k + 1 |-> x]
<1>1. r \in [1 .. k -> {x}]
  OBVIOUS
<1>2. r \in Seq({x}) /\ Len(r) = k
  BY <1>1
<1>3. Append(r, x) = [i \in 1 .. k + 1 |-> x]
  <2>1. \A i \in 1 .. k + 1 : Append(r, x)[i] = x
    BY <1>2
  <2>2. Append(r, x) \in Seq({x}) /\ Len(Append(r, x)) = k + 1
    BY <1>2
  <2>3. DOMAIN Append(r, x) = 1 .. k + 1 /\ Append(r, x) = [i \in DOMAIN Append(r, x) |-> Append(r, x)[i]]
    BY <2>2
  <2>4. QED
    BY <2>1, <2>3
<1>4. QED
  BY <1>2, <1>3

\* The packets without notes can be counted.
LEMMA UnendedFinite ==
    ASSUME NEW q, NEW n \in Nat
    PROVE  IsFiniteSet(Unended(q, n)) /\ Cardinality(Unended(q, n)) \in Nat
<1>1. IsFiniteSet(1 .. n)
  BY FS_Interval
<1>2. Unended(q, n) \subseteq 1 .. n
  BY DEF Unended
<1>3. IsFiniteSet(Unended(q, n))
  BY <1>1, <1>2, FS_Subset
<1>4. QED
  BY <1>3, FS_CardinalityType

\* What earlier parses left is a stack of arrays.
LEMMA LeftStack ==
    ASSUME NEW q, NEW n \in Nat
    PROVE  /\ IsStack(Left(q, n))
           /\ Left(q, n) # <<>> => Left(q, n)[Len(Left(q, n))] = Array
<1>1. PICK k \in Nat : k = Cardinality(Unended(q, n))
  BY UnendedFinite
<1>2. PICK a : a = Array
  BY Zenon
<1>3. PICK r : r = Left(q, n)
  BY Zenon
<1>4. r = [i \in 1 .. k |-> a]
  BY <1>1, <1>2, <1>3, Zenon DEF Left
<1>5. r \in Seq({a})
  BY <1>4, Rows
<1>6. r # <<>> => r[Len(r)] = a
  BY <1>5
<1>7. IsStack(r)
  BY <1>5, Zenon DEF IsStack
<1>8. QED
  BY <1>2, <1>3, <1>6, <1>7, Zenon

\* A packet without notes leaves its array, one with notes nothing.
LEMMA LeftNext ==
    ASSUME NEW q \in Seq(Packets), NEW n \in 1 .. Len(q), NEW p, p = q[n]
    PROVE  Left(q, n) = IF Notes(p) = 0 THEN InText(Left(q, n - 1)) ELSE Left(q, n - 1)
<1>1. p \in Packets /\ n - 1 \in Nat /\ n \in Nat
  OBVIOUS
<1>2. p.notes = <<>> <=> Notes(p) = 0
  <2>1. p.notes \in Seq([key : STRING, offset : Nat, size : Nat])
    BY <1>1, PacketsAssumption, Zenon DEF WellFormed
  <2>2. PICK s, S : s = p.notes /\ s \in Seq(S)
    BY <2>1, Zenon
  <2>3. s = <<>> <=> Len(s) = 0
    BY <2>2
  <2>4. QED
    BY <2>2, <2>3, Zenon DEF Notes
<1>3. PICK k, U : k \in Nat /\ U = Unended(q, n - 1) /\ IsFiniteSet(U) /\ k = Cardinality(U)
  BY <1>1, UnendedFinite
<1>4. n \notin U
  BY <1>1, <1>3 DEF Unended
<1>5. CASE Notes(p) = 0
  <2>1. Unended(q, n) = U \cup {n}
    <3>1. \A m : m \in 1 .. n <=> m \in 1 .. n - 1 \/ m = n
      BY <1>1
    <3>2. q[n].notes = <<>>
      BY <1>2, <1>5, Zenon
    <3>3. QED
      BY <1>3, <3>1, <3>2, Zenon DEF Unended
  <2>2. Cardinality(Unended(q, n)) = k + 1
    BY <1>3, <1>4, <2>1, FS_AddElement
  <2>3. Append(Left(q, n - 1), Array) = [i \in 1 .. k + 1 |-> Array]
    <3>1. Left(q, n - 1) = [i \in 1 .. k |-> Array]
      BY <1>3, Zenon DEF Left
    <3>2. PICK r, a : r = Left(q, n - 1) /\ a = Array
      BY Zenon
    <3>3. r = [i \in 1 .. k |-> a]
      BY <3>1, <3>2, Zenon
    <3>4. Append(r, a) = [i \in 1 .. k + 1 |-> a]
      BY <1>3, <3>3, Rows
    <3>5. QED
      BY <3>2, <3>4, Zenon
  <2>4. QED
    BY <1>5, <2>2, <2>3, Zenon DEF Left, InText
<1>6. CASE Notes(p) # 0
  <2>1. Unended(q, n) = U
    <3>1. \A m : m \in 1 .. n <=> m \in 1 .. n - 1 \/ m = n
      BY <1>1
    <3>2. q[n].notes # <<>>
      BY <1>2, <1>6, Zenon
    <3>3. QED
      BY <1>3, <3>1, <3>2, Zenon DEF Unended
  <2>2. QED
    BY <1>3, <1>6, <2>1, Zenon DEF Left
<1>7. QED
  BY <1>5, <1>6

\* Beginning a parse leaves the stack as the parses before left it.
LEMMA LeftParse ==
    ASSUME NEW q \in Seq(Packets), NEW p \in Packets
    PROVE  /\ Append(q, p) \in Seq(Packets) /\ Append(q, p) # <<>>
           /\ Append(q, p)[Len(Append(q, p))] = p
           /\ Left(Append(q, p), Len(Append(q, p)) - 1) = Left(q, Len(q))
<1>1. /\ Append(q, p) \in Seq(Packets) /\ Append(q, p) # <<>>
      /\ Append(q, p)[Len(Append(q, p))] = p
      /\ Len(Append(q, p)) - 1 = Len(q)
  OBVIOUS
<1>2. \A m \in 1 .. Len(q) : Append(q, p)[m] = q[m]
  OBVIOUS
<1>3. Unended(Append(q, p), Len(q)) = Unended(q, Len(q))
  BY <1>2, Zenon DEF Unended
<1>4. QED
  BY <1>1, <1>3, Zenon DEF Left

----------------------------------------------------------------------------
(***************************************************************************)
(* The start of a parse and its end.                                       *)
(***************************************************************************)

\* At the beginning of a parse nothing of the packet has been met.
LEMMA NothingMet ==
    ASSUME NEW p \in Packets, NEW length \in Nat, object_ptrs \in Seq(Nat),
           bytes' = [a \in 1 .. length |-> Zero], tail_offset' = 0, object_ptrs' = object_ptrs
    PROVE  Data(p, 0)'
<1>1. Count(p) \in Nat
  BY PacketTypes
<1>2. BufferOK'
  <2>1. Zero \in Byte
    <3>1. "zero" \in {"zero", "item", "note", "address"} /\ 0 \in Nat
      OBVIOUS
    <3>2. QED
      BY <3>1, Zenon DEF Zero, Byte
  <2>2. PICK x, B : x = Zero /\ B = Byte
    BY Zenon
  <2>3. bytes' \in [1 .. length -> B]
    BY <2>1, <2>2
  <2>4. bytes' \in Seq(B) /\ Len(bytes') = length
    BY <2>3
  <2>5. QED
    BY <2>2, <2>4 DEF BufferOK
<1>3. ItemsMet(p, 0) = 0 /\ 0 .. ItemsMet(p, 0) - 1 = {}
  BY <1>1 DEF ItemsMet
<1>4. Named(p, 0)'
  <2>1. 0 <= Len(object_ptrs')
    OBVIOUS
  <2>2. QED
    BY <1>3, <2>1 DEF Named, ItemsMet, Count
<1>5. InRow(p, 0)'
  BY <1>3 DEF InRow, ItemsMet, Count
<1>6. Contents(p, 0)'
  BY <1>3 DEF Contents, ItemsMet, Count
<1>7. Placed(p, 0)'
  BY <1>3, PlaceZero DEF Placed, ItemsMet, Count, Place
<1>8. Pointed(p, 0)'
  <2>1. 1 .. 0 - 1 - Count(p) = {}
    BY <1>1
  <2>2. QED
    BY <2>1 DEF Pointed, Count
<1>9. QED
  BY <1>2, <1>4, <1>5, <1>6, <1>7, <1>8 DEF Data

\* The first place of a text.
LEMMA TextStart ==
    ASSUME NEW p \in Packets, NEW b
    PROVE  At(p, 1, 1) /\ Above(b, p, 1, 1) = b /\ Met(p, 1, 1) = 0
<1>1. Count(p) \in Nat /\ Notes(p) \in Nat
  BY PacketTypes
<1>2. Len(Text(p)[1]) = 7 /\ Len(Text(p)) = Count(p) + Notes(p) + 1
  BY CallLength, TextCalls
<1>3. At(p, 1, 1)
  <2>1. 1 \in 1 .. Count(p) + Notes(p) + 1 /\ 1 \in 1 .. 7
    BY <1>1
  <2>2. QED
    BY <1>2, <2>1, Zenon DEF At
<1>4. Above(b, p, 1, 1) = HeaderStacks(b)[1]
  BY HeaderAbove, Zenon
<1>5. HeaderStacks(b)[1] = b
  BY DEF HeaderStacks
<1>6. Met(p, 1, 1) = 0
  BY HeaderMet
<1>7. QED
  BY <1>3, <1>4, <1>5, <1>6

\* Once the text has been read and tail_offset is the last offset: where the
\* items are found, and with which size.
LEMMA FoundItems ==
    ASSUME NEW p \in Packets, NEW n, n = Count(p) + Notes(p) + 1, Data(p, n),
           object_ptrs' = Append(object_ptrs, tail_offset), name_id_map' = name_id_map,
           NEW v \in 0 .. Count(p)
    PROVE  /\ Start(p, v) \in Nat
           /\ item_ptr(KeyOf(p, v))' = Start(p, v)
           /\ item_size(KeyOf(p, v))' = (IF v < Count(p) THEN Stop(p, v) ELSE tail_offset) - Start(p, v)
<1>1. Count(p) \in Nat /\ Notes(p) \in Nat
  BY PacketTypes
<1>2. BufferOK /\ Named(p, n) /\ InRow(p, n)
  BY Zenon DEF Data
<1>3. ItemsMet(p, n) = Count(p) + 1
  BY <1>1 DEF ItemsMet
<1>4. PICK l \in Nat : l = Len(object_ptrs)
  BY <1>2 DEF BufferOK
<1>5. object_ptrs \in Seq(Nat) /\ tail_offset \in Nat
  BY <1>2, Zenon DEF BufferOK
<1>6. /\ Count(p) + 1 <= l
      /\ \A w \in 0 .. Count(p) : name_id_map[KeyOf(p, w)] = l - Count(p) + w
  <2>1. ItemsMet(p, n) - 1 = Count(p)
    BY <1>1, <1>3
  <2>2. \A w \in 0 .. Count(p) : l - (Count(p) + 1) + w + 1 = l - Count(p) + w
    BY <1>1
  <2>3. \A w \in 0 .. Count(p) : name_id_map[KeyOf(p, w)] = l - (Count(p) + 1) + w + 1
    BY <1>2, <1>3, <1>4, <2>1, Zenon DEF Named
  <2>4. QED
    BY <1>2, <1>3, <1>4, <2>2, <2>3, Zenon DEF Named
<1>7. PICK x \in 1 .. l : x = l - Count(p) + v
  BY <1>1, <1>6
<1>8. name_id_map[KeyOf(p, v)] = x
  BY <1>6, <1>7, Zenon
<1>9. Start(p, v) = object_ptrs[x]
  BY <1>8, Zenon DEF Start, item_ptr
<1>10. object_ptrs[x] \in Nat /\ object_ptrs'[x] = object_ptrs[x]
  BY <1>4, <1>5
<1>11. item_ptr(KeyOf(p, v))' = object_ptrs'[x]
  BY <1>8, Zenon DEF item_ptr, KeyOf
<1>12. item_size(KeyOf(p, v))' = object_ptrs'[x + 1] - object_ptrs'[x]
  BY <1>8, Zenon DEF item_size, KeyOf
<1>13. object_ptrs'[x + 1] = IF v < Count(p) THEN Stop(p, v) ELSE tail_offset
  <2>1. CASE v < Count(p)
    <3>1. v + 1 \in 0 .. Count(p) /\ x + 1 = l - Count(p) + (v + 1) /\ x + 1 \in 1 .. l
      BY <1>1, <1>7, <2>1
    <3>2. Start(p, v + 1) = object_ptrs[x + 1]
      BY <1>6, <3>1, Zenon DEF Start, item_ptr
    <3>3. Start(p, v + 1) = Stop(p, v)
      BY <1>1, <1>2, <1>3, <2>1 DEF InRow
    <3>4. object_ptrs'[x + 1] = object_ptrs[x + 1]
      BY <1>4, <1>5, <3>1
    <3>5. QED
      BY <2>1, <3>2, <3>3, <3>4, Zenon
  <2>2. CASE ~(v < Count(p))
    <3>1. x = l
      BY <1>1, <1>7, <2>2
    <3>2. object_ptrs'[l + 1] = tail_offset
      BY <1>4, <1>5
    <3>3. QED
      BY <2>2, <3>1, <3>2, Zenon
  <2>3. QED
    BY <2>1, <2>2, Zenon
<1>14. QED
  BY <1>9, <1>10, <1>11, <1>12, <1>13, Zenon

\* The notes of a packet and their keys.
LEMMA NotesDomain ==
    ASSUME NEW p \in Packets
    PROVE  DOMAIN p.notes = 1 .. Notes(p)
<1>1. p.notes \in Seq([key : STRING, offset : Nat, size : Nat])
  BY PacketsAssumption, Zenon DEF WellFormed
<1>2. PICK s, S : s = p.notes /\ s \in Seq(S)
  BY <1>1, Zenon
<1>3. DOMAIN s = 1 .. Len(s)
  BY <1>2
<1>4. QED
  BY <1>2, <1>3, Zenon DEF Notes

\* An item in the buffer is what HoldsAt says.
LEMMA ItemHolds ==
    ASSUME NEW p \in Packets, NEW v \in 0 .. Count(p), BufferOK, NEW o \in Nat, o = Start(p, v),
           Stored(p, v), Holds(p, v)
    PROVE  HoldsAt(o, Sent(p, v), p, KeyOf(p, v))
<1>1. v \in Values(p)
  BY PacketTypes, Ranges
<1>2. Sent(p, v) \in Seq(Byte) /\ Size(p, v) \in Nat
  BY <1>1, SentType
<1>3. PICK s \in Seq(Byte), z \in Nat : s = Sent(p, v) /\ z = Size(p, v)
  BY <1>2, Zenon
<1>4. DOMAIN s = 1 .. z
  <2>1. z = Len(s)
    BY <1>3, Zenon DEF Size
  <2>2. QED
    BY <1>3, <2>1
<1>5. bytes \in Seq(Byte) /\ o + z <= Len(bytes)
  BY <1>3, Zenon DEF BufferOK, Stored
<1>6. \A k \in 1 .. z : o + k \in DOMAIN bytes
  BY <1>5
<1>7. \A k \in 1 .. z : bytes[o + k] = s[k] \/ Covered(p, v, k)
  BY <1>3, Zenon DEF Holds
<1>8. \A k : Covered(p, v, k) => \E j \in DOMAIN p.notes : Covers(p.notes[j], KeyOf(p, v), k)
  BY NotesDomain, Zenon DEF Covered, Covers, NoteKey, NoteOffset
<1>9. QED
  BY <1>3, <1>4, <1>6, <1>7, <1>8, Zenon DEF HoldsAt

\* In a buffer large enough every value is stored at its place.
LEMMA AllStored ==
    ASSUME NEW p \in Packets, NEW v \in Values(p), Fits(p), bytes \in Seq(Byte)
    PROVE  /\ Place(p, v) \in Nat
           /\ Place(p, v + 1) = Place(p, v) + Size(p, v)
           /\ Place(p, v) + Size(p, v) <= Len(bytes)
<1>1. Count(p) \in Nat /\ Notes(p) \in Nat
  BY PacketTypes
<1>2. /\ Place(p, v) \in Nat
      /\ Place(p, v + 1) = Place(p, v) + Size(p, v)
  BY PlaceNext
<1>3. /\ Count(p) + Notes(p) + 1 \in 0 .. Count(p) + Notes(p) + 1
      /\ v + 1 \in 0 .. Count(p) + Notes(p) + 1
  BY <1>1, Ranges
<1>4. /\ Place(p, v + 1) <= Place(p, Count(p) + Notes(p) + 1)
      /\ Place(p, v + 1) \in Nat /\ Place(p, Count(p) + Notes(p) + 1) \in Nat
  BY <1>3, PlaceOrder
<1>5. Place(p, Count(p) + Notes(p) + 1) <= Len(bytes)
  BY FitsPlace, Zenon DEF Fits
<1>6. Len(bytes) \in Nat
  OBVIOUS
<1>7. QED
  BY <1>2, <1>4, <1>5, <1>6

\* The end of parse, for the packet p.
Finish(p) ==
    /\ Data(p, Count(p) + Notes(p) + 1)
    /\ object_ptrs' = Append(object_ptrs, tail_offset)
    /\ UNCHANGED <<name_id_map, bytes, tail_offset>>
    /\ Packet' = p

\* The getters by key after append_tail_offset closed the last item.
LEMMA FinishFacts ==
    ASSUME NEW p \in Packets, Finish(p), NEW n, n = Count(p) + Notes(p) + 1
    PROVE  /\ BufferOK /\ bytes' = bytes /\ bytes \in Seq(Byte) /\ Len(bytes) \in Nat
           /\ tail_offset \in Nat /\ tail_offset <= Len(bytes)
           /\ Data(p, n) /\ ItemsMet(p, n) = Count(p) + 1
           /\ \A v \in 0 .. Count(p) :
                 /\ Start(p, v) \in Nat
                 /\ item_ptr(KeyOf(p, v))' = Start(p, v)
                 /\ item_size(KeyOf(p, v))'
                        = (IF v < Count(p) THEN Stop(p, v) ELSE tail_offset) - Start(p, v)
<1>1. Count(p) \in Nat /\ Notes(p) \in Nat
  BY PacketTypes
<1>2. Data(p, n)
  BY Zenon DEF Finish
<1>3. ItemsMet(p, n) = Count(p) + 1
  BY <1>1 DEF ItemsMet
<1>4. BufferOK /\ bytes' = bytes
  BY <1>2, Zenon DEF Data, Finish
<1>5. /\ bytes \in Seq(Byte) /\ Len(bytes) \in Nat
      /\ tail_offset \in Nat /\ tail_offset <= Len(bytes)
  BY <1>4 DEF BufferOK
<1>6. \A v \in 0 .. Count(p) :
          /\ Start(p, v) \in Nat
          /\ item_ptr(KeyOf(p, v))' = Start(p, v)
          /\ item_size(KeyOf(p, v))'
                 = (IF v < Count(p) THEN Stop(p, v) ELSE tail_offset) - Start(p, v)
  <2>1. object_ptrs' = Append(object_ptrs, tail_offset) /\ name_id_map' = name_id_map
    BY Zenon DEF Finish
  <2>2. QED
    BY <1>2, <2>1, FoundItems
<1>7. QED
  BY <1>2, <1>3, <1>4, <1>5, <1>6, Zenon

\* What ItemsReadBack says, at the end of a parse.
LEMMA FinishItems ==
    ASSUME NEW p \in Packets, Finish(p)
    PROVE  ItemsReadBack'
<1>1. PICK n : n = Count(p) + Notes(p) + 1
  BY Zenon
<1>2. /\ BufferOK /\ bytes' = bytes /\ bytes \in Seq(Byte) /\ Len(bytes) \in Nat
      /\ tail_offset \in Nat /\ tail_offset <= Len(bytes)
      /\ Data(p, n) /\ ItemsMet(p, n) = Count(p) + 1
      /\ \A v \in 0 .. Count(p) :
            /\ Start(p, v) \in Nat
            /\ item_ptr(KeyOf(p, v))' = Start(p, v)
            /\ item_size(KeyOf(p, v))'
                   = (IF v < Count(p) THEN Stop(p, v) ELSE tail_offset) - Start(p, v)
  BY <1>1, FinishFacts
<1>3. Count(p) \in Nat /\ Notes(p) \in Nat /\ Items(p) = 0 .. Count(p)
  BY PacketTypes, Ranges
<1>4. Packet' = p
  BY Zenon DEF Finish
<1>5. ASSUME Fits(p), NEW v \in 0 .. Count(p)
      PROVE  /\ item_size(KeyOf(p, v))' = Size(p, v) + IF v = Count(p) THEN NoteSizes(p) ELSE 0
             /\ HoldsAt(item_ptr(KeyOf(p, v))', Sent(p, v), p, KeyOf(p, v))
  <2>1. \A w \in 0 .. Count(p) : /\ Start(p, w) = Place(p, w) /\ Place(p, w) \in Nat
                                 /\ Place(p, w + 1) = Place(p, w) + Size(p, w)
                                 /\ Start(p, w) + Size(p, w) <= Len(bytes)
                                 /\ Size(p, w) \in Nat
    <3>1. TAKE w \in 0 .. Count(p)
    <3>2. w \in Values(p)
      BY <1>3, Ranges
    <3>3. /\ Place(p, w) \in Nat
          /\ Place(p, w + 1) = Place(p, w) + Size(p, w)
          /\ Place(p, w) + Size(p, w) <= Len(bytes)
          /\ Size(p, w) \in Nat
      BY <1>2, <1>5, <3>2, AllStored, SentType
    <3>4. Start(p, w) = Place(p, w)
      <4>1. w \in 0 .. ItemsMet(p, n) - 1
        BY <1>2, <1>3
      <4>2. QED
        BY <1>2, <1>5, <4>1, Zenon DEF Data, Placed
    <3>5. QED
      BY <3>3, <3>4
  <2>2. tail_offset = Place(p, n)
    BY <1>2, <1>5, Zenon DEF Data, Placed
  <2>3. \A w \in 0 .. Count(p) : Stored(p, w)
    BY <2>1, Zenon DEF Stored
  <2>4. item_size(KeyOf(p, v))' = Size(p, v) + IF v = Count(p) THEN NoteSizes(p) ELSE 0
    <3>1. CASE v < Count(p)
      <4>1. Stop(p, v) = Start(p, v) + Size(p, v)
        BY <2>3, Zenon DEF Stop
      <4>2. item_size(KeyOf(p, v))' = Stop(p, v) - Start(p, v)
        BY <1>2, <3>1, Zenon
      <4>3. QED
        BY <1>3, <2>1, <3>1, <4>1, <4>2
    <3>2. CASE v = Count(p)
      <4>1. item_size(KeyOf(p, v))' = tail_offset - Start(p, v)
        <5>1. ~(v < Count(p))
          BY <1>3, <3>2
        <5>2. QED
          BY <1>2, <5>1, Zenon
      <4>2. Place(p, n) = Place(p, Count(p) + 1) + NoteSizes(p) /\ NoteSizes(p) \in Nat
        BY <1>1, FitsPlace, Zenon
      <4>3. /\ Place(p, Count(p) + 1) = Place(p, v) + Size(p, v) /\ Start(p, v) = Place(p, v)
            /\ Place(p, v) \in Nat /\ Size(p, v) \in Nat
        BY <2>1, <3>2, Zenon
      <4>4. PICK a \in Nat, z \in Nat, s \in Nat : a = Place(p, v) /\ z = Size(p, v) /\ s = NoteSizes(p)
        BY <4>2, <4>3, Zenon
      <4>5. item_size(KeyOf(p, v))' = ((a + z) + s) - a
        BY <2>2, <4>1, <4>2, <4>3, <4>4, Zenon
      <4>6. ((a + z) + s) - a = z + s
        OBVIOUS
      <4>7. QED
        BY <3>2, <4>4, <4>5, <4>6, Zenon
    <3>3. QED
      BY <1>3, <3>1, <3>2
  <2>5. Holds(p, v)
    <3>1. NotesHaveItems(p, n)
      <4>1. 0 .. ItemsMet(p, n) - 1 = 0 .. Count(p)
        BY <1>2, <1>3
      <4>2. QED
        BY <2>3, <4>1, Zenon DEF NotesHaveItems
    <3>2. v \in 0 .. ItemsMet(p, n) - 1
      BY <1>2, <1>3
    <3>3. QED
      BY <1>2, <2>3, <3>1, <3>2, Zenon DEF Data, Contents
  <2>6. PICK o \in Nat : o = Start(p, v)
    BY <1>2, Zenon
  <2>7. HoldsAt(o, Sent(p, v), p, KeyOf(p, v))
    BY <1>2, <2>3, <2>5, <2>6, ItemHolds, Zenon
  <2>8. item_ptr(KeyOf(p, v))' = o
    BY <1>2, <2>6, Zenon
  <2>9. QED
    BY <2>4, <2>7, <2>8, Zenon
<1>6. SUFFICES ASSUME Fits(p), NEW v \in 0 .. Count(p)
               PROVE  /\ item_size(KeyOf(p, v))'
                             = Len(Sent(p, v)) + IF v = Len(p.items) THEN NoteSizes(p) ELSE 0
                      /\ HoldsAt(item_ptr(KeyOf(p, v)), Sent(p, v), p, KeyOf(p, v))'
  BY <1>2, <1>3, <1>4, Zenon DEF ItemsReadBack, Fits
<1>7. HoldsAt(item_ptr(KeyOf(p, v)), Sent(p, v), p, KeyOf(p, v))'
  BY <1>2, <1>5, <1>6, Zenon DEF HoldsAt
<1>8. QED
  BY <1>5, <1>6, <1>7, Zenon DEF Size, Count

\* What NotesPointToValues says of note j.
NotePoints(p, j) ==
    LET n == p.notes[j]
        pointer == bytes[item_ptr(n.key) + n.offset + 1]
    IN  /\ \A k \in 1 .. PointerSize :
              bytes[item_ptr(n.key) + n.offset + k] = <<"address", pointer[2], k>>
        /\ \A k \in 1 .. n.size : /\ pointer[2] + k \in DOMAIN bytes
                                  /\ bytes[pointer[2] + k] = <<"note", j, k>>

\* What NotesPointToValues says, at the end of a parse.
LEMMA FinishNotes ==
    ASSUME NEW p \in Packets, Finish(p)
    PROVE  NotesPointToValues'
<1>1. PICK n : n = Count(p) + Notes(p) + 1
  BY Zenon
<1>2. /\ bytes' = bytes /\ bytes \in Seq(Byte) /\ Len(bytes) \in Nat /\ Data(p, n)
      /\ \A v \in 0 .. Count(p) : item_ptr(KeyOf(p, v))' = Start(p, v) /\ Start(p, v) \in Nat
  BY <1>1, FinishFacts
<1>3. Count(p) \in Nat /\ Notes(p) \in Nat /\ Items(p) = 0 .. Count(p)
  BY PacketTypes, Ranges
<1>4. Packet' = p
  BY Zenon DEF Finish
<1>5. ASSUME Fits(p), NEW j \in 1 .. Notes(p), NEW pointer,
             pointer = bytes[item_ptr(NoteKey(p, j))' + NoteOffset(p, j) + 1]
      PROVE  /\ \A k \in 1 .. PointerSize :
                   bytes[item_ptr(NoteKey(p, j))' + NoteOffset(p, j) + k]
                       = <<"address", pointer[2], k>>
             /\ \A k \in 1 .. NoteSize(p, j) : /\ pointer[2] + k \in DOMAIN bytes
                                               /\ bytes[pointer[2] + k] = <<"note", j, k>>
  <2>1. PointsTo(p, j)
    <3>1. j \in 1 .. n - 1 - Count(p)
      BY <1>1, <1>3
    <3>2. QED
      BY <1>2, <1>5, <3>1, Zenon DEF Data, Pointed
  <2>2. item_ptr(NoteKey(p, j))' = item_ptr(NoteKey(p, j))
    <3>1. PICK v \in 0 .. Count(p) : NoteKey(p, j) = KeyOf(p, v)
      BY <1>3, NoteItem, Zenon
    <3>2. item_ptr(KeyOf(p, v)) = Start(p, v)
      BY Zenon DEF Start
    <3>3. item_ptr(NoteKey(p, j))' = item_ptr(KeyOf(p, v))'
      BY <3>1, Zenon DEF item_ptr, NoteKey, KeyOf
    <3>4. QED
      BY <1>2, <3>1, <3>2, <3>3, Zenon
  <2>3. PICK a : a = Place(p, Count(p) + j)
    BY Zenon
  <2>4. /\ \A k \in 1 .. PointerSize :
               bytes[item_ptr(NoteKey(p, j))' + NoteOffset(p, j) + k] = <<"address", a, k>>
        /\ \A k \in 1 .. NoteSize(p, j) : bytes[a + k] = <<"note", j, k>>
    BY <2>1, <2>2, <2>3, Zenon DEF PointsTo
  <2>5. pointer[2] = a
    <3>1. 1 \in 1 .. PointerSize
      BY PacketAssumption
    <3>2. pointer = <<"address", a, 1>>
      BY <1>5, <2>4, <3>1, Zenon
    <3>3. QED
      BY <3>2
  <2>6. \A k \in 1 .. NoteSize(p, j) : a + k \in DOMAIN bytes
    <3>1. Count(p) + j \in Values(p) /\ Size(p, Count(p) + j) = NoteSize(p, j) /\ NoteSize(p, j) \in Nat
      BY SentNote, PacketTypes
    <3>2. a \in Nat /\ a + NoteSize(p, j) <= Len(bytes)
      BY <1>2, <1>5, <2>3, <3>1, AllStored
    <3>3. DOMAIN bytes = 1 .. Len(bytes)
      BY <1>2
    <3>4. QED
      BY <1>2, <3>1, <3>2, <3>3, ByteOf, Zenon
  <2>7. QED
    BY <2>4, <2>5, <2>6, Zenon
<1>6. SUFFICES ASSUME Fits(p)', NEW j \in DOMAIN p.notes
               PROVE  NotePoints(p, j)'
  BY <1>4, Zenon DEF NotesPointToValues, NotePoints
<1>7. PICK pointer : pointer = bytes[item_ptr(NoteKey(p, j))' + NoteOffset(p, j) + 1]
  BY Zenon
<1>8. Fits(p) /\ j \in 1 .. Notes(p)
  BY <1>2, <1>6, NotesDomain, Zenon DEF Fits
<1>9. /\ \A k \in 1 .. PointerSize :
            bytes[item_ptr(NoteKey(p, j))' + NoteOffset(p, j) + k] = <<"address", pointer[2], k>>
      /\ \A k \in 1 .. NoteSize(p, j) : /\ pointer[2] + k \in DOMAIN bytes
                                        /\ bytes[pointer[2] + k] = <<"note", j, k>>
  BY <1>5, <1>7, <1>8, Zenon
<1>10. QED
  BY <1>2, <1>7, <1>9, Zenon DEF NotePoints, NoteKey, NoteOffset, NoteSize

\* What WholeOrLeftOut says, at the end of a parse.
LEMMA FinishParts ==
    ASSUME NEW p \in Packets, Finish(p)
    PROVE  WholeOrLeftOut'
<1>1. PICK n : n = Count(p) + Notes(p) + 1
  BY Zenon
<1>2. /\ BufferOK /\ bytes' = bytes /\ bytes \in Seq(Byte) /\ Len(bytes) \in Nat
      /\ tail_offset \in Nat /\ tail_offset <= Len(bytes)
      /\ Data(p, n) /\ ItemsMet(p, n) = Count(p) + 1
      /\ \A v \in 0 .. Count(p) :
            /\ Start(p, v) \in Nat
            /\ item_ptr(KeyOf(p, v))' = Start(p, v)
            /\ item_size(KeyOf(p, v))'
                   = (IF v < Count(p) THEN Stop(p, v) ELSE tail_offset) - Start(p, v)
  BY <1>1, FinishFacts
<1>3. Count(p) \in Nat /\ Notes(p) \in Nat /\ Items(p) = 0 .. Count(p)
  BY PacketTypes, Ranges
<1>4. Packet' = p
  BY Zenon DEF Finish
<1>5. \A v \in 0 .. Count(p) : Size(p, v) \in Nat
  BY <1>3, Ranges, SentType
<1>6. \A v \in 0 .. Count(p) : v < Count(p) =>
          item_size(KeyOf(p, v))' = IF Stored(p, v) THEN Size(p, v) ELSE 0
  <2>1. TAKE v \in 0 .. Count(p)
  <2>2. HAVE v < Count(p)
  <2>3. PICK a \in Nat, z \in Nat : a = Start(p, v) /\ z = Size(p, v)
    BY <1>2, <1>5, Zenon
  <2>4. item_size(KeyOf(p, v))' = Stop(p, v) - a
    BY <1>2, <2>2, <2>3, Zenon
  <2>5. Stop(p, v) = IF Stored(p, v) THEN a + z ELSE a
    BY <2>3, Zenon DEF Stop
  <2>6. (a + z) - a = z /\ a - a = 0
    OBVIOUS
  <2>7. QED
    BY <2>3, <2>4, <2>5, <2>6, Zenon
<1>7. SUFFICES ASSUME \A j \in 1 .. Notes(p) : item_size(NoteKey(p, j))' > 0,
                      NEW v \in 0 .. Count(p)
               PROVE  /\ v < Len(p.items) => item_size(KeyOf(p, v))' \in {0, Len(Sent(p, v))}
                      /\ item_size(KeyOf(p, v))' >= Len(Sent(p, v))
                         => HoldsAt(item_ptr(KeyOf(p, v)), Sent(p, v), p, KeyOf(p, v))'
  BY <1>3, <1>4, NotesDomain, Zenon DEF WholeOrLeftOut, NoteKey
<1>8. v < Count(p) => item_size(KeyOf(p, v))' \in {0, Size(p, v)}
  BY <1>6, Zenon
<1>9. NotesHaveItems(p, n)
  <2>1. SUFFICES ASSUME NEW j \in 1 .. Notes(p), NEW w \in 0 .. Count(p), w < Count(p),
                        NoteKey(p, j) = KeyOf(p, w), ~Stored(p, w)
                 PROVE  FALSE
    <3>1. 0 .. ItemsMet(p, n) - 1 = 0 .. Count(p)
      BY <1>2, <1>3
    <3>2. QED
      BY <3>1, Zenon DEF NotesHaveItems
  <2>2. item_size(KeyOf(p, w))' = 0
    BY <1>6, <2>1, Zenon
  <2>3. item_size(NoteKey(p, j))' = item_size(KeyOf(p, w))'
    BY <2>1, Zenon DEF item_size, NoteKey, KeyOf
  <2>4. item_size(NoteKey(p, j))' > 0
    BY <1>7, Zenon
  <2>5. QED
    BY <2>2, <2>3, <2>4
<1>10. PICK o \in Nat, z \in Nat : o = Start(p, v) /\ z = Size(p, v)
  BY <1>2, <1>5, Zenon
<1>11. ASSUME item_size(KeyOf(p, v))' >= z
       PROVE  HoldsAt(o, Sent(p, v), p, KeyOf(p, v))
  <2>1. CASE Stored(p, v)
    <3>1. v \in 0 .. ItemsMet(p, n) - 1
      BY <1>2, <1>3
    <3>2. Holds(p, v)
      BY <1>2, <1>9, <2>1, <3>1, Zenon DEF Data, Contents
    <3>3. QED
      BY <1>2, <1>10, <2>1, <3>2, ItemHolds, Zenon
  <2>2. CASE ~Stored(p, v)
    <3>1. v < Count(p)
      <4>1. SUFFICES ASSUME ~(v < Count(p)) PROVE FALSE
        OBVIOUS
      <4>2. item_size(KeyOf(p, v))' = tail_offset - o
        BY <1>2, <1>10, <4>1, Zenon
      <4>3. ~(o + z <= Len(bytes))
        BY <1>10, <2>2, Zenon DEF Stored
      <4>4. QED
        BY <1>2, <1>11, <4>2, <4>3
    <3>2. item_size(KeyOf(p, v))' = 0
      BY <1>6, <2>2, <3>1, Zenon
    <3>3. z = 0
      BY <1>11, <3>2
    <3>4. Sent(p, v) \in Seq(Byte) /\ Len(Sent(p, v)) = 0
      <4>1. v \in Values(p)
        BY <1>3, Ranges
      <4>2. Sent(p, v) \in Seq(Byte)
        BY <4>1, SentType
      <4>3. QED
        BY <1>10, <3>3, <4>2, Zenon DEF Size
    <3>5. DOMAIN Sent(p, v) = {}
      BY <3>4
    <3>6. QED
      BY <3>5, Zenon DEF HoldsAt
  <2>3. QED
    BY <2>1, <2>2, Zenon
<1>12. item_ptr(KeyOf(p, v))' = o
  BY <1>2, <1>10, Zenon
<1>13. item_size(KeyOf(p, v))' >= z => HoldsAt(item_ptr(KeyOf(p, v)), Sent(p, v), p, KeyOf(p, v))'
  BY <1>2, <1>11, <1>12, Zenon DEF HoldsAt
<1>14. QED
  BY <1>8, <1>10, <1>13, Zenon DEF Size, Count

----------------------------------------------------------------------------
(***************************************************************************)
(* The invariant is inductive.                                             *)
(***************************************************************************)

\* While nothing has been parsed to its end the three properties say nothing.
LEMMA NotParsed ==
    ASSUME ~Parsed'
    PROVE  ItemsReadBack' /\ NotesPointToValues' /\ WholeOrLeftOut'
  BY Zenon DEF ItemsReadBack, NotesPointToValues, WholeOrLeftOut

\* JsonInv holds at first.
LEMMA InvInit ==
    ASSUME Init
    PROVE  JsonInv
<1>1. /\ parses = <<>> /\ object_ptrs = <<>> /\ status = "idle" /\ failed = FALSE
      /\ parse_stack = <<>>
  BY Zenon DEF Init
<1>2. parses \in Seq(Packets) /\ object_ptrs \in Seq(Nat) /\ Len(parses) = 0
  BY <1>1
<1>3. Left(parses, 0) = <<>>
  <2>1. Unended(parses, 0) = {}
    <3>1. 1 .. 0 = {}
      OBVIOUS
    <3>2. QED
      BY <3>1, Zenon DEF Unended
  <2>2. Cardinality(Unended(parses, 0)) = 0
    BY <2>1, FS_EmptySet
  <2>3. PICK r, a : r = Left(parses, 0) /\ a = Array
    BY Zenon
  <2>4. r = [i \in 1 .. 0 |-> a]
    BY <2>2, <2>3, Zenon DEF Left
  <2>5. r \in Seq({a}) /\ Len(r) = 0
    BY <2>4, Rows
  <2>6. r = <<>>
    BY <2>5
  <2>7. QED
    BY <2>3, <2>6, Zenon
<1>4. ItemsReadBack /\ NotesPointToValues /\ WholeOrLeftOut
  BY <1>1, Zenon DEF ItemsReadBack, NotesPointToValues, WholeOrLeftOut, Parsed
<1>5. status # "parsing" /\ status \in {"idle", "parsing", "crashed"}
  BY <1>1
<1>6. QED
  BY <1>1, <1>2, <1>3, <1>4, <1>5, Zenon DEF JsonInv

\* parse keeps JsonInv.
LEMMA InvParse ==
    ASSUME JsonInv, NEW p \in Packets, NEW length \in Lengths, parse(p, length)
    PROVE  JsonInv'
<1>1. /\ parses \in Seq(Packets) /\ object_ptrs \in Seq(Nat) /\ failed = FALSE
      /\ status = "idle" /\ parse_stack = Left(parses, Len(parses))
  BY Zenon DEF JsonInv, parse
<1>2. PICK q : q = Append(parses, p)
  BY Zenon
<1>3. /\ q \in Seq(Packets) /\ q # <<>> /\ q[Len(q)] = p
      /\ Left(q, Len(q) - 1) = Left(parses, Len(parses))
  BY <1>1, <1>2, LeftParse, Zenon
<1>4. /\ parses' = q /\ status' = "parsing" /\ call' = 1 /\ event' = 1 /\ failed' = failed
      /\ object_ptrs' = object_ptrs /\ parse_stack' = parse_stack
      /\ bytes' = [a \in 1 .. length |-> Zero] /\ tail_offset' = 0
  BY <1>2, Zenon DEF parse
<1>5. Data(p, 0)'
  <2>1. length \in Nat
    BY PacketAssumption
  <2>2. QED
    BY <1>1, <1>4, <2>1, NothingMet, Zenon
<1>6. PICK b : b = parse_stack
  BY Zenon
<1>7. At(p, 1, 1) /\ Above(b, p, 1, 1) = b /\ Met(p, 1, 1) = 0
  BY TextStart
<1>8. InPlace(b, p)'
  BY <1>4, <1>5, <1>6, <1>7, Zenon DEF InPlace
<1>9. Reading'
  <2>1. Packet' = p
    BY <1>3, <1>4, Zenon DEF Packet
  <2>2. Left(parses, Len(parses) - 1)' = b
    BY <1>1, <1>3, <1>4, <1>6, Zenon
  <2>3. QED
    BY <1>3, <1>4, <1>8, <2>1, <2>2, Zenon DEF Reading
<1>10. status' # "idle" /\ status' \in {"idle", "parsing", "crashed"}
  BY <1>4
<1>11. ItemsReadBack' /\ NotesPointToValues' /\ WholeOrLeftOut'
  BY <1>10, NotParsed, Zenon DEF Parsed
<1>12. QED
  BY <1>1, <1>3, <1>4, <1>9, <1>10, <1>11, Zenon DEF JsonInv

\* While a text is read: the packet, and the stack that earlier parses left.
LEMMA WhileReading ==
    ASSUME JsonInv, status = "parsing"
    PROVE  \E p, b :
              /\ p \in Packets /\ p = Packet /\ b = Left(parses, Len(parses) - 1)
              /\ IsStack(b) /\ (b # <<>> => b[Len(b)] = Array)
              /\ InPlace(b, p)
              /\ parses \in Seq(Packets) /\ Len(parses) \in 1 .. Len(parses)
              /\ failed = FALSE
<1>1. /\ parses \in Seq(Packets) /\ parses # <<>> /\ failed = FALSE
      /\ InPlace(Left(parses, Len(parses) - 1), Packet)
  BY Zenon DEF JsonInv, Reading
<1>2. Len(parses) - 1 \in Nat /\ Len(parses) \in 1 .. Len(parses) /\ parses[Len(parses)] \in Packets
  BY <1>1
<1>3. Packet \in Packets
  BY <1>2, Zenon DEF Packet
<1>4. PICK b : b = Left(parses, Len(parses) - 1)
  BY Zenon
<1>5. IsStack(b) /\ (b # <<>> => b[Len(b)] = Array)
  BY <1>2, <1>4, LeftStack, Zenon
<1>6. QED
  BY <1>1, <1>2, <1>3, <1>4, <1>5, Zenon

\* Every callback of the reader keeps JsonInv.
LEMMA InvCallback ==
    ASSUME JsonInv, Callback
    PROVE  JsonInv'
<1>1. status = "parsing"
  BY Zenon DEF Callback, StartObject, Key, Uint, String, EndObject, EndArray, End, StartArray, Event
<1>2. PICK p, b :
          /\ p \in Packets /\ p = Packet /\ b = Left(parses, Len(parses) - 1)
          /\ IsStack(b) /\ (b # <<>> => b[Len(b)] = Array)
          /\ InPlace(b, p)
          /\ parses \in Seq(Packets) /\ Len(parses) \in 1 .. Len(parses)
          /\ failed = FALSE
  BY <1>1, WhileReading, Zenon
<1>3. Crash \/ (Moved /\ InPlace(b, p)')
  BY <1>2, ReadStep, Zenon
<1>4. parses' = parses /\ failed' = failed /\ parses # <<>> /\ object_ptrs \in Seq(Nat)
  BY <1>1, <1>3, Zenon DEF Crash, Moved, JsonInv, Reading
<1>5. CASE Crash
  <2>1. status' = "crashed" /\ object_ptrs' = object_ptrs
    BY <1>5, Zenon DEF Crash
  <2>2. status' # "idle" /\ status' # "parsing" /\ status' \in {"idle", "parsing", "crashed"}
    BY <2>1
  <2>3. ItemsReadBack' /\ NotesPointToValues' /\ WholeOrLeftOut'
    BY <2>2, NotParsed, Zenon DEF Parsed
  <2>4. QED
    BY <1>2, <1>4, <2>1, <2>2, <2>3, Zenon DEF JsonInv
<1>6. CASE Moved /\ InPlace(b, p)'
  <2>1. status' = "parsing"
    BY <1>1, <1>6, Zenon DEF Moved
  <2>2. status' # "idle" /\ status' \in {"idle", "parsing", "crashed"}
    BY <2>1
  <2>3. ItemsReadBack' /\ NotesPointToValues' /\ WholeOrLeftOut'
    BY <2>2, NotParsed, Zenon DEF Parsed
  <2>4. Packet' = p /\ Left(parses, Len(parses) - 1)' = b
    BY <1>2, <1>4, Zenon DEF Packet
  <2>5. Reading'
    BY <1>4, <1>6, <2>4, Zenon DEF Reading
  <2>6. object_ptrs' \in Seq(Nat)
    BY <1>6, Zenon DEF InPlace, Data, BufferOK
  <2>7. QED
    BY <1>2, <1>4, <2>2, <2>3, <2>5, <2>6, Zenon DEF JsonInv
<1>7. QED
  BY <1>3, <1>5, <1>6, Zenon

\* append_tail_offset keeps JsonInv.
LEMMA InvEnd ==
    ASSUME JsonInv, append_tail_offset
    PROVE  JsonInv'
<1>1. /\ status = "parsing" /\ Ended /\ status' = "idle"
      /\ object_ptrs' = Append(object_ptrs, tail_offset)
      /\ failed' = failed /\ parse_stack' = parse_stack /\ name_id_map' = name_id_map
      /\ bytes' = bytes /\ tail_offset' = tail_offset /\ parses' = parses
  BY Zenon DEF append_tail_offset
<1>2. PICK p, b :
          /\ p \in Packets /\ p = Packet /\ b = Left(parses, Len(parses) - 1)
          /\ IsStack(b) /\ (b # <<>> => b[Len(b)] = Array)
          /\ InPlace(b, p)
          /\ parses \in Seq(Packets) /\ Len(parses) \in 1 .. Len(parses)
          /\ failed = FALSE
  BY <1>1, WhileReading, Zenon
<1>3. Count(p) \in Nat /\ Notes(p) \in Nat /\ Len(Text(p)) = Count(p) + Notes(p) + 1
  BY <1>2, PacketTypes, TextCalls
<1>4. PICK c \in Nat : c = Count(p) + Notes(p) + 2
  BY <1>3
<1>5. call = c /\ event = 1
  <2>1. At(p, call, event)
    BY <1>2, Zenon DEF InPlace
  <2>2. call > Count(p) + Notes(p) + 1
    BY <1>1, <1>2, <1>3, Zenon DEF Ended, json
  <2>3. call \notin 1 .. Count(p) + Notes(p) + 1
    BY <1>3, <2>2
  <2>4. call = (Count(p) + Notes(p) + 1) + 1 /\ event = 1
    BY <1>3, <2>1, <2>3, Zenon DEF At
  <2>5. QED
    BY <1>3, <1>4, <2>4
<1>6. /\ c # 1 /\ ~(c <= Count(p) + 1) /\ ~(c <= Count(p) + Notes(p) + 1)
      /\ c - 1 = Count(p) + Notes(p) + 1
  BY <1>3, <1>4
<1>7. parse_stack = IF Notes(p) = 0 THEN InText(b) ELSE b
  BY <1>2, <1>5, <1>6, Zenon DEF InPlace, Above
<1>8. Data(p, Count(p) + Notes(p) + 1)
  BY <1>2, <1>5, <1>6, Zenon DEF InPlace, Met
<1>9. parse_stack' = Left(parses', Len(parses'))
  <2>1. PICK q, n : q = parses /\ n = Len(parses)
    BY Zenon
  <2>2. q \in Seq(Packets) /\ n \in 1 .. Len(q) /\ p = q[n]
    BY <1>2, <2>1, Zenon DEF Packet
  <2>3. Left(q, n) = IF Notes(p) = 0 THEN InText(Left(q, n - 1)) ELSE Left(q, n - 1)
    BY <2>2, LeftNext, Zenon
  <2>4. QED
    BY <1>1, <1>2, <1>7, <2>1, <2>3, Zenon
<1>10. Finish(p)
  <2>1. Packet' = p
    BY <1>1, <1>2, Zenon DEF Packet
  <2>2. QED
    BY <1>1, <1>8, <2>1, Zenon DEF Finish
<1>11. ItemsReadBack' /\ NotesPointToValues' /\ WholeOrLeftOut'
  BY <1>2, <1>10, FinishItems, FinishNotes, FinishParts, Zenon
<1>12. object_ptrs' \in Seq(Nat)
  <2>1. object_ptrs \in Seq(Nat) /\ tail_offset \in Nat
    BY <1>8, Zenon DEF Data, BufferOK
  <2>2. QED
    BY <1>1, <2>1
<1>13. status' # "parsing" /\ status' \in {"idle", "parsing", "crashed"}
  BY <1>1
<1>14. QED
  BY <1>1, <1>2, <1>9, <1>11, <1>12, <1>13, Zenon DEF JsonInv

\* A step that changes nothing keeps JsonInv.
LEMMA InvStutter ==
    ASSUME JsonInv, UNCHANGED vars
    PROVE  JsonInv'
<1>1. /\ call' = call /\ event' = event /\ status' = status /\ failed' = failed
      /\ parse_stack' = parse_stack /\ object_ptrs' = object_ptrs /\ name_id_map' = name_id_map
      /\ bytes' = bytes /\ tail_offset' = tail_offset /\ parses' = parses
  BY Zenon DEF vars
<1>2. Packet' = Packet
  BY <1>1, Zenon DEF Packet
<1>3. Reading => Reading'
  <2>1. HAVE Reading
  <2>2. PICK p, b : p = Packet /\ b = Left(parses, Len(parses) - 1)
    BY Zenon
  <2>3. InPlace(b, p)
    BY <2>1, <2>2, Zenon DEF Reading
  <2>4. PICK n : n = Met(p, call, event)
    BY Zenon
  <2>5. Data(p, n)
    BY <2>3, <2>4, Zenon DEF InPlace
  <2>6. Data(p, n)'
    BY <1>1, <2>5, QuietData, Zenon DEF Quiet
  <2>7. InPlace(b, p)'
    BY <1>1, <2>3, <2>4, <2>6, Zenon DEF InPlace
  <2>8. QED
    BY <1>1, <1>2, <2>1, <2>2, <2>7, Zenon DEF Reading
<1>4. ItemsReadBack' = ItemsReadBack
  BY <1>1, <1>2, Zenon DEF ItemsReadBack, Parsed, Fits, HoldsAt, item_ptr, item_size
<1>5. NotesPointToValues' = NotesPointToValues
  BY <1>1, <1>2, Zenon DEF NotesPointToValues, Parsed, Fits, item_ptr
<1>6. WholeOrLeftOut' = WholeOrLeftOut
  BY <1>1, <1>2, Zenon DEF WholeOrLeftOut, Parsed, HoldsAt, item_ptr, item_size
<1>7. QED
  BY <1>1, <1>3, <1>4, <1>5, <1>6, Zenon DEF JsonInv

\* However many well-formed packets one JsonRpcPacket object parses: the stack
\* is always what the events read so far put on what earlier parses left, and
\* the buffer, the offsets and the names are those of the values met so far.
THEOREM JsonInvariant == Spec => []JsonInv
<1>1. Init => JsonInv
  BY InvInit
<1>2. JsonInv /\ [Next]_vars => JsonInv'
  <2>1. SUFFICES ASSUME JsonInv, [Next]_vars PROVE JsonInv'
    OBVIOUS
  <2>2. CASE \E p \in Packets, length \in Lengths : parse(p, length)
    BY <2>1, <2>2, InvParse, Zenon
  <2>3. CASE Callback
    BY <2>1, <2>3, InvCallback, Zenon
  <2>4. CASE append_tail_offset
    BY <2>1, <2>4, InvEnd, Zenon
  <2>5. CASE UNCHANGED vars
    BY <2>1, <2>5, InvStutter, Zenon
  <2>6. QED
    BY <2>1, <2>2, <2>3, <2>4, <2>5, Zenon DEF Next, Callback
<1>3. QED
  BY <1>1, <1>2, PTL DEF Spec

\* After parse returns every item is found by its key with the bytes and the
\* size that the writer gave it, when the buffer is large enough.
THEOREM ItemsAreReadBack == Spec => []ItemsReadBack
<1>1. JsonInv => ItemsReadBack
  BY Zenon DEF JsonInv
<1>2. QED
  BY <1>1, JsonInvariant, PTL

\* The pointer that set_note_for_ptr describes leads to the value of its note.
THEOREM NotesLeadToValues == Spec => []NotesPointToValues
<1>1. JsonInv => NotesPointToValues
  BY Zenon DEF JsonInv
<1>2. QED
  BY <1>1, JsonInvariant, PTL

\* A buffer that is too small leaves items out whole: the String and Uint
\* callbacks never store a part of one, and spoil no other.
THEOREM ItemsWholeOrLeftOut == Spec => []WholeOrLeftOut
<1>1. JsonInv => WholeOrLeftOut
  BY Zenon DEF JsonInv
<1>2. QED
  BY <1>1, JsonInvariant, PTL

\* No EndObject or EndArray callback fails on what the writer wrote, and after a
\* parse the stack holds the arrays of the packets without notes, nothing else.
THEOREM StackComesBack == Spec => []StackReturns
<1>1. JsonInv => StackReturns
  <2>1. SUFFICES ASSUME JsonInv PROVE StackReturns
    OBVIOUS
  <2>2. parses \in Seq(Packets) /\ failed = FALSE
    BY <2>1, Zenon DEF JsonInv
  <2>3. DOMAIN parses = 1 .. Len(parses)
    BY <2>2
  <2>4. Parsed => parse_stack = Left(parses, Len(parses))
    BY <2>1, Zenon DEF JsonInv, Parsed
  <2>5. ~failed
    BY <2>2
  <2>6. QED
    BY <2>3, <2>4, <2>5, Zenon DEF StackReturns, Left, Unended, Array
<1>2. QED
  BY <1>1, JsonInvariant, PTL

=============================================================================
