----------------------------- MODULE JsonPacket -----------------------------
(***************************************************************************)
(* JsonRpcPacket: a packet is written as JSON text and parsed, by the      *)
(* callbacks of a streaming reader, into a FixedBuffer the caller gives.   *)
(* The text is the sequence of the writer's calls, each the sequence of    *)
(* the events (tokens) its part of the text causes in the reader.  One     *)
(* step is one callback.                                                   *)
(*                                                                         *)
(* Byte k of the value of item i is <<"item", i, k>>, of the value of note *)
(* i <<"note", i, k>>; byte k of the address of offset o in the buffer is  *)
(* <<"address", o, k>>.  The header is item 0.                             *)
(***************************************************************************)
EXTENDS Integers, Sequences, FiniteSets

CONSTANTS
    Packets,     \* packets to parse: [header, items, notes]
    Lengths,     \* lengths of the caller's buffers
    PointerSize, \* sizeof(address)
    UintSize,    \* sizeof(unsigned)
    FreshTypes,  \* what the type of an uninitialised ParseItem may be
    MaxParses    \* bound: parses of one JsonRpcPacket object

ASSUME PacketAssumption ==
    /\ Lengths \subseteq Nat
    /\ PointerSize \in Nat \ {0} /\ UintSize \in Nat
    /\ MaxParses \in Nat

VARIABLES
    call, event,  \* the reader's place: the next event, of what the writer's call wrote
    status,       \* "idle", "parsing" or "crashed"
    failed,       \* whether a callback has returned false
    parse_stack,  \* of [type, key], the top last
    object_ptrs,  \* offsets, from index 1 on
    name_id_map,  \* key |-> index into object_ptrs
    bytes, tail_offset,  \* the FixedBuffer: its length is the domain of bytes
    parses        \* the packets parsed so far

vars == <<call, event, status, failed, parse_stack, object_ptrs, name_id_map, bytes,
          tail_offset, parses>>

buffer == <<bytes, tail_offset>>

Zero == <<"zero", 0, 0>>

----------------------------------------------------------------------------
(***************************************************************************)
(* The writer: what each call appends to the text.                         *)
(***************************************************************************)

Token(name, key, value) == [event |-> name, key |-> key, value |-> value]

StartObjectToken == Token("StartObject", "", <<>>)
EndObjectToken == Token("EndObject", "", <<>>)
StartArrayToken == Token("StartArray", "", <<>>)
EndArrayToken == Token("EndArray", "", <<>>)
KeyToken(key) == Token("Key", key, <<>>)
StringToken(value) == Token("String", "", value)
NameToken(key) == Token("String", key, <<>>)
UintToken(number) == Token("Uint", "", number)

Value(kind, i, length) == [k \in 1 .. length |-> <<kind, i, k>>]

\* The items with the header, and with the values of the notes after them.
Items(p) == 0 .. Len(p.items)

Values(p) == 0 .. Len(p.items) + Len(p.notes)

\* The value of an item or note, as it was written.
Sent(p, v) ==
    IF v > Len(p.items)
    THEN Value("note", v - Len(p.items), p.notes[v - Len(p.items)].size)
    ELSE Value("item", v, IF v = 0 THEN p.header
                          ELSE IF p.items[v].number THEN UintSize ELSE p.items[v].size)

KeyOf(p, i) == IF i = 0 THEN "PacketHeader" ELSE p.items[i].key

set_packet_header(value) ==
    <<StartArrayToken, StartObjectToken,
      KeyToken("SegmentType"), UintToken(0),
      KeyToken("PacketHeader"), StringToken(value),
      EndObjectToken>>

\* The first call starts the object and the last one ends it; SINGLE is both.
set_packet_item(key, value, first, last) ==
    SubSeq(<<StartObjectToken, KeyToken("SegmentType"), UintToken(1),
             KeyToken(key), value,
             EndObjectToken>>, IF first THEN 1 ELSE 4, IF last THEN 6 ELSE 5)

set_note_for_ptr(item_key, offset, value, first, last) ==
    SubSeq(<<StartObjectToken, KeyToken("SegmentType"), UintToken(2),
             KeyToken("note_arry"), StartArrayToken,
             StartObjectToken, KeyToken("ptr_key"), NameToken(item_key),
             KeyToken("ptr_offset"), UintToken(offset),
             KeyToken("ptr_val"), StringToken(value), EndObjectToken,
             EndArrayToken, EndObjectToken, EndArrayToken>>,
           IF first THEN 1 ELSE 6, IF last THEN 16 ELSE 13)

\* An item is a string; a number under a key of its own is a packet of another writer.
ItemToken(p, i) ==
    IF p.items[i].number THEN UintToken(i) ELSE StringToken(Sent(p, i))

\* What call c writes: value c - 1.  A packet without notes keeps its array open:
\* the reader reports the end of the text as an error, after all the events.
Text(p) ==
    [c \in 1 .. 1 + Len(p.items) + Len(p.notes) |->
        LET i == c - 1
            j == c - 1 - Len(p.items)
        IN  IF c = 1 THEN set_packet_header(Sent(p, 0))
            ELSE IF i <= Len(p.items)
            THEN set_packet_item(p.items[i].key, ItemToken(p, i), i = 1, i = Len(p.items))
            ELSE set_note_for_ptr(p.notes[j].key, p.notes[j].offset, Sent(p, i),
                                  j = 1, j = Len(p.notes))]

Reserved == {"SegmentType", "PacketHeader", "ptr_key", "ptr_offset", "ptr_val"}

\* A packet as it is meant to be written: keys of its own that differ, and notes
\* for pointers that lie inside an item of the packet and do not overlap.
WellFormed(p) ==
    /\ p.header \in Nat
    /\ p.items \in Seq([key : STRING, size : Nat, number : BOOLEAN])
    /\ p.notes \in Seq([key : STRING, offset : Nat, size : Nat])
    /\ \A i \in 1 .. Len(p.items) : p.items[i].key \notin Reserved
    /\ \A i, k \in 1 .. Len(p.items) : p.items[i].key = p.items[k].key => i = k
    /\ \A j \in 1 .. Len(p.notes) : \E i \in Items(p) :
          /\ p.notes[j].key = KeyOf(p, i)
          /\ p.notes[j].offset + PointerSize <= Len(Sent(p, i))
    /\ \A j, k \in 1 .. Len(p.notes) :
          j # k /\ p.notes[j].key = p.notes[k].key =>
              \/ p.notes[j].offset + PointerSize <= p.notes[k].offset
              \/ p.notes[k].offset + PointerSize <= p.notes[j].offset

ASSUME PacketsAssumption == \A p \in Packets : WellFormed(p)

----------------------------------------------------------------------------
(***************************************************************************)
(* FixedBuffer.                                                            *)
(***************************************************************************)

\* Faulty variant: what does not fit is cut.
put_cut(b, offset, data) ==
    <<[a \in DOMAIN b[1] |->
           IF a - offset \in DOMAIN data THEN data[a - offset] ELSE b[1][a]],
      IF offset + Len(data) > b[2] THEN offset + Len(data) ELSE b[2]>>

\* put: the buffer <<bytes, tail_offset>> afterwards.  Data that does not fit is
\* left out, and nobody looks at the result.
put(b, offset, data) ==
    IF offset + Len(data) > Len(b[1]) THEN b
    ELSE <<[a \in DOMAIN b[1] |->
               IF a - offset \in DOMAIN data THEN data[a - offset] ELSE b[1][a]],
           IF offset + Len(data) > b[2] THEN offset + Len(data) ELSE b[2]>>

append(b, data) == put(b, b[2], data)

get_address(offset) == [k \in 1 .. PointerSize |-> <<"address", offset, k>>]

----------------------------------------------------------------------------
(***************************************************************************)
(* The callbacks.                                                          *)
(***************************************************************************)

Top == parse_stack[Len(parse_stack)]

Popped(n) == SubSeq(parse_stack, 1, Len(parse_stack) - n)

Item(type, key) == [type |-> type, key |-> key]

Packet == parses[Len(parses)]

json == Text(Packet)

Ended == call > Len(json)

token == json[call][event]

Event(name) == status = "parsing" /\ ~Ended /\ token.event = name

Advance ==
    IF event < Len(json[call]) THEN event' = event + 1 /\ UNCHANGED call
    ELSE call' = call + 1 /\ event' = 1

Continue == Advance /\ UNCHANGED <<failed, parses>>

set_buffer(b) == bytes' = b[1] /\ tail_offset' = b[2]

\* Faulty variant: the identifier of a key is kept once it is known.
name_item_once(key) ==
    /\ object_ptrs' = Append(object_ptrs, tail_offset)
    /\ name_id_map' = [k \in DOMAIN name_id_map \cup {key} |->
                           IF k \in DOMAIN name_id_map THEN name_id_map[k] ELSE Len(object_ptrs) + 1]

\* The offset at which a value was appended becomes the item of its key.
name_item(key) ==
    /\ object_ptrs' = Append(object_ptrs, tail_offset)
    /\ name_id_map' = [k \in DOMAIN name_id_map \cup {key} |->
                           IF k = key THEN Len(object_ptrs) + 1 ELSE name_id_map[k]]

StartObject ==
    /\ Event("StartObject")
    /\ parse_stack' = Append(parse_stack, Item("OBJECT", ""))
    /\ Continue
    /\ UNCHANGED <<status, object_ptrs, name_id_map, bytes, tail_offset>>

Key ==
    /\ Event("Key")
    /\ parse_stack' = Append(parse_stack, Item("KEY", token.key))
    /\ Continue
    /\ UNCHANGED <<status, object_ptrs, name_id_map, bytes, tail_offset>>

Uint ==
    /\ Event("Uint")
    /\ Continue
    /\ UNCHANGED status
    /\ \/ /\ Top.key = "ptr_offset"
          /\ parse_stack' = Append(Popped(1), Item("PTR_OFFSET", token.value))
          /\ UNCHANGED <<object_ptrs, name_id_map, bytes, tail_offset>>
       \/ /\ Top.key = "SegmentType"
          /\ parse_stack' = Popped(1)
          /\ UNCHANGED <<object_ptrs, name_id_map, bytes, tail_offset>>
       \/ /\ Top.key \notin {"ptr_offset", "SegmentType"}
          /\ parse_stack' = Popped(1)
          /\ set_buffer(append(buffer, Value("item", token.value, UintSize)))
          /\ name_item(Top.key)

\* Faulty variant: the address is taken after the value is appended.
string_ptr_val_late ==
    LET item_offset == parse_stack[Len(parse_stack) - 1]
        item_key == parse_stack[Len(parse_stack) - 2]
        start_offset == object_ptrs[name_id_map[item_key.key]]
        appended == append(buffer, token.value)
    IN  /\ Top.key = "ptr_val"
        /\ parse_stack' = Popped(3)
        /\ set_buffer(put(appended, start_offset + item_offset.key, get_address(appended[2])))
        /\ UNCHANGED <<object_ptrs, name_id_map>>

\* The value of a note: appended, and its address put into the item.
string_ptr_val ==
    LET item_offset == parse_stack[Len(parse_stack) - 1]
        item_key == parse_stack[Len(parse_stack) - 2]
        start_offset == object_ptrs[name_id_map[item_key.key]]
        appended == append(buffer, token.value)
    IN  /\ Top.key = "ptr_val"
        /\ parse_stack' = Popped(3)
        /\ set_buffer(put(appended, start_offset + item_offset.key, get_address(tail_offset)))
        /\ UNCHANGED <<object_ptrs, name_id_map>>

String ==
    /\ Event("String")
    /\ Continue
    /\ UNCHANGED status
    /\ \/ /\ Top.key = "ptr_key"
          /\ parse_stack' = Append(Popped(1), Item("PTR_KEY", token.key))
          /\ UNCHANGED <<object_ptrs, name_id_map, bytes, tail_offset>>
       \/ string_ptr_val
       \/ /\ Top.key \notin {"ptr_key", "ptr_val"}
          /\ parse_stack' = Popped(1)
          /\ set_buffer(append(buffer, token.value))
          /\ name_item(Top.key)

\* EndObject and EndArray: a callback that returns false ends the parse.
End(name, type) ==
    /\ Event(name)
    /\ parse_stack' = Popped(1)
    /\ failed' = (failed \/ Top.type # type)
    /\ IF Top.type = type THEN Advance ELSE call' = Len(json) + 1 /\ event' = 1
    /\ UNCHANGED <<status, object_ptrs, name_id_map, bytes, tail_offset, parses>>

EndObject == End("EndObject", "OBJECT")

EndArray == End("EndArray", "ARRAY")

\* Faulty variant: the key of the array stays on the stack.
start_array_keeps_key(type) ==
    IF parse_stack = <<>> /\ type = "KEY" THEN status' = "crashed" /\ UNCHANGED parse_stack
    ELSE /\ parse_stack' = Append(parse_stack, Item("ARRAY", ""))
         /\ UNCHANGED status

\* Taking the top of an empty stack away is undefined: deque crashes.
start_array(type) ==
    IF parse_stack = <<>> /\ type = "KEY" THEN status' = "crashed" /\ UNCHANGED parse_stack
    ELSE /\ parse_stack' = Append(IF type = "KEY" THEN Popped(1) ELSE parse_stack,
                                  Item("ARRAY", ""))
         /\ UNCHANGED status

\* item.type is uninitialised when the stack is empty.
StartArray ==
    /\ Event("StartArray")
    /\ \E type \in IF parse_stack = <<>> THEN FreshTypes ELSE {Top.type} : start_array(type)
    /\ Continue
    /\ UNCHANGED <<object_ptrs, name_id_map, bytes, tail_offset>>

----------------------------------------------------------------------------
(***************************************************************************)
(* parse.                                                                  *)
(***************************************************************************)

Init ==
    /\ call = 1 /\ event = 1
    /\ status = "idle"
    /\ parse_stack = <<>>
    /\ object_ptrs = <<>>
    /\ name_id_map = <<>>
    /\ bytes = <<>>
    /\ tail_offset = 0
    /\ parses = <<>>
    /\ failed = FALSE

\* setBuffer clears the buffer; the handler keeps what earlier parses left.
parse(p, length) ==
    /\ status = "idle"
    /\ Len(parses) < MaxParses
    /\ status' = "parsing"
    /\ call' = 1 /\ event' = 1
    /\ bytes' = [a \in 1 .. length |-> Zero]
    /\ tail_offset' = 0
    /\ parses' = Append(parses, p)
    /\ UNCHANGED <<failed, parse_stack, object_ptrs, name_id_map>>

\* The end of parse.
append_tail_offset ==
    /\ status = "parsing" /\ Ended
    /\ status' = "idle"
    /\ object_ptrs' = Append(object_ptrs, tail_offset)
    /\ UNCHANGED <<call, event, failed, parse_stack, name_id_map, bytes, tail_offset, parses>>

Next ==
    \/ \E p \in Packets, length \in Lengths : parse(p, length)
    \/ StartObject \/ Key \/ Uint \/ String \/ EndObject \/ StartArray \/ EndArray
    \/ append_tail_offset

Spec == Init /\ [][Next]_vars

----------------------------------------------------------------------------
(***************************************************************************)
(* Properties.                                                             *)
(***************************************************************************)

Parsed == status = "idle" /\ parses # <<>>

\* get_packet_item_ptr and get_packet_item_size, by key.
item_ptr(key) == object_ptrs[name_id_map[key]]

item_size(key) == object_ptrs[name_id_map[key] + 1] - object_ptrs[name_id_map[key]]

\* Byte k of value v, for every v in vs and every k.
Written(p, vs) == UNION {{v} \X (1 .. Len(Sent(p, v))) : v \in vs}

NoteSizes(p) == Cardinality(Written(p, Values(p) \ Items(p)))

Fits(p) == Cardinality(Written(p, Values(p))) <= Len(bytes)

\* Byte k of the item of key is covered by the address of note n.
Covers(n, key, k) == n.key = key /\ k \in n.offset + 1 .. n.offset + PointerSize

\* From offset on the buffer holds data, except where an address for the item
\* of key was put.
HoldsAt(offset, data, p, key) ==
    \A k \in DOMAIN data :
        \/ offset + k \in DOMAIN bytes /\ bytes[offset + k] = data[k]
        \/ \E j \in DOMAIN p.notes : Covers(p.notes[j], key, k)

\* Once parse has returned, every item is found by its key with the size and
\* the bytes that were written, however many packets the object has parsed
\* before: object_ptrs and name_id_map still hold theirs.  The last item's size
\* reaches over the values of the notes.
ItemsReadBack ==
    Parsed /\ Fits(Packet) =>
        \A i \in Items(Packet) :
            LET key == KeyOf(Packet, i)
            IN  /\ item_size(key) = Len(Sent(Packet, i))
                                    + IF i = Len(Packet.items) THEN NoteSizes(Packet) ELSE 0
                /\ HoldsAt(item_ptr(key), Sent(Packet, i), Packet, key)

\* The pointer that a note describes leads to the value of that note, whatever
\* the order of the notes is.
NotesPointToValues ==
    Parsed /\ Fits(Packet) =>
        \A j \in DOMAIN Packet.notes :
            LET n == Packet.notes[j]
                pointer == bytes[item_ptr(n.key) + n.offset + 1]
            IN  /\ \A k \in 1 .. PointerSize :
                      bytes[item_ptr(n.key) + n.offset + k] = <<"address", pointer[2], k>>
                /\ \A k \in 1 .. n.size : /\ pointer[2] + k \in DOMAIN bytes
                                         /\ bytes[pointer[2] + k] = <<"note", j, k>>

\* In a buffer that is too small an item is there whole or has size 0, and no
\* other item suffers, as long as no note is for an item that was left out.
WholeOrLeftOut ==
    /\ Parsed
    /\ \A j \in DOMAIN Packet.notes : item_size(Packet.notes[j].key) > 0
    => \A i \in Items(Packet) :
          LET key == KeyOf(Packet, i)
          IN  /\ i < Len(Packet.items) => item_size(key) \in {0, Len(Sent(Packet, i))}
              /\ item_size(key) >= Len(Sent(Packet, i))
                 => HoldsAt(item_ptr(key), Sent(Packet, i), Packet, key)

\* Parsing what the writer wrote is never given up by a callback that returns
\* false, and leaves nothing on the stack but the array of each packet without
\* notes: what one parse leaves behind never makes a later one give up.  A parse
\* that ends in a crash, on the empty stack, is outside this property.
StackReturns ==
    /\ ~failed
    /\ Parsed => parse_stack = [i \in 1 .. Cardinality({n \in DOMAIN parses :
                                                          parses[n].notes = <<>>}) |->
                                   Item("ARRAY", "")]

=============================================================================
