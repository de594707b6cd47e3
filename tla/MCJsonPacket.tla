---------------------------- MODULE MCJsonPacket ----------------------------
(***************************************************************************)
(* Packets that reuse keys with other sizes and at other places, with no,  *)
(* one and two notes, and with a number.                                   *)
(***************************************************************************)
EXTENDS JsonPacket

StringItem(key, size) == [key |-> key, size |-> size, number |-> FALSE]

NumberItem(key) == [key |-> key, size |-> 0, number |-> TRUE]

Note(key, offset, size) == [key |-> key, offset |-> offset, size |-> size]

MCPackets ==
    {[header |-> 1, items |-> <<StringItem("a", 3)>>, notes |-> <<Note("a", 1, 2)>>],
     [header |-> 2, items |-> <<StringItem("b", 1), StringItem("a", 4)>>,
      notes |-> <<Note("a", 2, 1), Note("a", 0, 2)>>],
     [header |-> 1, items |-> <<StringItem("a", 3), StringItem("c", 1), StringItem("b", 2)>>,
      notes |-> <<Note("b", 0, 1)>>],
     [header |-> 0, items |-> <<StringItem("b", 2), StringItem("a", 0)>>, notes |-> <<>>],
     [header |-> 1, items |-> <<NumberItem("a"), StringItem("b", 3)>>, notes |-> <<>>]}

=============================================================================
