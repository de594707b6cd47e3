--------------------------- MODULE DynamicBuffer ---------------------------
(***************************************************************************)
(* DynamicBuffer: bytes in a list of blocks of BLOCK_SIZE.  The end of the *)
(* data is not stored: size() counts every block but the last as full and  *)
(* adds tail_offset_in_block.                                              *)
(*                                                                         *)
(* Byte k of the n-th call's data is <<n, k>>; Zero is a byte of a fresh   *)
(* or cleared block.  memory holds the blocks one after the other, from    *)
(* address 0.                                                              *)
(***************************************************************************)
EXTENDS Integers, Sequences

CONSTANTS
    BLOCK_SIZE,  \* 1024 in the code
    Sizes,       \* sizes of the data of a call
    MaxCalls,    \* bound: calls of put, append and clear
    MaxOffset,   \* bound: the offsets of put
    Zero

ASSUME BufferAssumption ==
    /\ BLOCK_SIZE \in Nat \ {0}
    /\ Sizes \subseteq Nat
    /\ MaxCalls \in Nat
    /\ MaxOffset \in Nat

VARIABLES
    blocks,                \* blocks_list.size()
    tail_offset_in_block,
    memory,                \* memory[a]: the byte at address a
    calls,                 \* calls so far
    written,               \* the calls since clear: [call, offset, size]
    cleared                \* size() when clear returned

vars == <<blocks, tail_offset_in_block, memory, calls, written, cleared>>

\* DynamicBuffer().
Init ==
    /\ blocks = 0
    /\ tail_offset_in_block = 0
    /\ memory = <<>>
    /\ calls = 0
    /\ written = {}
    /\ cleared = 0

capacity(count) == count * BLOCK_SIZE

size(count, tail) == (IF count > 0 THEN count - 1 ELSE 0) * BLOCK_SIZE + tail

\* Faulty variants: a block more than required; the blocks there are forgotten.
check_space_generous(offset, length) == blocks + (offset + length) \div BLOCK_SIZE + 1

check_space_absolute(offset, length) ==
    IF offset + length > capacity(blocks)
    THEN (offset + length - 1) \div BLOCK_SIZE
    ELSE blocks

\* check_space with expand and add_blocks: the number of blocks afterwards.
check_space(offset, length) ==
    LET require == offset + length - capacity(blocks)
    IN  IF require <= 0 THEN blocks
        ELSE IF require % BLOCK_SIZE = 0 THEN blocks + require \div BLOCK_SIZE
        ELSE blocks + require \div BLOCK_SIZE + 1

\* Faulty variant: enlarging clears the whole buffer.
Extended_cleared(count) == [a \in 0 .. capacity(count) - 1 |-> Zero]

\* add_blocks: new blocks are zero.
Extended(count) ==
    [a \in 0 .. capacity(count) - 1 |-> IF a \in DOMAIN memory THEN memory[a] ELSE Zero]

\* The while loop of put, block by block.  The data pointer is not advanced:
\* every further block gets the data from its beginning again.
put_loop(bytes, offset, length, data) ==
    [a \in DOMAIN bytes |->
        IF a \notin offset .. offset + length - 1 THEN bytes[a]
        ELSE IF a \div BLOCK_SIZE = offset \div BLOCK_SIZE THEN <<data, a - offset>>
        ELSE <<data, a % BLOCK_SIZE>>]

\* offset + size in the last turn of the loop: at the end of a block it is
\* BLOCK_SIZE, not 0.
put_end(offset, length) == ((offset + length - 1) % BLOCK_SIZE) + 1

\* Faulty variant: the tail follows every put.
tail_always(count, offset, length) ==
    IF length > 0 THEN put_end(offset, length) ELSE tail_offset_in_block

\* The tail is set when the data ends after size(), which is compared when the
\* blocks have already been added.
new_tail(count, offset, length) ==
    IF length > 0 /\ offset + length > size(count, tail_offset_in_block)
    THEN put_end(offset, length)
    ELSE tail_offset_in_block

put(offset, length) ==
    LET count == check_space(offset, length)
    IN  /\ calls < MaxCalls
        /\ calls' = calls + 1
        /\ blocks' = count
        /\ tail_offset_in_block' = new_tail(count, offset, length)
        /\ memory' = put_loop(Extended(count), offset, length, calls + 1)
        /\ written' = written \cup {[call |-> calls + 1, offset |-> offset, size |-> length]}
        /\ UNCHANGED cleared

\* get: whole or not at all.
get(offset, length) ==
    IF offset + length > capacity(blocks) THEN Zero
    ELSE [k \in 0 .. length - 1 |-> memory[offset + k]]

append(length) == put(size(blocks, tail_offset_in_block), length)

\* clear keeps the blocks, so that size() is not 0 when there are two.
clear ==
    /\ calls < MaxCalls
    /\ calls' = calls + 1
    /\ memory' = [a \in DOMAIN memory |-> Zero]
    /\ tail_offset_in_block' = 0
    /\ written' = {}
    /\ cleared' = size(blocks, 0)
    /\ UNCHANGED blocks

destory ==
    /\ calls < MaxCalls
    /\ calls' = calls + 1
    /\ blocks' = 0
    /\ memory' = <<>>
    /\ tail_offset_in_block' = 0
    /\ written' = {}
    /\ cleared' = 0

Next ==
    \/ \E offset \in 0 .. MaxOffset, length \in Sizes : put(offset, length)
    \/ \E length \in Sizes : append(length)
    \/ clear
    \/ destory

Spec == Init /\ [][Next]_vars

----------------------------------------------------------------------------
(***************************************************************************)
(* Properties.                                                             *)
(***************************************************************************)

Size == size(blocks, tail_offset_in_block)

End(w) == w.offset + w.size

\* The blocks hold what size() and the tail say.
TypeOK ==
    /\ blocks \in Nat
    /\ tail_offset_in_block \in 0 .. BLOCK_SIZE
    /\ DOMAIN memory = 0 .. capacity(blocks) - 1
    /\ Size <= capacity(blocks)

\* Every byte written is below size(), however put, append and clear are mixed:
\* the next append returns an offset behind everything, and destroys nothing.
SizeCovers == \A w \in written : w.size > 0 => End(w) <= Size

\* size() is too large by less than a block: the tail that put leaves behind
\* when it has added blocks wastes part of one block, never more.  What clear
\* leaves below size(), as it keeps the blocks, is excused: cleared is the
\* size() that the last clear left.
GapBelowBlock ==
    \/ Size - cleared < BLOCK_SIZE
    \/ \E w \in written : Size - End(w) < BLOCK_SIZE

\* get returns what put and append stored, up to the end of the block in which
\* the call's data begins, unless a later call wrote there: enlarging the buffer
\* moves and clears nothing.
FirstBlockReadsBack ==
    \A w \in written, k \in 0 .. BLOCK_SIZE - 1 :
        LET a == w.offset + k
        IN  /\ k < w.size
            /\ a \div BLOCK_SIZE = w.offset \div BLOCK_SIZE
            /\ \A v \in written : v.call > w.call => a \notin v.offset .. End(v) - 1
            => get(w.offset, k + 1)[k] = <<w.call, k>>

=============================================================================
