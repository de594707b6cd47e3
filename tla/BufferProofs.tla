---------------------------- MODULE BufferProofs ----------------------------
(***************************************************************************)
(* What holds of DynamicBuffer for every block size, every number of calls *)
(* and every offset and length.  The arithmetic of check_space and of the  *)
(* tail comes first; the invariant only uses what it says.                 *)
(***************************************************************************)
EXTENDS DynamicBuffer, TLAPS

B == BLOCK_SIZE

----------------------------------------------------------------------------
(***************************************************************************)
(* Arithmetic of blocks.                                                   *)
(***************************************************************************)

\* Quotient and remainder.
LEMMA DivMod ==
    ASSUME NEW p \in Nat, NEW b \in Nat \ {0}
    PROVE  /\ p % b \in 0 .. b - 1
           /\ p \div b \in Nat
           /\ p = b * (p \div b) + (p % b)
OBVIOUS

\* Multiples keep the order.
LEMMA Multiples ==
    ASSUME NEW m \in Nat, NEW n \in Nat, NEW b \in Nat, m < n
    PROVE  /\ m * b \in Nat
           /\ n * b \in Nat
           /\ m * b + b <= n * b
<1>1. PICK k \in Nat : n = m + 1 + k
  <2>1. n - m - 1 \in Nat /\ n = m + 1 + (n - m - 1)
    OBVIOUS
  <2> QED
    BY <2>1
<1>2. n * b = m * b + b + k * b
  BY <1>1
<1>3. k * b \in Nat /\ m * b \in Nat /\ n * b \in Nat
  OBVIOUS
<1> QED
  BY <1>2, <1>3

\* A number that is written with a rest below the divisor has this rest.
LEMMA RestIsUnique ==
    ASSUME NEW b \in Nat \ {0}, NEW q \in Nat, NEW x \in 0 .. b - 1
    PROVE  (q * b + x) % b = x
<1> DEFINE p == q * b + x
           s == p \div b
           r == p % b
<1>1. p \in Nat
  OBVIOUS
<1>2. r \in 0 .. b - 1 /\ s \in Nat /\ p = b * s + r
  BY <1>1, DivMod
<1>3. p = q * b + x
  OBVIOUS
<1> HIDE DEF p, s, r
<1>4. ASSUME s < q PROVE FALSE
  <2>1. s * b \in Nat /\ q * b \in Nat /\ s * b + b <= q * b
    BY <1>2, <1>4, Multiples
  <2> QED
    BY <1>2, <1>3, <2>1
<1>5. ASSUME q < s PROVE FALSE
  <2>1. s * b \in Nat /\ q * b \in Nat /\ q * b + b <= s * b
    BY <1>2, <1>5, Multiples
  <2> QED
    BY <1>2, <1>3, <2>1
<1>6. s = q
  BY <1>2, <1>4, <1>5
<1>7. r = x
  BY <1>2, <1>3, <1>6
<1> QED
  BY <1>7 DEF r, p

\* End E lies in the last of count blocks.
EndsIn(count, E) == /\ count \in Nat \ {0}
                    /\ (count - 1) * B < E
                    /\ E <= count * B

\* check_space leaves the blocks alone when they suffice, and otherwise adds as
\* many as the end of the data requires and not one more.
LEMMA BlockCount ==
    ASSUME blocks \in Nat, NEW offset \in Nat, NEW length \in Nat
    PROVE  /\ check_space(offset, length) \in Nat
           /\ offset + length <= blocks * B =>
                  check_space(offset, length) = blocks
           /\ offset + length > blocks * B =>
                  /\ check_space(offset, length) > blocks
                  /\ EndsIn(check_space(offset, length), offset + length)
<1> DEFINE E == offset + length
           require == E - blocks * B
           q == require \div B
           r == require % B
           count == check_space(offset, length)
<1>1. B \in Nat \ {0} /\ E \in Nat /\ blocks * B \in Nat
  BY BufferAssumption DEF B
<1>2. CASE E <= blocks * B
  <2>1. count = blocks
    BY <1>1, <1>2 DEF check_space, capacity, B
  <2> QED
    BY <1>1, <1>2, <2>1
<1>3. CASE E > blocks * B
  <2>1. require \in Nat \ {0}
    BY <1>1, <1>3
  <2>2. r \in 0 .. B - 1 /\ q \in Nat /\ require = B * q + r
    BY <1>1, <2>1, DivMod
  <2>3. count = IF r = 0 THEN blocks + q ELSE blocks + q + 1
    BY <1>1, <2>1 DEF check_space, capacity, B
  <2>4. E = blocks * B + require
    BY <1>1
  <2> HIDE DEF E, require, q, r, count
  <2>5. (blocks + q) * B = blocks * B + q * B
    BY <1>1, <2>2
  <2>6. CASE r = 0
    <3>1. q # 0
      BY <1>1, <2>1, <2>2, <2>6
    <3>2. (blocks + q - 1) * B = blocks * B + q * B - B
      BY <1>1, <2>2
    <3> QED
      BY <1>1, <2>1, <2>2, <2>3, <2>4, <2>5, <2>6, <3>1, <3>2, <1>3 DEF EndsIn, E, count
  <2>7. CASE r # 0
    <3>1. (blocks + q + 1) * B = blocks * B + q * B + B
      BY <1>1, <2>2
    <3> QED
      BY <1>1, <2>1, <2>2, <2>3, <2>4, <2>5, <2>7, <3>1, <1>3 DEF EndsIn, E, count
  <2> QED
    BY <2>6, <2>7
<1> QED
  BY <1>1, <1>2, <1>3

\* The tail that put leaves makes size() the end of the data.
LEMMA TailIsEnd ==
    ASSUME NEW count, NEW offset \in Nat, NEW length \in Nat, EndsIn(count, offset + length)
    PROVE  /\ put_end(offset, length) \in 1 .. B
           /\ size(count, put_end(offset, length)) = offset + length
<1> DEFINE E == offset + length
           x == E - 1 - (count - 1) * B
<1>1. B \in Nat \ {0} /\ E \in Nat /\ count \in Nat \ {0}
  BY BufferAssumption DEF B, EndsIn
<1>2. (count - 1) * B \in Nat /\ count * B = (count - 1) * B + B
  BY <1>1
<1>3. (count - 1) * B < E /\ E <= count * B
  BY DEF EndsIn
<1>4. x \in 0 .. B - 1 /\ E - 1 = (count - 1) * B + x
  BY <1>1, <1>2, <1>3
<1>5. (E - 1) % B = x
  <2>1. count - 1 \in Nat
    BY <1>1
  <2> HIDE DEF x, E
  <2>2. ((count - 1) * B + x) % B = x
    BY <1>1, <1>4, <2>1, RestIsUnique
  <2> QED
    BY <1>4, <2>2
<1>6. put_end(offset, length) = x + 1
  BY <1>5 DEF put_end, B
<1>7. size(count, x + 1) = (count - 1) * B + x + 1
  BY <1>1, <1>4 DEF size, B
<1> QED
  BY <1>1, <1>2, <1>4, <1>6, <1>7

----------------------------------------------------------------------------
(***************************************************************************)
(* The invariant.                                                          *)
(***************************************************************************)

\* What is recorded of the calls.
Recorded ==
    /\ calls \in Nat
    /\ cleared \in Nat
    /\ written \subseteq [call : 1 .. calls, offset : Nat, size : Nat]

\* Byte k of w lies in the block in which w begins, and no later call wrote there.
Untouched(w, k) ==
    /\ k < w.size
    /\ (w.offset + k) \div B = w.offset \div B
    /\ \A v \in written : v.call > w.call => w.offset + k \notin v.offset .. End(v) - 1

\* Such a byte is in memory.
FirstBlockKept ==
    \A w \in written, k \in 0 .. B - 1 :
        Untouched(w, k) => memory[w.offset + k] = <<w.call, k>>

BufferInv ==
    /\ TypeOK
    /\ Recorded
    /\ SizeCovers
    /\ GapBelowBlock
    /\ FirstBlockKept

\* size() is a number.
LEMMA SizeIsNat ==
    ASSUME NEW count \in Nat, NEW tail \in Nat
    PROVE  /\ size(count, tail) \in Nat
           /\ capacity(count) = count * B
           /\ count > 0 => size(count, tail) = (count - 1) * B + tail
           /\ count = 0 => size(count, tail) = tail
           /\ count > 0 => count * B = (count - 1) * B + B /\ (count - 1) * B \in Nat
<1>1. B \in Nat \ {0}
  BY BufferAssumption DEF B
<1>2. count > 0 => (count - 1) * B \in Nat
  BY <1>1
<1>3. 0 * B = 0
  BY <1>1
<1> QED
  BY <1>1, <1>2, <1>3 DEF size, capacity, B

\* Whatever put does to the blocks and to the tail, size() does not shrink, it
\* reaches the end of the data, and it passes it by less than a block.
LEMMA PutSize ==
    ASSUME TypeOK, NEW offset \in Nat, NEW length \in Nat, put(offset, length)
    PROVE  /\ TypeOK'
           /\ Size \in Nat
           /\ Size' \in Nat
           /\ Size <= Size'
           /\ length > 0 => offset + length <= Size'
           /\ Size' = Size \/ Size' - (offset + length) < B
           /\ capacity(blocks) <= capacity(blocks')
<1> DEFINE E == offset + length
           count == check_space(offset, length)
           tail == tail_offset_in_block
<1>1. /\ B \in Nat \ {0} /\ E \in Nat /\ blocks \in Nat
      /\ tail \in Nat /\ tail <= B
      /\ Size <= blocks * B
  BY BufferAssumption DEF B, TypeOK, capacity
<1>2. /\ count \in Nat
      /\ E <= blocks * B => count = blocks
      /\ E > blocks * B => count > blocks /\ EndsIn(count, E)
  BY <1>1, BlockCount
<1>3. blocks' = count /\ tail_offset_in_block' = new_tail(count, offset, length)
  BY DEF put
<1>4. DOMAIN memory' = 0 .. capacity(count) - 1
  BY DEF put, put_loop, Extended
<1>5. new_tail(count, offset, length) =
          IF length > 0 /\ E > size(count, tail) THEN put_end(offset, length) ELSE tail
  BY DEF new_tail
<1>6. Size = size(blocks, tail) /\ Size' = size(count, new_tail(count, offset, length))
  BY <1>3 DEF Size
<1> HIDE DEF count
<1>7. /\ Size \in Nat
      /\ size(count, tail) \in Nat
      /\ capacity(blocks) = blocks * B
      /\ capacity(count) = count * B
      /\ blocks * B \in Nat
      /\ count * B \in Nat
  BY <1>1, <1>2, <1>6, SizeIsNat
\* It is enough to look at the new count and the new tail.
<1>8. ASSUME NEW s, new_tail(count, offset, length) = s, s \in 0 .. B,
             size(count, s) \in Nat, size(count, s) <= count * B, Size <= size(count, s),
             length > 0 => E <= size(count, s),
             size(count, s) = Size \/ size(count, s) - E < B,
             blocks * B <= count * B
      PROVE  /\ TypeOK'
             /\ Size \in Nat
             /\ Size' \in Nat
             /\ Size <= Size'
             /\ length > 0 => offset + length <= Size'
             /\ Size' = Size \/ Size' - (offset + length) < B
             /\ capacity(blocks) <= capacity(blocks')
  <2>1. Size' = size(count, s)
    BY <1>6, <1>8
  <2>2. TypeOK'
    BY <1>2, <1>3, <1>4, <1>7, <1>8, <2>1 DEF TypeOK, B
  <2> QED
    BY <1>3, <1>7, <1>8, <2>1, <2>2
<1>9. CASE E <= blocks * B
  <2>1. count = blocks
    BY <1>2, <1>9
  <2>2. CASE length > 0 /\ E > Size
    <3>1. blocks > 0
      BY <1>1, <1>9, <2>2, SizeIsNat DEF E
    <3>2. EndsIn(blocks, E)
      <4>1. Size = (blocks - 1) * B + tail /\ (blocks - 1) * B \in Nat
        BY <1>1, <1>6, <3>1, SizeIsNat
      <4> QED
        BY <1>1, <1>9, <2>2, <3>1, <4>1 DEF EndsIn
    <3>3. put_end(offset, length) \in 1 .. B /\ size(blocks, put_end(offset, length)) = E
      BY <3>2, TailIsEnd
    <3>4. new_tail(count, offset, length) = put_end(offset, length)
      BY <1>5, <1>6, <2>1, <2>2
    <3> HIDE DEF E
    <3> QED
      BY <1>1, <1>7, <1>8, <1>9, <2>1, <2>2, <3>3, <3>4
  <2>3. CASE ~(length > 0 /\ E > Size)
    <3>1. new_tail(count, offset, length) = tail
      BY <1>5, <1>6, <2>1, <2>3
    <3> HIDE DEF E
    <3> QED
      BY <1>1, <1>6, <1>7, <1>8, <2>1, <2>3, <3>1
  <2> QED
    BY <2>2, <2>3
<1>10. CASE E > blocks * B
  <2>1. count > blocks /\ EndsIn(count, E)
    BY <1>2, <1>10
  <2>2. blocks * B <= (count - 1) * B /\ (count - 1) * B \in Nat
    <3>1. blocks * B + B <= count * B
      BY <1>1, <1>2, <2>1, Multiples
    <3>2. count * B = (count - 1) * B + B
      BY <1>1, <1>2
    <3>3. (count - 1) * B \in Nat
      BY <1>1, <1>2, <2>1
    <3> QED
      BY <1>1, <1>7, <3>1, <3>2, <3>3
  <2>3. (count - 1) * B < E /\ E <= count * B /\ count * B = (count - 1) * B + B
    BY <1>1, <1>2, <2>1 DEF EndsIn
  <2>4. CASE length > 0 /\ E > size(count, tail)
    <3>1. put_end(offset, length) \in 1 .. B /\ size(count, put_end(offset, length)) = E
      BY <2>1, TailIsEnd
    <3>2. new_tail(count, offset, length) = put_end(offset, length)
      BY <1>5, <2>4
    <3> HIDE DEF E
    <3> QED
      BY <1>1, <1>7, <1>8, <1>10, <2>2, <2>3, <3>1, <3>2
  <2>5. CASE ~(length > 0 /\ E > size(count, tail))
    <3>1. new_tail(count, offset, length) = tail
      BY <1>5, <2>5
    <3>2. size(count, tail) = (count - 1) * B + tail
      BY <1>1, <1>2, <2>1, SizeIsNat
    <3> HIDE DEF E
    <3> QED
      BY <1>1, <1>7, <1>8, <2>2, <2>3, <2>5, <3>1, <3>2
  <2> QED
    BY <2>4, <2>5
<1> QED
  BY <1>1, <1>7, <1>9, <1>10

\* And so is capacity().
LEMMA CapacityIsNat == ASSUME NEW count \in Nat PROVE capacity(count) \in Nat
BY BufferAssumption DEF capacity

\* put, and with it append, keeps the invariant.
LEMMA PutInv ==
    ASSUME BufferInv, NEW offset \in Nat, NEW length \in Nat, put(offset, length)
    PROVE  BufferInv'
<1> DEFINE w0 == [call |-> calls + 1, offset |-> offset, size |-> length]
           E == offset + length
<1>1. /\ TypeOK'
      /\ Size \in Nat
      /\ Size' \in Nat
      /\ Size <= Size'
      /\ length > 0 => E <= Size'
      /\ Size' = Size \/ Size' - E < B
      /\ capacity(blocks) <= capacity(blocks')
  BY PutSize DEF BufferInv
<1>2. /\ calls \in Nat
      /\ cleared \in Nat /\ cleared' = cleared
      /\ calls' = calls + 1
      /\ written' = written \cup {w0}
      /\ \A w \in written : w.call \in 1 .. calls /\ w.offset \in Nat /\ w.size \in Nat
      /\ w0.call = calls + 1 /\ w0.offset = offset /\ w0.size = length
  BY DEF BufferInv, Recorded, put
<1>3. Recorded'
  <2>1. w0 \in [call : 1 .. calls', offset : Nat, size : Nat]
    BY <1>2
  <2>2. written \subseteq [call : 1 .. calls', offset : Nat, size : Nat]
    BY <1>2 DEF BufferInv, Recorded
  <2> HIDE DEF w0
  <2> QED
    BY <1>2, <2>1, <2>2 DEF Recorded
<1> HIDE DEF w0
<1>4. SizeCovers'
  <2>1. ASSUME NEW w \in written, w.size > 0 PROVE End(w) <= Size'
    <3>1. End(w) <= Size /\ End(w) \in Nat
      BY <1>2, <2>1 DEF BufferInv, SizeCovers, End
    <3> QED
      BY <1>1, <3>1
  <2>2. w0.size > 0 => End(w0) <= Size'
    BY <1>1, <1>2 DEF End
  <2> QED
    BY <1>2, <2>1, <2>2 DEF SizeCovers, End
<1>5. GapBelowBlock'
  <2>1. CASE Size' = Size
    BY <1>2, <2>1 DEF BufferInv, GapBelowBlock, End
  <2>2. CASE Size' - E < B
    <3>1. Size' - End(w0) < BLOCK_SIZE
      BY <1>2, <2>2 DEF End, B
    <3> QED
      BY <1>2, <3>1 DEF GapBelowBlock, End
  <2> QED
    BY <1>1, <2>1, <2>2
<1>6. FirstBlockKept'
  <2> SUFFICES ASSUME NEW w \in written', NEW k \in 0 .. B - 1, Untouched(w, k)'
               PROVE  memory'[w.offset + k] = <<w.call, k>>
    BY DEF FirstBlockKept, B
  <2> DEFINE a == w.offset + k
             count == check_space(offset, length)
  <2>1. /\ w.call \in Nat /\ w.offset \in Nat /\ w.size \in Nat /\ k \in Nat
        /\ a \in Nat
        /\ k < w.size
        /\ a \div B = w.offset \div B
    BY <1>2, BufferAssumption DEF Untouched, B
  <2>2. a < capacity(blocks') /\ capacity(blocks') \in Nat
    <3>1. a < End(w) /\ End(w) \in Nat
      BY <2>1 DEF End
    <3>2. End(w) <= Size'
      BY <1>4, <2>1 DEF SizeCovers, End
    <3>3. Size' <= capacity(blocks') /\ capacity(blocks') \in Nat
      <4>1. blocks' \in Nat
        BY <1>1 DEF TypeOK
      <4>2. capacity(blocks') \in Nat
        BY <4>1, CapacityIsNat
      <4> QED
        BY <1>1, <4>2 DEF TypeOK, capacity
    <3> HIDE DEF a
    <3> QED
      BY <1>1, <2>1, <3>1, <3>2, <3>3
  <2>3. /\ memory' = put_loop(Extended(count), offset, length, calls + 1)
        /\ blocks' = count
        /\ DOMAIN memory = 0 .. capacity(blocks) - 1
    BY DEF put, BufferInv, TypeOK
  <2>4. a \in DOMAIN Extended(count)
    <3>1. DOMAIN Extended(count) = 0 .. capacity(blocks') - 1
      BY <2>3 DEF Extended
    <3> HIDE DEF a, count
    <3> QED
      BY <2>1, <2>2, <3>1
  <2>5. memory'[a] = IF a \notin offset .. offset + length - 1 THEN Extended(count)[a]
                     ELSE IF a \div B = offset \div B THEN <<calls + 1, a - offset>>
                     ELSE <<calls + 1, a % B>>
    <3> HIDE DEF a, count
    <3> QED
      BY <2>3, <2>4 DEF put_loop, B
  <2>6. CASE w = w0
    <3>1. w.offset = offset /\ w.call = calls + 1 /\ w.size = length
      BY <1>2, <2>6
    <3>2. a \in offset .. offset + length - 1 /\ a - offset = k
      BY <2>1, <3>1
    <3> HIDE DEF a, count
    <3> QED
      BY <2>1, <2>5, <3>1, <3>2 DEF a
  <2>7. CASE w # w0
    <3>1. w \in written
      BY <1>2, <2>7
    <3>2. a \notin offset .. offset + length - 1
      <4>1. w0.call > w.call /\ w0 \in written'
        BY <1>2, <3>1
      <4>2. a \notin w0.offset .. End(w0) - 1
        BY <4>1 DEF Untouched, End
      <4> QED
        BY <1>2, <4>2 DEF End
    <3>3. a \in DOMAIN memory
      <4>1. a < End(w) /\ End(w) \in Nat
        BY <2>1 DEF End
      <4>2. End(w) <= Size /\ Size <= capacity(blocks)
        BY <2>1, <3>1 DEF BufferInv, SizeCovers, TypeOK
      <4>3. capacity(blocks) \in Nat
        BY BufferAssumption DEF BufferInv, TypeOK, capacity
      <4> HIDE DEF a
      <4> QED
        BY <1>1, <2>1, <2>3, <4>1, <4>2, <4>3
    <3>4. Extended(count)[a] = memory[a]
      <4> HIDE DEF a, count
      <4> QED
        BY <2>4, <3>3 DEF Extended
    <3>5. Untouched(w, k)
      <4>1. \A v \in written : v \in written'
        BY <1>2
      <4> QED
        BY <4>1 DEF Untouched, End, B
    <3>6. memory[a] = <<w.call, k>>
      BY <3>1, <3>5 DEF BufferInv, FirstBlockKept
    <3> HIDE DEF a, count
    <3>7. memory'[a] = <<w.call, k>>
      BY <2>5, <3>2, <3>4, <3>6
    <3> QED
      BY <3>7 DEF a
  <2> QED
    BY <2>6, <2>7
<1> QED
  BY <1>1, <1>3, <1>4, <1>5, <1>6 DEF BufferInv

\* clear and destory leave no calls to speak of.
LEMMA ClearInv ==
    ASSUME BufferInv, clear \/ destory
    PROVE  BufferInv'
<1>1. B \in Nat \ {0} /\ blocks \in Nat /\ calls \in Nat
  BY BufferAssumption DEF B, BufferInv, TypeOK, Recorded
<1>2. /\ written' = {} /\ calls' = calls + 1
      /\ tail_offset_in_block' = 0
      /\ blocks' \in Nat
      /\ cleared' = size(blocks', 0)
      /\ DOMAIN memory' = 0 .. capacity(blocks') - 1
  <2>1. CASE clear
    BY <1>1, <2>1 DEF clear, BufferInv, TypeOK
  <2>2. CASE destory
    <3>1. size(0, 0) = 0
      BY <1>1, SizeIsNat
    <3>2. DOMAIN <<>> = 0 .. capacity(0) - 1
      <4>1. capacity(0) = 0
        BY <1>1 DEF capacity, B
      <4> QED
        BY <4>1
    <3> QED
      BY <1>1, <2>2, <3>1, <3>2 DEF destory
  <2> QED
    BY <2>1, <2>2
<1>3. Size' = size(blocks', 0) /\ size(blocks', 0) \in Nat /\ size(blocks', 0) <= capacity(blocks')
  <2>1. /\ size(blocks', 0) \in Nat
        /\ capacity(blocks') = blocks' * B
        /\ blocks' > 0 => size(blocks', 0) = (blocks' - 1) * B + 0
        /\ blocks' = 0 => size(blocks', 0) = 0
        /\ blocks' > 0 => blocks' * B = (blocks' - 1) * B + B /\ (blocks' - 1) * B \in Nat
    BY <1>2, SizeIsNat
  <2>2. blocks' = 0 => blocks' * B = 0
    BY <1>1
  <2> QED
    BY <1>1, <1>2, <2>1, <2>2 DEF Size
<1>4. TypeOK'
  BY <1>1, <1>2, <1>3 DEF TypeOK, B
<1>5. Recorded'
  BY <1>1, <1>2, <1>3 DEF Recorded
<1>6. GapBelowBlock'
  BY <1>1, <1>2, <1>3 DEF GapBelowBlock, B
<1>7. SizeCovers' /\ FirstBlockKept'
  BY <1>2 DEF SizeCovers, FirstBlockKept
<1> QED
  BY <1>4, <1>5, <1>6, <1>7 DEF BufferInv

\* A new buffer.
LEMMA InitInv == Init => BufferInv
<1> SUFFICES ASSUME Init PROVE BufferInv
  OBVIOUS
<1>1. B \in Nat \ {0}
  BY BufferAssumption DEF B
<1>2. size(0, 0) = 0 /\ capacity(0) = 0
  <2>1. 0 * B = 0
    BY <1>1
  <2> QED
    BY <2>1, SizeIsNat
<1>3. TypeOK
  BY <1>1, <1>2 DEF Init, TypeOK, Size, B
<1>4. Recorded /\ SizeCovers /\ FirstBlockKept
  BY DEF Init, Recorded, SizeCovers, FirstBlockKept
<1>5. GapBelowBlock
  BY <1>1, <1>2 DEF Init, GapBelowBlock, Size, B
<1> QED
  BY <1>3, <1>4, <1>5 DEF BufferInv

\* The invariant holds in every state of a DynamicBuffer.
THEOREM Invariance == Spec => []BufferInv
<1>1. BufferInv /\ [Next]_vars => BufferInv'
  <2> SUFFICES ASSUME BufferInv, [Next]_vars PROVE BufferInv'
    OBVIOUS
  <2>1. CASE \E offset \in 0 .. MaxOffset, length \in Sizes : put(offset, length)
    BY <2>1, PutInv, BufferAssumption
  <2>2. CASE \E length \in Sizes : append(length)
    <3>1. size(blocks, tail_offset_in_block) \in Nat
      BY SizeIsNat DEF BufferInv, TypeOK
    <3> QED
      BY <2>2, <3>1, PutInv, BufferAssumption DEF append
  <2>3. CASE clear \/ destory
    BY <2>3, ClearInv
  <2>4. CASE UNCHANGED vars
    BY <2>4 DEF vars, BufferInv, TypeOK, Recorded, SizeCovers, GapBelowBlock, FirstBlockKept,
                Untouched, Size, End
  <2> QED
    BY <2>1, <2>2, <2>3, <2>4 DEF Next
<1> QED
  BY <1>1, InitInv, PTL DEF Spec

\* The blocks hold what size() and the tail say.
THEOREM TypeCorrect == Spec => []TypeOK
<1>1. BufferInv => TypeOK
  BY DEF BufferInv
<1> QED
  BY <1>1, Invariance, PTL

\* No byte that was written lies behind size(), so append overwrites nothing,
\* whatever the block size and however the calls are mixed.
THEOREM AppendsBehind == Spec => []SizeCovers
<1>1. BufferInv => SizeCovers
  BY DEF BufferInv
<1> QED
  BY <1>1, Invariance, PTL

\* The part of a block that size() counts without a byte in it never adds up:
\* size() is less than a block behind the end of some call's data, or than it
\* was when clear returned.
THEOREM GapBounded == Spec => []GapBelowBlock
<1>1. BufferInv => GapBelowBlock
  BY DEF BufferInv
<1> QED
  BY <1>1, Invariance, PTL

\* get returns the bytes of a call that lie in its first block, as long as no
\* later call writes there.
THEOREM ReadsBack == Spec => []FirstBlockReadsBack
<1>1. BufferInv => FirstBlockReadsBack
  <2> SUFFICES ASSUME BufferInv, NEW w \in written, NEW k \in 0 .. B - 1, Untouched(w, k)
               PROVE  get(w.offset, k + 1)[k] = <<w.call, k>>
    BY DEF FirstBlockReadsBack, Untouched, B
  <2>1. w.offset \in Nat /\ w.size \in Nat /\ k \in Nat /\ k < w.size
    BY BufferAssumption DEF BufferInv, Recorded, Untouched, B
  <2>2. memory[w.offset + k] = <<w.call, k>>
    BY DEF BufferInv, FirstBlockKept
  <2>3. ~(w.offset + (k + 1) > capacity(blocks))
    <3>1. End(w) <= Size /\ Size <= capacity(blocks)
      BY <2>1 DEF BufferInv, SizeCovers, TypeOK
    <3>2. Size \in Nat
      BY SizeIsNat DEF BufferInv, TypeOK, Size
    <3>3. capacity(blocks) \in Nat
      BY BufferAssumption DEF BufferInv, TypeOK, capacity
    <3> QED
      BY <2>1, <3>1, <3>2, <3>3 DEF End
  <2>4. get(w.offset, k + 1)[k] = memory[w.offset + k]
    BY <2>1, <2>3 DEF get
  <2> QED
    BY <2>2, <2>4
<1> QED
  BY <1>1, Invariance, PTL

=============================================================================
