---------------------------- MODULE FrameStream ----------------------------
(***************************************************************************)
(* Frames on one connection of LibeventHandle.  writeBufferOnce writes a   *)
(* BufferControlBlock with the size and then the data; the bytes arrive in *)
(* pieces; on the other side either the event loop's read callback takes   *)
(* whole frames (recive_str_NoWait, called by the message layer) or        *)
(* application threads wait for them (recive_str_Wait, wait_recive).       *)
(*                                                                         *)
(* Byte k of the i-th frame is <<i, k>>: the header comes first.  The      *)
(* bytes a header consists of stand for the size written in it; any other  *)
(* bytes read as a header give an arbitrary size.                          *)
(*                                                                         *)
(* Nothing keeps two senders apart, nor two waiters, and a new connection  *)
(* may start with a cached block that nobody read: garbled records that    *)
(* one of these happened, or that the data of a frame was never written.   *)
(*                                                                         *)
(* libevent's part, a stream of bytes and an input buffer with a low       *)
(* watermark, is external.  rw_w_lock never blocks here: on the write      *)
(* signal there are only writers, on the read signal the event loop or the *)
(* waiting threads (RWSignal has the accesses one by one).                 *)
(***************************************************************************)
EXTENDS Integers, Sequences, FiniteSets

CONSTANTS
    Senders,      \* threads that call send on the connection
    Waiters,      \* threads that call recive_str_Wait on the other side
    Messages,     \* what is sent: [size, known], known by the receiver's config
    HeaderSize,   \* sizeof(BufferControlBlock)
    FreshCache,   \* the values cache_block may have in a new BevInfor
    MaxFrames,    \* bound: frames sent
    Idle          \* the sender is not in writeBufferOnce

\* The data of a message is longer than a control block: it starts with an
\* EventMessageCursor of six words.
ASSUME MessagesAssumption ==
    /\ HeaderSize \in Nat \ {0}
    /\ Messages \subseteq [size : Nat, known : BOOLEAN]
    /\ \A m \in Messages : m.size > HeaderSize

ASSUME StreamAssumption ==
    /\ FreshCache \subseteq BOOLEAN
    /\ MaxFrames \in Nat
    /\ Idle \notin Nat
    /\ IsFiniteSet(Waiters)

VARIABLES
    stream,        \* bytes written and not yet in the receiver's buffer
    input,         \* the receiver's input evbuffer
    low,           \* its low watermark for reading
    callback_set,  \* set_event_callback was called: frames go to the callback
    loop,          \* the event loop: waiting, or in the read callback
    block,         \* info.block.size
    cache_block,   \* info.cache_block
    read_signal,   \* *info.read_singal_ptr
    at,            \* at[w]: where waiter w is in recive_str_Wait
    max_size,      \* max_size[w]: its local copy of the size
    writing,       \* writing[s]: the frame whose data s has still to write
    sent,          \* the messages, in the order their headers were written
    delivered,     \* the data of the frames read, in order
    garbled        \* history: headers and data need not match any more

receiver == <<block, cache_block, read_signal, delivered>>

waiting == <<at, max_size>>

sender == <<writing, sent, garbled>>

vars == <<stream, input, low, callback_set, loop, receiver, waiting, sender>>

Sizes == {m.size : m \in Messages}

Header(i) == [k \in 1 .. HeaderSize |-> <<i, k>>]

Data(i) == [k \in 1 .. sent[i].size |-> <<i, HeaderSize + k>>]

First(bytes, n) == SubSeq(bytes, 1, n)

Without(bytes, n) == SubSeq(bytes, n + 1, Len(bytes))

\* The sizes the bytes of a header can give.
SizesIn(bytes) ==
    LET frames == {i \in DOMAIN sent : bytes = Header(i)}
    IN  IF frames = {} THEN Sizes ELSE {sent[i].size : i \in frames}

\* check_mess_type on the data of a frame: garbage may pass or fail.
KnownIn(bytes) ==
    LET frames == {i \in DOMAIN sent : bytes = Data(i)}
    IN  IF frames = {} THEN BOOLEAN ELSE {sent[i].known : i \in frames}

rw_w_lock(signal_int) == signal_int - 1

rw_w_unlock(signal_int) == IF signal_int < 0 THEN signal_int + 1 ELSE signal_int

\* add_bufferevent_listen and _connect leave block and cache_block as they are
\* on the stack.  Only recive_str_NoWait looks at them before they are set.
Init ==
    /\ stream = <<>>
    /\ input = <<>>
    /\ low = 0
    /\ callback_set \in BOOLEAN
    /\ loop = "waiting"
    /\ cache_block \in FreshCache
    /\ block \in IF cache_block THEN Sizes ELSE {0}
    /\ read_signal = 0
    /\ at = [w \in Waiters |-> "idle"]
    /\ max_size = [w \in Waiters |-> 0]
    /\ writing = [s \in Senders |-> Idle]
    /\ sent = <<>>
    /\ delivered = <<>>
    /\ garbled = (callback_set /\ cache_block)

----------------------------------------------------------------------------
(***************************************************************************)
(* Sending: writeBufferOnce is two bufferevent_write calls.                *)
(***************************************************************************)

\* Another sender may be between its two writes: the write signal does not keep
\* writers out.
writeBufferOnce_block(s, message) ==
    /\ writing[s] = Idle
    /\ Len(sent) < MaxFrames
    /\ sent' = Append(sent, message)
    /\ stream' = stream \o Header(Len(sent) + 1)
    /\ writing' = [writing EXCEPT ![s] = Len(sent) + 1]
    /\ garbled' = (garbled \/ \E u \in Senders : writing[u] # Idle)
    /\ UNCHANGED <<input, low, callback_set, loop, receiver, waiting>>

writeBufferOnce_data(s) ==
    /\ writing[s] # Idle
    /\ stream' = stream \o Data(writing[s])
    /\ writing' = [writing EXCEPT ![s] = Idle]
    /\ UNCHANGED <<sent, garbled, input, low, callback_set, loop, receiver, waiting>>

\* The second write fails: the block has gone without its data.
writeBufferOnce_fails(s) ==
    /\ writing[s] # Idle
    /\ writing' = [writing EXCEPT ![s] = Idle]
    /\ garbled' = TRUE
    /\ UNCHANGED <<stream, sent, input, low, callback_set, loop, receiver, waiting>>

----------------------------------------------------------------------------
(***************************************************************************)
(* The event loop.                                                         *)
(***************************************************************************)

\* libevent reads some bytes; at the low watermark it calls
\* default_bufferevent_read_cb, which does nothing without a callback.
default_bufferevent_read_cb(n) ==
    /\ loop = "waiting"
    /\ n \in 1 .. Len(stream)
    /\ input' = input \o First(stream, n)
    /\ stream' = Without(stream, n)
    /\ loop' = IF callback_set /\ Len(input') >= low THEN "callback" ELSE "waiting"
    /\ UNCHANGED <<low, callback_set, receiver, waiting, sender>>

\* Faulty variants of readBuffer_NoWait: a block read early is not kept; the
\* watermark is not put back; the incomplete frame's return does not unlock.
readBuffer_forgets_block(size, bytes, signal) ==
    /\ input' = IF Len(bytes) < size THEN bytes ELSE Without(bytes, size)
    /\ delivered' = IF Len(bytes) < size THEN delivered
                    ELSE Append(delivered, First(bytes, size))
    /\ low' = IF Len(bytes) < size THEN size ELSE 0
    /\ cache_block' = FALSE
    /\ block' = size
    /\ read_signal' = rw_w_unlock(signal)

readBuffer_keeps_watermark(size, bytes, signal) ==
    /\ input' = IF Len(bytes) < size THEN bytes ELSE Without(bytes, size)
    /\ delivered' = IF Len(bytes) < size THEN delivered
                    ELSE Append(delivered, First(bytes, size))
    /\ low' = IF Len(bytes) < size THEN size ELSE low
    /\ cache_block' = (Len(bytes) < size)
    /\ block' = size
    /\ read_signal' = rw_w_unlock(signal)

readBuffer_keeps_lock(size, bytes, signal) ==
    /\ input' = IF Len(bytes) < size THEN bytes ELSE Without(bytes, size)
    /\ delivered' = IF Len(bytes) < size THEN delivered
                    ELSE Append(delivered, First(bytes, size))
    /\ low' = IF Len(bytes) < size THEN size ELSE 0
    /\ cache_block' = (Len(bytes) < size)
    /\ block' = size
    /\ read_signal' = IF Len(bytes) < size THEN signal ELSE rw_w_unlock(signal)

\* readBuffer_NoWait: an incomplete frame sets the watermark and is resumed
\* later with its block cached; a complete one is read.
readBuffer_NoWait(size, bytes, signal) ==
    /\ \/ /\ Len(bytes) < size
          /\ input' = bytes
          /\ low' = size
          /\ cache_block' = TRUE
          /\ UNCHANGED delivered
       \/ /\ Len(bytes) >= size
          /\ input' = Without(bytes, size)
          /\ low' = 0
          /\ cache_block' = FALSE
          /\ delivered' = Append(delivered, First(bytes, size))
    /\ block' = size
    /\ read_signal' = rw_w_unlock(signal)

\* recive_str_NoWait with more than a control block in the buffer.  The lock is
\* taken in readBufferControlBlock_NoWait, so a resumed frame is read without.
recive_str_NoWait ==
    \/ /\ cache_block
       /\ readBuffer_NoWait(block, input, read_signal)
    \/ /\ ~cache_block
       /\ \E size \in SizesIn(First(input, HeaderSize)) :
              readBuffer_NoWait(size, Without(input, HeaderSize), rw_w_lock(read_signal))

\* Faulty variant: one frame per callback.
read_one_message ==
    /\ loop = "callback"
    /\ read_signal >= 0
    /\ IF Len(input) <= HeaderSize THEN UNCHANGED <<input, low, receiver>>
                                   ELSE recive_str_NoWait
    /\ loop' = "waiting"
    /\ UNCHANGED <<stream, callback_set, waiting, sender>>

\* One turn of the while loop.  It is left when the buffer is empty, when no
\* frame could be read, and when try_run_callback does not know the message.
\* get_recive_buffer_length takes the read side of the signal.
read_callback_message_from_libevent ==
    /\ loop = "callback"
    /\ read_signal >= 0
    /\ \/ /\ Len(input) <= HeaderSize
          /\ loop' = "waiting"
          /\ UNCHANGED <<input, low, receiver>>
       \/ /\ Len(input) > HeaderSize
          /\ recive_str_NoWait
          /\ \/ /\ delivered' = delivered
                /\ loop' = "waiting"
             \/ /\ delivered' # delivered
                /\ \E known \in KnownIn(delivered'[Len(delivered')]) :
                       loop' = IF known THEN "callback" ELSE "waiting"
    /\ UNCHANGED <<stream, callback_set, waiting, sender>>

----------------------------------------------------------------------------
(***************************************************************************)
(* Waiting threads: recive_str_Wait, when no callback is set.              *)
(***************************************************************************)

Goto(w, from, to) ==
    /\ at[w] = from
    /\ at' = [at EXCEPT ![w] = to]

\* The lock is taken before the first byte is there, by several waiters if they
\* come.
recive_str_Wait(w) ==
    /\ ~callback_set
    /\ Goto(w, "idle", "block")
    /\ read_signal' = rw_w_lock(read_signal)
    /\ garbled' = (garbled \/ \E v \in Waiters : at[v] # "idle")
    /\ UNCHANGED <<stream, input, low, callback_set, loop, block, cache_block,
                   delivered, max_size, writing, sent>>

readBufferControlBlock_Wait(w) ==
    /\ Goto(w, "block", "size")
    /\ Len(input) >= HeaderSize
    /\ block' \in SizesIn(First(input, HeaderSize))
    /\ cache_block' = TRUE
    /\ input' = Without(input, HeaderSize)
    /\ UNCHANGED <<stream, low, callback_set, loop, read_signal, delivered,
                   max_size, sender>>

\* The first lines of readBuffer_Wait: without a block it returns, locked.
readBuffer_Wait_size(w) ==
    /\ Goto(w, "size", IF cache_block THEN "data" ELSE "idle")
    /\ max_size' = [max_size EXCEPT ![w] = block]
    /\ UNCHANGED <<stream, input, low, callback_set, loop, receiver, sender>>

\* Faulty variant: what is there is taken for the whole frame.
readBuffer_Wait_early(w) ==
    LET n == IF Len(input) < max_size[w] THEN Len(input) ELSE max_size[w]
    IN  /\ Goto(w, "data", "done")
        /\ delivered' = Append(delivered, First(input, n))
        /\ input' = Without(input, n)
        /\ read_signal' = rw_w_unlock(read_signal)
        /\ UNCHANGED <<stream, low, callback_set, loop, block, cache_block, max_size,
                       sender>>

readBuffer_Wait_data(w) ==
    /\ Goto(w, "data", "done")
    /\ Len(input) >= max_size[w]
    /\ delivered' = Append(delivered, First(input, max_size[w]))
    /\ input' = Without(input, max_size[w])
    /\ read_signal' = rw_w_unlock(read_signal)
    /\ UNCHANGED <<stream, low, callback_set, loop, block, cache_block, max_size,
                   sender>>

\* cache_block is cleared after the unlock.
readBuffer_Wait_done(w) ==
    /\ Goto(w, "done", "idle")
    /\ cache_block' = FALSE
    /\ UNCHANGED <<stream, input, low, callback_set, loop, block, read_signal,
                   delivered, max_size, sender>>

----------------------------------------------------------------------------

Send(s) ==
    \/ \E message \in Messages : writeBufferOnce_block(s, message)
    \/ writeBufferOnce_data(s)
    \/ writeBufferOnce_fails(s)

Wait(w) ==
    \/ recive_str_Wait(w)
    \/ readBufferControlBlock_Wait(w)
    \/ readBuffer_Wait_size(w)
    \/ readBuffer_Wait_data(w)
    \/ readBuffer_Wait_done(w)

Arrive == \E n \in 1 .. Len(stream) : default_bufferevent_read_cb(n)

Next ==
    \/ \E s \in Senders : Send(s)
    \/ Arrive
    \/ read_callback_message_from_libevent
    \/ \E w \in Waiters : Wait(w)

Spec == Init /\ [][Next]_vars

\* A writer that has written the block returns from writeBufferOnce, TCP and
\* libevent move the bytes on, the callback runs.  Nobody is obliged to send or to
\* wait.
Fairness ==
    /\ \A s \in Senders : WF_vars(writeBufferOnce_data(s) \/ writeBufferOnce_fails(s))
    /\ WF_vars(Arrive)
    /\ WF_vars(read_callback_message_from_libevent)

FairSpec == Spec /\ Fairness

----------------------------------------------------------------------------
(***************************************************************************)
(* Properties.                                                             *)
(***************************************************************************)

\* The threads that have taken the read signal and not given it back.
Locking == {w \in Waiters : at[w] \in {"block", "size", "data"}}

\* The next frame is completely in the input buffer.
FrameReady ==
    IF cache_block
    THEN Len(input) >= block
    ELSE /\ Len(input) >= HeaderSize
         /\ Len(input) >= HeaderSize + sent[Len(delivered) + 1].size

AllKnown == \A i \in DOMAIN sent : sent[i].known

\* What recive_str_NoWait and recive_str_Wait return is, frame by frame and in
\* the order of sending, the data that was sent, however the bytes arrived and
\* whichever threads send and wait, until two of them overlap on one side, the
\* data of a frame is not written, or a callback meets a block nobody read.
FramesInOrder ==
    ~garbled => \A i \in DOMAIN delivered : i \in DOMAIN sent /\ delivered[i] = Data(i)

\* When the read callback has returned, no complete frame is left in the buffer
\* (libevent calls back only when more bytes arrive): the watermark and the
\* cached block never hide one, if all messages are known to the receiver and
\* the frames are not garbled.
NoFrameLeftBehind ==
    callback_set /\ loop = "waiting" /\ AllKnown /\ ~garbled => ~FrameReady

\* The read signal counts the threads between "start -- lock" and
\* "end -- unlock": the resumed frame, which unlocks what it has not locked,
\* leaves nothing behind, nor do threads that wait one after the other.
ReadSignalBalanced == ~garbled => read_signal = - Cardinality(Locking)

\* With the callback set and only messages the receiver knows, every frame
\* sent is delivered, unless the frames get garbled.
FramesDelivered ==
    callback_set /\ []AllKnown /\ []~garbled =>
        \A i \in 1 .. MaxFrames : Len(sent) >= i ~> Len(delivered) >= i

(***************************************************************************)
(* The connection as a channel: a frame is sent when its control block is  *)
(* written, and comes out when its data has been read.                     *)
(***************************************************************************)
Payload(i, message) == [k \in 1 .. message.size |-> <<i, HeaderSize + k>>]

Channel == INSTANCE FifoChannel WITH
    Payloads <- {Payload(i, m) : i \in 1 .. MaxFrames, m \in Messages},
    accepted <- [i \in DOMAIN sent |-> Data(i)],
    received <- delivered,
    broken <- garbled

\* Until the frames get garbled, every step sends one frame, reads the oldest
\* frame that was not read, whole, or does neither: nothing that
\* recive_str_NoWait and recive_str_Wait return is made up, left out, repeated or
\* taken back.
ImplementsFifoChannel == Channel!Spec

=============================================================================
