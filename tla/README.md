# Formal models of multi-master-tool

TLA+ models of the code of multi-master-tool, checked with TLC on small
instances and, for the theorems, proved with TLAPS for every instance.
`PROJECT.json` links every definition to the lines it models, every run to its
properties and every hazard of the code to the properties that would catch it.

## 1. The system

The repository is a set of tools for a multi-master MySQL project.  Database
nodes ask a central server for page locks over a small message layer.

| component | state | operations | talks to |
|---|---|---|---|
| page lock table, `RemotePageLockManager` | a hash table of `PageLock_t`: type, version, holders, waiters | `check_lock_request`, called by `lock_request_callback` for every `PageLockRequest`; `lock_manager_init` | message layer: callback in, `sendMessage` out |
| page lock client, `RemotePageLockClient` | none of its own | `request_page_lock`: send, then poll `readMessage` with `PageLockReplyFilter` until a reply for the page is there | message layer |
| message layer, `EventMessageHandle` | per group: a `LibeventHandle`, the ports, per message type a callback and `unprocessed_mess_list` | `sendMessage`, `readMessage` (plain, filtered), `register_recive_handler`, dispatch in the event loop | network layer below, callbacks above |
| network layer, `LibeventHandle` | `bev_map` of connections, `listen_id_vector`, `max_bev_id`; per connection a cached control block and two signals | connect, accept, remove, `send`, `recive_str_Wait/NoWait`, `free_handle` | libevent; its event loop thread calls back into the message layer |
| spin lock `rw_r_lock` ... `rw_w_unlock` | one `std::atomic<int>` per protected object | four functions of two atomic accesses each | every function of the network layer |
| buffers, `DynamicBuffer` and `FixedBuffer` | blocks of bytes and a tail offset | `put`, `get`, `append`, `clear`, `destory` | `JsonRpcPacket` uses `FixedBuffer` |
| `JsonRpcPacket` | the text being written; the offsets, names and stack of the reader | writing header, items and notes; `parse` into a caller's buffer; getters | rapidjson's streaming reader calls back |
| identifier service | a counter, a map and a mutex in the server process | `IDInc` under the mutex; asynchronous clients with retries | brpc |
| logger | spdlog's registry | `logger_record` | spdlog |

### Threads

A process that uses the message layer has, per group, one event loop thread
(`event_loop_run`) and any number of application threads.  The event loop reads
frames, and runs `try_run_callback` for each: the callback of the message type,
or an append to its unprocessed list.  Application threads send, and poll the
unprocessed lists.  The lock server does all its work in the event loop; a
client thread blocks in `wait_for_lock_reply`.

### What is hard

* The spin lock tests and updates in two accesses and skips the update of an
  unlock when the sign is not the expected one.
* The lock table decides on an entry while replies and unlocks are travelling;
  different pages can share an entry (`cal_fold`).
* A reply carries no request number: it is matched by page only.
* The event loop runs before callbacks are registered.
* The unprocessed lists are shared between threads without a lock.
* Frames arrive in pieces; half-read frames are resumed by a later callback.
* Connections are looked up, opened, numbered and entered by several threads, the
  event loop included, and the steps are not one critical section.
* The end of a `DynamicBuffer` is computed, not stored; a `JsonRpcPacket` is reused
  without being cleared.
* Failures of `send` are ignored above the network layer.
* The identifier server forgets its counter at a restart; its clients retry.

### What makes each component correct

* Lock table: a page somebody may write is locked by nobody else; the holder
  list is the set of hosts whose grant is not unlocked; a refusal has a reason;
  versions only grow.
* Lock client: every call gets exactly one answer, its own, and returns.
* Spin lock: readers and writers exclude each other, the counter returns to 0.
* Message layer: every message that arrives is given to exactly one callback or
  one reader, in order, from the first moment the port is open.
* Network layer: a connection is a FIFO channel of whole frames; an identifier
  names one connection; no path leaves a lock taken.
* Buffers: a byte string.  JSON packet: what is read is what was written, also by
  an object that has parsed before.  Identifier service: no identifier twice.

## 2. Modules

| module | models |
|---|---|
| `RWSignal` | the spin lock over one signal, one step per atomic access |
| `RWSignalProofs` | its inductive invariant and theorems |
| `LockTable` | the table, the matrix, `check_lock_request` and the update functions |
| `PageLockService` | EXTENDS `LockTable`: client threads, the reply list of each host, the channels, the server's event loop and start-up |
| `ExclusiveLock` | abstract specification: every page has at most one owner |
| `PageLockProofs` | what holds for any use of the service (types, versions, replies, number of answers), then for disciplined callers: refusals, holder list, mutual exclusion, the refinement of `ExclusiveLock` |
| `FrameStream` | frames on one connection: two writes per frame, arrival in pieces, the read callback and waiting threads |
| `FifoChannel` | abstract specification: what one side sends comes out at the other, once and in order |
| `FrameProofs` | its inductive invariant and theorems |
| `ConnectionTable` | the connections of one handle: identifiers, map, listen vector, `send` |
| `ConnectionProofs` | its inductive invariant and theorems |
| `MessageDispatch` | one group of the message layer: start-up, dispatch, unprocessed lists, readers |
| `DispatchProofs` | its inductive invariant and theorems |
| `DynamicBuffer` | the block buffer |
| `BufferProofs` | its inductive invariant and theorems |
| `JsonPacket` | packets written as tokens, parsed by callbacks into a `FixedBuffer` |
| `JsonProofs` | its inductive invariant and theorems |
| `IdService` | the identifier server and its clients |
| `IdProofs` | its inductive invariant and theorems |
| `MCRWSignal`, `MCPageLock`, `MCFrameStream`, `MCConnectionTable`, `MCMessageDispatch`, `MCJsonPacket` | the instances TLC checks; `DynamicBuffer` and `IdService` need none |

Definitions marked "Faulty variant" are plausible mistakes, one for each property;
they are not part of any specification and serve to show that the property would
notice.  `PROJECT.json` lists which one goes with which property.

### RWSignal

`signal_int` is the atomic; `pc[t]` is where thread t is.  Each function is a
`_test` action (the load that leaves the spin loop, or the test of the unlock)
and an `_add` or `_sub` action (the update).  Between them other threads run.
Iterations that stay in the loop change nothing and are stuttering steps.
`overlapped` is a history variable: a reader and a writer have been counted at
the same time.  The atomic is an `int`; overflow would need 2^31 threads inside
and is not modelled.

### LockTable and PageLockService

`page_lock_hash` maps each fold to an entry or `NULL`.  The four disjuncts of
`check_lock_request` are the code's four returns.  `lock_holder` is a set: of
the `std::list` the code uses `push_back`, `remove` (all equal elements) and
`empty`.  `version_no` is a natural number (the code has 64 bits).
`update_unlock_page_lock_t` contains the hand-over to the first waiter, which
the code can never reach because nothing is put on `wait_list`.

Requests and replies travel on one FIFO sequence per host and direction, which
is what one TCP connection per direction gives (client connects to the server's
port, the server connects back to the client's).  `try_run_callback` is the
client's event loop: `PageLockReply` has no callback, so a reply is appended to
`unprocessed`.  `wait_for_lock_reply` is the polling iteration that finds a
reply: the first in the list for which `PageLockReplyFilter` holds is copied
and erased.

`server` is how far `lock_manager_init` has come.  `register_cb_function` and
`register_cb_arg` are the two stores of `register_recive_handler`, the server's
event loop running from before the first: `strand_request` keeps a request for
which there is no callback, `server_dies` is a callback that runs between the two
stores and follows its NULL argument, and `lock_request_callback` is the one that
answers.  `server_dies` is also the `assert(false)` of a callback whose
`sendMessage` is negative, because the host that asked is not in the server's
configuration (`Answerable`).  On a host whose own configuration lacks the server
or the types (`Configured`), `request_page_lock` returns -1 and changes nothing, so
it has no step.

`lose_request` and `lose_reply` are a `connect` or `send` that fails on either
side, which `sendMessage` does not report.  A request neither the server nor the
caller will ever see again is in `stranded`, a reply in `lost_replies`; a grant
whose reply is lost keeps its page, and `Holds` says so.

Every message carries the thread it belongs to (`caller`) for the properties;
no guard reads it.  The program that calls the client is not in the repository.
`told[t][p]` is what it may conclude from the replies; `Disciplined` says that
it asks for a lock only when it holds none on the page and unlocks only what it
holds.  `client_test.cc` is not disciplined (it ignores the replies), and the run
`lock_any_caller` covers such callers.

Taken as atomic: an append to `unprocessed`, and one walk over it with the
erase at its end.  In the code they race on a `std::list`, which `MessageDispatch`
models.  What the race does to a reply that is being appended, it disappears, is
here `lose_reply`.  What two threads of one host do that walk the list at once, take
one reply twice for instance, is not here; `together` is a history of the hosts on
which two threads have been in `request_page_lock` at once, and
`OneAnswerPerCall` does not speak of those.

### FrameStream

One connection, one direction.  A byte is the number of its frame and its
position in it, the header first, so a reader that is out of step delivers
bytes that are visibly not a message.  A header read at the wrong place gives
an arbitrary size.  `stream` is the sender's output buffer and the socket,
`input` the receiver's buffer, `low` its watermark: libevent's part.
`default_bufferevent_read_cb` is one arrival of some bytes, after which libevent
calls back if the watermark is reached; `read_callback_message_from_libevent` is
one turn of the message layer's loop, a whole step because arrivals and callback
share the event loop thread.  `recive_str_NoWait` takes the read lock only when
it reads a header, so a resumed frame unlocks what it has not locked; the model
keeps that.  A waiting thread goes through `recive_str_Wait` in five steps,
because other threads can come between them.  Whether a callback is set is
chosen in `Init`, and so is `cache_block`, which the code does not set in a new
`BevInfor` (`FreshCache` has both values).  `writeBufferOnce_fails` is a second
`bufferevent_write` that fails after the block has gone out.

`garbled` is a history variable with the four events after which headers and data
need not match any more: two senders between their two writes at once, two threads
in `recive_str_Wait` at once, a block without its data, and a callback set on a
connection that starts with a cached block.  The code allows all four.  The
properties say what holds up to the first of them, for any number of senders and
waiters; after it they fail.

The message layer's data always starts with an `EventMessageCursor` of 24 bytes, so
messages are longer than the 4 bytes of a control block (`MessagesAssumption`);
for shorter ones line 287 of `libevent_handle.cc` would leave a complete frame
unread.

`Channel` is the connection seen as a `FifoChannel`: its payloads are the data of the
frames with their bytes, so that a mixed or shifted frame is none of them.  A
`FifoChannel` may break (`broken`), and promises nothing from then on; `garbled` is
when the connection does.

### ConnectionTable

A connection is its position in `opened`, in the order of
`bufferevent_socket_new`.  A thread that sends goes through `get_connection_id`
(the search), `connect_failure` or `add_bufferevent_connect`, then `load_id`,
`fetch_add`, `store`, `set_connection_cb` and `send`, each a step, because each is
an access of its own or a critical section of its own.  The event loop accepts
through `connlistener_cb` and the same steps, with `push_back` on
`listen_id_vector` at the end.  The search and the assignment to `bev_map` are
atomic: they are what `rw_r_lock` and `rw_w_lock` are there for, and how far those
locks keep that promise is the subject of `RWSignal`.

Ports are modelled with their bytes, since `connlistener_cb` converts them: it
looks up `ntohl(sin_port)` and enters `sin_port`.  The port of a peer is chosen by
its kernel, so the number entered may be the port of a configured host on the same
address; nothing assumes that it is not.  Messages to that host then go out on the
accepted connection if it was there first, and `SentToItsHost` says exactly that.

`bufferevent_socket_new` may give NULL.  `add_bufferevent_connect` tests for it
(`connect_failure`), `add_bufferevent_listen` does not: the connection is entered
with `null`, and the first use of it ends the process (`use_null`, `crashed`).

`id_race` and `connect_race` are history variables.  They become true when two
threads are between `load` and `fetch_add`, or entering one address, at once.
The code does allow both, and the properties say what holds up to then, and
(`SendFindsItsConnection`, the first part of `ListenIdsUsable`) what holds even
after it.

### MessageDispatch

`started` counts the steps of `init_group_infor_map` that the event loop can tell
apart: the port open, `callback_funtion` stored, `callback_args` stored, then for
each type the uninitialised entry and the entry with its members set.
`default_bufferevent_read_cb` is an arrival at any of these stages.
`read_callback_message_from_libevent` is one turn of the message layer's loop with
`try_run_callback` in it.  An uninitialised pointer is called, or happens to be
NULL: both outcomes are there.

The two stores of `register_recive_handler` are two steps as well.  A callback that
the event loop runs between them gets a NULL argument and may follow it
(`HalfRegistered`), as `lock_request_callback` does.

`readMessage` is `readMessage_enter`, then `readMessage_none` (it returns 0) or
`readMessage_copy` and `readMessage_erase`; between them the event loop may append
and other readers run.  With a filter any message of the list may be the one that
passes, without one it is the first.  An append next to the erase of the last element
of a list, however long, stores the same pointer as the erase: it may be lost, and
may leave the list's end pointing at the erased node, so that later appends are
lost too until the last element is erased again (`deaf`); `raced` remembers it.  Two
appends cannot meet: one event loop.

Two threads in `readMessage` of one list may return one message twice and free its
node twice, which is modelled as a possible crash, and may do more to the list than
that.  `crowded` records that they met, and the properties that depend on the list
say nothing afterwards.

### DynamicBuffer

`blocks` and `tail_offset_in_block` as in the code, `memory` the blocks side by
side.  `put` calls `check_space` first and compares with `size()` afterwards, so
its test sees the enlarged buffer; the model keeps that order, and keeps that the
loop does not advance its data pointer.  A byte is the number of its call and its
position in that call's data.

### JsonPacket

`Text(p)` is what the writer's calls make of a packet: for each call the tokens it
writes.  `call` and `event` are the reader's place in it, and a step is one
callback of the reader.  `parse_stack`, `object_ptrs` and `name_id_map` are the
handler's and are kept from one parse to the next, as in the code.  `FixedBuffer`
is `bytes` and `tail_offset`; `put` leaves out what does not fit, and its callers
go on as if it had not.  `StartArray` on an empty stack tests an uninitialised
type: `FreshTypes` are its values, and when it is that of a key, the pop of the
empty stack is a crash.

`WellFormed` is how the writer is meant to be used, and `PacketsAssumption` says that
all packets are: the keys of the items differ and are none of the words the reader
itself looks for (`Reserved`), and a note is for a pointer that lies inside an item
of the packet and overlaps no other.  The code checks none of this.  A note for a key
the packet does not have is the hazard at line 196 of `json_rpc_packet.cc` that no
property covers.

### IdService

Every try of a call is one execution of `IDInc`: `lock_id`, `set_message`,
`set_idmap`, `increment_id` (with the unlock), `done_run`.  `connection_breaks` is
brpc's retry: the old execution goes on, its reply is ignored.  `restart` is the
server's process starting again with nothing kept.  A response is the bare number,
as in the code; `given_in`, a history, is the run of the server that filled it.

## 3. Runs

Pass:

* `rw_both`: two threads that take both sides in any order.  `ExactUntilOverlap`:
  the signal is readers minus writers up to the first overlap.  Two threads are
  enough for every pair of accesses to interleave; with three, updates lost
  after an overlap make the counter drift without bound, so the state space is
  infinite.  The theorem has no such bound.
* `lock_exclusive`: two threads on one host, one on another, three pages of which
  two collide in the hash, only W_LOCK and UNLOCK, start-up, lost requests and lost
  replies included, three calls per thread.  `TypeOK`, `MutualExclusion` (per hash
  entry), `ReplyReachesCaller`, `RefusalJustified`, and `ImplementsExclusiveLock`:
  the service refines `ExclusiveLock` with the owner read off from the table's
  point of view.
* `lock_shared`: three hosts, readers and writers on one page, start-up, lost
  requests and lost replies included, three calls each.  `HolderListAgrees` in every
  state.
* `lock_any_caller`: three hosts, two pages, callers that ask anything in any order
  (unlock before lock, lock twice, ignore refusals), start-up, lost requests and lost
  replies included, and a third host that the server's configuration does not name,
  so that its request kills the server.  `OneAnswerPerCall`, `VersionNeverReduces`,
  and under fairness `AnsweredUnlessStranded`: a call returns unless its own
  request or its own reply is lost, or the server is dead.
* `frame_stream`: two senders, two frames, sizes 3 and 6 with a header of 2, known
  and unknown messages, the callback or two waiting threads, `cache_block` true or
  false at the start, second writes that fail.  `FramesInOrder`,
  `NoFrameLeftBehind`, `ReadSignalBalanced`, `ImplementsFifoChannel`, and under
  fairness `FramesDelivered`.  A short message with its header (5) is smaller than
  the long one (6), so a watermark left at the long size would hide it; the first
  frame can be resumed and finished and the second started, by another thread.
* `conn_table`: the event loop, which accepts and sends, and a second thread that
  sends; two hosts on one machine, two peers, three connections, connects that
  fail, accepted connections without a bufferevent.  `SendFindsItsConnection`,
  `IdNamesOneConnection`, `SentToItsHost`, `OneConnectionPerHost`,
  `ListenIdsUsable`, and under fairness `ConnectionServed`.  Two threads are the
  least with a race; three connections let one be opened after it.  A byte has 4
  values, which keeps the conversions of ports what they are.  The swapped port of
  one peer is that of a host on its machine, that of the other collides with
  nothing.
* `dispatch`: two types and an unknown one, three messages, every stage of the
  start-up, and two readers of one list, one with and without a filter, one with.
  `EachMessageOnce`, `ListsBeforeCallbacks`, `CrashOnlyInWindows`, and under fairness
  `BufferDrained`, `PolledMessageTaken`.  Three messages: one before, one in and
  one after the race with an erase.
* `dynamic_buffer`: blocks of 4, all sequences of four calls with data of 0, 1, 4, 6
  and 9 bytes at offsets 0 to 4: nothing, less than, exactly and more than one
  block, more than two.  `SizeCovers`, `GapBelowBlock`, `FirstBlockReadsBack`.
* `json_packet`: five packets (keys reused with other sizes, no, one and two notes,
  a number), buffers of 4, 6 and 12 bytes, three parses of one object in any
  order.  `ItemsReadBack`, `NotesPointToValues`, `WholeOrLeftOut`, `StackReturns`.
* `id_service`: two clients with one call each of up to two tries, two runs of the
  server.  `UniqueIds`, `OwnerRecorded`, and under fairness `EveryCallEnds`.  Up to
  four executions of `IDInc` interleave; the theorems have no bound.

Three calls per thread let a thread lock, unlock and lock again while the
others do the same; two threads on each side of a conflict plus one more on the
page is what the known failures need (`lock_reader_writer` needs three hosts).

Violation, each a disagreement between a comment of the repository and the code
(`findings` quotes the lines):

* `rw_negative`: one race leaves the signal at -1 with no writer inside; readers
  then spin for ever.
* `lock_reader_writer`: two readers, one unlocks, a writer is granted beside the
  other.

Known and not kept as runs:

* `rw_r_lock` and `rw_w_lock` let a reader and a writer in together (the trace of
  `rw_negative` passes through it).
* `insert_page_lock_t` starts `version_no` at 0 also for a write, against rule 2 of
  `lock_common.h`.
* A refused host is never put on `wait_list`, so the hand-over in
  `update_unlock_page_lock_t` cannot happen.
* A request read before the callback is registered, or one whose send failed, is
  never answered, and a call whose reply's send failed does not return, the page
  staying granted to it (alternatives of `AnsweredUnlessStranded`).
* A request that is read between the two stores of `register_recive_handler`, or
  that comes from a host the server does not know, ends the server.
* Two threads of one host that ask for the same page take each other's replies:
  `lock_exclusive` with `PagesOf <- AllPages` violates `ReplyReachesCaller`.
* Two senders on one connection mix their frames, a `cache_block` that happens to be
  true in a new `BevInfor` makes the callback take a header for data, and two threads
  waiting on one connection take each other's bytes or return with the signal
  taken: without `~garbled` in them the properties of `frame_stream` fail.  The lock
  service inherits this: its FIFO sequences stand for hosts of which one thread at
  a time is sending.
* A peer whose port with its bytes swapped is that of a host on its machine gets the
  messages for that host, if it connected first.
* Without the history variables in their premises, `IdNamesOneConnection`,
  `SentToItsHost`, `OneConnectionPerHost` and `ConnectionServed` fail in
  `conn_table`, `EachMessageOnce`, `CrashOnlyInWindows` and `PolledMessageTaken` in
  `dispatch`, and without `AnsweredIn` `UniqueIds` fails in `id_service`.
* A message of an unknown type ends the read callback with frames left behind it:
  without `AllKnown` in them `NoFrameLeftBehind`, `FramesDelivered` and
  `BufferDrained` fail.
* Beyond the first block `DynamicBuffer::get` does not return what `put` was given.

Deadlock checking is off except in the `RWSignal` runs: callers stop after
`MaxCalls`, senders after `MaxFrames`, connections after `MaxConnections`, and so on.

### Fairness

`FairSpec` assumes that event loops dispatch what arrives (libevent's loop never
blocks on anything else), that a thread in `wait_for_lock_reply` keeps polling
(the `while(1)` with `sleep`), and that `lock_manager_init` finishes.  Weak
fairness is enough because nothing disables these steps once they are enabled,
save another thread of the same host taking the reply, a lost message, or the death
of the server, which the property allows.  No thread is obliged to ask for a lock.

In `FrameStream`, a thread between its two writes goes on, to the second or to its
failure, the bytes move (TCP and libevent), and the callback runs.  Nobody is
obliged to send or to wait.

In `ConnectionTable` a thread inside one of the functions goes on; nothing blocks it
there but the spin locks, which are not in this model.  Their signal can drift
below 0 for good (`rw_negative`), so `ConnectionServed` holds only as long as that
has not happened.  In `MessageDispatch` the start-up finishes, the event loop goes
on, and a call of `readMessage` returns.  Nobody is obliged to call it: that a list
is polled again and again, without a filter, is a premise of `PolledMessageTaken`,
true of a program that does so and not of the lock server.
In `IdService` the server executes what arrived, replies are delivered, and a
connection whose server is gone breaks.  A timeout is never obliged to come:
`timeout_ms` is more than ten days.

## 4. Proofs

`RWSignalProofs`, for any finite `Threads` and any `Sides`:

* `SignalExact`: `Spec => []ExactUntilOverlap`.  The formula is not inductive: an
  unlock skips its update unless it loads the sign of its side.  `IInv` adds
  `Separated`: until the history says otherwise one of the two sides is empty, so
  the count has the sign of a thread that is inside, and no unlock skips.
* `WriteSignalExact`: assuming `WritersOnly` (the use of `write_singal_ptr`), the
  signal is always minus the number of writers, so no unlock ever skips and the
  signal is 0 when nobody writes.  It does not say that writers exclude each
  other: they do not, `rw_w_lock` lets any number of them in.

`PageLockProofs`, for all hosts, pages, threads and workloads, disciplined or not:

* `TypeCorrect`: `Spec => []TypeOK`.  `TableStep` carries the table through
  `check_lock_request`; lemmas about `Append`, `Tail` and `RemoveAt` carry the
  sequences of messages.
* `VersionsKept`: `Spec => VersionNeverReduces`.  `EntryEffect` says what
  `check_lock_request` does to the entry of the page, given `NoWaiters`
  (`wait_list` is empty in every entry, so the hand-over is never reached), and that
  no other entry changes.
* `RepliesReachCallers`: assuming `OneAsker` (no two threads of a host ask for the
  same page), `Spec => ReplyReachesCaller`.  The action property follows from
  `MessageInv`: a message belongs to the call its thread waits in (`Addressed`), a
  call has one message (`OneMessage`), none if its reply is lost (`LostApart`), and
  it is about a page of its thread (`OwnPages`), so the first reply for the page that a thread finds is its own.
  Without `OneAsker` it fails (section 3).
* `AnswersCounted`: assuming only that `Threads` is finite,
  `Spec => []OneAnswerPerCall`, whatever is lost on either side and also for hosts
  that share pages; hosts in `together` are left out, where two threads walk one
  list and the atomic step of this model is not what the code does.  The count is
  inductive once `SentFromHost` says on which host a call is; the work is in the lemmas that count the places of a page in a sequence when an
  element is added, taken from the front or removed from the middle.

`PageLockProofs` continues, for callers that are `Disciplined` and `OneAsker`
(`DisciplinedUse`); readers and writers, colliding folds, lost requests, lost
replies, a server that dies and any start-up order are included:

* `RefusalsJustified`: `Spec => RefusalJustified`.  `Holds(t, p)` is true from the
  moment the server grants p to t to the moment it executes the UNLOCK.  `HoldInv`
  adds to `MessageInv` and `NoWaiters` that calls are those of the use
  (`CallsOfUse`), that who holds a page has an entry (`HeldHasEntry`) and that an
  entry that says it is locked is held by somebody (`LockedIsHeld`).  Every step
  is `Quiet` or `Served`: outside `lock_request_callback` nothing begins or ends
  to be held, whatever moves; inside it one hold changes.
* `HoldersListed`: with `ApartFolds` (no two pages have the same fold),
  `Spec => []HolderListAgrees`.  Where folds collide, the list of an entry is that of
  several pages, and the property says nothing sensible.
* `Exclusion`: with `ExclusiveUse` (W_LOCK and UNLOCK only),
  `Spec => []MutualExclusion`.  `ExclusionInv` adds to `HoldInv` that a held entry is
  write-locked (`HeldRecorded`) and held once (`HeldUnique`).  The restriction to
  W_LOCK is needed: `lock_reader_writer` is the counterexample.
* `Implements`: under the same use, `Spec => ImplementsExclusiveLock`.  `owner` is the
  thread that `Holds` the page; `HeldUnique` makes it unique.  A page is acquired
  in the `lock_request_callback` that grants it and released in the one that
  executes the UNLOCK; all other steps stutter.

`FrameProofs`, for any number and sizes of frames, any header size, any senders and
waiting threads and any `cache_block` of a new `BevInfor`:

* `ImplementsChannel`: `Spec => ImplementsFifoChannel`.  A frame is sent to the abstract
  channel when its control block is written and comes out when the last of its
  data is taken, until `garbled` breaks it.  `StreamInv` below says which bytes those are, so the frame that
  comes out is the oldest unread one; every other step stutters or breaks the
  channel.  This is the channel that `PageLockService` assumes between a host and the server.
* `InOrder`: `Spec => []FramesInOrder`; `NoneLeftBehind`:
  `Spec => []NoFrameLeftBehind`; `SignalBalanced`: `Spec => []ReadSignalBalanced`.
  None is inductive alone.  The invariant is `garbled \/ StreamInv`.  `StreamInv` says what the bytes under way are without
  adding up the sizes of all frames sent before, which would need an induction:
  each byte determines the next (`Chain`, with `Follows`: the next of its frame, or
  the first of the next frame), the first one under way is the first that the
  receiver has not taken (`Front`), and a sender between its two writes is writing
  the last frame (`WritesLast`).  `SizeKept`: the size kept, by the connection or by
  the waiting thread, is that of the frame whose header was taken.  `ModesApart`: with
  a callback nobody waits and the watermark is that of the cached block.
  `Ungarbled`: one sender at most is between its writes and one thread at most in
  `recive_str_Wait`, which is what the history promises as long as it is false, and
  what the rest of the proof uses instead of an assumption on the constants.
  Initially a cached block does no harm when threads wait, since the first of them
  reads a header over it.

`ConnectionProofs`, for any threads, hosts, peers, their ports and number of
connections:

* `SendFinds`: `Spec => []SendFindsItsConnection`, races included.  It rests on
  `UsesStored`: an identifier is used only after it was stored, and the map only
  grows.
* `NoneOverwritten`: `Spec => []IdNamesOneConnection`.  `TableInv` adds that a
  connection being added belongs to one thread and is not yet in the map
  (`AddingApart`), that none is in the map twice (`MapInjective`, also after a
  race), and that up to a race an identifier between `load` and `store` is new and
  nobody else's (`IdsFresh`), so that no assignment overwrites
  (`NothingOverwritten`).  The proof shows where the two accesses to `max_bev_id`
  hurt: `IdsFresh` needs that no second thread is between them.
* `SentRight`: `Spec => []SentToItsHost`, `OnePerHost`:
  `Spec => []OneConnectionPerHost`, `ListenUsable`: `Spec => []ListenIdsUsable`,
  `TypeCorrect`: `Spec => []TypeOK`.  `RouteInv` adds what a thread means to do with
  a connection (`Purpose`), that an accepted connection is entered with the swapped
  port of a peer (`AcceptedFrom`), that a connection stays under the identifier it
  was stored with up to a race (`KeptUnderId`), that every message went to a
  connection entered under its address (`SentUnderAddress`), and that the vector
  only has identifiers whose callback is set (`VectorServed`).  `OnePerHost` rests on
  `FirstStays`: without races, what the search returns for a host never changes,
  because a thread connects only when there is none (`MadeWhenNone`), nobody else is
  entering that address (`EnteringApart`), and an accepted connection entered later
  under it has a larger identifier (`LaterLarger`).

`DispatchProofs`, for any message types, in any order of the configuration, any
number of messages, any threads and any calls of `readMessage`, filtered or not:

* `OnceEach`: `Spec => []EachMessageOnce`; `InOrderOfArrival`:
  `Spec => []ListsBeforeCallbacks`; `SafeOutsideWindows`: `Spec => CrashOnlyInWindows`;
  `TypeCorrect`.  The event loop takes messages in the order of their numbers, so
  `BufferInTurn` says that the buffer holds the latest ones, and everything listed,
  handled or read is at most `Taken` (`ListsInTurn`, `HandledByCallback`,
  `ReadLeftList`): the message taken next is in none of these places.  `StartUp`
  relates the counter of start-up steps to the entries, which is what rules out a
  wild pointer afterwards; it also says that a list is cleared only before
  anything was read.  `ReadersApart`: until `crowded`, a reader is alone in its list.
  `CopiedIsListed`: then nobody removes what a reader has copied, so the erase finds
  it.  `NoneMissing`: nothing disappears unless an
  append was lost.

`BufferProofs`, for every block size, number of calls, offset and size:

* `AppendsBehind`: `Spec => []SizeCovers`; `GapBounded`: `Spec => []GapBelowBlock`;
  `ReadsBack`: `Spec => []FirstBlockReadsBack`; `TypeCorrect`.  `BufferInv` is these,
  with `FirstBlockKept` in place of what `get` returns, and `Recorded`, the types of
  the history.  The lemmas are arithmetic: what `check_space` adds (`BlockCount`),
  and that the tail computed from the end of the data is that end (`TailIsEnd`).
  `PutSize` has the three cases of `put`: within the old end, beyond it in the
  last block, and with new blocks.

`JsonProofs`, for any set of well-formed packets, any buffer lengths, any number of
parses of one object and any values of an uninitialised type, the crash included:

* `ItemsAreReadBack`: `Spec => []ItemsReadBack`; `NotesLeadToValues`:
  `Spec => []NotesPointToValues`; `ItemsWholeOrLeftOut`: `Spec => []WholeOrLeftOut`;
  `StackComesBack`: `Spec => []StackReturns`.  All four speak of a parse that has
  returned, so none is inductive: `JsonInv` says where a parse is.  An induction over
  the text is avoided by two tables.  The stack is what earlier parses left
  (`Left`: one array for each packet without notes), with the entry on top that
  `HeaderStacks`, `ItemStacks` and `NoteStacks` have for the next event of a writer
  call (`Above`).  And `Data(p, n)` depends only on how many values the reader
  has met (`Met`): the items met have the last entries of `object_ptrs`, in order
  (`Named`), which is why names and offsets of earlier parses do no harm; they lie one
  after the other (`InRow`); each is whole except where a note covers it
  (`Contents`); in a buffer that is large enough each is at its `Place`, the number of
  bytes written before it (`Placed`), and each note met has its address in place
  (`Pointed`).  `Place` is a cardinality and no recursive sum, so adding a value is
  one lemma about finite sets.
* What the proof needs of a packet is exactly `WellFormed`: keys that differ for
  `Named`, pointers inside their item and apart for `Contents` and `Pointed`.  Earlier
  parses may have fitted their buffers or not.

`IdProofs`, for any clients, calls, retries and restarts:

* `IdsUnique`: `Spec => []UniqueIds`, and `OwnersRecorded`:
  `Spec => []OwnerRecorded`.  Neither is inductive, since both only speak of what
  clients have received.  `Inv` describes the server's side: who is between
  `lock_guard` and its end holds the mutex (`LockHeld`), so the counter is still
  what was put into the response (`ResponseFilled`); all identifiers given in this
  run are below the counter (`BelowCounter`), so no two responses of a run are equal
  (`ResponsesDiffer`); the map keeps what was entered (`MapHolds`); and a call has
  received the response to its current try (`OutcomeOfTry`, `TriesInOrder`).
  `TypeCorrect` comes with it.

Assumptions are those of the constants: `ThreadsAssumption`, `SidesAssumption`,
`PagesAssumption`, `NullAssumption`, `ServiceAssumption`, `MessagesAssumption`,
`StreamAssumption`, `AddressAssumption`, `ThreadAssumption`, `DispatchAssumption`,
`CallsAssumption`, `BufferAssumption`, `PacketAssumption`, `PacketsAssumption`.

Every invariant and every action property of the passing runs is a theorem.  Only
model-checked is liveness (`AnsweredUnlessStranded`, `FramesDelivered`,
`ConnectionServed`, `BufferDrained`, `PolledMessageTaken`, `EveryCallEnds`), which
is outside this prover's reach.

## 5. Plan

Done: the lock service, the spin lock, `FrameStream`, `ConnectionTable`,
`MessageDispatch`, `DynamicBuffer`, `JsonPacket`, `IdService`, with the theorems
of section 4 for each of them, lost replies and the two stores of the registration
included.  What is left: the walk of two threads over one `unprocessed` list inside
`PageLockService`, node by node, and the map of connections with the spin lock in
place of atomic sections.

## 6. Not modelled

* libevent, rapidjson, spdlog, uthash (vendored), `id.pb.*` (generated).  They are
  almost all of the repository's lines: of the 94 000 lines of C and C++ under
  `src/`, the program's own code is about 3 300, so the share of all lines
  that the map covers says little.  libevent is what `FrameStream` and
  `ConnectionTable` see through its calls; uthash is a partial function from keys;
  rapidjson is its sequence of events; brpc is its retries.
* `NetworkHandle` (no code), the logger (output only), reading the configuration
  (its result is the constants).
* The layout of an `EventMessage`: five fields copied behind a cursor of offsets.
* `remove_buffevent` and `free_handle`: reached from destructors only, and
  `remove_buffevent` never with a connection in the map.  Reading the listen
  vector, which no code does.
* Broken connections in `ConnectionTable` (the event callback is NULL, so the table
  never hears of one).
* The return of -1 of `wait_for_lock_reply`, when `readMessage` is -1: the
  configuration of the client has the type of the requests and not that of the
  replies.  `Configured` hosts have both, as in the shipped files.
* Data races on evbuffers (bufferevents are created without
  `BEV_OPT_THREADSAFE`) and on `bev_map` (when the spin lock fails to keep threads
  apart): a write, a read, an arrival, a search and an assignment are atomic steps.
  A first write that fails, which sends nothing.
* Memory: `lock_manager_free` and the entries that are never freed.
