-------------------------- MODULE MessageDispatch --------------------------
(***************************************************************************)
(* One group of an EventMessageHandle: start-up, dispatch by the event     *)
(* loop, registration of callbacks, and threads that take messages from    *)
(* the unprocessed lists.                                                  *)
(*                                                                         *)
(* The listener is open before the callback of the network layer is set    *)
(* and before the message types are entered one after the other, so the    *)
(* event loop can find any stage of the start-up.  A message is its number *)
(* of arrival; frames are whole here (FrameStream).  Neither the list nor  *)
(* the callback entries are locked: where an access of the event loop      *)
(* meets one of another thread, the outcomes are a choice.  What two       *)
(* threads may do to each other in readMessage of one list goes beyond     *)
(* the outcomes modelled; crowded records that they met.                   *)
(***************************************************************************)
EXTENDS Integers, Sequences, SequencesExt

CONSTANTS
    TypeOrder,    \* the message types of the group, in the order of the file
    Other,        \* a type the configuration does not have
    Readers,      \* threads that call readMessage
    Calls,        \* the calls of readMessage the threads make: thread, type, filter
    MaxMessages,  \* bound: messages that arrive
    Nothing       \* the reader holds no message

Types == ToSet(TypeOrder)

ASSUME DispatchAssumption ==
    /\ TypeOrder \in Seq(Types)
    /\ IsInjective(TypeOrder)
    /\ Other \notin Types
    /\ MaxMessages \in Nat

ASSUME CallsAssumption ==
    Calls \subseteq [reader : Readers, type : Types, filtered : BOOLEAN]

VARIABLES
    started,      \* steps of init_group_infor_map done
    cb_function,  \* cb_function[ty]: "garbage", "NULL" or "set"
    cb_arg,       \* cb_arg[ty]: "NULL" or "set"
    arrived,      \* arrived[n]: the type of message n
    input,        \* messages in the input buffer of the connection
    loop,         \* the event loop: "waiting", "callback", "crashed"
    unprocessed_mess_list,
    deaf,         \* the types whose list was cut: what is appended is not found
    reading,      \* reading[r]: the call of readMessage r is in: the type, whether
                  \* it has a filter, and the message copied and not yet erased
    read,         \* the messages readMessage has returned, in order
    handled,      \* the messages given to callbacks: [message, arg]
    ready,        \* history: the messages taken after the start-up
    raced,        \* history: an append was lost to a concurrent erase
    crowded       \* history: two threads were in readMessage of one list

app == <<reading, read, crowded>>

startup == <<started, cb_function, cb_arg>>

vars == <<startup, arrived, input, loop, unprocessed_mess_list, deaf, app, handled, ready, raced>>

Init ==
    /\ started = 0
    /\ cb_function = [ty \in Types |-> "garbage"]
    /\ cb_arg = [ty \in Types |-> "NULL"]
    /\ arrived = <<>>
    /\ input = <<>>
    /\ loop = "waiting"
    /\ unprocessed_mess_list = [ty \in Types |-> <<>>]
    /\ deaf = {}
    /\ reading = [r \in Readers |-> Nothing]
    /\ read = <<>>
    /\ handled = <<>>
    /\ ready = {}
    /\ raced = FALSE
    /\ crowded = FALSE

Running == loop # "crashed"

----------------------------------------------------------------------------
(***************************************************************************)
(* Start-up: init_handle opens the port, set_event_callback makes two      *)
(* stores, and each type is entered and then cleared.                      *)
(***************************************************************************)
Listening == started >= 1

CallbackSet == started >= 2

ArgSet == started >= 3

Position(ty) == CHOOSE k \in DOMAIN TypeOrder : TypeOrder[k] = ty

Entered(ty) == ty \in Types /\ started >= 2 + 2 * Position(ty)

InitSteps == 3 + 2 * Len(TypeOrder)

InitDone == started = InitSteps

\* init_handle and set_event_callback: the listener, the function, its argument.
init_handle ==
    /\ Running
    /\ started < 3
    /\ started' = started + 1
    /\ UNCHANGED <<cb_function, cb_arg, arrived, input, loop, unprocessed_mess_list, deaf, app,
                   handled, ready, raced>>

\* Faulty variant: the members are left as they are.
init_group_infor_map_wild ==
    /\ Running
    /\ started \in 3 .. InitSteps - 1
    /\ started' = started + 1
    /\ UNCHANGED <<cb_function, cb_arg, arrived, input, loop, unprocessed_mess_list, deaf, app,
                   handled, ready, raced>>

\* mess_callback_map[name] = cb_infor, which has not been initialised; in the
\* next step its members are set.
init_group_infor_map ==
    /\ Running
    /\ started \in 3 .. InitSteps - 1
    /\ started' = started + 1
    /\ \/ /\ started % 2 = 1
          /\ UNCHANGED <<cb_function, unprocessed_mess_list>>
       \/ /\ started % 2 = 0
          /\ LET ty == TypeOrder[(started - 2) \div 2]
             IN  /\ cb_function' = [cb_function EXCEPT ![ty] = "NULL"]
                 /\ unprocessed_mess_list' = [unprocessed_mess_list EXCEPT ![ty] = <<>>]
    /\ UNCHANGED <<cb_arg, arrived, input, loop, deaf, app, handled, ready, raced>>

\* Faulty variant: registering starts with an empty list.
register_clears_list(ty) ==
    /\ Running
    /\ InitDone
    /\ cb_function[ty] = "NULL"
    /\ cb_function' = [cb_function EXCEPT ![ty] = "set"]
    /\ unprocessed_mess_list' = [unprocessed_mess_list EXCEPT ![ty] = <<>>]
    /\ UNCHANGED <<started, cb_arg, arrived, input, loop, deaf, app, handled, ready, raced>>

\* register_recive_handler stores the function first and its argument after.
register_cb_function(ty) ==
    /\ Running
    /\ InitDone
    /\ cb_function[ty] = "NULL"
    /\ cb_function' = [cb_function EXCEPT ![ty] = "set"]
    /\ UNCHANGED <<started, cb_arg, arrived, input, loop, unprocessed_mess_list, deaf, app,
                   handled, ready, raced>>

register_cb_arg(ty) ==
    /\ Running
    /\ cb_function[ty] = "set"
    /\ cb_arg[ty] = "NULL"
    /\ cb_arg' = [cb_arg EXCEPT ![ty] = "set"]
    /\ UNCHANGED <<started, cb_function, arrived, input, loop, unprocessed_mess_list, deaf, app,
                   handled, ready, raced>>

----------------------------------------------------------------------------
(***************************************************************************)
(* The event loop.                                                         *)
(***************************************************************************)

\* A message arrives.  Without a callback it stays in the buffer; with a
\* callback whose argument is not stored yet, libevent_callback gets a wild
\* pointer.
default_bufferevent_read_cb(ty) ==
    /\ loop = "waiting"
    /\ Listening
    /\ Len(arrived) < MaxMessages
    /\ arrived' = Append(arrived, ty)
    /\ input' = Append(input, Len(arrived) + 1)
    /\ loop' = IF ~CallbackSet THEN "waiting" ELSE IF ArgSet THEN "callback" ELSE "crashed"
    /\ UNCHANGED <<startup, unprocessed_mess_list, deaf, app, handled, ready, raced>>

\* No message has been copied yet.
NotYet == 0

\* A reader is erasing the last element of the list, which the filtered
\* readMessage can do to a list of any length.
ErasingLast(ty) ==
    \E r \in Readers :
        /\ reading[r] # Nothing /\ reading[r].type = ty
        /\ unprocessed_mess_list[ty] # <<>>
        /\ reading[r].message = Last(unprocessed_mess_list[ty])

\* Faulty variant: new messages are put in front.
push_front(ty, n) ==
    /\ unprocessed_mess_list' = [unprocessed_mess_list EXCEPT ![ty] = <<n>> \o @]
    /\ UNCHANGED <<deaf, raced>>

\* unprocessed_mess_list.push_back.  Both it and the erase of the last element
\* store the predecessor of the end: the new node may be lost, and the list
\* then be sound without it or cut behind what is left.
push_back(ty, n) ==
    \/ /\ ty \notin deaf
       /\ unprocessed_mess_list' = [unprocessed_mess_list EXCEPT ![ty] = Append(@, n)]
       /\ UNCHANGED <<deaf, raced>>
    \/ /\ ty \in deaf \/ ErasingLast(ty)
       /\ deaf' \in {deaf, deaf \cup {ty}}
       /\ raced' = TRUE
       /\ UNCHANGED unprocessed_mess_list

\* Between the two stores of register_recive_handler.
HalfRegistered(ty) == ty \in Types /\ cb_function[ty] = "set" /\ cb_arg[ty] = "NULL"

\* try_run_callback for a type that is entered.  A function pointer that is not
\* initialised may be called, or happen to be NULL; a callback that is given no
\* argument yet may follow it, as lock_request_callback does.
try_run_callback(ty, n) ==
    \/ /\ cb_function[ty] = "set"
       /\ handled' = Append(handled, [message |-> n, arg |-> cb_arg[ty]])
       /\ loop' \in {"callback", IF HalfRegistered(ty) THEN "crashed" ELSE "callback"}
       /\ UNCHANGED <<unprocessed_mess_list, deaf, raced>>
    \/ /\ cb_function[ty] \in {"NULL", "garbage"}
       /\ push_back(ty, n)
       /\ loop' = "callback"
       /\ UNCHANGED handled
    \/ /\ cb_function[ty] = "garbage"
       /\ loop' = "crashed"
       /\ UNCHANGED <<unprocessed_mess_list, deaf, raced, handled>>

\* Faulty variant: one message per callback.
read_one_message ==
    /\ loop = "callback"
    /\ input # <<>>
    /\ input' = Tail(input)
    /\ ready' = IF InitDone THEN ready \cup {Head(input)} ELSE ready
    /\ loop' = "waiting"
    /\ IF Entered(arrived[Head(input)])
       THEN push_back(arrived[Head(input)], Head(input))
       ELSE UNCHANGED <<unprocessed_mess_list, deaf, raced>>
    /\ UNCHANGED <<startup, arrived, app, handled>>

\* One turn of the loop over the buffer.  An unknown message is dropped and
\* ends the loop.
read_callback_message_from_libevent ==
    /\ loop = "callback"
    /\ \/ /\ input = <<>>
          /\ loop' = "waiting"
          /\ UNCHANGED <<input, unprocessed_mess_list, deaf, raced, handled, ready>>
       \/ /\ input # <<>>
          /\ input' = Tail(input)
          /\ ready' = IF InitDone THEN ready \cup {Head(input)} ELSE ready
          /\ LET ty == arrived[Head(input)]
             IN  \/ /\ Entered(ty)
                    /\ try_run_callback(ty, Head(input))
                 \/ /\ ~Entered(ty)
                    /\ loop' = "waiting"
                    /\ UNCHANGED <<unprocessed_mess_list, deaf, raced, handled>>
    /\ UNCHANGED <<startup, arrived, app>>

----------------------------------------------------------------------------
(***************************************************************************)
(* readMessage: the list is looked at, a message is found and copied, then *)
(* erased.                                                                 *)
(***************************************************************************)

readMessage_enter(r, ty, filtered) ==
    /\ Running
    /\ InitDone
    /\ reading[r] = Nothing
    /\ reading' = [reading EXCEPT ![r] =
           [type |-> ty, filtered |-> filtered, message |-> NotYet]]
    /\ crowded' = (crowded \/ \E q \in Readers : reading[q] # Nothing /\ reading[q].type = ty)
    /\ UNCHANGED <<startup, arrived, input, loop, unprocessed_mess_list, deaf, read, handled,
                   ready, raced>>

Looking(r) == reading[r] # Nothing /\ reading[r].message = NotYet

\* Faulty variant: front() of a list that may be empty.
readMessage_copy_untested(r) ==
    /\ Running
    /\ Looking(r)
    /\ reading' = [reading EXCEPT ![r].message =
           IF unprocessed_mess_list[reading[r].type] = <<>> THEN Nothing
           ELSE Head(unprocessed_mess_list[reading[r].type])]
    /\ UNCHANGED <<startup, arrived, input, loop, unprocessed_mess_list, deaf, read, handled,
                   ready, raced, crowded>>

\* Without a filter the first message is taken, with one any message may be the
\* first that passes.
readMessage_copy(r) ==
    /\ Running
    /\ Looking(r)
    /\ \E i \in DOMAIN unprocessed_mess_list[reading[r].type] :
           /\ reading[r].filtered \/ i = 1
           /\ reading' = [reading EXCEPT ![r].message =
                  unprocessed_mess_list[reading[r].type][i]]
    /\ UNCHANGED <<startup, arrived, input, loop, unprocessed_mess_list, deaf, read, handled,
                   ready, raced, crowded>>

\* The list is empty, or no message of it passes: readMessage returns 0.
readMessage_none(r) ==
    /\ Running
    /\ Looking(r)
    /\ unprocessed_mess_list[reading[r].type] = <<>> \/ reading[r].filtered
    /\ reading' = [reading EXCEPT ![r] = Nothing]
    /\ UNCHANGED <<startup, arrived, input, loop, unprocessed_mess_list, deaf, read, handled,
                   ready, raced, crowded>>

\* Faulty variant: the message stays in the list.
readMessage_no_erase(r) ==
    /\ Running
    /\ reading[r] # Nothing /\ ~Looking(r)
    /\ read' = Append(read, reading[r].message)
    /\ reading' = [reading EXCEPT ![r] = Nothing]
    /\ UNCHANGED <<startup, arrived, input, loop, unprocessed_mess_list, deaf, handled, ready,
                   raced, crowded>>

\* erase, and return 1.  To erase the last message stores the predecessor of the
\* end again, which joins a list that was cut unless a push_back is under way.
\* A message that another thread has erased is freed twice.
readMessage_erase(r) ==
    /\ Running
    /\ reading[r] # Nothing /\ ~Looking(r)
    /\ LET ty == reading[r].type
           n == reading[r].message
       IN  /\ unprocessed_mess_list' =
                  [unprocessed_mess_list EXCEPT ![ty] = RemoveFirst(@, n)]
           /\ deaf' \in {deaf, IF ErasingLast(ty) THEN deaf \ {ty} ELSE deaf}
           /\ loop' \in {loop, IF n \in ToSet(unprocessed_mess_list[ty]) THEN loop
                                ELSE "crashed"}
           /\ read' = Append(read, n)
    /\ reading' = [reading EXCEPT ![r] = Nothing]
    /\ UNCHANGED <<startup, arrived, input, handled, ready, raced, crowded>>

----------------------------------------------------------------------------

Next ==
    \/ init_handle
    \/ init_group_infor_map
    \/ \E ty \in Types : register_cb_function(ty) \/ register_cb_arg(ty)
    \/ \E ty \in Types \cup {Other} : default_bufferevent_read_cb(ty)
    \/ read_callback_message_from_libevent
    \/ \E c \in Calls : readMessage_enter(c.reader, c.type, c.filtered)
    \/ \E r \in Readers : readMessage_copy(r) \/ readMessage_none(r)
    \/ \E r \in Readers : readMessage_erase(r)

Spec == Init /\ [][Next]_vars

\* The start-up finishes, the event loop goes on, and a call of readMessage
\* returns.  Nobody is obliged to send, to register or to call readMessage.
Fairness ==
    /\ WF_vars(init_handle \/ init_group_infor_map)
    /\ WF_vars(read_callback_message_from_libevent)
    /\ \A r \in Readers :
           WF_vars(readMessage_copy(r) \/ readMessage_none(r) \/ readMessage_erase(r))

FairSpec == Spec /\ Fairness

----------------------------------------------------------------------------
(***************************************************************************)
(* Properties.                                                             *)
(***************************************************************************)
Message == 1 .. MaxMessages

Handled == {handled[i].message : i \in DOMAIN handled}

Listed(ty) == ToSet(unprocessed_mess_list[ty])

AllKnown == Other \notin ToSet(arrived)

\* The start-up, the lists, the buffer and the histories have their types.
TypeOK ==
    /\ started \in 0 .. InitSteps
    /\ cb_function \in [Types -> {"garbage", "NULL", "set"}]
    /\ cb_arg \in [Types -> {"NULL", "set"}]
    /\ arrived \in Seq(Types \cup {Other}) /\ Len(arrived) <= MaxMessages
    /\ input \in Seq(DOMAIN arrived)
    /\ loop \in {"waiting", "callback", "crashed"}
    /\ unprocessed_mess_list \in [Types -> Seq(DOMAIN arrived)]
    /\ deaf \subseteq Types
    /\ reading \in [Readers -> [type : Types, filtered : BOOLEAN,
                               message : DOMAIN arrived \cup {NotYet}] \cup {Nothing}]
    /\ read \in Seq(DOMAIN arrived)
    /\ handled \in Seq([message : DOMAIN arrived, arg : {"NULL", "set"}])
    /\ ready \subseteq DOMAIN arrived
    /\ raced \in BOOLEAN
    /\ crowded \in BOOLEAN

\* A message of a configured type that the event loop takes after init_handle
\* has returned is in exactly one of three places, at most once: the list of its
\* type, what callbacks have got, what readMessage has returned.  An append that
\* meets the erase of the last element may lose it (raced); of a process in which
\* two threads have been in readMessage of one list nothing is said (crowded).
EachMessageOnce ==
    ~crowded =>
    /\ IsInjective(read)
    /\ \A i, j \in DOMAIN handled : handled[i].message = handled[j].message => i = j
    /\ \A n \in ready :
           LET ty == arrived[n]
           IN  ty \in Types =>
                   \/ n \in Listed(ty) /\ n \notin Handled /\ n \notin ToSet(read)
                   \/ n \notin Listed(ty) /\ n \in Handled /\ n \notin ToSet(read)
                   \/ n \notin Listed(ty) /\ n \notin Handled /\ n \in ToSet(read)
                   \/ raced /\ n \notin Listed(ty) /\ n \notin Handled /\ n \notin ToSet(read)

\* A list is in the order of arrival, and what callbacks have got of a type
\* arrived after everything that went to its list, read by now or not: the
\* registration divides the messages of a type.  It says nothing of when a
\* listed message is read, which may be after a later one was handled.
ListsBeforeCallbacks ==
    ~crowded =>
    \A ty \in Types :
        /\ \A i, j \in DOMAIN unprocessed_mess_list[ty] :
               i < j => unprocessed_mess_list[ty][i] < unprocessed_mess_list[ty][j]
        /\ \A n \in Listed(ty) \cup {m \in ToSet(read) : arrived[m] = ty} :
               \A m \in Handled : arrived[m] = ty => n < m

\* A wild or NULL pointer is only followed before init_handle has returned, or
\* for a message of a type that is between the two stores of its registration;
\* apart from that only two threads in readMessage of one list can end the
\* process.
CrashOnlyInWindows ==
    [][loop # "crashed" /\ loop' = "crashed" =>
           \/ ~InitDone
           \/ input # <<>> /\ HalfRegistered(arrived[Head(input)])
           \/ crowded]_vars

\* The read callback empties the buffer, what arrived before the callback was set
\* included, if all messages are of configured types and the process lives.
BufferDrained ==
    []AllKnown => ((loop = "callback" /\ InitDone) ~> (input = <<>> \/ loop = "crashed"))

\* A thread looks into the list of the type without a filter.
Polled(ty) ==
    /\ Running
    /\ \E r \in Readers : reading[r] # Nothing /\ reading[r].type = ty /\ ~reading[r].filtered

\* A message whose list is polled again and again without a filter is returned or
\* was given to a callback, whatever other threads read with a filter and also when
\* a callback is registered in the meantime, unless its append was lost.  A list
\* that nobody polls, as the lock server's, keeps its messages.
PolledMessageTaken ==
    \A n \in Message :
        []<>(n \in ready /\ Polled(arrived[n]))
        => <>(n \in Handled \cup ToSet(read) \/ raced \/ crowded)

=============================================================================
