-------------------------- MODULE ConnectionTable --------------------------
(***************************************************************************)
(* The connections of one LibeventHandle: identifiers from max_bev_id, the *)
(* map bev_map, the vector of accepted connections.  The event loop thread *)
(* accepts (connlistener_cb) and, in callbacks, sends; application threads *)
(* send, and connect when they find no connection to the host.             *)
(*                                                                         *)
(* A connection is its position in opened.  What a function does between   *)
(* rw_r_lock or rw_w_lock and the unlock is one step; RWSignal has the     *)
(* locks themselves.  A port is two bytes, read in host order by a         *)
(* little-endian machine.                                                  *)
(***************************************************************************)
EXTENDS Integers, Sequences, FiniteSets

CONSTANTS
    Loop,            \* the event loop thread
    Senders,         \* the threads that call sendMessage, Loop may be one
    Hosts,           \* the addresses of the configured hosts
    Peers,           \* the addresses incoming connections come from
    Byte,            \* values of a byte, 256
    MaxConnections   \* bound: connections opened

Address == [ip : Nat, port : 0 .. Byte * Byte - 1]

\* sockaddr_in.sin_port read as a number: the bytes are in network order.
sin_port(port) == (port % Byte) * Byte + port \div Byte

\* ntohl of a 16 bit port: its bytes end up in the upper half of the word.
ntohl(port) == sin_port(port) * Byte * Byte

\* The ports of peers are chosen by their kernels: any of them may, with its
\* bytes swapped, be the port of a host.
ASSUME AddressAssumption ==
    /\ Byte \in Nat \ {0}
    /\ Hosts \subseteq Address
    /\ Peers \subseteq Address

ASSUME ThreadAssumption ==
    /\ MaxConnections \in Nat
    /\ IsFiniteSet(Senders)

Threads == Senders \cup {Loop}

VARIABLES
    opened,            \* the connections, in the order of bufferevent_socket_new
    max_bev_id,        \* the next identifier
    bev_map,           \* from identifiers to connections
    listen_id_vector,  \* the identifiers of accepted connections
    enabled,           \* the connections whose read callback is set
    at,                \* at[t]: where thread t is
    to,                \* to[t]: the address t sends to or was called from
    bev,               \* bev[t]: the connection t has opened
    id,                \* id[t]: peer_id or connect_id
    written,           \* which connection carries messages for which address
    id_race,           \* two threads were between load and fetch_add at once
    connect_race,      \* two threads were entering one address at once
    crashed            \* the process used a NULL bufferevent

table == <<opened, max_bev_id, bev_map, listen_id_vector, enabled>>

locals == <<at, to, bev, id>>

races == <<id_race, connect_race>>

vars == <<table, locals, written, races, crashed>>

\* null: bufferevent_socket_new gave NULL.
BevInfor == [ip : Nat, port : 0 .. Byte * Byte - 1, is_listen : BOOLEAN, null : BOOLEAN]

\* init_handle.
Init ==
    /\ opened = <<>>
    /\ max_bev_id = 0
    /\ bev_map = <<>>
    /\ listen_id_vector = <<>>
    /\ enabled = {}
    /\ at = [t \in Threads |-> "idle"]
    /\ to \in [Threads -> Hosts]
    /\ bev = [t \in Threads |-> 0]
    /\ id = [t \in Threads |-> -1]
    /\ written = {}
    /\ id_race = FALSE
    /\ connect_race = FALSE
    /\ crashed = FALSE

Goto(t, from, next) ==
    /\ at[t] = from
    /\ at' = [at EXCEPT ![t] = next]

----------------------------------------------------------------------------
(***************************************************************************)
(* Looking a connection up.                                                *)
(***************************************************************************)

\* Faulty variant: the ports are not compared.
Matches_ip_only(ip, port) == {i \in DOMAIN bev_map : opened[bev_map[i]].ip = ip}

\* The identifiers get_connection_id(ip, port) compares equal.
Matches(ip, port) ==
    {i \in DOMAIN bev_map : opened[bev_map[i]].ip = ip /\ opened[bev_map[i]].port = port}

\* Another thread is about to enter a connection under the same address.
Connecting(t, ip, port) ==
    \E u \in Threads \ {t} :
        \/ /\ at[u] = "connect"
           /\ to[u].ip = ip /\ to[u].port = port
        \/ /\ at[u] \in {"load", "add", "store"}
           /\ opened[bev[u]].ip = ip /\ opened[bev[u]].port = port

\* Faulty variant: the search always says that there is no connection.
get_connection_id_blind(t, d) ==
    /\ Goto(t, "idle", "connect")
    /\ to' = [to EXCEPT ![t] = d]
    /\ connect_race' = (connect_race \/ Connecting(t, d.ip, d.port))
    /\ UNCHANGED <<table, bev, id, written, id_race>>

\* sendMessage: get_connection_id(ip, port, true).  The map is searched in the
\* order of identifiers; if nothing is found the thread goes on to try_connect.
get_connection_id(t, d) ==
    /\ at[t] = "idle"
    /\ to' = [to EXCEPT ![t] = d]
    /\ \/ \E i \in Matches(d.ip, d.port) :
              /\ \A j \in Matches(d.ip, d.port) : i <= j
              /\ id' = [id EXCEPT ![t] = i]
              /\ at' = [at EXCEPT ![t] = "send"]
              /\ UNCHANGED connect_race
       \/ /\ Matches(d.ip, d.port) = {}
          /\ at' = [at EXCEPT ![t] = "connect"]
          /\ connect_race' = (connect_race \/ Connecting(t, d.ip, d.port))
          /\ UNCHANGED id
    /\ UNCHANGED <<table, bev, written, id_race>>

----------------------------------------------------------------------------
(***************************************************************************)
(* Adding a connection: add_bufferevent_connect, add_bufferevent_listen.   *)
(***************************************************************************)

\* Faulty variant: send does not test connect_id < 0.
connect_failure_unnoticed(t) ==
    /\ Goto(t, "connect", "send")
    /\ UNCHANGED <<table, to, bev, id, written, races>>

\* bufferevent_socket_new gives NULL or bufferevent_socket_connect fails: -1,
\* send returns false, and sendMessage returns 1 all the same.
connect_failure(t) ==
    /\ Goto(t, "connect", "idle")
    /\ UNCHANGED <<table, to, bev, id, written, races>>

\* bufferevent_socket_new gives a new connection, described by BevInfor.
Open(t, a, is_listen, null) ==
    /\ Len(opened) < MaxConnections
    /\ opened' = Append(opened, [ip |-> a.ip, port |-> a.port, is_listen |-> is_listen,
                                 null |-> null])
    /\ bev' = [bev EXCEPT ![t] = Len(opened) + 1]
    /\ UNCHANGED <<max_bev_id, bev_map, listen_id_vector, enabled, id, written, id_race>>

add_bufferevent_connect(t) ==
    /\ Goto(t, "connect", "load")
    /\ Open(t, to[t], FALSE, FALSE)
    /\ UNCHANGED <<to, connect_race>>

\* An incoming connection from a.  It is looked up with ntohl(sin_port) and
\* entered with sin_port, also when bufferevent_socket_new gave NULL.
connlistener_cb(a) ==
    /\ Goto(Loop, "idle", "load")
    /\ Matches(a.ip, ntohl(sin_port(a.port))) = {}
    /\ \E null \in BOOLEAN :
           Open(Loop, [ip |-> a.ip, port |-> sin_port(a.port)], TRUE, null)
    /\ to' = [to EXCEPT ![Loop] = a]
    /\ connect_race' = (connect_race \/ Connecting(Loop, a.ip, sin_port(a.port)))

\* Faulty variant: the identifier is computed as if it had been counted up.
load_id_less_one(t) ==
    /\ Goto(t, "load", "add")
    /\ id' = [id EXCEPT ![t] = max_bev_id - 1]
    /\ id_race' = (id_race \/ \E u \in Threads \ {t} : at[u] = "add")
    /\ UNCHANGED <<table, to, bev, written, connect_race>>

\* peer_id = max_bev_id.load()
load_id(t) ==
    /\ Goto(t, "load", "add")
    /\ id' = [id EXCEPT ![t] = max_bev_id]
    /\ id_race' = (id_race \/ \E u \in Threads \ {t} : at[u] = "add")
    /\ UNCHANGED <<table, to, bev, written, connect_race>>

\* Faulty variant: the increment is forgotten.
fetch_add_forgotten(t) ==
    /\ Goto(t, "add", "store")
    /\ UNCHANGED <<table, to, bev, id, written, races>>

\* max_bev_id.fetch_add(1)
fetch_add(t) ==
    /\ Goto(t, "add", "store")
    /\ max_bev_id' = max_bev_id + 1
    /\ UNCHANGED <<opened, bev_map, listen_id_vector, enabled, to, bev, id, written, races>>

\* bev_map[peer_id] = peer
store(t) ==
    /\ Goto(t, "store", "set")
    /\ bev_map' = [i \in DOMAIN bev_map \cup {id[t]} |->
                      IF i = id[t] THEN bev[t] ELSE bev_map[i]]
    /\ UNCHANGED <<opened, max_bev_id, listen_id_vector, enabled, to, bev, id, written, races>>

\* Faulty variant: the callback of an accepted connection is not set.
set_connection_cb_connects(t) ==
    /\ Goto(t, "set", IF opened[bev[t]].is_listen THEN "push" ELSE "send")
    /\ enabled' = IF opened[bev[t]].is_listen THEN enabled
                  ELSE enabled \cup {bev_map[id[t]]}
    /\ UNCHANGED <<opened, max_bev_id, bev_map, listen_id_vector, to, bev, id, written, races>>

\* Reads bev_map[id] again, without the lock, and enables what it finds there.
set_connection_cb(t) ==
    /\ Goto(t, "set", IF opened[bev[t]].is_listen THEN "push" ELSE "send")
    /\ ~opened[bev_map[id[t]]].null
    /\ enabled' = enabled \cup {bev_map[id[t]]}
    /\ UNCHANGED <<opened, max_bev_id, bev_map, listen_id_vector, to, bev, id, written, races>>

\* Faulty variant: the position in the vector is taken for the identifier.
push_back_position(t) ==
    /\ Goto(t, "push", "idle")
    /\ listen_id_vector' = Append(listen_id_vector, Len(listen_id_vector))
    /\ UNCHANGED <<opened, max_bev_id, bev_map, enabled, to, bev, id, written, races>>

\* listen_id_vector.push_back(peer_id)
push_back(t) ==
    /\ Goto(t, "push", "idle")
    /\ listen_id_vector' = Append(listen_id_vector, id[t])
    /\ UNCHANGED <<opened, max_bev_id, bev_map, enabled, to, bev, id, written, races>>

----------------------------------------------------------------------------

\* send looks the identifier up again and writes to the connection found.
send(t) ==
    /\ Goto(t, "send", "idle")
    /\ id[t] \in DOMAIN bev_map
    /\ ~opened[bev_map[id[t]]].null
    /\ written' = written \cup {[bev |-> bev_map[id[t]], to |-> to[t]]}
    /\ UNCHANGED <<table, to, bev, id, races>>

\* bufferevent_setcb or bufferevent_write is called with NULL: the process ends.
use_null(t) ==
    /\ at[t] \in {"set", "send"}
    /\ id[t] \in DOMAIN bev_map
    /\ opened[bev_map[id[t]]].null
    /\ crashed' = TRUE
    /\ UNCHANGED <<table, locals, written, races>>

Alive == ~crashed /\ UNCHANGED crashed

Step(t) ==
    \/ /\ Alive
       /\ \/ connect_failure(t)
          \/ add_bufferevent_connect(t)
          \/ load_id(t)
          \/ fetch_add(t)
          \/ store(t)
          \/ set_connection_cb(t)
          \/ push_back(t)
          \/ send(t)
    \/ ~crashed /\ use_null(t)

Next ==
    \/ Alive /\ \E t \in Senders, d \in Hosts : get_connection_id(t, d)
    \/ Alive /\ \E a \in Peers : connlistener_cb(a)
    \/ \E t \in Threads : Step(t)

Spec == Init /\ [][Next]_vars

\* A thread inside one of the functions goes on, past the spin locks too.
\* Nobody is obliged to send or to connect.
Fairness == \A t \in Threads : WF_vars(Step(t))

FairSpec == Spec /\ Fairness

----------------------------------------------------------------------------
(***************************************************************************)
(* Properties.                                                             *)
(***************************************************************************)

\* The connections that are in the map: all but those of threads that have
\* not come to the assignment.
Stored ==
    {c \in DOMAIN opened : \A t \in Threads : at[t] \in {"load", "add", "store"} => bev[t] # c}

\* The map, the vector, and the variables of the threads have their types.
TypeOK ==
    /\ opened \in Seq(BevInfor)
    /\ max_bev_id \in Nat
    /\ DOMAIN bev_map \subseteq Nat
    /\ \A i \in DOMAIN bev_map : bev_map[i] \in DOMAIN opened
    /\ listen_id_vector \in Seq(Nat)
    /\ enabled \subseteq DOMAIN opened
    /\ at \in [Threads -> {"idle", "connect", "load", "add", "store", "set", "push", "send"}]
    /\ to \in [Threads -> Hosts \cup Peers]
    /\ bev \in [Threads -> Nat]
    /\ id \in [Threads -> Nat \cup {-1}]
    /\ written \subseteq [bev : DOMAIN opened, to : Hosts]
    /\ id_race \in BOOLEAN
    /\ connect_race \in BOOLEAN
    /\ crashed \in BOOLEAN

\* The identifier a thread passes to send is in the map, whatever the other
\* threads do: the return of send that keeps the read lock is never taken.
SendFindsItsConnection == \A t \in Threads : at[t] = "send" => id[t] \in DOMAIN bev_map

\* Until two threads load the same identifier, every connection entered is in
\* the map under one identifier, so get_connection_id(bev), with which the read
\* callback begins, finds it.
IdNamesOneConnection ==
    ~id_race => \A c \in Stored : \E i \in DOMAIN bev_map :
                    bev_map[i] = c /\ \A j \in DOMAIN bev_map : bev_map[j] = c => j = i

\* Until then, a message is written to a connection opened to its host or, as
\* get_connection_id does not look at is_listen, to one accepted from a peer
\* whose port, with its bytes swapped, is that of the host.
SentToItsHost ==
    ~id_race => \A m \in written :
                    /\ opened[m.bev].ip = m.to.ip
                    /\ opened[m.bev].port = m.to.port
                    /\ opened[m.bev].is_listen =>
                           \E a \in Peers : a.ip = m.to.ip /\ sin_port(a.port) = m.to.port

\* Until two threads also enter one address at once, all messages for a host
\* are on one connection, so that they arrive in the order of sending: a
\* connection accepted later under the address of the host is never chosen.
OneConnectionPerHost ==
    ~id_race /\ ~connect_race =>
        \A m, n \in written : m.to = n.to => m.bev = n.bev

\* An identifier is in the vector only when its connection is in the map with
\* its callback set, and only once: who takes identifiers from
\* get_listen_connection_array can use them at once.
ListenIdsUsable ==
    \A k \in DOMAIN listen_id_vector :
        /\ listen_id_vector[k] \in DOMAIN bev_map
        /\ ~id_race => /\ opened[bev_map[listen_id_vector[k]]].is_listen
                       /\ bev_map[listen_id_vector[k]] \in enabled
                       /\ \A l \in DOMAIN listen_id_vector :
                              listen_id_vector[l] = listen_id_vector[k] => l = k

\* Every connection, accepted or made, gets its read callback, unless
\* identifiers are taken twice or the process ends at a NULL bufferevent.  This
\* presumes that rw_w_lock is always got, which fails once the signal of the map
\* has drifted below 0 (NegativeMeansWriter of RWSignal is violated).
ConnectionServed ==
    \A c \in 1 .. MaxConnections :
        (c \in DOMAIN opened) ~> (c \in enabled \/ id_race \/ crashed)

=============================================================================
