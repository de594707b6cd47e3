-------------------------- MODULE ConnectionProofs --------------------------
(***************************************************************************)
(* What holds of the connection table for any number of threads, hosts and *)
(* connections.  TableInv is about the map: an identifier given to send is *)
(* always in it, and without a race for an identifier no connection is     *)
(* overwritten.  RouteInv is about what a connection is for: a message is  *)
(* written to a connection entered under the address of its host, the same *)
(* for all messages to that host, and the vector has accepted ones.        *)
(***************************************************************************)
EXTENDS ConnectionTable, TLAPS

\* As much of the types as the proofs need.
Types ==
    /\ opened \in Seq([ip : Nat, port : Int, is_listen : BOOLEAN, null : BOOLEAN])
    /\ max_bev_id \in Nat
    /\ DOMAIN bev_map \subseteq Nat
    /\ \A i \in DOMAIN bev_map : bev_map[i] \in DOMAIN opened
    /\ at \in [Threads -> {"idle", "connect", "load", "add", "store", "set", "push", "send"}]
    /\ to \in [Threads -> Hosts \cup Peers]
    /\ bev \in [Threads -> Nat]
    /\ id \in [Threads -> Nat \cup {-1}]
    /\ \A t \in Threads : at[t] \in {"add", "store"} => id[t] \in Nat

\* Thread t has opened a connection that is not yet in the map.
Adding(t) == at[t] \in {"load", "add", "store"}

\* The assignment to bev_map comes before anything that uses the identifier.
UsesStored == \A t \in Threads : at[t] \in {"set", "push", "send"} => id[t] \in DOMAIN bev_map

\* A connection that is being added belongs to one thread and is not in the map.
AddingApart ==
    \A t \in Threads :
        Adding(t) =>
            /\ bev[t] \in DOMAIN opened
            /\ \A i \in DOMAIN bev_map : bev_map[i] # bev[t]
            /\ \A u \in Threads : u # t /\ Adding(u) => bev[u] # bev[t]

\* No connection is in the map twice.
MapInjective == \A i, j \in DOMAIN bev_map : bev_map[i] = bev_map[j] => i = j

\* Without a race the identifier between load and store is new.
IdsFresh ==
    ~id_race =>
        /\ \A i \in DOMAIN bev_map : i < max_bev_id
        /\ \A t \in Threads :
              at[t] = "add" => /\ id[t] = max_bev_id
                               /\ \A u \in Threads : u # t => at[u] # "add"
        /\ \A t \in Threads :
              at[t] = "store" => /\ id[t] < max_bev_id
                                 /\ id[t] \notin DOMAIN bev_map
                                 /\ \A u \in Threads : u # t /\ at[u] = "store" => id[u] # id[t]

\* Without a race no connection has been overwritten.
NothingOverwritten ==
    ~id_race => \A c \in DOMAIN opened :
                    \/ \E t \in Threads : Adding(t) /\ bev[t] = c
                    \/ \E i \in DOMAIN bev_map : bev_map[i] = c

TableInv ==
    /\ Types
    /\ UsesStored
    /\ AddingApart
    /\ MapInjective
    /\ IdsFresh
    /\ NothingOverwritten

----------------------------------------------------------------------------
(***************************************************************************)
(* Every step preserves the invariant: one lemma for each action.          *)
(***************************************************************************)

\* The table that init_handle leaves.
LEMMA InitInv == Init => TableInv
BY DEF Init, TableInv, Types, UsesStored, AddingApart, Adding, MapInjective, IdsFresh,
       NothingOverwritten

Record == [ip : Nat, port : Int, is_listen : BOOLEAN, null : BOOLEAN]

\* A new connection gets the position behind all others.
LEMMA NewConnection ==
    ASSUME TableInv, NEW r \in Record, opened' = Append(opened, r)
    PROVE  /\ opened' \in Seq(Record)
           /\ Len(opened) + 1 \in Nat
           /\ DOMAIN opened' = DOMAIN opened \cup {Len(opened) + 1}
           /\ Len(opened) + 1 \notin DOMAIN opened
BY DEF TableInv, Types, Record

\* get_connection_id of LibeventHandle.
LEMMA get_connection_id_Inv ==
    ASSUME TableInv, NEW t \in Threads, NEW d \in Hosts, get_connection_id(t, d)
    PROVE  TableInv'
<1>1. Types'
  <2>1. Matches(d.ip, d.port) \subseteq Nat
    BY DEF TableInv, Types, Matches
  <2>2. id' \in [Threads -> Nat \cup {-1}]
    BY <2>1 DEF TableInv, Types, get_connection_id
  <2>3. at' \in [Threads -> {"idle", "connect", "load", "add", "store", "set", "push", "send"}]
    BY DEF TableInv, Types, get_connection_id
  <2> QED
    BY <2>2, <2>3 DEF TableInv, Types, get_connection_id, table
<1>2. UsesStored'
  <2>1. Matches(d.ip, d.port) \subseteq DOMAIN bev_map
    BY DEF Matches
  <2> QED
    BY <2>1 DEF TableInv, Types, UsesStored, get_connection_id, table
<1>3. AddingApart'
  BY DEF TableInv, Types, AddingApart, Adding, get_connection_id, Goto, Threads, table,
         races
<1>4. MapInjective'
  BY DEF TableInv, MapInjective, Adding, get_connection_id, table, races
<1>5. IdsFresh'
  BY ZenonT(40) DEF TableInv, Types, IdsFresh, Adding, get_connection_id, Goto, Threads, table,
         races
<1>6. NothingOverwritten'
  BY DEF TableInv, Types, IdsFresh, AddingApart, NothingOverwritten, Adding,
         get_connection_id, Goto, Threads, table, races
<1> QED
  BY <1>1, <1>2, <1>3, <1>4, <1>5, <1>6 DEF TableInv

\* connlistener_cb of LibeventHandle.
LEMMA connlistener_cb_Inv ==
    ASSUME TableInv, NEW a \in Peers, connlistener_cb(a)
    PROVE  TableInv'
<1>0. PICK n \in BOOLEAN : Open(Loop, [ip |-> a.ip, port |-> sin_port(a.port)], TRUE, n)
  BY DEF connlistener_cb
<1>1. Types'
  <2>1. [ip |-> a.ip, port |-> sin_port(a.port), is_listen |-> TRUE, null |-> n] \in Record
    BY AddressAssumption DEF sin_port, Record, Address, TableInv, Types
  <2>2. opened' =
          Append(opened, [ip |-> a.ip, port |-> sin_port(a.port), is_listen |-> TRUE, null |-> n])
    BY <1>0 DEF Open
  <2>3. Loop \in Threads
    BY DEF Threads
  <2> QED
    BY <1>0, <2>1, <2>2, <2>3, NewConnection DEF TableInv, Types,
         connlistener_cb, Goto, Open, Record
<1>2. UsesStored'
  BY <1>0 DEF TableInv, Types, UsesStored, Adding, connlistener_cb, Goto, Open, Threads,
         table, races
<1>3. AddingApart'
  BY <1>0 DEF TableInv, Types, AddingApart, Adding, connlistener_cb, Goto, Open, Threads,
         table, races
<1>4. MapInjective'
  BY <1>0 DEF TableInv, MapInjective, Adding, connlistener_cb, Open, table, races
<1>5. IdsFresh'
  BY <1>0 DEF TableInv, Types, IdsFresh, Adding, connlistener_cb, Goto, Open, Threads, table,
         races
<1>6. NothingOverwritten'
  <2>1. [ip |-> a.ip, port |-> sin_port(a.port), is_listen |-> TRUE, null |-> n] \in Record
    BY AddressAssumption DEF sin_port, Record, Address, TableInv, Types
  <2>2. opened' =
          Append(opened, [ip |-> a.ip, port |-> sin_port(a.port), is_listen |-> TRUE, null |-> n])
    BY <1>0 DEF Open
  <2>3. Loop \in Threads
    BY DEF Threads
  <2>4. /\ Adding(Loop)' /\ bev'[Loop] = Len(opened) + 1
        /\ \A u \in Threads : Adding(u) => Adding(u)' /\ bev'[u] = bev[u]
    BY <1>0, <2>3 DEF TableInv, Types, connlistener_cb, Goto, Open, Adding
  <2>5. bev_map' = bev_map /\ id_race' = id_race
    BY <1>0 DEF connlistener_cb, Open, races
  <2>6. DOMAIN opened' = DOMAIN opened \cup {Len(opened) + 1}
    BY <2>1, <2>2, NewConnection
  <2> QED
    BY <2>3, <2>4, <2>5, <2>6 DEF TableInv, NothingOverwritten
<1> QED
  BY <1>1, <1>2, <1>3, <1>4, <1>5, <1>6 DEF TableInv

\* connect_failure of LibeventHandle.
LEMMA connect_failure_Inv ==
    ASSUME TableInv, NEW t \in Threads, connect_failure(t)
    PROVE  TableInv'
<1>1. Types'
  BY DEF TableInv, Types, Adding, connect_failure, Goto, Threads, table, races
<1>2. UsesStored'
  BY DEF TableInv, Types, UsesStored, Adding, connect_failure, Goto, Threads, table,
         races
<1>3. AddingApart'
  BY DEF TableInv, Types, AddingApart, Adding, connect_failure, Goto, Threads, table,
         races
<1>4. MapInjective'
  BY DEF TableInv, MapInjective, Adding, connect_failure, table, races
<1>5. IdsFresh'
  BY DEF TableInv, Types, IdsFresh, Adding, connect_failure, Goto, Threads, table, races
<1>6. NothingOverwritten'
  BY DEF TableInv, Types, IdsFresh, AddingApart, NothingOverwritten, Adding,
         connect_failure, Goto, Threads, table, races
<1> QED
  BY <1>1, <1>2, <1>3, <1>4, <1>5, <1>6 DEF TableInv

\* add_bufferevent_connect of LibeventHandle.
LEMMA add_bufferevent_connect_Inv ==
    ASSUME TableInv, NEW t \in Threads, add_bufferevent_connect(t)
    PROVE  TableInv'
<1>1. Types'
  <2>1. [ip |-> to[t].ip, port |-> to[t].port, is_listen |-> FALSE, null |-> FALSE] \in Record
    BY AddressAssumption DEF Record, Address, TableInv, Types
  <2>2. opened' =
          Append(opened, [ip |-> to[t].ip, port |-> to[t].port, is_listen |-> FALSE, null |-> FALSE])
    BY DEF add_bufferevent_connect, Open
  <2>3. t \in Threads
    BY DEF Threads
  <2> QED
    BY <2>1, <2>2, <2>3, NewConnection DEF TableInv, Types,
         add_bufferevent_connect, Goto, Open, Record
<1>2. UsesStored'
  BY DEF TableInv, Types, UsesStored, Adding, add_bufferevent_connect, Goto, Open,
         Threads, table, races
<1>3. AddingApart'
  BY DEF TableInv, Types, AddingApart, Adding, add_bufferevent_connect, Goto, Open,
         Threads, table, races
<1>4. MapInjective'
  BY DEF TableInv, MapInjective, Adding, add_bufferevent_connect, Open, table, races
<1>5. IdsFresh'
  BY DEF TableInv, Types, IdsFresh, Adding, add_bufferevent_connect, Goto, Open,
         Threads, table, races
<1>6. NothingOverwritten'
  <2>1. [ip |-> to[t].ip, port |-> to[t].port, is_listen |-> FALSE, null |-> FALSE] \in Record
    BY AddressAssumption DEF Record, Address, TableInv, Types
  <2>2. opened' =
          Append(opened, [ip |-> to[t].ip, port |-> to[t].port, is_listen |-> FALSE, null |-> FALSE])
    BY DEF add_bufferevent_connect, Open
  <2>3. t \in Threads
    BY DEF Threads
  <2>4. /\ Adding(t)' /\ bev'[t] = Len(opened) + 1
        /\ \A u \in Threads : Adding(u) => Adding(u)' /\ bev'[u] = bev[u]
    BY <2>3 DEF TableInv, Types, add_bufferevent_connect, Goto, Open, Adding
  <2>5. bev_map' = bev_map /\ id_race' = id_race
    BY DEF add_bufferevent_connect, Open, races
  <2>6. DOMAIN opened' = DOMAIN opened \cup {Len(opened) + 1}
    BY <2>1, <2>2, NewConnection
  <2> QED
    BY <2>3, <2>4, <2>5, <2>6 DEF TableInv, NothingOverwritten
<1> QED
  BY <1>1, <1>2, <1>3, <1>4, <1>5, <1>6 DEF TableInv

\* load_id of LibeventHandle.
LEMMA load_id_Inv ==
    ASSUME TableInv, NEW t \in Threads, load_id(t)
    PROVE  TableInv'
<1>1. Types'
  BY DEF TableInv, Types, Adding, load_id, Goto, Threads, table, races
<1>2. UsesStored'
  BY DEF TableInv, Types, UsesStored, Adding, load_id, Goto, Threads, table, races
<1>3. AddingApart'
  BY DEF TableInv, Types, AddingApart, Adding, load_id, Goto, Threads, table, races
<1>4. MapInjective'
  BY DEF TableInv, MapInjective, Adding, load_id, table, races
<1>5. IdsFresh'
  BY DEF TableInv, Types, IdsFresh, Adding, load_id, Goto, Threads, table, races
<1>6. NothingOverwritten'
  BY DEF TableInv, Types, IdsFresh, AddingApart, NothingOverwritten, Adding, load_id,
         Goto, Threads, table, races
<1> QED
  BY <1>1, <1>2, <1>3, <1>4, <1>5, <1>6 DEF TableInv

\* fetch_add of LibeventHandle.
LEMMA fetch_add_Inv ==
    ASSUME TableInv, NEW t \in Threads, fetch_add(t)
    PROVE  TableInv'
<1>1. Types'
  BY DEF TableInv, Types, Adding, fetch_add, Goto, Threads, table, races
<1>2. UsesStored'
  BY DEF TableInv, Types, UsesStored, Adding, fetch_add, Goto, Threads, table, races
<1>3. AddingApart'
  BY DEF TableInv, Types, AddingApart, Adding, fetch_add, Goto, Threads, table, races
<1>4. MapInjective'
  BY DEF TableInv, MapInjective, Adding, fetch_add, table, races
<1>5. IdsFresh'
  BY DEF TableInv, Types, IdsFresh, Adding, fetch_add, Goto, Threads, table, races
<1>6. NothingOverwritten'
  BY DEF TableInv, Types, IdsFresh, AddingApart, NothingOverwritten, Adding, fetch_add,
         Goto, Threads, table, races
<1> QED
  BY <1>1, <1>2, <1>3, <1>4, <1>5, <1>6 DEF TableInv

\* store of LibeventHandle.
LEMMA store_Inv ==
    ASSUME TableInv, NEW t \in Threads, store(t)
    PROVE  TableInv'
<1>1. Types'
  <2>1. bev[t] \in DOMAIN opened
    BY DEF TableInv, AddingApart, Adding, store, Goto
  <2>2. DOMAIN bev_map' = DOMAIN bev_map \cup {id[t]}
    BY DEF store
  <2>3. \A i \in DOMAIN bev_map' : bev_map'[i] \in DOMAIN opened
    BY <2>1, <2>2 DEF TableInv, Types, store
  <2> QED
    BY <2>2, <2>3 DEF TableInv, Types, store, Goto
<1>2. UsesStored'
  BY DEF TableInv, Types, UsesStored, Adding, store, Goto, Threads, table, races
<1>3. AddingApart'
  BY DEF TableInv, Types, AddingApart, Adding, store, Goto, Threads, table, races
<1>4. MapInjective'
  BY DEF TableInv, Types, AddingApart, MapInjective, Adding, store, Goto, Threads,
         table, races
<1>5. IdsFresh'
  BY DEF TableInv, Types, IdsFresh, Adding, store, Goto, Threads, table, races
<1>6. NothingOverwritten'
  BY DEF TableInv, Types, IdsFresh, AddingApart, NothingOverwritten, Adding, store,
         Goto, Threads, table, races
<1> QED
  BY <1>1, <1>2, <1>3, <1>4, <1>5, <1>6 DEF TableInv

\* set_connection_cb of LibeventHandle.
LEMMA set_connection_cb_Inv ==
    ASSUME TableInv, NEW t \in Threads, set_connection_cb(t)
    PROVE  TableInv'
<1>1. Types'
  BY DEF TableInv, Types, Adding, set_connection_cb, Goto, Threads, table, races
<1>2. UsesStored'
  BY DEF TableInv, Types, UsesStored, Adding, set_connection_cb, Goto, Threads, table,
         races
<1>3. AddingApart'
  BY DEF TableInv, Types, AddingApart, Adding, set_connection_cb, Goto, Threads, table,
         races
<1>4. MapInjective'
  BY DEF TableInv, MapInjective, Adding, set_connection_cb, table, races
<1>5. IdsFresh'
  BY DEF TableInv, Types, IdsFresh, Adding, set_connection_cb, Goto, Threads, table,
         races
<1>6. NothingOverwritten'
  BY DEF TableInv, Types, IdsFresh, AddingApart, NothingOverwritten, Adding,
         set_connection_cb, Goto, Threads, table, races
<1> QED
  BY <1>1, <1>2, <1>3, <1>4, <1>5, <1>6 DEF TableInv

\* push_back of LibeventHandle.
LEMMA push_back_Inv ==
    ASSUME TableInv, NEW t \in Threads, push_back(t)
    PROVE  TableInv'
<1>1. Types'
  BY DEF TableInv, Types, Adding, push_back, Goto, Threads, table, races
<1>2. UsesStored'
  BY DEF TableInv, Types, UsesStored, Adding, push_back, Goto, Threads, table, races
<1>3. AddingApart'
  BY DEF TableInv, Types, AddingApart, Adding, push_back, Goto, Threads, table, races
<1>4. MapInjective'
  BY DEF TableInv, MapInjective, Adding, push_back, table, races
<1>5. IdsFresh'
  BY DEF TableInv, Types, IdsFresh, Adding, push_back, Goto, Threads, table, races
<1>6. NothingOverwritten'
  BY DEF TableInv, Types, IdsFresh, AddingApart, NothingOverwritten, Adding, push_back,
         Goto, Threads, table, races
<1> QED
  BY <1>1, <1>2, <1>3, <1>4, <1>5, <1>6 DEF TableInv

\* send of LibeventHandle.
LEMMA send_Inv ==
    ASSUME TableInv, NEW t \in Threads, send(t)
    PROVE  TableInv'
<1>1. Types'
  BY DEF TableInv, Types, Adding, send, Goto, Threads, table, races
<1>2. UsesStored'
  BY DEF TableInv, Types, UsesStored, Adding, send, Goto, Threads, table, races
<1>3. AddingApart'
  BY DEF TableInv, Types, AddingApart, Adding, send, Goto, Threads, table, races
<1>4. MapInjective'
  BY DEF TableInv, MapInjective, Adding, send, table, races
<1>5. IdsFresh'
  BY DEF TableInv, Types, IdsFresh, Adding, send, Goto, Threads, table, races
<1>6. NothingOverwritten'
  BY DEF TableInv, Types, IdsFresh, AddingApart, NothingOverwritten, Adding, send, Goto,
         Threads, table, races
<1> QED
  BY <1>1, <1>2, <1>3, <1>4, <1>5, <1>6 DEF TableInv

\* A step that changes nothing in the table and the threads.
LEMMA StutterInv == ASSUME TableInv, UNCHANGED <<table, locals, races>> PROVE TableInv'
BY DEF table, locals, races, TableInv, Types, UsesStored, AddingApart, Adding,
       MapInjective, IdsFresh, NothingOverwritten

\* The invariant holds in every reachable state of a LibeventHandle.
THEOREM Invariance == Spec => []TableInv
<1>1. TableInv /\ [Next]_vars => TableInv'
  <2> SUFFICES ASSUME TableInv, [Next]_vars PROVE TableInv'
    OBVIOUS
  <2>1. CASE \E t \in Senders, d \in Hosts : get_connection_id(t, d)
    BY <2>1, get_connection_id_Inv DEF Threads
  <2>2. CASE \E a \in Peers : connlistener_cb(a)
    BY <2>2, connlistener_cb_Inv
  <2>3. CASE \E t \in Threads : Step(t)
    BY <2>3, connect_failure_Inv, add_bufferevent_connect_Inv, load_id_Inv, fetch_add_Inv,
       store_Inv, set_connection_cb_Inv, push_back_Inv, send_Inv, StutterInv
    DEF Step, use_null
  <2>4. CASE UNCHANGED vars
    BY <2>4, StutterInv DEF vars
  <2> QED
    BY <2>1, <2>2, <2>3, <2>4 DEF Next
<1> QED
  BY <1>1, InitInv, PTL DEF Spec

\* Whatever the threads do, and even after two of them have taken the same
\* identifier, send finds the identifier it is given: the return that would
\* keep the read lock of the map is never taken.
THEOREM SendFinds == Spec => []SendFindsItsConnection
<1>1. TableInv => SendFindsItsConnection
  BY DEF TableInv, UsesStored, SendFindsItsConnection
<1> QED
  BY <1>1, Invariance, PTL

\* As long as no two threads are between load and fetch_add at once, every
\* connection that was entered is in the map, under one identifier.
THEOREM NoneOverwritten == Spec => []IdNamesOneConnection
<1>1. TableInv => IdNamesOneConnection
  <2> SUFFICES ASSUME TableInv, ~id_race, NEW c \in Stored
               PROVE  \E i \in DOMAIN bev_map :
                          bev_map[i] = c /\ \A j \in DOMAIN bev_map : bev_map[j] = c => j = i
    BY DEF IdNamesOneConnection
  <2>1. PICK i \in DOMAIN bev_map : bev_map[i] = c
    BY DEF TableInv, NothingOverwritten, Stored, Adding
  <2> QED
    BY <2>1 DEF TableInv, MapInjective
<1> QED
  BY <1>1, Invariance, PTL

----------------------------------------------------------------------------
(***************************************************************************)
(* Which connection is used for what.  The map alone does not say it: the  *)
(* argument follows a connection from the thread that opens it, over the   *)
(* map and the identifier, to send and to the vector.                      *)
(***************************************************************************)

\* The types that Types leaves out.
RestOfTypes ==
    /\ opened \in Seq(BevInfor)
    /\ listen_id_vector \in Seq(Nat)
    /\ enabled \subseteq DOMAIN opened
    /\ written \subseteq [bev : DOMAIN opened, to : Hosts]
    /\ id_race \in BOOLEAN
    /\ connect_race \in BOOLEAN

\* Connection c was opened to host d.
OpenedTo(c, d) == /\ ~opened[c].is_listen
                  /\ opened[c].ip = d.ip
                  /\ opened[c].port = d.port

\* Connection c is entered under the address of d.
Entered(c, d) == opened[c].ip = d.ip /\ opened[c].port = d.port

\* A thread that connects or sends does so to a host; one that is entering a
\* connection has accepted it or has opened it to its host.
Purpose ==
    \A t \in Threads :
        /\ at[t] \in {"connect", "send"} => to[t] \in Hosts
        /\ at[t] \in {"load", "add", "store", "set", "push"} => bev[t] \in DOMAIN opened
        /\ at[t] \in {"load", "add", "store", "set"} /\ ~opened[bev[t]].is_listen =>
               to[t] \in Hosts /\ OpenedTo(bev[t], to[t])
        /\ at[t] = "push" => opened[bev[t]].is_listen

\* An accepted connection is entered with the sin_port of a peer.
AcceptedFrom ==
    \A c \in DOMAIN opened : opened[c].is_listen =>
        \E a \in Peers : opened[c].ip = a.ip /\ opened[c].port = sin_port(a.port)

\* Without a race for an identifier, the map keeps under it what the thread
\* stored or found.
KeptUnderId ==
    ~id_race => \A t \in Threads :
        /\ at[t] \in {"set", "push"} => bev_map[id[t]] = bev[t]
        /\ at[t] = "push" => bev[t] \in enabled
        /\ at[t] = "send" => Entered(bev_map[id[t]], to[t])

\* So is every message written to a connection entered under its address.
SentUnderAddress == ~id_race => \A m \in written : Entered(m.bev, m.to)

\* An identifier enters the vector once, and after its connection is served.
VectorServed ==
    /\ \A k \in DOMAIN listen_id_vector : listen_id_vector[k] \in DOMAIN bev_map
    /\ ~id_race =>
        /\ \A k \in DOMAIN listen_id_vector :
               /\ opened[bev_map[listen_id_vector[k]]].is_listen
               /\ bev_map[listen_id_vector[k]] \in enabled
               /\ \A t \in Threads : at[t] \in {"set", "push"} => id[t] # listen_id_vector[k]
        /\ \A k, l \in DOMAIN listen_id_vector :
               listen_id_vector[l] = listen_id_vector[k] => l = k
        /\ \A t, u \in Threads :
               at[t] \in {"set", "push"} /\ at[u] \in {"set", "push"} /\ id[t] = id[u] => t = u

\* Identifier i is of a connection entered under the address of d, and it is the
\* first such, which get_connection_id returns.
Under(i, d) == opened[bev_map[i]].ip = d.ip /\ opened[bev_map[i]].port = d.port

First(i, d) ==
    /\ i \in DOMAIN bev_map
    /\ Under(i, d)
    /\ \A j \in DOMAIN bev_map : Under(j, d) => i <= j

NoneUnder(d) == \A j \in DOMAIN bev_map : ~Under(j, d)

\* Thread t is about to enter a connection under the address of d.
Entering(t, d) ==
    \/ at[t] = "connect" /\ to[t].ip = d.ip /\ to[t].port = d.port
    \/ Adding(t) /\ Entered(bev[t], d)

\* Without any race, what get_connection_id returns for a host never changes: a
\* connection is made only when there is none, and one accepted under the same
\* address gets a larger identifier.
WrittenFirst == \A m \in written : \E i \in DOMAIN bev_map : bev_map[i] = m.bev /\ First(i, m.to)

UsesFirst ==
    \A t \in Threads :
        /\ at[t] = "send" => First(id[t], to[t])
        /\ at[t] = "set" /\ ~opened[bev[t]].is_listen => First(id[t], to[t])

MadeWhenNone ==
    \A t \in Threads :
        at[t] = "connect" \/ (Adding(t) /\ ~opened[bev[t]].is_listen) => NoneUnder(to[t])

LaterLarger ==
    \A t \in Threads, d \in Hosts :
        at[t] = "store" /\ Entered(bev[t], d) =>
            \A j \in DOMAIN bev_map : Under(j, d) => j < id[t]

EnteringApart ==
    \A t, u \in Threads, d \in Hosts : Entering(t, d) /\ Entering(u, d) => t = u

FirstStays ==
    ~id_race /\ ~connect_race =>
        WrittenFirst /\ UsesFirst /\ MadeWhenNone /\ LaterLarger /\ EnteringApart

RouteInv ==
    /\ TableInv
    /\ RestOfTypes
    /\ Purpose
    /\ AcceptedFrom
    /\ KeptUnderId
    /\ SentUnderAddress
    /\ VectorServed
    /\ FirstStays

\* Quotient and remainder.
LEMMA DivMod ==
    ASSUME NEW p \in Nat, NEW b \in Nat \ {0}
    PROVE  /\ p % b \in 0 .. b - 1
           /\ p \div b \in Nat
           /\ p = b * (p \div b) + (p % b)
OBVIOUS

\* The bytes of a port in the other order are a port again.
LEMMA SwappedPort ==
    ASSUME NEW p \in 0 .. Byte * Byte - 1
    PROVE  sin_port(p) \in 0 .. Byte * Byte - 1
<1> DEFINE q == p \div Byte
           r == p % Byte
<1>1. Byte \in Nat \ {0}
  BY AddressAssumption
<1>2. p \in Nat /\ p <= Byte * Byte - 1
  BY <1>1
<1>3. q \in Nat /\ r \in 0 .. Byte - 1 /\ p = Byte * q + r
  BY <1>1, <1>2, DivMod
<1>4. sin_port(p) = r * Byte + q
  BY DEF sin_port
<1> HIDE DEF q, r
<1>5. q < Byte
  BY <1>1, <1>2, <1>3
<1>6. /\ r * Byte \in Int
      /\ 0 <= r * Byte
      /\ r * Byte <= (Byte - 1) * Byte
      /\ (Byte - 1) * Byte = Byte * Byte - Byte
  BY <1>1, <1>3
<1>7. r * Byte + q \in 0 .. Byte * Byte - 1
  BY <1>1, <1>3, <1>5, <1>6
<1> QED
  BY <1>4, <1>7

\* What a new connection leaves as it was.
LEMMA NewDescribed ==
    ASSUME RestOfTypes, NEW r \in BevInfor, opened' = Append(opened, r)
    PROVE  /\ opened' \in Seq(BevInfor)
           /\ DOMAIN opened' = DOMAIN opened \cup {Len(opened) + 1}
           /\ Len(opened) + 1 \notin DOMAIN opened
           /\ \A c \in DOMAIN opened : opened'[c] = opened[c]
           /\ opened'[Len(opened) + 1] = r
BY DEF RestOfTypes

\* A thread looks for a connection to a host.
LEMMA get_connection_id_Route ==
    ASSUME RouteInv, NEW t \in Threads, NEW d \in Hosts, get_connection_id(t, d)
    PROVE  RouteInv'
<1>1. TableInv'
  BY get_connection_id_Inv DEF RouteInv
<1>2. RestOfTypes'
  BY DEF RouteInv, TableInv, Types, RestOfTypes, get_connection_id, Goto, table, races
<1>3. Purpose'
  BY DEF RouteInv, TableInv, Types, Purpose, OpenedTo, get_connection_id, Goto, table,
         races
<1>4. AcceptedFrom'
  BY DEF RouteInv, TableInv, Types, AcceptedFrom, get_connection_id, Goto, table, races
<1>5. KeptUnderId'
  <2>1. ASSUME NEW i \in Matches(d.ip, d.port)
        PROVE  Entered(bev_map[i], d)
    BY <2>1 DEF Matches, Entered
  <2>2. /\ UNCHANGED <<opened, bev_map, enabled, bev, id_race>>
        /\ \A u \in Threads : u # t => at'[u] = at[u] /\ id'[u] = id[u] /\ to'[u] = to[u]
        /\ to'[t] = d
        /\ at'[t] = "connect" \/ (at'[t] = "send" /\ id'[t] \in Matches(d.ip, d.port))
    BY DEF RouteInv, TableInv, Types, get_connection_id, table
  <2> QED
    BY <2>1, <2>2 DEF RouteInv, KeptUnderId, Entered
<1>6. SentUnderAddress'
  BY DEF RouteInv, TableInv, Types, SentUnderAddress, RestOfTypes, Entered, KeptUnderId,
         get_connection_id, Goto, table, races
<1>7. VectorServed'
  <2>1. /\ UNCHANGED <<opened, bev_map, enabled, listen_id_vector, id_race>>
        /\ \A u \in Threads : u # t => at'[u] = at[u] /\ id'[u] = id[u]
        /\ at'[t] = "connect" \/ at'[t] = "send"
    BY DEF RouteInv, TableInv, Types, get_connection_id, table
  <2>2. \A u \in Threads : at'[u] \in {"set", "push"} => at'[u] = at[u] /\ id'[u] = id[u]
    BY <2>1
  <2> QED
    BY <2>1, <2>2 DEF RouteInv, VectorServed
<1>8. FirstStays'
  <2> SUFFICES ASSUME ~id_race', ~connect_race'
               PROVE  WrittenFirst' /\ UsesFirst' /\ MadeWhenNone' /\ LaterLarger' /\ EnteringApart'
    BY DEF FirstStays
  <2>0. ~id_race /\ ~connect_race
    <3>1. id_race' = id_race
      BY DEF get_connection_id
    <3>2. ASSUME connect_race' = connect_race PROVE ~connect_race
      BY <3>2
    <3>3. ASSUME connect_race' = (connect_race \/ Connecting(t, d.ip, d.port)) PROVE ~connect_race
      BY <3>3, Zenon
    <3> QED
      BY <3>1, <3>2, <3>3 DEF get_connection_id
  <2>a. WrittenFirst /\ UsesFirst /\ MadeWhenNone /\ LaterLarger /\ EnteringApart
    BY <2>0 DEF RouteInv, FirstStays
  <2>1. /\ UNCHANGED <<opened, bev_map, bev, written>>
        /\ \A u \in Threads : u # t => at'[u] = at[u] /\ to'[u] = to[u] /\ id'[u] = id[u]
        /\ to'[t] = d
        /\ at'[t] \in {"connect", "send"}
    BY DEF RouteInv, TableInv, Types, get_connection_id, table
  <2>2. at'[t] = "connect" => Matches(d.ip, d.port) = {} /\ ~Connecting(t, d.ip, d.port)
    <3>1. at'[t] = "connect" => /\ Matches(d.ip, d.port) = {}
                                /\ connect_race' = (connect_race \/ Connecting(t, d.ip, d.port))
      BY DEF RouteInv, TableInv, Types, get_connection_id
    <3> QED
      BY <3>1, Zenon
  <2>3. at'[t] = "send" => /\ id'[t] \in Matches(d.ip, d.port)
                           /\ \A j \in Matches(d.ip, d.port) : id'[t] <= j
    BY DEF RouteInv, TableInv, Types, get_connection_id
  <2>4. WrittenFirst'
    BY <2>a, <2>1 DEF WrittenFirst, First, Under
  <2>5. UsesFirst'
    BY <2>a, <2>1, <2>3 DEF UsesFirst, First, Under, Matches
  <2>6. MadeWhenNone'
    BY <2>a, <2>1, <2>2 DEF MadeWhenNone, NoneUnder, Under, Adding, Matches
  <2>7. LaterLarger'
    BY <2>a, <2>1 DEF LaterLarger, Under, Entered
  <2>8. \A u \in Threads, e \in Hosts :
            at'[t] = "connect" /\ u # t /\ Entering(u, e) => ~(d.ip = e.ip /\ d.port = e.port)
    BY <2>2 DEF Entering, Connecting, Adding, Entered
  <2>9. EnteringApart'
    <3> SUFFICES ASSUME NEW u \in Threads, NEW v \in Threads, NEW e \in Hosts,
                        Entering(u, e)', Entering(v, e)', u # v
                 PROVE  FALSE
      BY DEF EnteringApart
    <3>1. \A w \in Threads : w # t /\ Entering(w, e)' => Entering(w, e)
      BY <2>1 DEF Entering, Adding, Entered
    <3>2. Entering(t, e)' => at'[t] = "connect" /\ d.ip = e.ip /\ d.port = e.port
      BY <2>1 DEF Entering, Adding, Entered
    <3> QED
      BY <2>a, <2>8, <3>1, <3>2 DEF EnteringApart
  <2> QED
    BY <2>4, <2>5, <2>6, <2>7, <2>9
<1> QED
  BY <1>1, <1>2, <1>3, <1>4, <1>5, <1>6, <1>7, <1>8 DEF RouteInv

\* A connection is accepted.
LEMMA connlistener_cb_Route ==
    ASSUME RouteInv, NEW a \in Peers, connlistener_cb(a)
    PROVE  RouteInv'
<1>0. PICK n \in BOOLEAN : Open(Loop, [ip |-> a.ip, port |-> sin_port(a.port)], TRUE, n)
  BY DEF connlistener_cb
<1>1. TableInv'
  BY connlistener_cb_Inv DEF RouteInv
<1> DEFINE r == [ip |-> a.ip, port |-> sin_port(a.port), is_listen |-> TRUE, null |-> n]
<1>a. r \in BevInfor
  BY AddressAssumption, SwappedPort DEF BevInfor, Address
<1>b. opened' = Append(opened, r)
  BY <1>0 DEF Open
<1>c. /\ opened' \in Seq(BevInfor)
      /\ DOMAIN opened' = DOMAIN opened \cup {Len(opened) + 1}
      /\ \A c \in DOMAIN opened : opened'[c] = opened[c]
      /\ opened'[Len(opened) + 1] = r
  BY <1>a, <1>b, NewDescribed DEF RouteInv
<1>d. r.is_listen
  OBVIOUS
<1>e. r.ip = a.ip /\ r.port = sin_port(a.port)
  OBVIOUS
<1> HIDE DEF r
<1>2. RestOfTypes'
  BY <1>0, <1>c DEF RouteInv, RestOfTypes, connlistener_cb, Open, races
<1>3. Purpose'
  BY <1>0 DEF RouteInv, TableInv, Types, Purpose, OpenedTo, connlistener_cb, Open, Goto,
         table, races
<1>4. AcceptedFrom'
  BY <1>c, <1>e DEF RouteInv, AcceptedFrom
<1>5. KeptUnderId'
  BY <1>0 DEF RouteInv, TableInv, Types, KeptUnderId, Purpose, OpenedTo, Entered, UsesStored,
         IdsFresh, connlistener_cb, Open, Goto, table, races
<1>6. SentUnderAddress'
  BY <1>0 DEF RouteInv, TableInv, Types, SentUnderAddress, RestOfTypes, Entered, KeptUnderId,
         connlistener_cb, Open, Goto, table, races
<1>7. VectorServed'
  BY <1>0, SMTT(40) DEF RouteInv, TableInv, Types, VectorServed, KeptUnderId, UsesStored, IdsFresh,
         RestOfTypes, Purpose, connlistener_cb, Open, Goto, table, races
<1>8. FirstStays'
  <2> SUFFICES ASSUME ~id_race', ~connect_race'
               PROVE  WrittenFirst' /\ UsesFirst' /\ MadeWhenNone' /\ LaterLarger' /\ EnteringApart'
    BY DEF FirstStays
  <2>0. ~id_race /\ ~connect_race /\ ~Connecting(Loop, a.ip, sin_port(a.port))
    <3>1. id_race' = id_race
      BY <1>0 DEF Open
    <3>2. connect_race' = (connect_race \/ Connecting(Loop, a.ip, sin_port(a.port)))
      BY DEF connlistener_cb
    <3>3. ~connect_race /\ ~Connecting(Loop, a.ip, sin_port(a.port))
      BY <3>2, Zenon
    <3> QED
      BY <3>1, <3>3
  <2>a. WrittenFirst /\ UsesFirst /\ MadeWhenNone /\ LaterLarger /\ EnteringApart
    BY <2>0 DEF RouteInv, FirstStays
  <2>1. /\ UNCHANGED <<bev_map, id, written>>
        /\ \A u \in Threads : u # Loop => at'[u] = at[u] /\ to'[u] = to[u] /\ bev'[u] = bev[u]
        /\ at'[Loop] = "load" /\ bev'[Loop] = Len(opened) + 1
        /\ Loop \in Threads
    BY <1>0 DEF RouteInv, TableInv, Types, connlistener_cb, Open, Goto, Threads
  <2>2. \A i \in DOMAIN bev_map : opened'[bev_map[i]] = opened[bev_map[i]]
    BY <1>c DEF RouteInv, TableInv, Types
  <2>3. \A u \in Threads : /\ u # Loop /\ Adding(u)' => opened'[bev[u]] = opened[bev[u]]
                           /\ u # Loop /\ at'[u] = "set" => opened'[bev[u]] = opened[bev[u]]
    BY <1>c, <2>1 DEF RouteInv, TableInv, Purpose, Adding
  <2>4. WrittenFirst'
    BY <2>a, <2>1, <2>2 DEF WrittenFirst, First, Under
  <2>5. UsesFirst'
    BY <2>a, <2>1, <2>2, <2>3 DEF UsesFirst, First, Under
  <2>6. MadeWhenNone'
    BY <1>c, <1>d, <2>a, <2>1, <2>2, <2>3 DEF MadeWhenNone, NoneUnder, Under, Adding
  <2>7. LaterLarger'
    BY <2>a, <2>1, <2>2, <2>3 DEF LaterLarger, Under, Entered, Adding
  <2>8. \A u \in Threads, e \in Hosts :
            u # Loop /\ Entering(u, e) => ~(a.ip = e.ip /\ sin_port(a.port) = e.port)
    BY <2>0 DEF Entering, Connecting, Adding, Entered
  <2>9. EnteringApart'
    <3> SUFFICES ASSUME NEW u \in Threads, NEW v \in Threads, NEW e \in Hosts,
                        Entering(u, e)', Entering(v, e)', u # v
                 PROVE  FALSE
      BY DEF EnteringApart
    <3>1. \A w \in Threads : w # Loop /\ Entering(w, e)' => Entering(w, e)
      BY <2>1, <2>3 DEF Entering, Adding, Entered
    <3>2. Entering(Loop, e)' => a.ip = e.ip /\ sin_port(a.port) = e.port
      BY <1>c, <1>e, <2>1 DEF Entering, Adding, Entered
    <3> QED
      BY <2>a, <2>8, <3>1, <3>2 DEF EnteringApart
  <2> QED
    BY <2>4, <2>5, <2>6, <2>7, <2>9
<1> QED
  BY <1>1, <1>2, <1>3, <1>4, <1>5, <1>6, <1>7, <1>8 DEF RouteInv

\* A connection is not made.
LEMMA connect_failure_Route ==
    ASSUME RouteInv, NEW t \in Threads, connect_failure(t)
    PROVE  RouteInv'
<1>1. TableInv'
  BY connect_failure_Inv DEF RouteInv
<1>2. RestOfTypes'
  BY DEF RouteInv, TableInv, Types, RestOfTypes, connect_failure, Goto, table, races
<1>3. Purpose'
  BY DEF RouteInv, TableInv, Types, Purpose, OpenedTo, connect_failure, Goto, table,
         races
<1>4. AcceptedFrom'
  BY DEF RouteInv, TableInv, Types, AcceptedFrom, connect_failure, Goto, table, races
<1>5. KeptUnderId'
  BY DEF RouteInv, TableInv, Types, KeptUnderId, Purpose, OpenedTo, Entered, UsesStored,
         IdsFresh, connect_failure, Goto, table, races
<1>6. SentUnderAddress'
  BY DEF RouteInv, TableInv, Types, SentUnderAddress, RestOfTypes, Entered, KeptUnderId,
         connect_failure, Goto, table, races
<1>7. VectorServed'
  BY SMTT(40) DEF RouteInv, TableInv, Types, VectorServed, KeptUnderId, UsesStored, IdsFresh,
         RestOfTypes, Purpose, connect_failure, Goto, table, races
<1>8. FirstStays'
  <2>1. /\ UNCHANGED <<opened, bev_map, to, bev, id, written, id_race, connect_race>>
        /\ at[t] = "connect" /\ at'[t] = "idle"
        /\ \A u \in Threads : u # t => at'[u] = at[u]
    BY DEF RouteInv, TableInv, Types, connect_failure, Goto, table, races
  <2>2. WrittenFirst => WrittenFirst'
    BY <2>1 DEF WrittenFirst, First, Under
  <2>3. UsesFirst => UsesFirst'
    BY <2>1 DEF UsesFirst, First, Under
  <2>4. MadeWhenNone => MadeWhenNone'
    BY <2>1 DEF MadeWhenNone, NoneUnder, Under, Adding
  <2>5. LaterLarger => LaterLarger'
    BY <2>1 DEF LaterLarger, Under, Entered
  <2>6. EnteringApart => EnteringApart'
    BY <2>1 DEF EnteringApart, Entering, Entered, Adding
  <2> QED
    BY <2>1, <2>2, <2>3, <2>4, <2>5, <2>6 DEF RouteInv, FirstStays
<1> QED
  BY <1>1, <1>2, <1>3, <1>4, <1>5, <1>6, <1>7, <1>8 DEF RouteInv

\* A connection to a host is opened.
LEMMA add_bufferevent_connect_Route ==
    ASSUME RouteInv, NEW t \in Threads, add_bufferevent_connect(t)
    PROVE  RouteInv'
<1>1. TableInv'
  BY add_bufferevent_connect_Inv DEF RouteInv
<1> DEFINE r == [ip |-> to[t].ip, port |-> to[t].port, is_listen |-> FALSE, null |-> FALSE]
<1>a. r \in BevInfor /\ to[t] \in Hosts /\ ~r.is_listen /\ r.ip = to[t].ip /\ r.port = to[t].port
  BY AddressAssumption DEF RouteInv, Purpose, add_bufferevent_connect, Goto, BevInfor, Address
<1>b. opened' = Append(opened, r)
  BY DEF add_bufferevent_connect, Open
<1>c. /\ opened' \in Seq(BevInfor)
      /\ DOMAIN opened' = DOMAIN opened \cup {Len(opened) + 1}
      /\ \A c \in DOMAIN opened : opened'[c] = opened[c]
      /\ opened'[Len(opened) + 1] = r
  BY <1>a, <1>b, NewDescribed DEF RouteInv
<1> HIDE DEF r
<1>2. RestOfTypes'
  BY <1>c DEF RouteInv, RestOfTypes, add_bufferevent_connect, Open, races
<1>3. Purpose'
  BY DEF RouteInv, TableInv, Types, Purpose, OpenedTo, add_bufferevent_connect, Open,
         Goto, table, races
<1>4. AcceptedFrom'
  BY <1>a, <1>c DEF RouteInv, AcceptedFrom
<1>5. KeptUnderId'
  BY DEF RouteInv, TableInv, Types, KeptUnderId, Purpose, OpenedTo, Entered, UsesStored,
         IdsFresh, add_bufferevent_connect, Open, Goto, table, races
<1>6. SentUnderAddress'
  BY DEF RouteInv, TableInv, Types, SentUnderAddress, RestOfTypes, Entered, KeptUnderId,
         add_bufferevent_connect, Open, Goto, table, races
<1>7. VectorServed'
  BY <1>c DEF RouteInv, TableInv, Types, VectorServed, add_bufferevent_connect, Open, Goto, races
<1>8. FirstStays'
  <2> SUFFICES ASSUME WrittenFirst, UsesFirst, MadeWhenNone, LaterLarger, EnteringApart
               PROVE  WrittenFirst' /\ UsesFirst' /\ MadeWhenNone' /\ LaterLarger' /\ EnteringApart'
    BY DEF RouteInv, FirstStays, add_bufferevent_connect, Open
  <2>1. /\ UNCHANGED <<bev_map, id, to, written>>
        /\ \A u \in Threads : u # t => at'[u] = at[u] /\ bev'[u] = bev[u]
        /\ at[t] = "connect" /\ at'[t] = "load" /\ bev'[t] = Len(opened) + 1
    BY DEF RouteInv, TableInv, Types, add_bufferevent_connect, Open, Goto
  <2>2. \A i \in DOMAIN bev_map : opened'[bev_map[i]] = opened[bev_map[i]]
    BY <1>c DEF RouteInv, TableInv, Types
  <2>3. \A u \in Threads : /\ u # t /\ Adding(u)' => opened'[bev[u]] = opened[bev[u]]
                           /\ u # t /\ at'[u] = "set" => opened'[bev[u]] = opened[bev[u]]
    BY <1>c, <2>1 DEF RouteInv, TableInv, Purpose, Adding
  <2>4. WrittenFirst'
    BY <2>1, <2>2 DEF WrittenFirst, First, Under
  <2>5. UsesFirst'
    BY <2>1, <2>2, <2>3 DEF UsesFirst, First, Under
  <2>6. MadeWhenNone'
    BY <1>c, <2>1, <2>2, <2>3 DEF MadeWhenNone, NoneUnder, Under, Adding
  <2>7. LaterLarger'
    BY <2>1, <2>2, <2>3 DEF LaterLarger, Under, Entered, Adding
  <2>8. EnteringApart'
    <3> SUFFICES ASSUME NEW u \in Threads, NEW v \in Threads, NEW e \in Hosts,
                        Entering(u, e)', Entering(v, e)'
                 PROVE  u = v
      BY DEF EnteringApart
    <3>1. \A w \in Threads : w # t /\ Entering(w, e)' => Entering(w, e)
      BY <2>1, <2>3 DEF Entering, Adding, Entered
    <3>2. Entering(t, e)' => Entering(t, e)
      BY <1>a, <1>c, <2>1 DEF Entering, Adding, Entered
    <3> QED
      BY <3>1, <3>2 DEF EnteringApart
  <2> QED
    BY <2>4, <2>5, <2>6, <2>7, <2>8
<1> QED
  BY <1>1, <1>2, <1>3, <1>4, <1>5, <1>6, <1>7, <1>8 DEF RouteInv

\* An identifier is read.
LEMMA load_id_Route ==
    ASSUME RouteInv, NEW t \in Threads, load_id(t)
    PROVE  RouteInv'
<1>1. TableInv'
  BY load_id_Inv DEF RouteInv
<1>2. RestOfTypes'
  BY DEF RouteInv, TableInv, Types, RestOfTypes, load_id, Goto, table, races
<1>3. Purpose'
  BY DEF RouteInv, TableInv, Types, Purpose, OpenedTo, load_id, Goto, table, races
<1>4. AcceptedFrom'
  BY DEF RouteInv, TableInv, Types, AcceptedFrom, load_id, Goto, table, races
<1>5. KeptUnderId'
  BY DEF RouteInv, TableInv, Types, KeptUnderId, Purpose, OpenedTo, Entered, UsesStored,
         IdsFresh, load_id, Goto, table, races
<1>6. SentUnderAddress'
  BY DEF RouteInv, TableInv, Types, SentUnderAddress, RestOfTypes, Entered, KeptUnderId,
         load_id, Goto, table, races
<1>7. VectorServed'
  BY DEF RouteInv, TableInv, Types, VectorServed, KeptUnderId, UsesStored, IdsFresh,
         RestOfTypes, Purpose, load_id, Goto, table, races
<1>8. FirstStays'
  <2>1. /\ UNCHANGED <<opened, bev_map, to, bev, written, connect_race>>
        /\ at[t] = "load" /\ at'[t] = "add"
        /\ \A u \in Threads : u # t => at'[u] = at[u]
        /\ id_race => id_race'
        /\ \A u \in Threads : u # t => id'[u] = id[u]
    BY DEF RouteInv, TableInv, Types, load_id, Goto, table, races
  <2>2. WrittenFirst => WrittenFirst'
    BY <2>1 DEF WrittenFirst, First, Under
  <2>3. UsesFirst => UsesFirst'
    BY <2>1 DEF UsesFirst, First, Under
  <2>4. MadeWhenNone => MadeWhenNone'
    BY <2>1 DEF MadeWhenNone, NoneUnder, Under, Adding
  <2>5. LaterLarger => LaterLarger'
    BY <2>1 DEF LaterLarger, Under, Entered
  <2>6. EnteringApart => EnteringApart'
    BY <2>1 DEF EnteringApart, Entering, Entered, Adding
  <2> QED
    BY <2>1, <2>2, <2>3, <2>4, <2>5, <2>6 DEF RouteInv, FirstStays
<1> QED
  BY <1>1, <1>2, <1>3, <1>4, <1>5, <1>6, <1>7, <1>8 DEF RouteInv

\* The next identifier is counted up.
LEMMA fetch_add_Route ==
    ASSUME RouteInv, NEW t \in Threads, fetch_add(t)
    PROVE  RouteInv'
<1>1. TableInv'
  BY fetch_add_Inv DEF RouteInv
<1>2. RestOfTypes'
  BY DEF RouteInv, TableInv, Types, RestOfTypes, fetch_add, Goto, table, races
<1>3. Purpose'
  BY DEF RouteInv, TableInv, Types, Purpose, OpenedTo, fetch_add, Goto, table, races
<1>4. AcceptedFrom'
  BY DEF RouteInv, TableInv, Types, AcceptedFrom, fetch_add, Goto, table, races
<1>5. KeptUnderId'
  BY DEF RouteInv, TableInv, Types, KeptUnderId, Purpose, OpenedTo, Entered, UsesStored,
         IdsFresh, fetch_add, Goto, table, races
<1>6. SentUnderAddress'
  BY DEF RouteInv, TableInv, Types, SentUnderAddress, RestOfTypes, Entered, KeptUnderId,
         fetch_add, Goto, table, races
<1>7. VectorServed'
  BY DEF RouteInv, TableInv, Types, VectorServed, KeptUnderId, UsesStored, IdsFresh,
         RestOfTypes, Purpose, fetch_add, Goto, table, races
<1>8. FirstStays'
  <2>1. /\ UNCHANGED <<opened, bev_map, to, bev, id, written, id_race, connect_race>>
        /\ at[t] = "add" /\ at'[t] = "store"
        /\ \A u \in Threads : u # t => at'[u] = at[u]
    BY DEF RouteInv, TableInv, Types, fetch_add, Goto, races
  <2>2. WrittenFirst => WrittenFirst'
    BY <2>1 DEF WrittenFirst, First, Under
  <2>3. UsesFirst => UsesFirst'
    BY <2>1 DEF UsesFirst, First, Under
  <2>4. MadeWhenNone => MadeWhenNone'
    BY <2>1 DEF MadeWhenNone, NoneUnder, Under, Adding
  <2>5. ~id_race /\ LaterLarger => LaterLarger'
    BY <2>1 DEF LaterLarger, Under, Entered, RouteInv, TableInv, IdsFresh
  <2>6. EnteringApart => EnteringApart'
    BY <2>1 DEF EnteringApart, Entering, Entered, Adding
  <2> QED
    BY <2>1, <2>2, <2>3, <2>4, <2>5, <2>6 DEF RouteInv, FirstStays
<1> QED
  BY <1>1, <1>2, <1>3, <1>4, <1>5, <1>6, <1>7, <1>8 DEF RouteInv

\* A connection is entered in the map.
LEMMA store_Route ==
    ASSUME RouteInv, NEW t \in Threads, store(t)
    PROVE  RouteInv'
<1>1. TableInv'
  BY store_Inv DEF RouteInv
<1>2. RestOfTypes'
  BY DEF RouteInv, TableInv, Types, RestOfTypes, store, Goto, table, races
<1>3. Purpose'
  BY DEF RouteInv, TableInv, Types, Purpose, OpenedTo, store, Goto, table, races
<1>4. AcceptedFrom'
  BY DEF RouteInv, TableInv, Types, AcceptedFrom, store, Goto, table, races
<1>5. KeptUnderId'
  BY SMTT(40) DEF RouteInv, TableInv, Types, KeptUnderId, Purpose, OpenedTo, Entered, UsesStored,
         IdsFresh, store, Goto, table, races
<1>6. SentUnderAddress'
  BY DEF RouteInv, TableInv, Types, SentUnderAddress, RestOfTypes, Entered, KeptUnderId,
         store, Goto, table, races
<1>7. VectorServed'
  BY SMTT(40) DEF RouteInv, TableInv, Types, VectorServed, KeptUnderId, UsesStored, IdsFresh,
         RestOfTypes, Purpose, store, Goto, table, races
<1>8. FirstStays'
  <2> SUFFICES ASSUME ~id_race, ~connect_race,
                      WrittenFirst, UsesFirst, MadeWhenNone, LaterLarger, EnteringApart
               PROVE  WrittenFirst' /\ UsesFirst' /\ MadeWhenNone' /\ LaterLarger' /\ EnteringApart'
    BY DEF RouteInv, FirstStays, store, races
  <2>1. /\ UNCHANGED <<opened, to, bev, id, written>>
        /\ at[t] = "store" /\ at'[t] = "set"
        /\ \A u \in Threads : u # t => at'[u] = at[u]
    BY DEF RouteInv, TableInv, Types, store, Goto
  <2>2. /\ id[t] \notin DOMAIN bev_map /\ id[t] \in Nat
        /\ DOMAIN bev_map \subseteq Nat
        /\ DOMAIN bev_map' = DOMAIN bev_map \cup {id[t]}
        /\ bev_map'[id[t]] = bev[t]
        /\ \A i \in DOMAIN bev_map : bev_map'[i] = bev_map[i]
    BY <2>1 DEF RouteInv, TableInv, Types, IdsFresh, store
  <2>3. \A i \in DOMAIN bev_map, d \in Hosts : First(i, d) => First(i, d)'
    BY <2>1, <2>2 DEF First, Under, LaterLarger, Entered
  <2>4. \A u \in Threads, d \in Hosts :
            u # t /\ Entering(u, d) => ~Entered(bev[t], d)
    BY <2>1 DEF EnteringApart, Entering, Adding
  <2>5. WrittenFirst'
    <3>1. \A m \in written : m.to \in Hosts
      BY DEF RouteInv, RestOfTypes
    <3> QED
      BY <2>1, <2>2, <2>3, <3>1 DEF WrittenFirst
  <2>6. UsesFirst'
    <3>1. ASSUME NEW u \in Threads, u # t, First(id[u], to[u]), to[u] \in Hosts
          PROVE  First(id[u], to[u])'
      BY <2>1, <2>2, <3>1 DEF First, Under, LaterLarger, Entered
    <3>2. \A u \in Threads : at[u] = "send" => to[u] \in Hosts
      BY DEF RouteInv, Purpose
    <3>3. \A u \in Threads : at[u] = "set" /\ ~opened[bev[u]].is_listen => to[u] \in Hosts
      BY DEF RouteInv, Purpose
    <3>4. ~opened[bev[t]].is_listen => First(id[t], to[t])'
      <4>1. ~opened[bev[t]].is_listen => OpenedTo(bev[t], to[t]) /\ NoneUnder(to[t])
        BY <2>1 DEF RouteInv, Purpose, MadeWhenNone, Adding
      <4> QED
        BY <2>1, <2>2, <4>1 DEF First, Under, NoneUnder, OpenedTo
    <3> QED
      BY <2>1, <3>1, <3>2, <3>3, <3>4 DEF UsesFirst
  <2>7. MadeWhenNone'
    <3> SUFFICES ASSUME NEW u \in Threads,
                        at'[u] = "connect" \/ (Adding(u)' /\ ~opened[bev[u]].is_listen)
                 PROVE  NoneUnder(to[u])'
      BY <2>1 DEF MadeWhenNone
    <3>1. u # t /\ (at[u] = "connect" \/ (Adding(u) /\ ~opened[bev[u]].is_listen))
      BY <2>1 DEF Adding
    <3>2. NoneUnder(to[u]) /\ to[u] \in Hosts /\ Entering(u, to[u])
      BY <3>1 DEF MadeWhenNone, RouteInv, Purpose, Entering, OpenedTo, Entered, Adding
    <3>3. ~Entered(bev[t], to[u])
      BY <2>4, <3>1, <3>2
    <3> QED
      BY <2>1, <2>2, <3>2, <3>3 DEF NoneUnder, Under, Entered
  <2>8. LaterLarger'
    <3> SUFFICES ASSUME NEW u \in Threads, NEW d \in Hosts, at'[u] = "store", Entered(bev[u], d)
                 PROVE  \A j \in DOMAIN bev_map' : Under(j, d)' => j < id[u]
      BY <2>1 DEF LaterLarger, Entered
    <3>1. u # t /\ at[u] = "store"
      BY <2>1
    <3>2. ~Entered(bev[t], d)
      BY <2>4, <3>1 DEF Entering, Adding
    <3> QED
      BY <2>1, <2>2, <3>1, <3>2 DEF LaterLarger, Under, Entered
  <2>9. EnteringApart'
    BY <2>1 DEF EnteringApart, Entering, Entered, Adding
  <2> QED
    BY <2>5, <2>6, <2>7, <2>8, <2>9
<1> QED
  BY <1>1, <1>2, <1>3, <1>4, <1>5, <1>6, <1>7, <1>8 DEF RouteInv

\* The callback of a connection is set.
LEMMA set_connection_cb_Route ==
    ASSUME RouteInv, NEW t \in Threads, set_connection_cb(t)
    PROVE  RouteInv'
<1>1. TableInv'
  BY set_connection_cb_Inv DEF RouteInv
<1>2. RestOfTypes'
  <2>1. bev_map[id[t]] \in DOMAIN opened
    BY DEF RouteInv, TableInv, Types, UsesStored, set_connection_cb, Goto
  <2> QED
    BY <2>1 DEF RouteInv, RestOfTypes, set_connection_cb, races
<1>3. Purpose'
  BY DEF RouteInv, TableInv, Types, Purpose, OpenedTo, set_connection_cb, Goto, table,
         races
<1>4. AcceptedFrom'
  BY DEF RouteInv, TableInv, Types, AcceptedFrom, set_connection_cb, Goto, table, races
<1>5. KeptUnderId'
  BY SMTT(40) DEF RouteInv, TableInv, Types, KeptUnderId, Purpose, OpenedTo, Entered, UsesStored,
         IdsFresh, set_connection_cb, Goto, table, races
<1>6. SentUnderAddress'
  BY DEF RouteInv, TableInv, Types, SentUnderAddress, RestOfTypes, Entered, KeptUnderId,
         set_connection_cb, Goto, table, races
<1>7. VectorServed'
  BY SMTT(40) DEF RouteInv, TableInv, Types, VectorServed, KeptUnderId, UsesStored, IdsFresh,
         RestOfTypes, Purpose, set_connection_cb, Goto, table, races
<1>8. FirstStays'
  <2>1. /\ UNCHANGED <<opened, bev_map, to, bev, id, written, id_race, connect_race>>
        /\ at[t] = "set" /\ at'[t] = IF opened[bev[t]].is_listen THEN "push" ELSE "send"
        /\ \A u \in Threads : u # t => at'[u] = at[u]
    BY DEF RouteInv, TableInv, Types, set_connection_cb, Goto, races
  <2>2. WrittenFirst => WrittenFirst'
    BY <2>1 DEF WrittenFirst, First, Under
  <2>3. UsesFirst => UsesFirst'
    BY <2>1 DEF UsesFirst, First, Under
  <2>4. MadeWhenNone => MadeWhenNone'
    BY <2>1 DEF MadeWhenNone, NoneUnder, Under, Adding
  <2>5. LaterLarger => LaterLarger'
    BY <2>1 DEF LaterLarger, Under, Entered
  <2>6. EnteringApart => EnteringApart'
    BY <2>1 DEF EnteringApart, Entering, Entered, Adding
  <2> QED
    BY <2>1, <2>2, <2>3, <2>4, <2>5, <2>6 DEF RouteInv, FirstStays
<1> QED
  BY <1>1, <1>2, <1>3, <1>4, <1>5, <1>6, <1>7, <1>8 DEF RouteInv

\* An identifier enters the vector.
LEMMA push_back_Route ==
    ASSUME RouteInv, NEW t \in Threads, push_back(t)
    PROVE  RouteInv'
<1>1. TableInv'
  BY push_back_Inv DEF RouteInv
<1>2. RestOfTypes'
  <2>1. id[t] \in Nat
    BY DEF RouteInv, TableInv, Types, UsesStored, push_back, Goto
  <2> QED
    BY <2>1 DEF RouteInv, RestOfTypes, push_back, races
<1>3. Purpose'
  BY DEF RouteInv, TableInv, Types, Purpose, OpenedTo, push_back, Goto, table, races
<1>4. AcceptedFrom'
  BY DEF RouteInv, TableInv, Types, AcceptedFrom, push_back, Goto, table, races
<1>5. KeptUnderId'
  BY DEF RouteInv, TableInv, Types, KeptUnderId, Purpose, OpenedTo, Entered, UsesStored,
         IdsFresh, push_back, Goto, table, races
<1>6. SentUnderAddress'
  BY DEF RouteInv, TableInv, Types, SentUnderAddress, RestOfTypes, Entered, KeptUnderId,
         push_back, Goto, table, races
<1>7. VectorServed'
  <2> DEFINE n == Len(listen_id_vector) + 1
  <2>1. id[t] \in Nat /\ id[t] \in DOMAIN bev_map /\ at[t] = "push"
    BY DEF RouteInv, TableInv, Types, UsesStored, push_back, Goto
  <2>2. /\ DOMAIN listen_id_vector' = DOMAIN listen_id_vector \cup {n}
        /\ \A k \in DOMAIN listen_id_vector : listen_id_vector'[k] = listen_id_vector[k]
        /\ listen_id_vector'[n] = id[t]
    BY <2>1 DEF RouteInv, RestOfTypes, push_back
  <2>3. /\ UNCHANGED <<opened, bev_map, enabled, id, id_race>>
        /\ \A u \in Threads : at'[u] \in {"set", "push"} => u # t /\ at[u] \in {"set", "push"}
    BY DEF RouteInv, TableInv, Types, push_back, Goto, races
  <2>4. ~id_race => /\ opened[bev_map[id[t]]].is_listen
                    /\ bev_map[id[t]] \in enabled
    BY <2>1 DEF RouteInv, Purpose, KeptUnderId
  <2> HIDE DEF n
  <2> QED
    BY <2>1, <2>2, <2>3, <2>4 DEF RouteInv, VectorServed
<1>8. FirstStays'
  <2>1. /\ UNCHANGED <<opened, bev_map, to, bev, id, written, id_race, connect_race>>
        /\ at[t] = "push" /\ at'[t] = "idle"
        /\ \A u \in Threads : u # t => at'[u] = at[u]
    BY DEF RouteInv, TableInv, Types, push_back, Goto, table, races
  <2>2. WrittenFirst => WrittenFirst'
    BY <2>1 DEF WrittenFirst, First, Under
  <2>3. UsesFirst => UsesFirst'
    BY <2>1 DEF UsesFirst, First, Under
  <2>4. MadeWhenNone => MadeWhenNone'
    BY <2>1 DEF MadeWhenNone, NoneUnder, Under, Adding
  <2>5. LaterLarger => LaterLarger'
    BY <2>1 DEF LaterLarger, Under, Entered
  <2>6. EnteringApart => EnteringApart'
    BY <2>1 DEF EnteringApart, Entering, Entered, Adding
  <2> QED
    BY <2>1, <2>2, <2>3, <2>4, <2>5, <2>6 DEF RouteInv, FirstStays
<1> QED
  BY <1>1, <1>2, <1>3, <1>4, <1>5, <1>6, <1>7, <1>8 DEF RouteInv

\* A message is written.
LEMMA send_Route ==
    ASSUME RouteInv, NEW t \in Threads, send(t)
    PROVE  RouteInv'
<1>1. TableInv'
  BY send_Inv DEF RouteInv
<1>2. RestOfTypes'
  <2>1. bev_map[id[t]] \in DOMAIN opened /\ to[t] \in Hosts
    BY DEF RouteInv, TableInv, Types, UsesStored, Purpose, send, Goto
  <2>2. UNCHANGED <<opened, listen_id_vector, enabled, id_race, connect_race>>
    BY DEF send, table, races
  <2>3. written' \subseteq [bev : DOMAIN opened, to : Hosts]
    BY <2>1 DEF RouteInv, RestOfTypes, send
  <2> QED
    BY <2>2, <2>3 DEF RouteInv, RestOfTypes
<1>3. Purpose'
  BY DEF RouteInv, TableInv, Types, Purpose, OpenedTo, send, Goto, table, races
<1>4. AcceptedFrom'
  BY DEF RouteInv, TableInv, Types, AcceptedFrom, send, Goto, table, races
<1>5. KeptUnderId'
  BY DEF RouteInv, TableInv, Types, KeptUnderId, Purpose, OpenedTo, Entered, UsesStored,
         IdsFresh, send, Goto, table, races
<1>6. SentUnderAddress'
  BY DEF RouteInv, TableInv, Types, SentUnderAddress, RestOfTypes, Entered, KeptUnderId,
         send, Goto, table, races
<1>7. VectorServed'
  BY ZenonT(40) DEF RouteInv, TableInv, Types, VectorServed, KeptUnderId, UsesStored, IdsFresh,
         RestOfTypes, Purpose, send, Goto, table, races
<1>8. FirstStays'
  <2>1. /\ UNCHANGED <<opened, bev_map, to, bev, id, id_race, connect_race>>
        /\ at[t] = "send" /\ at'[t] = "idle"
        /\ \A u \in Threads : u # t => at'[u] = at[u]
        /\ written' = written \cup {[bev |-> bev_map[id[t]], to |-> to[t]]}
    BY DEF RouteInv, TableInv, Types, send, Goto, table, races
  <2>2. WrittenFirst /\ UsesFirst => WrittenFirst'
    BY <2>1 DEF WrittenFirst, UsesFirst, First, Under
  <2>3. UsesFirst => UsesFirst'
    BY <2>1 DEF UsesFirst, First, Under
  <2>4. MadeWhenNone => MadeWhenNone'
    BY <2>1 DEF MadeWhenNone, NoneUnder, Under, Adding
  <2>5. LaterLarger => LaterLarger'
    BY <2>1 DEF LaterLarger, Under, Entered
  <2>6. EnteringApart => EnteringApart'
    BY <2>1 DEF EnteringApart, Entering, Entered, Adding
  <2> QED
    BY <2>1, <2>2, <2>3, <2>4, <2>5, <2>6 DEF RouteInv, FirstStays
<1> QED
  BY <1>1, <1>2, <1>3, <1>4, <1>5, <1>6, <1>7, <1>8 DEF RouteInv

\* The table that init_handle leaves.
LEMMA InitRoute == Init => RouteInv
<1> SUFFICES ASSUME Init PROVE RouteInv
  OBVIOUS
<1>1. RestOfTypes
  <2>1. written \subseteq [bev : DOMAIN opened, to : Hosts]
    BY DEF Init
  <2>2. id_race \in BOOLEAN /\ connect_race \in BOOLEAN
    BY DEF Init
  <2>3. opened \in Seq(BevInfor) /\ listen_id_vector \in Seq(Nat) /\ enabled \subseteq DOMAIN opened
    BY DEF Init
  <2> QED
    BY <2>1, <2>2, <2>3 DEF RestOfTypes
<1>2. Purpose /\ AcceptedFrom /\ KeptUnderId /\ SentUnderAddress
  BY DEF Init, Purpose, AcceptedFrom, KeptUnderId, SentUnderAddress
<1>3. VectorServed /\ FirstStays
  BY DEF Init, VectorServed, FirstStays, WrittenFirst, UsesFirst, MadeWhenNone, LaterLarger,
         EnteringApart, Entering, Adding
<1> QED
  BY <1>1, <1>2, <1>3, InitInv DEF RouteInv

\* A step that changes nothing.
LEMMA StutterRoute ==
    ASSUME RouteInv, UNCHANGED <<table, locals, written, races>>
    PROVE  RouteInv'
<1>1. TableInv'
  BY StutterInv DEF RouteInv
<1>2. RestOfTypes' /\ Purpose' /\ AcceptedFrom'
  BY DEF table, locals, races, RouteInv, RestOfTypes, Purpose, OpenedTo, AcceptedFrom
<1>3. KeptUnderId' /\ SentUnderAddress'
  BY DEF table, locals, races, RouteInv, KeptUnderId, Entered, SentUnderAddress
<1>4. VectorServed' /\ FirstStays'
  BY DEF table, locals, races, RouteInv, VectorServed, FirstStays, WrittenFirst,
         UsesFirst, MadeWhenNone, LaterLarger, EnteringApart, Entering, Entered, Adding, First,
         Under, NoneUnder
<1> QED
  BY <1>1, <1>2, <1>3, <1>4 DEF RouteInv

\* What each thread, the map and the vector say of a connection agrees in every
\* reachable state of a LibeventHandle.
THEOREM Routing == Spec => []RouteInv
<1>1. RouteInv /\ [Next]_vars => RouteInv'
  <2> SUFFICES ASSUME RouteInv, [Next]_vars PROVE RouteInv'
    OBVIOUS
  <2>1. CASE \E t \in Senders, d \in Hosts : get_connection_id(t, d)
    BY <2>1, get_connection_id_Route DEF Threads
  <2>2. CASE \E a \in Peers : connlistener_cb(a)
    BY <2>2, connlistener_cb_Route
  <2>3. CASE \E t \in Threads : Step(t)
    BY <2>3, connect_failure_Route, add_bufferevent_connect_Route, load_id_Route,
       fetch_add_Route, store_Route, set_connection_cb_Route, push_back_Route, send_Route,
       StutterRoute
    DEF Step, use_null
  <2>4. CASE UNCHANGED vars
    BY <2>4, StutterRoute DEF vars
  <2> QED
    BY <2>1, <2>2, <2>3, <2>4 DEF Next
<1> QED
  BY <1>1, InitRoute, PTL DEF Spec

\* The map, the vector and the variables of the threads keep their types; the
\* port an accepted connection is entered with is a port.
THEOREM TypeCorrect == Spec => []TypeOK
<1> DEFINE CrashType == crashed \in BOOLEAN
<1>1. Init => CrashType
  BY DEF Init
<1>2. CrashType /\ [Next]_vars => CrashType'
  BY DEF Next, Step, Alive, use_null, vars
<1>3. RouteInv /\ CrashType => TypeOK
  BY DEF RouteInv, TableInv, Types, RestOfTypes, TypeOK
<1> HIDE DEF CrashType
<1> QED
  BY <1>1, <1>2, <1>3, Routing, PTL DEF Spec

\* As long as no two threads take the same identifier, what sendMessage writes
\* for a host goes to a connection that was opened to this host, or to one
\* accepted from a peer whose swapped port is the host's.
THEOREM SentRight == Spec => []SentToItsHost
<1>1. RouteInv => SentToItsHost
  <2> SUFFICES ASSUME RouteInv, ~id_race, NEW m \in written
               PROVE  /\ Entered(m.bev, m.to)
                      /\ opened[m.bev].is_listen =>
                             \E a \in Peers : a.ip = m.to.ip /\ sin_port(a.port) = m.to.port
    BY DEF SentToItsHost, Entered
  <2>1. Entered(m.bev, m.to) /\ m.bev \in DOMAIN opened
    BY DEF RouteInv, SentUnderAddress, RestOfTypes
  <2> QED
    BY <2>1 DEF RouteInv, AcceptedFrom, Entered
<1> QED
  BY <1>1, Routing, PTL

\* If moreover no two threads enter one address at once, all that is written
\* for a host is on one connection.
THEOREM OnePerHost == Spec => []OneConnectionPerHost
<1>1. RouteInv => OneConnectionPerHost
  <2> SUFFICES ASSUME RouteInv, ~id_race, ~connect_race,
                      NEW m \in written, NEW n \in written, m.to = n.to
               PROVE  m.bev = n.bev
    BY DEF OneConnectionPerHost
  <2>1. PICK i \in DOMAIN bev_map : bev_map[i] = m.bev /\ First(i, m.to)
    BY DEF RouteInv, FirstStays, WrittenFirst
  <2>2. PICK j \in DOMAIN bev_map : bev_map[j] = n.bev /\ First(j, m.to)
    BY DEF RouteInv, FirstStays, WrittenFirst
  <2>3. i \in Nat /\ j \in Nat /\ i <= j /\ j <= i
    BY <2>1, <2>2 DEF First, RouteInv, TableInv, Types
  <2> QED
    BY <2>1, <2>2, <2>3
<1> QED
  BY <1>1, Routing, PTL

\* Whoever takes an identifier from get_listen_connection_array finds an
\* accepted connection under it, with its callback set.
THEOREM ListenUsable == Spec => []ListenIdsUsable
<1>1. RouteInv => ListenIdsUsable
  BY DEF RouteInv, VectorServed, ListenIdsUsable
<1> QED
  BY <1>1, Routing, PTL

=============================================================================
