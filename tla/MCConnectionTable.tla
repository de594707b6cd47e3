------------------------- MODULE MCConnectionTable -------------------------
(***************************************************************************)
(* Instances of ConnectionTable for TLC.                                   *)
(***************************************************************************)
EXTENDS ConnectionTable

Addr(ip, port) == [ip |-> ip, port |-> port]

\* Two hosts of one machine, as in the test configuration.
TwoHosts == {Addr(1, 6), Addr(1, 7)}

\* With Byte = 4, port 9 is 6 with its bytes swapped, the port of a host on one
\* of the two machines; on the other it collides with nothing.
TwoPeers == {Addr(1, 9), Addr(2, 9)}

=============================================================================
