SPECIFICATION FairSpec
CONSTANTS
    Loop = Loop
    Senders = {Loop, s1}
    Hosts <- TwoHosts
    Peers <- TwoPeers
    Byte = 4
    MaxConnections = 3
INVARIANT TypeOK
INVARIANT SendFindsItsConnection
INVARIANT IdNamesOneConnection
INVARIANT SentToItsHost
INVARIANT OneConnectionPerHost
INVARIANT ListenIdsUsable
PROPERTY ConnectionServed
CHECK_DEADLOCK FALSE
