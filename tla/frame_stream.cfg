SPECIFICATION FairSpec
CONSTANTS
    Senders = {s1, s2}
    Waiters = {w1, w2}
    Messages <- MCMessages
    HeaderSize = 2
    FreshCache = {TRUE, FALSE}
    MaxFrames = 2
    Idle = Idle
INVARIANT FramesInOrder
INVARIANT NoFrameLeftBehind
INVARIANT ReadSignalBalanced
PROPERTY ImplementsFifoChannel
PROPERTY FramesDelivered
CHECK_DEADLOCK FALSE
