SPECIFICATION Spec
CONSTANTS
    t1 = t1
    t2 = t2
    t3 = t3
    h1 = h1
    h2 = h2
    h3 = h3
    NULL = NULL
    NoCall = NoCall
    Threads = {t1, t2, t3}
    Hosts = {h1, h2}
    HostOf <- SharedHosts
    Pages <- ThreePages
    PagesOf <- SplitPages
    Modes = {1}
    SpaceFactor <- MCSpaceFactor
    Word <- MCWord
    Disciplined = TRUE
    HandlerReady = FALSE
    SendMayFail = TRUE
    Configured = {h1, h2}
    Answerable = {h1, h2}
    MaxCalls = 3
INVARIANT TypeOK
INVARIANT MutualExclusion
PROPERTY ReplyReachesCaller
PROPERTY RefusalJustified
PROPERTY ImplementsExclusiveLock
CHECK_DEADLOCK FALSE
