SPECIFICATION Spec
CONSTANTS
    t1 = t1
    t2 = t2
    t3 = t3
    h1 = h1
    h2 = h2
    h3 = h3
    NULL = NULL
    NoCall = NoCall
    Threads = {t1, t2, t3}
    Hosts = {h1, h2, h3}
    HostOf <- ApartHosts
    Pages <- OnePage
    PagesOf <- AllPages
    Modes = {0, 1}
    SpaceFactor <- MCSpaceFactor
    Word <- MCWord
    Disciplined = TRUE
    HandlerReady = TRUE
    SendMayFail = FALSE
    Configured = {h1, h2, h3}
    Answerable = {h1, h2, h3}
    MaxCalls = 2
INVARIANT MutualExclusion
CHECK_DEADLOCK FALSE
