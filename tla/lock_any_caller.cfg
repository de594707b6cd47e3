SPECIFICATION FairSpec
CONSTANTS
    t1 = t1
    t2 = t2
    t3 = t3
    h1 = h1
    h2 = h2
    h3 = h3
    NULL = NULL
    NoCall = NoCall
    Threads = {t1, t2, t3}
    Hosts = {h1, h2, h3}
    HostOf <- ApartHosts
    Pages <- TwoPages
    PagesOf <- TwoPagesForT1
    Modes = {0, 1}
    SpaceFactor <- MCSpaceFactor
    Word <- MCWord
    Disciplined = FALSE
    HandlerReady = FALSE
    SendMayFail = TRUE
    Configured = {h1, h2, h3}
    Answerable = {h1, h2}
    MaxCalls = 2
INVARIANT OneAnswerPerCall
PROPERTY VersionNeverReduces
PROPERTY AnsweredUnlessStranded
CHECK_DEADLOCK FALSE
