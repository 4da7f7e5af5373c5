\* Two threads, two providers at a time with two ids, one handler, and
\* instances with one stream and with several; no symmetry.
SPECIFICATION FairSpec
CONSTANTS
    t1 = t1
    t2 = t2
    p1 = p1
    p2 = p2
    u1 = u1
    i1 = i1
    i2 = i2
    Threads = {t1, t2}
    Ults = {u1}
    Blocks = {p1, p2}
    ProviderIds = {i1, i2}
    NULL = NULL
    Unregistered = Unregistered
    MaxCollectors = 2
    Listening = TRUE
INVARIANTS ServedByOwner OwnRoutes NoStaleRoute FinalizedOnce InstanceReleasesAll
PROPERTIES FinalisationsAdvance ThreadsReturn
