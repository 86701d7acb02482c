SPECIFICATION FairSpec
CONSTANTS
    Threads = {t1, t2}
    LongSenders = {t2}
    p = p
    q = q
    Ports = {p, q}
    Blocks = {b1, b2}
    NULL = NULL
    Listeners = {g}
    m_MaxCount <- Capacities
    MAX_CACHED_MESSAGE_COUNT = 1
INVARIANTS BuffersAccounted WaitersMustWait
PROPERTIES ImplementsChannel TimedCallReturns
CHECK_DEADLOCK FALSE
