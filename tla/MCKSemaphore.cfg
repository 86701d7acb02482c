SPECIFICATION SemFairSpec
CONSTANTS
    t1 = t1
    t2 = t2
    t3 = t3
    Threads = {t1, t2, t3}
    NoThread = NoThread
    InitialCount = 1
    SEM_VALUE_MAX = 2
    MaxTime = 1
INVARIANTS SemTypeOK CreditsCovered
PROPERTY SemTimedCallReturns
