SPECIFICATION FairSpec
CONSTANTS
    t1 = t1
    t2 = t2
    Threads = {t1, t2}
    NoThread = NoThread
    Recurse = TRUE
    MaxDepth = 2
    MaxTime = 2
INVARIANTS TypeOK CountMatchesHolders NoLostWakeup NodesUnlinked
PROPERTIES ImplementsRWLock TimedCallReturns
