SPECIFICATION FairSpec
CONSTANTS
    t1 = t1
    t2 = t2
    Threads = {t1, t2}
    NoThread = NoThread
    MaxTime = 1
    Cancelable = {t1, t2}
INVARIANTS WaiterIsFindable CancelReachesWaiter
PROPERTIES SuccessIffNotified NotifiedReturns
