SPECIFICATION FairSpec
CONSTANTS
    idle = idle
    init = init
    main = main
    a = a
    Threads = {idle, init, main, a}
    gk_IdleThread = idle
    gk_InitThread = init
    Main = main
    NoThread = NoThread
    Levels = 1
    Level0 <- OneLevel
    MaxTime = 2
PROPERTIES ReadyRuns ZombiesDeleted
