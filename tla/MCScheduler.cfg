SPECIFICATION Spec
CONSTANTS
    idle = idle
    init = init
    main = main
    a = a
    Threads = {idle, init, main, a}
    gk_IdleThread = idle
    gk_InitThread = init
    Main = main
    NoThread = NoThread
    Levels = 2
    Level0 <- TwoLevels
    MaxTime = 2
INVARIANTS TypeOK ReadyListsExact SleepListExact InitSeesZombies ReapedAfterDeath JoinerWoken
