\* Starts, stops, config saves, shutdowns and crashes, before the restore, during it and after it.
CONSTANTS
    r1 = r1
    r2 = r2
    boot = boot
    main = main
    d1 = d1
    d2 = d2
    p1 = p1
    NoDest = NoDest
    NoProfile = NoProfile
    Unset = Unset
    Boot = boot
    Main = main
    Profiles <- MCProfiles
    Workers <- MCWorkers2
    Types <- MCTypes1
    Dests <- MCDests1
    Ops <- StopOps
    InitialFiles <- OneSchedule
    InitialProfiles <- ProfileStored
    MaxObjects = 2

SPECIFICATION Spec
SYMMETRY RequestSymmetry
VIEW SavedState
CHECK_DEADLOCK FALSE

INVARIANT FileIsRegistry
INVARIANT StoppedStaysStopped
