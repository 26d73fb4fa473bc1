\* A shutdown while a run is ending.
CONSTANTS
    r1 = r1
    r2 = r2
    boot = boot
    main = main
    d1 = d1
    d2 = d2
    p1 = p1
    NoDest = NoDest
    NoProfile = NoProfile
    Unset = Unset
    Boot = boot
    Main = main
    Profiles <- MCProfiles
    Workers <- MCWorkers2
    Types <- MCTypes1
    Dests <- MCDests2
    Ops <- ShutdownOps
    InitialFiles <- OneSchedule
    InitialProfiles <- NoProfilesStored
    MaxObjects = 1

SPECIFICATION Spec
SYMMETRY RequestSymmetry
CHECK_DEADLOCK FALSE

PROPERTY ShutdownKeepsSchedules
