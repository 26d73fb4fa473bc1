\* The healing passes over what earlier versions left behind, beside pauses, stops and runs.
CONSTANTS
    r1 = r1
    r2 = r2
    boot = boot
    main = main
    d1 = d1
    d2 = d2
    p1 = p1
    NoDest = NoDest
    NoProfile = NoProfile
    Unset = Unset
    Boot = boot
    Main = main
    Profiles <- MCProfiles
    Workers <- MCWorkers1
    Types <- MCTypes2
    Dests <- MCDests2
    Ops <- RestoreOps
    InitialFiles <- LegacyFiles
    InitialProfiles <- NoProfilesStored
    MaxObjects = 3

SPECIFICATION Spec
VIEW RestoredState
CHECK_DEADLOCK FALSE

INVARIANT RestoreServesEveryType
INVARIANT FileIsRegistry
