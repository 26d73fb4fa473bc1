\* Starts, edits and profiles, before the restore, while it runs and after it.
CONSTANTS
    r1 = r1
    r2 = r2
    boot = boot
    main = main
    d1 = d1
    d2 = d2
    p1 = p1
    NoDest = NoDest
    NoProfile = NoProfile
    Unset = Unset
    Boot = boot
    Main = main
    Profiles <- MCProfiles
    Workers <- MCWorkers2
    Types <- MCTypes1
    Dests <- MCDests2
    Ops <- ArmOps
    InitialFiles <- AtMostOneSchedule
    InitialProfiles <- ProfileStored
    MaxObjects = 2

SPECIFICATION Spec
SYMMETRY RequestSymmetry
VIEW ProgramState
CHECK_DEADLOCK FALSE

INVARIANT OneConfigDrivenPerType
