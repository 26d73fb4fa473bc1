\* Starts and edits at once, nothing stopped.
CONSTANTS
    r1 = r1
    r2 = r2
    boot = boot
    main = main
    d1 = d1
    d2 = d2
    p1 = p1
    NoDest = NoDest
    NoProfile = NoProfile
    Unset = Unset
    Boot = boot
    Main = main
    Profiles <- MCProfiles
    Workers <- MCWorkers2
    Types <- MCTypes1
    Dests <- MCDests1
    Ops <- EditOps
    InitialFiles <- EmptyFile
    InitialProfiles <- NoProfilesStored
    MaxObjects = 3

SPECIFICATION Spec
SYMMETRY RequestSymmetry
CHECK_DEADLOCK FALSE

INVARIANT ArmedTypeStaysArmed
