\* Two restores of one client and action that start in the same second.
CONSTANTS
    j1 = j1
    j2 = j2
    b1 = b1
    b2 = b2
    None = None
    Unset = Unset
    Topics = {"jobs"}
    Jobs = {j1, j2}
    Actions = {}
    Restores = {j1, j2}
    RunOf <- MCSameRun
    Builders = {b1, b2}
    Modes = {"nwui", "rest"}
    Days = {0}
    DayLength = 2
    Ttl = 1
    CacheMax = 1
    Completions = {"Succeeded", "Failed"}
    MaxTime = 2
    Savers = {s1, s2}
    MaxKept = 2
    MaxDays = 3
    MaxItems = 5
    Strategies <- MCStrategies
    MaxPages = 4
    MaxEndpoints = 3
    Fields = {f1, f2}

SPECIFICATION CollectorSpec
CHECK_DEADLOCK FALSE

INVARIANT RestoresAreCountedOnce
