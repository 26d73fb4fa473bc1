\* Two requests of the email window at once.
CONSTANTS
    w1 = w1
    w2 = w2
    s1 = s1
    s2 = s2
    day = day
    week = week
    None = None
    Unset = Unset
    Blank = Blank
    Stores = {"email"}
    Workers <- MCWorkers
    Ids = {i1}
    Ranges <- MCRanges
    DefaultRange = day
    FailedSaves = FALSE
    MaxObjects = 2
    ProfileNames = {n1, n2}
    Targets <- MCServers
    Keys = {1, 2}
    Servers <- MCServers
    Requesters <- MCWorkers
    MaxSchedules = 1

SPECIFICATION StoresSpec
SYMMETRY MCSymmetry
CHECK_DEADLOCK FALSE

INVARIANT SmtpPasswordsGoHome
