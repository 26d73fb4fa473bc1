\* One session id with two workers and two ranges, two profiles and keys, one email request at a time.
CONSTANTS
    w1 = w1
    w2 = w2
    s1 = s1
    s2 = s2
    day = day
    week = week
    None = None
    Unset = Unset
    Blank = Blank
    Stores = {"sessions", "profiles", "email"}
    Workers <- MCWorkers
    Ids = {i1}
    Ranges <- MCRanges
    DefaultRange = day
    FailedSaves = TRUE
    MaxObjects = 2
    ProfileNames = {n1, n2}
    Targets <- MCServers
    Keys = {1, 2}
    Servers <- MCServers
    Requesters = {r1}
    MaxSchedules = 2

SPECIFICATION StoresSpec
SYMMETRY MCSymmetry
VIEW StoredState
CHECK_DEADLOCK FALSE

INVARIANT ReportsCoverTheirRange
INVARIANT RangesWereChosen
INVARIANT PurgedStaysPurged
INVARIANT ProfilePasswordsGoHome
INVARIANT SmtpPasswordsGoHome
PROPERTY SavedPasswordsSurvive
