\* A report stopped, edited, moved and paused while its tick and its run are under way.
CONSTANTS
    t1 = t1
    t2 = t2
    report = report
    alarm = alarm
    Unset = Unset
    Runners <- MCRunners
    Identities <- MCIdentities
    Daily <- MCDaily
    RetryWaits <- MCRetryWaits
    SendTimes <- MCSendTimes
    DayLength = 4
    Interval = 1
    NumKeys = 1
    Setups <- ReportOnly
    Requests <- AllRequests
    Faults <- ClaimFaults
    Alerts = {}
    MaxNow = 2
    MaxObjects = 2

SPECIFICATION FairSpec
VIEW ProgramState
CHECK_DEADLOCK FALSE

INVARIANT TypeOK
INVARIANT ClaimsAreRuns
INVARIANT OneRunPerSchedule
PROPERTY DueRunsStart
PROPERTY ClaimsEnd
