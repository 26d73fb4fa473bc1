\* A retry is due or under way when the day ends.
CONSTANTS
    t1 = t1
    t2 = t2
    report = report
    alarm = alarm
    Unset = Unset
    Runners <- MCRunners
    Identities <- MCIdentities
    Daily <- MCDaily
    RetryWaits <- MCRetryWaits
    SendTimes <- MCSendTimes
    DayLength = 4
    Interval = 1
    NumKeys = 1
    Setups <- ReportOnly
    Requests <- NoRequests
    Faults <- BuildFaults
    Alerts = {}
    MaxNow = 6
    MaxObjects = 1

SPECIFICATION Spec
CHECK_DEADLOCK FALSE

INVARIANT ReportsKeepTheirDay
