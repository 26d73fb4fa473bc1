\* A daily report or an alert: failing builds, sends and threads, adopted sessions, clean restarts.
CONSTANTS
    t1 = t1
    t2 = t2
    report = report
    alarm = alarm
    Unset = Unset
    Runners <- OneRunner
    Identities <- MCIdentities
    Daily <- MCDaily
    RetryWaits <- MCRetryWaits
    SendTimes <- MCSendTimes
    DayLength = 4
    Interval = 1
    NumKeys = 1
    Setups <- ReportOrAlert
    Requests <- NoRequests
    Faults <- EmailFaults
    Alerts = {1, 2}
    MaxNow = 6
    MaxObjects = 1

SPECIFICATION Spec
CHECK_DEADLOCK FALSE

INVARIANT NoRepeatedEmail
INVARIANT OnlyOwedReports
INVARIANT OwedReportIsScheduled
