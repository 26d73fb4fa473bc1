\* Two alerts of one identity are due at the same time.
CONSTANTS
    t1 = t1
    t2 = t2
    report = report
    alarm = alarm
    Unset = Unset
    Runners <- MCRunners
    Identities <- MCIdentities
    Daily <- MCDaily
    RetryWaits <- MCRetryWaits
    SendTimes <- MCSendTimes
    DayLength = 4
    Interval = 1
    NumKeys = 2
    Setups <- Twins
    Requests <- NoRequests
    Faults <- NoFaults
    Alerts = {1}
    MaxNow = 2
    MaxObjects = 2

SPECIFICATION Spec
CHECK_DEADLOCK FALSE

INVARIANT NoRepeatedEmail
