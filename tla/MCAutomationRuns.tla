-------------------------- MODULE MCAutomationRuns --------------------------
(***************************************************************************)
(* Instances of AutomationRuns for TLC: days of four units, a retry    *)
(* after one unit and then after two.                                      *)
(***************************************************************************)
EXTENDS AutomationRuns, TLC

CONSTANTS t1, t2, report, alarm

MCRunners == {t1, t2}
OneRunner == {t1}
MCIdentities == {report, alarm}
MCDaily == {report}
MCRetryWaits == <<1, 2>>
MCSendTimes == {1, 2}

\* One daily report, either that or an alert, and two alerts of one identity.
ReportOnly == {<<[ident |-> report, sendAt |-> 1]>>}
AlertOnly == {<<[ident |-> alarm, sendAt |-> 1]>>}
ReportOrAlert == ReportOnly \cup AlertOnly
Twins == {s \o s : s \in AlertOnly}

RunnerSymmetry == Permutations(MCRunners)

\* No step and no property of RunsClaims.cfg reads untimely and passedOver.
ProgramState == <<clock, schedules, file, guard, claimed, ticking, runs, inbox>>

NoRequests == {}
AllRequests == {"stop", "edit", "pause", "move"}

NoFaults == {}
EmailFaults == {"build", "smtp", "adopt", "thread", "restart"}
ThreadFaults == {"thread"}
BuildFaults == {"build"}
ClaimFaults == {"build", "thread"}
=============================================================================
