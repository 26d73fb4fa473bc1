----------------------------- MODULE MCCollector -----------------------------
(***************************************************************************)
(* An instance of the modules that collect a dashboard's data: the jobs, a *)
(* monitoring list's pages, the endpoints of the jobs database, the daily  *)
(* snapshots.  Their machines share no state, so a behaviour is one of     *)
(* them; the jobs are looked at with two jobs and one build at a time, and *)
(* with one job and two builds.                                            *)
(***************************************************************************)
EXTENDS JobReports, DailySnapshots, MonitoringPages, RestFallback, TLC

CONSTANTS
    Topics,     \* what the instance looks at
    j1, j2, b1, b2

VARIABLE topic

collectorVars == <<topic, jobVars, snapshotVars, pageVars, fallbackVars>>

MCRunOf == (j1 :> "run 1") @@ (j2 :> "run 2")
MCSameRun == (j1 :> "run 1") @@ (j2 :> "run 1")

MCStrategies ==
    << [size |-> 3, windowed |-> TRUE], [size |-> 2, windowed |-> TRUE], [size |-> 1, windowed |-> FALSE] >>

\* A machine that is not the topic stays where it happens to start.
CollectorInit ==
    /\ topic \in Topics
    /\ JobReportsInit /\ SnapshotsInit /\ PagesInit /\ FallbackInit
    /\ topic # "snapshots" => ~automatic
    /\ topic # "pages" => nwui = [list |-> << >>, recent |-> 0, largest |-> 1, counts |-> FALSE, clamps |-> FALSE]
    /\ topic # "endpoints" => last = 1 /\ serves = {} /\ unknown = [e \in 1..1 |-> {}]

\* Two jobs, of which the restore fails, and one build at a time.
OneBuild ==
    /\ JobReportsNext
    /\ \A j \in Restores : jobs'[j].completion # "Succeeded"
    /\ build'[b2] = build[b2]

\* One job, which fails, and builds that overlap and share the history cache;
\* NWUI's own lists always answer.
TwoBuilds ==
    /\ JobReportsNext
    /\ \A j \in Jobs : j \notin Actions => jobs'[j] = jobs[j]
    /\ \A j \in Jobs : jobs'[j].completion # "Succeeded"
    /\ \A b \in Builders :
          /\ build'[b].window = Rolling /\ build'[b].at # "ask"
          /\ build'[b].liveOk /\ build'[b].recoveriesOk

CollectorNext ==
    /\ UNCHANGED topic
    /\ \/ topic = "jobs" /\ OneBuild /\ UNCHANGED <<snapshotVars, pageVars, fallbackVars>>
       \/ topic = "builds" /\ TwoBuilds /\ UNCHANGED <<snapshotVars, pageVars, fallbackVars>>
       \/ topic = "snapshots" /\ SnapshotsNext /\ UNCHANGED <<jobVars, pageVars, fallbackVars>>
       \/ topic = "pages" /\ PagesNext /\ UNCHANGED <<jobVars, snapshotVars, fallbackVars>>
       \/ topic = "endpoints" /\ FallbackNext /\ UNCHANGED <<jobVars, snapshotVars, pageVars>>

CollectorSpec == CollectorInit /\ [][CollectorNext]_collectorVars
=============================================================================
