----------------------------- MODULE JobReports -----------------------------
(***************************************************************************)
(* How a dashboard gets its figures from NetWorker (nwui.py, restapi.py,   *)
(* job_status.py).  In NWUI mode a build asks for the running actions and  *)
(* the restores, then for the history in the jobs database, which a cache  *)
(* shared by all builds keeps for a while, and merges them; in REST mode it*)
(* asks the jobs database for all jobs and for the failed ones.  Jobs start*)
(* and end, and other builds run, between any two questions.               *)
(*                                                                         *)
(* RunOf names a job the way records without an id are told apart: client  *)
(* or workflow, action and start second.                                   *)
(***************************************************************************)
EXTENDS Integers, FiniteSets

CONSTANTS
    Jobs,           \* NetWorker's jobs
    Actions,        \* those that are actions of a workflow, which NWUI monitors
    Restores,       \* those that are restores
    RunOf,          \* the run a job belongs to
    Builders,       \* threads that build dashboards
    Modes,          \* the API modes they use
    Days,           \* calendar days asked for as a custom range
    DayLength,
    Ttl,            \* JOBS_HISTORY_TTL_SECONDS
    CacheMax,       \* JOBS_HISTORY_CACHE_MAX
    Completions,    \* how jobs may end
    MaxTime,        \* bound on the clock, for model checking only
    None

ASSUME JobReportsAssumption ==
    /\ Actions \subseteq Jobs /\ Restores \subseteq Jobs \ Actions
    /\ \A a \in Actions : \A j \in Jobs \ {a} : RunOf[j] # RunOf[a]
    /\ Modes \subseteq {"nwui", "rest"} /\ Days \subseteq Nat
    /\ DayLength \in Nat \ {0} /\ Ttl \in Nat \ {0} /\ CacheMax \in Nat \ {0} /\ MaxTime \in Nat
    /\ Completions \subseteq {"Succeeded", "Failed", "Abandoned", "Missed"}
    /\ None \notin Jobs

VARIABLES
    now,    \* the clock
    jobs,   \* NetWorker: each job's completion status, state, and the time it
            \* ended or, until then, started
    cache,  \* _JOBS_HISTORY_CACHE: per window its entry, or None
    build,  \* per builder: the build it is in the middle of
    report  \* the dashboard the last step delivered, or None

jobVars == <<now, jobs, cache, build, report>>

-----------------------------------------------------------------------------
\* Outcomes.

Ongoing == {"running", "queued"}
Ended == {"succeeded", "failed", "warning"}

\* classify_status, on the words this model uses.
ClassifyStatus(word) ==
    CASE word = "Succeeded" -> "succeeded"
      [] word = "Completed" -> "succeeded"
      [] word \in {"Failed", "Abandoned"} -> "failed"
      [] word = "Missed" -> "warning"
      [] word = "Active" -> "running"
      [] word = "Queued" -> "queued"
      [] OTHER -> "unknown"

\* job_outcome: a finished state says nothing about how the job went.
JobOutcome(completion, state) ==
    IF ClassifyStatus(completion) # "unknown" THEN ClassifyStatus(completion)
    ELSE IF ClassifyStatus(state) \in Ongoing THEN ClassifyStatus(state) ELSE "unknown"

Outcome(j) == JobOutcome(jobs[j].completion, jobs[j].state)

-----------------------------------------------------------------------------
\* Windows: the last DayLength, or one calendar day.

Rolling == -1
Windows == {Rolling} \cup Days

\* report_window and in_report_window: half-open.
InWindow(time, w, at) ==
    IF w = Rolling THEN at - DayLength <= time /\ time < at
    ELSE w * DayLength <= time /\ time < (w + 1) * DayLength

\* job_report_time: a finished job counts when it ended, another when it started.
ReportTime(j) == jobs[j].time

\* A record of the jobs database, as rest_job_as_nwui_action projects it.
Record(j) == [job |-> j, run |-> RunOf[j], status |-> Outcome(j)]

\* /global/jobs, cut to the window on arrival.
Recorded(w) == {Record(j) : j \in {i \in Jobs : jobs[i].state # "none" /\ InWindow(ReportTime(i), w, now)}}

\* The same with q=completionStatus:"Failed".
RecordedFailed(w) == {r \in Recorded(w) : jobs[r.job].completion = "Failed"}

\* /nwui/api/monitoringactions: the actions running now; they have no job id.
Monitored == {[Record(j) EXCEPT !.job = None] : j \in {i \in Actions : jobs[i].state = "Active"}}

\* /nwui/api/monitoringrecoveries.
Recoveries(w) == {r \in Recorded(w) : r.job \in Restores}

-----------------------------------------------------------------------------
\* Merging.

\* Faulty variant: records are the same job only when their ids match.
MergeById(live, history) ==
    history \cup {l \in live : \A h \in history : h.job # l.job}

\* merge_action_history: a finished record replaces the live record of its
\* job, or of its run when that has no id; no other record is dropped.
MergeActionHistory(live, history) ==
    history \cup {l \in live : \A h \in history : IF l.job = None THEN h.run # l.run ELSE h.job # l.job}

\* merge_recoveries: one row per run, from the jobs database if it has one;
\* of several, the one that comes last.
RecoveryRows(monitored, restores) ==
    LET all == restores \cup {m \in monitored : \A r \in restores : r.run # m.run}
    IN  {rows \in SUBSET all : \A r \in all : Cardinality({q \in rows : q.run = r.run}) = 1}

-----------------------------------------------------------------------------
NoBuild == [at |-> "idle", window |-> Rolling, began |-> 0, asked |-> 0, live |-> {}, liveOk |-> TRUE,
            recoveries |-> {}, recoveriesOk |-> TRUE, history |-> {}, historyOk |-> TRUE]

JobReportsInit ==
    /\ now = 0
    /\ jobs = [j \in Jobs |-> [completion |-> "", state |-> "none", time |-> 0]]
    /\ cache = [w \in Windows |-> None]
    /\ build = [b \in Builders |-> NoBuild]
    /\ report = None

\* NetWorker runs its jobs, and time passes.  The jobs of a run start in the
\* same second.
JobStep(j) ==
    /\ \/ /\ jobs[j].state = "none"
          /\ jobs' = [i \in Jobs |-> IF RunOf[i] = RunOf[j] THEN [jobs[i] EXCEPT !.state = "Queued", !.time = now]
                                   ELSE jobs[i]]
       \/ /\ jobs[j].state = "Queued"
          /\ jobs' = [jobs EXCEPT ![j].state = "Active"]
       \/ /\ jobs[j].state = "Active"
          /\ \E c \in Completions :
                jobs' = [jobs EXCEPT ![j] = [@ EXCEPT !.state = "Completed", !.completion = c, !.time = now]]
    /\ report' = None /\ UNCHANGED <<now, cache, build>>

Tick == now < MaxTime /\ now' = now + 1 /\ report' = None /\ UNCHANGED <<jobs, cache, build>>

-----------------------------------------------------------------------------
\* A build in NWUI mode (build_dashboard_nwui).

\* Also the sign-in to NWUI; when it fails there is no dashboard.
BeginBuild(b, mode, w) ==
    /\ build[b].at = "idle"
    /\ build' = [build EXCEPT ![b] = [NoBuild EXCEPT !.at = IF mode = "nwui" THEN "live" ELSE "ask",
                                                     !.window = w, !.began = now]]
    /\ report' = None /\ UNCHANGED <<now, jobs, cache>>

\* The live actions: from NWUI, else from the jobs database, else none.
ReadLive(b) ==
    /\ build[b].at = "live"
    /\ \/ \E live \in {Monitored, Recorded(build[b].window)} :
             build' = [build EXCEPT ![b] = [@ EXCEPT !.at = "recoveries", !.live = live]]
       \/ build' = [build EXCEPT ![b] = [@ EXCEPT !.at = "recoveries", !.liveOk = FALSE]]
    /\ report' = None /\ UNCHANGED <<now, jobs, cache>>

ReadRecoveries(b) ==
    /\ build[b].at = "recoveries"
    /\ \/ build' = [build EXCEPT ![b] = [@ EXCEPT !.at = "look up", !.recoveries = Recoveries(build[b].window)]]
       \/ build' = [build EXCEPT ![b] = [@ EXCEPT !.at = "look up", !.recoveriesOk = FALSE]]
    /\ report' = None /\ UNCHANGED <<now, jobs, cache>>

\* cached_nwui_job_history, up to the question: a fresh entry is used, and
\* without one the time is noted.
LookUp(b) ==
    /\ build[b].at = "look up"
    /\ LET entry == cache[build[b].window] IN
       build' = [build EXCEPT ![b] =
                    IF entry # None /\ now - entry.at < Ttl
                    THEN [@ EXCEPT !.at = "merge", !.history = entry.items]
                    ELSE [@ EXCEPT !.at = "fetch", !.asked = now]]
    /\ report' = None /\ UNCHANGED <<now, jobs, cache>>

\* The jobs database answers, or no host and version does.
Fetch(b) ==
    /\ build[b].at = "fetch"
    /\ \/ build' = [build EXCEPT ![b] = [@ EXCEPT !.at = "store", !.history = Recorded(build[b].window)]]
       \/ build' = [build EXCEPT ![b] = [@ EXCEPT !.at = "merge", !.historyOk = FALSE]]
    /\ report' = None /\ UNCHANGED <<now, jobs, cache>>

\* The CacheMax newest entries stay.
Evicted(c) ==
    LET held == {w \in Windows : c[w] # None} IN
    IF Cardinality(held) <= CacheMax THEN {c}
    ELSE {[c EXCEPT ![w] = None] : w \in {v \in held : \A u \in held : c[v].at <= c[u].at}}

\* Faulty variant: the entry is dated by its arrival.
StoreLate(b) ==
    /\ build[b].at = "store"
    /\ cache' \in Evicted([cache EXCEPT ![build[b].window] = [at |-> now, items |-> build[b].history]])
    /\ build' = [build EXCEPT ![b].at = "merge"]
    /\ report' = None /\ UNCHANGED <<now, jobs>>

\* The answer is kept, dated by the question.
Store(b) ==
    /\ build[b].at = "store"
    /\ cache' \in Evicted([cache EXCEPT ![build[b].window] = [at |-> build[b].asked, items |-> build[b].history]])
    /\ build' = [build EXCEPT ![b].at = "merge"]
    /\ report' = None /\ UNCHANGED <<now, jobs>>

\* Failures make a dashboard critical; so does a critical source or alert.
Health(rows, critical, warnings) ==
    IF critical \/ \E r \in rows : r.status = "failed" THEN "critical"
    ELSE IF warnings \/ \E r \in rows : r.status = "warning" THEN "warning"
    ELSE "ok"

\* The tables and the summary.  Only the finished records of the history
\* count; restores are counted as restores.  Policies and alerts may fail too.
Deliver(b) ==
    /\ build[b].at = "merge"
    /\ LET finished == {r \in build[b].history : r.status \in Ended}
           merged == MergeActionHistory(build[b].live, finished)
           restores == {r \in merged : r.job \in Restores}
       IN  \E recovered \in RecoveryRows(build[b].recoveries, restores), othersOk \in BOOLEAN :
              LET rows == (merged \ restores) \cup recovered IN
              report' = [window |-> build[b].window, began |-> build[b].began, ended |-> now,
                         historyAvailable |-> build[b].historyOk, rows |-> rows,
                         health |-> Health(rows, ~build[b].liveOk,
                                           ~build[b].historyOk \/ ~build[b].recoveriesOk \/ ~othersOk)]
    /\ build' = [build EXCEPT ![b] = NoBuild]
    /\ UNCHANGED <<now, jobs, cache>>

-----------------------------------------------------------------------------
\* A build in REST mode (build_dashboard_rest).

\* The list of jobs and that of the failed ones are asked for at once; each is
\* read at its own moment, or fails.  The failed jobs that have to stand in
\* for the list are noted as live.
AskJobs(b) ==
    /\ build[b].at = "ask"
    /\ \/ build' = [build EXCEPT ![b] = [@ EXCEPT !.at = "ask failed", !.history = Recorded(build[b].window)]]
       \/ build' = [build EXCEPT ![b] = [@ EXCEPT !.at = "ask failed", !.historyOk = FALSE]]
       \/ build' = [build EXCEPT ![b] = [@ EXCEPT !.at = "ask jobs", !.live = RecordedFailed(build[b].window)]]
       \/ build' = [build EXCEPT ![b] = [@ EXCEPT !.at = "ask jobs", !.liveOk = FALSE]]
    /\ report' = None /\ UNCHANGED <<now, jobs, cache>>

AskOther(b) ==
    /\ \/ /\ build[b].at = "ask jobs"
          /\ \/ build' = [build EXCEPT ![b] = [@ EXCEPT !.at = "sum up", !.history = Recorded(build[b].window)]]
             \/ build' = [build EXCEPT ![b] = [@ EXCEPT !.at = "sum up", !.historyOk = FALSE]]
       \/ /\ build[b].at = "ask failed"
          /\ \/ build' = [build EXCEPT ![b] = [@ EXCEPT !.at = "sum up", !.live = RecordedFailed(build[b].window)]]
             \/ build' = [build EXCEPT ![b] = [@ EXCEPT !.at = "sum up", !.liveOk = FALSE]]
    /\ report' = None /\ UNCHANGED <<now, jobs, cache>>

\* The failed jobs count only when the list of jobs is missing, and then no
\* restore is known.
SumUp(b) ==
    /\ build[b].at = "sum up"
    /\ \E criticalAlerts, warnings \in BOOLEAN :
          LET rows == IF build[b].historyOk THEN build[b].history
                      ELSE {r \in build[b].live : r.job \notin Restores} IN
          report' = [window |-> build[b].window, began |-> build[b].began, ended |-> now,
                     historyAvailable |-> build[b].historyOk, rows |-> rows,
                     health |-> IF criticalAlerts \/ \E r \in rows : r.status = "failed" THEN "critical"
                                ELSE IF warnings \/ ~build[b].historyOk \/ ~build[b].liveOk THEN "warning"
                                ELSE "ok"]
    /\ build' = [build EXCEPT ![b] = NoBuild]
    /\ UNCHANGED <<now, jobs, cache>>

-----------------------------------------------------------------------------
JobReportsNext ==
    \/ Tick
    \/ \E j \in Jobs : JobStep(j)
    \/ \E b \in Builders :
          \/ \E mode \in Modes, w \in Windows : BeginBuild(b, mode, w)
          \/ ReadLive(b) \/ ReadRecoveries(b) \/ LookUp(b) \/ Fetch(b) \/ Store(b) \/ Deliver(b)
          \/ AskJobs(b) \/ AskOther(b) \/ SumUp(b)

JobReportsSpec == JobReportsInit /\ [][JobReportsNext]_jobVars

-----------------------------------------------------------------------------
Statuses == Ongoing \cup Ended \cup {"unknown"}
Records == [job : Jobs \cup {None}, run : {RunOf[j] : j \in Jobs}, status : Statuses]

Builds ==
    [at : {"idle", "live", "recoveries", "look up", "fetch", "store", "merge",
           "ask", "ask jobs", "ask failed", "sum up"},
     window : Windows, began : Nat, asked : Nat, live : SUBSET Records, liveOk : BOOLEAN,
     recoveries : SUBSET Records, recoveriesOk : BOOLEAN, history : SUBSET Records, historyOk : BOOLEAN]

Reports ==
    [window : Windows, began : Nat, ended : Nat, historyAvailable : BOOLEAN,
     rows : SUBSET Records, health : {"critical", "warning", "ok"}]

\* Type invariant of the collector's state.
JobReportsTypeOK ==
    /\ now \in Nat
    /\ jobs \in [Jobs -> [completion : Completions \cup {""}, time : Nat,
                          state : {"none", "Queued", "Active", "Completed"}]]
    /\ cache \in [Windows -> {None} \cup [at : Nat, items : SUBSET Records]]
    /\ build \in [Builders -> Builds]
    /\ report \in {None} \cup Reports

\* The jobs a report is about and that were over before the oldest answer it
\* may rest on: they ended Ttl before the build began, in its window to the end.
Settled ==
    {j \in Jobs : /\ jobs[j].state = "Completed"
                  /\ jobs[j].time + Ttl <= report.began
                  /\ InWindow(jobs[j].time, report.window, report.ended)}

\* merge_recoveries cannot tell such restores apart.
Twins(j) == {i \in Restores \ {j} : j \in Restores /\ RunOf[i] = RunOf[j]}

\* A dashboard that says all is well hides no failure: whatever sources failed
\* or came from the cache, no job of its range had failed more than the
\* cache's time before the build began (review C1, C5, C7, C10).
OkMeansNoFailure ==
    report # None /\ report.health = "ok" =>
        \A j \in Settled : Outcome(j) = "failed" => Twins(j) # {}

\* The rows that speak of a job: its own, or a running action's of its run.
RowsOf(j) == {r \in report.rows : r.job = j \/ (r.job = None /\ r.run = RunOf[j])}

\* Whatever ends while a build is asking, no job is counted twice, say as a
\* running action and as a finished job; and a dashboard with the job history
\* counts every job that was over, as what became of it.
OverIsCountedOnce ==
    report # None => \A j \in Jobs : Twins(j) = {} =>
        /\ Cardinality(RowsOf(j)) <= 1
        /\ report.historyAvailable /\ j \in Settled => RowsOf(j) = {Record(j)}

\* nwui.py:1035 says that the recovery rows have "each restore once".
RestoresAreCountedOnce ==
    report # None /\ report.historyAvailable =>
        \A j \in Settled \cap Restores : RowsOf(j) = {Record(j)}
=============================================================================
