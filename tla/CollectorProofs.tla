--------------------------- MODULE CollectorProofs ---------------------------
(***************************************************************************)
(* Proofs about what a build collects, for any jobs, builds, windows,      *)
(* endpoints, fields, lists and page sizes: which endpoint answers, which  *)
(* jobs a dashboard counts and when it may say that all is well, that a    *)
(* list is read whole.  And, for any savers and days, about the daily      *)
(* snapshots.                                                              *)
(***************************************************************************)
EXTENDS RestFallback, DailySnapshots, JobReports, MonitoringPages, SelectionsProofs,
        FiniteSetTheorems, SequenceTheorems, TLAPS

-----------------------------------------------------------------------------
(* The endpoints of the jobs database                                      *)

FallbackTypeOK ==
    /\ last \in Endpoints /\ endpoint \in 1..last
    /\ serves \subseteq 1..last
    /\ unknown \in [1..last -> SUBSET Fields]
    /\ state \in {"asking", "answered", "failed"}

\* What was removed from the query, this endpoint does not know.
OnlyUnknownRemoved ==
    /\ removed \subseteq unknown[endpoint]
    /\ fields = Fields \ removed

\* The endpoints passed over would not have answered.
EarlierMissed == serves \cap 1..(endpoint - 1) \subseteq missed

FallbackInv ==
    /\ FallbackTypeOK /\ OnlyUnknownRemoved /\ EarlierMissed
    /\ state = "failed" => serves \subseteq missed
    /\ state = "answered" => fields \cap unknown[endpoint] = {}

LEMMA FallbackInitInv == FallbackInit => FallbackInv
BY FallbackAssumption DEF FallbackAssumption, FallbackInit, FallbackInv, FallbackTypeOK, Endpoints,
   OnlyUnknownRemoved, EarlierMissed

\* Whichever way an endpoint is given up, the next one starts anew.
LEMMA TryNextInv ==
  ASSUME FallbackInv, state = "asking", TryNext, missed \subseteq missed',
         endpoint \in serves => endpoint \in missed',
         UNCHANGED <<last, serves, unknown>>
  PROVE  FallbackInv'
<1>. USE DEF FallbackInv, FallbackTypeOK, Endpoints, OnlyUnknownRemoved, EarlierMissed
<1>1. last \in Nat /\ endpoint \in Nat /\ endpoint <= last
  BY FallbackAssumption DEF FallbackAssumption
<1>2. serves \cap 1..endpoint \subseteq missed'
  <2>1. \A e \in 1..endpoint : e = endpoint \/ e \in 1..(endpoint - 1)
    BY <1>1
  <2>. QED
    BY <2>1
<1>3. CASE endpoint < last
  <2>1. endpoint' = endpoint + 1 /\ fields' = Fields /\ removed' = {} /\ state' = state
    BY <1>3 DEF TryNext
  <2>2. endpoint' \in 1..last /\ 1..(endpoint' - 1) = 1..endpoint
    BY <1>1, <1>3, <2>1
  <2>. QED
    BY <1>2, <2>1, <2>2
<1>4. CASE ~(endpoint < last)
  <2>1. endpoint = last
    BY <1>1, <1>4
  <2>2. state' = "failed" /\ UNCHANGED <<endpoint, fields, removed>>
    BY <1>4 DEF TryNext
  <2>3. serves \subseteq missed'
    BY <1>2, <2>1
  <2>. QED
    BY <2>2, <2>3
<1>. QED
  BY <1>3, <1>4

LEMMA FallbackStepInv == FallbackInv /\ [FallbackNext]_fallbackVars => FallbackInv'
<1>. SUFFICES ASSUME FallbackInv, [FallbackNext]_fallbackVars PROVE FallbackInv'
  OBVIOUS
<1>1. CASE Answered
  BY <1>1 DEF Answered, FallbackInv, FallbackTypeOK, Endpoints, OnlyUnknownRemoved, EarlierMissed
<1>2. CASE FieldRefused
  BY <1>2 DEF FieldRefused, FallbackInv, FallbackTypeOK, Endpoints, OnlyUnknownRemoved, EarlierMissed
<1>3. CASE Refused
  BY <1>3, TryNextInv DEF Refused
<1>4. CASE Missed
  BY <1>4, TryNextInv DEF Missed
<1>5. CASE UNCHANGED fallbackVars
  BY <1>5 DEF fallbackVars, FallbackInv, FallbackTypeOK, Endpoints, OnlyUnknownRemoved, EarlierMissed
<1>. QED
  BY <1>1, <1>2, <1>3, <1>4, <1>5 DEF FallbackNext

\* The search for an endpoint ends in failure only when none that has the REST
\* API could be reached, and answers with every field the endpoint knows.
THEOREM FallbackAnswersHolds == FallbackSpec => []FallbackAnswers
<1>1. FallbackInv => FallbackAnswers
  BY DEF FallbackInv, FallbackTypeOK, OnlyUnknownRemoved, EarlierMissed, FallbackAnswers
<1>. QED
  BY <1>1, FallbackInitInv, FallbackStepInv, PTL DEF FallbackSpec

-----------------------------------------------------------------------------
(* The daily snapshots                                                     *)

SnapshotsTypeOK == snapshots \in [SnapshotDays -> Snapshots \cup {Unset}]

LEMMA SaveSnapshotType ==
  ASSUME SnapshotsTypeOK, NEW day, NEW by \in {"hand", "auto"}, SaveSnapshot(day, by)
  PROVE  /\ SnapshotsTypeOK'
         /\ \A d \in SnapshotDays : \/ snapshots'[d] = Unset
                                    \/ snapshots'[d] = snapshots[d]
                                    \/ d = day /\ snapshots'[d] = [by |-> by, annotated |-> FALSE]
<1>. DEFINE record == [by |-> by, annotated |-> FALSE]
            saved == [snapshots EXCEPT ![day] = record]
<1>1. record \in Snapshots
  BY DEF Snapshots
<1>2. saved \in [SnapshotDays -> Snapshots \cup {Unset}]
  BY <1>1 DEF SnapshotsTypeOK
<1>3. \A d \in SnapshotDays : saved[d] = snapshots[d] \/ (d = day /\ saved[d] = record)
  BY DEF SnapshotsTypeOK
<1>4. snapshots' = [d \in SnapshotDays |->
                      IF Cardinality({e \in Held(saved) : e >= d}) > MaxKept THEN Unset ELSE saved[d]]
  BY DEF SaveSnapshot
<1>. HIDE DEF saved, record
<1>5. \A d \in SnapshotDays : snapshots'[d] = Unset \/ snapshots'[d] = saved[d]
  BY <1>4
<1>6. SnapshotsTypeOK'
  BY <1>2, <1>4 DEF SnapshotsTypeOK
<1>. QED
  BY <1>3, <1>5, <1>6 DEF record

\* A note on a snapshot changes neither its making nor other snapshots.
LEMMA AnnotatedType ==
  ASSUME SnapshotsTypeOK, NEW n \in Held(snapshots), snapshots' = [snapshots EXCEPT ![n].annotated = TRUE]
  PROVE  /\ SnapshotsTypeOK'
         /\ \A d \in SnapshotDays : snapshots'[d] = snapshots[d]
                                    \/ (snapshots'[d].by = snapshots[d].by /\ snapshots'[d].annotated)
<1>1. n \in SnapshotDays /\ snapshots[n] \in Snapshots
  BY DEF SnapshotsTypeOK, Held
<1>2. [snapshots[n] EXCEPT !.annotated = TRUE] \in Snapshots
  BY <1>1 DEF Snapshots
<1>3. [snapshots[n] EXCEPT !.annotated = TRUE].by = snapshots[n].by
      /\ [snapshots[n] EXCEPT !.annotated = TRUE].annotated = TRUE
  BY <1>1 DEF Snapshots
<1>4. \A d \in SnapshotDays : snapshots'[d] = IF d = n THEN [snapshots[n] EXCEPT !.annotated = TRUE]
                                              ELSE snapshots[d]
  BY DEF SnapshotsTypeOK
<1>5. SnapshotsTypeOK'
  BY <1>1, <1>2 DEF SnapshotsTypeOK
<1>. QED
  BY <1>3, <1>4, <1>5

AutoKept ==
    \A d \in SnapshotDays :
        snapshots[d] # Unset /\ snapshots'[d] # Unset /\ snapshots'[d].by = "auto" =>
            /\ snapshots[d].by = "auto"
            /\ snapshots[d].annotated => snapshots'[d].annotated

LEMMA SnapshotsInitType == SnapshotsInit => SnapshotsTypeOK
BY DEF SnapshotsInit, SnapshotsTypeOK

LEMMA SnapshotsStep ==
  ASSUME SnapshotsTypeOK, [SnapshotsNext]_snapshotVars
  PROVE  SnapshotsTypeOK' /\ AutoKept
<1>1. CASE SaveByHand
  <2>1. SaveSnapshot(today, "hand")
    BY <1>1 DEF SaveByHand
  <2>. QED
    BY <2>1, SaveSnapshotType DEF AutoKept
<1>2. CASE DeleteSnapshot
  BY <1>2 DEF DeleteSnapshot, Held, SnapshotsTypeOK, AutoKept
<1>3. CASE AnnotateSnapshot
  <2>1. PICK n \in Held(snapshots) : snapshots' = [snapshots EXCEPT ![n].annotated = TRUE]
    BY <1>3 DEF AnnotateSnapshot
  <2>. QED
    BY <2>1, AnnotatedType DEF AutoKept
<1>4. ASSUME NEW s \in Savers, AutoSave(s) PROVE SnapshotsTypeOK' /\ AutoKept
  <2>1. CASE snapshots[save[s].day] # Unset
    BY <1>4, <2>1 DEF AutoSave, SnapshotsTypeOK, AutoKept
  <2>2. CASE snapshots[save[s].day] = Unset
    <3>1. SaveSnapshot(save[s].day, "auto")
      BY <1>4, <2>2 DEF AutoSave
    <3>. QED
      BY <2>2, <3>1, SaveSnapshotType DEF AutoKept
  <2>. QED
    BY <2>1, <2>2
<1>5. ASSUME UNCHANGED snapshots PROVE SnapshotsTypeOK' /\ AutoKept
  BY <1>5 DEF SnapshotsTypeOK, AutoKept
<1>. QED
  BY <1>1, <1>2, <1>3, <1>4, <1>5 DEF SnapshotsNext, SwitchAutomatic, DayPasses, SnapshotsRestart,
     AutoCheck, AutoBuilt, snapshotVars

\* The automatic save overwrites no snapshot and loses no note, however long
\* its build takes and whatever is saved, deleted or switched meanwhile.
THEOREM AutoKeepsSnapshotsHolds == SnapshotsSpec => AutoKeepsSnapshots
<1>1. SnapshotsTypeOK /\ [SnapshotsNext]_snapshotVars => SnapshotsTypeOK' /\ [AutoKept]_snapshotVars
  BY SnapshotsStep
<1>2. SnapshotsSpec => [][AutoKept]_snapshotVars
  BY <1>1, SnapshotsInitType, PTL DEF SnapshotsSpec
<1>. QED
  BY <1>2 DEF AutoKeepsSnapshots, AutoKept

-----------------------------------------------------------------------------
(* The figures of a dashboard                                              *)

LEMMA OutcomeIsStatus == ASSUME NEW c, NEW s PROVE JobOutcome(c, s) \in Statuses
<1>1. \A w : ClassifyStatus(w) \in Statuses
  BY DEF ClassifyStatus, Statuses, Ongoing, Ended
<1>. QED
  BY <1>1 DEF JobOutcome, Statuses

\* What the questions return are records.
LEMMA AnswersAreRecords ==
  ASSUME NEW w \in Windows
  PROVE  /\ Recorded(w) \subseteq Records /\ RecordedFailed(w) \subseteq Records
         /\ Monitored \subseteq Records /\ Recoveries(w) \subseteq Records
<1>1. \A j \in Jobs : Record(j) \in Records /\ [Record(j) EXCEPT !.job = None] \in Records
  BY OutcomeIsStatus DEF Record, Records, Outcome
<1>2. Actions \subseteq Jobs
  BY JobReportsAssumption
<1>. QED
  BY <1>1, <1>2 DEF Recorded, RecordedFailed, Monitored, Recoveries

\* What is delivered of what was gathered.
LEMMA RowsAreRecords ==
  ASSUME NEW live \in SUBSET Records, NEW history \in SUBSET Records, NEW monitored \in SUBSET Records,
         NEW restores \in SUBSET Records
  PROVE  /\ MergeActionHistory(live, history) \subseteq Records
         /\ \A rows \in RecoveryRows(monitored, restores) : rows \subseteq Records
BY DEF MergeActionHistory, RecoveryRows

LEMMA HealthIsWord ==
  ASSUME NEW rows, NEW critical, NEW warnings PROVE Health(rows, critical, warnings) \in {"critical", "warning", "ok"}
BY DEF Health

LEMMA JobReportsInitType == JobReportsInit => JobReportsTypeOK
<1>1. Rolling \in Windows
  BY DEF Windows
<1>2. NoBuild \in Builds
  BY <1>1 DEF NoBuild, Builds
<1>3. [completion |-> "", state |-> "none", time |-> 0] \in
          [completion : Completions \cup {""}, time : Nat, state : {"none", "Queued", "Active", "Completed"}]
  OBVIOUS
<1>. QED
  BY <1>2, <1>3 DEF JobReportsInit, JobReportsTypeOK

\* A build moves on to what it is by then.
LEMMA BuildMovesType ==
  ASSUME JobReportsTypeOK, NEW b \in Builders, NEW x \in Builds, build' = [build EXCEPT ![b] = x],
         UNCHANGED <<now, jobs, cache>>, report' = None
  PROVE  JobReportsTypeOK'
BY DEF JobReportsTypeOK

\* What is left in the cache is what was put there.
LEMMA EvictedSome ==
  ASSUME NEW c, c \in [Windows -> {None} \cup [at : Nat, items : SUBSET Records]], NEW d \in Evicted(c)
  PROVE  /\ d \in [Windows -> {None} \cup [at : Nat, items : SUBSET Records]]
         /\ \A w \in Windows : d[w] \in {None, c[w]}
BY DEF Evicted

LEMMA StoreType ==
  ASSUME JobReportsTypeOK, NEW b \in Builders, Store(b)
  PROVE  /\ JobReportsTypeOK'
         /\ \A w \in Windows : cache'[w] = None \/ cache'[w] = cache[w]
              \/ (w = build[b].window /\ cache'[w] = [at |-> build[b].asked, items |-> build[b].history])
<1>. DEFINE e == [at |-> build[b].asked, items |-> build[b].history]
            c == [cache EXCEPT ![build[b].window] = e]
            x == [build[b] EXCEPT !.at = "merge"]
<1>1. build[b] \in Builds /\ cache \in [Windows -> {None} \cup [at : Nat, items : SUBSET Records]]
  BY DEF JobReportsTypeOK
<1>2. e \in [at : Nat, items : SUBSET Records] /\ x \in Builds
  BY <1>1 DEF Builds
<1>3. c \in [Windows -> {None} \cup [at : Nat, items : SUBSET Records]]
  BY <1>1, <1>2
<1>4. cache' \in Evicted(c) /\ build' = [build EXCEPT ![b] = x]
  BY <1>1 DEF Store
<1>5. \A w \in Windows : c[w] = cache[w] \/ (w = build[b].window /\ c[w] = e)
  BY <1>1
<1>. HIDE DEF c, e, x
<1>6. cache' \in [Windows -> {None} \cup [at : Nat, items : SUBSET Records]]
      /\ \A w \in Windows : cache'[w] \in {None, c[w]}
  BY <1>3, <1>4, EvictedSome
<1>7. JobReportsTypeOK'
  <2>1. build' \in [Builders -> Builds]
    BY <1>2, <1>4 DEF JobReportsTypeOK
  <2>2. UNCHANGED <<now, jobs>> /\ report' = None
    BY DEF Store
  <2>. QED
    BY <1>6, <2>1, <2>2 DEF JobReportsTypeOK
<1>8. \A w \in Windows : cache'[w] = None \/ cache'[w] = cache[w] \/ (w = build[b].window /\ cache'[w] = e)
  BY <1>5, <1>6
<1>. QED
  BY <1>7, <1>8 DEF e

JobTypes == [completion : Completions \cup {""}, time : Nat, state : {"none", "Queued", "Active", "Completed"}]

\* The records of jobs, one of each; and of running actions, which have no id.
OfJobs(H) ==
    /\ \A r \in H : r.job \in Jobs /\ r.run = RunOf[r.job]
    /\ \A r, q \in H : r.job = q.job => r = q

OfRuns(H) ==
    /\ \A r \in H : r.job = None /\ \E a \in Actions : r.run = RunOf[a]
    /\ \A r, q \in H : r.run = q.run => r = q

\* H has, as they ended, all jobs that were over before t and are still in the window.
AsOf(H, w, t) ==
    /\ OfJobs(H)
    /\ \A j \in Jobs : jobs[j].state = "Completed" /\ jobs[j].time < t /\ InWindow(jobs[j].time, w, now)
                       => Record(j) \in H

\* Nothing ends in the future or without an outcome, and the jobs of a run
\* start together.
JobsInv ==
    /\ \A j \in Jobs : jobs[j].time <= now
    /\ \A j \in Jobs : jobs[j].state = "Completed" => jobs[j].completion \in Completions
    /\ \A i, j \in Jobs : RunOf[i] = RunOf[j] => (jobs[i].state = "none" <=> jobs[j].state = "none")

\* An answer in the cache is as of when it was asked for.
CacheInv == \A w \in Windows : cache[w] # None => cache[w].at <= now /\ AsOf(cache[w].items, w, cache[w].at)

WithHistory == {"store", "merge", "ask failed", "sum up"}

\* What a build has gathered, of which the history may be Ttl old.
BuildInv(x) ==
    /\ x.began <= now
    /\ OfJobs(x.history)
    /\ x.at \in WithHistory /\ x.historyOk => AsOf(x.history, x.window, x.began + 1 - Ttl)
    /\ x.at \in {"fetch", "store"} => x.began <= x.asked /\ x.asked <= now
    /\ x.at = "store" => AsOf(x.history, x.window, x.asked)
    /\ OfJobs(x.live) \/ OfRuns(x.live)
    /\ x.at \in {"ask", "ask jobs", "ask failed", "sum up"} => OfJobs(x.live)
    /\ OfJobs(x.recoveries) /\ \A r \in x.recoveries : r.job \in Restores

FiguresInv == JobsInv /\ CacheInv /\ \A b \in Builders : BuildInv(build[b])

LEMMA RecordedOfJobs ==
  ASSUME NEW w \in Windows
  PROVE  /\ OfJobs(Recorded(w)) /\ OfJobs(RecordedFailed(w))
         /\ OfJobs(Recoveries(w)) /\ \A r \in Recoveries(w) : r.job \in Restores
<1>1. OfJobs(Recorded(w))
  BY DEF Recorded, Record, OfJobs
<1>2. RecordedFailed(w) \subseteq Recorded(w) /\ Recoveries(w) \subseteq Recorded(w)
  BY DEF RecordedFailed, Recoveries
<1>. QED
  BY <1>1, <1>2 DEF OfJobs, Recoveries

\* An action is told apart by its run.
LEMMA MonitoredOfRuns == OfRuns(Monitored)
<1>1. \A a, c \in Actions : RunOf[a] = RunOf[c] => a = c
  BY JobReportsAssumption
<1>2. \A r \in Monitored : \E a \in Actions : r = [Record(a) EXCEPT !.job = None]
  BY DEF Monitored
<1>3. \A a \in Actions : LET r == [Record(a) EXCEPT !.job = None] IN r.job = None /\ r.run = RunOf[a]
  BY DEF Record
<1>4. ASSUME NEW r \in Monitored, NEW q \in Monitored, r.run = q.run PROVE r = q
  <2>1. PICK a \in Actions : r = [Record(a) EXCEPT !.job = None]
    BY <1>2
  <2>2. PICK c \in Actions : q = [Record(c) EXCEPT !.job = None]
    BY <1>2
  <2>3. a = c
    BY <1>1, <1>3, <1>4, <2>1, <2>2
  <2>. QED
    BY <2>1, <2>2, <2>3
<1>5. \A r \in Monitored : r.job = None /\ \E a \in Actions : r.run = RunOf[a]
  BY <1>2, <1>3
<1>. QED
  BY <1>4, <1>5 DEF OfRuns

\* What is asked for now has all that was over before.
LEMMA RecordedAsOf == ASSUME NEW w \in Windows PROVE AsOf(Recorded(w), w, now)
BY RecordedOfJobs DEF AsOf, Recorded, ReportTime

LEMMA AsOfEarlier ==
  ASSUME JobReportsTypeOK, NEW H, NEW w, NEW t \in Int, NEW u \in Int, u <= t, AsOf(H, w, t)
  PROVE  AsOf(H, w, u)
<1>1. \A j \in Jobs : jobs[j].time \in Nat
  BY DEF JobReportsTypeOK
<1>. QED
  BY <1>1 DEF AsOf

\* Jobs that were over stay as they were, and leave the window at most.
LEMMA AsOfStays ==
  ASSUME JobReportsTypeOK, JobsInv, NEW H, NEW w, NEW t \in Int, t <= now, AsOf(H, w, t),
         Tick \/ (\E i \in Jobs : JobStep(i)) \/ UNCHANGED <<now, jobs>>
  PROVE  AsOf(H, w, t)'
<1>1. \A j \in Jobs : jobs[j].time \in Nat /\ now \in Nat
  BY DEF JobReportsTypeOK
<1>2. CASE UNCHANGED <<now, jobs>>
  BY <1>2 DEF AsOf, Record, Outcome, InWindow
<1>3. CASE Tick
  <2>1. now' = now + 1 /\ jobs' = jobs
    BY <1>3 DEF Tick
  <2>2. \A j \in Jobs : jobs[j].time < t /\ InWindow(jobs[j].time, w, now') => InWindow(jobs[j].time, w, now)
    BY <1>1, <2>1, JobReportsAssumption DEF InWindow
  <2>. QED
    BY <2>1, <2>2 DEF AsOf, Record, Outcome
<1>4. ASSUME NEW i \in Jobs, JobStep(i) PROVE AsOf(H, w, t)'
  <2>1. now' = now
    BY <1>4 DEF JobStep
  <2>2. ASSUME NEW j \in Jobs, jobs'[j].state = "Completed", jobs'[j].time < t PROVE jobs'[j] = jobs[j]
    <3>1. CASE jobs[i].state = "none" /\ jobs' = [k \in Jobs |-> IF RunOf[k] = RunOf[i]
                                                   THEN [jobs[k] EXCEPT !.state = "Queued", !.time = now]
                                                   ELSE jobs[k]]
      BY <2>2, <3>1 DEF JobReportsTypeOK
    <3>2. CASE jobs' = [jobs EXCEPT ![i].state = "Active"]
      BY <2>2, <3>2 DEF JobReportsTypeOK
    <3>3. CASE \E c \in Completions :
                  jobs' = [jobs EXCEPT ![i] = [@ EXCEPT !.state = "Completed", !.completion = c, !.time = now]]
      <4>1. PICK c \in Completions :
                  jobs' = [jobs EXCEPT ![i] = [@ EXCEPT !.state = "Completed", !.completion = c, !.time = now]]
        BY <3>3
      <4>2. i = j => jobs'[j].time = now
        BY <4>1 DEF JobReportsTypeOK
      <4>3. i # j
        BY <1>1, <2>2, <4>2
      <4>. QED
        BY <4>1, <4>3 DEF JobReportsTypeOK
    <3>. QED
      BY <1>4, <3>1, <3>2, <3>3 DEF JobStep
  <2>. QED
    BY <2>1, <2>2 DEF AsOf, Record, Outcome
<1>. QED
  BY <1>2, <1>3, <1>4

LEMMA StepJobs ==
  ASSUME JobReportsTypeOK, JobsInv, Tick \/ (\E i \in Jobs : JobStep(i)) \/ UNCHANGED <<now, jobs>>
  PROVE  /\ JobsInv' /\ jobs' \in [Jobs -> JobTypes]
         /\ now' \in Nat /\ now <= now'
<1>1. now \in Nat /\ jobs \in [Jobs -> JobTypes] /\ (\A j \in Jobs : jobs[j].time \in Nat)
  BY DEF JobReportsTypeOK, JobTypes
<1>2. CASE UNCHANGED <<now, jobs>>
  <2>1. JobsInv'
    BY <1>2 DEF JobsInv
  <2>. QED
    BY <1>1, <1>2, <2>1
<1>3. CASE Tick
  <2>1. now' = now + 1 /\ jobs' = jobs
    BY <1>3 DEF Tick
  <2>2. \A j \in Jobs : jobs[j].time <= now'
    BY <1>1, <2>1 DEF JobsInv
  <2>. QED
    BY <1>1, <2>1, <2>2 DEF JobsInv
<1>4. ASSUME NEW i \in Jobs, JobStep(i) PROVE JobsInv' /\ jobs' \in [Jobs -> JobTypes] /\ now' = now
  <2>1. now' = now
    BY <1>4 DEF JobStep
  <2>2. \A k \in Jobs : jobs[k] \in JobTypes
    BY <1>1
  <2>3. CASE jobs[i].state = "none" /\ jobs' = [k \in Jobs |-> IF RunOf[k] = RunOf[i]
                                                 THEN [jobs[k] EXCEPT !.state = "Queued", !.time = now]
                                                 ELSE jobs[k]]
    <3>1. \A k \in Jobs : LET r == [jobs[k] EXCEPT !.state = "Queued", !.time = now] IN
                          r \in JobTypes /\ r.state = "Queued" /\ r.time = now
      BY <1>1, <2>2 DEF JobTypes
    <3>2. \A k \in Jobs : IF RunOf[k] = RunOf[i]
                          THEN jobs'[k] \in JobTypes /\ jobs'[k].state = "Queued" /\ jobs'[k].time = now
                          ELSE jobs'[k] = jobs[k]
      BY <2>3, <3>1
    <3>3. jobs' \in [Jobs -> JobTypes]
      BY <1>1, <2>3, <3>1
    <3>. QED
      BY <1>1, <2>1, <3>2, <3>3 DEF JobsInv
  <2>4. ASSUME NEW r \in JobTypes, jobs' = [jobs EXCEPT ![i] = r], r.state # "none", r.time <= now,
               r.state = "Completed" => r.completion \in Completions,
               jobs[i].state # "none"
        PROVE  JobsInv' /\ jobs' \in [Jobs -> JobTypes]
    <3>1. \A k \in Jobs : jobs'[k] = IF k = i THEN r ELSE jobs[k]
      BY <1>1, <2>4
    <3>2. \A k \in Jobs : /\ jobs'[k].time <= now /\ (jobs'[k].state = "none" <=> jobs[k].state = "none")
                          /\ jobs'[k].state = "Completed" => jobs'[k].completion \in Completions
      BY <2>4, <3>1 DEF JobsInv
    <3>. QED
      BY <1>1, <2>1, <2>4, <3>2 DEF JobsInv
  <2>5. CASE jobs[i].state = "Queued" /\ jobs' = [jobs EXCEPT ![i].state = "Active"]
    <3>. DEFINE r == [jobs[i] EXCEPT !.state = "Active"]
    <3>1. r \in JobTypes /\ r.state = "Active" /\ r.time = jobs[i].time
      BY <2>2 DEF JobTypes
    <3>2. jobs' = [jobs EXCEPT ![i] = r] /\ jobs[i].time <= now
      BY <1>1, <2>5 DEF JobsInv
    <3>. HIDE DEF r
    <3>3. JobsInv' /\ jobs' \in [Jobs -> JobTypes]
      BY <2>4, <2>5, <3>1, <3>2
    <3>. QED
      BY <2>1, <3>3
  <2>6. CASE /\ jobs[i].state = "Active"
             /\ \E c \in Completions :
                  jobs' = [jobs EXCEPT ![i] = [@ EXCEPT !.state = "Completed", !.completion = c, !.time = now]]
    <3>1. PICK c \in Completions :
             jobs' = [jobs EXCEPT ![i] = [@ EXCEPT !.state = "Completed", !.completion = c, !.time = now]]
      BY <2>6
    <3>. DEFINE r == [jobs[i] EXCEPT !.state = "Completed", !.completion = c, !.time = now]
    <3>2. r \in JobTypes /\ r.state = "Completed" /\ r.time = now /\ r.completion \in Completions
      BY <1>1, <2>2 DEF JobTypes
    <3>3. jobs' = [jobs EXCEPT ![i] = r]
      BY <1>1, <3>1
    <3>. HIDE DEF r
    <3>4. r.state # "none" /\ r.time <= now /\ jobs[i].state # "none"
      BY <1>1, <2>6, <3>2
    <3>5. JobsInv' /\ jobs' \in [Jobs -> JobTypes]
      BY <2>4, <3>2, <3>3, <3>4
    <3>. QED
      BY <2>1, <3>5
  <2>. QED
    BY <1>4, <2>1, <2>3, <2>5, <2>6 DEF JobStep
<1>. QED
  BY <1>1, <1>2, <1>3, <1>4

\* A build that only moves on disturbs neither the jobs nor the cache.
LEMMA MovesOn ==
  ASSUME JobReportsTypeOK, FiguresInv, NEW b \in Builders, NEW x \in Builds, BuildInv(x),
         build' = [build EXCEPT ![b] = x], UNCHANGED <<now, jobs, cache>>, report' \in {None} \cup Reports
  PROVE  JobReportsTypeOK' /\ FiguresInv'
<1>1. JobReportsTypeOK'
  BY DEF JobReportsTypeOK
<1>2. JobsInv'
  BY DEF FiguresInv, JobsInv
<1>3. \A H, w, t : AsOf(H, w, t) => AsOf(H, w, t)'
  BY DEF AsOf, OfJobs, Record, Outcome, InWindow
<1>4. CacheInv'
  BY <1>3 DEF FiguresInv, CacheInv
<1>5. ASSUME NEW c \in Builders PROVE BuildInv(build[c])'
  <2>1. build'[c] = x \/ build'[c] = build[c]
    BY DEF JobReportsTypeOK
  <2>2. BuildInv(x) /\ BuildInv(build[c])
    BY DEF FiguresInv
  <2>3. ASSUME NEW y, BuildInv(y) PROVE BuildInv(y)'
    <3>1. now' = now
      OBVIOUS
    <3>2. y.at \in WithHistory /\ y.historyOk => AsOf(y.history, y.window, y.began + 1 - Ttl)'
      BY <1>3, <2>3 DEF BuildInv
    <3>3. y.at = "store" => AsOf(y.history, y.window, y.asked)'
      BY <1>3, <2>3 DEF BuildInv
    <3>. QED
      BY <2>3, <3>1, <3>2, <3>3 DEF BuildInv, OfJobs, OfRuns
  <2>. QED
    BY <2>1, <2>2, <2>3 DEF BuildInv
<1>. QED
  BY <1>1, <1>2, <1>4, <1>5 DEF FiguresInv

\* NetWorker and the clock go on under builds and cache.
LEMMA WorldMovesOn ==
  ASSUME JobReportsTypeOK, FiguresInv, Tick \/ \E i \in Jobs : JobStep(i)
  PROVE  JobReportsTypeOK' /\ FiguresInv'
<1>1. cache' = cache /\ build' = build /\ report' = None
  BY DEF Tick, JobStep
<1>2. JobsInv' /\ jobs' \in [Jobs -> JobTypes] /\ now' \in Nat /\ now <= now'
  BY StepJobs DEF FiguresInv
<1>3. JobReportsTypeOK'
  BY <1>1, <1>2 DEF JobReportsTypeOK, JobTypes
<1>4. \A H, w : \A t \in Int : t <= now /\ AsOf(H, w, t) => AsOf(H, w, t)'
  BY AsOfStays DEF FiguresInv
<1>5. now \in Nat /\ Ttl \in Nat \ {0}
  BY JobReportsAssumption DEF JobReportsTypeOK
<1>6. ASSUME NEW w \in Windows, cache'[w] # None
      PROVE  cache'[w].at <= now' /\ AsOf(cache[w].items, w, cache[w].at)'
  <2>1. cache[w].at \in Nat /\ cache[w].at <= now /\ AsOf(cache[w].items, w, cache[w].at)
    BY <1>1, <1>6 DEF FiguresInv, CacheInv, JobReportsTypeOK
  <2>2. \A H : \A t \in Int : t <= now /\ AsOf(H, w, t) => AsOf(H, w, t)'
    BY <1>4
  <2>. QED
    BY <1>1, <1>2, <1>5, <2>1, <2>2 DEF AsOf
<1>7. ASSUME NEW x \in Builds, BuildInv(x) PROVE BuildInv(x)'
  <2>1. x.began \in Nat /\ x.asked \in Nat /\ x.began <= now
    BY <1>7 DEF Builds, BuildInv
  <2>2. x.began + 1 - Ttl \in Int /\ x.began + 1 - Ttl <= now
    BY <1>5, <2>1
  <2>3. x.at \in WithHistory /\ x.historyOk => AsOf(x.history, x.window, x.began + 1 - Ttl)'
    BY <1>4, <1>7, <2>2 DEF BuildInv
  <2>4. x.at \in {"fetch", "store"} => x.began <= x.asked /\ x.asked <= now
    BY <1>7 DEF BuildInv
  <2>5. x.at = "store" => AsOf(x.history, x.window, x.asked)'
    BY <1>4, <1>7, <2>1, <2>4 DEF BuildInv
  <2>6. x.began <= now' /\ (x.asked <= now => x.asked <= now')
    BY <1>2, <1>5, <2>1
  <2>. QED
    BY <1>7, <2>3, <2>4, <2>5, <2>6 DEF BuildInv, OfJobs, OfRuns
<1>8. ASSUME NEW b \in Builders PROVE BuildInv(build[b])'
  <2>1. build[b] \in Builds /\ BuildInv(build[b]) /\ build'[b] = build[b]
    BY <1>1 DEF FiguresInv, JobReportsTypeOK
  <2>. QED
    BY <1>7, <2>1 DEF BuildInv
<1>. QED
  BY <1>1, <1>2, <1>3, <1>6, <1>8 DEF FiguresInv, CacheInv, AsOf

LEMMA BeginBuildStep ==
  ASSUME JobReportsTypeOK, FiguresInv, NEW b \in Builders, NEW mode \in Modes, NEW w \in Windows, BeginBuild(b, mode, w)
  PROVE  JobReportsTypeOK' /\ FiguresInv'
<1>. DEFINE x == [NoBuild EXCEPT !.at = IF mode = "nwui" THEN "live" ELSE "ask", !.window = w, !.began = now]
<1>1. x \in Builds
  BY DEF JobReportsTypeOK, NoBuild, Builds
<1>2. BuildInv(x)
  <2>1. /\ x.at \in {"live", "ask"} /\ x.began = now
        /\ x.history = {} /\ x.live = {} /\ x.recoveries = {}
    <3>1. \A then, began : LET y == [NoBuild EXCEPT !.at = then, !.window = w, !.began = began] IN
             y.at = then /\ y.began = began /\ y.history = {} /\ y.live = {} /\ y.recoveries = {}
      BY DEF NoBuild
    <3>. QED
      BY <3>1, Zenon
  <2>2. now <= now
    <3>1. now \in Nat
      BY DEF JobReportsTypeOK
    <3>. QED
      BY <3>1
  <2>3. OfJobs({})
    BY DEF OfJobs
  <2>. HIDE DEF x
  <2>4. OfJobs(x.history) /\ OfJobs(x.live) /\ OfJobs(x.recoveries) /\ \A r \in x.recoveries : r.job \in Restores
    BY <2>1, <2>3
  <2>5. x.at \notin WithHistory /\ x.at \notin {"fetch", "store"} /\ x.at # "store"
    BY <2>1 DEF WithHistory
  <2>. QED
    BY <2>1, <2>2, <2>4, <2>5 DEF BuildInv
<1>3. build' = [build EXCEPT ![b] = x] /\ UNCHANGED <<now, jobs, cache>> /\ report' \in {None} \cup Reports
  BY DEF BeginBuild
<1>. QED
  BY <1>1, <1>2, <1>3, MovesOn

LEMMA ReadLiveStep ==
  ASSUME JobReportsTypeOK, FiguresInv, NEW b \in Builders, ReadLive(b) PROVE JobReportsTypeOK' /\ FiguresInv'
<1>1. build[b] \in Builds /\ BuildInv(build[b]) /\ build[b].at = "live" /\ build[b].window \in Windows
  BY DEF JobReportsTypeOK, FiguresInv, ReadLive, Builds
<1>2. UNCHANGED <<now, jobs, cache>> /\ report' \in {None} \cup Reports
  BY DEF ReadLive
<1>3. ASSUME NEW live \in SUBSET Records, OfJobs(live) \/ OfRuns(live),
             build' = [build EXCEPT ![b] = [@ EXCEPT !.at = "recoveries", !.live = live]]
      PROVE  JobReportsTypeOK' /\ FiguresInv'
  <2>. DEFINE x == [build[b] EXCEPT !.at = "recoveries", !.live = live]
  <2>1. x \in Builds
    BY <1>1 DEF Builds
  <2>2. BuildInv(x)
    BY <1>1, <1>3 DEF Builds, BuildInv, WithHistory
  <2>. QED
    BY <1>2, <1>3, <2>1, <2>2, MovesOn
<1>4. CASE build' = [build EXCEPT ![b] = [@ EXCEPT !.at = "recoveries", !.liveOk = FALSE]]
  <2>. DEFINE x == [build[b] EXCEPT !.at = "recoveries", !.liveOk = FALSE]
  <2>1. x \in Builds
    BY <1>1 DEF Builds
  <2>2. BuildInv(x)
    BY <1>1 DEF Builds, BuildInv, WithHistory
  <2>. QED
    BY <1>2, <1>4, <2>1, <2>2, MovesOn
<1>. QED
  BY <1>1, <1>3, <1>4, AnswersAreRecords, RecordedOfJobs, MonitoredOfRuns DEF ReadLive

LEMMA ReadRecoveriesStep ==
  ASSUME JobReportsTypeOK, FiguresInv, NEW b \in Builders, ReadRecoveries(b) PROVE JobReportsTypeOK' /\ FiguresInv'
<1>1. build[b] \in Builds /\ BuildInv(build[b]) /\ build[b].at = "recoveries" /\ build[b].window \in Windows
  BY DEF JobReportsTypeOK, FiguresInv, ReadRecoveries, Builds
<1>2. UNCHANGED <<now, jobs, cache>> /\ report' \in {None} \cup Reports
  BY DEF ReadRecoveries
<1>3. CASE build' = [build EXCEPT ![b] = [@ EXCEPT !.at = "look up", !.recoveries = Recoveries(build[b].window)]]
  <2>. DEFINE x == [build[b] EXCEPT !.at = "look up", !.recoveries = Recoveries(build[b].window)]
  <2>1. x \in Builds
    BY <1>1, AnswersAreRecords DEF Builds
  <2>2. BuildInv(x)
    BY <1>1, RecordedOfJobs DEF Builds, BuildInv, WithHistory
  <2>. QED
    BY <1>2, <1>3, <2>1, <2>2, MovesOn
<1>4. CASE build' = [build EXCEPT ![b] = [@ EXCEPT !.at = "look up", !.recoveriesOk = FALSE]]
  <2>. DEFINE x == [build[b] EXCEPT !.at = "look up", !.recoveriesOk = FALSE]
  <2>1. x \in Builds
    BY <1>1 DEF Builds
  <2>2. BuildInv(x)
    BY <1>1 DEF Builds, BuildInv, WithHistory
  <2>. QED
    BY <1>2, <1>4, <2>1, <2>2, MovesOn
<1>. QED
  BY <1>3, <1>4 DEF ReadRecoveries

\* A fresh entry is at most Ttl older than the build.
LEMMA LookUpStep ==
  ASSUME JobReportsTypeOK, FiguresInv, NEW b \in Builders, LookUp(b) PROVE JobReportsTypeOK' /\ FiguresInv'
<1>. DEFINE w == build[b].window
            entry == cache[w]
<1>1. build[b] \in Builds /\ BuildInv(build[b]) /\ build[b].at = "look up" /\ w \in Windows
  BY DEF JobReportsTypeOK, FiguresInv, LookUp, Builds
<1>2. UNCHANGED <<now, jobs, cache>> /\ report' \in {None} \cup Reports
  BY DEF LookUp
<1>3. now \in Nat /\ Ttl \in Nat \ {0} /\ build[b].began \in Nat /\ build[b].began <= now
  BY <1>1, JobReportsAssumption DEF JobReportsTypeOK, Builds, BuildInv
<1>4. CASE entry # None /\ now - entry.at < Ttl
           /\ build' = [build EXCEPT ![b] = [@ EXCEPT !.at = "merge", !.history = entry.items]]
  <2>. DEFINE x == [build[b] EXCEPT !.at = "merge", !.history = entry.items]
  <2>1. entry \in [at : Nat, items : SUBSET Records] /\ entry.at <= now /\ AsOf(entry.items, w, entry.at)
    BY <1>1, <1>4 DEF JobReportsTypeOK, FiguresInv, CacheInv
  <2>2. entry.at \in Nat /\ build[b].began + 1 - Ttl <= entry.at /\ build[b].began + 1 - Ttl \in Int
    BY <1>3, <1>4, <2>1
  <2>3. AsOf(entry.items, w, build[b].began + 1 - Ttl)
    BY <2>1, <2>2, AsOfEarlier
  <2>4. x \in Builds
    BY <1>1, <2>1 DEF Builds
  <2>5. OfJobs(entry.items)
    BY <2>1 DEF AsOf
  <2>6. BuildInv(x)
    BY <1>1, <2>3, <2>5 DEF Builds, BuildInv, WithHistory
  <2>7. build' = [build EXCEPT ![b] = x]
    BY <1>4
  <2>. HIDE DEF x
  <2>. QED
    BY <1>2, <2>4, <2>6, <2>7, MovesOn
<1>5. CASE build' = [build EXCEPT ![b] = [@ EXCEPT !.at = "fetch", !.asked = now]]
  <2>. DEFINE x == [build[b] EXCEPT !.at = "fetch", !.asked = now]
  <2>1. x \in Builds
    BY <1>1, <1>3 DEF Builds
  <2>2. now <= now
    BY <1>3
  <2>3. BuildInv(x)
    BY <1>1, <1>3, <2>2 DEF Builds, BuildInv, WithHistory
  <2>. QED
    BY <1>2, <1>5, <2>1, <2>3, MovesOn
<1>. QED
  BY <1>4, <1>5 DEF LookUp

\* What is asked for now is as of any moment before.
LEMMA NewHistory ==
  ASSUME JobReportsTypeOK, NEW w \in Windows, NEW t \in Int, t <= now
  PROVE  AsOf(Recorded(w), w, t) /\ OfJobs(Recorded(w)) /\ Recorded(w) \in SUBSET Records
<1>1. now \in Nat
  BY DEF JobReportsTypeOK
<1>2. now \in Int
  BY <1>1
<1>. QED
  BY <1>2, RecordedAsOf, AsOfEarlier, RecordedOfJobs, AnswersAreRecords

LEMMA FetchStep ==
  ASSUME JobReportsTypeOK, FiguresInv, NEW b \in Builders, Fetch(b) PROVE JobReportsTypeOK' /\ FiguresInv'
<1>. DEFINE w == build[b].window
<1>1. build[b] \in Builds /\ BuildInv(build[b]) /\ build[b].at = "fetch" /\ w \in Windows
  BY DEF JobReportsTypeOK, FiguresInv, Fetch, Builds
<1>2. UNCHANGED <<now, jobs, cache>> /\ report' \in {None} \cup Reports
  BY DEF Fetch
<1>3. CASE build' = [build EXCEPT ![b] = [@ EXCEPT !.at = "store", !.history = Recorded(w)]]
  <2>. DEFINE x == [build[b] EXCEPT !.at = "store", !.history = Recorded(w)]
  <2>1. /\ now \in Nat /\ Ttl \in Nat \ {0} /\ build[b].began \in Nat /\ build[b].began <= now
        /\ build[b].asked \in Nat /\ build[b].asked <= now
    BY <1>1, JobReportsAssumption DEF JobReportsTypeOK, Builds, BuildInv
  <2>2. build[b].began + 1 - Ttl \in Int /\ build[b].began + 1 - Ttl <= now
    BY <2>1
  <2>3. AsOf(Recorded(w), w, build[b].began + 1 - Ttl) /\ AsOf(Recorded(w), w, build[b].asked)
        /\ OfJobs(Recorded(w)) /\ Recorded(w) \in SUBSET Records
    BY <1>1, <2>1, <2>2, NewHistory
  <2>4. x \in Builds
    BY <1>1, <2>3 DEF Builds
  <2>5. BuildInv(x)
    BY <1>1, <2>3 DEF Builds, BuildInv, WithHistory
  <2>. QED
    BY <1>2, <1>3, <2>4, <2>5, MovesOn
<1>4. CASE build' = [build EXCEPT ![b] = [@ EXCEPT !.at = "merge", !.historyOk = FALSE]]
  <2>. DEFINE x == [build[b] EXCEPT !.at = "merge", !.historyOk = FALSE]
  <2>1. x \in Builds
    BY <1>1 DEF Builds
  <2>2. BuildInv(x)
    BY <1>1 DEF Builds, BuildInv, WithHistory
  <2>. QED
    BY <1>2, <1>4, <2>1, <2>2, MovesOn
<1>. QED
  BY <1>3, <1>4 DEF Fetch

LEMMA StoreStep ==
  ASSUME JobReportsTypeOK, FiguresInv, NEW b \in Builders, Store(b) PROVE JobReportsTypeOK' /\ FiguresInv'
<1>. DEFINE v == build[b].window
            x == [build[b] EXCEPT !.at = "merge"]
<1>1. build[b] \in Builds /\ BuildInv(build[b]) /\ build[b].at = "store"
  BY DEF JobReportsTypeOK, FiguresInv, Store
<1>2. now' = now /\ jobs' = jobs /\ build' = [build EXCEPT ![b] = x]
  BY <1>1 DEF Store, JobReportsTypeOK
<1>3. JobReportsTypeOK'
  BY StoreType
<1>4. \A H, w, t : AsOf(H, w, t) => AsOf(H, w, t)'
  BY <1>2 DEF AsOf, OfJobs, Record, Outcome, InWindow
<1>5. JobsInv'
  BY <1>2 DEF FiguresInv, JobsInv
<1>6. ASSUME NEW w \in Windows, cache'[w] # None
      PROVE  cache'[w].at <= now' /\ AsOf(cache'[w].items, w, cache'[w].at)
  <2>1. CASE cache'[w] = cache[w]
    BY <1>2, <1>6, <2>1 DEF FiguresInv, CacheInv
  <2>2. CASE w = v /\ cache'[w] = [at |-> build[b].asked, items |-> build[b].history]
    <3>1. build[b].asked <= now /\ AsOf(build[b].history, v, build[b].asked)
      BY <1>1 DEF BuildInv
    <3>. QED
      BY <1>2, <2>2, <3>1
  <2>. QED
    BY <1>6, <2>1, <2>2, StoreType
<1>7. CacheInv'
  BY <1>2, <1>6 DEF CacheInv, AsOf, OfJobs, Record, Outcome, InWindow
<1>8. BuildInv(x)
  BY <1>1 DEF Builds, BuildInv, WithHistory
<1>9. ASSUME NEW c \in Builders PROVE BuildInv(build[c])'
  <2>1. build'[c] = x \/ build'[c] = build[c]
    BY <1>2 DEF JobReportsTypeOK
  <2>2. BuildInv(x) /\ BuildInv(build[c])
    BY <1>8 DEF FiguresInv
  <2>3. ASSUME NEW y, BuildInv(y) PROVE BuildInv(y)'
    <3>1. y.at \in WithHistory /\ y.historyOk => AsOf(y.history, y.window, y.began + 1 - Ttl)'
      BY <1>4, <2>3 DEF BuildInv
    <3>2. y.at = "store" => AsOf(y.history, y.window, y.asked)'
      BY <1>4, <2>3 DEF BuildInv
    <3>. QED
      BY <1>2, <2>3, <3>1, <3>2 DEF BuildInv, OfJobs, OfRuns
  <2>. QED
    BY <2>1, <2>2, <2>3 DEF BuildInv
<1>. QED
  BY <1>3, <1>5, <1>7, <1>9 DEF FiguresInv

\* In REST mode the jobs are asked for after the build began.
LEMMA AskStep ==
  ASSUME JobReportsTypeOK, FiguresInv, NEW b \in Builders, AskJobs(b) \/ AskOther(b)
  PROVE  JobReportsTypeOK' /\ FiguresInv'
<1>. DEFINE w == build[b].window
            B == build[b]
<1>1. B \in Builds /\ BuildInv(B) /\ B.at \in {"ask", "ask jobs", "ask failed"} /\ w \in Windows
  BY DEF JobReportsTypeOK, FiguresInv, AskJobs, AskOther, Builds
<1>2. UNCHANGED <<now, jobs, cache>> /\ report' \in {None} \cup Reports
  BY DEF AskJobs, AskOther
<1>3. OfJobs(B.live) /\ OfJobs(B.history)
  BY <1>1 DEF BuildInv
<1>4. AsOf(Recorded(w), w, B.began + 1 - Ttl) /\ OfJobs(Recorded(w)) /\ Recorded(w) \in SUBSET Records
      /\ OfJobs(RecordedFailed(w)) /\ RecordedFailed(w) \in SUBSET Records
  <2>1. now \in Nat /\ Ttl \in Nat \ {0} /\ B.began \in Nat /\ B.began <= now
    BY <1>1, JobReportsAssumption DEF JobReportsTypeOK, Builds, BuildInv
  <2>2. B.began + 1 - Ttl \in Int /\ B.began + 1 - Ttl <= now
    BY <2>1
  <2>. QED
    BY <1>1, <2>2, NewHistory, RecordedOfJobs, AnswersAreRecords
<1>5. CASE \E then \in {"ask failed", "sum up"} :
              build' = [build EXCEPT ![b] = [@ EXCEPT !.at = then, !.history = Recorded(w)]]
  <2>1. PICK then \in {"ask failed", "sum up"} :
              build' = [build EXCEPT ![b] = [@ EXCEPT !.at = then, !.history = Recorded(w)]]
    BY <1>5
  <2>. DEFINE x == [B EXCEPT !.at = then, !.history = Recorded(w)]
  <2>2. x \in Builds
    BY <1>1, <1>4 DEF Builds
  <2>3. BuildInv(x)
    BY <1>1, <1>3, <1>4 DEF Builds, BuildInv, WithHistory
  <2>. QED
    BY <1>2, <2>1, <2>2, <2>3, MovesOn
<1>6. CASE \E then \in {"ask failed", "sum up"} :
              build' = [build EXCEPT ![b] = [@ EXCEPT !.at = then, !.historyOk = FALSE]]
  <2>1. PICK then \in {"ask failed", "sum up"} : build' = [build EXCEPT ![b] = [@ EXCEPT !.at = then, !.historyOk = FALSE]]
    BY <1>6
  <2>. DEFINE x == [B EXCEPT !.at = then, !.historyOk = FALSE]
  <2>2. x \in Builds
    BY <1>1 DEF Builds
  <2>3. BuildInv(x)
    BY <1>1, <1>3 DEF Builds, BuildInv, WithHistory
  <2>. QED
    BY <1>2, <2>1, <2>2, <2>3, MovesOn
<1>7. CASE \E then \in {"ask jobs", "sum up"} : /\ then = "sum up" => B.at = "ask failed"
              /\ build' = [build EXCEPT ![b] = [@ EXCEPT !.at = then, !.live = RecordedFailed(w)]]
  <2>1. PICK then \in {"ask jobs", "sum up"} : /\ then = "sum up" => B.at = "ask failed"
              /\ build' = [build EXCEPT ![b] = [@ EXCEPT !.at = then, !.live = RecordedFailed(w)]]
    BY <1>7
  <2>. DEFINE x == [B EXCEPT !.at = then, !.live = RecordedFailed(w)]
  <2>2. x \in Builds
    BY <1>1, <1>4, <2>1 DEF Builds
  <2>3. BuildInv(x)
    BY <1>1, <1>3, <1>4, <2>1 DEF Builds, BuildInv, WithHistory
  <2>. QED
    BY <1>2, <2>1, <2>2, <2>3, MovesOn
<1>8. CASE \E then \in {"ask jobs", "sum up"} : /\ then = "sum up" => B.at = "ask failed"
              /\ build' = [build EXCEPT ![b] = [@ EXCEPT !.at = then, !.liveOk = FALSE]]
  <2>1. PICK then \in {"ask jobs", "sum up"} : /\ then = "sum up" => B.at = "ask failed"
              /\ build' = [build EXCEPT ![b] = [@ EXCEPT !.at = then, !.liveOk = FALSE]]
    BY <1>8
  <2>. DEFINE x == [B EXCEPT !.at = then, !.liveOk = FALSE]
  <2>2. x \in Builds
    BY <1>1, <2>1 DEF Builds
  <2>3. BuildInv(x)
    BY <1>1, <1>3, <2>1 DEF Builds, BuildInv, WithHistory
  <2>. QED
    BY <1>2, <2>1, <2>2, <2>3, MovesOn
<1>9. CASE AskJobs(b)
  BY <1>5, <1>6, <1>7, <1>8, <1>9 DEF AskJobs
<1>10. CASE AskOther(b)
  BY <1>5, <1>6, <1>7, <1>8, <1>10 DEF AskOther
<1>. QED
  BY <1>9, <1>10

\* The rows that speak of a job.
SpeakOf(rows, j) == {r \in rows : r.job = j \/ (r.job = None /\ r.run = RunOf[j])}

AllSame(S) == \A r, q \in S : r = q

Over(j, R) ==
    /\ jobs[j].state = "Completed" /\ jobs[j].time + Ttl <= R.began
    /\ InWindow(jobs[j].time, R.window, R.ended)

\* What a dashboard promises of its rows and its health.
GoodReport(R) ==
    /\ \A j \in Jobs : Twins(j) = {} =>
          AllSame(SpeakOf(R.rows, j)) /\ (R.historyAvailable /\ Over(j, R) => Record(j) \in R.rows)
    /\ R.health = "ok" => R.historyAvailable /\ \A r \in R.rows : r.status # "failed"

ReportInv == report # None => GoodReport(report)

\* A finished record takes the place of its job's or its run's live one.
LEMMA MergedOnce ==
  ASSUME NEW live, NEW history, OfJobs(history), OfJobs(live) \/ OfRuns(live), NEW j \in Jobs
  PROVE  /\ AllSame(SpeakOf(MergeActionHistory(live, history), j))
         /\ OfJobs({r \in MergeActionHistory(live, history) : r.job \in Restores})
<1>. DEFINE M == MergeActionHistory(live, history)
<1>1. None \notin Jobs /\ Restores \subseteq Jobs
  BY JobReportsAssumption
<1>2. M \subseteq history \cup live
  BY DEF MergeActionHistory
<1>3. \A l \in M : l \in history \/ \A h \in history : IF l.job = None THEN h.run # l.run ELSE h.job # l.job
  BY DEF MergeActionHistory
<1>. SUFFICES AllSame(SpeakOf(M, j)) /\ OfJobs({r \in M : r.job \in Restores})
  OBVIOUS
<1>. HIDE DEF M
<1>4. CASE OfJobs(live)
  <2>1. \A r \in M : r.job \in Jobs /\ r.run = RunOf[r.job]
    BY <1>2, <1>4 DEF OfJobs
  <2>2. \A r, q \in M : r.job = q.job => r = q
    BY <1>1, <1>2, <1>3, <1>4, <2>1 DEF OfJobs
  <2>3. OfJobs({r \in M : r.job \in Restores})
    BY <2>1, <2>2 DEF OfJobs
  <2>4. \A r \in SpeakOf(M, j) : r \in M /\ r.job = j
    BY <1>1, <2>1 DEF SpeakOf
  <2>. QED
    BY <2>2, <2>3, <2>4 DEF AllSame
<1>5. CASE OfRuns(live)
  <2>1. \A r \in live : r.job = None
    BY <1>5 DEF OfRuns
  <2>2. \A r \in M : r.job # None => r \in history
    BY <1>2, <2>1
  <2>3. OfJobs({r \in M : r.job \in Restores})
    BY <1>1, <2>2 DEF OfJobs
  <2>4. ASSUME NEW r \in M, NEW q \in M, r.job = j, q.job = None, q.run = RunOf[j] PROVE FALSE
    <3>1. r \in history /\ r.run = RunOf[j]
      BY <1>1, <2>2, <2>4 DEF OfJobs
    <3>2. q \notin history
      BY <1>1, <2>4 DEF OfJobs
    <3>. QED
      BY <1>3, <2>4, <3>1, <3>2
  <2>5. ASSUME NEW r \in M, NEW q \in M, r.job = j, q.job = j PROVE r = q
    BY <1>1, <2>2, <2>5 DEF OfJobs
  <2>6. ASSUME NEW r \in M, NEW q \in M, r.job = None, q.job = None, r.run = q.run PROVE r = q
    <3>1. r \in live /\ q \in live
      BY <1>1, <1>2, <2>6 DEF OfJobs
    <3>. QED
      BY <1>5, <2>6, <3>1 DEF OfRuns
  <2>7. AllSame(SpeakOf(M, j))
    BY <2>4, <2>5, <2>6 DEF SpeakOf, AllSame
  <2>. QED
    BY <2>3, <2>7
<1>. QED
  BY <1>4, <1>5

\* A restore without twins keeps the jobs database's row, and no other.
LEMMA RecoveredOnce ==
  ASSUME NEW monitored, OfJobs(monitored), \A r \in monitored : r.job \in Restores,
         NEW restores, OfJobs(restores), \A r \in restores : r.job \in Restores,
         NEW j \in Restores, Twins(j) = {}, NEW rows \in RecoveryRows(monitored, restores)
  PROVE  /\ \A r \in rows : r.job \in Restores
         /\ \A r, q \in rows : r.job = j /\ q.job = j => r = q
         /\ \A r \in restores : r.job = j => r \in rows
<1>. DEFINE all == restores \cup {m \in monitored : \A r \in restores : r.run # m.run}
<1>1. rows \subseteq all /\ \A r \in all : Cardinality({q \in rows : q.run = r.run}) = 1
  BY DEF RecoveryRows
<1>2. \A r \in all : r.job \in Restores /\ r.run = RunOf[r.job]
  BY DEF OfJobs
<1>3. \A r \in all : r.run = RunOf[j] => r.job = j
  BY <1>2 DEF Twins
<1>4. \A r, q \in all : r.job = j /\ q.job = j => r = q
  BY <1>2 DEF OfJobs
<1>5. ASSUME NEW r \in restores, r.job = j PROVE r \in rows
  <2>1. r \in all /\ r.run = RunOf[j]
    BY <1>2, <1>5
  <2>2. {q \in rows : q.run = r.run} # {}
    BY <1>1, <2>1, FS_EmptySet
  <2>3. PICK q \in rows : q.run = RunOf[j]
    BY <2>1, <2>2
  <2>4. q \in all /\ q.job = j
    BY <1>1, <1>3, <2>3
  <2>5. q = r
    BY <1>4, <1>5, <2>1, <2>4
  <2>. QED
    BY <2>5
<1>. QED
  BY <1>1, <1>2, <1>4, <1>5

LEMMA EndedOutcome ==
  ASSUME JobReportsTypeOK, JobsInv, NEW j \in Jobs, jobs[j].state = "Completed"
  PROVE  Record(j).status \in Ended /\ Record(j).job = j /\ Record(j).run = RunOf[j]
<1>1. jobs[j].completion \in {"Succeeded", "Failed", "Abandoned", "Missed"}
  BY JobReportsAssumption DEF JobsInv
<1>2. ClassifyStatus(jobs[j].completion) \in Ended /\ ClassifyStatus(jobs[j].completion) # "unknown"
  BY <1>1 DEF ClassifyStatus, Ended
<1>. QED
  BY <1>2 DEF Record, Outcome, JobOutcome

LEMMA NoBuildInv == ASSUME now \in Nat PROVE NoBuild \in Builds /\ BuildInv(NoBuild)
<1>1. Rolling \in Windows
  BY DEF Windows
<1>2. NoBuild \in Builds
  BY <1>1 DEF NoBuild, Builds
<1>3. /\ NoBuild.at = "idle" /\ NoBuild.began = 0
      /\ NoBuild.history = {} /\ NoBuild.live = {} /\ NoBuild.recoveries = {}
  BY DEF NoBuild
<1>4. OfJobs({})
  BY DEF OfJobs
<1>5. OfJobs(NoBuild.history) /\ OfJobs(NoBuild.live) /\ OfJobs(NoBuild.recoveries)
      /\ \A r \in NoBuild.recoveries : r.job \in Restores
  BY <1>3, <1>4
<1>6. NoBuild.at \notin WithHistory /\ NoBuild.at \notin {"fetch", "store"} /\ NoBuild.at # "store"
  BY <1>3 DEF WithHistory
<1>. QED
  BY <1>2, <1>3, <1>5, <1>6 DEF BuildInv

\* A history Ttl old has the record of every job that is over.
LEMMA HistoryHasWhatIsOver ==
  ASSUME JobReportsTypeOK, JobsInv, NEW R, R.ended = now, R.began \in Nat,
         NEW H, AsOf(H, R.window, R.began + 1 - Ttl), NEW j \in Jobs, Over(j, R)
  PROVE  Record(j) \in H /\ Record(j).status \in Ended /\ Record(j).job = j
<1>1. jobs[j].time \in Nat /\ jobs[j].state = "Completed" /\ Ttl \in Nat \ {0}
  BY JobReportsAssumption DEF Over, JobReportsTypeOK
<1>2. jobs[j].time < R.began + 1 - Ttl
  BY <1>1 DEF Over
<1>3. InWindow(jobs[j].time, R.window, now)
  BY DEF Over
<1>. QED
  BY <1>1, <1>2, <1>3, EndedOutcome DEF AsOf

LEMMA DeliverStep ==
  ASSUME JobReportsTypeOK, FiguresInv, NEW b \in Builders, Deliver(b)
  PROVE  JobReportsTypeOK' /\ FiguresInv' /\ \E R : report' = R /\ GoodReport(R)
<1>. DEFINE B == build[b]
            finished == {r \in B.history : r.status \in Ended}
            merged == MergeActionHistory(B.live, finished)
            restores == {r \in merged : r.job \in Restores}
            Rows(recovered) == (merged \ restores) \cup recovered
            Delivered(recovered, othersOk) ==
              [window |-> B.window, began |-> B.began, ended |-> now,
               historyAvailable |-> B.historyOk, rows |-> Rows(recovered),
               health |-> Health(Rows(recovered), ~B.liveOk, ~B.historyOk \/ ~B.recoveriesOk \/ ~othersOk)]
<1>1. /\ B \in Builds /\ BuildInv(B) /\ B.at = "merge" /\ now \in Nat
      /\ B.live \in SUBSET Records /\ B.history \in SUBSET Records /\ B.recoveries \in SUBSET Records
  BY DEF JobReportsTypeOK, FiguresInv, Deliver, Builds
<1>2. None \notin Jobs /\ Restores \subseteq Jobs \ Actions /\ \A a \in Actions : \A j \in Jobs \ {a} : RunOf[j] # RunOf[a]
  BY JobReportsAssumption
<1>3. PICK recovered \in RecoveryRows(B.recoveries, restores), othersOk \in BOOLEAN :
         report' = Delivered(recovered, othersOk)
  BY DEF Deliver
<1>4. UNCHANGED <<now, jobs, cache>> /\ build' = [build EXCEPT ![b] = NoBuild]
  BY DEF Deliver
<1>. DEFINE R == Delivered(recovered, othersOk)
<1>5. OfJobs(B.history) /\ (OfJobs(B.live) \/ OfRuns(B.live)) /\ OfJobs(B.recoveries) /\ \A r \in B.recoveries : r.job \in Restores
  BY <1>1 DEF BuildInv
<1>6. OfJobs(finished) /\ finished \in SUBSET Records
  BY <1>1, <1>5 DEF OfJobs
<1>7. \A j \in Jobs : AllSame(SpeakOf(merged, j)) /\ OfJobs(restores)
  BY <1>5, <1>6, MergedOnce
<1>8. finished \subseteq merged /\ merged \subseteq finished \cup B.live
  BY DEF MergeActionHistory
<1>9. merged \subseteq Records /\ restores \subseteq Records /\ recovered \subseteq Records
  <2>1. merged \subseteq Records /\ restores \subseteq merged
    BY <1>1, <1>6, <1>8
  <2>2. restores \in SUBSET Records
    BY <2>1
  <2>. HIDE DEF restores
  <2>3. recovered \subseteq Records
    BY <1>1, <1>3, <2>2, RowsAreRecords
  <2>. QED
    BY <2>1, <2>2, <2>3
<1>10. R.window = B.window /\ R.began = B.began /\ R.ended = now /\ R.historyAvailable = B.historyOk
       /\ R.rows = Rows(recovered)
       /\ R.health = Health(Rows(recovered), ~B.liveOk, ~B.historyOk \/ ~B.recoveriesOk \/ ~othersOk)
  OBVIOUS
<1>11. R \in Reports
  BY <1>1, <1>9, HealthIsWord DEF Reports, Builds
<1>12. ASSUME NEW j \in Jobs, Twins(j) = {}, B.historyOk, Over(j, R)
       PROVE  Record(j) \in finished /\ Record(j).job = j
  <2>1. AsOf(B.history, R.window, R.began + 1 - Ttl) /\ R.began \in Nat /\ R.ended = now
    BY <1>1, <1>10, <1>12 DEF BuildInv, WithHistory, Builds
  <2>. HIDE DEF R
  <2>. QED
    BY <1>12, <2>1, HistoryHasWhatIsOver DEF FiguresInv
<1>. HIDE DEF R, finished, merged
<1>13. ASSUME NEW j \in Jobs \ Restores, Twins(j) = {}
       PROVE  AllSame(SpeakOf(Rows(recovered), j)) /\ (B.historyOk /\ Over(j, R) => Record(j) \in Rows(recovered))
  <2>1. \A r \in recovered : r.job \in Restores
    BY <1>3, <1>5 DEF RecoveryRows
  <2>2. SpeakOf(Rows(recovered), j) \subseteq SpeakOf(merged, j)
    BY <1>2, <2>1 DEF SpeakOf
  <2>3. AllSame(SpeakOf(Rows(recovered), j))
    BY <1>7, <2>2 DEF AllSame
  <2>. QED
    BY <1>8, <1>12, <1>13, <2>3
<1>14. ASSUME NEW j \in Restores, Twins(j) = {}
       PROVE  AllSame(SpeakOf(Rows(recovered), j)) /\ (B.historyOk /\ Over(j, R) => Record(j) \in Rows(recovered))
  <2>1. j \in Jobs /\ j \notin Actions /\ OfJobs(restores) /\ \A r \in restores : r.job \in Restores
    BY <1>2, <1>7
  <2>. HIDE DEF restores
  <2>2. /\ \A r \in recovered : r.job \in Restores
        /\ \A r, q \in recovered : r.job = j /\ q.job = j => r = q
        /\ \A r \in restores : r.job = j => r \in recovered
    BY <1>3, <1>5, <1>14, <2>1, RecoveredOnce
  <2>3. ASSUME NEW r \in merged, r.job = None, r.run = RunOf[j] PROVE FALSE
    <3>1. r \in B.live /\ OfRuns(B.live)
      BY <1>2, <1>5, <1>6, <1>8, <2>3 DEF OfJobs
    <3>2. PICK a \in Actions : r.run = RunOf[a]
      BY <3>1 DEF OfRuns
    <3>. QED
      BY <1>2, <2>1, <2>3, <3>2
  <2>4. \A r \in SpeakOf(Rows(recovered), j) : r \in recovered /\ r.job = j
    BY <1>2, <2>2, <2>3 DEF SpeakOf, restores
  <2>5. AllSame(SpeakOf(Rows(recovered), j))
    BY <2>2, <2>4 DEF AllSame
  <2>6. B.historyOk /\ Over(j, R) => Record(j) \in restores /\ Record(j).job = j
    BY <1>8, <1>12, <1>14, <2>1 DEF restores
  <2>. QED
    BY <2>2, <2>5, <2>6
<1>15. R.health = "ok" => R.historyAvailable /\ \A r \in R.rows : r.status # "failed"
  <2>1. \A rows, critical, warnings :
           Health(rows, critical, warnings) = "ok" => ~warnings /\ \A r \in rows : r.status # "failed"
    BY DEF Health
  <2>. QED
    BY <1>10, <2>1
<1>16. GoodReport(R)
  BY <1>10, <1>13, <1>14, <1>15 DEF GoodReport
<1>17. JobReportsTypeOK' /\ FiguresInv'
  <2>1. report' \in {None} \cup Reports
    BY <1>3, <1>11 DEF R
  <2>. QED
    BY <1>1, <1>4, <2>1, NoBuildInv, MovesOn
<1>. QED
  BY <1>3, <1>16, <1>17 DEF R

LEMMA SumUpStep ==
  ASSUME JobReportsTypeOK, FiguresInv, NEW b \in Builders, SumUp(b)
  PROVE  JobReportsTypeOK' /\ FiguresInv' /\ \E R : report' = R /\ GoodReport(R)
<1>. DEFINE B == build[b]
            rows == IF B.historyOk THEN B.history ELSE {r \in B.live : r.job \notin Restores}
            Summed(criticalAlerts, warnings) ==
              [window |-> B.window, began |-> B.began, ended |-> now, historyAvailable |-> B.historyOk, rows |-> rows,
               health |-> IF criticalAlerts \/ \E r \in rows : r.status = "failed" THEN "critical"
                          ELSE IF warnings \/ ~B.historyOk \/ ~B.liveOk THEN "warning"
                          ELSE "ok"]
<1>1. /\ B \in Builds /\ BuildInv(B) /\ B.at = "sum up" /\ now \in Nat
      /\ B.live \in SUBSET Records /\ B.history \in SUBSET Records
  BY DEF JobReportsTypeOK, FiguresInv, SumUp, Builds
<1>2. None \notin Jobs
  BY JobReportsAssumption
<1>3. PICK criticalAlerts \in BOOLEAN, warnings \in BOOLEAN : report' = Summed(criticalAlerts, warnings)
  BY DEF SumUp
<1>4. UNCHANGED <<now, jobs, cache>> /\ build' = [build EXCEPT ![b] = NoBuild]
  BY DEF SumUp
<1>. DEFINE R == Summed(criticalAlerts, warnings)
<1>5. rows \subseteq Records /\ OfJobs(rows)
  BY <1>1 DEF BuildInv, OfJobs
<1>6. R.window = B.window /\ R.began = B.began /\ R.ended = now /\ R.historyAvailable = B.historyOk /\ R.rows = rows
  OBVIOUS
<1>7. R \in Reports
  BY <1>1, <1>5 DEF Reports, Builds
<1>8. R.health = "ok" => R.historyAvailable /\ \A r \in R.rows : r.status # "failed"
  OBVIOUS
<1>9. ASSUME NEW j \in Jobs
      PROVE  AllSame(SpeakOf(R.rows, j)) /\ (R.historyAvailable /\ Over(j, R) => Record(j) \in R.rows)
  <2>1. B.historyOk => AsOf(B.history, R.window, R.began + 1 - Ttl) /\ R.began \in Nat /\ R.ended = now
                       /\ R.rows = B.history
    BY <1>1, <1>6 DEF BuildInv, WithHistory, Builds
  <2>. HIDE DEF R, rows
  <2>2. B.historyOk /\ Over(j, R) => Record(j) \in R.rows
    BY <2>1, HistoryHasWhatIsOver DEF FiguresInv
  <2>3. \A r \in SpeakOf(rows, j) : r \in rows /\ r.job = j
    BY <1>2, <1>5 DEF SpeakOf, OfJobs
  <2>. QED
    BY <1>5, <1>6, <2>2, <2>3 DEF AllSame, OfJobs
<1>. HIDE DEF R
<1>10. GoodReport(R)
  BY <1>8, <1>9 DEF GoodReport
<1>11. JobReportsTypeOK' /\ FiguresInv'
  <2>1. report' \in {None} \cup Reports
    BY <1>3, <1>7 DEF R
  <2>. QED
    BY <1>1, <1>4, <2>1, NoBuildInv, MovesOn
<1>. QED
  BY <1>3, <1>10, <1>11 DEF R

FiguresStateInv == JobReportsTypeOK /\ FiguresInv /\ ReportInv

LEMMA FiguresInit == JobReportsInit => FiguresStateInv
<1>. SUFFICES ASSUME JobReportsInit PROVE FiguresStateInv
  OBVIOUS
<1>1. JobReportsTypeOK
  BY JobReportsInitType
<1>2. ReportInv
  BY DEF JobReportsInit, ReportInv
<1>3. JobsInv
  <2>1. now = 0 /\ \A j \in Jobs : jobs[j].time = 0 /\ jobs[j].state = "none"
    BY DEF JobReportsInit
  <2>. QED
    BY <2>1 DEF JobsInv
<1>4. CacheInv
  BY DEF JobReportsInit, CacheInv
<1>5. \A b \in Builders : BuildInv(build[b])
  BY <1>1, NoBuildInv DEF JobReportsInit
<1>. QED
  BY <1>1, <1>2, <1>3, <1>4, <1>5 DEF FiguresStateInv, FiguresInv

LEMMA FiguresStep == FiguresStateInv /\ [JobReportsNext]_jobVars => FiguresStateInv'
<1>. SUFFICES ASSUME FiguresStateInv, [JobReportsNext]_jobVars PROVE FiguresStateInv'
  OBVIOUS
<1>1. JobReportsTypeOK /\ FiguresInv /\ ReportInv
  BY DEF FiguresStateInv
<1>2. ASSUME report' = None PROVE ReportInv'
  BY <1>2 DEF ReportInv
<1>3. ASSUME UNCHANGED <<now, jobs>>, report' = report \/ GoodReport(report') PROVE ReportInv'
  <2>1. \A R : GoodReport(R) => GoodReport(R)'
    BY <1>3 DEF GoodReport, Over, Record, Outcome, InWindow, AllSame, SpeakOf, Twins
  <2>. QED
    BY <1>1, <1>3, <2>1 DEF ReportInv, GoodReport
<1>4. CASE UNCHANGED jobVars
  <2>1. JobReportsTypeOK'
    BY <1>1, <1>4 DEF JobReportsTypeOK, jobVars
  <2>2. now' = now /\ jobs' = jobs /\ cache' = cache /\ build' = build
    BY <1>4 DEF jobVars
  <2>3. \A H, w, t : AsOf(H, w, t) => AsOf(H, w, t)'
    BY <2>2 DEF AsOf, OfJobs, Record, Outcome, InWindow
  <2>4. JobsInv' /\ CacheInv'
    BY <1>1, <2>2, <2>3 DEF FiguresInv, JobsInv, CacheInv, AsOf
  <2>5. ASSUME NEW b \in Builders PROVE BuildInv(build[b])'
    <3>1. BuildInv(build[b])
      BY <1>1 DEF FiguresInv
    <3>. QED
      BY <2>2, <2>3, <3>1 DEF BuildInv, OfJobs, OfRuns, AsOf, Record, Outcome, InWindow
  <2>. QED
    BY <1>3, <1>4, <2>1, <2>4, <2>5 DEF jobVars, FiguresInv, FiguresStateInv
<1>5. CASE Tick \/ \E j \in Jobs : JobStep(j)
  <2>1. report' = None
    BY <1>5 DEF Tick, JobStep
  <2>. QED
    BY <1>1, <1>2, <1>5, <2>1, WorldMovesOn DEF FiguresStateInv
<1>6. ASSUME NEW b \in Builders, NEW mode \in Modes, NEW w \in Windows, BeginBuild(b, mode, w) PROVE FiguresStateInv'
  <2>1. report' = None
    BY <1>6 DEF BeginBuild
  <2>. QED
    BY <1>1, <1>2, <1>6, <2>1, BeginBuildStep DEF FiguresStateInv
<1>7. ASSUME NEW b \in Builders, ReadLive(b) \/ ReadRecoveries(b) \/ LookUp(b) PROVE FiguresStateInv'
  <2>1. report' = None
    BY <1>7 DEF ReadLive, ReadRecoveries, LookUp
  <2>. QED
    BY <1>1, <1>2, <1>7, <2>1, ReadLiveStep, ReadRecoveriesStep, LookUpStep DEF FiguresStateInv
<1>8. ASSUME NEW b \in Builders, Fetch(b) \/ Store(b) \/ AskJobs(b) \/ AskOther(b) PROVE FiguresStateInv'
  <2>1. report' = None
    BY <1>8 DEF Fetch, Store, AskJobs, AskOther
  <2>. QED
    BY <1>1, <1>2, <1>8, <2>1, FetchStep, StoreStep, AskStep DEF FiguresStateInv
<1>9. ASSUME NEW b \in Builders, Deliver(b) \/ SumUp(b) PROVE FiguresStateInv'
  <2>1. UNCHANGED <<now, jobs>>
    BY <1>9 DEF Deliver, SumUp
  <2>2. JobReportsTypeOK' /\ FiguresInv' /\ \E R : report' = R /\ GoodReport(R)
    BY <1>1, <1>9, DeliverStep, SumUpStep
  <2>. QED
    BY <1>3, <2>1, <2>2 DEF FiguresStateInv
<1>. QED
  BY <1>4, <1>5, <1>6, <1>7, <1>8, <1>9 DEF JobReportsNext

LEMMA AtMostOne == ASSUME NEW S, AllSame(S) PROVE Cardinality(S) <= 1
<1>1. CASE S = {}
  BY <1>1, FS_EmptySet
<1>2. CASE \E x : S = {x}
  BY <1>2, FS_Singleton
<1>. QED
  BY <1>1, <1>2 DEF AllSame

\* A good report counts jobs as the two properties say.
LEMMA GoodReportCounts == ASSUME JobReportsTypeOK, ReportInv PROVE OverIsCountedOnce /\ OkMeansNoFailure
<1>. SUFFICES ASSUME report # None PROVE OverIsCountedOnce /\ OkMeansNoFailure
  BY DEF OverIsCountedOnce, OkMeansNoFailure
<1>1. GoodReport(report)
  BY DEF ReportInv
<1>2. \A j \in Jobs : j \in Settled <=> Over(j, report)
  BY DEF Settled, Over
<1>3. ASSUME NEW j \in Jobs, Twins(j) = {}
      PROVE  /\ Cardinality(RowsOf(j)) <= 1
             /\ report.historyAvailable /\ j \in Settled => RowsOf(j) = {Record(j)}
  <2>1. RowsOf(j) = SpeakOf(report.rows, j) /\ Record(j).job = j
    BY DEF RowsOf, SpeakOf, Record
  <2>2. AllSame(RowsOf(j)) /\ (report.historyAvailable /\ j \in Settled => Record(j) \in report.rows)
    BY <1>1, <1>2, <1>3, <2>1 DEF GoodReport
  <2>3. report.historyAvailable /\ j \in Settled => Record(j) \in RowsOf(j)
    BY <2>1, <2>2 DEF RowsOf
  <2>4. report.historyAvailable /\ j \in Settled => RowsOf(j) = {Record(j)}
    BY <2>2, <2>3 DEF AllSame
  <2>. QED
    BY <2>2, <2>4, AtMostOne
<1>4. OverIsCountedOnce
  BY <1>3 DEF OverIsCountedOnce
<1>5. ASSUME report.health = "ok", NEW j \in Settled, Outcome(j) = "failed" PROVE Twins(j) # {}
  <2>1. j \in Jobs /\ Record(j).status = "failed"
    BY <1>5 DEF Settled, Record
  <2>2. report.historyAvailable /\ \A r \in report.rows : r.status # "failed"
    BY <1>1, <1>5 DEF GoodReport
  <2>3. Twins(j) = {} => Record(j) \in report.rows
    BY <1>1, <1>2, <1>5, <2>1, <2>2 DEF GoodReport
  <2>. QED
    BY <2>1, <2>2, <2>3
<1>. QED
  BY <1>4, <1>5 DEF OkMeansNoFailure

LEMMA FiguresInductive == JobReportsSpec => []FiguresStateInv
BY FiguresInit, FiguresStep, PTL DEF JobReportsSpec

\* nwui.py, restapi.py: the collector's state is of its type, for any jobs,
\* runs, builders, windows and lifetimes of the cache.
THEOREM JobReportsTypeCorrect == JobReportsSpec => []JobReportsTypeOK
<1>1. FiguresStateInv => JobReportsTypeOK
  BY DEF FiguresStateInv
<1>. QED
  BY <1>1, FiguresInductive, PTL

\* merge_action_history, merge_recoveries, cached_nwui_job_history: no job is
\* counted twice, and one that was over is counted as what became of it.
THEOREM OverIsCountedOnceHolds == JobReportsSpec => []OverIsCountedOnce
<1>1. FiguresStateInv => OverIsCountedOnce
  BY GoodReportCounts DEF FiguresStateInv
<1>. QED
  BY <1>1, FiguresInductive, PTL

\* build_dashboard_nwui, build_dashboard_rest: a dashboard that says all is
\* well hides no failure that the cache could have known of.
THEOREM OkMeansNoFailureHolds == JobReportsSpec => []OkMeansNoFailure
<1>1. FiguresStateInv => OkMeansNoFailure
  BY GoodReportCounts DEF FiguresStateInv
<1>. QED
  BY <1>1, FiguresInductive, PTL

-----------------------------------------------------------------------------
(* The pages of a monitoring list                                          *)

\* The types, and the bounds of the loops.
PagesTypeOK ==
    /\ nwui \in [list : Seq(Nat), recent : Nat, largest : Nat \ {0}, counts : BOOLEAN, clamps : BOOLEAN]
    /\ stable \in BOOLEAN /\ at \in {"asking", "done", "failed"}
    /\ strategy \in 1 .. Len(Strategies) /\ page \in 1 .. MaxPages + 1 /\ limit \in Nat \ {0}
    /\ items \in Seq(Nat) /\ total \in Nat /\ truncated \in BOOLEAN

\* What PagesAreWhole supposes of NWUI.
PagesFit == nwui.counts \/ nwui.largest >= limit

\* Before each page of a list that holds still, what has been read is the list
\* up to the page: the pages so far were full, and from the second one on the
\* page size is one that NWUI gives.
ReadSoFar ==
    at = "asking" /\ stable /\ PagesFit =>
        /\ (page - 1) * limit <= Len(Listed)
        /\ items = SubSeq(Listed, 1, (page - 1) * limit)
        /\ page > 1 => limit <= nwui.largest
        /\ total \in {0, Len(Listed)}

PageInv ==
    /\ PagesTypeOK /\ (~nwui.counts => total = 0)
    /\ ReadSoFar /\ PagesAreWhole

LEMMA Times ==
  ASSUME NEW m \in Nat, NEW k \in Nat
  PROVE  m * k \in Nat /\ (m + 1) * k = m * k + k /\ 0 * k = 0
OBVIOUS

LEMMA StrategyType ==
  ASSUME NEW s \in 1 .. Len(Strategies)
  PROVE  Strategies[s].size \in Nat \ {0} /\ Strategies[s].windowed \in BOOLEAN
<1>1. Strategies[s] \in [size : Nat \ {0}, windowed : BOOLEAN]
  BY PagesAssumption, ElementOfSeq DEF PagesAssumption
<1>. QED
  BY <1>1

LEMMA ListedType ==
  ASSUME PagesTypeOK
  PROVE  /\ nwui.list \in Seq(Nat) /\ Recent(nwui.list) \in Seq(Nat) /\ Listed \in Seq(Nat)
         /\ Len(Listed) \in Nat
<1>1. nwui.list \in Seq(Nat)
  BY DEF PagesTypeOK
<1>2. Recent(nwui.list) \in Seq(Nat)
  BY <1>1, SelectType DEF Recent
<1>3. Listed \in Seq(Nat)
  BY <1>1, <1>2 DEF Listed
<1>. QED
  BY <1>1, <1>2, <1>3

\* A page is a piece of the list, however NWUI places and sizes it.
LEMMA PageType ==
  ASSUME PagesTypeOK
  PROVE  Page \in Seq(Nat) /\ Len(Page) \in Nat
<1>. DEFINE size == Smaller(limit, nwui.largest)
            from == (page - 1) * (IF nwui.clamps THEN size ELSE limit)
<1>1. Listed \in Seq(Nat) /\ Len(Listed) \in Nat
  BY ListedType
<1>2. limit \in Nat /\ size \in Nat /\ page - 1 \in Nat /\ MaxPages \in Nat
  BY PagesAssumption DEF PagesAssumption, PagesTypeOK, Smaller
<1>3. from \in Nat
  BY <1>2, Times
<1>4. Smaller(from + size, Len(Listed)) \in Int /\ Smaller(from + size, Len(Listed)) <= Len(Listed)
  BY <1>1, <1>2, <1>3 DEF Smaller
<1>. HIDE DEF size, from
<1>5. \A i \in from + 1 .. Smaller(from + size, Len(Listed)) : Listed[i] \in Nat
  <2>. SUFFICES ASSUME NEW i \in from + 1 .. Smaller(from + size, Len(Listed)) PROVE Listed[i] \in Nat
    OBVIOUS
  <2>1. i \in 1 .. Len(Listed)
    BY <1>1, <1>3, <1>4
  <2>. QED
    BY <1>1, <2>1, ElementOfSeq
<1>6. SubSeq(Listed, from + 1, Smaller(from + size, Len(Listed))) \in Seq(Nat)
  BY <1>3, <1>4, <1>5, SubSeqProperties
<1>7. Page = SubSeq(Listed, from + 1, Smaller(from + size, Len(Listed)))
  BY DEF Page, size, from
<1>. QED
  BY <1>6, <1>7

\* With the page NWUI answers next, what has been read is the list up to the
\* end of that page.
LEMMA PageFollows ==
  ASSUME PagesTypeOK, ReadSoFar, at = "asking", stable, PagesFit
  PROVE  LET read == (page - 1) * limit
             upTo == Smaller(read + Smaller(limit, nwui.largest), Len(Listed))
         IN  /\ read \in Nat /\ read <= Len(Listed) /\ upTo \in read .. Len(Listed)
             /\ Len(items) = read /\ Len(Page) = upTo - read
             /\ items \o Page = SubSeq(Listed, 1, upTo)
             /\ Len(items \o Page) = upTo
<1>. DEFINE read == (page - 1) * limit
            size == Smaller(limit, nwui.largest)
            upTo == Smaller(read + size, Len(Listed))
            from == (page - 1) * (IF nwui.clamps THEN size ELSE limit)
<1>1. Listed \in Seq(Nat) /\ Len(Listed) \in Nat
  BY ListedType
<1>2. limit \in Nat /\ size \in Nat /\ page \in Nat /\ page - 1 \in Nat /\ nwui.largest \in Nat
  BY PagesAssumption DEF PagesAssumption, PagesTypeOK, Smaller
<1>3. read \in Nat
  BY <1>2, Times
<1>4. read <= Len(Listed) /\ items = SubSeq(Listed, 1, read)
  BY DEF ReadSoFar
<1>5. from = read
  <2>1. CASE page = 1
    <3>1. page - 1 = 0
      BY <2>1
    <3>2. \A k \in Nat : (page - 1) * k = 0
      BY <3>1, Times
    <3>. QED
      BY <1>2, <3>2
  <2>2. CASE page > 1
    <3>1. limit <= nwui.largest
      BY <2>2 DEF ReadSoFar
    <3>2. size = limit
      BY <1>2, <3>1 DEF Smaller
    <3>. QED
      BY <3>2
  <2>. QED
    BY <1>2, <2>1, <2>2
<1>6. Page = SubSeq(Listed, from + 1, Smaller(from + size, Len(Listed)))
  BY DEF Page
<1>7. Page = SubSeq(Listed, read + 1, upTo)
  BY <1>5, <1>6
<1>. HIDE DEF from
<1>. HIDE DEF read
<1>8. upTo \in read .. Len(Listed)
  BY <1>1, <1>2, <1>3, <1>4 DEF Smaller
<1>. HIDE DEF upTo
<1>9. items \o Page = SubSeq(Listed, 1, upTo)
  <2>1. 1 \in 1 .. Len(Listed) + 1 /\ read \in 1 - 1 .. Len(Listed) /\ upTo \in read .. Len(Listed)
    BY <1>1, <1>3, <1>4, <1>8
  <2>. QED
    BY <1>1, <1>4, <1>7, <2>1, ConcatAdjacentSubSeq
<1>10. \A m, n \in Int : 1 <= m /\ n <= Len(Listed) =>
          Len(SubSeq(Listed, m, n)) = IF m <= n THEN n - m + 1 ELSE 0
  <2>. SUFFICES ASSUME NEW m \in Int, NEW n \in Int, 1 <= m, n <= Len(Listed)
                PROVE  Len(SubSeq(Listed, m, n)) = IF m <= n THEN n - m + 1 ELSE 0
    OBVIOUS
  <2>1. \A i \in m .. n : Listed[i] \in Nat
    <3>. SUFFICES ASSUME NEW i \in m .. n PROVE Listed[i] \in Nat
      OBVIOUS
    <3>1. i \in 1 .. Len(Listed)
      BY <1>1
    <3>. QED
      BY <1>1, <3>1, ElementOfSeq
  <2>. QED
    BY <2>1, SubSeqProperties
<1>11. Len(items) = read /\ Len(Page) = upTo - read /\ Len(items \o Page) = upTo
  <2>1. upTo \in Int /\ read \in Int /\ read + 1 \in Int /\ read <= upTo /\ upTo <= Len(Listed)
    BY <1>1, <1>3, <1>8
  <2>2. Len(SubSeq(Listed, 1, read)) = IF 1 <= read THEN read - 1 + 1 ELSE 0
    BY <1>4, <1>10, <2>1
  <2>3. Len(SubSeq(Listed, read + 1, upTo)) = IF read + 1 <= upTo THEN upTo - (read + 1) + 1 ELSE 0
    BY <1>3, <1>10, <2>1
  <2>4. Len(SubSeq(Listed, 1, upTo)) = IF 1 <= upTo THEN upTo - 1 + 1 ELSE 0
    BY <1>10, <2>1
  <2>5. Len(SubSeq(Listed, 1, read)) = read
    BY <1>3, <2>2
  <2>6. Len(SubSeq(Listed, read + 1, upTo)) = upTo - read
    BY <2>1, <2>3
  <2>7. Len(SubSeq(Listed, 1, upTo)) = upTo
    BY <1>3, <2>1, <2>4
  <2>. QED
    BY <1>4, <1>7, <1>9, <2>5, <2>6, <2>7
<1>. QED
  BY <1>3, <1>4, <1>8, <1>9, <1>11 DEF read, upTo

\* How many items there are, as far as the reader of the list can know.
Count == IF nwui.counts /\ Len(Listed) > 0 THEN Len(Listed) ELSE total

LastPage ==
    \/ Page = <<>>
    \/ Count > 0 /\ Len(items \o Page) >= Count
    \/ Count = 0 /\ Len(Page) < limit

LEMMA CountType ==
  ASSUME PageInv
  PROVE  /\ Count \in Nat /\ (~nwui.counts => Count = 0)
         /\ at = "asking" /\ stable /\ PagesFit =>
               /\ Count \in {0, Len(Listed)}
               /\ nwui.counts /\ Len(Listed) > 0 => Count = Len(Listed)
<1>1. Len(Listed) \in Nat /\ total \in Nat /\ (~nwui.counts => total = 0)
  BY ListedType DEF PageInv, PagesTypeOK
<1>2. at = "asking" /\ stable /\ PagesFit => total \in {0, Len(Listed)}
  BY DEF PageInv, ReadSoFar
<1>. QED
  BY <1>1, <1>2 DEF Count

\* The page after which the reader stops reaches the end of the list.
LEMMA LastPageEnds ==
  ASSUME PageInv, at = "asking", stable, PagesFit, LastPage
  PROVE  items \o Page = Listed /\ ~(Count > 0 /\ Len(items \o Page) < Count)
<1>. DEFINE read == (page - 1) * limit
            size == Smaller(limit, nwui.largest)
            upTo == Smaller(read + size, Len(Listed))
<1>1. PagesTypeOK /\ ReadSoFar
  BY DEF PageInv
<1>2. /\ read \in Nat /\ read <= Len(Listed) /\ upTo \in read .. Len(Listed)
      /\ Len(Page) = upTo - read /\ items \o Page = SubSeq(Listed, 1, upTo) /\ Len(items \o Page) = upTo
  BY <1>1, PageFollows
<1>3. Listed \in Seq(Nat) /\ Len(Listed) \in Nat
  BY <1>1, ListedType
<1>4. /\ Count \in {0, Len(Listed)} /\ (nwui.counts /\ Len(Listed) > 0 => Count = Len(Listed))
      /\ nwui.counts \/ Count = 0
  BY CountType, Zenon
<1>5. limit \in Nat \ {0} /\ nwui.largest \in Nat \ {0} /\ nwui.counts \in BOOLEAN
  BY <1>1 DEF PagesTypeOK
<1>6. size \in Nat \ {0} /\ (nwui.largest >= limit => size = limit)
  BY <1>5 DEF Smaller
<1>7. upTo = IF read + size <= Len(Listed) THEN read + size ELSE Len(Listed)
  BY DEF Smaller
<1>8. nwui.counts \/ nwui.largest >= limit
  BY DEF PagesFit
<1>. HIDE DEF read, size, upTo
<1>9. upTo = Len(Listed)
  <2>1. CASE Page = <<>>
    <3>1. Len(Page) = 0
      BY <2>1
    <3>. QED
      BY <1>2, <1>3, <1>6, <1>7, <3>1
  <2>2. CASE Count > 0 /\ Len(items \o Page) >= Count
    BY <1>2, <1>3, <1>4, <2>2
  <2>3. CASE Count = 0 /\ Len(Page) < limit
    <3>1. CASE nwui.counts
      BY <1>2, <1>3, <1>4, <2>3, <3>1
    <3>2. CASE nwui.largest >= limit
      <4>1. upTo - read < limit /\ size = limit
        BY <1>2, <1>6, <2>3, <3>2
      <4>. QED
        BY <1>2, <1>3, <1>5, <1>7, <4>1
    <3>. QED
      BY <1>8, <3>1, <3>2
  <2>. QED
    BY <2>1, <2>2, <2>3 DEF LastPage
<1>10. items \o Page = Listed
  BY <1>2, <1>3, <1>9, SubSeqFull
<1>. QED
  BY <1>2, <1>3, <1>4, <1>9, <1>10

\* After any other page, the reader goes on at a page size NWUI gives.
LEMMA OtherPageFull ==
  ASSUME PageInv, at = "asking", stable, PagesFit, ~LastPage
  PROVE  LET next == NextLimit(Page, Count) IN
         /\ next <= nwui.largest /\ page * next <= Len(Listed)
         /\ items \o Page = SubSeq(Listed, 1, page * next)
<1>. DEFINE read == (page - 1) * limit
            size == Smaller(limit, nwui.largest)
            upTo == Smaller(read + size, Len(Listed))
            next == NextLimit(Page, Count)
<1>1. PagesTypeOK /\ ReadSoFar
  BY DEF PageInv
<1>2. /\ read \in Nat /\ read <= Len(Listed) /\ upTo \in read .. Len(Listed)
      /\ Len(Page) = upTo - read /\ items \o Page = SubSeq(Listed, 1, upTo) /\ Len(items \o Page) = upTo
  BY <1>1, PageFollows
<1>3. Listed \in Seq(Nat) /\ Len(Listed) \in Nat
  BY <1>1, ListedType
<1>4. Count \in {0, Len(Listed)}
  BY CountType, Zenon
<1>5. limit \in Nat \ {0} /\ nwui.largest \in Nat \ {0} /\ page \in Nat /\ page - 1 \in Nat /\ page >= 1
  BY <1>1, PagesAssumption DEF PagesAssumption, PagesTypeOK
<1>6. size = IF limit <= nwui.largest THEN limit ELSE nwui.largest
  BY DEF Smaller
<1>7. upTo = IF read + size <= Len(Listed) THEN read + size ELSE Len(Listed)
  BY DEF Smaller
<1>8. page > 1 => limit <= nwui.largest
  BY <1>1 DEF ReadSoFar
<1>9. ~(Count > 0 /\ upTo >= Count) /\ ~(Count = 0 /\ upTo - read < limit)
  BY <1>2 DEF LastPage
<1>10. next = IF Count > 0 /\ page = 1 /\ upTo - read < limit THEN upTo - read ELSE limit
  BY <1>2 DEF NextLimit
<1>11. page * limit = read + limit
  <2>1. page = (page - 1) + 1
    BY <1>5
  <2>. QED
    BY <1>5, <2>1, Times
<1>12. page = 1 => read = 0 /\ \A k \in Nat : page * k = k
  <2>. SUFFICES ASSUME page = 1 PROVE read = 0 /\ \A k \in Nat : page * k = k
    OBVIOUS
  <2>1. page - 1 = 0
    OBVIOUS
  <2>. QED
    BY <1>5, <2>1, Times
<1>. HIDE DEF read, size, upTo, next
<1>13. next <= nwui.largest /\ page * next = upTo
  <2>1. CASE Count = 0
    <3>1. next = limit /\ upTo - read >= limit
      BY <1>2, <1>3, <1>5, <1>9, <1>10, <2>1
    <3>2. limit <= nwui.largest /\ upTo = read + limit
      BY <1>2, <1>3, <1>5, <1>6, <1>7, <3>1
    <3>. QED
      BY <1>11, <3>1, <3>2
  <2>2. CASE Count # 0 /\ page = 1
    <3>1. upTo = size /\ read = 0
      BY <1>2, <1>3, <1>4, <1>5, <1>6, <1>7, <1>9, <1>12, <2>2
    <3>2. next <= nwui.largest /\ next = upTo /\ next \in Nat
      BY <1>2, <1>3, <1>4, <1>5, <1>6, <1>10, <2>2, <3>1
    <3>. QED
      BY <1>12, <2>2, <3>2
  <2>3. CASE Count # 0 /\ page > 1
    <3>1. size = limit /\ limit <= nwui.largest
      BY <1>6, <1>8, <2>3
    <3>2. upTo = read + limit /\ next = limit
      BY <1>2, <1>3, <1>4, <1>5, <1>7, <1>9, <1>10, <2>3, <3>1
    <3>. QED
      BY <1>11, <3>1, <3>2
  <2>. QED
    BY <1>5, <2>1, <2>2, <2>3
<1>14. page * next <= Len(Listed) /\ items \o Page = SubSeq(Listed, 1, page * next)
  BY <1>2, <1>3, <1>13
<1>. QED
  BY <1>13, <1>14 DEF next

\* NWUI and the strategy stay: so does the list as asked for.
LEMMA ListedKept ==
  ASSUME UNCHANGED <<nwui, strategy>>
  PROVE  Listed' = Listed /\ Recent(nwui.list)' = Recent(nwui.list)
BY DEF Listed, Recent

LEMMA ReadPageInv == ASSUME PageInv, ReadPage PROVE PageInv'
<1>. DEFINE all == items \o Page
<1>1. PagesTypeOK /\ ReadSoFar /\ at = "asking" /\ page <= MaxPages /\ (~nwui.counts => total = 0)
  BY DEF PageInv, ReadPage
<1>2. /\ Count \in Nat /\ (~nwui.counts => Count = 0)
      /\ stable /\ PagesFit =>
            /\ Count \in {0, Len(Listed)}
            /\ nwui.counts /\ Len(Listed) > 0 => Count = Len(Listed)
  BY <1>1, CountType
<1>3. Page \in Seq(Nat) /\ Len(Page) \in Nat /\ all \in Seq(Nat) /\ items \in Seq(Nat)
  <2>1. Page \in Seq(Nat) /\ Len(Page) \in Nat /\ items \in Seq(Nat)
    BY <1>1, PageType DEF PagesTypeOK
  <2>. QED
    BY <2>1, ConcatProperties
<1>4. \/ LastPage /\ Finish(all, Count, FALSE)
      \/ /\ ~LastPage
         /\ items' = all /\ total' = Count /\ page' = page + 1 /\ limit' = NextLimit(Page, Count)
         /\ UNCHANGED <<nwui, stable, at, strategy, truncated>>
  BY Zenon DEF ReadPage, Count, LastPage
<1>5. CASE LastPage /\ Finish(all, Count, FALSE)
  <2>1. /\ at' = "done" /\ total' = Count /\ UNCHANGED <<nwui, stable, strategy, page, limit>>
        /\ items' = (IF Strategies[strategy].windowed THEN all ELSE Recent(all))
        /\ truncated' = (IF Count > 0 THEN Len(all) < Count ELSE FALSE)
    BY <1>5, Zenon DEF Finish
  <2>2. PagesTypeOK'
    <3>1. Recent(all) \in Seq(Nat)
      BY <1>3, SelectType DEF Recent
    <3>2. items' \in Seq(Nat)
      BY <1>3, <2>1, <3>1, Zenon
    <3>3. truncated' \in BOOLEAN
      <4>1. (Len(all) < Count) \in BOOLEAN /\ FALSE \in BOOLEAN
        OBVIOUS
      <4>. QED
        BY <2>1, <4>1, Zenon
    <3>. HIDE DEF all
    <3>. QED
      BY <1>1, <1>2, <2>1, <3>2, <3>3 DEF PagesTypeOK
  <2>3. PagesAreWhole'
    <3>. SUFFICES ASSUME stable', PagesFit' PROVE ~truncated' /\ items' = Recent(nwui.list)'
      BY <2>1 DEF PagesAreWhole, PagesFit
    <3>1. stable /\ PagesFit
      BY <2>1 DEF PagesFit
    <3>2. all = Listed /\ ~(Count > 0 /\ Len(all) < Count)
      BY <1>1, <1>5, <3>1, LastPageEnds
    <3>3. items' = Recent(nwui.list)
      BY <2>1, <3>2, Zenon DEF Listed
    <3>4. ~truncated'
      BY <2>1, <3>2, Zenon
    <3>5. Recent(nwui.list)' = Recent(nwui.list)
      BY <2>1, ListedKept
    <3>. QED
      BY <3>3, <3>4, <3>5, Zenon
  <2>. QED
    BY <1>2, <2>1, <2>2, <2>3 DEF PageInv, ReadSoFar
<1>6. CASE /\ ~LastPage
           /\ items' = all /\ total' = Count /\ page' = page + 1 /\ limit' = NextLimit(Page, Count)
           /\ UNCHANGED <<nwui, stable, at, strategy, truncated>>
  <2>1. Page # <<>>
    BY <1>6 DEF LastPage
  <2>2. Len(Page) # 0
    BY <1>3, <2>1, EmptySeq
  <2>3. limit' \in Nat \ {0} /\ (limit' # limit => Count > 0)
    BY <1>1, <1>3, <1>6, <2>2 DEF NextLimit, PagesTypeOK
  <2>4. PagesTypeOK'
    <3>1. page' \in 1 .. MaxPages + 1
      BY <1>1, <1>6, PagesAssumption DEF PagesAssumption, PagesTypeOK
    <3>. HIDE DEF all
    <3>. QED
      BY <1>1, <1>2, <1>3, <1>6, <2>3, <3>1 DEF PagesTypeOK
  <2>5. ReadSoFar'
    <3>. SUFFICES ASSUME stable', PagesFit'
                  PROVE  /\ (page' - 1) * limit' <= Len(Listed')
                         /\ items' = SubSeq(Listed', 1, (page' - 1) * limit')
                         /\ page' > 1 => limit' <= nwui'.largest
                         /\ total' \in {0, Len(Listed')}
      BY DEF ReadSoFar
    <3>1. stable /\ PagesFit
      BY <1>2, <1>6, <2>3 DEF PagesFit
    <3>2. limit' <= nwui.largest /\ page * limit' <= Len(Listed) /\ all = SubSeq(Listed, 1, page * limit')
      BY <1>1, <1>6, <3>1, OtherPageFull
    <3>3. page' - 1 = page /\ Listed' = Listed
      BY <1>1, <1>6, ListedKept DEF PagesTypeOK
    <3>. HIDE DEF all
    <3>. QED
      BY <1>2, <1>6, <3>1, <3>2, <3>3
  <2>6. PagesAreWhole'
    BY <1>1, <1>6 DEF PagesAreWhole
  <2>. QED
    BY <1>2, <1>6, <2>4, <2>5, <2>6 DEF PageInv
<1>. QED
  BY <1>4, <1>5, <1>6

LEMMA StopAtCapInv == ASSUME PageInv, StopAtCap PROVE PageInv'
<1>1. PagesTypeOK /\ ReadSoFar /\ at = "asking" /\ page > MaxPages /\ (~nwui.counts => total = 0)
  BY DEF PageInv, StopAtCap
<1>2. /\ at' = "done" /\ total' = total /\ UNCHANGED <<nwui, stable, strategy, page, limit>>
      /\ items' = (IF Strategies[strategy].windowed THEN items ELSE Recent(items))
      /\ truncated' = (IF total > 0 THEN Len(items) < total ELSE TRUE)
  BY Zenon DEF StopAtCap, Finish
<1>3. PagesTypeOK'
  <2>1. items \in Seq(Nat)
    BY <1>1 DEF PagesTypeOK
  <2>2. Recent(items) \in Seq(Nat)
    BY <2>1, SelectType DEF Recent
  <2>3. items' \in Seq(Nat)
    BY <1>2, <2>1, <2>2, Zenon
  <2>4. truncated' \in BOOLEAN
    <3>1. (Len(items) < total) \in BOOLEAN /\ TRUE \in BOOLEAN
      OBVIOUS
    <3>. QED
      BY <1>2, <3>1, Zenon
  <2>. QED
    BY <1>1, <1>2, <2>3, <2>4 DEF PagesTypeOK
<1>4. PagesAreWhole'
  <2>. SUFFICES ASSUME stable', PagesFit'
                PROVE  /\ ~truncated' => items' = Recent(nwui.list)'
                       /\ truncated' => Len(Listed') >= MaxPages * Smaller(limit, nwui.largest)
    BY <1>2 DEF PagesAreWhole, PagesFit
  <2>1. stable /\ PagesFit
    BY <1>2 DEF PagesFit
  <2>2. page - 1 = MaxPages /\ page > 1
    BY <1>1, PagesAssumption DEF PagesAssumption, PagesTypeOK
  <2>3. /\ (page - 1) * limit <= Len(Listed) /\ items = SubSeq(Listed, 1, (page - 1) * limit)
        /\ limit <= nwui.largest /\ total \in {0, Len(Listed)}
    BY <1>1, <2>1, <2>2 DEF ReadSoFar
  <2>4. Smaller(limit, nwui.largest) = limit
    BY <1>1, <2>3 DEF Smaller, PagesTypeOK
  <2>5. Listed' = Listed /\ Recent(nwui.list)' = Recent(nwui.list)
    BY <1>2, ListedKept
  <2>6. MaxPages * Smaller(limit, nwui.largest) <= Len(Listed)
    BY <2>2, <2>3, <2>4
  <2>7. Listed \in Seq(Nat) /\ Len(Listed) \in Nat
    BY <1>1, ListedType
  <2>8. Len(Listed') >= MaxPages * Smaller(limit, nwui.largest)
    <3>1. MaxPages * limit \in Nat
      BY <1>1, PagesAssumption, Times DEF PagesAssumption, PagesTypeOK
    <3>. QED
      BY <2>4, <2>5, <2>6, <2>7, <3>1
  <2>9. ~truncated' => items' = Recent(nwui.list)'
    <3>. SUFFICES ASSUME ~truncated' PROVE items' = Recent(nwui.list)
      BY <2>5
    <3>1. total > 0 /\ ~(Len(items) < total)
      BY <1>2
    <3>2. Len(items) = (page - 1) * limit /\ (page - 1) * limit \in Nat
      BY <1>1, <2>1, PageFollows
    <3>3. (page - 1) * limit = Len(Listed)
      BY <2>3, <2>7, <3>1, <3>2
    <3>4. items = Listed
      BY <2>3, <2>7, <3>3, SubSeqFull
    <3>. QED
      BY <1>2, <3>4, Zenon DEF Listed
  <2>. QED
    BY <2>8, <2>9
<1>. QED
  BY <1>1, <1>2, <1>3, <1>4 DEF PageInv, ReadSoFar

\* The loop starts: from the first page with nothing read.
LEMMA LoopStarts == PagesTypeOK /\ page = 1 /\ items = <<>> /\ total = 0 => ReadSoFar
<1>. SUFFICES ASSUME PagesTypeOK, page = 1, items = <<>>, total = 0 PROVE ReadSoFar
  OBVIOUS
<1>1. limit \in Nat /\ Listed \in Seq(Nat) /\ Len(Listed) \in Nat
  BY ListedType DEF PagesTypeOK
<1>2. (page - 1) * limit = 0
  <2>1. page - 1 = 0
    OBVIOUS
  <2>. QED
    BY <1>1, <2>1, Times
<1>3. SubSeq(Listed, 1, 0) = <<>>
  BY SubSeqEmpty
<1>. QED
  BY <1>1, <1>2, <1>3 DEF ReadSoFar

LEMMA PageRefusedInv == ASSUME PageInv, PageRefused PROVE PageInv'
<1>1. PagesTypeOK /\ at = "asking" /\ (~nwui.counts => total = 0) /\ UNCHANGED <<nwui, truncated>>
  BY DEF PageInv, PageRefused
<1>2. CASE /\ strategy < Len(Strategies)
           /\ strategy' = strategy + 1 /\ limit' = Strategies[strategy + 1].size
           /\ page' = 1 /\ items' = <<>> /\ total' = 0 /\ stable' = TRUE
           /\ UNCHANGED at
  <2>1. strategy + 1 \in 1 .. Len(Strategies)
    BY <1>1, <1>2, PagesAssumption DEF PagesAssumption, PagesTypeOK
  <2>2. limit' \in Nat \ {0}
    BY <1>2, <2>1, StrategyType
  <2>3. items' \in Seq(Nat) /\ page' \in 1 .. MaxPages + 1 /\ total' \in Nat
    BY <1>2, PagesAssumption DEF PagesAssumption
  <2>4. PagesTypeOK'
    BY <1>1, <1>2, <2>1, <2>2, <2>3 DEF PagesTypeOK
  <2>5. ReadSoFar'
    <3>1. (PagesTypeOK /\ page = 1 /\ items = <<>> /\ total = 0)'
      BY <1>2, <2>4
    <3>. QED
      BY <3>1, LoopStarts, PTL
  <2>6. PagesAreWhole'
    BY <1>1, <1>2 DEF PagesAreWhole
  <2>. QED
    BY <1>2, <2>4, <2>5, <2>6 DEF PageInv
<1>3. CASE at' = "failed" /\ UNCHANGED <<loopVars, stable>>
  <2>1. PagesTypeOK'
    BY <1>1, <1>3 DEF PagesTypeOK, loopVars
  <2>2. ReadSoFar' /\ PagesAreWhole'
    BY <1>3 DEF ReadSoFar, PagesAreWhole
  <2>. QED
    BY <1>1, <1>3, <2>1, <2>2 DEF PageInv, loopVars
<1>. QED
  BY <1>2, <1>3 DEF PageRefused

LEMMA ItemLeavesInv == ASSUME PageInv, ItemLeaves PROVE PageInv'
<1>1. PagesTypeOK /\ at = "asking" /\ (~nwui.counts => total = 0)
      /\ stable' = FALSE /\ UNCHANGED <<at, loopVars, truncated>>
  BY DEF PageInv, ItemLeaves
<1>2. PICK i \in 1 .. Len(nwui.list) :
         nwui' = [nwui EXCEPT !.list = SubSeq(nwui.list, 1, i - 1) \o SubSeq(nwui.list, i + 1, Len(nwui.list))]
  BY DEF ItemLeaves
<1>3. nwui.list \in Seq(Nat) /\ Len(nwui.list) \in Nat
  BY <1>1 DEF PagesTypeOK
<1>4. SubSeq(nwui.list, 1, i - 1) \in Seq(Nat) /\ SubSeq(nwui.list, i + 1, Len(nwui.list)) \in Seq(Nat)
  <2>1. (\A k \in 1 .. i - 1 : nwui.list[k] \in Nat) /\ (\A k \in i + 1 .. Len(nwui.list) : nwui.list[k] \in Nat)
    BY <1>3
  <2>. QED
    BY <1>3, <2>1, SubSeqProperties
<1>5. SubSeq(nwui.list, 1, i - 1) \o SubSeq(nwui.list, i + 1, Len(nwui.list)) \in Seq(Nat)
  BY <1>4, ConcatProperties
<1>6. PagesTypeOK' /\ nwui'.counts = nwui.counts
  BY <1>1, <1>2, <1>5 DEF PagesTypeOK, loopVars
<1>. QED
  BY <1>1, <1>6 DEF PageInv, ReadSoFar, PagesAreWhole, loopVars

LEMMA PagesInitInv == PagesInit => PageInv
<1>. SUFFICES ASSUME PagesInit PROVE PageInv
  OBVIOUS
<1>1. nwui \in [list : Seq(Nat), recent : Nat, largest : Nat \ {0}, counts : BOOLEAN, clamps : BOOLEAN]
  <2>1. PICK n \in 0 .. MaxItems, r \in 0 .. MaxItems, c \in 1 .. MaxItems, k \in BOOLEAN, s \in BOOLEAN :
           nwui = [list |-> [i \in 1 .. n |-> i], recent |-> r, largest |-> c, counts |-> k, clamps |-> s]
    BY SMTT(30) DEF PagesInit
  <2>2. n \in Nat /\ r \in Nat /\ c \in Nat \ {0}
    BY PagesAssumption DEF PagesAssumption
  <2>3. [i \in 1 .. n |-> i] \in Seq(Nat)
    <3>1. \A i \in 1 .. n : i \in Nat
      BY <2>2
    <3>. QED
      BY <2>2, <3>1, IsASeq
  <2>. HIDE DEF PagesInit
  <2>. QED
    BY <2>1, <2>2, <2>3
<1>2. /\ stable = TRUE /\ at = "asking" /\ strategy = 1 /\ page = 1 /\ limit = Strategies[1].size
      /\ items = <<>> /\ total = 0 /\ truncated = FALSE
  BY Zenon DEF PagesInit
<1>3. 1 \in 1 .. Len(Strategies) /\ 1 \in 1 .. MaxPages + 1
  BY PagesAssumption DEF PagesAssumption
<1>4. limit \in Nat \ {0} /\ items \in Seq(Nat)
  BY <1>2, <1>3, StrategyType
<1>5. PagesTypeOK
  BY <1>1, <1>2, <1>3, <1>4 DEF PagesTypeOK
<1>. QED
  BY <1>2, <1>5, LoopStarts DEF PageInv, PagesAreWhole

LEMMA PagesStepInv == PageInv /\ [PagesNext]_pageVars => PageInv'
<1>. SUFFICES ASSUME PageInv, [PagesNext]_pageVars PROVE PageInv'
  OBVIOUS
<1>1. CASE UNCHANGED pageVars
  <2>1. Listed' = Listed /\ Recent(nwui.list)' = Recent(nwui.list)
    BY <1>1, ListedKept DEF pageVars
  <2>. QED
    BY <1>1, <2>1 DEF pageVars, PageInv, PagesTypeOK, ReadSoFar, PagesFit, PagesAreWhole
<1>. QED
  BY <1>1, ItemLeavesInv, ReadPageInv, StopAtCapInv, PageRefusedInv DEF PagesNext

\* A monitoring list that holds still is read whole, whatever the length of the
\* list, NWUI's page size and the strategies, or the caller is told and the
\* list was longer than the pages that are read.
THEOREM PagesAreWholeHolds == PagesSpec => []PagesAreWhole
<1>1. PageInv => PagesAreWhole
  BY DEF PageInv
<1>. QED
  BY <1>1, PagesInitInv, PagesStepInv, PTL DEF PagesSpec
=============================================================================
