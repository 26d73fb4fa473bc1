-------------------------- MODULE ConnectionsProofs --------------------------
(***************************************************************************)
(* Proofs about dashboard sessions and about the passwords the dashboard   *)
(* keeps.  For any workers, session ids and report ranges: what a scheduled*)
(* report shows, which ranges a session can be left with, and what a       *)
(* deleted profile leaves behind.  For any profiles, connections and keys: *)
(* whatever the operator does with the key file, a password is used for its*)
(* own connection only and none is lost.  For any requests of the email    *)
(* window: a mail server gets the password that was typed for it, unless   *)
(* two requests set up one schedule at once.                               *)
(***************************************************************************)
EXTENDS DashboardSessions, StoredPasswords, SmtpPasswords, TLAPS

Jobs == [kind : Kinds \cup {"none"}, at : Places,
         id : Ids \cup {None}, object : 0 .. MaxObjects, range : Ranges]

-----------------------------------------------------------------------------
(* Types                                                                   *)

LEMMA NoJobType == NoJob \in Jobs
BY SessionsAssumption DEF SessionsAssumption, NoJob, Job, Jobs, Places

LEMMA SessionsInitType == SessionsInit => SessionsTypeOK
<1>. SUFFICES ASSUME SessionsInit PROVE SessionsTypeOK
  OBVIOUS
<1>. USE SessionsAssumption DEF SessionsAssumption, SessionsInit
<1>1. job \in [Workers -> Jobs]
  BY NoJobType
<1>2. registry \in [Ids -> 0 .. MaxObjects] /\ made \in 0 .. MaxObjects /\ range \in [Objects -> Ranges]
  OBVIOUS
<1>3. records \in Records /\ toRestore \in Records /\ saving \in [Workers -> Records \cup {None}]
  BY DEF Records
<1>4. chosen \in [Ids -> SUBSET Ranges] /\ lastChoice \in [Ids -> Ranges]
  OBVIOUS
<1>5. held \in BOOLEAN
  BY Zenon
<1>. QED
  BY <1>1, <1>2, <1>3, <1>4, <1>5 DEF SessionsTypeOK, Jobs

LEMMA SnapshotType ==
  ASSUME NEW live \in [Ids -> 0 .. MaxObjects], NEW ranges \in [Objects -> Ranges]
  PROVE  /\ Snapshot(live, ranges) \in Records
         /\ \A i \in Ids : \/ live[i] = 0 /\ Snapshot(live, ranges)[i] = None
                           \/ live[i] # 0 /\ Snapshot(live, ranges)[i] = ranges[live[i]]
BY SessionsAssumption DEF SessionsAssumption, Snapshot, Records, Objects

\* A new object is in the registry under its id only.
LEMMA NewObjectType ==
  ASSUME SessionsTypeOK, NEW i \in Ids, NEW r \in Ranges, NewObject(i, r)
  PROVE  /\ made' = made + 1 /\ made' \in 0 .. MaxObjects
         /\ registry' \in [Ids -> 0 .. MaxObjects] /\ range' \in [Objects -> Ranges]
         /\ registry'[i] = made' /\ \A j \in Ids : j # i => registry'[j] = registry[j]
         /\ made' \in Objects /\ range'[made'] = r
         /\ \A o \in Objects : o # made' => range'[o] = range[o]
<1>. USE SessionsAssumption DEF SessionsAssumption
<1>1. made \in Nat /\ made < MaxObjects /\ made' = made + 1 /\ made' \in 0 .. MaxObjects /\ made' \in Objects
  BY DEF SessionsTypeOK, NewObject, Objects
<1>2. /\ registry' \in [Ids -> 0 .. MaxObjects] /\ registry'[i] = made'
      /\ \A j \in Ids : j # i => registry'[j] = registry[j]
  BY <1>1 DEF SessionsTypeOK, NewObject
<1>3. /\ range' \in [Objects -> Ranges] /\ range'[made'] = r
      /\ \A o \in Objects : o # made' => range'[o] = range[o]
  BY <1>1 DEF SessionsTypeOK, NewObject
<1>. QED
  BY <1>1, <1>2, <1>3

\* A worker takes up a job.
LEMMA JobBegins ==
  ASSUME SessionsTypeOK, NEW w \in Workers, NEW new \in Jobs, job' = [job EXCEPT ![w] = new]
  PROVE  /\ job' \in [Workers -> Jobs]
         /\ job'[w] = new
         /\ \A v \in Workers : v # w => job'[v] = job[v]
BY DEF SessionsTypeOK, Jobs

LEMMA JobType ==
  ASSUME NEW kind \in Kinds, NEW at \in {"build", "restore", "recreate", "save"}, NEW i \in Ids \cup {None},
         NEW o \in 0 .. MaxObjects, NEW r \in Ranges
  PROVE  Job(kind, at, i, o, r) \in Jobs
BY DEF Job, Jobs, Places

\* Another login attempt or the answer of a build changes no more than where it is.
LEMMA BuildMoves ==
  ASSUME SessionsTypeOK, NEW w \in Workers, NEW at \in {"again", "retry", "gap", "fresh", "stale"},
         job' = [job EXCEPT ![w].at = at]
  PROVE  /\ job' \in [Workers -> Jobs]
         /\ \A v \in Workers : /\ job'[v].kind = job[v].kind /\ job'[v].id = job[v].id
                               /\ job'[v].object = job[v].object /\ job'[v].range = job[v].range
<1>. DEFINE new == [job[w] EXCEPT !.at = at]
<1>1. job \in [Workers -> Jobs] /\ job[w] \in Jobs
  BY DEF SessionsTypeOK, Jobs
<1>2. new \in Jobs /\ new.kind = job[w].kind /\ new.id = job[w].id
      /\ new.object = job[w].object /\ new.range = job[w].range
  BY <1>1 DEF Jobs, Places
<1>3. job' = [job EXCEPT ![w] = new]
  OBVIOUS
<1>. HIDE DEF new
<1>. QED
  BY <1>1, <1>2, <1>3

\* A job that ends leaves its worker idle and the others alone.
LEMMA JobEnds ==
  ASSUME SessionsTypeOK, NEW w \in Workers, job' = [job EXCEPT ![w] = NoJob]
  PROVE  /\ job' \in [Workers -> Jobs]
         /\ \A v \in Workers : job'[v] = NoJob \/ job'[v] = job[v]
<1>1. job \in [Workers -> Jobs]
  BY DEF SessionsTypeOK, Jobs
<1>. QED
  BY <1>1, NoJobType

\* A build writes its range to the object it began with, or leaves it.
LEMMA RangeWritten ==
  ASSUME SessionsTypeOK, NEW o \in 0 .. MaxObjects, NEW r \in Ranges,
         range' \in {range, [range EXCEPT ![o] = r]}
  PROVE  /\ range' \in [Objects -> Ranges]
         /\ \A q \in Objects : range'[q] = range[q] \/ (q = o /\ range'[q] = r)
BY DEF SessionsTypeOK

-----------------------------------------------------------------------------
(* The inductive invariant                                                 *)

\* A session object has one id, the one its builds have too.
ObjectsHaveOneId ==
    /\ \A i \in Ids : registry[i] <= made
    /\ \A i, j \in Ids : Live(i) /\ registry[i] = registry[j] => i = j
    /\ \A w \in Workers : /\ job[w].object <= made
                          /\ job[w].kind \notin {"none", "purge"} => job[w].id \in Ids
                          /\ \A j \in Ids : job[w].object # 0 /\ registry[j] = job[w].object => j = job[w].id

\* Every range that may reach a session was chosen for it: those of its
\* records, of the snapshots about to be written, of the logins that restore it
\* and of the builds that write back.
RangesComeFromChoices ==
    /\ RangesWereChosen
    /\ \A i \in Ids : records[i] # None => records[i] \in chosen[i]
    /\ \A i \in Ids : toRestore[i] # None => toRestore[i] \in chosen[i]
    /\ \A w \in Workers, i \in Ids : saving[w] # None /\ saving[w][i] # None => saving[w][i] \in chosen[i]
    /\ \A w \in Workers : job[w].kind \in {"view", "health", "login"} =>
           job[w].id \in Ids /\ job[w].range \in chosen[job[w].id]

\* After a deletion that raced with nothing, nothing is left to bring the
\* credential back: no session, no login and no snapshot of one; and once it has
\* saved, no record.
NothingLeft ==
    ~held =>
        /\ purged \in {"begun", "clean"} =>
               /\ \A i \in Ids : ~Live(i) /\ toRestore[i] = None
               /\ \A w \in Workers, i \in Ids : saving[w] # None => saving[w][i] = None
               /\ \A w \in Workers : job[w].kind # "login"
        /\ purged = "clean" => \A i \in Ids : records[i] = None

SessionsInv ==
    /\ SessionsTypeOK /\ ObjectsHaveOneId /\ RangesComeFromChoices /\ NothingLeft
    /\ ReportsCoverTheirRange

LEMMA SessionsInitInv == SessionsInit => SessionsInv
<1>. SUFFICES ASSUME SessionsInit PROVE SessionsInv
  OBVIOUS
<1>1. SessionsTypeOK
  BY SessionsInitType
<1>. QED
  BY <1>1, SessionsAssumption DEF SessionsAssumption, SessionsInit, SessionsInv, ObjectsHaveOneId,
     RangesComeFromChoices, RangesWereChosen, NothingLeft, ReportsCoverTheirRange, Live, NoJob, Job

-----------------------------------------------------------------------------
(* How sessions come and go                                                *)

\* A thread that takes its snapshot leaves the others theirs; it holds ranges
\* of the live sessions.
LEMMA Saved ==
  ASSUME SessionsTypeOK, NEW w \in Workers, NEW live \in [Ids -> 0 .. MaxObjects],
         NEW ranges \in [Objects -> Ranges], NEW ch \in [Ids -> SUBSET Ranges],
         Save(w, live, ranges) \/ saving' = saving,
         \A i \in Ids : live[i] # 0 => ranges[live[i]] \in ch[i],
         \A v \in Workers, i \in Ids : saving[v] # None /\ saving[v][i] # None => saving[v][i] \in ch[i]
  PROVE  /\ saving' \in [Workers -> Records \cup {None}]
         /\ \A v \in Workers, i \in Ids : saving'[v] # None /\ saving'[v][i] # None => saving'[v][i] \in ch[i]
         /\ /\ \A i \in Ids : live[i] = 0
            /\ \A v \in Workers, i \in Ids : saving[v] # None => saving[v][i] = None
            => \A v \in Workers, i \in Ids : saving'[v] # None => saving'[v][i] = None
<1>1. saving \in [Workers -> Records \cup {None}]
  BY DEF SessionsTypeOK
<1>2. CASE saving' = saving
  BY <1>1, <1>2
<1>3. CASE Save(w, live, ranges)
  <2>. DEFINE s == Snapshot(live, ranges)
  <2>1. s \in Records /\ \A i \in Ids : (live[i] = 0 /\ s[i] = None) \/ (live[i] # 0 /\ s[i] = ranges[live[i]])
    BY SnapshotType
  <2>2. saving' = [saving EXCEPT ![w] = s]
    BY <1>3 DEF Save
  <2>. HIDE DEF s
  <2>. QED
    BY <1>1, <2>1, <2>2
<1>. QED
  BY <1>2, <1>3

LEMMA ConnectInv ==
  ASSUME SessionsInv, NEW w \in Workers, NEW i \in Ids, NEW r \in Ranges, Connect(w, i, r)
  PROVE  SessionsInv'
<1>. USE SessionsAssumption DEF SessionsAssumption, SessionsInv
<1>1. NewObject(i, r)
  BY DEF Connect
<1>2. chosen' \in [Ids -> SUBSET Ranges] /\ lastChoice' \in [Ids -> Ranges]
  BY DEF Connect, SessionsTypeOK
<1>3. \A j \in Ids : registry[j] \in 0 .. MaxObjects /\ registry[j] # made' /\ registry[j] <= made'
  BY <1>1, NewObjectType DEF ObjectsHaveOneId, SessionsTypeOK
<1>4. \A v \in Workers : job[v].object # made' /\ job[v].object <= made'
  BY <1>1, NewObjectType DEF ObjectsHaveOneId, SessionsTypeOK
<1>5. ObjectsHaveOneId'
  BY <1>1, <1>3, <1>4, NewObjectType DEF Connect, ObjectsHaveOneId, Live, SessionsTypeOK
<1>6. chosen'[i] = {r} /\ chosen[i] = {} /\ \A j \in Ids : j # i => chosen'[j] = chosen[j]
  BY DEF Connect, SessionsTypeOK
<1>7. \A j \in Ids : registry'[j] # 0 => range'[registry'[j]] \in chosen'[j]
  <2>. SUFFICES ASSUME NEW j \in Ids, registry'[j] # 0 PROVE range'[registry'[j]] \in chosen'[j]
    OBVIOUS
  <2>1. CASE j = i
    BY <1>1, <1>6, <2>1, NewObjectType
  <2>2. CASE j # i
    <3>1. registry'[j] = registry[j] /\ registry[j] \in Objects
      BY <1>1, <1>3, <2>2, NewObjectType DEF Objects
    <3>2. range'[registry[j]] = range[registry[j]]
      BY <1>1, <1>3, <3>1, NewObjectType
    <3>. QED
      BY <1>6, <2>2, <3>1, <3>2 DEF RangesComeFromChoices, RangesWereChosen, Live
  <2>. QED
    BY <2>1, <2>2
<1>8. /\ saving' \in [Workers -> Records \cup {None}]
      /\ \A v \in Workers, j \in Ids : saving'[v] # None /\ saving'[v][j] # None => saving'[v][j] \in chosen'[j]
  <2>1. registry' \in [Ids -> 0 .. MaxObjects] /\ range' \in [Objects -> Ranges]
    BY <1>1, NewObjectType
  <2>2. \A v \in Workers, j \in Ids : saving[v] # None /\ saving[v][j] # None => saving[v][j] \in chosen'[j]
    BY <1>6 DEF RangesComeFromChoices
  <2>3. Save(w, registry', range')
    BY DEF Connect
  <2>. QED
    BY <1>2, <1>7, <2>1, <2>2, <2>3, Saved
<1>9. SessionsTypeOK'
  BY <1>1, <1>2, <1>8, NewObjectType DEF Connect, SessionsTypeOK
<1>10. RangesComeFromChoices'
  BY <1>6, <1>7, <1>8 DEF Connect, RangesComeFromChoices, RangesWereChosen, Live
<1>11. NothingLeft' /\ ReportsCoverTheirRange'
  BY DEF Connect, NothingLeft, ReportsCoverTheirRange
<1>. QED
  BY <1>5, <1>9, <1>10, <1>11

\* Sessions leave the registry: expired, purged or with the process.
LEMMA SessionsLeave ==
  ASSUME SessionsInv, registry' \in [Ids -> 0 .. MaxObjects],
         \A i \in Ids : registry'[i] \in {0, registry[i]},
         saving' \in [Workers -> Records \cup {None}],
         \A v \in Workers, i \in Ids : saving'[v] # None /\ saving'[v][i] # None => saving'[v][i] \in chosen[i],
         toRestore' \in {toRestore, records},
         job' \in [Workers -> Jobs],
         \A v \in Workers : job'[v] = job[v] \/ (job'[v].object = 0 /\ job'[v].kind \in {"none", "purge"}),
         NothingLeft', report' \in {None, report}, UNCHANGED <<made, range, records, cache, chosen, lastChoice>>,
         held' = held, purged' \in {"no", "begun", "racing", "clean", "excused"}
  PROVE  SessionsInv'
<1>. USE SessionsAssumption DEF SessionsAssumption, SessionsInv
<1>1. SessionsTypeOK'
  BY DEF SessionsTypeOK, Jobs
<1>2. ObjectsHaveOneId'
  BY DEF ObjectsHaveOneId, Live, SessionsTypeOK
<1>3. RangesComeFromChoices'
  BY DEF RangesComeFromChoices, RangesWereChosen, Live
<1>. QED
  BY <1>1, <1>2, <1>3 DEF ReportsCoverTheirRange

\* What a thread that saves takes when no session has come.
LEMMA LiveSaved ==
  ASSUME SessionsInv, NEW w \in Workers, NEW live \in [Ids -> 0 .. MaxObjects],
         \A i \in Ids : live[i] \in {0, registry[i]}, Save(w, live, range) \/ saving' = saving
  PROVE  /\ saving' \in [Workers -> Records \cup {None}]
         /\ \A v \in Workers, i \in Ids : saving'[v] # None /\ saving'[v][i] # None => saving'[v][i] \in chosen[i]
         /\ /\ \A i \in Ids : live[i] = 0
            /\ \A v \in Workers, i \in Ids : saving[v] # None => saving[v][i] = None
            => \A v \in Workers, i \in Ids : saving'[v] # None => saving'[v][i] = None
<1>1. \A i \in Ids : live[i] # 0 => range[live[i]] \in chosen[i]
  BY DEF SessionsInv, RangesComeFromChoices, RangesWereChosen, Live
<1>2. \A v \in Workers, i \in Ids : saving[v] # None /\ saving[v][i] # None => saving[v][i] \in chosen[i]
  BY DEF SessionsInv, RangesComeFromChoices
<1>3. range \in [Objects -> Ranges] /\ chosen \in [Ids -> SUBSET Ranges] /\ SessionsTypeOK
  BY DEF SessionsInv, SessionsTypeOK
<1>. QED
  BY <1>1, <1>2, <1>3, Saved

LEMMA ExpireInv ==
  ASSUME SessionsInv, NEW w \in Workers, NEW i \in Ids, Expire(w, i)
  PROVE  SessionsInv'
<1>1. registry' \in [Ids -> 0 .. MaxObjects] /\ \A j \in Ids : registry'[j] \in {0, registry[j]}
  BY SessionsAssumption DEF SessionsAssumption, Expire, SessionsInv, SessionsTypeOK
<1>2. Save(w, registry', range)
  BY DEF Expire
<1>3. /\ saving' \in [Workers -> Records \cup {None}]
      /\ \A v \in Workers, j \in Ids : saving'[v] # None /\ saving'[v][j] # None => saving'[v][j] \in chosen[j]
      /\ /\ \A j \in Ids : registry'[j] = 0
         /\ \A v \in Workers, j \in Ids : saving[v] # None => saving[v][j] = None
         => \A v \in Workers, j \in Ids : saving'[v] # None => saving'[v][j] = None
  BY <1>1, <1>2, LiveSaved
<1>4. NothingLeft'
  BY <1>1, <1>3 DEF Expire, ghosts, SessionsInv, NothingLeft, Live
<1>. QED
  BY <1>1, <1>3, <1>4, SessionsLeave DEF Expire, ghosts, SessionsInv, SessionsTypeOK, Jobs

LEMMA PurgeInv ==
  ASSUME SessionsInv, NEW w \in Workers, Purge(w)
  PROVE  SessionsInv'
<1>1. registry' \in [Ids -> 0 .. MaxObjects] /\ \A j \in Ids : registry'[j] = 0
  BY SessionsAssumption DEF SessionsAssumption, Purge
<1>2. Save(w, registry', range)
  BY DEF Purge
<1>3. /\ saving' \in [Workers -> Records \cup {None}]
      /\ \A v \in Workers, j \in Ids : saving'[v] # None /\ saving'[v][j] # None => saving'[v][j] \in chosen[j]
      /\ (\A v \in Workers, j \in Ids : saving[v] # None => saving[v][j] = None)
         => \A v \in Workers, j \in Ids : saving'[v] # None => saving'[v][j] = None
  BY <1>1, <1>2, LiveSaved
<1>. DEFINE new == Job("purge", "save", None, 0, DefaultRange)
<1>4. new \in Jobs /\ new.kind = "purge" /\ new.object = 0
  <2>1. new \in Jobs
    BY SessionsAssumption, JobType DEF SessionsAssumption, Kinds
  <2>. QED
    BY <2>1 DEF Job
<1>5. /\ job' \in [Workers -> Jobs] /\ job'[w] = new
      /\ \A v \in Workers : v # w => job'[v] = job[v]
  <2>1. SessionsTypeOK /\ job' = [job EXCEPT ![w] = new]
    BY DEF Purge, SessionsInv
  <2>. HIDE DEF new
  <2>. QED
    BY <1>4, <2>1, JobBegins
<1>. HIDE DEF new
<1>6. NothingLeft'
  <2>. SUFFICES ASSUME ~held', purged' \in {"begun", "clean"}
                PROVE  /\ purged' = "begun"
                       /\ \A j \in Ids : registry'[j] = 0 /\ toRestore'[j] = None
                       /\ \A v \in Workers, j \in Ids : saving'[v] # None => saving'[v][j] = None
                       /\ \A v \in Workers : job'[v].kind # "login"
    BY DEF NothingLeft, Live
  <2>1. purged' = "begun" /\ ~Raced
    BY DEF Purge
  <2>. QED
    BY <1>1, <1>3, <1>4, <1>5, <2>1 DEF Purge, Raced, LoginUnderWay
<1>7. purged' \in {"begun", "racing"}
  BY DEF Purge
<1>. QED
  BY <1>1, <1>3, <1>4, <1>5, <1>6, <1>7, SessionsLeave DEF Purge

LEMMA SessionsRestartInv ==
  ASSUME SessionsInv, SessionsRestart
  PROVE  SessionsInv'
<1>1. registry' \in [Ids -> 0 .. MaxObjects] /\ \A j \in Ids : registry'[j] = 0
  BY SessionsAssumption DEF SessionsAssumption, SessionsRestart
<1>2. job' = [w \in Workers |-> NoJob] /\ saving' = [w \in Workers |-> None]
  BY DEF SessionsRestart
<1>3. job' \in [Workers -> Jobs] /\ \A v \in Workers : job'[v].kind = "none" /\ job'[v].object = 0
  BY <1>2, NoJobType DEF NoJob, Job
<1>4. saving' \in [Workers -> Records \cup {None}] /\ \A v \in Workers : saving'[v] = None
  BY <1>2
<1>5. purged' \in {"no", "begun", "racing", "clean", "excused"} /\ (purged' \in {"begun", "clean"} => purged = "clean" /\ purged' = "clean")
  BY DEF SessionsRestart, SessionsInv, SessionsTypeOK
<1>6. NothingLeft'
  BY <1>1, <1>3, <1>4, <1>5 DEF SessionsRestart, NothingLeft, SessionsInv, Live
<1>. QED
  BY <1>1, <1>3, <1>4, <1>5, <1>6, SessionsLeave DEF SessionsRestart

\* A snapshot is written, or its write fails.
LEMMA EndSaveInv ==
  ASSUME SessionsInv, NEW w \in Workers, EndSave(w)
  PROVE  SessionsInv'
<1>. USE SessionsAssumption DEF SessionsAssumption, SessionsInv
<1>1. saving[w] # None /\ saving[w] \in Records
  BY DEF EndSave, SessionsTypeOK
<1>2. records' \in {records, saving[w]}
  BY DEF EndSave
<1>3. records' \in Records /\ \A i \in Ids : records'[i] # None => records'[i] \in chosen[i]
  BY <1>1, <1>2 DEF SessionsTypeOK, RangesComeFromChoices
<1>4. saving' \in [Workers -> Records \cup {None}] /\ \A v \in Workers : saving'[v] \in {None, saving[v]}
  BY DEF EndSave, SessionsTypeOK
<1>5. job' \in [Workers -> Jobs] /\ \A v \in Workers : job'[v] = NoJob \/ job'[v] = job[v]
  <2>1. job' = [job EXCEPT ![w] = NoJob] \/ job' = job
    BY DEF EndSave
  <2>2. CASE job' = [job EXCEPT ![w] = NoJob]
    BY <2>2, JobEnds
  <2>3. CASE job' = job
    BY <2>3 DEF SessionsTypeOK, Jobs
  <2>. QED
    BY <2>1, <2>2, <2>3
<1>6. NoJob.object = 0 /\ NoJob.kind = "none"
  BY DEF NoJob, Job
<1>7. /\ purged' \in {"no", "begun", "racing", "clean", "excused"}
      /\ purged' = "begun" => purged = "begun"
      /\ purged' = "clean" => purged = "clean" \/ (purged = "begun" /\ records' = saving[w])
  BY DEF EndSave, Settled, SessionsTypeOK
<1>8. SessionsTypeOK'
  BY <1>3, <1>4, <1>5, <1>7 DEF EndSave, SessionsTypeOK, Jobs
<1>9. ObjectsHaveOneId'
  BY <1>5, <1>6 DEF EndSave, ObjectsHaveOneId, Live, SessionsTypeOK
<1>10. RangesComeFromChoices'
  BY <1>3, <1>4, <1>5, <1>6 DEF EndSave, RangesComeFromChoices, RangesWereChosen, Live
<1>11. NothingLeft'
  <2>. SUFFICES ASSUME ~held, purged' \in {"begun", "clean"}
                PROVE  /\ \A i \in Ids : registry'[i] = 0 /\ toRestore'[i] = None
                       /\ \A v \in Workers, i \in Ids : saving'[v] # None => saving'[v][i] = None
                       /\ \A v \in Workers : job'[v].kind # "login"
                       /\ purged' = "clean" => \A i \in Ids : records'[i] = None
    BY DEF EndSave, NothingLeft, Live
  <2>1. /\ purged \in {"begun", "clean"}
        /\ \A i \in Ids : registry[i] = 0 /\ toRestore[i] = None
        /\ \A v \in Workers, i \in Ids : saving[v] # None => saving[v][i] = None
        /\ \A v \in Workers : job[v].kind # "login"
        /\ purged = "clean" => \A i \in Ids : records[i] = None
    BY <1>7 DEF NothingLeft, Live
  <2>2. purged' = "clean" => \A i \in Ids : records'[i] = None
    BY <1>1, <1>2, <1>7, <2>1
  <2>. QED
    BY <1>4, <1>5, <1>6, <2>1, <2>2 DEF EndSave
<1>. QED
  BY <1>8, <1>9, <1>10, <1>11 DEF EndSave, ReportsCoverTheirRange

LEMMA BeginLoginInv ==
  ASSUME SessionsInv, NEW w \in Workers, NEW i \in Ids, BeginLogin(w, i)
  PROVE  SessionsInv'
<1>. USE SessionsAssumption DEF SessionsAssumption, SessionsInv
<1>1. PICK r \in Ranges, for \in {"restore", "recreate"} :
          /\ \/ for = "restore" /\ toRestore[i] = r /\ toRestore' = [toRestore EXCEPT ![i] = None]
             \/ for = "recreate" /\ held /\ ~Live(i) /\ r \in chosen[i] /\ UNCHANGED toRestore
          /\ job' = [job EXCEPT ![w] = Job("login", for, i, 0, r)]
  BY DEF BeginLogin
<1>2. Job("login", for, i, 0, r) \in Jobs
  BY JobType DEF Kinds
<1>3. /\ job' \in [Workers -> Jobs] /\ job'[w] = Job("login", for, i, 0, r)
      /\ \A v \in Workers : v # w => job'[v] = job[v]
  BY <1>1, <1>2, JobBegins
<1>4. toRestore' \in Records /\ \A j \in Ids : toRestore'[j] \in {None, toRestore[j]}
  BY <1>1 DEF SessionsTypeOK, Records
<1>5. r \in chosen[i]
  BY <1>1 DEF RangesComeFromChoices
<1>6. SessionsTypeOK'
  BY <1>3, <1>4 DEF BeginLogin, ghosts, SessionsTypeOK, Jobs
<1>7. ObjectsHaveOneId'
  BY <1>3 DEF BeginLogin, ghosts, ObjectsHaveOneId, Live, Job, SessionsTypeOK
<1>8. RangesComeFromChoices'
  BY <1>3, <1>4, <1>5 DEF BeginLogin, ghosts, RangesComeFromChoices, RangesWereChosen, Live, Job
<1>9. NothingLeft'
  <2>1. ~(purged = "clean" /\ ~held)
    BY <1>1 DEF NothingLeft
  <2>. QED
    BY <2>1 DEF BeginLogin, ghosts, NothingLeft
<1>. QED
  BY <1>6, <1>7, <1>8, <1>9 DEF BeginLogin, ghosts, ReportsCoverTheirRange

LEMMA EndLoginInv ==
  ASSUME SessionsInv, NEW w \in Workers, EndLogin(w)
  PROVE  SessionsInv'
<1>. USE SessionsAssumption DEF SessionsAssumption, SessionsInv
<1>1. job' \in [Workers -> Jobs] /\ \A v \in Workers : job'[v] = NoJob \/ job'[v] = job[v]
  BY JobEnds DEF EndLogin
<1>2. NoJob.object = 0 /\ NoJob.kind = "none"
  BY DEF NoJob, Job
<1>3. CASE UNCHANGED <<registry, made, range, saving>>
  <2>1. SessionsTypeOK'
    BY <1>1, <1>3 DEF EndLogin, ghosts, SessionsTypeOK, Jobs
  <2>2. ObjectsHaveOneId'
    BY <1>1, <1>2, <1>3 DEF EndLogin, ObjectsHaveOneId, Live, SessionsTypeOK
  <2>3. RangesComeFromChoices'
    BY <1>1, <1>2, <1>3 DEF EndLogin, ghosts, RangesComeFromChoices, RangesWereChosen, Live
  <2>4. NothingLeft'
    BY <1>1, <1>2, <1>3 DEF EndLogin, ghosts, NothingLeft, Live
  <2>. QED
    BY <2>1, <2>2, <2>3, <2>4 DEF EndLogin, ghosts, ReportsCoverTheirRange
<1>4. CASE /\ NewObject(job[w].id, job[w].range)
           /\ IF job[w].at = "restore" THEN UNCHANGED saving ELSE Save(w, registry', range')
  <2>. DEFINE i == job[w].id
              r == job[w].range
  <2>1. i \in Ids /\ r \in Ranges /\ r \in chosen[i]
    BY DEF EndLogin, RangesComeFromChoices, SessionsTypeOK
  <2>. HIDE DEF i, r
  <2>2. NewObject(i, r)
    BY <1>4 DEF i, r
  <2>4. \A j \in Ids : registry[j] \in 0 .. MaxObjects /\ registry[j] # made' /\ registry[j] <= made'
    BY <2>1, <2>2, NewObjectType DEF ObjectsHaveOneId, SessionsTypeOK
  <2>5. \A v \in Workers : job[v].object # made' /\ job[v].object <= made'
    BY <2>1, <2>2, NewObjectType DEF ObjectsHaveOneId, SessionsTypeOK
  <2>6. ObjectsHaveOneId'
    <3>1. \A j \in Ids : registry'[j] <= made'
      BY <2>1, <2>2, <2>4, NewObjectType DEF SessionsTypeOK
    <3>2. \A j, k \in Ids : registry'[j] # 0 /\ registry'[j] = registry'[k] => j = k
      BY <2>1, <2>2, <2>4, NewObjectType DEF ObjectsHaveOneId, Live
    <3>3. \A v \in Workers : /\ job'[v].object <= made'
                             /\ job'[v].kind \notin {"none", "purge"} => job'[v].id \in Ids
                             /\ \A j \in Ids : job'[v].object # 0 /\ registry'[j] = job'[v].object => j = job'[v].id
      BY <1>1, <1>2, <2>1, <2>2, <2>5, NewObjectType DEF ObjectsHaveOneId, SessionsTypeOK
    <3>. QED
      BY <3>1, <3>2, <3>3 DEF ObjectsHaveOneId, Live, NoJob, Job
  <2>7. \A j \in Ids : registry'[j] # 0 => range'[registry'[j]] \in chosen[j]
    <3>. SUFFICES ASSUME NEW j \in Ids, registry'[j] # 0 PROVE range'[registry'[j]] \in chosen[j]
      OBVIOUS
    <3>1. CASE j = i
      BY <2>1, <2>2, <3>1, NewObjectType
    <3>2. CASE j # i
      <4>1. registry'[j] = registry[j] /\ registry[j] \in Objects
        BY <2>1, <2>2, <2>4, <3>2, NewObjectType DEF Objects
      <4>2. range'[registry[j]] = range[registry[j]]
        BY <2>1, <2>2, <2>4, <4>1, NewObjectType
      <4>. QED
        BY <4>1, <4>2 DEF RangesComeFromChoices, RangesWereChosen, Live
    <3>. QED
      BY <3>1, <3>2
  <2>8. /\ saving' \in [Workers -> Records \cup {None}]
        /\ \A v \in Workers, j \in Ids : saving'[v] # None /\ saving'[v][j] # None => saving'[v][j] \in chosen[j]
    <3>1. registry' \in [Ids -> 0 .. MaxObjects] /\ range' \in [Objects -> Ranges]
      BY <2>1, <2>2, NewObjectType
    <3>2. chosen \in [Ids -> SUBSET Ranges]
      BY DEF SessionsTypeOK
    <3>3. \A v \in Workers, j \in Ids : saving[v] # None /\ saving[v][j] # None => saving[v][j] \in chosen[j]
      BY DEF RangesComeFromChoices
    <3>4. Save(w, registry', range') \/ saving' = saving
      BY <1>4
    <3>. QED
      BY <2>7, <3>1, <3>2, <3>3, <3>4, Saved
  <2>9. SessionsTypeOK'
    BY <1>1, <2>1, <2>2, <2>8, NewObjectType DEF EndLogin, ghosts, SessionsTypeOK, Jobs
  <2>10. RangesComeFromChoices'
    BY <1>1, <1>2, <2>7, <2>8 DEF EndLogin, ghosts, RangesComeFromChoices, RangesWereChosen, Live
  <2>11. NothingLeft'
    BY DEF EndLogin, ghosts, NothingLeft
  <2>. QED
    BY <2>6, <2>9, <2>10, <2>11 DEF EndLogin, ghosts, ReportsCoverTheirRange
<1>. QED
  BY <1>3, <1>4 DEF EndLogin

LEMMA HoldInv ==
  ASSUME SessionsInv, NEW i \in Ids, Hold(i)
  PROVE  SessionsInv'
BY DEF Hold, ghosts, SessionsInv, SessionsTypeOK, ObjectsHaveOneId, RangesComeFromChoices, RangesWereChosen,
   NothingLeft, ReportsCoverTheirRange, Live

-----------------------------------------------------------------------------
(* Builds                                                                  *)

\* A build begins with the session's object and a range chosen for it; only a
\* report may have any other.
LEMMA BuildBegins ==
  ASSUME SessionsInv, NEW w \in Workers, NEW kind \in Kinds \ {"login", "purge"}, NEW i \in Ids, NEW r \in Ranges,
         Live(i), Start(w, kind, i, r),
         chosen' \in {chosen, [chosen EXCEPT ![i] = @ \cup {r}]}, kind = "report" \/ r \in chosen'[i],
         range' = range \/ (range' = [range EXCEPT ![registry[i]] = r] /\ r \in chosen'[i]),
         lastChoice' \in [Ids -> Ranges],
         UNCHANGED <<registry, made, records, saving, toRestore, held, cache, report, purged>>
  PROVE  SessionsInv'
<1>. USE SessionsAssumption DEF SessionsAssumption, SessionsInv
<1>. DEFINE new == Job(kind, "build", i, registry[i], r)
<1>1. registry[i] \in 0 .. MaxObjects /\ registry[i] # 0
  BY DEF SessionsTypeOK, Live
<1>2. new \in Jobs
  BY <1>1, JobType
<1>3. /\ job' \in [Workers -> Jobs] /\ job'[w] = new
      /\ \A v \in Workers : v # w => job'[v] = job[v]
  BY <1>2, JobBegins DEF Start
<1>4. new.kind = kind /\ new.id = i /\ new.object = registry[i] /\ new.range = r
  BY DEF Job
<1>. HIDE DEF new
<1>5. /\ chosen' \in [Ids -> SUBSET Ranges] /\ \A j \in Ids : chosen[j] \subseteq chosen'[j]
      /\ kind # "report" => r \in chosen'[i]
  BY DEF SessionsTypeOK
<1>6. /\ range' \in [Objects -> Ranges]
      /\ \A q \in Objects : range'[q] = range[q] \/ (q = registry[i] /\ range'[q] = r /\ r \in chosen'[i])
  BY <1>1, RangeWritten DEF SessionsTypeOK
<1>7. SessionsTypeOK'
  BY <1>3, <1>5, <1>6 DEF SessionsTypeOK, Jobs
<1>8. ObjectsHaveOneId'
  BY <1>1, <1>3, <1>4 DEF ObjectsHaveOneId, Live, SessionsTypeOK
<1>9. \A j \in Ids : registry[j] # 0 => range'[registry[j]] \in chosen'[j]
  <2>. SUFFICES ASSUME NEW j \in Ids, registry[j] # 0 PROVE range'[registry[j]] \in chosen'[j]
    OBVIOUS
  <2>1. registry[j] \in Objects /\ range[registry[j]] \in chosen[j]
    BY DEF SessionsTypeOK, Objects, RangesComeFromChoices, RangesWereChosen, Live
  <2>2. registry[j] = registry[i] => j = i
    BY <1>1 DEF ObjectsHaveOneId, Live
  <2>. QED
    BY <1>5, <1>6, <2>1, <2>2
<1>10. RangesComeFromChoices'
  BY <1>3, <1>4, <1>5, <1>9 DEF RangesComeFromChoices, RangesWereChosen, Live
<1>11. NothingLeft' /\ ReportsCoverTheirRange'
  BY DEF NothingLeft, ReportsCoverTheirRange, Live
<1>. QED
  BY <1>7, <1>8, <1>10, <1>11

LEMMA BeginViewInv ==
  ASSUME SessionsInv, NEW w \in Workers, NEW i \in Ids, NEW r \in Ranges, BeginView(w, i, r)
  PROVE  SessionsInv'
<1>1. chosen' = [chosen EXCEPT ![i] = @ \cup {r}] /\ r \in chosen'[i]
  BY DEF BeginView, SessionsInv, SessionsTypeOK
<1>2. lastChoice' \in [Ids -> Ranges]
  BY DEF BeginView, SessionsInv, SessionsTypeOK
<1>. QED
  BY <1>1, <1>2, BuildBegins DEF BeginView, Kinds

LEMMA BeginOtherInv ==
  ASSUME SessionsInv, NEW w \in Workers, NEW kind \in {"view", "health", "report"}, NEW i \in Ids,
         NEW r \in Ranges, BeginOther(w, kind, i, r)
  PROVE  SessionsInv'
<1>1. kind = "report" \/ r \in chosen[i]
  BY DEF BeginOther, SessionsInv, RangesComeFromChoices, RangesWereChosen
<1>. QED
  BY <1>1, BuildBegins DEF BeginOther, ghosts, Kinds, SessionsInv, SessionsTypeOK

\* A build moves on: it logs in again or has its answer, and may save.
LEMMA BuildMovesInv ==
  ASSUME SessionsInv, NEW w \in Workers, NEW at \in {"again", "retry", "gap", "fresh", "stale"},
         job' = [job EXCEPT ![w].at = at], Save(w, registry, range) \/ saving' = saving,
         report' \in [owed : Dashboards, sent : Dashboards] \cup {None}, ReportsCoverTheirRange',
         UNCHANGED <<registry, made, range, records, toRestore, held, cache, chosen, lastChoice, purged>>
  PROVE  SessionsInv'
<1>. USE SessionsAssumption DEF SessionsAssumption, SessionsInv
<1>1. /\ job' \in [Workers -> Jobs]
      /\ \A v \in Workers : /\ job'[v].kind = job[v].kind /\ job'[v].id = job[v].id
                            /\ job'[v].object = job[v].object /\ job'[v].range = job[v].range
  BY BuildMoves
<1>2. /\ saving' \in [Workers -> Records \cup {None}]
      /\ \A v \in Workers, i \in Ids : saving'[v] # None /\ saving'[v][i] # None => saving'[v][i] \in chosen[i]
      /\ /\ \A i \in Ids : registry[i] = 0
         /\ \A v \in Workers, i \in Ids : saving[v] # None => saving[v][i] = None
         => \A v \in Workers, i \in Ids : saving'[v] # None => saving'[v][i] = None
  <2>1. registry \in [Ids -> 0 .. MaxObjects] /\ \A i \in Ids : registry[i] \in {0, registry[i]}
    BY DEF SessionsTypeOK
  <2>. QED
    BY <2>1, LiveSaved
<1>3. SessionsTypeOK'
  BY <1>1, <1>2 DEF SessionsTypeOK, Jobs
<1>4. ObjectsHaveOneId'
  BY <1>1 DEF ObjectsHaveOneId, Live
<1>5. RangesComeFromChoices'
  BY <1>1, <1>2 DEF RangesComeFromChoices, RangesWereChosen, Live
<1>6. NothingLeft'
  BY <1>1, <1>2 DEF NothingLeft, Live
<1>. QED
  BY <1>3, <1>4, <1>5, <1>6

LEMMA ReloginInv ==
  ASSUME SessionsInv, NEW w \in Workers, NEW reason \in {"refused", "gap"}, Relogin(w, reason)
  PROVE  SessionsInv'
<1>1. PICK at \in {"again", "retry", "gap"} : job' = [job EXCEPT ![w].at = at]
  BY DEF Relogin
<1>2. Save(w, registry, range) \/ saving' = saving
  BY DEF Relogin
<1>3. report' \in [owed : Dashboards, sent : Dashboards] \cup {None} /\ ReportsCoverTheirRange'
  BY DEF Relogin, ghosts, SessionsInv, SessionsTypeOK, ReportsCoverTheirRange
<1>. QED
  BY <1>1, <1>2, <1>3, BuildMovesInv DEF Relogin, ghosts

\* What is mailed is what the report owes.
LEMMA AnswerInv ==
  ASSUME SessionsInv, NEW w \in Workers, Answer(w)
  PROVE  SessionsInv'
<1>. DEFINE own == [id |-> job[w].id, range |-> job[w].range]
<1>1. PICK d \in {own} \cup Cached(w), mailed \in BOOLEAN :
          /\ \/ /\ job[w].at \in {"build", "again", "retry"} /\ d = own /\ mailed
                /\ job' = [job EXCEPT ![w].at = "fresh"]
             \/ /\ job[w].at \in {"retry", "gap"} /\ (mailed => d \in Cached(w))
                /\ job' = [job EXCEPT ![w].at = "stale"]
          /\ report' = IF job[w].kind = "report" /\ mailed THEN [owed |-> own, sent |-> d] ELSE report
  BY DEF Answer
<1>2. own \in Dashboards
  <2>1. job[w].kind \notin {"none", "purge"}
    BY DEF Answer
  <2>2. job[w].id \in Ids /\ job[w].range \in Ranges
    BY <2>1 DEF SessionsInv, SessionsTypeOK, ObjectsHaveOneId
  <2>. QED
    BY <2>2 DEF Dashboards
<1>3. job[w].kind = "report" /\ mailed => d = own
  <2>1. SUFFICES ASSUME job[w].kind = "report", d \in Cached(w) PROVE d = own
    BY <1>1
  <2>2. d \in Dashboards /\ d.id = job[w].id /\ d.range = job[w].range
    BY <2>1 DEF Cached, SessionsInv, SessionsTypeOK
  <2>. QED
    BY <2>2 DEF Dashboards
<1>4. PICK at \in {"fresh", "stale"} : job' = [job EXCEPT ![w].at = at]
  BY <1>1
<1>. HIDE DEF own
<1>5. report' \in [owed : Dashboards, sent : Dashboards] \cup {None} /\ ReportsCoverTheirRange'
  BY <1>1, <1>2, <1>3 DEF SessionsInv, SessionsTypeOK, ReportsCoverTheirRange
<1>6. Save(w, registry, range) /\ UNCHANGED <<registry, made, range, records, toRestore, held, cache, chosen, lastChoice, purged>>
  BY DEF Answer
<1>. QED
  BY <1>4, <1>5, <1>6, BuildMovesInv

LEMMA ShareOtherInv ==
  ASSUME SessionsInv, ShareOther
  PROVE  SessionsInv'
<1>1. cache' \in Dashboards
  BY SessionsAssumption DEF SessionsAssumption, ShareOther, Dashboards
<1>. QED
  BY <1>1 DEF ShareOther, ghosts, SessionsInv, SessionsTypeOK, ObjectsHaveOneId, RangesComeFromChoices,
     RangesWereChosen, NothingLeft, ReportsCoverTheirRange, Live

\* A job that ends may have written its range back.
LEMMA JobOver ==
  ASSUME SessionsInv, NEW w \in Workers, job[w].kind \in {"view", "health", "report"},
         job' = [job EXCEPT ![w] = NoJob],
         \/ range' = range
         \/ range' = [range EXCEPT ![job[w].object] = job[w].range] /\ job[w].kind # "report",
         cache' \in Dashboards \cup {None}, report' \in {None, report},
         UNCHANGED <<registry, made, records, saving, toRestore, held, chosen, lastChoice, purged>>
  PROVE  SessionsInv'
<1>. USE SessionsAssumption DEF SessionsAssumption, SessionsInv
<1>1. job' \in [Workers -> Jobs] /\ \A v \in Workers : job'[v] = NoJob \/ job'[v] = job[v]
  BY JobEnds
<1>2. NoJob.object = 0 /\ NoJob.kind = "none"
  BY DEF NoJob, Job
<1>3. job[w] \in Jobs /\ job[w].object \in 0 .. MaxObjects /\ job[w].range \in Ranges
  BY DEF SessionsTypeOK, Jobs
<1>4. /\ range' \in [Objects -> Ranges]
      /\ \A q \in Objects : \/ range'[q] = range[q]
                            \/ q = job[w].object /\ range'[q] = job[w].range /\ job[w].kind # "report"
  BY <1>3, RangeWritten DEF SessionsTypeOK
<1>5. SessionsTypeOK'
  BY <1>1, <1>4 DEF SessionsTypeOK, Jobs
<1>6. ObjectsHaveOneId'
  BY <1>1, <1>2 DEF ObjectsHaveOneId, Live, SessionsTypeOK
<1>7. \A i \in Ids : registry[i] # 0 => range'[registry[i]] \in chosen[i]
  <2>. SUFFICES ASSUME NEW i \in Ids, registry[i] # 0 PROVE range'[registry[i]] \in chosen[i]
    OBVIOUS
  <2>1. registry[i] \in Objects /\ range[registry[i]] \in chosen[i]
    BY DEF SessionsTypeOK, Objects, RangesComeFromChoices, RangesWereChosen, Live
  <2>2. registry[i] = job[w].object => i = job[w].id
    BY DEF ObjectsHaveOneId
  <2>3. job[w].kind # "report" => job[w].range \in chosen[job[w].id]
    BY <1>3 DEF RangesComeFromChoices
  <2>. QED
    BY <1>4, <2>1, <2>2, <2>3
<1>8. RangesComeFromChoices'
  BY <1>1, <1>2, <1>7 DEF RangesComeFromChoices, RangesWereChosen, Live
<1>9. NothingLeft'
  BY <1>1, <1>2 DEF NothingLeft, Live
<1>. QED
  BY <1>5, <1>6, <1>8, <1>9 DEF ReportsCoverTheirRange, SessionsTypeOK

LEMMA EndBuildInv ==
  ASSUME SessionsInv, NEW w \in Workers, EndBuild(w)
  PROVE  SessionsInv'
<1>1. job[w].kind \in {"view", "report"} /\ job[w].id \in Ids /\ job[w].range \in Ranges
  <2>1. job[w].kind \in {"view", "report"}
    BY DEF EndBuild
  <2>. QED
    BY <2>1 DEF SessionsInv, SessionsTypeOK, ObjectsHaveOneId
<1>2. range' = range \/ (range' = [range EXCEPT ![job[w].object] = job[w].range] /\ job[w].kind # "report")
  BY DEF EndBuild, Remember
<1>3. cache' \in Dashboards \cup {None}
  BY <1>1 DEF EndBuild, SessionsInv, SessionsTypeOK, Dashboards
<1>4. report' \in {None, report}
  BY DEF EndBuild
<1>. QED
  BY <1>1, <1>2, <1>3, <1>4, JobOver DEF EndBuild

LEMMA EndHealthInv ==
  ASSUME SessionsInv, NEW w \in Workers, EndHealth(w)
  PROVE  SessionsInv'
<1>1. cache' \in Dashboards \cup {None} /\ report' \in {None, report}
  BY DEF EndHealth, ghosts, SessionsInv, SessionsTypeOK
<1>2. job[w].kind = "health"
  BY DEF EndHealth
<1>. QED
  BY <1>1, <1>2, JobOver DEF EndHealth, ghosts

-----------------------------------------------------------------------------
(* Theorems                                                                *)

LEMMA SessionsStepInv == SessionsInv /\ [SessionsNext]_sessionVars => SessionsInv'
<1>. SUFFICES ASSUME SessionsInv, [SessionsNext]_sessionVars PROVE SessionsInv'
  OBVIOUS
<1>1. CASE UNCHANGED sessionVars
  BY <1>1 DEF sessionVars, SessionsInv, SessionsTypeOK, ObjectsHaveOneId, RangesComeFromChoices,
     RangesWereChosen, NothingLeft, ReportsCoverTheirRange, Live
<1>2. CASE SessionsNext
  BY <1>2, ConnectInv, ExpireInv, HoldInv, PurgeInv, SessionsRestartInv, ShareOtherInv, BeginLoginInv,
     BeginViewInv, BeginOtherInv, ReloginInv, EndLoginInv, AnswerInv, EndBuildInv, EndHealthInv, EndSaveInv DEF SessionsNext
<1>. QED
  BY <1>1, <1>2

\* Sessions, their file, their objects and their builds keep their types.
THEOREM SessionsTypeCorrect == SessionsSpec => []SessionsTypeOK
BY SessionsInitInv, SessionsStepInv, PTL DEF SessionsSpec, SessionsInv

\* A scheduled report is of its own session and range, whatever else is built
\* and shared while it is.
THEOREM ReportsCoverTheirRangeHolds == SessionsSpec => []ReportsCoverTheirRange
BY SessionsInitInv, SessionsStepInv, PTL DEF SessionsSpec, SessionsInv

\* A session only ever shows ranges that were chosen for it: what a build that
\* is late writes back to its object, a restart reads from the file or a
\* schedule logs in with, was one of them.
THEOREM RangesWereChosenHolds == SessionsSpec => []RangesWereChosen
BY SessionsInitInv, SessionsStepInv, PTL DEF SessionsSpec, SessionsInv, RangesComeFromChoices

\* A credential stays deleted once the request that deletes it has saved, in the
\* registry and in the file, over the saves of other threads that end later,
\* failed ones and restarts.  It must have raced with no login, restore or save
\* that still had it, and no schedule may hold it.
THEOREM PurgedStaysPurgedHolds == SessionsSpec => []PurgedStaysPurged
<1>1. SessionsInv => PurgedStaysPurged
  BY DEF SessionsInv, NothingLeft, PurgedStaysPurged
<1>. QED
  BY <1>1, SessionsInitInv, SessionsStepInv, PTL DEF SessionsSpec

-----------------------------------------------------------------------------
\* Whose password a profile holds.
OwnPassword(p) == p # Unset /\ p.blob # Unset => p.blob.of = p.target

-----------------------------------------------------------------------------
(* Profiles and blobs                                                      *)

LEMMA NewBlob ==
  ASSUME NEW t \in Targets, NEW k \in Keys \cup {0}, k # 0
  PROVE  [of |-> t, key |-> k, form |-> "bound"] \in Blobs
BY DEF Blobs

\* Binding a blob to its profile keeps the password and its key.
LEMMA Bound ==
  ASSUME NEW p \in Profiles, p.blob # Unset
  PROVE  LET q == [p EXCEPT !.blob.form = "bound"] IN
         /\ q \in Profiles /\ q.target = p.target
         /\ q.blob \in Blobs /\ q.blob.of = p.blob.of /\ q.blob.key = p.blob.key
<1>. DEFINE b == p.blob
            c == [b EXCEPT !.form = "bound"]
            q == [p EXCEPT !.blob = c]
<1>1. b \in Blobs
  BY DEF Profiles
<1>2. c \in Blobs /\ c.of = b.of /\ c.key = b.key
  BY <1>1 DEF Blobs
<1>3. q = [p EXCEPT !.blob.form = "bound"]
  OBVIOUS
<1>. HIDE DEF c
<1>4. q \in Profiles /\ q.target = p.target /\ q.blob = c
  BY <1>2 DEF Profiles
<1>. QED
  BY <1>2, <1>3, <1>4

-----------------------------------------------------------------------------
(* The inductive invariant: the types, the promise, and that a process that*)
(* has started has a key.                                                  *)

PasswordsInv ==
    /\ PasswordsTypeOK
    /\ ProfilePasswordsGoHome
    /\ process.at # "down" => process.key \in Keys

LEMMA PasswordsInitInv == PasswordsInit => PasswordsInv
<1>. SUFFICES ASSUME PasswordsInit PROVE PasswordsInv
  OBVIOUS
<1>. USE PasswordsAssumption DEF PasswordsAssumption, PasswordsInit
<1>1. keyFile \in [key : Keys \cup {0}, readable : BOOLEAN]
  OBVIOUS
<1>2. \A n \in ProfileNames : profiles[n] \in Profiles \cup {Unset}
  BY DEF Profiles, Blobs
<1>3. profiles \in [ProfileNames -> Profiles \cup {Unset}]
  BY <1>2
<1>4. process \in [at : {"down", "migrating", "up"}, key : Keys \cup {0}] /\ process.at = "down"
  BY DEF Down
<1>. QED
  BY <1>1, <1>3, <1>4 DEF PasswordsInv, PasswordsTypeOK, ProfilePasswordsGoHome

\* One profile is stored or forgotten.
LEMMA ProfileStored ==
  ASSUME PasswordsInv, NEW n \in ProfileNames, NEW p \in Profiles \cup {Unset}, OwnPassword(p),
         profiles' = [profiles EXCEPT ![n] = p], UNCHANGED <<keyFile, process, used>>
  PROVE  PasswordsInv'
<1>1. profiles' \in [ProfileNames -> Profiles \cup {Unset}]
  BY DEF PasswordsInv, PasswordsTypeOK
<1>2. \A m \in ProfileNames : profiles'[m] = p \/ profiles'[m] = profiles[m]
  BY DEF PasswordsInv, PasswordsTypeOK
<1>3. ProfilePasswordsGoHome'
  BY <1>2 DEF PasswordsInv, ProfilePasswordsGoHome, OwnPassword
<1>. QED
  BY <1>1, <1>3 DEF PasswordsInv, PasswordsTypeOK

\* Start-up binds what decrypts and leaves the rest.
LEMMA Migrated ==
  ASSUME PasswordsInv, Migrate
  PROVE  /\ profiles' \in [ProfileNames -> Profiles \cup {Unset}]
         /\ \A n \in ProfileNames : SamePassword(profiles[n], profiles'[n])
<1>. DEFINE After(n) == IF profiles[n] # Unset /\ Decrypted(profiles[n].blob) # Unset
                        THEN [profiles[n] EXCEPT !.blob.form = "bound"] ELSE profiles[n]
<1>1. \A n \in ProfileNames : After(n) \in Profiles \cup {Unset} /\ SamePassword(profiles[n], After(n))
  <2>. TAKE n \in ProfileNames
  <2>1. profiles[n] \in Profiles \cup {Unset}
    BY DEF PasswordsInv, PasswordsTypeOK
  <2>2. CASE profiles[n] # Unset /\ Decrypted(profiles[n].blob) # Unset
    <3>1. profiles[n] \in Profiles /\ profiles[n].blob # Unset
      BY <2>1, <2>2 DEF Decrypted
    <3>2. After(n) \in Profiles /\ After(n).target = profiles[n].target
          /\ After(n).blob \in Blobs /\ After(n).blob.of = profiles[n].blob.of
          /\ After(n).blob.key = profiles[n].blob.key
      BY <2>2, <3>1, Bound
    <3>3. After(n) # Unset /\ After(n).blob # Unset
      BY <3>2, PasswordsAssumption DEF PasswordsAssumption
    <3>. HIDE DEF After
    <3>. QED
      BY <2>2, <3>1, <3>2, <3>3 DEF SamePassword
  <2>3. CASE ~(profiles[n] # Unset /\ Decrypted(profiles[n].blob) # Unset)
    <3>1. After(n) = profiles[n]
      BY <2>3
    <3>. HIDE DEF After
    <3>. QED
      BY <2>1, <3>1 DEF SamePassword
  <2>. QED
    BY <2>2, <2>3
<1>2. profiles' = [n \in ProfileNames |-> After(n)]
  BY DEF Migrate
<1>. HIDE DEF After
<1>. QED
  BY <1>1, <1>2

LEMMA PasswordsStepInv == PasswordsInv /\ [PasswordsNext]_passwordVars => PasswordsInv'
<1>. SUFFICES ASSUME PasswordsInv, [PasswordsNext]_passwordVars PROVE PasswordsInv'
  OBVIOUS
<1>. USE PasswordsAssumption DEF PasswordsAssumption
<1>1. CASE KeyFileChanges
  <2>1. keyFile' \in [key : Keys \cup {0}, readable : BOOLEAN]
    BY <1>1 DEF KeyFileChanges
  <2>. QED
    BY <1>1, <2>1 DEF KeyFileChanges, PasswordsInv, PasswordsTypeOK, ProfilePasswordsGoHome
<1>2. CASE ProcessEnds
  BY <1>2 DEF ProcessEnds, Down, PasswordsInv, PasswordsTypeOK, ProfilePasswordsGoHome
<1>3. CASE LoadKey
  <2>1. keyFile' \in [key : Keys \cup {0}, readable : BOOLEAN]
    <3>1. CASE keyFile' = keyFile
      BY <3>1 DEF PasswordsInv, PasswordsTypeOK
    <3>2. CASE keyFile' = [key |-> 1, readable |-> TRUE]
      BY <3>2
    <3>. QED
      BY <1>3, <3>1, <3>2 DEF LoadKey
  <2>2. process' \in [at : {"down", "migrating", "up"}, key : Keys \cup {0}] /\ process'.key \in Keys
    BY <1>3 DEF LoadKey, PasswordsInv, PasswordsTypeOK
  <2>. QED
    BY <1>3, <2>1, <2>2 DEF LoadKey, PasswordsInv, PasswordsTypeOK, ProfilePasswordsGoHome
<1>4. CASE Migrate
  <2>1. process' \in [at : {"down", "migrating", "up"}, key : Keys \cup {0}] /\ process'.key \in Keys
    BY <1>4 DEF Migrate, PasswordsInv, PasswordsTypeOK
  <2>2. ProfilePasswordsGoHome'
    BY <1>4, Migrated DEF Migrate, SamePassword, PasswordsInv, ProfilePasswordsGoHome
  <2>. QED
    BY <1>4, <2>1, <2>2, Migrated DEF Migrate, PasswordsInv, PasswordsTypeOK
<1>5. ASSUME NEW n \in ProfileNames, DeleteProfile(n) PROVE PasswordsInv'
  BY <1>5, ProfileStored DEF DeleteProfile, OwnPassword
<1>6. ASSUME NEW n \in ProfileNames, NEW t \in Targets, SaveProfile(n, t) PROVE PasswordsInv'
  <2>. DEFINE typed == [of |-> t, key |-> process.key, form |-> "bound"]
  <2>1. PICK blob \in {BlobKept(n, t), typed} :
            profiles' = [profiles EXCEPT ![n] = [target |-> t, blob |-> blob]]
    BY <1>6 DEF SaveProfile
  <2>2. blob \in Blobs \cup {Unset} /\ (blob # Unset => blob.of = t)
    <3>1. CASE blob = typed
      <4>1. process.key \in Keys
        BY <1>6 DEF SaveProfile, PasswordsInv
      <4>. QED
        BY <3>1, <4>1 DEF Blobs
    <3>2. CASE blob = BlobKept(n, t)
      <4>1. profiles[n] \in Profiles \cup {Unset}
        BY DEF PasswordsInv, PasswordsTypeOK
      <4>. QED
        BY <3>2, <4>1 DEF BlobKept, PasswordsInv, ProfilePasswordsGoHome, Profiles
    <3>. QED
      BY <2>1, <3>1, <3>2
  <2>3. [target |-> t, blob |-> blob] \in Profiles /\ OwnPassword([target |-> t, blob |-> blob])
    BY <2>2 DEF Profiles, OwnPassword
  <2>. QED
    BY <1>6, <2>1, <2>3, ProfileStored DEF SaveProfile
<1>7. ASSUME NEW n \in ProfileNames, NEW t \in Targets, ResolvePassword(n, t) PROVE PasswordsInv'
  <2>1. Decrypted(profiles[n].blob) = t
    BY <1>7 DEF ResolvePassword, Decrypted, PasswordsInv, ProfilePasswordsGoHome
  <2>. QED
    BY <1>7, <2>1 DEF ResolvePassword, PasswordsInv, PasswordsTypeOK, ProfilePasswordsGoHome
<1>8. CASE UNCHANGED passwordVars
  BY <1>8 DEF passwordVars, PasswordsInv, PasswordsTypeOK, ProfilePasswordsGoHome
<1>. QED
  BY <1>1, <1>2, <1>3, <1>4, <1>5, <1>6, <1>7, <1>8 DEF PasswordsNext

-----------------------------------------------------------------------------
(* Theorems                                                                *)

\* The stored profiles, the key file and the loaded key keep their types.
THEOREM PasswordsTypeCorrect == PasswordsSpec => []PasswordsTypeOK
BY PasswordsInitInv, PasswordsStepInv, PTL DEF PasswordsSpec, PasswordsInv

\* A profile's stored password is kept and used with its own connection only,
\* whichever profiles are saved, re-aimed and deleted, under any key.
THEOREM ProfilePasswordsGoHomeHolds == PasswordsSpec => []ProfilePasswordsGoHome
BY PasswordsInitInv, PasswordsStepInv, PTL DEF PasswordsSpec, PasswordsInv

\* A start of the process, whatever the key file holds then, replaces no key
\* and loses no stored password.
THEOREM SavedPasswordsSurviveHolds == PasswordsSpec => SavedPasswordsSurvive
<1>. DEFINE Kept == /\ keyFile.key # 0 /\ process' # process => keyFile' = keyFile
                    /\ process.at # "up" =>
                         \A n \in ProfileNames : SamePassword(profiles[n], profiles'[n])
<1>1. PasswordsInv /\ [PasswordsNext]_passwordVars => [Kept]_passwordVars
  <2>. SUFFICES ASSUME PasswordsInv, PasswordsNext PROVE Kept
    OBVIOUS
  <2>1. keyFile.key # 0 /\ process' # process => keyFile' = keyFile
    BY DEF PasswordsNext, KeyFileChanges, ProcessEnds, LoadKey, Migrate, DeleteProfile, SaveProfile,
       ResolvePassword
  <2>2. CASE Migrate
    BY <2>1, <2>2, Migrated
  <2>3. CASE UNCHANGED profiles
    BY <2>1, <2>3 DEF SamePassword
  <2>4. CASE process.at = "up"
    BY <2>1, <2>4
  <2>. QED
    BY <2>2, <2>3, <2>4 DEF PasswordsNext, KeyFileChanges, ProcessEnds, LoadKey, DeleteProfile, SaveProfile,
       ResolvePassword
<1>2. PasswordsSpec => [][Kept]_passwordVars
  BY <1>1, PasswordsInitInv, PasswordsStepInv, PTL DEF PasswordsSpec
<1>. QED
  BY <1>2 DEF Kept, SavedPasswordsSurvive
-----------------------------------------------------------------------------
(* The passwords of the email window.  What a request has read of a        *)
(* schedule holds together as long as no save writes the schedule between  *)
(* the reads.                                                              *)

\* A save writes a schedule's server and password only while no other request
\* is between its reads of them.
SyncsApart ==
    \A q \in Requesters : SyncApplies(q) =>
        \A r \in Requesters \ {q} :
            req[r].at \in {"password", "secret", "apply"} => req[r].seen # req[q].seen

Requests ==
    [at : {"idle", "target", "password", "shared", "decided", "arm", "saved", "sync", "secret", "apply"},
     kind : {"config", "profile", "test"}, want : Passwords, typed : Passwords,
     seen : Nat, old : Passwords, found : Passwords]

\* A password a request holds is of the server it holds with it.
HoldsTogether(q) ==
    /\ q.seen <= Len(objects)
    /\ q.typed \in {Blank, q.want}
    /\ q.at \in {"target", "password", "shared", "decided", "arm", "sync", "secret", "apply"} => q.want \in Servers
    /\ q.at = "password" => q.old = IF q.seen = 0 THEN Blank ELSE objects[q.seen].server
    /\ q.at = "shared" => q.found \in {Blank, q.old}
    /\ q.at \in {"decided", "arm", "apply"} => q.found \in {Blank, q.want}
    /\ q.at \in {"sync", "secret", "apply"} => q.seen # 0
    /\ q.at \in {"secret", "apply"} => q.old = objects[q.seen].server

SmtpInv ==
    /\ SmtpTypeOK
    /\ SmtpPasswordsGoHome
    /\ req \in [Requesters -> Requests]
    /\ \A r \in Requesters : HoldsTogether(req[r])

LEMMA IdleHolds == ASSUME SmtpTypeOK PROVE Idle \in Requests /\ HoldsTogether(Idle)
<1>1. Len(objects) \in Nat
  BY DEF SmtpTypeOK
<1>. QED
  BY <1>1 DEF Idle, Requests, HoldsTogether, Passwords

\* A save keeps a stored password at its own server only.
LEMMA ReboundGoesHome ==
  ASSUME NEW pair \in Pairs \cup {Blank}, GoesHome(pair), NEW s \in Servers, NEW typed \in {Blank, s}
  PROVE  Rebound(pair, s, typed) \in Pairs /\ GoesHome(Rebound(pair, s, typed))
<1>1. CASE typed # Blank
  BY <1>1 DEF Rebound, Pairs, Passwords, GoesHome
<1>2. CASE typed = Blank /\ pair # Blank /\ pair.server = s
  <2>1. pair \in Pairs
    BY <1>2
  <2>. QED
    BY <1>2, <2>1 DEF Rebound, Pairs, Passwords, GoesHome
<1>3. CASE typed = Blank /\ ~(pair # Blank /\ pair.server = s)
  BY <1>3 DEF Rebound, Pairs, Passwords, GoesHome
<1>. QED
  BY <1>1, <1>2, <1>3

LEMMA SavedGoesHome ==
  ASSUME SmtpInv, NEW s \in Servers, NEW typed \in {s, Blank} \cup SavedPassword(s)
  PROVE  typed \in {Blank, s}
<1>1. emailProfile # Blank => emailProfile \in Pairs /\ (emailProfile.password # Blank => emailProfile.password = emailProfile.server)
  BY DEF SmtpInv, SmtpTypeOK, SmtpPasswordsGoHome, GoesHome
<1>. QED
  BY <1>1 DEF SavedPassword

\* A step of a request that arms no schedule and writes none.
LEMMA RequestMoves ==
  ASSUME SmtpInv, NEW r \in Requesters, NEW x \in Requests, HoldsTogether(x), req' = [req EXCEPT ![r] = x],
         UNCHANGED <<objects, armed, emailProfile>>, config' \in Pairs, GoesHome(config'),
         sent' \in Pairs \cup {Blank}, GoesHome(sent')
  PROVE  SmtpInv'
<1>1. req \in [Requesters -> Requests] /\ req' \in [Requesters -> Requests]
  BY DEF SmtpInv
<1>2. \A q \in Requesters : req'[q] = IF q = r THEN x ELSE req[q]
  BY <1>1
<1>3. objects' = objects /\ armed' = armed /\ emailProfile' = emailProfile
  OBVIOUS
<1>4. ASSUME NEW q \in Requesters PROVE HoldsTogether(req[q])'
  <2>1. HoldsTogether(req'[q])
    BY <1>2 DEF SmtpInv
  <2>. QED
    BY <1>3, <2>1 DEF HoldsTogether
<1>5. \A q \in Requesters :
         /\ req'[q].want \in Passwords /\ req'[q].typed \in Passwords
         /\ req'[q].old \in Passwords /\ req'[q].found \in Passwords
         /\ req'[q].seen \in 0..Len(objects)
  <2>1. Len(objects) \in Nat
    BY DEF SmtpInv, SmtpTypeOK
  <2>2. ASSUME NEW q \in Requesters PROVE req'[q] \in Requests /\ req'[q].seen <= Len(objects)
    BY <1>1, <1>2, <2>2 DEF SmtpInv, HoldsTogether
  <2>. QED
    BY <2>1, <2>2 DEF Requests
<1>6. SmtpTypeOK'
  BY <1>3, <1>5 DEF SmtpInv, SmtpTypeOK
<1>7. SmtpPasswordsGoHome'
  BY <1>3 DEF SmtpInv, SmtpPasswordsGoHome, GoesHome
<1>. QED
  BY <1>1, <1>4, <1>6, <1>7 DEF SmtpInv

LEMMA SmtpInitInv == SmtpInit => SmtpInv
<1>. SUFFICES ASSUME SmtpInit PROVE SmtpInv
  OBVIOUS
<1>1. /\ config \in Pairs /\ config.password = Blank /\ emailProfile = Blank /\ sent = Blank
      /\ objects = << >> /\ armed = [k \in ScheduleKinds |-> 0] /\ req = [r \in Requesters |-> Idle]
  BY DEF SmtpInit, Pairs, Passwords
<1>2. SmtpPasswordsGoHome
  BY <1>1 DEF SmtpPasswordsGoHome, GoesHome
<1>3. SmtpTypeOK
  <2>1. Len(objects) = 0 /\ objects \in Seq(Pairs) /\ MaxSchedules \in Nat
    BY <1>1, SmtpAssumption
  <2>. QED
    BY <1>1, <2>1 DEF SmtpTypeOK, Idle, Passwords
<1>4. \A r \in Requesters : req[r] \in Requests /\ HoldsTogether(req[r])
  BY <1>1, <1>3, IdleHolds
<1>. QED
  BY <1>1, <1>2, <1>3, <1>4 DEF SmtpInv

LEMMA StartSteps ==
  ASSUME SmtpInv, NEW r \in Requesters,
         BeginStart(r, "config") \/ BeginStart(r, "test") \/ BeginToggle(r)
  PROVE  SmtpInv'
<1>1. /\ config \in Pairs /\ GoesHome(config) /\ sent \in Pairs \cup {Blank} /\ GoesHome(sent)
      /\ armed \in [ScheduleKinds -> 0..Len(objects)] /\ Len(objects) \in Nat
  BY DEF SmtpInv, SmtpTypeOK, SmtpPasswordsGoHome
<1>2. UNCHANGED <<config, emailProfile, objects, armed, sent>>
  BY DEF BeginStart, BeginToggle
<1>3. ASSUME NEW x \in Requests, x.at \in {"target", "decided"}, x.want \in Servers, x.typed \in {Blank, x.want},
             x.found \in {Blank, x.want}, x.seen <= Len(objects), req' = [req EXCEPT ![r] = x]
      PROVE  SmtpInv'
  <2>1. HoldsTogether(x)
    BY <1>3 DEF HoldsTogether
  <2>. QED
    BY <1>1, <1>2, <1>3, <2>1, RequestMoves
<1>4. Idle \in Requests /\ Idle.typed = Blank
  BY IdleHolds DEF SmtpInv, Idle
<1>5. \A k \in ScheduleKinds : armed[k] \in Nat /\ armed[k] <= Len(objects)
  BY <1>1
<1>6. ASSUME NEW kind \in {"config", "test"}, BeginStart(r, kind) PROVE SmtpInv'
  <2>. DEFINE x(s, typed, k) ==
                 [Idle EXCEPT !.at = IF typed = Blank THEN "target" ELSE "decided",
                              !.kind = kind, !.want = s, !.typed = typed, !.found = typed, !.seen = armed[k]]
  <2>1. PICK s \in Servers : \E typed \in {s, Blank} \cup SavedPassword(s), k \in ScheduleKinds :
          req' = [req EXCEPT ![r] = x(s, typed, k)]
    BY <1>6 DEF BeginStart
  <2>2. PICK typed \in {s, Blank} \cup SavedPassword(s), k \in ScheduleKinds :
          req' = [req EXCEPT ![r] = x(s, typed, k)]
    BY <2>1
  <2>3. typed \in {Blank, s}
    BY SavedGoesHome
  <2>. DEFINE y == x(s, typed, k)
  <2>4. /\ y \in Requests /\ y.at \in {"target", "decided"} /\ y.want = s /\ y.typed = typed
        /\ y.found = typed /\ y.seen = armed[k]
    BY <1>4, <1>5, <2>3 DEF Requests, Passwords
  <2>5. req' = [req EXCEPT ![r] = y]
    BY <2>2
  <2>. HIDE DEF y
  <2>. QED
    BY <1>3, <1>5, <2>3, <2>4, <2>5
<1>7. CASE BeginToggle(r)
  <2>1. emailProfile # Blank /\ emailProfile \in Pairs /\ GoesHome(emailProfile)
    BY <1>7 DEF BeginToggle, SmtpInv, SmtpTypeOK, SmtpPasswordsGoHome
  <2>2. emailProfile.server \in Servers /\ emailProfile.password \in {Blank, emailProfile.server}
    BY <2>1 DEF GoesHome, Pairs
  <2>. DEFINE x(at) == [Idle EXCEPT !.at = at, !.kind = "profile", !.want = emailProfile.server,
                           !.found = emailProfile.password, !.seen = armed["profile"]]
  <2>3. PICK at \in {"target", "decided"} : req' = [req EXCEPT ![r] = x(at)]
    BY <1>7 DEF BeginToggle
  <2>. DEFINE y == x(at)
  <2>4. armed["profile"] \in Nat /\ armed["profile"] <= Len(objects)
    BY <1>5 DEF ScheduleKinds
  <2>5. /\ y \in Requests /\ y.at \in {"target", "decided"} /\ y.want = emailProfile.server /\ y.typed = Blank
        /\ y.found = emailProfile.password /\ y.seen = armed["profile"]
    BY <1>4, <2>2, <2>4 DEF Requests, Passwords
  <2>6. req' = [req EXCEPT ![r] = y]
    BY <2>3
  <2>. HIDE DEF y
  <2>. QED
    BY <1>3, <2>2, <2>4, <2>5, <2>6
<1>. QED
  BY <1>6, <1>7

\* The steps of a request that only read.
LEMMA ReadSteps ==
  ASSUME SmtpInv, NEW r \in Requesters,
         ReadScheduleServer(r) \/ ReadSchedulePassword(r) \/ DecidePassword(r)
           \/ SyncReadsServer(r) \/ SyncReadsPassword(r)
  PROVE  SmtpInv'
<1>1. /\ config \in Pairs /\ GoesHome(config) /\ sent \in Pairs \cup {Blank} /\ GoesHome(sent)
      /\ objects \in Seq(Pairs) /\ config.password \in {Blank, config.server}
  BY SmtpAssumption DEF SmtpInv, SmtpTypeOK, SmtpPasswordsGoHome, GoesHome, Pairs, Passwords
<1>2. UNCHANGED <<config, emailProfile, objects, armed, sent>>
  BY DEF ReadScheduleServer, ReadSchedulePassword, DecidePassword, SyncReadsServer, SyncReadsPassword
<1>3. req[r] \in Requests /\ HoldsTogether(req[r]) /\ req \in [Requesters -> Requests]
  BY DEF SmtpInv
<1>4. \A i \in Nat : i # 0 /\ i <= Len(objects) =>
         objects[i].server \in Servers /\ objects[i].password \in {Blank, objects[i].server}
  <2>1. ASSUME NEW i \in Nat, i # 0, i <= Len(objects) PROVE i \in DOMAIN objects /\ objects[i] \in Pairs
    BY <1>1, <2>1
  <2>. QED
    BY <2>1, SmtpAssumption DEF SmtpInv, SmtpPasswordsGoHome, GoesHome, Pairs, Passwords
<1>5. req[r].seen \in Nat /\ req[r].seen <= Len(objects)
  BY <1>3 DEF Requests, HoldsTogether
<1>6. ASSUME NEW x \in Requests, HoldsTogether(x), req' = [req EXCEPT ![r] = x] PROVE SmtpInv'
  BY <1>1, <1>2, <1>6, RequestMoves
<1>7. CASE ReadScheduleServer(r)
  <2>. DEFINE o == IF req[r].seen = 0 THEN Blank ELSE objects[req[r].seen].server
              x == [req[r] EXCEPT !.at = "password", !.old = o]
  <2>1. o \in Passwords
    BY <1>4, <1>5 DEF Passwords
  <2>2. req' = [req EXCEPT ![r] = x] /\ req[r].at = "target"
    BY <1>3, <1>7 DEF ReadScheduleServer
  <2>3. x \in Requests
    BY <1>3, <2>1 DEF Requests
  <2>4. HoldsTogether(x)
    BY <1>3, <2>2 DEF HoldsTogether, Requests
  <2>. QED
    BY <1>6, <2>2, <2>3, <2>4
<1>8. CASE ReadSchedulePassword(r)
  <2>. DEFINE p == IF req[r].seen = 0 THEN Blank ELSE objects[req[r].seen].password
              x == [req[r] EXCEPT !.at = "shared", !.found = p]
  <2>1. req[r].at = "password" /\ req' = [req EXCEPT ![r] = x]
    BY <1>3, <1>8 DEF ReadSchedulePassword
  <2>2. p \in {Blank, req[r].old} /\ p \in Passwords
    BY <1>3, <1>4, <1>5, <2>1 DEF Passwords, HoldsTogether
  <2>3. x \in Requests
    BY <1>3, <2>2 DEF Requests
  <2>4. HoldsTogether(x)
    BY <1>3, <2>1, <2>2 DEF HoldsTogether, Requests
  <2>. QED
    BY <1>6, <2>1, <2>3, <2>4
<1>9. CASE DecidePassword(r)
  <2>. DEFINE own == req[r].found # Blank /\ req[r].old = req[r].want
              shared == config.password # Blank /\ config.server = req[r].want
              f == IF own THEN req[r].found ELSE IF shared THEN config.password ELSE Blank
              x == [req[r] EXCEPT !.at = "decided", !.found = f]
  <2>1. req[r].at = "shared" /\ req[r].want \in Servers /\ req[r].found \in {Blank, req[r].old}
    BY <1>3, <1>9 DEF DecidePassword, HoldsTogether
  <2>2. f \in {Blank, req[r].want} /\ f \in Passwords
    BY <1>1, <2>1 DEF Passwords
  <2>3. req' = [req EXCEPT ![r] = Idle] \/ req' = [req EXCEPT ![r] = x]
    BY <1>9 DEF DecidePassword
  <2>. HIDE DEF f
  <2>4. x \in Requests
    BY <1>3, <2>2 DEF Requests
  <2>5. HoldsTogether(x)
    BY <1>3, <2>1, <2>2 DEF HoldsTogether, Requests
  <2>6. Idle \in Requests /\ HoldsTogether(Idle)
    BY IdleHolds DEF SmtpInv
  <2>. QED
    BY <1>6, <2>3, <2>4, <2>5, <2>6
<1>10. CASE SyncReadsServer(r)
  <2>. DEFINE x == [req[r] EXCEPT !.at = "secret", !.old = objects[req[r].seen].server]
  <2>1. req[r].at = "sync" /\ req' = [req EXCEPT ![r] = x]
    BY <1>3, <1>10 DEF SyncReadsServer
  <2>2. req[r].seen # 0 /\ objects[req[r].seen].server \in Passwords
    BY <1>3, <1>4, <1>5, <2>1 DEF HoldsTogether, Passwords
  <2>3. x \in Requests
    BY <1>3, <2>2 DEF Requests
  <2>4. HoldsTogether(x)
    BY <1>3, <2>1, <2>2 DEF HoldsTogether, Requests
  <2>. QED
    BY <1>6, <2>1, <2>3, <2>4
<1>11. CASE SyncReadsPassword(r)
  <2>. DEFINE p == IF config.server = req[r].want THEN config.password ELSE Blank
              x == [req[r] EXCEPT !.at = "apply", !.found = p]
  <2>1. req[r].at = "secret" /\ req' = [req EXCEPT ![r] = x]
    BY <1>3, <1>11 DEF SyncReadsPassword
  <2>2. p \in {Blank, req[r].want} /\ p \in Passwords
    BY <1>1 DEF Passwords, Pairs
  <2>3. x \in Requests
    BY <1>3, <2>2 DEF Requests
  <2>4. HoldsTogether(x)
    BY <1>3, <2>1, <2>2 DEF HoldsTogether, Requests
  <2>. QED
    BY <1>6, <2>1, <2>3, <2>4
<1>. QED
  BY <1>7, <1>8, <1>9, <1>10, <1>11

\* The steps that store the configuration, or send what was decided.
LEMMA StoreSteps ==
  ASSUME SmtpInv, NEW r \in Requesters, StartSavesConfig(r) \/ SendTest(r) \/ BeginSave(r) \/ ReadConfig(r)
  PROVE  SmtpInv'
<1>1. /\ config \in Pairs /\ GoesHome(config) /\ sent \in Pairs \cup {Blank} /\ GoesHome(sent)
      /\ armed \in [ScheduleKinds -> 0..Len(objects)] /\ Len(objects) \in Nat
  BY DEF SmtpInv, SmtpTypeOK, SmtpPasswordsGoHome
<1>2. UNCHANGED <<emailProfile, objects, armed>>
  BY DEF StartSavesConfig, SendTest, BeginSave, ReadConfig
<1>3. req[r] \in Requests /\ HoldsTogether(req[r]) /\ req \in [Requesters -> Requests]
  BY DEF SmtpInv
<1>4. Idle \in Requests /\ HoldsTogether(Idle)
  BY IdleHolds DEF SmtpInv
<1>5. CASE StartSavesConfig(r)
  <2>. DEFINE x == [req[r] EXCEPT !.at = "arm"]
  <2>1. req[r].at = "decided" /\ req' = [req EXCEPT ![r] = x] /\ config' = Rebound(config, req[r].want, req[r].typed)
        /\ sent' = sent
    BY <1>3, <1>5 DEF StartSavesConfig
  <2>2. req[r].want \in Servers /\ req[r].typed \in {Blank, req[r].want}
    BY <1>3, <2>1 DEF HoldsTogether
  <2>3. config' \in Pairs /\ GoesHome(config')
    BY <1>1, <2>1, <2>2, ReboundGoesHome
  <2>4. x \in Requests
    BY <1>3 DEF Requests
  <2>5. HoldsTogether(x)
    BY <1>3, <2>1 DEF HoldsTogether, Requests
  <2>. HIDE DEF x
  <2>. QED
    BY <1>1, <1>2, <2>1, <2>3, <2>4, <2>5, RequestMoves
<1>6. CASE SendTest(r)
  <2>1. req[r].at = "decided" /\ sent' = [server |-> req[r].want, password |-> req[r].found]
        /\ req' = [req EXCEPT ![r] = Idle] /\ config' = config
    BY <1>6 DEF SendTest
  <2>2. req[r].want \in Servers /\ req[r].found \in {Blank, req[r].want}
    BY <1>3, <2>1 DEF HoldsTogether
  <2>3. sent' \in Pairs /\ GoesHome(sent')
    BY <2>1, <2>2 DEF Pairs, Passwords, GoesHome
  <2>. QED
    BY <1>1, <1>2, <1>4, <2>1, <2>3, RequestMoves
<1>7. CASE BeginSave(r)
  <2>1. PICK s \in Servers : \E typed \in {s, Blank} \cup SavedPassword(s) : config' = Rebound(config, s, typed)
    BY <1>7 DEF BeginSave
  <2>2. PICK typed \in {s, Blank} \cup SavedPassword(s) : config' = Rebound(config, s, typed)
    BY <2>1
  <2>3. config' \in Pairs /\ GoesHome(config')
    <3>1. typed \in {Blank, s}
      BY SavedGoesHome
    <3>. QED
      BY <1>1, <2>2, <3>1, ReboundGoesHome
  <2>. DEFINE x == [Idle EXCEPT !.at = "saved"]
  <2>4. req' = [req EXCEPT ![r] = x] /\ sent' = sent
    BY <1>3, <1>7 DEF BeginSave
  <2>5. x \in Requests /\ HoldsTogether(x)
    BY <1>4 DEF Idle, Requests, HoldsTogether
  <2>. HIDE DEF x
  <2>. QED
    BY <1>1, <1>2, <2>3, <2>4, <2>5, RequestMoves
<1>8. CASE ReadConfig(r)
  <2>. DEFINE x == [Idle EXCEPT !.at = "sync", !.want = config.server, !.seen = armed["config"]]
  <2>1. config' = config /\ sent' = sent
    BY <1>8 DEF ReadConfig
  <2>2. armed["config"] \in Nat /\ armed["config"] <= Len(objects)
    BY <1>1 DEF ScheduleKinds
  <2>3. armed["config"] # 0 => x \in Requests /\ HoldsTogether(x)
    <3>1. config.server \in Servers /\ Idle.typed = Blank
      BY <1>1 DEF Pairs, Idle
    <3>2. x \in Requests /\ x.at = "sync" /\ x.want = config.server /\ x.typed = Blank /\ x.seen = armed["config"]
      BY <1>4, <2>2, <3>1 DEF Requests, Passwords
    <3>. HIDE DEF x
    <3>. QED
      BY <2>2, <3>1, <3>2 DEF HoldsTogether
  <2>4. req' = [req EXCEPT ![r] = IF armed["config"] = 0 THEN Idle ELSE x]
    BY <1>8 DEF ReadConfig
  <2>. HIDE DEF x
  <2>5. PICK y \in Requests : HoldsTogether(y) /\ req' = [req EXCEPT ![r] = y]
    BY <1>4, <2>3, <2>4
  <2>. QED
    BY <1>1, <1>2, <2>1, <2>5, RequestMoves
<1>. QED
  BY <1>5, <1>6, <1>7, <1>8

\* A schedule is armed with what was decided for its server.
LEMMA ArmStep == ASSUME SmtpInv, NEW r \in Requesters, Arm(r) PROVE SmtpInv'
<1>. DEFINE pair == [server |-> req[r].want, password |-> req[r].found]
<1>1. /\ req[r] \in Requests /\ HoldsTogether(req[r]) /\ req \in [Requesters -> Requests]
      /\ objects \in Seq(Pairs) /\ Len(objects) \in Nat /\ Idle \in Requests /\ HoldsTogether(Idle)
  BY IdleHolds DEF SmtpInv, SmtpTypeOK
<1>2. req[r].at \in {"arm", "decided"} /\ Len(objects) < MaxSchedules /\ MaxSchedules \in Nat
  BY SmtpAssumption DEF Arm
<1>3. req[r].want \in Servers /\ req[r].found \in {Blank, req[r].want}
  BY <1>1, <1>2 DEF HoldsTogether
<1>4. pair \in Pairs /\ GoesHome(pair)
  BY <1>3 DEF Pairs, Passwords, GoesHome
<1>5. /\ objects' = Append(objects, pair) /\ req' = [req EXCEPT ![r] = Idle]
      /\ config' = config /\ emailProfile' = emailProfile /\ sent' = sent
  BY DEF Arm
<1>. HIDE DEF pair
<1>6. objects' \in Seq(Pairs) /\ Len(objects') = Len(objects) + 1
  BY <1>1, <1>4, <1>5
<1>7. \A i \in 1..Len(objects) : objects'[i] = objects[i]
  BY <1>1, <1>5
<1>8. objects'[Len(objects) + 1] = pair
  BY <1>1, <1>5
<1>9. armed' \in [ScheduleKinds -> 0..Len(objects')]
  <2>1. armed \in [ScheduleKinds -> 0..Len(objects)]
    BY DEF SmtpInv, SmtpTypeOK
  <2>2. \A k \in ScheduleKinds : armed[k] \in 0..Len(objects')
    BY <1>1, <1>6, <2>1
  <2>3. armed' = [k \in ScheduleKinds |-> IF k = req[r].kind THEN Len(objects) + 1
                                          ELSE IF armed[k] = req[r].seen THEN 0 ELSE armed[k]]
    BY DEF Arm
  <2>4. Len(objects) + 1 \in 0..Len(objects') /\ 0 \in 0..Len(objects')
    BY <1>1, <1>6
  <2>. QED
    BY <2>2, <2>3, <2>4
<1>10. ASSUME NEW q \in Requesters PROVE req'[q] \in Requests /\ req'[q].seen <= Len(objects) /\ HoldsTogether(req[q])'
  <2>1. req'[q] = Idle \/ req'[q] = req[q]
    BY <1>1, <1>5
  <2>2. req'[q] \in Requests /\ HoldsTogether(req'[q])
    BY <1>1, <2>1 DEF SmtpInv
  <2>3. req'[q].seen \in Nat /\ req'[q].seen <= Len(objects)
    BY <2>2 DEF Requests, HoldsTogether
  <2>4. req'[q].seen # 0 => objects'[req'[q].seen] = objects[req'[q].seen]
    BY <1>1, <1>7, <2>3
  <2>5. req'[q].seen <= Len(objects')
    BY <1>1, <1>6, <2>3
  <2>6. req'[q].at \in {"secret", "apply"} => req'[q].seen # 0
    BY <2>2 DEF HoldsTogether
  <2>. QED
    BY <2>2, <2>3, <2>4, <2>5, <2>6 DEF HoldsTogether
<1>11. SmtpPasswordsGoHome'
  <2>1. \A i \in DOMAIN objects' : GoesHome(objects'[i])
    <3>1. \A i \in DOMAIN objects' : i \in 1..Len(objects) \/ i = Len(objects) + 1
      BY <1>1, <1>6
    <3>2. \A i \in 1..Len(objects) : GoesHome(objects[i])
      BY <1>1 DEF SmtpInv, SmtpPasswordsGoHome
    <3>. QED
      BY <1>4, <1>7, <1>8, <3>1, <3>2
  <2>. QED
    BY <1>5, <2>1 DEF SmtpInv, SmtpPasswordsGoHome, GoesHome
<1>12. SmtpTypeOK'
  <2>1. Len(objects') <= MaxSchedules
    BY <1>1, <1>2, <1>6
  <2>2. \A q \in Requesters :
           /\ req'[q].want \in Passwords /\ req'[q].typed \in Passwords
           /\ req'[q].old \in Passwords /\ req'[q].found \in Passwords
           /\ req'[q].seen \in 0..Len(objects')
    BY <1>1, <1>6, <1>10 DEF Requests
  <2>. QED
    BY <1>5, <1>6, <1>9, <2>1, <2>2 DEF SmtpInv, SmtpTypeOK
<1>13. req' \in [Requesters -> Requests]
  BY <1>1, <1>5
<1>. QED
  BY <1>10, <1>11, <1>12, <1>13 DEF SmtpInv

\* A save writes a schedule while nobody is between its reads of it.
LEMMA SyncAppliesStep == ASSUME SmtpInv, NEW r \in Requesters, SyncApplies(r), SyncsApart PROVE SmtpInv'
<1>. DEFINE n == req[r].seen
            pair == [server |-> req[r].want, password |-> IF req[r].found # Blank THEN req[r].found ELSE KeptPassword(r)]
<1>1. /\ req[r] \in Requests /\ HoldsTogether(req[r]) /\ req \in [Requesters -> Requests] /\ req[r].at = "apply"
      /\ objects \in Seq(Pairs) /\ Len(objects) \in Nat /\ Idle \in Requests /\ HoldsTogether(Idle)
  BY IdleHolds DEF SmtpInv, SmtpTypeOK, SyncApplies
<1>2. /\ n \in 1..Len(objects) /\ req[r].want \in Servers
      /\ req[r].found \in {Blank, req[r].want} /\ req[r].old = objects[n].server
  BY <1>1 DEF HoldsTogether, Requests
<1>3. objects[n] \in Pairs /\ objects[n].password \in {Blank, objects[n].server}
  <2>1. objects[n] \in Pairs /\ n \in DOMAIN objects
    BY <1>1, <1>2
  <2>. QED
    BY <2>1, SmtpAssumption DEF SmtpInv, SmtpPasswordsGoHome, GoesHome, Pairs, Passwords
<1>4. pair \in Pairs /\ GoesHome(pair)
  <2>1. KeptPassword(r) \in {Blank, req[r].want}
    BY <1>2, <1>3 DEF KeptPassword
  <2>. QED
    BY <1>2, <2>1 DEF Pairs, Passwords, GoesHome
<1>5. /\ objects' = [objects EXCEPT ![n] = pair] /\ req' = [req EXCEPT ![r] = Idle]
      /\ config' = config /\ emailProfile' = emailProfile /\ sent' = sent /\ armed' = armed
  BY DEF SyncApplies
<1>. HIDE DEF pair
<1>6. objects' \in Seq(Pairs) /\ Len(objects') = Len(objects)
  BY <1>1, <1>2, <1>4, <1>5
<1>7. \A i \in 1..Len(objects) : objects'[i] = IF i = n THEN pair ELSE objects[i]
  BY <1>1, <1>5
<1>8. ASSUME NEW q \in Requesters PROVE req'[q] \in Requests /\ HoldsTogether(req[q])'
  <2>1. CASE q = r
    <3>1. req'[q] = Idle
      BY <1>1, <1>5, <2>1
    <3>. QED
      BY <1>1, <1>6, <3>1 DEF HoldsTogether, Idle
  <2>2. CASE q # r
    <3>1. req'[q] = req[q] /\ req[q] \in Requests /\ HoldsTogether(req[q])
      BY <1>1, <1>5, <2>2 DEF SmtpInv
    <3>2. req[q].at \in {"password", "secret", "apply"} => req[q].seen # n
      BY <2>2 DEF SyncsApart
    <3>3. req[q].seen \in Nat /\ req[q].seen <= Len(objects)
      BY <3>1 DEF Requests, HoldsTogether
    <3>4. req[q].at \in {"password", "secret", "apply"} /\ req[q].seen # 0 =>
             objects'[req[q].seen] = objects[req[q].seen]
      BY <1>1, <1>7, <3>2, <3>3
    <3>5. req[q].at \in {"secret", "apply"} => req[q].seen # 0
      BY <3>1 DEF HoldsTogether
    <3>. QED
      BY <1>6, <3>1, <3>3, <3>4, <3>5 DEF HoldsTogether
  <2>. QED
    BY <2>1, <2>2
<1>9. SmtpPasswordsGoHome'
  <2>1. \A i \in DOMAIN objects' : i \in 1..Len(objects) /\ i \in DOMAIN objects
    BY <1>1, <1>6
  <2>2. \A i \in DOMAIN objects' : GoesHome(objects'[i])
    BY <1>4, <1>7, <2>1 DEF SmtpInv, SmtpPasswordsGoHome
  <2>. QED
    BY <1>5, <2>2 DEF SmtpInv, SmtpPasswordsGoHome, GoesHome
<1>10. SmtpTypeOK'
  <2>1. \A q \in Requesters :
           /\ req'[q].want \in Passwords /\ req'[q].typed \in Passwords
           /\ req'[q].old \in Passwords /\ req'[q].found \in Passwords
           /\ req'[q].seen \in 0..Len(objects')
    <3>1. \A q \in Requesters : req'[q].seen <= Len(objects')
      BY <1>8 DEF HoldsTogether
    <3>. QED
      BY <1>1, <1>6, <1>8, <3>1 DEF Requests
  <2>. QED
    BY <1>5, <1>6, <2>1 DEF SmtpInv, SmtpTypeOK
<1>11. req' \in [Requesters -> Requests]
  BY <1>1, <1>5
<1>. QED
  BY <1>8, <1>9, <1>10, <1>11 DEF SmtpInv

\* Sends, and the email profile's own requests.
LEMMA ProfileSteps ==
  ASSUME SmtpInv, SaveEmailProfile \/ DeleteEmailProfile \/ Send \/ UNCHANGED smtpVars
  PROVE  SmtpInv'
<1>1. UNCHANGED <<config, objects, armed, req>>
  BY DEF SaveEmailProfile, DeleteEmailProfile, Send, smtpVars
<1>2. emailProfile' \in Pairs \cup {Blank} /\ GoesHome(emailProfile')
  <2>1. emailProfile \in Pairs \cup {Blank} /\ GoesHome(emailProfile)
    BY DEF SmtpInv, SmtpTypeOK, SmtpPasswordsGoHome
  <2>2. CASE SaveEmailProfile
    <3>1. PICK s \in Servers : \E typed \in {Blank, s} : emailProfile' = Rebound(emailProfile, s, typed)
      BY <2>2 DEF SaveEmailProfile
    <3>. QED
      BY <2>1, <3>1, ReboundGoesHome
  <2>3. CASE DeleteEmailProfile
    BY <2>3 DEF DeleteEmailProfile, GoesHome
  <2>4. CASE emailProfile' = emailProfile
    BY <2>1, <2>4
  <2>. QED
    BY <2>2, <2>3, <2>4 DEF Send, smtpVars
<1>3. sent' \in Pairs \cup {Blank} /\ GoesHome(sent')
  <2>1. sent \in Pairs \cup {Blank} /\ GoesHome(sent)
    BY DEF SmtpInv, SmtpTypeOK, SmtpPasswordsGoHome
  <2>2. CASE Send
    <3>1. PICK k \in ScheduleKinds : armed[k] # 0 /\ sent' = objects[armed[k]]
      BY <2>2 DEF Send
    <3>2. armed[k] \in 0..Len(objects) /\ objects \in Seq(Pairs) /\ Len(objects) \in Nat
      BY DEF SmtpInv, SmtpTypeOK
    <3>3. armed[k] \in DOMAIN objects
      BY <3>1, <3>2
    <3>. QED
      BY <3>1, <3>2, <3>3 DEF SmtpInv, SmtpPasswordsGoHome
  <2>3. CASE sent' = sent
    BY <2>1, <2>3
  <2>. QED
    BY <2>2, <2>3 DEF SaveEmailProfile, DeleteEmailProfile, smtpVars
<1>4. SmtpTypeOK' /\ SmtpPasswordsGoHome'
  BY <1>1, <1>2, <1>3 DEF SmtpInv, SmtpTypeOK, SmtpPasswordsGoHome, GoesHome
<1>. QED
  BY <1>1, <1>4 DEF SmtpInv, HoldsTogether

LEMMA SmtpStepInv == SmtpInv /\ [SmtpNext]_smtpVars /\ [SyncsApart]_smtpVars => SmtpInv'
<1>1. ASSUME SmtpInv, SmtpNext, SyncsApart PROVE SmtpInv'
  <2>1. ASSUME NEW r \in Requesters,
               \/ BeginStart(r, "config") \/ BeginStart(r, "test") \/ BeginToggle(r)
               \/ ReadScheduleServer(r) \/ ReadSchedulePassword(r) \/ DecidePassword(r)
               \/ StartSavesConfig(r) \/ Arm(r) \/ SendTest(r) \/ BeginSave(r) \/ ReadConfig(r)
               \/ SyncReadsServer(r) \/ SyncReadsPassword(r) \/ SyncApplies(r)
        PROVE  SmtpInv'
    BY <1>1, <2>1, StartSteps, ReadSteps, StoreSteps, ArmStep, SyncAppliesStep
  <2>. QED
    BY <1>1, <2>1, ProfileSteps DEF SmtpNext
<1>. QED
  BY <1>1, ProfileSteps

\* _stored_smtp_password, _sync_automation_from_email_config: a password is
\* kept and sent with the server it was typed for only, whatever requests,
\* sends and saves of profiles come between the steps, unless a save writes a
\* schedule between another request's reads of it.  The run that lets it do
\* that shows the password going elsewhere: this is the only way it can.
THEOREM SmtpPasswordsGoHomeHolds == SmtpSpec /\ [][SyncsApart]_smtpVars => []SmtpPasswordsGoHome
<1>1. SmtpInv => SmtpPasswordsGoHome
  BY DEF SmtpInv
<1>. QED
  BY <1>1, SmtpInitInv, SmtpStepInv, PTL DEF SmtpSpec
=============================================================================
