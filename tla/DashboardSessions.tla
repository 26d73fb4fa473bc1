------------------------- MODULE DashboardSessions -------------------------
(***************************************************************************)
(* Dashboard sessions (sessions.py): connections to a NetWorker server that*)
(* requests, the shared view's refresh loop and scheduled reports build    *)
(* dashboards with.  A build reads its session object once, waits for      *)
(* NetWorker, logs in again when refused, and at its end writes the report *)
(* range it began with back to that object; meanwhile the object may have  *)
(* been expired, purged with its profile, or replaced under the same id.   *)
(*                                                                         *)
(* persist_sessions takes no lock: a thread takes its snapshot of the live *)
(* sessions in one step and writes it in a later one, so saves of several  *)
(* threads may land in any order (StateFile has the write itself step by   *)
(* step).  One credential.  A session object is a number; its other fields *)
(* do not change.  A session may expire at any time.                       *)
(***************************************************************************)
EXTENDS Naturals, FiniteSets

CONSTANTS
    Workers,        \* threads that build dashboards, log in or serve a request
    Ids,            \* session ids
    Ranges,         \* report ranges
    DefaultRange,   \* DEFAULT_REPORT_RANGE
    FailedSaves,    \* whether a write of sessions.json may fail
    MaxObjects,     \* bound on the session objects made, for model checking only
    None            \* no session, no dashboard, no record, no save

ASSUME SessionsAssumption ==
    /\ DefaultRange \in Ranges /\ MaxObjects \in Nat /\ FailedSaves \in BOOLEAN
    /\ None \notin Ids \cup Ranges

VARIABLES
    registry,   \* DASHBOARD_SESSIONS: per id its session object, 0 for none
    made,       \* session objects made so far
    range,      \* per object: config.report_range
    records,    \* sessions.json: per id the range saved with it, or None
    saving,     \* per worker: the snapshot it has taken and not yet written, or None
    toRestore,  \* per id: the record the restore has yet to log in with, or None
    held,       \* an email schedule holds a snapshot of the connection
    job,        \* per worker: the build, login or purge it is in the middle of
    cache,      \* the last good dashboard shared: its session and range, or None
    chosen,     \* ghost: per id, the ranges someone at a page asked for
    lastChoice, \* ghost: per id, the last of them
    report,     \* ghost: the scheduled report last mailed, until its build is over: what is
                \* owed and what is sent
    purged      \* ghost: how the profile's deletion went, see Purge

sessionVars == <<registry, made, range, records, saving, toRestore, held, job, cache,
                 chosen, lastChoice, report, purged>>

ghosts == <<chosen, lastChoice, report, purged>>

Objects == 1 .. MaxObjects
Dashboards == [id : Ids \cup {None}, range : Ranges]
Kinds == {"view", "report", "health", "login", "purge"}
Places == {"idle", "build", "again", "retry", "gap", "fresh", "stale", "restore", "recreate", "save"}
Records == [Ids -> Ranges \cup {None}]
Job(kind, at, i, o, r) == [kind |-> kind, at |-> at, id |-> i, object |-> o, range |-> r]
NoJob == Job("none", "idle", None, 0, DefaultRange)

SessionsTypeOK ==
    /\ registry \in [Ids -> 0 .. MaxObjects] /\ made \in 0 .. MaxObjects
    /\ range \in [Objects -> Ranges]
    /\ records \in Records /\ toRestore \in Records
    /\ saving \in [Workers -> Records \cup {None}]
    /\ held \in BOOLEAN
    /\ job \in [Workers -> [kind : Kinds \cup {"none"}, at : Places,
                            id : Ids \cup {None}, object : 0 .. MaxObjects, range : Ranges]]
    /\ cache \in Dashboards \cup {None}
    /\ chosen \in [Ids -> SUBSET Ranges] /\ lastChoice \in [Ids -> Ranges]
    /\ report \in [owed : Dashboards, sent : Dashboards] \cup {None}
    /\ purged \in {"no", "begun", "racing", "clean", "excused"}

SessionsInit ==
    /\ registry = [i \in Ids |-> 0] /\ made = 0
    /\ range = [o \in Objects |-> DefaultRange]
    /\ records = [i \in Ids |-> None] /\ toRestore = records
    /\ saving = [w \in Workers |-> None]
    /\ held = FALSE /\ cache = None
    /\ job = [w \in Workers |-> NoJob]
    /\ chosen = [i \in Ids |-> {}] /\ lastChoice = [i \in Ids |-> DefaultRange]
    /\ report = None /\ purged = "no"

Live(i) == registry[i] # 0
Free(w) == job[w] = NoJob /\ saving[w] = None

-----------------------------------------------------------------------------
\* Saving sessions.json.

\* What persist_sessions writes: a record for every live session (each config is
\* read as the list of them is walked; here at once).
Snapshot(live, ranges) == [i \in Ids |-> IF live[i] = 0 THEN None ELSE ranges[live[i]]]

\* A thread takes the snapshot it will write.
Save(w, live, ranges) == saving' = [saving EXCEPT ![w] = Snapshot(live, ranges)]

PurgeUnderWay(w) == job[w].kind = "purge"

\* A deletion is over when the last request that makes one has saved.
Settled(w, wrote) ==
    IF ~PurgeUnderWay(w) \/ \E v \in Workers \ {w} : PurgeUnderWay(v) THEN purged
    ELSE IF purged = "begun" /\ wrote THEN "clean"
    ELSE IF purged \in {"begun", "racing"} THEN "excused"
    ELSE purged

\* It writes the snapshot, whatever was written since; or the write fails,
\* which persist_sessions passes over.
EndSave(w) ==
    /\ saving[w] # None
    /\ saving' = [saving EXCEPT ![w] = None]
    /\ \/ records' = saving[w] /\ purged' = Settled(w, TRUE)
       \/ FailedSaves /\ UNCHANGED records /\ purged' = Settled(w, FALSE)
    /\ job' = IF PurgeUnderWay(w) THEN [job EXCEPT ![w] = NoJob] ELSE job
    /\ UNCHANGED <<registry, made, range, toRestore, held, cache, chosen, lastChoice, report>>

-----------------------------------------------------------------------------
\* How sessions come and go.

NewObject(i, r) ==
    /\ made < MaxObjects
    /\ made' = made + 1
    /\ registry' = [registry EXCEPT ![i] = made + 1]
    /\ range' = [range EXCEPT ![made + 1] = r]

\* create_dashboard_session, after a login with a typed or stored password:
\* under an id no session had yet.
Connect(w, i, r) ==
    /\ Free(w) /\ chosen[i] = {}
    /\ NewObject(i, r)
    /\ Save(w, registry', range')
    /\ chosen' = [chosen EXCEPT ![i] = {r}] /\ lastChoice' = [lastChoice EXCEPT ![i] = r]
    /\ purged' = "no"
    /\ UNCHANGED <<records, toRestore, held, job, cache, report>>

\* cleanup_dashboard_sessions, by a worker about to build.
Expire(w, i) ==
    /\ Free(w) /\ Live(i)
    /\ registry' = [registry EXCEPT ![i] = 0]
    /\ Save(w, registry', range)
    /\ UNCHANGED <<made, range, records, toRestore, held, job, cache>> /\ UNCHANGED ghosts

\* connection_snapshot_for_session: a schedule keeps the connection.
Hold(i) ==
    /\ Live(i) /\ ~held /\ held' = TRUE
    /\ UNCHANGED <<registry, made, range, records, saving, toRestore, job, cache>> /\ UNCHANGED ghosts

LoginUnderWay == \E w \in Workers : job[w].kind = "login"

\* A login may bring the session back, or a save its record.
Raced ==
    \/ LoginUnderWay \/ \E i \in Ids : toRestore[i] # None
    \/ \E v \in Workers : saving[v] # None /\ \E i \in Ids : saving[v][i] # None

\* Faulty variant: the snapshot is taken before the sessions go.
PurgeSavesFirst(w) ==
    /\ Free(w)
    /\ registry' = [i \in Ids |-> 0]
    /\ purged' = IF Raced THEN "racing" ELSE "begun"
    /\ job' = [job EXCEPT ![w] = Job("purge", "save", None, 0, DefaultRange)]
    /\ Save(w, registry, range)
    /\ UNCHANGED <<made, range, records, toRestore, held, cache, chosen, lastChoice, report>>

\* purge_sessions_for_credential, when the profile is deleted: the live
\* sessions of its host and user are dropped, and sessions.json is rewritten.
\* A schedule's snapshot is left alone.  The deletion is "begun", or "racing"
\* if it was Raced; it is "clean" once a deletion that was not has saved, and
\* otherwise "excused".
Purge(w) ==
    /\ Free(w)
    /\ registry' = [i \in Ids |-> 0]
    /\ purged' = IF Raced THEN "racing" ELSE "begun"
    /\ job' = [job EXCEPT ![w] = Job("purge", "save", None, 0, DefaultRange)]
    /\ Save(w, registry', range)
    /\ UNCHANGED <<made, range, records, toRestore, held, cache, chosen, lastChoice, report>>

\* _restore_session_record starts to log in: for the restore at start-up from
\* the records it read, or for a schedule whose session is gone from its
\* snapshot (recreate_session_from_snapshot).
BeginLogin(w, i) ==
    /\ Free(w)
    /\ \E r \in Ranges, for \in {"restore", "recreate"} :
          /\ \/ for = "restore" /\ toRestore[i] = r /\ toRestore' = [toRestore EXCEPT ![i] = None]
             \/ for = "recreate" /\ held /\ ~Live(i) /\ r \in chosen[i] /\ UNCHANGED toRestore
          /\ job' = [job EXCEPT ![w] = Job("login", for, i, 0, r)]
    /\ UNCHANGED <<registry, made, range, records, saving, held, cache>> /\ UNCHANGED ghosts

\* The login succeeded: a new object under the id (only the schedule's run
\* saves it at once); or it failed.
EndLogin(w) ==
    /\ job[w].kind = "login"
    /\ job' = [job EXCEPT ![w] = NoJob]
    /\ \/ /\ NewObject(job[w].id, job[w].range)
          /\ IF job[w].at = "restore" THEN UNCHANGED saving ELSE Save(w, registry', range')
       \/ UNCHANGED <<registry, made, range, saving>>
    /\ UNCHANGED <<records, toRestore, held, cache>> /\ UNCHANGED ghosts

\* The service is restarted, between any two steps: the restore reads the file
\* once.  The last good dashboard's file survives.  A deletion that was not
\* over has promised nothing.
SessionsRestart ==
    /\ registry' = [i \in Ids |-> 0]
    /\ toRestore' = records
    /\ job' = [w \in Workers |-> NoJob]
    /\ saving' = [w \in Workers |-> None]
    /\ purged' = IF purged \in {"begun", "racing"} THEN "no" ELSE purged
    /\ report' = None
    /\ UNCHANGED <<made, range, records, held, cache, chosen, lastChoice>>

-----------------------------------------------------------------------------
\* build_dashboard_from_session.

Start(w, kind, i, r) ==
    job' = [job EXCEPT ![w] = Job(kind, "build", i, registry[i], r)]

\* A page, an export or the multi-server view asks for a range: it is set on
\* the session at once.
BeginView(w, i, r) ==
    /\ Free(w) /\ Live(i)
    /\ Start(w, "view", i, r)
    /\ range' = [range EXCEPT ![registry[i]] = r]
    /\ chosen' = [chosen EXCEPT ![i] = @ \cup {r}] /\ lastChoice' = [lastChoice EXCEPT ![i] = r]
    /\ UNCHANGED <<registry, made, records, saving, toRestore, held, cache, report, purged>>

\* The refresh loop builds like a page, with the session's range, and so does a
\* health refresh; a scheduled report has a range of its own.
BeginOther(w, kind, i, r) ==
    /\ Free(w) /\ Live(i)
    /\ kind # "report" => r = range[registry[i]]
    /\ Start(w, kind, i, r)
    /\ UNCHANGED <<registry, made, range, records, saving, toRestore, held, cache>> /\ UNCHANGED ghosts

\* NetWorker wants a login again, or its job source gave nothing: one login
\* with the stored password, which is saved, then the build once more.  The two
\* conditions are separate ifs, so a failed login may be followed by a second
\* one.  A health refresh logs in again when it is refused.
Relogin(w, reason) ==
    /\ saving[w] = None
    /\ job[w].kind \in {"view", "report"} \/ (job[w].kind = "health" /\ reason = "refused")
    /\ job[w].at = "build" \/ (job[w].at = "again" /\ reason = "gap")
    /\ \/ job' = [job EXCEPT ![w].at = "retry"] /\ Save(w, registry, range)
       \/ /\ job' = [job EXCEPT ![w].at = IF reason = "gap" THEN "gap" ELSE "again"]
          /\ UNCHANGED saving
    /\ UNCHANGED <<registry, made, range, records, toRestore, held, cache>> /\ UNCHANGED ghosts

\* A session of another server, not among Ids, shares its dashboard, of
\* whatever range.
ShareOther ==
    /\ cache' = [id |-> None, range |-> DefaultRange]
    /\ UNCHANGED <<registry, made, range, records, saving, toRestore, held, job>> /\ UNCHANGED ghosts

\* Faulty variant: whatever was shared last will do.
AnyCached(w) == IF cache = None THEN {} ELSE {cache}

\* stale_dashboard_from_cache: the last good dashboard of this session, and for
\* a scheduled report of its own range.
Cached(w) ==
    {d \in {cache} \ {None} : d.id = job[w].id /\ (job[w].kind = "report" => d.range = job[w].range)}

\* NetWorker answered, in the end: the dashboard is fresh, or after a gap that
\* no login closed the last good one if there is one.  A scheduled report mails
\* the one or the other.  The sessions are saved.
Answer(w) ==
    /\ job[w].kind \in {"view", "report"} /\ saving[w] = None
    /\ \E d \in {[id |-> job[w].id, range |-> job[w].range]} \cup Cached(w), mailed \in BOOLEAN :
          /\ \/ /\ job[w].at \in {"build", "again", "retry"}
                /\ d = [id |-> job[w].id, range |-> job[w].range] /\ mailed
                /\ job' = [job EXCEPT ![w].at = "fresh"]
             \/ /\ job[w].at \in {"retry", "gap"} /\ (mailed => d \in Cached(w))
                /\ job' = [job EXCEPT ![w].at = "stale"]
          /\ report' = IF job[w].kind = "report" /\ mailed
                       THEN [owed |-> [id |-> job[w].id, range |-> job[w].range], sent |-> d] ELSE report
    /\ Save(w, registry, range)
    /\ UNCHANGED <<registry, made, range, records, toRestore, held, cache, chosen, lastChoice, purged>>

\* Faulty variant: every build remembers its range.
RememberAlways(w) == range' = [range EXCEPT ![job[w].object] = job[w].range]

\* remember_range: all but scheduled builds write their range back.
Remember(w) ==
    range' = IF job[w].kind = "report" THEN range
             ELSE [range EXCEPT ![job[w].object] = job[w].range]

\* The build is over, answered and saved or failed, and its range is written
\* back.  Pages and the refresh loop share a fresh dashboard.
EndBuild(w) ==
    /\ job[w].kind \in {"view", "report"} /\ saving[w] = None
    /\ job[w].at # "gap"
    /\ job' = [job EXCEPT ![w] = NoJob]
    /\ Remember(w)
    /\ cache' = IF job[w].at = "fresh" /\ job[w].kind # "report"
                THEN [id |-> job[w].id, range |-> job[w].range] ELSE cache
    /\ report' = IF job[w].kind = "report" THEN None ELSE report
    /\ UNCHANGED <<registry, made, records, saving, toRestore, held, chosen, lastChoice, purged>>

\* build_server_health_from_session writes its range back as well, unless
\* NetWorker could not be asked.
EndHealth(w) ==
    /\ job[w].kind = "health" /\ saving[w] = None
    /\ job' = [job EXCEPT ![w] = NoJob]
    /\ \/ UNCHANGED range
       \/ job[w].at # "again" /\ range' = [range EXCEPT ![job[w].object] = job[w].range]
    /\ UNCHANGED <<registry, made, records, saving, toRestore, held, cache>> /\ UNCHANGED ghosts

SessionsNext ==
    \/ \E w \in Workers, i \in Ids, r \in Ranges : Connect(w, i, r)
    \/ \E w \in Workers, i \in Ids : Expire(w, i)
    \/ \E i \in Ids : Hold(i)
    \/ \E w \in Workers : Purge(w) \/ EndSave(w)
    \/ SessionsRestart
    \/ ShareOther
    \/ \E w \in Workers, i \in Ids : BeginLogin(w, i)
    \/ \E w \in Workers, i \in Ids, r \in Ranges : BeginView(w, i, r)
    \/ \E w \in Workers, kind \in {"view", "health", "report"}, i \in Ids, r \in Ranges :
           BeginOther(w, kind, i, r)
    \/ \E w \in Workers, reason \in {"refused", "gap"} : Relogin(w, reason)
    \/ \E w \in Workers : EndLogin(w) \/ Answer(w) \/ EndBuild(w) \/ EndHealth(w)

SessionsSpec == SessionsInit /\ [][SessionsNext]_sessionVars

-----------------------------------------------------------------------------
(* Properties                                                              *)

\* A scheduled report shows its own server and range, also when NetWorker gave
\* no job data and the last good dashboard stands in.
ReportsCoverTheirRange == report # None => report.sent = report.owed

\* A session shows only ranges someone at a page chose for it: no scheduled
\* build leaves its own behind, over restores and replaced objects too.
RangesWereChosen == \A i \in Ids : Live(i) => range[registry[i]] \in chosen[i]

\* Once the request that deletes a profile is over, no session and no record of
\* its credential is left, nor comes back: over builds that began before, saves
\* that end late, and restarts.  Not if a login, a restore or a save that still
\* had the session was under way when it began, if its own save failed, or if
\* a schedule holds the connection.
PurgedStaysPurged ==
    (purged = "clean" /\ ~held) => \A i \in Ids : ~Live(i) /\ records[i] = None

\* server.py, POST /api/profiles: "Deleting the profile must also destroy the
\* copy of its password that any session it established left behind."
PurgedCredentialIsGone ==
    (purged \in {"clean", "excused"} /\ ~held /\ ~LoginUnderWay) =>
        \A i \in Ids : ~Live(i) /\ records[i] = None

\* build_dashboard_from_session: "An interactive range change is remembered on
\* the session, so later builds without a range (the shared view) follow it."
\* Asked while no schedule holds an older snapshot to log in with.
RangeFollowsLastChoice ==
    (~held /\ \A w \in Workers : Free(w)) =>
        \A i \in Ids : Live(i) => range[registry[i]] = lastChoice[i]
=============================================================================
