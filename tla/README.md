# Formal model of NWDash

NWDash is a Windows service in Python that shows the state of a Dell NetWorker
backup estate: a threaded HTTPS server, a NetWorker client, a live stream to
viewers, and email alerts and daily reports on schedules of their own. This
directory holds TLA+ models of it, the TLC instances that check them and TLAPS
proofs about them. References are to files of the repository; `PROJECT.json`
maps every definition to its lines.

Contents: [the system](#the-system), [the modules](#the-modules),
[what is checked](#what-is-checked), [what is proved](#what-is-proved),
[what the model says of the code](#what-the-model-says-of-the-code),
[what is not modelled](#what-is-not-modelled), [the plan](#the-plan).

## The system

One process. The main thread (`main.run`) starts the HTTPS listener, one handler
thread per request, the shared-dashboard refresh thread, a thread that restores
the persisted state, the automatic-snapshot thread and the email scheduler
thread. Every email run has a thread of its own. They share registries in
memory, each guarded by a lock that is held for one operation at a time and
never over a network call, and JSON files under `data/`. There is no database
and no transaction over more than one file or one registry operation: what is
hard in this code is what happens between two such operations.

| Component | State | Operations | Interacts with | What makes it correct |
|---|---|---|---|---|
| State files (`fileio.py`) | the files under `data/` | write a temporary file, replace with retries | every component that persists | a file is the old value or the new, never goes back, and is current when nothing is being saved |
| Email schedule registry (`emailer.py`, `models.py`) | `ALERT_AUTOMATIONS`, `automations.json`, `email_config.json`, `email_profiles.json` | start, edit, save, stop, pause, profile save/on/off/delete, restore, reconcile, cancel at shutdown | sessions (connection snapshots), runs, state files | one config-driven schedule per type; the file is the registry; a stopped schedule stays stopped; healing never drops the last schedule of a type |
| Email schedule runs (`emailer.py`) | next run, last signature, failures, `_RUNS_IN_FLIGHT`, `_LAST_SENT_BY_IDENTITY` | tick, claim, build, check, send, record, retry, resume after a restart | registry, sessions, SMTP | one run per schedule; no report twice, early or under another date; an owed report is tried until its day ends; every claim is given back |
| SMTP password binding (`snapshots.py`, `emailer.py`) | encrypted passwords beside the server they were saved for | save, start, test, re-aim, reconcile, send | registry, runs | a password goes only to its own server |
| Dashboard sessions (`sessions.py`) | `DASHBOARD_SESSIONS`, `sessions.json`, each session's range | connect, build, re-login, expire, purge, restore, recreate | NetWorker, shared dashboard, runs | a purged credential stays gone; a report covers its own range; a remembered range is one somebody chose |
| Connection profiles, secrets (`profiles.py`, `secrets.py`) | `profiles.json`, the key file | save, delete, resolve, migrate, load the key | sessions | a stored password is used only for its own connection; no start loses one |
| Shared dashboard and stream (`models.py`, `server.py`) | `SHARED_DASHBOARD_STATE`, last-good file, viewers' queues | refresh, publish, broadcast, register, drop | sessions, browser pages | viewers get dashboards in order or are dropped, and end up with the latest; no viewer delays another |
| NetWorker client, job outcome rules (`nwui.py`, `restapi.py`, `job_status.py`) | the job-history cache | page, try versions, merge, cache, count | sessions | no failure is missed; no job is lost or counted twice |
| Snapshots, preferences (`snapshots.py`) | snapshot file, UI preferences | save by hand, save yesterday's, prune | shared dashboard | an existing day is not overwritten |
| Sign-in, admin window (`auth.py`, `admin.py`, `server.py`) | login table and its file, admin windows, failed attempts, setup code | sign in, out, unlock, lock, revoke, change password | every request | a login ended stays ended; the failure limit holds; a changed password ends the logins of the old one |
| Admin console (`admin.py`) | certificate files, audit log, allow-list | replace, roll back, put back, audit | listener | the files on disk are the pair that is served |
| Share tokens (`models.py`) | `SHARE_TOKENS` | create, check, revoke, expire | sessions, TV page | one valid token per session |
| Browser pages (`assets/*.js`) | session id, refresh timers | refresh, receive pushes | server | a page applies only its own session's pushes |
| Installer (`deploy/`) | installed versions | swap, roll back | service | a failed upgrade leaves the old version |

The remaining parts (reports, WMI health, certificate generation, routing)
compute or format and keep no state of their own.

The hazards of the code, each at its line and with the properties that guard
against it, are listed in `PROJECT.json`.

## The modules

| Module | Models | Relation to the others |
|---|---|---|
| `DurableState` | the promise of a state file | abstract specification |
| `StateFile` | threads that change a registry and save it to a file | implements `DurableState`; the other modules take its save in one or two steps |
| `Automations` | the registry of schedules and all that changes it | saves as in `StateFile`; a run appears as its final save |
| `AutomationRuns` | the tick, the claims and the runs | a request is one step; how requests interleave is in `Automations` |
| `SmtpPasswords` | the SMTP passwords of the config, a profile and the schedules | the requests of `Automations` again, reduced to servers and passwords and cut where those are read |
| `DashboardSessions` | sessions, builds, logins, the purge, the shared dashboard as a cache | a save is two steps, the snapshot and the write, under no lock (`StateFile` has the steps of the write) |
| `StoredPasswords` | connection profiles, their encrypted passwords and the key file | independent |
| `ViewerStream` | what `/api/stream` promises one viewer | abstract specification |
| `SharedDashboard` | publications, the last-good file, the broadcast and the viewers' threads | implements `ViewerStream` |
| `JobReports` | a build's questions to NetWorker, the history cache, merging and counting | a build of `DashboardSessions` from the inside |
| `MonitoringPages`, `RestFallback` | one question to NWUI, one to the jobs database | `ReadLive`, `ReadRecoveries`, and `Fetch` of `JobReports` from the inside |
| `DailySnapshots` | the automatic snapshot beside the requests that change snapshots | independent |
| `Selections` | what a list comprehension keeps | used by `SignIn` and `MonitoringPages`; a recursive function, so that it can be proved about |
| `SignIn` | logins, the admin window, the failure limit, passwords | independent |
| `CertificateSwap` | the upload of a certificate, its roll-back, putting the previous one back | independent |
| `MCStateFile`, `MCAutomations`, `MCAutomationRuns`, `MCViewers` | the values of an instance's constants | one module each |
| `MCConsole` | an instance of `SignIn` and `CertificateSwap` | components with no state in common: a behaviour is one of them |
| `MCStores` | an instance of `DashboardSessions`, `StoredPasswords`, `SmtpPasswords` | the same |
| `MCCollector` | an instance of `JobReports`, `DailySnapshots`, `MonitoringPages`, `RestFallback` | the same |
| `...Proofs` | theorems | |

In the last three instances a variable (`desk`, `store`, `topic`) picks the
component a behaviour is about, and the others stay as they start: the product of
machines that share nothing would only multiply states.

### StateFile

`registry` and `file` are the value in memory and the value on disk. A value is
the number of the change that made it, which is all the properties need: "older"
is "less". A thread goes `idle` -> `changed` (`Change`, a registry operation) ->
`saving` (`BeginSave`: the registry is read and the temporary file written) ->
`idle`. In between `ReplaceRefused` is one `PermissionError` and wait of
`replace_with_retry`; `Replaced` and `SaveFailed` are the two ends of
`atomic_write_bytes`. `SerializedSaves` says whether the caller holds a lock from
the read to the replace: `persist_automations` does, `persist_sessions` does not.
`unsaved` tells that the failure has been logged and nothing saved since.
`Crash` is the end of the process at any point and the next one's read of the
file.

### Automations

A schedule object is numbered in the order of creation, so its number is its
`created_at`. `registry` maps keys to objects, and a key is the number of the
first object put under it: an edit puts a new object under an old key, which is
why cancelling by key can hit an object other than the one listed. `obj` holds
the fields: threads share objects and change them in place, registered or not.
What is sent and to whom is `type` and `dest`; SMTP server and sender are the
same for all. `config` and `profiles` are the two JSON files read during
requests.

Every registry operation takes `REGISTRY_LOCK` and releases it, so each is a
step; `pc` names the points between the steps of a request:

| Request | Steps |
|---|---|
| start, edit | `BeginStart` (same-identity schedules and the edited one are read), `SaveConfig`, `Create`, `Cancel` for each of the same identity, `FindOthers`, `Cancel` for each, `Replace`, `Put`, reconcile, save |
| reconcile | `Reconcile` (superseded and keepers are read), `LoadConfig`, `Cancel` and `Sync` in any order of types, `Healed` |
| save | `BeginSaveConfig`, `SaveConfig`, reconcile, save if something changed |
| stop | `BeginStop`, `Cancel`, `Cancelled`, save |
| pause, resume | `BeginSetEnabled`, `SetEnabled`, save |
| profile on, off, saved, deleted | `BeginToggleOn` / `BeginToggleOff` / `BeginSaveProfile` and `StoreProfile`, `RereadProfile` / `DeleteProfile`, then `FindMatches`, `Create`, `FindSameIdentity`, `Cancel`, `MatchesCancelled`, `Put`, save |
| the end of a run | `EndRun`, save |
| restore | `ReadFile`, `RestoreOne` for each record, `HealDuplicates`, `Cancel`, `DuplicatesHealed`, reconcile, save if something changed |
| shutdown | `BeginShutdown`, `Cancel` for each, `Exit` |

`save` is `BeginSave` then `WriteFile` or `WriteFails`, one thread at a time.
`Crash` and `Exit` end all threads and start the next process.
Requests are served from before the restore on, as `main.run` has the listener up
before it starts the thread that restores, and a run may end as soon as some schedule
is in memory. Three histories note what that costs, and the properties say it
(see [what the model says of the code](#what-the-model-says-of-the-code)): `early`, the
schedules made and saved before the restore had read the file; `partial`, that the
last save was begun before every record was back; `crossed`, that a schedule was dropped
or replaced by a request or the shutdown while the restore ran.

### AutomationRuns

Time is cut into units, `DayLength` of them a day. An instant the program
computes is the start of a unit and the clock is a little past it, so "the send
time has come" and "the send time is not after the schedule was armed" compare as
they do in the code. `next`, `signed` (the day or the content last sent),
`failures`, `lastRun` and `born` are the schedule's own fields.

The scheduler (`tick`) takes a snapshot of keys with their objects (`BeginTick`),
looks at each (`Look`), and for one due finds it running (`StillRunning`), starts
a thread (`Fire`) or fails to (`FireFails`, which ends the tick). A run
(`pc[r]`) looks its key up again (`BeginRun`), builds (`Build`, `BuildFails`;
`Adopt` saves midway), decides (`Check`), sends (`Send`, `SendFails`), records
(`Record`), and in the `finally` block computes the next run (`Close`), saves
(`Save`) and gives the claim back (`Release`). `Advance` is the clock,
`EstateChanges` the NetWorker estate, `Restart` a crash or, between runs, a
clean restart that restores `automations.json` with `ResumeTime`.

`inbox` is a history variable: what the recipients of an identity got last, and
whether it came twice in a row. So are `untimely` and `passedOver`, the schedules whose
next report may go out under the wrong day, or be left out: a midnight caught them due,
under way or (`PutOff`) with a thread that did not start, or a request overtook a tick
or a run. Each is entered by the step that does it and left by the one that mends it.

### SmtpPasswords

A server is one value (host, port, user, security), and a password is named by the
server it was typed for, so "a password goes home" is `password = server`.
`config` and `emailProfile` are the stored pairs, `objects` the pairs of the
schedules ever made, `armed` which of them runs. Saving or deleting a profile is one step
(`EMAIL_PROFILES_LOCK`), a send reads a schedule's pair under
`_AUTOMATION_SMTP_LOCK`. A start or a test goes `BeginStart` (or `BeginToggle`),
`ReadScheduleServer`, `ReadSchedulePassword`, `DecidePassword`, `StartSavesConfig`,
`Arm` / `SendTest`; a save goes `BeginSave`, `ReadConfig`, `SyncReadsServer`,
`SyncReadsPassword`, `SyncApplies`: the points at which the code reads another
lock's data.

### DashboardSessions

A session object is a number, as its other fields do not change; `range` is its
report range. `registry` and `records` are the registry and the file, `saving` the
snapshot that each thread has taken (`Save`) and not yet written (`EndSave`, which may
fail where `FailedSaves` says so): `persist_sessions` takes no lock, so those of two threads
land in any order. `toRestore` is
what the start-up restore has read and not yet logged in with, `held` that a
schedule keeps a snapshot of the connection, `cache` the last good dashboard.
A worker's `job` is the build, login or purge it is in: `BeginView`, `BeginOther` (the
refresh loop, a scheduled report, server health), `Relogin` (a refused session or
missing job data; the two are separate `if`s in the code), `Answer` (the dashboard is
there and the sessions are saved), `EndBuild` (the range is written back, a fresh
dashboard shared), `EndHealth`; `BeginLogin`, `EndLogin` (the restore, or a schedule that
recreates its session); `Connect`, `Expire` and `Purge`, each with its save. `Hold`,
`ShareOther` and `SessionsRestart` may come in between. `purged` is a history: whether a
deletion was begun, whether a login or a save that had the session was under way then
(`Raced`), and how its own save went.

### StoredPasswords

A blob is a password (named by the connection it was saved for) under a key, in the
old form or bound to its profile. `KeyFileChanges` is the operator's doing: the file
replaced, put back, or unreadable for the account of the service. `LoadKey`
and `Migrate` are the two stages of a start, the rest are requests under
`PROFILES_LOCK`.

### SharedDashboard

A dashboard is the number of its publication. A publisher goes `Share` (state
under its lock), `WriteLastGood`, `CopyClients` (the broadcast's copy of the
list), `Offer` to each viewer, `Published`. `ShareStale` copies the shared dashboard,
or the file's when the shared one is another session's or there is none, and goes
straight to the broadcast. A
viewer's thread goes `Connect`, `FirstFrame` (what is shared, read after
registering), `Written`, `NextFrame`, and `Leave` when the write fails or the
viewer was closed by an `Offer` that found `Limit` frames queued. `SharedRestart`
leaves the file. In the refinement a viewer's pending dashboards are the one its thread is
writing and those in its queue.

### JobReports, MonitoringPages, RestFallback

`JobReports`: NetWorker's `jobs` go on while a build asks. In NWUI mode a build
goes `BeginBuild`, `ReadLive`, `ReadRecoveries`, `LookUp` (the cache), `Fetch`,
`Store`, `Deliver`; in REST mode `AskJobs` and `AskOther` (asked at once, answered
in either order), `SumUp`. Every question may fail. `cache` is shared by all builds.
A job's `RunOf` is what records without an id are told apart by. `report` is the
dashboard a step delivers, with its window, rows and health.

`MonitoringPages` is the pair of loops that reads one list: pages at NWUI's own
size, the strategies after a refusal, the cap on pages. What NWUI does (its page
size, whether it counts, whether it clamps) is chosen at the start. `RestFallback`
is the loop over hosts and versions with its retries without a refused field.

### DailySnapshots

Per day a record, by hand or automatic, annotated or not. `AutoCheck`,
`AutoBuilt` and `AutoSave` are the automatic save, which holds the lock only at
its two ends; the requests come in between.

### SignIn

Login ids are numbers in the order of issue, a password is the number of times
one was set. `expiry` and `saved` are the login table and its file, `adminUntil` the
admin windows. A request's `at` names the points between what it checks and what it
does about it (the lock takes after a successful check are one step: the failures
cleared, the login issued and its window opened):
`BeginGuess` (the limit), `CheckGuess`, `RecordFailure` or one of `SignedIn`,
`Unlocked`, `SignInEnabled`; `AdminGate`, `ExtendWindow`, then `Revoke`,
`BeginChange` or nothing; `StorePassword`, `EndOtherLogins`. `SignOut`,
`LockAdmin`, the clock and `Restart` come in between. Every write of the login
file may fail, after which the table in memory carries on alone.

### CertificateSwap

A certificate is the number of its upload, a key that of its certificate, so a pair
loads when the two are equal. `swapAt` follows `_swap_in` file by file: `KeepFile`,
`ReplaceFile`, `KeepPrevious`, `Apply`; `StepFails` anywhere leads to `RollBack`,
which may fail too. `replaced` and `lost` are histories: the pair that the last applied
swap replaced, and whether a failed or interrupted copy has spoilt the kept one since.
`ReadPrevious` and `PutBack` are the restore request, which reads
the kept pair outside the lock. `CertCrash` is the end of the process at any point.

## What is checked

| Run | Question | Size and bounds |
|---|---|---|
| `state_file_locked` | do saves land in order, end, and leave the file current? | 3 threads, 5 changes, 3 tries: 1369 states. Two savers and a third change between them is the least that can go wrong |
| `automations_arm` | is one config-driven schedule per type left, also when requests are served before and during the restore? | starts, edits, profiles; 2 threads beside the restore, 1 type, 2 destinations, 1 profile, 2 objects: 2.2 million |
| `automations_stop` | is the file the registry, does a stop last? | starts, stops, config saves, shutdowns, crashes, from before the restore on; 2 threads beside it, 1 destination, 2 objects: 2.0 million |
| `automations_restore` | do the healing passes keep a schedule of every type and save what they did? | 5 initial files with up to 3 records, 2 types; one thread that pauses, stops everything or ends a run, failed writes, crashes: 1.5 million |
| `runs_emails` | nothing twice in a row, no report early, none forgotten | a report or an alert, 2 contents, a day and a half of four units each, retries after 1 and 2 units, failing builds, sends and threads; 1 runner: 2.6 million |
| `runs_claims` | one run per schedule, claims are runs; due schedules are run, claims given back | stop, edit, move, pause; failing builds, threads that do not start; 2 runners, 2 objects, 2 units: 265 thousand |
| `stores` | do reports cover their range, do purged sessions stay gone, does every password stay with its connection and server, over restarts and key files? | sessions: one id, 2 workers, 2 ranges, 2 objects; profiles: 2 of them, 2 connections, 2 keys; email: 2 servers, 2 schedules, one request at a time: 1.4 million |
| `viewers` | does the stream keep its promise, do pages and the last-good file catch up, does nobody wait for a viewer? | 2 dashboards, a queue of one frame, one slot; two publications at once beside a viewer, or one beside two viewers: 60 thousand |
| `collector` | is no failure missed, no job counted twice, no row lost unnoticed, no snapshot overwritten? | 2 jobs and one build, or one job and two builds, over two days; lists of 5 with 3 strategies and 4 pages; 3 endpoints, 2 fields; 2 savers, 3 snapshot days of which 2 are kept: 3.3 million |
| `console` | do ended logins and shut windows stay so, are guesses bounded, do old logins end, are the certificate files the pair that is served? | 2 threads, a table of 2, 3 logins, 2 passwords, a limit of 2, 2 units of time; 2 uploads: 2.3 million |
| `smtp_reaimed`, `restores_collapse` | two sentences of the code that it does not keep | see [what the model says of the code](#what-the-model-says-of-the-code) |

The bounds are on changes, objects, uploads and the clock (`MaxChanges`,
`MaxObjects`, `MaxNow` and their like); each is a conjunct of the action it
bounds, and in `StateFile`, `Automations` and `AutomationRuns` no request is stopped
halfway by one. `Ops`, `Requests`, `Faults`, `Stores` and `Topics` choose what an instance is
about, so that each question meets the operations it needs; between them the runs
take every action. Two request threads are enough for every interleaving of a
pair of requests; the restore, the shutdown and a crash are further actors. Where
a component has a limit (queue, slots, table of logins, pages, snapshots), the
instance reaches it: a cap of 2 with 3 logins, one slot with 2 viewers, 4
pages for 5 items of a page of one. Threads are symmetric where no liveness is
checked.

`MCConsole` looks at logins with two requests and two logins, and with one
request, three logins and a clock that stands still; `MCCollector` at jobs with
two jobs and one build at a time, and with one job and two builds. Both
together would show no more: the cap needs logins and no overlap, the cache needs
builds and no second job.

The instances but `state_file_locked` and `viewers` may stop in a state with no step
left, once the objects or the clock are used up; only there is the deadlock check
off.

Each passing property is broken by at least one small change of the model that a
bug in the code would amount to (a lock not taken, a claim kept, a signature not
restored). These variants stand in the modules as "Faulty variant" definitions,
beside the action they vary, and are used in no specification.

### Fairness

- `StateFile`: strong fairness of each thread's save. A save holds the lock for at
  most the retries' second and a half, saves are minutes apart, and a waiter is
  served when the lock is free; weak fairness would let the others starve it.
- `AutomationRuns`: weak fairness of the tick, whose thread waits
  `AUTOMATION_TICK_SECONDS` and catches every exception, and of each run, whose
  calls all have timeouts (HTTP requests to NetWorker, the SMTP exchange). A run
  that succeeds and one that fails are equally fair. Nothing is assumed of
  requests, the clock or restarts.
- `SharedDashboard`: weak fairness of each publication once begun, which runs on
  in its thread (a file write and offers that do not block), and of each
  stream's thread: a write to a page that does not read ends with the connection's
  timeout (`REQUEST_TIMEOUT`), which the fairness of `Written` and `Leave` together
  stands for. Nothing is assumed of new publications, connections or restarts.

### Assumptions worth knowing

- `OnlyOwedReports` and `OwedReportIsScheduled` are about the schedules that are not
  `untimely` and not `passedOver`. `RunsMidnight.cfg` and `RunsThreads.cfg` check them of all
  schedules (`ReportsKeepTheirDay`, `OwedReportsKeepTheirDay`) and show one of each for which
  the code does not keep them.
- Restarts of `runs_emails` happen between runs, and nothing is edited, moved or
  paused there, for the size of the instance: the theorems about the two properties include
  all of it, and the one about `NoRepeatedEmail` says what it needs.
- `runs_claims` has no crash: a process that crashes for ever runs nothing, and
  `ClaimsAreRuns` and `OneRunPerSchedule` are proved with crashes included.
- A record restored while the same schedule has been saved by an early request is
  taken to be that schedule.
- `automations_stop` has no ending run, failed write, pause or profile, and
  `automations_restore` no start, for the size of the instances; the theorems about
  their properties are for every mix of operations.
- `PurgedStaysPurged` leaves out a login, a restore or a save that still had the session
  when the purge began, a purge whose own save failed, and a schedule's snapshot;
  `PurgedReturns.cfg` shows the save.
- `stores` serves one request of the email window at a time: `smtp_reaimed` is the same
  instance with two.
- `SignIn` has one client address, as the limit is per address, and keeps expired
  entries it ignores where the code deletes them on the next look.
- `JobReports` takes job times and the clock in one unit: NetWorker's clock is the
  dashboard's. `OkMeansNoFailure` and `OverIsCountedOnce` speak of jobs that were over
  `Ttl` before the build began, since a cached history is that old by design.
- `PagesAreWhole` speaks of lists that hold still while they are read, and of an NWUI
  that either counts its list or gives pages as long as asked for: the code cannot know
  better otherwise, and review C8 in its comments says so.
- Files can be read: what the code does with an unreadable one (it counts as empty) is
  listed as a hazard and not modelled.

## What is proved

The proofs hold for every value of the constants under the assumptions each module
names (`StateFileAssumption`, `AutomationsAssumption`, `SignInAssumption`,
`SharedAssumption`, ...): any number of threads, types, destinations, profiles, keys,
viewers, days, any limit. The bounds are constants too, and the theorems hold for every
value of them.

- `StateFileProofs`. `TypeCorrect` for both kinds of file. With
  `SerializedSaves`, `QuietMeansSavedHolds`, `SavesLandInOrderHolds` and
  `ImplementsDurableStateHolds`. The inductive invariant adds to the types that at
  most one thread is saving, that its text is no older than the file and no newer
  than the registry, and that the file is behind the registry only if a change or
  a save is still to end or a failure has been reported. Neither property is
  inductive alone: the order of two saves depends on what the text of the one in
  flight is.
- `AutomationsProofs`. `TypeCorrect`, and `OneConfigDrivenPerTypeHolds` for every
  mix of operations, requests during the restore included. The argument: a
  thread that puts a config-driven schedule reconciles later, and what the
  reconcile lists is every registered schedule but one per type. The inductive
  invariant says that of two config-driven schedules of a type in the registry,
  at least one is about to be dropped: some thread either is going to reconcile,
  or holds a superseded one in its list of keys to cancel.
- `AutomationsProofs`, with requests, runs and shutdowns before, during and after the
  restore; none of the three has a condition beside what its property says of `early`,
  `partial` and `crossed`:
  - `FileIsRegistryHolds`. `FileFollows` is the property for every state, not only
    quiet ones: the restore is not done, or the last save was begun before it was
    (`partial`), or some thread has a save to begin, or is writing the registry as it
    is, or the last save to end failed, or the file is the registry. It rests on
    `SavingInv`: one thread writes at a time, a thread between its change and its
    save has noted that it owes one, and until the first save of a process the registry is
    the part of the file that was put back (`UntilFirstSave`).
  - `StoppedStaysStoppedHolds`. `StopInv` says where a stopped schedule could still
    be: in no text being written, no record to restore, no request's hands, so that
    nothing can put it back. While records are to be put back, one that is registered
    already, or in a request's hands, is among the `early` (`EarlyKnown`).
  - `RestoreServesEveryTypeHolds`. `ServingInv`: while the restore runs and nothing has
    `crossed` it, each type of the file has a schedule that is not on the list of those
    to cancel, or a record still to be put back.
    That the keeper is the newest is an induction over the numbers of schedules
    (`WFMin` of the library, which takes a set and not an operator).
- `AutomationRunsProofs`. `TypeCorrect`, `ClaimsAreRunsHolds` and
  `OneRunPerScheduleHolds`. The inductive invariant says that what the registry,
  a tick's snapshot and a run refer to is in memory, that a running thread has a
  key, and the two properties themselves; each needs the other, as a claim is
  given back by the key of the run that ends.
- `AutomationRunsProofs`, about the emails:
  - `NoRepeatedEmailHolds`: one schedule per identity (`NoTwins`), no edit between a
    tick and its run, no crash between a send and its save (the section on the code says
    what each would break). Stops, moves, pauses, threads that do not start and clean
    restarts are included. `SentInv` relates what was sent, what the schedule remembers,
    what `_LAST_SENT_BY_IDENTITY` remembers and what the file has: whoever is about to
    send, the content differs from all of them.
  - `OnlyOwedReportsHolds`, for every mix of requests and faults, crashes at any step
    included; what is left out is what the property says of `untimely` schedules.
    `Apart` keeps the schedules of two keys apart, so that what befalls one does not
    excuse another. `RipeInv` follows a schedule from its planned time (`NextRipe`) to
    the tick that finds it due (`DueReady`), the run (`RunsReady`) and the date it signs
    (`SignedToday`): at each of them its send time has come today and came after it was
    armed, or it is untimely.
  - `OwedReportIsScheduledHolds`, likewise, but for the `passedOver`. `OwedInv` adds that a
    run that has not failed has signed the day's report (`ClosesSigned`) and that the next
    run of a report still owed is today (`NextToday`).
- `ConsoleProofs`, for `SignIn`: `EndedStaysEndedHolds`, `LockedStaysLockedHolds`,
  `OldLoginsEndHolds`. `SignInInv` adds that nothing is known of logins not issued
  yet (or a new id could be an ended one), that no request is past its check on a
  locked login, that a proof is of a password there has been, and
  `OldLoginsSettled`: a live login whose proof is of an older password is dealt with
  by a change that is under way. With two changes at once either may do it, which is why
  the property itself is not inductive. `GuessesBoundedHolds`, for any finite number of
  threads: every step is of one of four kinds (`Quieter`, `GuessFails`,
  `GuessAllowed`, `TimePasses`), and each keeps the bound; a failure that is forgotten
  never comes back (`SelectMore`). `SignInTypeCorrect` from both invariants.
- `ConsoleProofs`, for `CertificateSwap`: `CertTypeCorrect`,
  `FilesAreServedHolds`, `PreviousIsReplacedHolds`, from `CertInv`, which says at every
  point of a swap which files are the new ones and that the copies are those served.
  For the kept pair, `KeptIsReplaced` holds from one swap to the next and over failures
  and crashes, until one spoils it (`lost`).
- `ViewersProofs`: `SharedTypeCorrect`, `ViewersKeepUpHolds`, `LastGoodKeepsUpHolds`,
  `SlotsAreServedHolds`. `SharedInv` has, beside types and slots, `NewsOnItsWay`: the last
  frame on its way to a viewer is not older than what was settled, or some publication is
  still to be offered to that viewer. The difficult step is a viewer that registers while a
  broadcast walks its copy: what is shared is read after registering.
  `ImplementsViewerStreamHolds`: under the refinement mapping the initial states are
  those of `ViewerStream` and each step is one of its steps or none. An `Offer` to a full
  queue is its `Cut`: the queue is dropped, and nothing is queued for that viewer until it
  has left and connects again, so that no frame is missing in the middle of a stream.
- `ConnectionsProofs`, for `DashboardSessions`: `SessionsTypeCorrect`,
  `ReportsCoverTheirRangeHolds`, `RangesWereChosenHolds`, `PurgedStaysPurgedHolds`.
  `SessionsInv` adds that a session object belongs to one id (so a build that writes its
  range back to an object replaced meanwhile does no harm to another), that the ranges of
  records, snapshots yet to be written, pending restores and builds in progress were chosen
  too, and what a purge leaves (`NothingLeft`): from its beginning, if it was not raced,
  no session and no login or snapshot that has one, so that a save of any thread, whenever
  it lands, writes none; and no record once it has saved itself. For `StoredPasswords`: `PasswordsTypeCorrect`,
  `ProfilePasswordsGoHomeHolds`, `SavedPasswordsSurviveHolds`.
- `ConnectionsProofs`, for `SmtpPasswords`: `SmtpPasswordsGoHomeHolds`, for any number of
  requests at a time in every behaviour in which no save writes a schedule between
  another request's reads of its server and of its password (`SyncsApart`). `SmtpInv` says of
  each point of a request which of the values it has read belong together
  (`HoldsTogether`). So the race that `smtp_reaimed` shows is the only way a password
  can go astray, where the instance `stores` had one request at a time.
- `CollectorProofs`: `FallbackAnswersHolds` (from `FallbackInv`: only unknown fields were
  removed, and the endpoints before the present one were missed), and
  `AutoKeepsSnapshotsHolds`, which needs no invariant: the second look and the save
  are one step.
- `CollectorProofs`, for `JobReports`: `JobReportsTypeCorrect`, `OverIsCountedOnceHolds`,
  `OkMeansNoFailureHolds`, for any jobs, runs, builds, windows and time to live of
  the cache. `FiguresInv` dates each answer: a build's history holds at least what was over
  `Ttl` before the build began, and what is cached says as of when it does; rows that
  speak of one job are the same row, whichever question they came from.
- `CollectorProofs`, for `MonitoringPages`: `PagesAreWholeHolds`, for lists of any length,
  any page sizes and any strategies. `ReadSoFar`: before each page, what was read is the
  list up to it, as every page so far was full and from the second one on the size asked
  for is one NWUI gives.
- `SelectionsProofs`: what `Select` returns is a list of the same elements, no longer, and it
  grows with the set. `Induct` is the induction over the numbers up to a length that
  these need: the library's own takes an operator, but its `WFMin` (a set with an order
  that is well-founded has a least element) can be used.

Each property of the runs that is an invariant, an action property or a refinement is
proved, but `RestoresAreCountedOnce`, which does not hold (and `SmtpPasswordsGoHome` as far
as it does). Only model-checked is liveness (`SavesEnd`, `DueRunsStart`, `ClaimsEnd`,
`PublicationsEnd`, `DroppedStreamsEnd`): it depends on fairness, which is out of the
prover's reach.

## What the model says of the code

Two runs are expected to fail; each checks one sentence of the repository that the
code does not keep. `PROJECT.json` quotes the sentences.

| Run | What happens |
|---|---|
| `smtp_reaimed` | a start with no password typed reads the server of the schedule it replaces (`emailer.py:390`), a save aims that schedule at another server with its password, and the start then reads that password (`:391`) |
| `restores_collapse` | two restores of one client that start in the same second are one row: `merge_recoveries` keys a row by client and second (`nwui.py:1052`) |

More instances in which a property does not hold are kept as configurations
(`tlc -config <file> <module>`):

| Configuration, module | Property | What happens |
|---|---|---|
| `SessionsFile.cfg`, `MCStateFile` | `QuietMeansSaved` | `persist_sessions` takes no lock, so the older of two snapshots may be the one that is written last |
| `AutomationsToggles.cfg`, `MCAutomations` | `OneSchedulePerIdentity` | two requests that switch a profile on leave two schedules of one identity |
| `AutomationsShutdown.cfg`, `MCAutomations` | `ShutdownKeepsSchedules` | a run that ends while the shutdown cancels schedules saves the emptied registry; they do not come back |
| `AutomationsCancel.cfg`, `MCAutomations` | `ArmedTypeStaysArmed` | a reconcile cancels by key a schedule an edit has just put there; the type is left with none |
| `RunsTwins.cfg`, `MCAutomationRuns` | `NoRepeatedEmail` | two schedules of one identity due at once both send |
| `RunsMidnight.cfg`, `MCAutomationRuns` | `ReportsKeepTheirDay` | a retry that is due or under way when the day ends sends the next day's report early (`emailer.py:532` holds back only what is planned past midnight) |
| `RunsThreads.cfg`, `MCAutomationRuns` | `OwedReportsKeepTheirDay` | the thread of a due report cannot be started late in the day: the tick has pushed the schedule on by `Interval` already (`emailer.py:614`), past midnight, and no retry is planned for it (`:592-596`) |
| `PurgedReturns.cfg`, `MCStores` | `PurgedCredentialIsGone` | a login takes its snapshot for `sessions.json` (`sessions.py:164`), the profile is deleted and the sessions saved without it, and the older snapshot is written after that (`:168`): the record with the purged password is on disk again, for the next start to log in with |
| `PreviousMixed.cfg`, `MCConsole` | `FailedUploadKeepsPrevious` | the first of the two `*.previous` copies is made and the second fails: the swap is rolled back, and the kept pair is a certificate of one upload beside a key of another (`admin.py:826-827`; the docstring at `:816-817` says a failed upload leaves the kept pair) |
| `RangeLags.cfg`, `MCStores` | `RangeFollowsLastChoice` | a slow build, or one of server health, ends after another range was chosen and writes the one it began with back |

Others were met while modelling. They are what the passing properties leave room for,
each said in the comment of its property, or what a constant of a passing instance would
add, as noted.

- A start served while the restore is under way saves a registry that lacks what
  is not restored yet; the restore saves nothing unless it healed something, so
  the file is wrong until the next change, and a crash before it loses the rest
  (`partial` in `FileIsRegistry`). A schedule that is started, saved and stopped while the
  restore is under way comes back if the restore read the file in between (`early` in
  `StoppedStaysStopped`). A shutdown, or a request, that drops schedules while the restore
  is under way may drop what its healing passes have kept (`crossed` in
  `RestoreServesEveryType`).
- A report sent just before a crash is sent again, as the send is remembered by
  the save that ends the run (`NoRepeatedEmail`, `"crash"` among the `Faults`).
- An edit between the tick and the run puts a new schedule under the key; the run
  looks the key up again and sends the new one's report at once, which
  `daily_report_owed` would not have (`untimely` in `OnlyOwedReports`).
- Moving the report time while a failed report waits for its retry puts it on its
  next send time, and the report is given up (`passedOver` in `OwedReportIsScheduled`).
- Of two saves of the configuration the older can be the one the schedule ends up
  with: `_reconcile_config_driven_automations` reads `email_config.json` once and
  applies it later.
- A login, or a save that still has the session, that is under way when its profile is
  deleted brings the session or its record back, as does an email schedule that keeps the
  connection (`PurgedStaysPurged`).
- A console request that has passed `_admin_gate` when the Lock button is pressed extends
  the window it has just checked, and so undoes the lock (`LockedStaysLocked` speaks of
  locks with no request under way).
- Requests that passed the limit on failed guesses together all guess: an address gets
  up to one guess per thread beyond it within a window (`GuessesBounded`).
- Sign-ins checked before a password change and finished after it survive the change,
  as do logins a restart finds in the file when the change was cut short
  (`exempt` in `OldLoginsEnd`).
- Overlapping publications may be broadcast, and written to the last-good file, in either
  order, and a stale dashboard copied before a newer one was published may be broadcast
  after it and stay on the pages; the next publication mends it. `ViewersKeepUp` and
  `LastGoodKeepsUp` therefore speak of the oldest of the publications that overlapped
  last.
- A crash between the two replaces of a certificate swap leaves files that do not match,
  and the service does not start with them (`torn` in `FilesAreServed`).

## What is not modelled

- Text: emails, pages, logs, formats. Cryptography. The HTTP, SMTP and WMI
  exchanges, beyond whether they succeed.
- In `Automations`: connection snapshots (when a profile's or a schedule's connection
  is stored affects no property here), the refusal of invalid forms before anything is
  changed, and quiet hours. SMTP servers and passwords are in `SmtpPasswords`.
- In `AutomationRuns`: quiet hours, the range of a report (one per schedule); daylight
  saving, where a day has another length; a lost answer from the SMTP server, after which
  the mail has arrived and the run has failed.
- In `DashboardSessions`: what a session's cookies and tokens hold, and the idle and
  absolute limits (a session may expire at any time, which includes theirs).
- In `JobReports`: data domain, alerts, policies and capacity, beyond that each may
  fail; the vocabulary of status words.
- In `SignIn` and `CertificateSwap`: the allow-list, the audit log, Windows access
  control lists, the checks an uploaded certificate has to pass.
- Share tokens: one dictionary under one lock, nothing persisted, no behaviour that spans
  two steps. UI preferences: one file written whole by its request.
- Reports and images, server health over WMI, the self-signed certificate: pure functions
  or pure input and output. Browser pages and the installer: other programs, in
  JavaScript and PowerShell, which a viewer and an operator run; `SharedDashboard` has a
  page as what it last received.

## The plan

Done: every component whose state more than one thread touches, or that a restart or a
failed step can catch halfway, has a module. What is left, in order of
importance:

| What | Why |
|---|---|
| Quiet hours and the fallback dashboard in `AutomationRuns` | the two conditions under which a due run does not send, or sends what it did not build |
| Ending runs in `automations_stop`, edits and moves in `runs_emails` | the theorems have them and the instances do not, for their size |
| Unreadable files | one variable per file: may it be read; what the next save writes over |
