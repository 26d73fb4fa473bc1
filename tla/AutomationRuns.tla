---------------------------- MODULE AutomationRuns ----------------------------
(***************************************************************************)
(* What an armed email schedule does: the scheduler tick that starts due   *)
(* runs, the claim that keeps a schedule to one run at a time, the run     *)
(* itself with its duplicate checks and retries, what is saved of it and   *)
(* where a restarted process picks it up: nwdash/emailer.py.               *)
(*                                                                         *)
(* Time is cut into units, DayLength of them a day.  An instant the program*)
(* computes (a send time, a retry, midnight) is the start of a unit, and   *)
(* the clock shows the unit it is in: it is always a little past its start.*)
(*                                                                         *)
(* An email is its signature: the day of a daily report, or the content of *)
(* an alert.  Requests are one step here: how theirs interleave is in      *)
(* Automations, and how saves do in StateFile.                             *)
(***************************************************************************)
EXTENDS Naturals, FiniteSets, Sequences

CONSTANTS
    NumKeys,        \* how many automation ids there may be
    Runners,        \* automation-fire threads
    Identities,     \* type, recipients and server of a schedule
    Daily,          \* the identities whose type is daily_report
    Setups,         \* what may be armed at first: key -> [ident, sendAt]
    Unset,          \* not in memory, not in the file, no email yet
    Requests,       \* the requests the instance makes
    Faults,         \* what may go wrong in the instance
    DayLength, SendTimes, Interval, RetryWaits,
    Alerts,         \* contents worth an alert
    MaxNow, MaxObjects      \* bounds, for model checking only: units of time, objects

Keys == 1 .. NumKeys
Objects == 1 .. MaxObjects

\* A schedule: when it was armed, what it last sent, when it runs next.
Schedules ==
    [ident : Identities, sendAt : SendTimes, born : Nat, signed : Nat, next : Nat,
     enabled : BOOLEAN, failures : 0 .. Len(RetryWaits), lastRun : Nat]

ASSUME AutomationRunsAssumption ==
    /\ NumKeys \in Nat /\ NumKeys <= MaxObjects
    /\ Unset \notin Schedules
    /\ Unset \notin [sig : Nat, times : 1 .. 2] \cup [sig : Nat, at : Nat]
    /\ Daily \subseteq Identities
    /\ Setups \subseteq [Keys -> [ident : Identities, sendAt : SendTimes] \cup {Unset}]
    /\ Unset \notin [ident : Identities, sendAt : SendTimes]
    /\ DayLength \in Nat \ {0}
    /\ SendTimes \subseteq 1 .. DayLength - 1
    /\ Interval \in Nat \ {0}
    /\ RetryWaits \in Seq(Nat \ {0}) /\ RetryWaits # <<>>
    /\ Alerts \subseteq Nat \ {0}
    /\ MaxNow \in Nat
    /\ MaxObjects \in Nat

VARIABLES
    now,        \* the clock
    content,    \* what the estate would have an alert say, 0 for nothing
    registry,   \* key -> object, 0 when not registered
    obj,        \* object -> the schedule, Unset when not in memory
    last,       \* objects made so far
    file,       \* automations.json: key -> the schedule saved under it
    guard,      \* _LAST_SENT_BY_IDENTITY
    claimed,    \* _RUNS_IN_FLIGHT
    tick,       \* where the scheduler is in its tick
    scan,       \* the <<key, object>> pairs it has yet to look at
    seen,       \* the one it has found due
    tickNow,    \* the time it read when the tick began
    pc,         \* runner -> where its run is
    runKey, runObj, sig, failed,    \* runner -> its key, object, email, failure
    inbox,      \* history: identity -> the last email received, times in a row
    untimely,   \* history: schedules whose next report may be early, or of a later day
    passedOver  \* history: schedules whose next run may leave out an owed report

clock == <<now, content>>
schedules == <<registry, obj, last>>
ticking == <<tick, scan, seen, tickNow>>
runs == <<pc, runKey, runObj, sig, failed>>
strays == <<untimely, passedOver>>
vars == <<clock, schedules, file, guard, claimed, ticking, runs, inbox, strays>>

Nothing == <<0, 0>>

Points == {"idle", "begin", "build", "check", "send", "record", "close", "save", "release"}
WithObject == Points \ {"idle", "begin", "release"}
Working == WithObject \ {"save"}

StraysOK == untimely \subseteq Objects /\ passedOver \subseteq Objects

TypeOK ==
    /\ now \in Nat
    /\ content \in Alerts \cup {0}
    /\ registry \in [Keys -> Objects \cup {0}]
    /\ obj \in [Objects -> Schedules \cup {Unset}]
    /\ last \in 0 .. MaxObjects
    /\ file \in [Keys -> Schedules \cup {Unset}]
    /\ guard \in [Identities -> [sig : Nat, at : Nat] \cup {Unset}]
    /\ claimed \in SUBSET Keys
    /\ tick \in {"idle", "scan", "claim"}
    /\ scan \in SUBSET (Keys \X Objects)
    /\ seen \in (Keys \X Objects) \cup {Nothing}
    /\ tickNow \in Nat
    /\ pc \in [Runners -> Points]
    /\ runKey \in [Runners -> Keys \cup {0}]
    /\ runObj \in [Runners -> Objects \cup {0}]
    /\ sig \in [Runners -> Nat]
    /\ failed \in [Runners -> BOOLEAN]
    /\ inbox \in [Identities -> [sig : Nat, times : 1 .. 2] \cup {Unset}]
    /\ StraysOK
    /\ \A r \in Runners : pc[r] \in WithObject => runObj[r] \in Objects

-----------------------------------------------------------------------------
(***************************************************************************)
(* When a schedule runs next.                                              *)
(***************************************************************************)

Day(t) == t \div DayLength + 1
Midnight(t) == Day(t) * DayLength
IsDaily(s) == s.ident \in Daily

\* _daily_report_time_today, and seconds_until_daily_report as an instant.
SendTime(s, t) == (t \div DayLength) * DayLength + s.sendAt
NextSend(s, t) == SendTime(s, t) + (IF SendTime(s, t) <= t THEN DayLength ELSE 0)

Owed(s, t) == s.born < SendTime(s, t) /\ SendTime(s, t) <= t /\ s.signed # Day(t)

RetryWait(s) == RetryWaits[IF s.failures = 0 THEN 1 ELSE s.failures]

\* Faulty variant: a retry is not held back at midnight.
RetryTimePastMidnight(s, t) == t + RetryWait(s)

\* _daily_report_delay: a retry that fits before midnight, or the next send time.
RetryTime(s, t) ==
    IF t + RetryWait(s) < Midnight(t) THEN t + RetryWait(s) ELSE NextSend(s, t)

\* schedule_alert_automation.
NextRun(s, hasFailed, t) ==
    IF ~IsDaily(s) THEN t + Interval
    ELSE IF hasFailed /\ Owed(s, t) THEN RetryTime(s, t)
    ELSE NextSend(s, t)

\* Faulty variant: a restored schedule waits for its regular time.
ResumeTimeRegular(s, t) == NextRun(s, FALSE, t)

\* resume_alert_automation: an owed report at once, an alert at its saved time.
ResumeTime(s, t) ==
    IF IsDaily(s) THEN (IF Owed(s, t) THEN t ELSE NextSend(s, t))
    ELSE IF s.next < t + Interval THEN s.next ELSE t + Interval

Scheduled(s, hasFailed, t) == [s EXCEPT !.next = NextRun(s, hasFailed, t)]

Armed(setup, t) ==
    Scheduled([ident |-> setup.ident, sendAt |-> setup.sendAt, born |-> t, signed |-> 0,
               next |-> 0, enabled |-> TRUE, failures |-> 0, lastRun |-> 0], FALSE, t)

Registered(k) == registry[k] # 0
Due(k) == Registered(k) /\ obj[registry[k]].next <= now

\* persist_automations, with the registry and objects of the next state.
Persist ==
    file' = [k \in Keys |-> IF registry'[k] = 0 THEN Unset ELSE obj'[registry'[k]]]

-----------------------------------------------------------------------------
(***************************************************************************)
(* What may take a report off its day.  A schedule is untimely when a day  *)
(* ended with it due or its run under way, when it was put off past the end*)
(* of the day because its run could not start, or was edited or moved while*)
(* a tick or a run had yet to be done with it: until it is next planned.   *)
(* It is passed over when, since its last run began, the run found it      *)
(* paused, a day ended between the check of that run and its end, its run  *)
(* could not start and it was put off past the day, or it was moved to a   *)
(* time of day already gone.                                               *)
(***************************************************************************)

DayEnds == Midnight(now) = now + 1

\* The tick, or a run that begins, has yet to see what the key holds.
Awaited(k) ==
    \/ seen[1] = k
    \/ \E item \in scan : item[1] = k
    \/ \E r \in Runners : pc[r] = "begin" /\ runKey[r] = k

AtWork(o) == \E r \in Runners : pc[r] \in Working /\ runObj[r] = o

\* The run in question is put off to another day.
PutOff == IF Day(tickNow + Interval) = Day(now) THEN {} ELSE {seen[2]}

OverMidnight ==
    IF ~DayEnds THEN {}
    ELSE {o \in Objects : AtWork(o) \/ \E k \in Keys : registry[k] = o /\ (Due(k) \/ Awaited(k))}

LateRuns ==
    IF ~DayEnds THEN {}
    ELSE {runObj[r] : r \in {q \in Runners : pc[q] \in {"send", "record", "close"}}}

-----------------------------------------------------------------------------

\* A schedule armed or restored under a key is the object of that number at first.
Init ==
    /\ now = 0
    /\ content = 0
    /\ \E setup \in Setups :
        /\ registry = [k \in Keys |-> IF setup[k] = Unset THEN 0 ELSE k]
        /\ obj = [o \in Objects |->
                    IF o \notin Keys THEN Unset
                    ELSE IF setup[o] = Unset THEN Unset ELSE Armed(setup[o], 0)]
    /\ last = NumKeys
    /\ file = [k \in Keys |-> obj[k]]
    /\ guard = [i \in Identities |-> Unset]
    /\ claimed = {}
    /\ tick = "idle" /\ scan = {} /\ seen = Nothing /\ tickNow = 0
    /\ pc = [r \in Runners |-> "idle"]
    /\ runKey = [r \in Runners |-> 0]
    /\ runObj = [r \in Runners |-> 0]
    /\ sig = [r \in Runners |-> 0]
    /\ failed = [r \in Runners |-> FALSE]
    /\ inbox = [i \in Identities |-> Unset]
    /\ untimely = {} /\ passedOver = {}

-----------------------------------------------------------------------------
(***************************************************************************)
(* The scheduler (automation_scheduler_tick): a snapshot of the registry,  *)
(* then one schedule after the other.                                      *)
(***************************************************************************)

BeginTick ==
    /\ tick = "idle"
    /\ tick' = "scan"
    /\ tickNow' = now
    /\ scan' = {<<k, registry[k]>> : k \in {l \in Keys : Registered(l)}}
    /\ UNCHANGED <<clock, schedules, file, guard, claimed, seen, runs, inbox, strays>>

Look ==
    /\ tick = "scan"
    /\ \E item \in scan :
        /\ scan' = scan \ {item}
        /\ IF obj[item[2]].next <= tickNow
           THEN tick' = "claim" /\ seen' = item
           ELSE UNCHANGED <<tick, seen>>
    /\ UNCHANGED <<clock, schedules, file, guard, claimed, tickNow, runs, inbox, strays>>

StillRunning ==
    /\ tick = "claim"
    /\ seen[1] \in claimed
    /\ tick' = "scan"
    /\ seen' = Nothing
    /\ UNCHANGED <<clock, schedules, file, guard, claimed, scan, tickNow, runs, inbox, strays>>

\* next_run_at is pushed one interval forward while the run is in flight.
Pushed == [obj EXCEPT ![seen[2]] = [@ EXCEPT !.next = tickNow + Interval]]

\* Faulty variant: the schedule is not asked whether a run of it is in flight.
FireUnclaimed ==
    /\ tick = "claim"
    /\ obj' = Pushed
    /\ claimed' = claimed \cup {seen[1]}
    /\ \E r \in Runners :
        /\ pc[r] = "idle"
        /\ pc' = [pc EXCEPT ![r] = "begin"]
        /\ runKey' = [runKey EXCEPT ![r] = seen[1]]
    /\ tick' = "scan"
    /\ seen' = Nothing
    /\ UNCHANGED <<clock, registry, last, file, guard, scan, tickNow, runObj, sig, failed, inbox, strays>>

\* _claim_run succeeds, and a thread is started.
Fire ==
    /\ tick = "claim"
    /\ seen[1] \notin claimed
    /\ obj' = Pushed
    /\ claimed' = claimed \cup {seen[1]}
    /\ \E r \in Runners :
        /\ pc[r] = "idle"
        /\ pc' = [pc EXCEPT ![r] = "begin"]
        /\ runKey' = [runKey EXCEPT ![r] = seen[1]]
    /\ tick' = "scan"
    /\ seen' = Nothing
    /\ UNCHANGED <<clock, registry, last, file, guard, scan, tickNow, runObj, sig, failed, inbox, strays>>

TickOver == tick' = "idle" /\ scan' = {} /\ seen' = Nothing /\ tickNow' = 0

\* Faulty variant: a run that could not start keeps its claim.
FireFailsClaimed ==
    /\ "thread" \in Faults
    /\ tick = "claim"
    /\ seen[1] \notin claimed
    /\ obj' = Pushed
    /\ claimed' = claimed \cup {seen[1]}
    /\ TickOver
    /\ untimely' = untimely \cup PutOff
    /\ passedOver' = passedOver \cup PutOff
    /\ UNCHANGED <<clock, registry, last, file, guard, runs, inbox>>

\* The thread cannot be started: the claim is given back, the error ends the tick.
FireFails ==
    /\ "thread" \in Faults
    /\ tick = "claim"
    /\ seen[1] \notin claimed
    /\ obj' = Pushed
    /\ TickOver
    /\ untimely' = untimely \cup PutOff
    /\ passedOver' = passedOver \cup PutOff
    /\ UNCHANGED <<clock, registry, last, file, guard, claimed, runs, inbox>>

EndTick ==
    /\ tick = "scan" /\ scan = {}
    /\ TickOver
    /\ UNCHANGED <<clock, schedules, file, guard, claimed, runs, inbox, strays>>

Tick == BeginTick \/ Look \/ StillRunning \/ Fire \/ FireFails \/ EndTick

-----------------------------------------------------------------------------
(***************************************************************************)
(* A run (run_alert_automation, on its own thread).                        *)
(***************************************************************************)

Go(r, from, to) == pc[r] = from /\ pc' = [pc EXCEPT ![r] = to]

\* Faulty variant: a schedule that is gone is not noticed.
BeginRunUnchecked(r) ==
    /\ Go(r, "begin", "build")
    /\ runObj' = [runObj EXCEPT ![r] = registry[runKey[r]]]
    /\ UNCHANGED <<clock, schedules, file, guard, claimed, ticking, runKey, sig, failed, inbox, strays>>

\* The schedule its key now holds is run, if there is one and it is not paused.
BeginRun(r) ==
    LET o == registry[runKey[r]] IN
    /\ Go(r, "begin", IF o = 0 THEN "release" ELSE IF obj[o].enabled THEN "build" ELSE "close")
    /\ runObj' = [runObj EXCEPT ![r] = o]
    /\ passedOver' = IF o # 0 /\ ~obj[o].enabled THEN passedOver \cup {o} ELSE passedOver \ {o}
    /\ UNCHANGED <<clock, schedules, file, guard, claimed, ticking, runKey, sig, failed, inbox, untimely>>

\* _ensure_automation_session may save the schedules midway: it adopted the
\* connection of another session.
Adopt(r) ==
    /\ "adopt" \in Faults
    /\ pc[r] = "build"
    /\ UNCHANGED <<registry, obj>>
    /\ Persist
    /\ UNCHANGED <<clock, last, guard, claimed, ticking, runs, inbox, strays>>

\* No session, or no dashboard.
BuildFails(r) ==
    /\ "build" \in Faults
    /\ Go(r, "build", "close")
    /\ failed' = [failed EXCEPT ![r] = TRUE]
    /\ UNCHANGED <<clock, schedules, file, guard, claimed, ticking, runKey, runObj, sig, inbox, strays>>

\* The dashboard: what an alert would say is known now.
Build(r) ==
    /\ Go(r, "build", "check")
    /\ sig' = [sig EXCEPT ![r] = content]
    /\ UNCHANGED <<clock, schedules, file, guard, claimed, ticking, runKey, runObj, failed, inbox, strays>>

\* A daily report is signed with the date of the day it is now.
Signature(r) == IF IsDaily(obj[runObj[r]]) THEN Day(now) ELSE sig[r]

CooldownOver(s) == s.lastRun = 0 \/ now - s.lastRun >= Interval

\* Is it new to this schedule, and for an alert, is there one and is it time?
WantsToSend(r) ==
    LET s == obj[runObj[r]] IN
    /\ Signature(r) # s.signed
    /\ ~IsDaily(s) => Signature(r) # 0 /\ CooldownOver(s)

\* _duplicate_send_suppressed: sent under this identity within the window.
SentByTwin(r) ==
    LET sent == guard[obj[runObj[r]].ident] IN
    /\ sent # Unset
    /\ sent.sig = Signature(r)
    /\ now - sent.at < Interval

\* A daily report its twin sent counts as sent; an alert does not.
Checked(s, signature, suppressed) ==
    [s EXCEPT !.lastRun = now,
              !.signed = IF suppressed /\ IsDaily(s) THEN signature ELSE @]

Check(r) ==
    \/ /\ Go(r, "check", "send")
       /\ WantsToSend(r) /\ ~SentByTwin(r)
       /\ sig' = [sig EXCEPT ![r] = Signature(r)]
       /\ UNCHANGED <<clock, schedules, file, guard, claimed, ticking, runKey, runObj, failed, inbox, strays>>
    \/ /\ Go(r, "check", "close")
       /\ ~WantsToSend(r) \/ SentByTwin(r)
       /\ obj' = [obj EXCEPT ![runObj[r]] = Checked(@, Signature(r), WantsToSend(r))]
       /\ UNCHANGED <<clock, registry, last, file, guard, claimed, ticking, runKey, runObj, sig, failed, inbox, strays>>

\* The email arrives; twice in a row is counted as often as it matters.
Delivered(i, s) ==
    IF inbox[i] # Unset /\ inbox[i].sig = s
    THEN [sig |-> s, times |-> 2] ELSE [sig |-> s, times |-> 1]

Send(r) ==
    LET i == obj[runObj[r]].ident IN
    /\ Go(r, "send", "record")
    /\ inbox' = [inbox EXCEPT ![i] = Delivered(i, sig[r])]
    /\ UNCHANGED <<clock, schedules, file, guard, claimed, ticking, runKey, runObj, sig, failed, strays>>

SendFails(r) ==
    /\ "smtp" \in Faults
    /\ Go(r, "send", "close")
    /\ failed' = [failed EXCEPT ![r] = TRUE]
    /\ UNCHANGED <<clock, schedules, file, guard, claimed, ticking, runKey, runObj, sig, inbox, strays>>

\* Faulty variant: the schedule does not remember what it sent.
RecordUnsigned(r) ==
    LET o == runObj[r] IN
    /\ Go(r, "record", "close")
    /\ guard' = [guard EXCEPT ![obj[o].ident] = [sig |-> sig[r], at |-> now]]
    /\ obj' = [obj EXCEPT ![o] = [@ EXCEPT !.lastRun = now]]
    /\ UNCHANGED <<clock, registry, last, file, claimed, ticking, runKey, runObj, sig, failed, inbox, strays>>

\* _record_identity_send and last_signature.
Record(r) ==
    LET o == runObj[r] IN
    /\ Go(r, "record", "close")
    /\ guard' = [guard EXCEPT ![obj[o].ident] = [sig |-> sig[r], at |-> now]]
    /\ obj' = [obj EXCEPT ![o] = [@ EXCEPT !.signed = sig[r], !.lastRun = now]]
    /\ UNCHANGED <<clock, registry, last, file, claimed, ticking, runKey, runObj, sig, failed, inbox, strays>>

\* The failures in a row; beyond the last wait they make no difference.
Counted(s, hasFailed) ==
    [s EXCEPT !.failures = IF ~hasFailed THEN 0
                           ELSE IF @ < Len(RetryWaits) THEN @ + 1 ELSE @]

\* The finally block: the next run, unless the key has been cancelled.
Close(r) ==
    LET o == runObj[r]
        s == Counted(obj[o], failed[r]) IN
    /\ Go(r, "close", "save")
    /\ obj' = [obj EXCEPT ![o] = IF Registered(runKey[r]) THEN Scheduled(s, failed[r], now) ELSE s]
    /\ untimely' = IF Awaited(runKey[r]) THEN untimely ELSE untimely \ {o}
    /\ UNCHANGED <<clock, registry, last, file, guard, claimed, ticking, runKey, runObj, sig, failed, inbox, passedOver>>

Save(r) ==
    /\ Go(r, "save", "release")
    /\ UNCHANGED <<registry, obj>>
    /\ Persist
    /\ UNCHANGED <<clock, last, guard, claimed, ticking, runKey, runObj, sig, failed, inbox, strays>>

\* The thread ends.
Release(r) ==
    /\ Go(r, "release", "idle")
    /\ claimed' = claimed \ {runKey[r]}
    /\ runKey' = [runKey EXCEPT ![r] = 0]
    /\ runObj' = [runObj EXCEPT ![r] = 0]
    /\ sig' = [sig EXCEPT ![r] = 0]
    /\ failed' = [failed EXCEPT ![r] = FALSE]
    /\ UNCHANGED <<clock, schedules, file, guard, ticking, inbox, strays>>

\* What a run needs no fault for.
Steps(r) ==
    \/ BeginRun(r) \/ Build(r) \/ Check(r) \/ Send(r) \/ Record(r)
    \/ Close(r) \/ Save(r) \/ Release(r)

Run(r) == Steps(r) \/ Adopt(r) \/ BuildFails(r) \/ SendFails(r)

-----------------------------------------------------------------------------
(***************************************************************************)
(* Requests, the world, and restarts.                                      *)
(***************************************************************************)

\* action=start with the schedule's key: a new object takes its place.
Edit(k) ==
    /\ "edit" \in Requests
    /\ Registered(k)
    /\ last < MaxObjects
    /\ last' = last + 1
    /\ registry' = [registry EXCEPT ![k] = last + 1]
    /\ \E at \in SendTimes :
        obj' = [obj EXCEPT ![last + 1] =
                  Armed([ident |-> obj[registry[k]].ident, sendAt |-> at], now)]
    /\ Persist
    /\ untimely' = IF Awaited(k) THEN untimely \cup {last + 1} ELSE untimely
    /\ UNCHANGED <<clock, guard, claimed, ticking, runs, inbox, passedOver>>

Stop(k) ==
    /\ "stop" \in Requests
    /\ Registered(k)
    /\ registry' = [registry EXCEPT ![k] = 0]
    /\ UNCHANGED obj
    /\ Persist
    /\ UNCHANGED <<clock, last, guard, claimed, ticking, runs, inbox, strays>>

\* action=save with another report time: the schedule itself is changed.
Move(k) ==
    LET o == registry[k] IN
    /\ "move" \in Requests
    /\ Registered(k)
    /\ \E at \in SendTimes :
        /\ at # obj[o].sendAt
        /\ obj' = [obj EXCEPT ![o] = Scheduled([@ EXCEPT !.sendAt = at], FALSE, now)]
    /\ UNCHANGED registry
    /\ Persist
    /\ untimely' = IF Awaited(k) \/ AtWork(o) THEN untimely \cup {o} ELSE untimely \ {o}
    /\ passedOver' = IF SendTime(obj'[o], now) <= now THEN passedOver \cup {o} ELSE passedOver
    /\ UNCHANGED <<clock, last, guard, claimed, ticking, runs, inbox>>

SetEnabled(k) ==
    /\ "pause" \in Requests
    /\ Registered(k)
    /\ obj' = [obj EXCEPT ![registry[k]].enabled = ~@]
    /\ UNCHANGED registry
    /\ Persist
    /\ UNCHANGED <<clock, last, guard, claimed, ticking, runs, inbox, strays>>

Request(k) == Edit(k) \/ Stop(k) \/ Move(k) \/ SetEnabled(k)

AllIdle == tick = "idle" /\ \A r \in Runners : pc[r] = "idle"

Advance ==
    /\ now < MaxNow
    /\ now' = now + 1
    /\ untimely' = untimely \cup OverMidnight
    /\ passedOver' = passedOver \cup LateRuns
    /\ UNCHANGED <<content, schedules, file, guard, claimed, ticking, runs, inbox>>

EstateChanges ==
    /\ content' \in (Alerts \cup {0}) \ {content}
    /\ UNCHANGED <<now, schedules, file, guard, claimed, ticking, runs, inbox, strays>>

\* What is restored of a saved schedule: everything but its failures.
Restored(s) == [s EXCEPT !.failures = 0]

\* The process ends and the next one restores automations.json.
Restart ==
    /\ \/ "crash" \in Faults
       \/ "restart" \in Faults /\ AllIdle
    /\ registry' = [k \in Keys |-> IF file[k] = Unset THEN 0 ELSE k]
    /\ obj' = [o \in Objects |->
                 IF o \notin Keys THEN Unset
                 ELSE IF file[o] = Unset THEN Unset
                 ELSE [Restored(file[o]) EXCEPT !.next = ResumeTime(Restored(file[o]), now)]]
    /\ last' = NumKeys
    /\ guard' = [i \in Identities |-> Unset]
    /\ claimed' = {}
    /\ TickOver
    /\ pc' = [r \in Runners |-> "idle"]
    /\ runKey' = [r \in Runners |-> 0]
    /\ runObj' = [r \in Runners |-> 0]
    /\ sig' = [r \in Runners |-> 0]
    /\ failed' = [r \in Runners |-> FALSE]
    /\ untimely' = {} /\ passedOver' = {}
    /\ UNCHANGED <<clock, file, inbox>>

Next ==
    \/ Tick
    \/ \E r \in Runners : Run(r)
    \/ \E k \in Keys : Request(k)
    \/ Advance \/ EstateChanges \/ Restart

Spec == Init /\ [][Next]_vars

\* The scheduler thread never stops ticking, and a run's calls all end: every
\* request to NetWorker and every SMTP exchange has a timeout.
FairSpec ==
    /\ Spec
    /\ WF_vars(Tick)
    /\ \A r \in Runners : WF_vars(Steps(r) \/ BuildFails(r) \/ SendFails(r))

-----------------------------------------------------------------------------
(***************************************************************************)
(* Properties.                                                             *)
(***************************************************************************)

Running(r) == pc[r] # "idle"

\* A claim is held exactly while a run of its schedule is in flight: none is left
\* behind to block the schedule, none given back early.
ClaimsAreRuns == claimed = {runKey[r] : r \in {q \in Runners : Running(q)}}

\* "A schedule's run is never started again while it is still running", whatever
\* became of the schedule meanwhile: stopped, edited under its key, overdue again.
OneRunPerSchedule ==
    \A q, r \in Runners : Running(q) /\ Running(r) /\ runKey[q] = runKey[r] => q = r

\* No recipient gets the same report, or the same alert twice in a row, from the
\* schedules of one identity.
NoRepeatedEmail == \A i \in Identities : inbox[i] # Unset => inbox[i].times = 1

OnItsDay(r) ==
    LET s == obj[runObj[r]]
        due == (sig[r] - 1) * DayLength + s.sendAt IN
    due <= now /\ s.born < due

\* A daily report never goes out before its send time, under a later day's date,
\* or for a day whose send time had passed when the schedule was armed: over
\* failures, restarts and threads that do not start.  The code does not promise it
\* to an untimely schedule: one that a midnight caught due, under way or put off
\* past it, or that an edit or a move overtook.
OnlyOwedReports ==
    \A r \in Runners :
        pc[r] = "send" /\ IsDaily(obj[runObj[r]]) /\ runObj[r] \notin untimely => OnItsDay(r)

\* The same of every daily report.  RunsMidnight.cfg shows one that is not.
ReportsKeepTheirDay ==
    \A r \in Runners : pc[r] = "send" /\ IsDaily(obj[runObj[r]]) => OnItsDay(r)

Waiting(k) ==
    /\ Registered(k) /\ k \notin claimed
    /\ IsDaily(obj[registry[k]])
    /\ Owed(obj[registry[k]], now)

\* Its next run is due or due today, unless a retry no longer fits before midnight.
RunsToday(s) ==
    s.next < Midnight(now) \/ (s.failures > 0 /\ now + RetryWait(s) >= Midnight(now))

\* A daily report that is owed keeps a run to come on the day it is owed: after
\* failures, and restarts at any time of the day.  The code does not promise it to
\* a schedule that was passed over: that a run found paused, whose run ended on a
\* later day than it was checked, whose thread did not start so late that the day
\* was over before the next try, or that was moved to a time already gone.
OwedReportIsScheduled ==
    \A k \in Keys :
        Waiting(k) /\ registry[k] \notin passedOver => RunsToday(obj[registry[k]])

\* The same of every schedule.  RunsThreads.cfg shows one put off to the next day.
OwedReportsKeepTheirDay == \A k \in Keys : Waiting(k) => RunsToday(obj[registry[k]])

\* A schedule that is due does not stay due: it is run, or pushed on for a while.
DueRunsStart == \A k \in Keys : Due(k) ~> ~Due(k)

\* Every claim is given back, so that the schedule can run again.
ClaimsEnd == \A k \in Keys : k \in claimed ~> k \notin claimed
=============================================================================
