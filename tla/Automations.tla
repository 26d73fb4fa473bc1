---------------------------- MODULE Automations ----------------------------
(***************************************************************************)
(* The registry of email schedules (ALERT_AUTOMATIONS), the requests that  *)
(* change it, its file automations.json, the restore at boot and the       *)
(* shutdown: nwdash/emailer.py, nwdash/models.py and nwdash/main.py.       *)
(*                                                                         *)
(* Every registry operation is atomic (REGISTRY_LOCK); a request is a chain*)
(* of them with nothing held in between, so each is an action of its own   *)
(* and other threads run between any two.  Consecutive reads of a request  *)
(* with no write in between are one action.                                *)
(*                                                                         *)
(* A schedule object is a number: objects are numbered in the order they   *)
(* are created, so the number is also its created_at.  A registry key is   *)
(* the number of the first object stored under it.  What a schedule sends  *)
(* and to whom is its type and its recipients: one SMTP server and sender  *)
(* is shared by all.  Runs, next-run times and sends are in AutomationRuns.*)
(***************************************************************************)
EXTENDS Naturals, FiniteSets

CONSTANTS
    Workers,        \* HTTP handler threads and automation-fire threads
    Boot, Main,     \* the session-restore thread and the main thread
    Types,          \* schedule types
    Dests,          \* destinations: lists of recipients
    NoDest,         \* no destination saved for a type
    Profiles,       \* names of email profiles
    NoProfile,      \* profile_name == "": a config-driven schedule
    Unset,          \* a profile that is not stored; a request with no wish
    Ops,            \* the operations the instance exercises
    InitialFiles,   \* the contents automations.json may have at first
    InitialProfiles,\* the email profiles stored at first
    MaxObjects      \* bound on schedule objects, for model checking only

Threads == Workers \cup {Boot, Main}
Objects == 1 .. MaxObjects
Identities == [type : Types, dest : Dests]

\* What a record of automations.json holds.
Schedules ==
    [id : Objects, created : Objects, type : Types, dest : Dests,
     profile : Profiles \cup {NoProfile}, enabled : BOOLEAN]

\* What a request carries from its first reads to its later writes: the schedule
\* asked for, the key it edits (0: none), the profile, and a flag.
Wishes ==
    [type : Types, dest : Dests, id : Objects \cup {0},
     profile : Profiles \cup {NoProfile}, flag : BOOLEAN]

ASSUME AutomationsAssumption ==
    /\ MaxObjects \in Nat
    /\ Boot \notin Workers /\ Main \notin Workers /\ Boot # Main
    /\ NoDest \notin Dests /\ NoProfile \notin Profiles
    /\ Unset \notin Schedules \cup Wishes \cup Identities
    /\ InitialFiles \subseteq SUBSET Schedules
    /\ \A f \in InitialFiles : \A r, s \in f : r.id = s.id \/ r.created = s.created => r = s
    /\ InitialProfiles \in [Profiles -> Identities \cup {Unset}]

VARIABLES
    registry,   \* key -> object, 0 when the key is not registered
    obj,        \* object -> its fields, Unset when not in memory
    last,       \* objects created so far
    config,     \* email_config.json: the destination saved for each type
    profiles,   \* email_profiles.json: the identity each stored profile arms
    file,       \* automations.json: a set of records
    unsaved,    \* the last write of the file failed and none succeeded since
    stopped,    \* history: objects whose stop was confirmed and saved, but for early ones
    early,      \* history: objects made before the restore had read the file
    partial,    \* history: the last save was begun before the restore had put all back
    crossed,    \* history: a schedule was dropped or replaced by a request while it ran
    pc,         \* thread -> where it is
    op,         \* thread -> the operation it executes
    want,       \* thread -> what the request asked for
    mine,       \* thread -> the object it made or found
    todo,       \* thread -> objects whose keys it is about to cancel
    keep,       \* thread -> survivors it is about to sync with the config
    cfg,        \* thread -> the email config as it read it
    dirty,      \* thread -> has it changed anything that needs a save?
    text        \* thread -> records read or about to be written

registryVars == <<registry, obj, last>>
stores == <<config, profiles, file, unsaved, stopped>>
history == <<early, partial, crossed>>
locals == <<op, want, mine, todo, keep, cfg, dirty, text>>
vars == <<registryVars, stores, history, pc, locals>>

Points ==
    {"idle", "config", "create", "cancelSame", "cancelOthers", "put", "reconcile",
     "load", "heal", "save", "write", "reread", "match", "identity", "cancelArm", "store",
     "cancel", "flag", "boot", "restore", "cancelDup", "clearing"}

Operations ==
    {"none", "start", "save", "stop", "stopMany", "setEnabled", "toggleOn",
     "toggleOff", "saveProfile", "run", "boot", "shutdown"}

Configs == [Types -> Dests \cup {NoDest}]

TypeOK ==
    /\ registry \in [Objects -> Objects \cup {0}]
    /\ obj \in [Objects -> Schedules \cup {Unset}]
    /\ last \in Objects \cup {0}
    /\ config \in Configs
    /\ profiles \in [Profiles -> Identities \cup {Unset}]
    /\ file \in SUBSET Schedules
    /\ unsaved \in BOOLEAN
    /\ stopped \in SUBSET Objects
    /\ early \in SUBSET Objects
    /\ partial \in BOOLEAN /\ crossed \in BOOLEAN
    /\ pc \in [Threads -> Points]
    /\ op \in [Threads -> Operations]
    /\ want \in [Threads -> Wishes \cup {Unset}]
    /\ mine \in [Threads -> Objects \cup {0}]
    /\ todo \in [Threads -> SUBSET Objects]
    /\ keep \in [Threads -> SUBSET Objects]
    /\ cfg \in [Threads -> Configs]
    /\ dirty \in [Threads -> BOOLEAN]
    /\ text \in [Threads -> SUBSET Schedules]

-----------------------------------------------------------------------------
(***************************************************************************)
(* The registry, and what is read from it.                                 *)
(***************************************************************************)

Live == {n \in Objects : \E id \in Objects : registry[id] = n}
Snapshot == {obj[n] : n \in Live}

Identity(s) == [type |-> s.type, dest |-> s.dest]

SameIdentity(identity) == {n \in Live : Identity(obj[n]) = identity}

\* The schedules of a profile: stamped with its name, or of its identity.
ProfileSchedules(p, stored) ==
    {n \in Live : obj[n].profile = p \/ Identity(obj[n]) = stored}

ConfigDriven(n) == obj[n].profile = NoProfile

\* Config-driven schedules that a newer one of the same type supersedes.
Superseded ==
    {n \in Live : ConfigDriven(n)
        /\ \E m \in Live : ConfigDriven(m) /\ obj[m].type = obj[n].type /\ m > n}

\* Schedules that a newer one of the same identity supersedes.
Duplicates ==
    {n \in Live : \E m \in Live : Identity(obj[m]) = Identity(obj[n]) /\ m > n}

Keepers == {n \in Live : ConfigDriven(n)} \ Superseded

NoConfig == [t \in Types |-> NoDest]

Init ==
    /\ file \in InitialFiles
    /\ profiles = InitialProfiles
    /\ last \in {n \in Objects \cup {0} :
                    /\ \A s \in file : s.created <= n
                    /\ n = 0 \/ \E s \in file : s.created = n}
    /\ registry = [id \in Objects |-> 0]
    /\ obj = [n \in Objects |-> Unset]
    /\ config = NoConfig
    /\ unsaved = FALSE
    /\ stopped = {}
    /\ early = {} /\ partial = FALSE /\ crossed = FALSE
    /\ pc = [t \in Threads |-> IF t = Boot THEN "boot" ELSE "idle"]
    /\ op = [t \in Threads |-> IF t = Boot THEN "boot" ELSE "none"]
    /\ want = [t \in Threads |-> Unset]
    /\ mine = [t \in Threads |-> 0]
    /\ todo = [t \in Threads |-> {}]
    /\ keep = [t \in Threads |-> {}]
    /\ cfg = [t \in Threads |-> NoConfig]
    /\ dirty = [t \in Threads |-> FALSE]
    /\ text = [t \in Threads |-> {}]

-----------------------------------------------------------------------------
(***************************************************************************)
(* How a request begins and ends.                                          *)
(***************************************************************************)

Go(t, from, to) == pc[t] = from /\ pc' = [pc EXCEPT ![t] = to]

\* Requests that will create an object, so that the bound stops none halfway.
Creating == {t \in Threads : pc[t] \in {"config", "create", "reread", "match", "store"} /\ op[t] # "save"}
RoomForObject == last + Cardinality(Creating) < MaxObjects

Begin(t, name, to) ==
    /\ name \in Ops
    /\ Go(t, "idle", to)
    /\ op' = [op EXCEPT ![t] = name]

\* The thread's request is answered; nothing of it remains.
End(t) ==
    /\ pc' = [pc EXCEPT ![t] = "idle"]
    /\ op' = [op EXCEPT ![t] = "none"]
    /\ want' = [want EXCEPT ![t] = Unset]
    /\ mine' = [mine EXCEPT ![t] = 0]
    /\ todo' = [todo EXCEPT ![t] = {}]
    /\ keep' = [keep EXCEPT ![t] = {}]
    /\ cfg' = [cfg EXCEPT ![t] = NoConfig]
    /\ dirty' = [dirty EXCEPT ![t] = FALSE]
    /\ text' = [text EXCEPT ![t] = {}]

\* History: a request takes out what the key holds while the restore is under way.
Crosses(t, key) ==
    crossed' = (crossed \/ (t # Boot /\ pc[Boot] # "idle" /\ registry[key] # 0))

\* cancel_alert_automation: drop whatever the key of a listed object now holds.
Cancel(t) ==
    /\ pc[t] \in {"cancelSame", "cancelOthers", "cancelArm", "cancel", "heal", "cancelDup", "clearing"}
    /\ \E n \in todo[t] :
        /\ registry' = [registry EXCEPT ![obj[n].id] = 0]
        /\ dirty' = [dirty EXCEPT ![t] = @ \/ registry[obj[n].id] # 0]
        /\ todo' = [todo EXCEPT ![t] = @ \ {n}]
        /\ Crosses(t, obj[n].id)
    /\ UNCHANGED <<obj, last, stores, early, partial, pc, op, want, mine, keep, cfg, text>>

-----------------------------------------------------------------------------
(***************************************************************************)
(* action=start: arm a schedule from the form, or edit one (its key kept). *)
(***************************************************************************)

\* Reads the schedules of the same identity and the one to edit, if it exists.
BeginStart(t) ==
    /\ RoomForObject
    /\ Begin(t, "start", "config")
    /\ \E identity \in Identities, key \in {0} \cup {obj[n].id : n \in Live} :
        /\ want' = [want EXCEPT ![t] =
                      [type |-> identity.type, dest |-> identity.dest, id |-> key,
                       profile |-> NoProfile, flag |-> FALSE]]
        /\ todo' = [todo EXCEPT ![t] = SameIdentity(identity)]
    /\ UNCHANGED <<registryVars, stores, history, mine, keep, cfg, dirty, text>>

\* save_email_config_from_payload.  A start whose configuration is refused goes
\* on without it; a save answers with the error.
SaveConfig(t) ==
    \/ /\ Go(t, "config", IF op[t] = "start" THEN "create" ELSE "reconcile")
       /\ config' = [config EXCEPT ![want[t].type] = want[t].dest]
       /\ UNCHANGED <<registryVars, history, profiles, file, unsaved, stopped, locals>>
    \/ /\ op[t] = "start"
       /\ Go(t, "config", "create")
       /\ UNCHANGED <<registryVars, stores, history, locals>>

\* The schedule is built, created_at is now; under a fresh key unless it edits one.
Create(t) ==
    LET n == last + 1 IN
    /\ n \in Objects
    /\ Go(t, "create", IF op[t] = "start" THEN "cancelSame" ELSE "identity")
    /\ last' = n
    /\ mine' = [mine EXCEPT ![t] = n]
    /\ obj' = [obj EXCEPT ![n] =
                 [id |-> IF want[t].id = 0 THEN n ELSE want[t].id, created |-> n,
                  type |-> want[t].type, dest |-> want[t].dest,
                  profile |-> want[t].profile, enabled |-> TRUE]]
    /\ early' = IF pc[Boot] = "boot" THEN early \cup {n} ELSE early
    /\ UNCHANGED <<registry, stores, partial, crossed, op, want, todo, keep, cfg, dirty, text>>

\* The same-identity schedules are gone; now the other config-driven ones of the
\* type, and last the key itself (cancel_alert_automation(automation_id)).
FindOthers(t) ==
    /\ todo[t] = {}
    /\ Go(t, "cancelSame", "cancelOthers")
    /\ todo' = [todo EXCEPT ![t] =
                  {n \in Live : /\ ConfigDriven(n)
                                /\ obj[n].type = obj[mine[t]].type
                                /\ obj[n].id # obj[mine[t]].id}]
    /\ UNCHANGED <<registryVars, stores, history, op, want, mine, keep, cfg, dirty, text>>

Replace(t) ==
    /\ todo[t] = {}
    /\ Go(t, "cancelOthers", "put")
    /\ registry' = [registry EXCEPT ![obj[mine[t]].id] = 0]
    /\ Crosses(t, obj[mine[t]].id)
    /\ UNCHANGED <<obj, last, stores, early, partial, locals>>

\* Faulty variant: a new schedule is registered and not reconciled.
PutOnly(t) ==
    /\ Go(t, "put", "save")
    /\ registry' = [registry EXCEPT ![obj[mine[t]].id] = mine[t]]
    /\ Crosses(t, obj[mine[t]].id)
    /\ UNCHANGED <<obj, last, stores, early, partial, locals>>

\* _put_automation.  A schedule armed from the form is reconciled next.
Put(t) ==
    /\ Go(t, "put", IF op[t] = "start" THEN "reconcile" ELSE "save")
    /\ registry' = [registry EXCEPT ![obj[mine[t]].id] = mine[t]]
    /\ Crosses(t, obj[mine[t]].id)
    /\ UNCHANGED <<obj, last, stores, early, partial, locals>>

-----------------------------------------------------------------------------
(***************************************************************************)
(* _reconcile_config_driven_automations: at most one config-driven schedule*)
(* per type, following email_config.json.  The types are handled one after *)
(* the other, in any order; here their steps may also mix.                 *)
(***************************************************************************)

\* Faulty variant: the newest schedule is not spared.
ReconcileAll(t) ==
    /\ Go(t, "reconcile", "load")
    /\ todo' = [todo EXCEPT ![t] = {n \in Live : ConfigDriven(n)}]
    /\ keep' = [keep EXCEPT ![t] = {}]
    /\ UNCHANGED <<registryVars, stores, history, op, want, mine, cfg, dirty, text>>

Reconcile(t) ==
    /\ Go(t, "reconcile", "load")
    /\ todo' = [todo EXCEPT ![t] = Superseded]
    /\ keep' = [keep EXCEPT ![t] = Keepers]
    /\ UNCHANGED <<registryVars, stores, history, op, want, mine, cfg, dirty, text>>

LoadConfig(t) ==
    /\ Go(t, "load", "heal")
    /\ cfg' = [cfg EXCEPT ![t] = config]
    /\ UNCHANGED <<registryVars, stores, history, op, want, mine, todo, keep, dirty, text>>

\* _sync_automation_from_email_config, once the type's stale ones are cancelled:
\* a type with nothing saved keeps its schedule as it is.
Sync(t) ==
    /\ pc[t] = "heal"
    /\ \E k \in keep[t] :
        LET saved == cfg[t][obj[k].type] IN
        /\ \A n \in todo[t] : obj[n].type # obj[k].type
        /\ keep' = [keep EXCEPT ![t] = @ \ {k}]
        /\ IF saved \in {NoDest, obj[k].dest}
           THEN UNCHANGED <<obj, dirty>>
           ELSE /\ obj' = [obj EXCEPT ![k].dest = saved]
                /\ dirty' = [dirty EXCEPT ![t] = TRUE]
    /\ UNCHANGED <<registry, last, stores, history, pc, op, want, mine, todo, cfg, text>>

\* Faulty variant: only a start saves what it healed.
HealedUnsaved(t) ==
    /\ todo[t] = {} /\ keep[t] = {}
    /\ pc[t] = "heal"
    /\ IF op[t] = "start"
       THEN Go(t, "heal", "save") /\ UNCHANGED locals
       ELSE End(t)
    /\ UNCHANGED <<registryVars, stores, history>>

\* What changed the registry saves it; a start always does.
Healed(t) ==
    /\ todo[t] = {} /\ keep[t] = {}
    /\ pc[t] = "heal"
    /\ IF op[t] = "start" \/ dirty[t]
       THEN Go(t, "heal", "save") /\ UNCHANGED locals
       ELSE End(t)
    /\ UNCHANGED <<registryVars, stores, history>>

\* action=save: the configuration, then the schedules that follow it.
BeginSaveConfig(t) ==
    /\ Begin(t, "save", "config")
    /\ \E identity \in Identities :
        want' = [want EXCEPT ![t] =
                   [type |-> identity.type, dest |-> identity.dest, id |-> 0,
                    profile |-> NoProfile, flag |-> FALSE]]
    /\ UNCHANGED <<registryVars, stores, history, mine, todo, keep, cfg, dirty, text>>

-----------------------------------------------------------------------------
(***************************************************************************)
(* action=stop, set_enabled, and the end of a run.                         *)
(***************************************************************************)

\* Stop one schedule by its key, or all of a dashboard session's.
BeginStop(t) ==
    \/ /\ Begin(t, "stop", "cancel")
       /\ \E n \in Live :
            /\ mine' = [mine EXCEPT ![t] = n]
            /\ todo' = [todo EXCEPT ![t] = {n}]
       /\ UNCHANGED <<registryVars, stores, history, want, keep, cfg, dirty, text>>
    \/ /\ Begin(t, "stopMany", "cancel")
       /\ \E some \in SUBSET Live : todo' = [todo EXCEPT ![t] = some]
       /\ UNCHANGED <<registryVars, stores, history, want, mine, keep, cfg, dirty, text>>

\* Faulty variant: a schedule stopped by its key is not saved.
CancelledUnsaved(t) ==
    /\ todo[t] = {}
    /\ pc[t] = "cancel"
    /\ End(t)
    /\ stopped' = IF op[t] = "stop" THEN stopped \cup ({mine[t]} \ early) ELSE stopped
    /\ UNCHANGED <<registryVars, history, config, profiles, file, unsaved>>

\* A stop by key saves whatever became of the key; the others if they stopped any.
Cancelled(t) ==
    /\ todo[t] = {}
    /\ pc[t] = "cancel"
    /\ IF op[t] = "stop" \/ dirty[t]
       THEN Go(t, "cancel", "save") /\ UNCHANGED locals
       ELSE End(t)
    /\ UNCHANGED <<registryVars, stores, history>>

BeginSetEnabled(t) ==
    /\ Begin(t, "setEnabled", "flag")
    /\ \E n \in Live, flag \in BOOLEAN :
        /\ flag # obj[n].enabled
        /\ mine' = [mine EXCEPT ![t] = n]
        /\ want' = [want EXCEPT ![t] =
                      [type |-> obj[n].type, dest |-> obj[n].dest, id |-> obj[n].id,
                       profile |-> obj[n].profile, flag |-> flag]]
    /\ UNCHANGED <<registryVars, stores, history, todo, keep, cfg, dirty, text>>

\* The object found is paused or resumed, registered or not by now.
SetEnabled(t) ==
    /\ Go(t, "flag", "save")
    /\ obj' = [obj EXCEPT ![mine[t]].enabled = want[t].flag]
    /\ UNCHANGED <<registry, last, stores, history, locals>>

\* A run ends: its result is saved, whatever it was, and whatever has become of
\* the schedule of this process that it ran.
EndRun(t) ==
    /\ \E n \in Objects : obj[n] # Unset
    /\ Begin(t, "run", "save")
    /\ UNCHANGED <<registryVars, stores, history, want, mine, todo, keep, cfg, dirty, text>>

-----------------------------------------------------------------------------
(***************************************************************************)
(* Email profiles: each may be switched on, which arms a schedule of its   *)
(* own, or off.                                                            *)
(***************************************************************************)

Asked(p, identity, flag) ==
    [type |-> identity.type, dest |-> identity.dest, id |-> 0, profile |-> p, flag |-> flag]

\* toggle-profile on: the stored profile is read.
BeginToggleOn(t) ==
    /\ RoomForObject
    /\ Begin(t, "toggleOn", "match")
    /\ \E p \in Profiles :
        /\ profiles[p] # Unset
        /\ want' = [want EXCEPT ![t] = Asked(p, profiles[p], TRUE)]
    /\ UNCHANGED <<registryVars, stores, history, mine, todo, keep, cfg, dirty, text>>

\* toggle-profile off: every schedule of the profile is cancelled.
BeginToggleOff(t) ==
    /\ Begin(t, "toggleOff", "cancel")
    /\ \E p \in Profiles :
        /\ profiles[p] # Unset
        /\ todo' = [todo EXCEPT ![t] = ProfileSchedules(p, profiles[p])]
    /\ UNCHANGED <<registryVars, stores, history, want, mine, keep, cfg, dirty, text>>

\* save-profile: was the profile on before it is stored?
BeginSaveProfile(t) ==
    /\ RoomForObject
    /\ Begin(t, "saveProfile", "store")
    /\ \E p \in Profiles, identity \in Identities :
        want' = [want EXCEPT ![t] =
                   Asked(p, identity, ProfileSchedules(p, profiles[p]) # {})]
    /\ UNCHANGED <<registryVars, stores, history, mine, todo, keep, cfg, dirty, text>>

\* One that was on has its schedule armed again, from the new settings.
StoreProfile(t) ==
    /\ pc[t] = "store"
    /\ profiles' = [profiles EXCEPT ![want[t].profile] = Identity(want[t])]
    /\ IF want[t].flag
       THEN Go(t, "store", "reread") /\ UNCHANGED locals
       ELSE End(t)
    /\ UNCHANGED <<registryVars, history, config, file, unsaved, stopped>>

\* The stored profile is read back; one deleted meanwhile cannot be armed.
RereadProfile(t) ==
    LET p == want[t].profile IN
    /\ pc[t] = "reread"
    /\ IF profiles[p] = Unset
       THEN End(t)
       ELSE /\ Go(t, "reread", "match")
            /\ want' = [want EXCEPT ![t] = Asked(p, profiles[p], TRUE)]
            /\ UNCHANGED <<op, mine, todo, keep, cfg, dirty, text>>
    /\ UNCHANGED <<registryVars, stores, history>>

\* _arm_profile_automation: the profile's schedules are noted before the new one
\* is built, those of its identity after; all are cancelled, then it is put.
FindMatches(t) ==
    /\ Go(t, "match", "create")
    /\ todo' = [todo EXCEPT ![t] = ProfileSchedules(want[t].profile, Identity(want[t]))]
    /\ UNCHANGED <<registryVars, stores, history, op, want, mine, keep, cfg, dirty, text>>

FindSameIdentity(t) ==
    /\ Go(t, "identity", "cancelArm")
    /\ todo' = [todo EXCEPT ![t] = @ \cup SameIdentity(Identity(obj[mine[t]]))]
    /\ UNCHANGED <<registryVars, stores, history, op, want, mine, keep, cfg, dirty, text>>

MatchesCancelled(t) ==
    /\ todo[t] = {}
    /\ Go(t, "cancelArm", "put")
    /\ UNCHANGED <<registryVars, stores, history, locals>>

\* delete-profile stops no schedule.
DeleteProfile(t) ==
    /\ "deleteProfile" \in Ops
    /\ pc[t] = "idle"
    /\ \E p \in Profiles :
        /\ profiles[p] # Unset
        /\ profiles' = [profiles EXCEPT ![p] = Unset]
    /\ UNCHANGED <<registryVars, history, config, file, unsaved, stopped, pc, locals>>

-----------------------------------------------------------------------------
(***************************************************************************)
(* persist_automations, under _AUTOMATIONS_FILE_LOCK (see StateFile).      *)
(***************************************************************************)

SaveInProgress == \E t \in Threads : pc[t] = "write"

\* Faulty variant: the file lock is not taken.
BeginSaveUnlocked(t) ==
    /\ Go(t, "save", "write")
    /\ text' = [text EXCEPT ![t] = Snapshot]
    /\ partial' = (pc[Boot] \in {"boot", "restore"})
    /\ UNCHANGED <<registryVars, stores, early, crossed, op, want, mine, todo, keep, cfg, dirty>>

BeginSave(t) ==
    /\ ~SaveInProgress
    /\ Go(t, "save", "write")
    /\ text' = [text EXCEPT ![t] = Snapshot]
    /\ partial' = (pc[Boot] \in {"boot", "restore"})
    /\ UNCHANGED <<registryVars, stores, early, crossed, op, want, mine, todo, keep, cfg, dirty>>

WriteFile(t) ==
    /\ pc[t] = "write"
    /\ End(t)
    /\ file' = text[t]
    /\ unsaved' = FALSE
    /\ stopped' = IF op[t] = "stop" THEN stopped \cup ({mine[t]} \ early) ELSE stopped
    /\ UNCHANGED <<registryVars, history, config, profiles>>

\* The failure is logged and the request carries on.
WriteFails(t) ==
    /\ "writeFails" \in Ops
    /\ pc[t] = "write"
    /\ End(t)
    /\ unsaved' = TRUE
    /\ UNCHANGED <<registryVars, history, config, profiles, file, stopped>>

-----------------------------------------------------------------------------
(***************************************************************************)
(* Boot (main._restore_sessions_bg, restore_automations_from_disk),        *)
(* shutdown (the finally block of main.run) and crashes.                   *)
(***************************************************************************)

ReadFile ==
    /\ Go(Boot, "boot", "restore")
    /\ text' = [text EXCEPT ![Boot] = file]
    /\ UNCHANGED <<registryVars, stores, history, op, want, mine, todo, keep, cfg, dirty>>

\* A record becomes a schedule again, under its key and with its created_at.  (One
\* that an early request armed and saved is not told apart from its restored copy.)
RestoreOne ==
    /\ pc[Boot] = "restore"
    /\ \E s \in text[Boot] :
        /\ obj' = [obj EXCEPT ![s.created] = s]
        /\ registry' = [registry EXCEPT ![s.id] = s.created]
        /\ text' = [text EXCEPT ![Boot] = @ \ {s}]
        /\ crossed' = (crossed \/ registry[s.id] \notin {0, s.created})
    /\ UNCHANGED <<last, stores, early, partial, pc, op, want, mine, todo, keep, cfg, dirty>>

\* Faulty variant: of two schedules with one identity both are dropped.
HealAllDuplicates ==
    /\ text[Boot] = {}
    /\ Go(Boot, "restore", "cancelDup")
    /\ todo' = [todo EXCEPT ![Boot] =
                  {n \in Live : \E m \in Live : m # n /\ Identity(obj[m]) = Identity(obj[n])}]
    /\ UNCHANGED <<registryVars, stores, history, op, want, mine, keep, cfg, dirty, text>>

\* First healing pass: the newest schedule of each identity stays.
HealDuplicates ==
    /\ text[Boot] = {}
    /\ Go(Boot, "restore", "cancelDup")
    /\ todo' = [todo EXCEPT ![Boot] = Duplicates]
    /\ UNCHANGED <<registryVars, stores, history, op, want, mine, keep, cfg, dirty, text>>

DuplicatesHealed ==
    /\ todo[Boot] = {}
    /\ Go(Boot, "cancelDup", "reconcile")
    /\ UNCHANGED <<registryVars, stores, history, locals>>

\* The main thread cancels every schedule it finds, then stops the listener.
BeginShutdown ==
    /\ Begin(Main, "shutdown", "clearing")
    /\ todo' = [todo EXCEPT ![Main] = Live]
    /\ UNCHANGED <<registryVars, stores, history, want, mine, keep, cfg, dirty, text>>

\* All threads end with the process; the next one starts with an empty registry.
ProcessEnds ==
    /\ registry' = [id \in Objects |-> 0]
    /\ obj' = [n \in Objects |-> Unset]
    /\ unsaved' = FALSE
    /\ early' = {} /\ partial' = FALSE /\ crossed' = FALSE
    /\ pc' = [t \in Threads |-> IF t = Boot THEN "boot" ELSE "idle"]
    /\ op' = [t \in Threads |-> IF t = Boot THEN "boot" ELSE "none"]
    /\ want' = [t \in Threads |-> Unset]
    /\ mine' = [t \in Threads |-> 0]
    /\ todo' = [t \in Threads |-> {}]
    /\ keep' = [t \in Threads |-> {}]
    /\ cfg' = [t \in Threads |-> NoConfig]
    /\ dirty' = [t \in Threads |-> FALSE]
    /\ text' = [t \in Threads |-> {}]
    /\ UNCHANGED <<last, config, profiles, file, stopped>>

\* os._exit, once the listener and the refresh thread have had their seconds.
Exit ==
    /\ pc[Main] = "clearing" /\ todo[Main] = {}
    /\ ProcessEnds

Crash ==
    /\ "crash" \in Ops
    /\ ProcessEnds

-----------------------------------------------------------------------------

Heal(t) == Reconcile(t) \/ LoadConfig(t) \/ Sync(t) \/ Healed(t)

Persist(t) == BeginSave(t) \/ WriteFile(t) \/ WriteFails(t)

Request(t) ==
    \/ BeginStart(t) \/ SaveConfig(t) \/ Create(t) \/ FindOthers(t) \/ Replace(t) \/ Put(t)
    \/ BeginSaveConfig(t)
    \/ BeginStop(t) \/ Cancelled(t) \/ BeginSetEnabled(t) \/ SetEnabled(t) \/ EndRun(t)
    \/ BeginToggleOn(t) \/ BeginToggleOff(t) \/ BeginSaveProfile(t) \/ StoreProfile(t)
    \/ RereadProfile(t)
    \/ FindMatches(t) \/ FindSameIdentity(t) \/ MatchesCancelled(t) \/ DeleteProfile(t)
    \/ Cancel(t) \/ Heal(t) \/ Persist(t)

Restore ==
    \/ ReadFile \/ RestoreOne \/ HealDuplicates \/ DuplicatesHealed
    \/ Cancel(Boot) \/ Heal(Boot) \/ Persist(Boot)

Shutdown == BeginShutdown \/ Cancel(Main) \/ Exit

Next == Restore \/ Shutdown \/ Crash \/ \E t \in Workers : Request(t)

Spec == Init /\ [][Next]_vars

-----------------------------------------------------------------------------
(***************************************************************************)
(* Properties.                                                             *)
(***************************************************************************)

\* No thread is in the middle of anything, and the restore is done.
Quiet == \A t \in Threads : pc[t] = "idle"

\* At most one config-driven schedule per type once requests have finished,
\* however starts, edits, saves and the restore interleave: the contract of
\* _reconcile_config_driven_automations.
OneConfigDrivenPerType ==
    Quiet => \A m, n \in Live :
        ConfigDriven(m) /\ ConfigDriven(n) /\ obj[m].type = obj[n].type => m = n

\* Once requests have finished, a crash loses nothing and brings nothing back:
\* automations.json holds the registry, pauses included.  Not so when the last save
\* failed, nor when it was begun before the restore had put every record back, as
\* requests are served from before the restore on: what was still to come back is
\* then missing in the file until the next save, and lost if the process dies before.
FileIsRegistry == Quiet /\ ~unsaved /\ ~partial => file = Snapshot

\* A schedule whose stop was confirmed and saved is gone for good, in memory and on
\* disk, whatever requests were in flight, the restore under way or not, over crashes,
\* shutdowns and restarts.  Not so for one made and saved before the restore had read
\* the file: the restore may have its record to put back after the stop.
StoppedStaysStopped ==
    \A n \in stopped : n \notin Live /\ \A s \in file : s.created # n

\* The restore's two healing passes drop a schedule only for a newer one: every
\* type the file holds a schedule of still has one when they are done, whatever is
\* armed, paused or saved meanwhile.  Not so when a request (or the shutdown) drops or
\* replaces a schedule while the restore runs: it may be the one the passes kept.
RestoreServesEveryType ==
    ~crossed /\ pc[Boot] \in {"save", "write"} =>
        {s.type : s \in file} \subseteq {obj[n].type : n \in Live}

\* "Toggling/re-saving never accumulates duplicates" (_arm_profile_automation).
OneSchedulePerIdentity ==
    Quiet => \A m, n \in Live : Identity(obj[m]) = Identity(obj[n]) => m = n

\* "Keeps the NEWEST schedule per type, drops the rest": what was armed for a type
\* is replaced, never lost.  Stated for instances in which no request stops one.
ArmedTypeStaysArmed ==
    Quiet => \A n \in Objects :
        obj[n] # Unset => \E m \in Live : obj[m].type = obj[n].type

\* What the file held when a shutdown began comes back at the next boot.  Stated
\* for instances in which no request stops or replaces a schedule.
ShutdownKeepsSchedules == [][{s.id : s \in file} \subseteq {s.id : s \in file'}]_file
=============================================================================
