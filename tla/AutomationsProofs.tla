-------------------------- MODULE AutomationsProofs --------------------------
(***************************************************************************)
(* Theorems about Automations for any number of request threads, schedules,*)
(* types, destinations and profiles, and for requests served before, while *)
(* and after the restore runs.                                             *)
(***************************************************************************)
EXTENDS Automations, WellFoundedInduction, TLAPS

-----------------------------------------------------------------------------
(***************************************************************************)
(* Type correctness.  A step may only follow a reference to a schedule that*)
(* is in memory, and a request that has been read: TypeOK alone does not say*)
(* so, hence InMemory.                                                     *)
(***************************************************************************)

WishPoints == {"config", "create", "flag", "store", "reread", "match"}

InMemory ==
    /\ \A id \in Objects : registry[id] # 0 => obj[registry[id]] \in Schedules
    /\ \A t \in Threads : mine[t] # 0 => obj[mine[t]] \in Schedules
    /\ \A t \in Threads : \A k \in keep[t] : obj[k] \in Schedules
    /\ \A t \in Threads : pc[t] \in WishPoints => want[t] \in Wishes
    /\ \A t \in Threads : pc[t] \in {"store", "reread"} => want[t].profile \in Profiles
    /\ \A t \in Threads : op[t] = "stop" => mine[t] # 0

\* TypeOK in parts, each within the provers' reach.
RegistryOK ==
    /\ registry \in [Objects -> Objects \cup {0}]
    /\ obj \in [Objects -> Schedules \cup {Unset}]
    /\ last \in Objects \cup {0}

StoresOK ==
    /\ config \in Configs
    /\ profiles \in [Profiles -> Identities \cup {Unset}]
    /\ file \in SUBSET Schedules
    /\ stopped \in SUBSET Objects

PointsOK ==
    /\ pc \in [Threads -> Points]
    /\ op \in [Threads -> Operations]
    /\ want \in [Threads -> Wishes \cup {Unset}]
    /\ mine \in [Threads -> Objects \cup {0}]

ListsOK ==
    /\ todo \in [Threads -> SUBSET Objects]
    /\ keep \in [Threads -> SUBSET Objects]
    /\ cfg \in [Threads -> Configs]
    /\ text \in [Threads -> SUBSET Schedules]

FlagsOK == unsaved \in BOOLEAN /\ dirty \in [Threads -> BOOLEAN]

Parts == RegistryOK /\ StoresOK /\ PointsOK /\ ListsOK /\ FlagsOK

TInv == Parts /\ InMemory

HistoryOK == early \in SUBSET Objects /\ partial \in BOOLEAN /\ crossed \in BOOLEAN

LEMMA TypeParts == TypeOK <=> Parts /\ HistoryOK
BY DEF TypeOK, Parts, RegistryOK, StoresOK, PointsOK, ListsOK, FlagsOK, HistoryOK

LEMMA LiveFacts ==
    ASSUME RegistryOK, InMemory
    PROVE  /\ Live \subseteq Objects
           /\ \A n \in Live : obj[n] \in Schedules
           /\ Snapshot \subseteq Schedules
<1>1. Live \subseteq Objects BY DEF Live
<1>2. \A n \in Live : obj[n] \in Schedules BY DEF Live, InMemory, RegistryOK, Objects
<1> QED BY <1>1, <1>2 DEF Snapshot

LEMMA ListFacts ==
    /\ Live \subseteq Objects
    /\ Superseded \subseteq Objects
    /\ Duplicates \subseteq Objects
    /\ Keepers \subseteq Live
    /\ \A identity : SameIdentity(identity) \subseteq Objects
    /\ \A p, stored : ProfileSchedules(p, stored) \subseteq Objects
BY DEF Live, Superseded, Duplicates, Keepers, SameIdentity, ProfileSchedules

LEMMA NoConfigOK == NoConfig \in Configs
BY DEF NoConfig, Configs

LEMMA ScheduleFields ==
    /\ \A s \in Schedules : /\ s.id \in Objects /\ s.created \in Objects /\ s.type \in Types /\ s.dest \in Dests
                             /\ s.profile \in Profiles \cup {NoProfile} /\ s.enabled \in BOOLEAN
                             /\ Identity(s) \in Identities
    /\ \A w \in Wishes : /\ w.id \in Objects \cup {0} /\ w.type \in Types /\ w.dest \in Dests
                          /\ w.profile \in Profiles \cup {NoProfile} /\ w.flag \in BOOLEAN
                          /\ Identity(w) \in Identities
    /\ \A s \in Identities : s.type \in Types /\ s.dest \in Dests
BY DEF Schedules, Wishes, Identities, Identity

LEMMA UnsetApart == Unset \notin Schedules /\ Unset \notin Wishes /\ Unset \notin Identities
BY AutomationsAssumption DEF AutomationsAssumption

LEMMA MakeWish ==
    ASSUME NEW type \in Types, NEW dest \in Dests, NEW id \in Objects \cup {0},
           NEW profile \in Profiles \cup {NoProfile}, NEW flag \in BOOLEAN
    PROVE  [type |-> type, dest |-> dest, id |-> id, profile |-> profile, flag |-> flag] \in Wishes
BY DEF Wishes

LEMMA MakeSchedule ==
    ASSUME NEW type \in Types, NEW dest \in Dests, NEW id \in Objects, NEW created \in Objects,
           NEW profile \in Profiles \cup {NoProfile}, NEW enabled \in BOOLEAN
    PROVE  [id |-> id, created |-> created, type |-> type, dest |-> dest, profile |-> profile,
            enabled |-> enabled] \in Schedules
BY DEF Schedules

LEMMA ChangeSchedule ==
    ASSUME NEW s \in Schedules
    PROVE  /\ \A d \in Dests : [s EXCEPT !.dest = d] \in Schedules
           /\ \A b \in BOOLEAN : [s EXCEPT !.enabled = b] \in Schedules
BY DEF Schedules

LEMMA ZeroIsNoObject == 0 \notin Objects
BY DEF Objects

LEMMA BootIsThread == Boot \in Threads /\ Main \in Threads
BY DEF Threads

LEMMA EndKeepsTInv ==
    ASSUME TInv, NEW t \in Threads, End(t), UNCHANGED <<registryVars, stores>>
    PROVE  TInv'
<1> USE DEF registryVars, stores, End
<1>1. RegistryOK' /\ StoresOK' BY DEF TInv, Parts, RegistryOK, StoresOK
<1>2. PointsOK' BY ZeroIsNoObject, UnsetApart DEF TInv, Parts, PointsOK, Points, Operations
<1>3. ListsOK' BY NoConfigOK DEF TInv, Parts, ListsOK
<1>4. FlagsOK' BY Zenon DEF TInv, Parts, FlagsOK
<1>5. InMemory' BY ZeroIsNoObject DEF TInv, Parts, RegistryOK, PointsOK, ListsOK, InMemory, WishPoints
<1> QED BY <1>1, <1>2, <1>3, <1>4, <1>5 DEF TInv, Parts

LEMMA NextKeepsTInv ==
    ASSUME TInv, [Next]_vars
    PROVE  TInv'
<1> USE ZeroIsNoObject, ListFacts, NoConfigOK, UnsetApart
    DEF registryVars, stores, locals, vars, Go, Begin, End, WishPoints
<1>1. ASSUME NEW t \in Threads, BeginStart(t) PROVE TInv'
  <2>0. \E w \in Wishes : want' = [want EXCEPT ![t] = w]
    <3>. PICK identity \in Identities, key \in {0} \cup {obj[n].id : n \in Live} :
           want' = [want EXCEPT ![t] = [type |-> identity.type, dest |-> identity.dest, id |-> key,
                                        profile |-> NoProfile, flag |-> FALSE]]
      BY <1>1 DEF BeginStart
    <3>1. key \in Objects \cup {0}
      BY LiveFacts, ScheduleFields DEF TInv, Parts
    <3>. QED BY <3>1, ScheduleFields, MakeWish
  <2>1. RegistryOK' /\ StoresOK' BY <1>1 DEF TInv, Parts, RegistryOK, StoresOK, BeginStart
  <2>2. PointsOK'
    <3>1. want' \in [Threads -> Wishes \cup {Unset}] BY <2>0 DEF TInv, Parts, PointsOK
    <3>2. mine' \in [Threads -> Objects \cup {0}] BY <1>1 DEF TInv, Parts, PointsOK, BeginStart
    <3>3. pc' \in [Threads -> Points] /\ op' \in [Threads -> Operations]
      BY <1>1 DEF TInv, Parts, PointsOK, Points, Operations, BeginStart
    <3>. QED BY <3>1, <3>2, <3>3 DEF PointsOK
  <2>3. ListsOK' BY <1>1 DEF TInv, Parts, ListsOK, BeginStart
  <2>4. FlagsOK' BY <1>1, Zenon DEF TInv, Parts, FlagsOK, BeginStart
  <2>5. InMemory'
    BY <1>1, <2>0, LiveFacts DEF TInv, Parts, RegistryOK, PointsOK, ListsOK, InMemory, BeginStart
  <2>. QED BY <2>1, <2>2, <2>3, <2>4, <2>5 DEF TInv, Parts
<1>2. ASSUME NEW t \in Threads, SaveConfig(t) PROVE TInv'
  <2>1. RegistryOK' /\ StoresOK' BY <1>2, ScheduleFields DEF TInv, Parts, RegistryOK, StoresOK, InMemory, Configs, SaveConfig
  <2>2. PointsOK' BY <1>2 DEF TInv, Parts, PointsOK, Points, Operations, SaveConfig
  <2>3. ListsOK' BY <1>2 DEF TInv, Parts, ListsOK, SaveConfig
  <2>4. FlagsOK' BY <1>2, Zenon DEF TInv, Parts, FlagsOK, SaveConfig
  <2>5. InMemory' BY <1>2 DEF TInv, Parts, RegistryOK, PointsOK, ListsOK, InMemory, SaveConfig
  <2>. QED BY <2>1, <2>2, <2>3, <2>4, <2>5 DEF TInv, Parts
<1>3. ASSUME NEW t \in Threads, Create(t) PROVE TInv'
  <2>. DEFINE n == last + 1
              s == [id |-> IF want[t].id = 0 THEN n ELSE want[t].id, created |-> n,
                    type |-> want[t].type, dest |-> want[t].dest,
                    profile |-> want[t].profile, enabled |-> TRUE]
  <2>1. n \in Objects /\ obj' = [obj EXCEPT ![n] = s] /\ want[t] \in Wishes
    BY <1>3 DEF TInv, InMemory, Create
  <2>2. s \in Schedules
    BY <2>1, ScheduleFields, MakeSchedule
  <2>. HIDE DEF s
  <2>3. RegistryOK' /\ StoresOK'
    BY <1>3, <2>1, <2>2 DEF TInv, Parts, RegistryOK, StoresOK, Create
  <2>4. PointsOK'
    BY <1>3 DEF TInv, Parts, PointsOK, Points, Operations, Create
  <2>5. ListsOK' BY <1>3 DEF TInv, Parts, ListsOK, Create
  <2>6. FlagsOK' BY <1>3, Zenon DEF TInv, Parts, FlagsOK, Create
  <2>7. /\ UNCHANGED <<registry, keep, want, op>>
        /\ mine' = [mine EXCEPT ![t] = n]
        /\ \E to \in {"cancelSame", "identity"} : pc' = [pc EXCEPT ![t] = to]
    BY <1>3 DEF Create
  <2>. HIDE DEF n
  <2>8. InMemory'
    BY <2>1, <2>2, <2>7 DEF TInv, Parts, RegistryOK, PointsOK, ListsOK, InMemory
  <2>. QED BY <2>3, <2>4, <2>5, <2>6, <2>8 DEF TInv, Parts
<1>4. ASSUME NEW t \in Threads, FindOthers(t) PROVE TInv'
  <2>1. RegistryOK' /\ StoresOK' BY <1>4 DEF TInv, Parts, RegistryOK, StoresOK, FindOthers
  <2>2. PointsOK' BY <1>4 DEF TInv, Parts, PointsOK, Points, Operations, FindOthers
  <2>3. ListsOK' BY <1>4 DEF TInv, Parts, ListsOK, FindOthers
  <2>4. FlagsOK' BY <1>4, Zenon DEF TInv, Parts, FlagsOK, FindOthers
  <2>5. InMemory' BY <1>4 DEF TInv, Parts, RegistryOK, PointsOK, ListsOK, InMemory, FindOthers
  <2>. QED BY <2>1, <2>2, <2>3, <2>4, <2>5 DEF TInv, Parts
<1>5. ASSUME NEW t \in Threads, Replace(t) PROVE TInv'
  <2>1. RegistryOK' /\ StoresOK' BY <1>5 DEF TInv, Parts, RegistryOK, StoresOK, Replace
  <2>2. PointsOK' BY <1>5 DEF TInv, Parts, PointsOK, Points, Operations, Replace
  <2>3. ListsOK' BY <1>5 DEF TInv, Parts, ListsOK, Replace
  <2>4. FlagsOK' BY <1>5, Zenon DEF TInv, Parts, FlagsOK, Replace
  <2>5. InMemory' BY <1>5 DEF TInv, Parts, RegistryOK, PointsOK, ListsOK, InMemory, Replace
  <2>. QED BY <2>1, <2>2, <2>3, <2>4, <2>5 DEF TInv, Parts
<1>6. ASSUME NEW t \in Threads, Put(t) PROVE TInv'
  <2>1. RegistryOK' /\ StoresOK' BY <1>6 DEF TInv, Parts, RegistryOK, StoresOK, PointsOK, Put
  <2>2. PointsOK' BY <1>6 DEF TInv, Parts, PointsOK, Points, Operations, Put
  <2>3. ListsOK' BY <1>6 DEF TInv, Parts, ListsOK, Put
  <2>4. FlagsOK' BY <1>6, Zenon DEF TInv, Parts, FlagsOK, Put
  <2>5. InMemory' BY <1>6 DEF TInv, Parts, RegistryOK, PointsOK, ListsOK, InMemory, Put
  <2>. QED BY <2>1, <2>2, <2>3, <2>4, <2>5 DEF TInv, Parts
<1>7. ASSUME NEW t \in Threads, Reconcile(t) PROVE TInv'
  <2>1. RegistryOK' /\ StoresOK' BY <1>7 DEF TInv, Parts, RegistryOK, StoresOK, Reconcile
  <2>2. PointsOK' BY <1>7 DEF TInv, Parts, PointsOK, Points, Operations, Reconcile
  <2>3. ListsOK' BY <1>7 DEF TInv, Parts, ListsOK, Reconcile
  <2>4. FlagsOK' BY <1>7, Zenon DEF TInv, Parts, FlagsOK, Reconcile
  <2>5. InMemory' BY <1>7, LiveFacts DEF TInv, Parts, RegistryOK, PointsOK, ListsOK, InMemory, Reconcile
  <2>. QED BY <2>1, <2>2, <2>3, <2>4, <2>5 DEF TInv, Parts
<1>8. ASSUME NEW t \in Threads, LoadConfig(t) PROVE TInv'
  <2>1. RegistryOK' /\ StoresOK' BY <1>8 DEF TInv, Parts, RegistryOK, StoresOK, LoadConfig
  <2>2. PointsOK' BY <1>8 DEF TInv, Parts, PointsOK, Points, Operations, LoadConfig
  <2>3. ListsOK' BY <1>8 DEF TInv, Parts, StoresOK, ListsOK, LoadConfig
  <2>4. FlagsOK' BY <1>8, Zenon DEF TInv, Parts, FlagsOK, LoadConfig
  <2>5. InMemory' BY <1>8 DEF TInv, Parts, RegistryOK, PointsOK, ListsOK, InMemory, LoadConfig
  <2>. QED BY <2>1, <2>2, <2>3, <2>4, <2>5 DEF TInv, Parts
<1>9. ASSUME NEW t \in Threads, Sync(t) PROVE TInv'
  <2>. PICK k \in keep[t] :
           /\ keep' = [keep EXCEPT ![t] = @ \ {k}]
           /\ \/ obj' = obj
              \/ /\ cfg[t][obj[k].type] \notin {NoDest, obj[k].dest}
                 /\ obj' = [obj EXCEPT ![k].dest = cfg[t][obj[k].type]]
    BY <1>9, Zenon DEF Sync
  <2>1. k \in Objects /\ obj[k] \in Schedules
    BY DEF TInv, Parts, ListsOK, InMemory
  <2>2. obj' = obj \/ \E s \in Schedules : obj' = [obj EXCEPT ![k] = s]
    BY <2>1, ScheduleFields, ChangeSchedule DEF TInv, Parts, RegistryOK, ListsOK, Configs
  <2>3. RegistryOK' /\ StoresOK' /\ PointsOK'
    BY <1>9, <2>1, <2>2 DEF TInv, Parts, RegistryOK, StoresOK, PointsOK, Sync
  <2>4. ListsOK' BY <1>9 DEF TInv, Parts, ListsOK, Sync
  <2>5. FlagsOK' BY <1>9, Zenon DEF TInv, Parts, FlagsOK, Sync
  <2>6. InMemory'
    BY <1>9, <2>1, <2>2 DEF TInv, Parts, RegistryOK, PointsOK, ListsOK, InMemory, Sync
  <2>. QED BY <2>3, <2>4, <2>5, <2>6 DEF TInv, Parts
<1>10. ASSUME NEW t \in Threads, Healed(t) PROVE TInv'
  <2>1. RegistryOK' /\ StoresOK' BY <1>10 DEF TInv, Parts, RegistryOK, StoresOK, Healed
  <2>2. PointsOK' BY <1>10 DEF TInv, Parts, PointsOK, Points, Operations, Healed
  <2>3. ListsOK' BY <1>10 DEF TInv, Parts, ListsOK, Healed
  <2>4. FlagsOK' BY <1>10, Zenon DEF TInv, Parts, FlagsOK, Healed
  <2>5. InMemory' BY <1>10 DEF TInv, Parts, RegistryOK, PointsOK, ListsOK, InMemory, Healed
  <2>. QED BY <2>1, <2>2, <2>3, <2>4, <2>5 DEF TInv, Parts
<1>11. ASSUME NEW t \in Threads, BeginSaveConfig(t) PROVE TInv'
  <2>0. \E w \in Wishes : want' = [want EXCEPT ![t] = w]
    BY <1>11, ScheduleFields, MakeWish DEF BeginSaveConfig
  <2>1. RegistryOK' /\ StoresOK' BY <1>11 DEF TInv, Parts, RegistryOK, StoresOK, BeginSaveConfig
  <2>2. PointsOK'
    <3>1. want' \in [Threads -> Wishes \cup {Unset}] BY <2>0 DEF TInv, Parts, PointsOK
    <3>2. mine' \in [Threads -> Objects \cup {0}] BY <1>11 DEF TInv, Parts, PointsOK, BeginSaveConfig
    <3>3. pc' \in [Threads -> Points] /\ op' \in [Threads -> Operations]
      BY <1>11 DEF TInv, Parts, PointsOK, Points, Operations, BeginSaveConfig
    <3>. QED BY <3>1, <3>2, <3>3 DEF PointsOK
  <2>3. ListsOK' BY <1>11 DEF TInv, Parts, ListsOK, BeginSaveConfig
  <2>4. FlagsOK' BY <1>11, Zenon DEF TInv, Parts, FlagsOK, BeginSaveConfig
  <2>5. InMemory'
    BY <1>11, <2>0, LiveFacts DEF TInv, Parts, RegistryOK, PointsOK, ListsOK, InMemory, BeginSaveConfig
  <2>. QED BY <2>1, <2>2, <2>3, <2>4, <2>5 DEF TInv, Parts
<1>12. ASSUME NEW t \in Threads, BeginStop(t) PROVE TInv'
  <2>1. RegistryOK' /\ StoresOK' BY <1>12 DEF TInv, Parts, RegistryOK, StoresOK, BeginStop
  <2>2. PointsOK' BY <1>12 DEF TInv, Parts, PointsOK, Points, Operations, BeginStop
  <2>3. ListsOK' BY <1>12 DEF TInv, Parts, ListsOK, BeginStop
  <2>4. FlagsOK' BY <1>12, Zenon DEF TInv, Parts, FlagsOK, BeginStop
  <2>5. InMemory' BY <1>12, LiveFacts DEF TInv, Parts, RegistryOK, PointsOK, ListsOK, InMemory, BeginStop
  <2>. QED BY <2>1, <2>2, <2>3, <2>4, <2>5 DEF TInv, Parts
<1>13. ASSUME NEW t \in Threads, Cancelled(t) PROVE TInv'
  <2>1. RegistryOK' /\ StoresOK' BY <1>13 DEF TInv, Parts, RegistryOK, StoresOK, Cancelled
  <2>2. PointsOK' BY <1>13 DEF TInv, Parts, PointsOK, Points, Operations, Cancelled
  <2>3. ListsOK' BY <1>13 DEF TInv, Parts, ListsOK, Cancelled
  <2>4. FlagsOK' BY <1>13, Zenon DEF TInv, Parts, FlagsOK, Cancelled
  <2>5. InMemory' BY <1>13 DEF TInv, Parts, RegistryOK, PointsOK, ListsOK, InMemory, Cancelled
  <2>. QED BY <2>1, <2>2, <2>3, <2>4, <2>5 DEF TInv, Parts
<1>14. ASSUME NEW t \in Threads, BeginSetEnabled(t) PROVE TInv'
  <2>0. \E w \in Wishes : want' = [want EXCEPT ![t] = w]
    BY <1>14, LiveFacts, ScheduleFields, MakeWish DEF TInv, Parts, BeginSetEnabled
  <2>1. RegistryOK' /\ StoresOK' BY <1>14 DEF TInv, Parts, RegistryOK, StoresOK, BeginSetEnabled
  <2>2. PointsOK'
    <3>1. want' \in [Threads -> Wishes \cup {Unset}] BY <2>0 DEF TInv, Parts, PointsOK
    <3>2. mine' \in [Threads -> Objects \cup {0}] BY <1>14 DEF TInv, Parts, PointsOK, BeginSetEnabled
    <3>3. pc' \in [Threads -> Points] /\ op' \in [Threads -> Operations]
      BY <1>14 DEF TInv, Parts, PointsOK, Points, Operations, BeginSetEnabled
    <3>. QED BY <3>1, <3>2, <3>3 DEF PointsOK
  <2>3. ListsOK' BY <1>14 DEF TInv, Parts, ListsOK, BeginSetEnabled
  <2>4. FlagsOK' BY <1>14, Zenon DEF TInv, Parts, FlagsOK, BeginSetEnabled
  <2>5. InMemory'
    BY <1>14, <2>0, LiveFacts DEF TInv, Parts, RegistryOK, PointsOK, ListsOK, InMemory, BeginSetEnabled
  <2>. QED BY <2>1, <2>2, <2>3, <2>4, <2>5 DEF TInv, Parts
<1>15. ASSUME NEW t \in Threads, SetEnabled(t) PROVE TInv'
  <2>0. mine[t] \in Objects \cup {0} BY DEF TInv, Parts, PointsOK
  <2>1. mine[t] = 0 \/ (obj[mine[t]] \in Schedules /\ mine[t] \in Objects)
    BY <1>15, <2>0 DEF TInv, InMemory
  <2>2. obj' = obj \/ \E s \in Schedules : obj' = [obj EXCEPT ![mine[t]] = s]
    <3>. DEFINE changed == [obj[mine[t]] EXCEPT !.enabled = want[t].flag]
    <3>1. want[t] \in Wishes /\ obj' = [obj EXCEPT ![mine[t]] = changed]
      BY <1>15 DEF TInv, InMemory, SetEnabled
    <3>2. want[t].flag \in BOOLEAN BY <3>1, ScheduleFields, Zenon
    <3>3. obj[mine[t]] \in Schedules => changed \in Schedules BY <3>2, ChangeSchedule, Zenon
    <3>. HIDE DEF changed
    <3>4. mine[t] = 0 => obj' = obj BY <3>1 DEF TInv, Parts, RegistryOK
    <3>. QED BY <2>1, <3>1, <3>3, <3>4
  <2>3. RegistryOK' /\ StoresOK'
    BY <1>15, <2>1, <2>2 DEF TInv, Parts, RegistryOK, StoresOK, SetEnabled
  <2>4. PointsOK' BY <1>15 DEF TInv, Parts, PointsOK, Points, SetEnabled
  <2>5. ListsOK' BY <1>15 DEF TInv, Parts, ListsOK, SetEnabled
  <2>6. FlagsOK' BY <1>15, Zenon DEF TInv, Parts, FlagsOK, SetEnabled
  <2>7. InMemory'
    BY <1>15, <2>1, <2>2 DEF TInv, Parts, RegistryOK, PointsOK, ListsOK, InMemory, SetEnabled
  <2>. QED BY <2>3, <2>4, <2>5, <2>6, <2>7 DEF TInv, Parts
<1>16. ASSUME NEW t \in Threads, EndRun(t) PROVE TInv'
  <2>1. RegistryOK' /\ StoresOK' BY <1>16 DEF TInv, Parts, RegistryOK, StoresOK, EndRun
  <2>2. PointsOK' BY <1>16 DEF TInv, Parts, PointsOK, Points, Operations, EndRun
  <2>3. ListsOK' BY <1>16 DEF TInv, Parts, ListsOK, EndRun
  <2>4. FlagsOK' BY <1>16, Zenon DEF TInv, Parts, FlagsOK, EndRun
  <2>5. InMemory' BY <1>16 DEF TInv, Parts, RegistryOK, PointsOK, ListsOK, InMemory, EndRun
  <2>. QED BY <2>1, <2>2, <2>3, <2>4, <2>5 DEF TInv, Parts
<1>17. ASSUME NEW t \in Threads, BeginToggleOn(t) PROVE TInv'
  <2>0. \E w \in Wishes : want' = [want EXCEPT ![t] = w]
    BY <1>17, ScheduleFields, MakeWish DEF TInv, Parts, StoresOK, BeginToggleOn, Asked
  <2>1. RegistryOK' /\ StoresOK' BY <1>17 DEF TInv, Parts, RegistryOK, StoresOK, BeginToggleOn
  <2>2. PointsOK'
    <3>1. want' \in [Threads -> Wishes \cup {Unset}] BY <2>0 DEF TInv, Parts, PointsOK
    <3>2. mine' \in [Threads -> Objects \cup {0}] BY <1>17 DEF TInv, Parts, PointsOK, BeginToggleOn
    <3>3. pc' \in [Threads -> Points] /\ op' \in [Threads -> Operations]
      BY <1>17 DEF TInv, Parts, PointsOK, Points, Operations, BeginToggleOn
    <3>. QED BY <3>1, <3>2, <3>3 DEF PointsOK
  <2>3. ListsOK' BY <1>17 DEF TInv, Parts, ListsOK, BeginToggleOn
  <2>4. FlagsOK' BY <1>17, Zenon DEF TInv, Parts, FlagsOK, BeginToggleOn
  <2>5. InMemory'
    BY <1>17, <2>0, LiveFacts DEF TInv, Parts, RegistryOK, PointsOK, ListsOK, InMemory, BeginToggleOn
  <2>. QED BY <2>1, <2>2, <2>3, <2>4, <2>5 DEF TInv, Parts
<1>18. ASSUME NEW t \in Threads, BeginToggleOff(t) PROVE TInv'
  <2>1. RegistryOK' /\ StoresOK' BY <1>18 DEF TInv, Parts, RegistryOK, StoresOK, BeginToggleOff
  <2>2. PointsOK' BY <1>18 DEF TInv, Parts, PointsOK, Points, Operations, BeginToggleOff
  <2>3. ListsOK' BY <1>18 DEF TInv, Parts, ListsOK, BeginToggleOff
  <2>4. FlagsOK' BY <1>18, Zenon DEF TInv, Parts, FlagsOK, BeginToggleOff
  <2>5. InMemory' BY <1>18 DEF TInv, Parts, RegistryOK, PointsOK, ListsOK, InMemory, BeginToggleOff
  <2>. QED BY <2>1, <2>2, <2>3, <2>4, <2>5 DEF TInv, Parts
<1>19. ASSUME NEW t \in Threads, BeginSaveProfile(t) PROVE TInv'
  <2>0. \E w \in Wishes : want' = [want EXCEPT ![t] = w]
    BY <1>19, ScheduleFields, MakeWish DEF BeginSaveProfile, Asked
  <2>1. RegistryOK' /\ StoresOK' BY <1>19 DEF TInv, Parts, RegistryOK, StoresOK, BeginSaveProfile
  <2>2. PointsOK'
    <3>1. want' \in [Threads -> Wishes \cup {Unset}] BY <2>0 DEF TInv, Parts, PointsOK
    <3>2. mine' \in [Threads -> Objects \cup {0}] BY <1>19 DEF TInv, Parts, PointsOK, BeginSaveProfile
    <3>3. pc' \in [Threads -> Points] /\ op' \in [Threads -> Operations]
      BY <1>19 DEF TInv, Parts, PointsOK, Points, Operations, BeginSaveProfile
    <3>. QED BY <3>1, <3>2, <3>3 DEF PointsOK
  <2>3. ListsOK' BY <1>19 DEF TInv, Parts, ListsOK, BeginSaveProfile
  <2>4. FlagsOK' BY <1>19, Zenon DEF TInv, Parts, FlagsOK, BeginSaveProfile
  <2>5. InMemory'
    BY <1>19, <2>0, LiveFacts DEF TInv, Parts, RegistryOK, PointsOK, ListsOK, InMemory, BeginSaveProfile, Asked
  <2>. QED BY <2>1, <2>2, <2>3, <2>4, <2>5 DEF TInv, Parts
<1>20. ASSUME NEW t \in Threads, StoreProfile(t) PROVE TInv'
  <2>1. RegistryOK' /\ StoresOK' BY <1>20, ScheduleFields DEF TInv, Parts, RegistryOK, StoresOK, InMemory, StoreProfile
  <2>2. PointsOK' BY <1>20 DEF TInv, Parts, PointsOK, Points, Operations, StoreProfile
  <2>3. ListsOK' BY <1>20 DEF TInv, Parts, ListsOK, StoreProfile
  <2>4. FlagsOK' BY <1>20, Zenon DEF TInv, Parts, FlagsOK, StoreProfile
  <2>5. InMemory' BY <1>20 DEF TInv, Parts, RegistryOK, PointsOK, ListsOK, InMemory, StoreProfile
  <2>. QED BY <2>1, <2>2, <2>3, <2>4, <2>5 DEF TInv, Parts
<1>21. ASSUME NEW t \in Threads, RereadProfile(t) PROVE TInv'
  <2>1. CASE profiles[want[t].profile] = Unset
    <3>1. End(t) /\ UNCHANGED <<registryVars, stores>>
      BY <1>21, <2>1 DEF RereadProfile
    <3>. QED BY <3>1, EndKeepsTInv
  <2>2. CASE profiles[want[t].profile] # Unset
    <3>. DEFINE p == want[t].profile
    <3>0. p \in Profiles /\ profiles[p] \in Identities
      BY <1>21, <2>2 DEF TInv, Parts, StoresOK, InMemory, RereadProfile
    <3>1. /\ Go(t, "reread", "match")
          /\ want' = [want EXCEPT ![t] = Asked(p, profiles[p], TRUE)]
          /\ UNCHANGED <<registryVars, stores, op, mine, todo, keep, cfg, dirty, text>>
      BY <1>21, <2>2 DEF RereadProfile
    <3>2. \E w \in Wishes : want' = [want EXCEPT ![t] = w]
      BY <3>0, <3>1, ScheduleFields, MakeWish DEF Asked
    <3>3. RegistryOK' /\ StoresOK' BY <3>1 DEF TInv, Parts, RegistryOK, StoresOK
    <3>4. PointsOK' BY <3>1, <3>2 DEF TInv, Parts, PointsOK, Points
    <3>5. ListsOK' BY <3>1 DEF TInv, Parts, ListsOK
    <3>6. FlagsOK' BY <3>1, Zenon DEF TInv, Parts, FlagsOK
    <3>7. InMemory' BY <3>1, <3>2 DEF TInv, Parts, RegistryOK, PointsOK, ListsOK, InMemory
    <3>. QED BY <3>3, <3>4, <3>5, <3>6, <3>7 DEF TInv, Parts
  <2>. QED BY <2>1, <2>2
<1>22. ASSUME NEW t \in Threads, FindMatches(t) PROVE TInv'
  <2>1. RegistryOK' /\ StoresOK' BY <1>22 DEF TInv, Parts, RegistryOK, StoresOK, FindMatches
  <2>2. PointsOK' BY <1>22 DEF TInv, Parts, PointsOK, Points, Operations, FindMatches
  <2>3. ListsOK' BY <1>22 DEF TInv, Parts, ListsOK, FindMatches
  <2>4. FlagsOK' BY <1>22, Zenon DEF TInv, Parts, FlagsOK, FindMatches
  <2>5. InMemory' BY <1>22 DEF TInv, Parts, RegistryOK, PointsOK, ListsOK, InMemory, FindMatches
  <2>. QED BY <2>1, <2>2, <2>3, <2>4, <2>5 DEF TInv, Parts
<1>23. ASSUME NEW t \in Threads, FindSameIdentity(t) PROVE TInv'
  <2>1. RegistryOK' /\ StoresOK' BY <1>23 DEF TInv, Parts, RegistryOK, StoresOK, FindSameIdentity
  <2>2. PointsOK' BY <1>23 DEF TInv, Parts, PointsOK, Points, Operations, FindSameIdentity
  <2>3. ListsOK' BY <1>23 DEF TInv, Parts, ListsOK, FindSameIdentity
  <2>4. FlagsOK' BY <1>23, Zenon DEF TInv, Parts, FlagsOK, FindSameIdentity
  <2>5. InMemory' BY <1>23 DEF TInv, Parts, RegistryOK, PointsOK, ListsOK, InMemory, FindSameIdentity
  <2>. QED BY <2>1, <2>2, <2>3, <2>4, <2>5 DEF TInv, Parts
<1>24. ASSUME NEW t \in Threads, MatchesCancelled(t) PROVE TInv'
  <2>1. RegistryOK' /\ StoresOK' BY <1>24 DEF TInv, Parts, RegistryOK, StoresOK, MatchesCancelled
  <2>2. PointsOK' BY <1>24 DEF TInv, Parts, PointsOK, Points, Operations, MatchesCancelled
  <2>3. ListsOK' BY <1>24 DEF TInv, Parts, ListsOK, MatchesCancelled
  <2>4. FlagsOK' BY <1>24, Zenon DEF TInv, Parts, FlagsOK, MatchesCancelled
  <2>5. InMemory' BY <1>24 DEF TInv, Parts, RegistryOK, PointsOK, ListsOK, InMemory, MatchesCancelled
  <2>. QED BY <2>1, <2>2, <2>3, <2>4, <2>5 DEF TInv, Parts
<1>25. ASSUME NEW t \in Threads, DeleteProfile(t) PROVE TInv'
  <2>1. RegistryOK' /\ StoresOK' BY <1>25 DEF TInv, Parts, RegistryOK, StoresOK, DeleteProfile
  <2>2. PointsOK' BY <1>25 DEF TInv, Parts, PointsOK, Points, Operations, DeleteProfile
  <2>3. ListsOK' BY <1>25 DEF TInv, Parts, ListsOK, DeleteProfile
  <2>4. FlagsOK' BY <1>25, Zenon DEF TInv, Parts, FlagsOK, DeleteProfile
  <2>5. InMemory' BY <1>25 DEF TInv, Parts, RegistryOK, PointsOK, ListsOK, InMemory, DeleteProfile
  <2>. QED BY <2>1, <2>2, <2>3, <2>4, <2>5 DEF TInv, Parts
<1>26. ASSUME NEW t \in Threads, BeginSave(t) PROVE TInv'
  <2>1. RegistryOK' /\ StoresOK' BY <1>26 DEF TInv, Parts, RegistryOK, StoresOK, BeginSave
  <2>2. PointsOK' BY <1>26 DEF TInv, Parts, PointsOK, Points, Operations, BeginSave
  <2>3. ListsOK' BY <1>26, LiveFacts DEF TInv, Parts, ListsOK, BeginSave
  <2>4. FlagsOK' BY <1>26, Zenon DEF TInv, Parts, FlagsOK, BeginSave
  <2>5. InMemory' BY <1>26 DEF TInv, Parts, RegistryOK, PointsOK, ListsOK, InMemory, BeginSave
  <2>. QED BY <2>1, <2>2, <2>3, <2>4, <2>5 DEF TInv, Parts
<1>27. ASSUME NEW t \in Threads, WriteFile(t) PROVE TInv'
  <2>1. RegistryOK' /\ StoresOK' BY <1>27 DEF TInv, Parts, RegistryOK, StoresOK, PointsOK, ListsOK, InMemory, WriteFile
  <2>2. PointsOK' BY <1>27 DEF TInv, Parts, PointsOK, Points, Operations, WriteFile
  <2>3. ListsOK' BY <1>27 DEF TInv, Parts, ListsOK, WriteFile
  <2>4. FlagsOK' BY <1>27, Zenon DEF TInv, Parts, FlagsOK, WriteFile
  <2>5. InMemory' BY <1>27 DEF TInv, Parts, RegistryOK, PointsOK, ListsOK, InMemory, WriteFile
  <2>. QED BY <2>1, <2>2, <2>3, <2>4, <2>5 DEF TInv, Parts
<1>28. ASSUME NEW t \in Threads, WriteFails(t) PROVE TInv'
  <2>1. RegistryOK' /\ StoresOK' BY <1>28 DEF TInv, Parts, RegistryOK, StoresOK, WriteFails
  <2>2. PointsOK' BY <1>28 DEF TInv, Parts, PointsOK, Points, Operations, WriteFails
  <2>3. ListsOK' BY <1>28 DEF TInv, Parts, ListsOK, WriteFails
  <2>4. FlagsOK' BY <1>28, Zenon DEF TInv, Parts, FlagsOK, WriteFails
  <2>5. InMemory' BY <1>28 DEF TInv, Parts, RegistryOK, PointsOK, ListsOK, InMemory, WriteFails
  <2>. QED BY <2>1, <2>2, <2>3, <2>4, <2>5 DEF TInv, Parts
<1>29. ASSUME NEW t \in Threads, Cancel(t) PROVE TInv'
  <2>1. RegistryOK' /\ StoresOK' BY <1>29 DEF TInv, Parts, RegistryOK, StoresOK, Cancel
  <2>2. PointsOK' BY <1>29 DEF TInv, Parts, PointsOK, Points, Operations, Cancel
  <2>3. ListsOK' BY <1>29 DEF TInv, Parts, ListsOK, Cancel
  <2>4. FlagsOK' BY <1>29, Zenon DEF TInv, Parts, FlagsOK, Cancel
  <2>5. InMemory' BY <1>29 DEF TInv, Parts, RegistryOK, PointsOK, ListsOK, InMemory, Cancel
  <2>. QED BY <2>1, <2>2, <2>3, <2>4, <2>5 DEF TInv, Parts
<1>30. ASSUME ReadFile PROVE TInv'
  <2>1. RegistryOK' /\ StoresOK' BY <1>30 DEF TInv, Parts, RegistryOK, StoresOK, ReadFile
  <2>2. PointsOK' BY <1>30 DEF TInv, Parts, PointsOK, Points, Operations, ReadFile
  <2>3. ListsOK' BY <1>30, BootIsThread DEF TInv, Parts, StoresOK, ListsOK, ReadFile
  <2>4. FlagsOK' BY <1>30, Zenon DEF TInv, Parts, FlagsOK, ReadFile
  <2>5. InMemory' BY <1>30 DEF TInv, Parts, RegistryOK, PointsOK, ListsOK, InMemory, ReadFile
  <2>. QED BY <2>1, <2>2, <2>3, <2>4, <2>5 DEF TInv, Parts
<1>31. ASSUME RestoreOne PROVE TInv'
  <2>. PICK s \in text[Boot] :
           /\ obj' = [obj EXCEPT ![s.created] = s]
           /\ registry' = [registry EXCEPT ![s.id] = s.created]
           /\ text' = [text EXCEPT ![Boot] = @ \ {s}]
    BY <1>31, Zenon DEF RestoreOne
  <2>1. s \in Schedules /\ s.created \in Objects /\ s.id \in Objects
    BY BootIsThread, ScheduleFields DEF TInv, Parts, ListsOK
  <2>2. RegistryOK'
    BY <1>31, <2>1 DEF TInv, Parts, RegistryOK, RestoreOne
  <2>3. StoresOK' /\ PointsOK'
    BY <1>31 DEF TInv, Parts, StoresOK, PointsOK, RestoreOne
  <2>4. ListsOK' BY <1>31, BootIsThread DEF TInv, Parts, ListsOK, RestoreOne
  <2>5. FlagsOK' BY <1>31, Zenon DEF TInv, Parts, FlagsOK, RestoreOne
  <2>6. InMemory'
    BY <1>31, <2>1 DEF TInv, Parts, RegistryOK, PointsOK, ListsOK, InMemory, RestoreOne
  <2>. QED BY <2>2, <2>3, <2>4, <2>5, <2>6 DEF TInv, Parts
<1>32. ASSUME HealDuplicates PROVE TInv'
  <2>1. RegistryOK' /\ StoresOK' BY <1>32 DEF TInv, Parts, RegistryOK, StoresOK, HealDuplicates
  <2>2. PointsOK' BY <1>32 DEF TInv, Parts, PointsOK, Points, Operations, HealDuplicates
  <2>3. ListsOK' BY <1>32 DEF TInv, Parts, ListsOK, HealDuplicates
  <2>4. FlagsOK' BY <1>32, Zenon DEF TInv, Parts, FlagsOK, HealDuplicates
  <2>5. InMemory' BY <1>32 DEF TInv, Parts, RegistryOK, PointsOK, ListsOK, InMemory, HealDuplicates
  <2>. QED BY <2>1, <2>2, <2>3, <2>4, <2>5 DEF TInv, Parts
<1>33. ASSUME DuplicatesHealed PROVE TInv'
  <2>1. RegistryOK' /\ StoresOK' BY <1>33 DEF TInv, Parts, RegistryOK, StoresOK, DuplicatesHealed
  <2>2. PointsOK' BY <1>33 DEF TInv, Parts, PointsOK, Points, Operations, DuplicatesHealed
  <2>3. ListsOK' BY <1>33 DEF TInv, Parts, ListsOK, DuplicatesHealed
  <2>4. FlagsOK' BY <1>33, Zenon DEF TInv, Parts, FlagsOK, DuplicatesHealed
  <2>5. InMemory' BY <1>33 DEF TInv, Parts, RegistryOK, PointsOK, ListsOK, InMemory, DuplicatesHealed
  <2>. QED BY <2>1, <2>2, <2>3, <2>4, <2>5 DEF TInv, Parts
<1>34. ASSUME BeginShutdown PROVE TInv'
  <2>1. RegistryOK' /\ StoresOK' BY <1>34 DEF TInv, Parts, RegistryOK, StoresOK, BeginShutdown
  <2>2. PointsOK' BY <1>34 DEF TInv, Parts, PointsOK, Points, Operations, BeginShutdown
  <2>3. ListsOK' BY <1>34 DEF TInv, Parts, ListsOK, BeginShutdown
  <2>4. FlagsOK' BY <1>34, Zenon DEF TInv, Parts, FlagsOK, BeginShutdown
  <2>5. InMemory' BY <1>34 DEF TInv, Parts, RegistryOK, PointsOK, ListsOK, InMemory, BeginShutdown
  <2>. QED BY <2>1, <2>2, <2>3, <2>4, <2>5 DEF TInv, Parts
<1>35. ASSUME ProcessEnds PROVE TInv'
  <2>1. RegistryOK' /\ StoresOK' BY <1>35 DEF TInv, Parts, RegistryOK, StoresOK, ProcessEnds
  <2>2. PointsOK' BY <1>35 DEF TInv, Parts, PointsOK, Points, Operations, ProcessEnds
  <2>3. ListsOK' BY <1>35 DEF TInv, Parts, ListsOK, ProcessEnds
  <2>4. FlagsOK' BY <1>35, Zenon DEF TInv, Parts, FlagsOK, ProcessEnds
  <2>5. InMemory' BY <1>35 DEF TInv, Parts, RegistryOK, PointsOK, ListsOK, InMemory, ProcessEnds
  <2>. QED BY <2>1, <2>2, <2>3, <2>4, <2>5 DEF TInv, Parts
<1>36. CASE UNCHANGED vars
  BY <1>36, Zenon DEF TInv, Parts, RegistryOK, StoresOK, PointsOK, ListsOK, FlagsOK, InMemory
<1>. QED
  BY BootIsThread, <1>1, <1>2, <1>3, <1>4, <1>5, <1>6, <1>7, <1>8, <1>9, <1>10, <1>11, <1>12, <1>13, <1>14, <1>15, <1>16, <1>17, <1>18, <1>19, <1>20, <1>21, <1>22, <1>23, <1>24, <1>25, <1>26, <1>27, <1>28, <1>29, <1>30, <1>31, <1>32, <1>33, <1>34, <1>35, <1>36
  DEF Next, Restore, Shutdown, Request, Heal, Persist, Exit, Crash, Threads

LEMMA InitTInv == Init => TInv
<1> SUFFICES ASSUME Init PROVE TInv OBVIOUS
<1> USE ZeroIsNoObject, NoConfigOK, UnsetApart, AutomationsAssumption DEF Init, AutomationsAssumption
<1>1. RegistryOK BY DEF RegistryOK
<1>2. StoresOK BY DEF StoresOK
<1>3. PointsOK BY DEF PointsOK, Points, Operations
<1>4. ListsOK BY DEF ListsOK
<1>5. FlagsOK BY Zenon DEF FlagsOK
<1>6. InMemory BY DEF InMemory, WishPoints
<1> QED BY <1>1, <1>2, <1>3, <1>4, <1>5, <1>6 DEF TInv, Parts

-----------------------------------------------------------------------------
(***************************************************************************)
(* At most one config-driven schedule per type.                            *)
(***************************************************************************)

\* Every record there is: in memory, in the file, or on its way to or from it.
Records ==
    {obj[n] : n \in {m \in Objects : obj[m] # Unset}} \cup file \cup UNION {text[t] : t \in Threads}

\* created_at names a schedule: its key, type and profile never change, and no
\* record is from the future.
BirthsFixed ==
    /\ \A r, s \in Records :
         r.created = s.created => r.id = s.id /\ r.type = s.type /\ r.profile = s.profile
    /\ \A r \in Records : r.created <= last
    /\ \A n \in Objects : obj[n] # Unset => obj[n].created = n

\* A schedule is registered under its own key.
Keyed == \A id \in Objects : registry[id] # 0 => obj[registry[id]].id = id

\* What is put by anything but a start belongs to a profile.
ArmedByProfile ==
    \A t \in Threads :
        /\ pc[t] \in {"cancelSame", "cancelOthers"} => op[t] = "start"
        /\ op[t] # "start" /\ pc[t] \in {"create", "store", "reread", "match"} => want[t].profile \in Profiles
        /\ op[t] # "start" /\ pc[t] \in {"identity", "cancelArm", "put"} =>
               mine[t] # 0 /\ obj[mine[t]].profile \in Profiles

\* Some thread will find n superseded, or has and is about to cancel it.
Reconciling(n) ==
    \E t \in Threads :
        \/ pc[t] \in {"boot", "restore", "cancelDup", "reconcile"}
        \/ pc[t] \in {"load", "heal"} /\ n \in todo[t]

\* Two config-driven schedules of a type are there only while a thread is still
\* to drop the older one: what makes OneConfigDrivenPerType inductive.
OlderIsReconciled ==
    \A m, n \in Live :
        ConfigDriven(m) /\ ConfigDriven(n) /\ obj[m].type = obj[n].type /\ m < n
            => Reconciling(m)

RInv == BirthsFixed /\ Keyed /\ ArmedByProfile /\ OlderIsReconciled

IInv == TInv /\ RInv

-----------------------------------------------------------------------------
(***************************************************************************)
(* The steps of one thread, and what they leave alone.                     *)
(***************************************************************************)

ThreadStep(t) ==
    \/ Request(t)
    \/ t = Boot /\ (ReadFile \/ RestoreOne \/ HealDuplicates \/ DuplicatesHealed)
    \/ t = Main /\ BeginShutdown

LEMMA NextSteps ==
    ASSUME [Next]_vars
    PROVE  UNCHANGED vars \/ ProcessEnds \/ \E t \in Threads : ThreadStep(t)
BY DEF Next, Restore, Shutdown, Exit, Crash, Threads, ThreadStep, Request, Heal, Persist

\* A step of a thread changes no other thread's place or locals.
LEMMA OthersKeepLocals ==
    ASSUME TInv, NEW t \in Threads, ThreadStep(t), NEW u \in Threads \ {t}
    PROVE  /\ pc'[u] = pc[u] /\ op'[u] = op[u] /\ want'[u] = want[u]
           /\ mine'[u] = mine[u] /\ todo'[u] = todo[u]
<1> USE DEF TInv, Parts, PointsOK, ListsOK, Go, Begin, End, registryVars, stores, locals
<1>1. CASE BeginStart(t) \/ SaveConfig(t) \/ Create(t) \/ FindOthers(t) \/ Replace(t) \/ Put(t)
  BY <1>1 DEF BeginStart, SaveConfig, Create, FindOthers, Replace, Put
<1>2. CASE BeginSaveConfig(t) \/ BeginStop(t) \/ Cancelled(t) \/ BeginSetEnabled(t) \/ SetEnabled(t) \/ EndRun(t)
  BY <1>2 DEF BeginSaveConfig, BeginStop, Cancelled, BeginSetEnabled, SetEnabled, EndRun
<1>3. CASE BeginToggleOn(t) \/ BeginToggleOff(t) \/ BeginSaveProfile(t) \/ StoreProfile(t) \/ RereadProfile(t)
  <2>1. CASE BeginToggleOn(t) \/ BeginToggleOff(t) BY <2>1 DEF BeginToggleOn, BeginToggleOff
  <2>2. CASE BeginSaveProfile(t) \/ StoreProfile(t) BY <2>2 DEF BeginSaveProfile, StoreProfile
  <2>3. CASE RereadProfile(t)
    <3>1. CASE profiles[want[t].profile] = Unset
      BY <2>3, <3>1 DEF RereadProfile
    <3>2. CASE profiles[want[t].profile] # Unset
      BY <2>3, <3>2 DEF RereadProfile
    <3> QED BY <3>1, <3>2
  <2> QED BY <1>3, <2>1, <2>2, <2>3
<1>4. CASE FindMatches(t) \/ FindSameIdentity(t) \/ MatchesCancelled(t) \/ DeleteProfile(t) \/ Cancel(t)
  BY <1>4 DEF FindMatches, FindSameIdentity, MatchesCancelled, DeleteProfile, Cancel
<1>5. CASE Heal(t) \/ Persist(t)
  BY <1>5 DEF Heal, Reconcile, LoadConfig, Sync, Healed, Persist, BeginSave, WriteFile, WriteFails
<1>6. CASE t = Boot /\ (ReadFile \/ RestoreOne \/ HealDuplicates \/ DuplicatesHealed)
  BY <1>6 DEF ReadFile, RestoreOne, HealDuplicates, DuplicatesHealed
<1>7. CASE t = Main /\ BeginShutdown
  BY <1>7 DEF BeginShutdown
<1> QED BY <1>1, <1>2, <1>3, <1>4, <1>5, <1>6, <1>7 DEF ThreadStep, Request

-----------------------------------------------------------------------------
(***************************************************************************)
(* The histories.                                                          *)
(***************************************************************************)

\* Which steps a history notes.
LEMMA HistorySteps ==
    ASSUME NEW t \in Threads, ThreadStep(t)
    PROVE  /\ \/ early' = early
              \/ Create(t) /\ last + 1 \in Objects /\ early' = early \cup {last + 1}
           /\ \/ BeginSave(t) /\ partial' = (pc[Boot] \in {"boot", "restore"})
              \/ ~BeginSave(t) /\ partial' = partial
           /\ \/ crossed' = crossed
              \/ (Put(t) \/ Replace(t)) /\ Crosses(t, obj[mine[t]].id)
              \/ Cancel(t) /\ \E n \in todo[t] : Crosses(t, obj[n].id)
              \/ t = Boot /\ RestoreOne /\ \E s \in text[Boot] :
                     crossed' = (crossed \/ registry[s.id] \notin {0, s.created})
<1> USE DEF history
<1>0. BeginSave(t) => pc[t] = "save" BY DEF BeginSave, Go
<1>1. ASSUME UNCHANGED history, pc[t] # "save" PROVE UNCHANGED history /\ ~BeginSave(t)
  BY <1>0, <1>1
<1>2. CASE BeginStart(t) \/ SaveConfig(t) \/ FindOthers(t) \/ Reconcile(t) \/ LoadConfig(t) \/ Sync(t)
           \/ Healed(t) \/ BeginSaveConfig(t) \/ BeginStop(t) \/ Cancelled(t) \/ BeginSetEnabled(t)
           \/ SetEnabled(t) \/ EndRun(t)
  <2>1. UNCHANGED history /\ pc[t] # "save"
    BY <1>2 DEF BeginStart, SaveConfig, FindOthers, Reconcile, LoadConfig, Sync, Healed, BeginSaveConfig,
       BeginStop, Cancelled, BeginSetEnabled, SetEnabled, EndRun, Begin, Go
  <2> QED BY <1>1, <2>1
<1>3. CASE BeginToggleOn(t) \/ BeginToggleOff(t) \/ BeginSaveProfile(t) \/ StoreProfile(t)
           \/ RereadProfile(t) \/ FindMatches(t) \/ FindSameIdentity(t) \/ MatchesCancelled(t)
           \/ DeleteProfile(t) \/ WriteFile(t) \/ WriteFails(t)
  <2>1. UNCHANGED history /\ pc[t] # "save"
    BY <1>3 DEF BeginToggleOn, BeginToggleOff, BeginSaveProfile, StoreProfile, RereadProfile, FindMatches,
       FindSameIdentity, MatchesCancelled, DeleteProfile, WriteFile, WriteFails, Begin, Go
  <2> QED BY <1>1, <2>1
<1>4. CASE (t = Boot /\ (ReadFile \/ HealDuplicates \/ DuplicatesHealed)) \/ (t = Main /\ BeginShutdown)
  <2>1. UNCHANGED history /\ pc[t] # "save"
    BY <1>4 DEF ReadFile, HealDuplicates, DuplicatesHealed, BeginShutdown, Begin, Go
  <2> QED BY <1>1, <2>1
<1>5. CASE Create(t)
  <2>1. ~BeginSave(t) BY <1>0, <1>5 DEF Create, Go
  <2> QED BY <1>5, <2>1 DEF Create
<1>6. CASE Put(t) \/ Replace(t)
  <2>1. ~BeginSave(t) BY <1>0, <1>6 DEF Put, Replace, Go
  <2> QED BY <1>6, <2>1 DEF Put, Replace
<1>7. CASE Cancel(t)
  <2>1. ~BeginSave(t) BY <1>0, <1>7 DEF Cancel
  <2> QED BY <1>7, <2>1 DEF Cancel
<1>8. CASE t = Boot /\ RestoreOne
  <2>1. ~BeginSave(t) BY <1>0, <1>8 DEF RestoreOne
  <2>2. UNCHANGED <<early, partial>> /\ \E s \in text[Boot] :
            crossed' = (crossed \/ registry[s.id] \notin {0, s.created})
    BY <1>8 DEF RestoreOne
  <2> QED BY <1>8, <2>1, <2>2
<1>9. CASE BeginSave(t) BY <1>9 DEF BeginSave
<1> QED BY <1>2, <1>3, <1>4, <1>5, <1>6, <1>7, <1>8, <1>9 DEF ThreadStep, Request, Heal, Persist

LEMMA StepHistory ==
    ASSUME HistoryOK, [Next]_vars
    PROVE  HistoryOK'
<1>1. CASE UNCHANGED vars BY <1>1 DEF vars, history, HistoryOK
<1>2. CASE ProcessEnds BY <1>2 DEF ProcessEnds, HistoryOK
<1>3. ASSUME NEW t \in Threads, ThreadStep(t) PROVE HistoryOK'
  <2>1. early' \in SUBSET Objects BY <1>3, HistorySteps DEF HistoryOK
  <2>2. partial' \in BOOLEAN
    <3>1. partial' = partial \/ partial' = (pc[Boot] \in {"boot", "restore"}) BY <1>3, HistorySteps
    <3>2. (pc[Boot] \in {"boot", "restore"}) \in BOOLEAN OBVIOUS
    <3> QED BY <3>1, <3>2, Zenon DEF HistoryOK
  <2>3. crossed' \in BOOLEAN BY <1>3, HistorySteps, Zenon DEF HistoryOK, Crosses
  <2> QED BY <2>1, <2>2, <2>3 DEF HistoryOK
<1> QED BY <1>1, <1>2, <1>3, NextSteps

\* Every variable keeps its type, and no step refers to a schedule or a request
\* that is not there, whatever the instance.
THEOREM TypeCorrect == Spec => []TypeOK
<1>1. Init => HistoryOK BY DEF Init, HistoryOK
<1>2. TInv /\ HistoryOK => TypeOK BY TypeParts DEF TInv
<1>3. Spec => [](TInv /\ HistoryOK) BY <1>1, InitTInv, NextKeepsTInv, StepHistory, PTL DEF Spec
<1> QED BY <1>2, <1>3, PTL

-----------------------------------------------------------------------------
(***************************************************************************)
(* The parts of RInv, one lemma each.                                      *)
(***************************************************************************)

LEMMA MemoryFacts ==
    ASSUME TInv
    PROVE  /\ \A n \in Objects : obj[n] \in Schedules \/ obj[n] = Unset
           /\ \A n \in Live : n \in Objects /\ obj[n] \in Schedules
           /\ \A n \in Objects : obj[n] \in Schedules => obj[n] \in Records
           /\ file \subseteq Records /\ \A t \in Threads : text[t] \subseteq Records
           /\ Snapshot \subseteq Records
           /\ Records \subseteq Schedules
<1>1. \A n \in Objects : obj[n] \in Schedules \/ obj[n] = Unset
  BY DEF TInv, Parts, RegistryOK
<1>2. \A n \in Live : n \in Objects /\ obj[n] \in Schedules
  BY LiveFacts DEF TInv, Parts
<1>3. \A n \in Objects : obj[n] \in Schedules => obj[n] \in Records
  BY UnsetApart DEF Records
<1>4. file \subseteq Records /\ \A t \in Threads : text[t] \subseteq Records
  BY DEF Records
<1>5. Snapshot \subseteq Records
  BY <1>2, <1>3 DEF Snapshot
<1>6. Records \subseteq Schedules
  BY <1>1 DEF Records, TInv, Parts, StoresOK, ListsOK
<1> QED BY <1>1, <1>2, <1>3, <1>4, <1>5, <1>6

SameBirth(r, s) ==
    r.created = s.created /\ r.id = s.id /\ r.type = s.type /\ r.profile = s.profile

\* Records that are old but for fields that may change keep BirthsFixed.
LEMMA OldRecords ==
    ASSUME BirthsFixed, last' = last,
           \A r \in Records' : \E s \in Records : SameBirth(r, s),
           \A n \in Objects : obj'[n] # Unset => obj'[n].created = n
    PROVE  BirthsFixed'
<1>1. ASSUME NEW r \in Records', NEW s \in Records', r.created = s.created
      PROVE  r.id = s.id /\ r.type = s.type /\ r.profile = s.profile
  <2>1. PICK q \in Records : SameBirth(r, q) OBVIOUS
  <2>2. PICK p \in Records : SameBirth(s, p) OBVIOUS
  <2>3. q.created = p.created BY <1>1, <2>1, <2>2 DEF SameBirth
  <2>4. q.id = p.id /\ q.type = p.type /\ q.profile = p.profile BY <2>3 DEF BirthsFixed
  <2> QED BY <2>1, <2>2, <2>4 DEF SameBirth
<1>2. \A r \in Records' : r.created <= last'
  BY DEF BirthsFixed, SameBirth
<1> QED BY <1>1, <1>2 DEF BirthsFixed

LEMMA NoNewRecords ==
    ASSUME TInv, BirthsFixed, last' = last,
           obj' = obj \/ obj' = [n \in Objects |-> Unset],
           file' \subseteq Records,
           \A t \in Threads : text'[t] \subseteq Records
    PROVE  BirthsFixed'
<1>1. Records' \subseteq Records
  BY DEF Records
<1>2. \A r \in Records' : \E s \in Records : SameBirth(r, s)
  BY <1>1 DEF SameBirth
<1>3. \A n \in Objects : obj'[n] # Unset => obj'[n].created = n
  BY DEF BirthsFixed
<1> QED BY <1>2, <1>3, OldRecords

\* Following the configuration, pausing and resuming change no birth.
LEMMA EditsKeepBirths ==
    ASSUME TInv, NEW t \in Threads, Sync(t) \/ SetEnabled(t)
    PROVE  \A m \in Objects : /\ obj[m] = Unset => obj'[m] = Unset
                              /\ obj[m] \in Schedules => SameBirth(obj'[m], obj[m])
<1>1. \A s \in Schedules : \A x : SameBirth([s EXCEPT !.dest = x], s) /\ SameBirth([s EXCEPT !.enabled = x], s)
  BY DEF Schedules, SameBirth
<1>2. \A s \in Schedules : SameBirth(s, s) BY DEF SameBirth
<1>3. CASE Sync(t)
  <2>. PICK k \in keep[t] : obj' = obj \/ obj' = [obj EXCEPT ![k].dest = cfg[t][obj[k].type]]
    BY <1>3, Zenon DEF Sync
  <2>1. k \in Objects /\ obj[k] \in Schedules BY DEF TInv, Parts, ListsOK, InMemory
  <2>2. \A m \in Objects : obj'[m] = obj[m] \/ (m = k /\ \E x : obj'[m] = [obj[k] EXCEPT !.dest = x])
    BY <2>1 DEF TInv, Parts, RegistryOK
  <2>3. \A x : SameBirth([obj[k] EXCEPT !.dest = x], obj[k]) BY <1>1, <2>1
  <2>4. ASSUME NEW m \in Objects
        PROVE  /\ obj[m] = Unset => obj'[m] = Unset
               /\ obj[m] \in Schedules => SameBirth(obj'[m], obj[m])
    <3>1. CASE obj'[m] = obj[m] BY <1>2, <3>1
    <3>2. CASE m = k /\ \E x : obj'[m] = [obj[k] EXCEPT !.dest = x]
      <4>. PICK x : obj'[m] = [obj[k] EXCEPT !.dest = x] BY <3>2
      <4> QED BY <2>1, <2>3, <3>2, UnsetApart
    <3> QED BY <2>2, <3>1, <3>2
  <2> QED BY <2>4
<1>4. CASE SetEnabled(t)
  <2>1. obj' = [obj EXCEPT ![mine[t]].enabled = want[t].flag] BY <1>4 DEF SetEnabled
  <2>2. mine[t] \in Objects => obj[mine[t]] \in Schedules
    BY ZeroIsNoObject DEF TInv, InMemory
  <2> QED BY <1>1, <1>2, <2>1, <2>2, UnsetApart DEF TInv, Parts, RegistryOK
<1> QED BY <1>3, <1>4

LEMMA StepBirths ==
    ASSUME TInv, BirthsFixed, [Next]_vars
    PROVE  BirthsFixed'
<1> USE MemoryFacts, ScheduleFields DEF registryVars, stores, locals, vars, Go, Begin, End
<1>1. ASSUME UNCHANGED <<obj, last, file, text>> PROVE BirthsFixed'
  BY <1>1, NoNewRecords
<1>2. ASSUME NEW t \in Threads, End(t), UNCHANGED <<obj, last, file>> PROVE BirthsFixed'
  <2>1. \A u \in Threads : text'[u] \subseteq Records BY <1>2 DEF TInv, Parts, ListsOK
  <2> QED BY <1>2, <2>1, NoNewRecords
<1>3. ASSUME NEW t \in Threads, Create(t) PROVE BirthsFixed'
  <2>. DEFINE n == last + 1
              s == [id |-> IF want[t].id = 0 THEN n ELSE want[t].id, created |-> n,
                    type |-> want[t].type, dest |-> want[t].dest,
                    profile |-> want[t].profile, enabled |-> TRUE]
  <2>1. /\ n \in Objects /\ obj' = [obj EXCEPT ![n] = s] /\ last' = n
        /\ UNCHANGED <<file, text>>
    BY <1>3 DEF Create
  <2>2. s.created = n OBVIOUS
  <2>. HIDE DEF s
  <2>3. \A r \in Records' : r \in Records \/ r = s
    BY <2>1 DEF Records, TInv, Parts, RegistryOK
  <2>4. \A r \in Records : r.created <= last /\ r.created \in Nat
    BY DEF BirthsFixed, Objects
  <2>5. last \in Nat BY DEF TInv, Parts, RegistryOK, Objects
  <2>6. \A r, q \in Records' : r.created = q.created => r = q \/ (r \in Records /\ q \in Records)
    BY <2>2, <2>3, <2>4, <2>5
  <2>7. \A r \in Records' : r.created <= last'
    BY <2>1, <2>2, <2>3, <2>4, <2>5
  <2>8. \A m \in Objects : obj'[m] # Unset => obj'[m].created = m
    BY <2>1, <2>2 DEF BirthsFixed, TInv, Parts, RegistryOK
  <2> QED BY <2>6, <2>7, <2>8 DEF BirthsFixed
<1>4. ASSUME NEW t \in Threads, Sync(t) \/ SetEnabled(t) PROVE BirthsFixed'
  <2>1. UNCHANGED <<last, file, text>> BY <1>4 DEF Sync, SetEnabled
  <2>2. \A r \in Records' : \E s \in Records : SameBirth(r, s)
    BY <1>4, <2>1, EditsKeepBirths DEF Records, SameBirth
  <2>3. \A n \in Objects : obj'[n] # Unset => obj'[n].created = n
    BY <1>4, EditsKeepBirths DEF SameBirth, BirthsFixed
  <2> QED BY <2>1, <2>2, <2>3, OldRecords
<1>5. ASSUME RestoreOne PROVE BirthsFixed'
  <2>. PICK s \in text[Boot] : /\ obj' = [obj EXCEPT ![s.created] = s]
                               /\ text' = [text EXCEPT ![Boot] = @ \ {s}]
    BY <1>5 DEF RestoreOne
  <2>1. s \in Records /\ s.created \in Objects BY BootIsThread
  <2>2. UNCHANGED <<last, file>> BY <1>5 DEF RestoreOne
  <2>3. \A t \in Threads : text'[t] \subseteq text[t]
    BY DEF TInv, Parts, ListsOK
  <2>4. \A m \in Objects : obj'[m] = obj[m] \/ (m = s.created /\ obj'[m] = s)
    BY <2>1 DEF TInv, Parts, RegistryOK
  <2>5. Records' \subseteq Records
    BY <2>1, <2>2, <2>3, <2>4 DEF Records
  <2>6. \A r \in Records' : \E q \in Records : SameBirth(r, q)
    BY <2>5 DEF SameBirth
  <2>7. \A n \in Objects : obj'[n] # Unset => obj'[n].created = n
    BY <2>4 DEF BirthsFixed
  <2> QED BY <2>2, <2>6, <2>7, OldRecords
<1>6. ASSUME NEW t \in Threads, BeginSave(t) PROVE BirthsFixed'
  <2>1. UNCHANGED <<obj, last, file>> /\ \A u \in Threads : text'[u] \subseteq Records
    BY <1>6 DEF BeginSave, TInv, Parts, ListsOK
  <2> QED BY <2>1, NoNewRecords
<1>7. ASSUME NEW t \in Threads, WriteFile(t) PROVE BirthsFixed'
  <2>1. UNCHANGED <<obj, last>> /\ file' = text[t] BY <1>7 DEF WriteFile
  <2>2. \A u \in Threads : text'[u] \subseteq Records BY <1>7 DEF WriteFile, TInv, Parts, ListsOK
  <2> QED BY <1>7, <2>1, <2>2, NoNewRecords
<1>8. ASSUME ReadFile PROVE BirthsFixed'
  <2>1. UNCHANGED <<obj, last, file>> /\ \A u \in Threads : text'[u] \subseteq Records
    BY <1>8 DEF ReadFile, TInv, Parts, ListsOK
  <2> QED BY <2>1, NoNewRecords
<1>9. ASSUME ProcessEnds PROVE BirthsFixed'
  <2>1. UNCHANGED <<last, file>> /\ \A u \in Threads : text'[u] \subseteq Records
    BY <1>9 DEF ProcessEnds
  <2>2. obj' = [n \in Objects |-> Unset] BY <1>9 DEF ProcessEnds
  <2> QED BY <2>1, <2>2, NoNewRecords
<1>10. ASSUME NEW t \in Threads,
              BeginStart(t) \/ SaveConfig(t) \/ FindOthers(t) \/ Replace(t) \/ Put(t)
              \/ Reconcile(t) \/ LoadConfig(t) \/ BeginSaveConfig(t) \/ BeginStop(t)
              \/ BeginSetEnabled(t) \/ EndRun(t) \/ BeginToggleOn(t) \/ BeginToggleOff(t)
              \/ BeginSaveProfile(t) \/ FindMatches(t) \/ FindSameIdentity(t)
              \/ MatchesCancelled(t) \/ DeleteProfile(t) \/ Cancel(t)
       PROVE  UNCHANGED <<obj, last, file, text>>
  BY <1>10 DEF BeginStart, SaveConfig, FindOthers, Replace, Put, Reconcile, LoadConfig,
     BeginSaveConfig, BeginStop, BeginSetEnabled, EndRun, BeginToggleOn, BeginToggleOff,
     BeginSaveProfile, FindMatches, FindSameIdentity, MatchesCancelled, DeleteProfile, Cancel
<1>11. ASSUME NEW t \in Threads,
              Healed(t) \/ Cancelled(t) \/ StoreProfile(t) \/ RereadProfile(t) \/ WriteFails(t)
       PROVE  \/ UNCHANGED <<obj, last, file, text>>
              \/ End(t) /\ UNCHANGED <<obj, last, file>>
  BY <1>11, Zenon DEF Healed, Cancelled, StoreProfile, RereadProfile, WriteFails
<1>12. ASSUME HealDuplicates \/ DuplicatesHealed \/ BeginShutdown
       PROVE  UNCHANGED <<obj, last, file, text>>
  BY <1>12 DEF HealDuplicates, DuplicatesHealed, BeginShutdown
<1>13. ASSUME UNCHANGED vars PROVE UNCHANGED <<obj, last, file, text>>
  BY <1>13
<1> QED BY NextSteps, <1>1, <1>2, <1>3, <1>4, <1>5, <1>6, <1>7, <1>8, <1>9, <1>10, <1>11, <1>12, <1>13
        DEF ThreadStep, Request, Heal, Persist

LEMMA StepKeyed ==
    ASSUME TInv, BirthsFixed, Keyed, [Next]_vars
    PROVE  Keyed'
<1> USE MemoryFacts DEF registryVars, stores, locals, vars, Go, Begin, End
<1>1. ASSUME UNCHANGED <<registry, obj>> PROVE Keyed'
  BY <1>1 DEF Keyed
<1>2. ASSUME NEW t \in Threads, Create(t) PROVE Keyed'
  <2>1. /\ last + 1 \in Objects /\ UNCHANGED registry
        /\ \A m \in Objects : m # last + 1 => obj'[m] = obj[m]
    BY <1>2 DEF Create, TInv, Parts, RegistryOK
  <2>2. \A m \in Objects : obj[m] \in Schedules => m <= last /\ m # last + 1
    BY UnsetApart DEF BirthsFixed, TInv, Parts, RegistryOK, Objects
  <2>3. \A id \in Objects : registry[id] # 0 => registry[id] \in Objects /\ obj[registry[id]] \in Schedules
    BY DEF TInv, Parts, RegistryOK, InMemory
  <2> QED BY <2>1, <2>2, <2>3 DEF Keyed
<1>3. ASSUME NEW t \in Threads, Sync(t) \/ SetEnabled(t) PROVE Keyed'
  <2>1. UNCHANGED registry BY <1>3 DEF Sync, SetEnabled
  <2>2. \A id \in Objects : registry[id] # 0 => registry[id] \in Objects /\ obj[registry[id]] \in Schedules
    BY DEF TInv, Parts, RegistryOK, InMemory
  <2> QED BY <1>3, <2>1, <2>2, EditsKeepBirths DEF Keyed, SameBirth
<1>4. ASSUME NEW t \in Threads, Cancel(t) \/ Replace(t) PROVE Keyed'
  <2>1. UNCHANGED obj /\ \A id \in Objects : registry'[id] \in {0, registry[id]}
    BY <1>4 DEF Cancel, Replace, TInv, Parts, RegistryOK
  <2> QED BY <2>1 DEF Keyed
<1>5. ASSUME NEW t \in Threads, Put(t) PROVE Keyed'
  <2>1. UNCHANGED obj /\ registry' = [registry EXCEPT ![obj[mine[t]].id] = mine[t]]
    BY <1>5 DEF Put
  <2> QED BY <2>1 DEF Keyed, TInv, Parts, RegistryOK
<1>6. ASSUME RestoreOne PROVE Keyed'
  <2>. PICK s \in text[Boot] : /\ obj' = [obj EXCEPT ![s.created] = s]
                               /\ registry' = [registry EXCEPT ![s.id] = s.created]
    BY <1>6 DEF RestoreOne
  <2>1. s \in Records /\ s.created \in Objects BY BootIsThread, ScheduleFields
  <2>2. ASSUME NEW id \in Objects, registry'[id] # 0 PROVE obj'[registry'[id]].id = id
    <3>1. CASE id = s.id
      BY <2>1, <3>1 DEF TInv, Parts, RegistryOK
    <3>2. CASE id # s.id /\ registry[id] = s.created
      <4>1. obj[s.created] \in Records /\ obj[s.created].created = s.created /\ obj[s.created].id = id
        BY <2>1, <2>2, <3>2, UnsetApart DEF TInv, Parts, RegistryOK, InMemory, BirthsFixed, Keyed
      <4> QED BY <2>1, <3>2, <4>1 DEF BirthsFixed
    <3>3. CASE id # s.id /\ registry[id] # s.created
      BY <2>1, <2>2, <3>3 DEF Keyed, TInv, Parts, RegistryOK
    <3> QED BY <3>1, <3>2, <3>3
  <2> QED BY <2>2 DEF Keyed
<1>7. ASSUME ProcessEnds PROVE Keyed'
  BY <1>7 DEF ProcessEnds, Keyed
<1>8. ASSUME NEW t \in Threads,
             BeginStart(t) \/ SaveConfig(t) \/ FindOthers(t)
             \/ Reconcile(t) \/ LoadConfig(t) \/ BeginSaveConfig(t) \/ BeginStop(t)
             \/ BeginSetEnabled(t) \/ EndRun(t) \/ BeginToggleOn(t) \/ BeginToggleOff(t)
             \/ BeginSaveProfile(t) \/ FindMatches(t) \/ FindSameIdentity(t)
             \/ MatchesCancelled(t) \/ DeleteProfile(t)
             \/ Healed(t) \/ Cancelled(t) \/ StoreProfile(t) \/ RereadProfile(t)
             \/ BeginSave(t) \/ WriteFile(t) \/ WriteFails(t)
      PROVE  UNCHANGED <<registry, obj>>
  BY <1>8 DEF BeginStart, SaveConfig, FindOthers, Reconcile, LoadConfig,
     BeginSaveConfig, BeginStop, BeginSetEnabled, EndRun, BeginToggleOn, BeginToggleOff,
     BeginSaveProfile, FindMatches, FindSameIdentity, MatchesCancelled, DeleteProfile,
     Healed, Cancelled, StoreProfile, RereadProfile, BeginSave, WriteFile, WriteFails
<1>9. ASSUME ReadFile \/ HealDuplicates \/ DuplicatesHealed \/ BeginShutdown \/ UNCHANGED vars
      PROVE  UNCHANGED <<registry, obj>>
  BY <1>9 DEF ReadFile, HealDuplicates, DuplicatesHealed, BeginShutdown
<1> QED BY NextSteps, <1>1, <1>2, <1>3, <1>4, <1>5, <1>6, <1>7, <1>8, <1>9
        DEF ThreadStep, Request, Heal, Persist

\* A schedule in memory keeps its key, type and profile while the process runs.
LEMMA BirthsStay ==
    ASSUME TInv, BirthsFixed, NEW t \in Threads, ThreadStep(t)
    PROVE  \A m \in Objects : obj[m] \in Schedules => SameBirth(obj'[m], obj[m])
<1> USE MemoryFacts DEF registryVars, stores, locals, vars, Go, Begin, End
<1>1. ASSUME UNCHANGED obj PROVE \A m \in Objects : SameBirth(obj'[m], obj[m])
  BY <1>1 DEF SameBirth
<1>2. CASE Create(t)
  <2>1. last + 1 \in Objects /\ \A m \in Objects : m # last + 1 => obj'[m] = obj[m]
    BY <1>2 DEF Create, TInv, Parts, RegistryOK
  <2>2. \A m \in Objects : obj[m] \in Schedules => m # last + 1
    BY UnsetApart DEF BirthsFixed, TInv, Parts, RegistryOK, Objects
  <2> QED BY <2>1, <2>2 DEF SameBirth
<1>3. CASE Sync(t) \/ SetEnabled(t) BY <1>3, EditsKeepBirths
<1>4. CASE RestoreOne
  <2>. PICK s \in text[Boot] : obj' = [obj EXCEPT ![s.created] = s]
    BY <1>4 DEF RestoreOne
  <2>1. s \in Records /\ s.created \in Objects BY BootIsThread, ScheduleFields
  <2>2. ASSUME NEW m \in Objects, obj[m] \in Schedules PROVE SameBirth(obj'[m], obj[m])
    <3>1. CASE m # s.created BY <2>1, <3>1 DEF SameBirth, TInv, Parts, RegistryOK
    <3>2. CASE m = s.created
      <4>1. obj'[m] = s BY <2>1, <3>2 DEF TInv, Parts, RegistryOK
      <4>2. obj[m] \in Records /\ obj[m].created = m BY <2>2, UnsetApart DEF BirthsFixed
      <4> QED BY <2>1, <3>2, <4>1, <4>2 DEF BirthsFixed, SameBirth
    <3> QED BY <3>1, <3>2
  <2> QED BY <2>2
<1>5. ASSUME BeginStart(t) \/ SaveConfig(t) \/ FindOthers(t) \/ Replace(t) \/ Put(t)
             \/ Reconcile(t) \/ LoadConfig(t) \/ BeginSaveConfig(t) \/ BeginStop(t)
             \/ BeginSetEnabled(t) \/ EndRun(t) \/ BeginToggleOn(t) \/ BeginToggleOff(t)
             \/ BeginSaveProfile(t) \/ FindMatches(t) \/ FindSameIdentity(t)
             \/ MatchesCancelled(t) \/ DeleteProfile(t) \/ Cancel(t)
             \/ Healed(t) \/ Cancelled(t) \/ StoreProfile(t) \/ RereadProfile(t)
             \/ BeginSave(t) \/ WriteFile(t) \/ WriteFails(t)
             \/ ReadFile \/ HealDuplicates \/ DuplicatesHealed \/ BeginShutdown
      PROVE  UNCHANGED obj
  BY <1>5 DEF BeginStart, SaveConfig, FindOthers, Replace, Put, Reconcile, LoadConfig,
     BeginSaveConfig, BeginStop, BeginSetEnabled, EndRun, BeginToggleOn, BeginToggleOff,
     BeginSaveProfile, FindMatches, FindSameIdentity, MatchesCancelled, DeleteProfile, Cancel,
     Healed, Cancelled, StoreProfile, RereadProfile, BeginSave, WriteFile, WriteFails,
     ReadFile, HealDuplicates, DuplicatesHealed, BeginShutdown
<1> QED BY <1>1, <1>2, <1>3, <1>4, <1>5 DEF ThreadStep, Request, Heal, Persist

LEMMA StepArmed ==
    ASSUME TInv, BirthsFixed, ArmedByProfile, [Next]_vars
    PROVE  ArmedByProfile'
<1> USE MemoryFacts, ZeroIsNoObject DEF registryVars, stores, locals, vars, Go, Begin, End
<1>1. CASE UNCHANGED vars BY <1>1 DEF ArmedByProfile
<1>2. CASE ProcessEnds BY <1>2 DEF ProcessEnds, ArmedByProfile
<1>3. ASSUME NEW t \in Threads, ThreadStep(t) PROVE ArmedByProfile'
  <2> DEFINE Armed(u) ==
          /\ pc[u] \in {"cancelSame", "cancelOthers"} => op[u] = "start"
          /\ op[u] # "start" /\ pc[u] \in {"create", "store", "reread", "match"} => want[u].profile \in Profiles
          /\ op[u] # "start" /\ pc[u] \in {"identity", "cancelArm", "put"} =>
                 mine[u] # 0 /\ obj[mine[u]].profile \in Profiles
  <2>1. \A u \in Threads : Armed(u) BY DEF ArmedByProfile
  <2>2. \A u \in Threads : mine[u] # 0 => mine[u] \in Objects /\ obj[mine[u]] \in Schedules
                                         /\ obj'[mine[u]].profile = obj[mine[u]].profile
    BY <1>3, BirthsStay DEF TInv, Parts, PointsOK, InMemory, SameBirth
  <2>3. ASSUME NEW u \in Threads \ {t} PROVE Armed(u)'
    BY <1>3, <2>1, <2>2, OthersKeepLocals
  <2>4. Armed(t)'
    <3> USE <1>3 DEF TInv, Parts, PointsOK
    <3>1. CASE SaveConfig(t) BY <3>1, <2>1, <2>2 DEF SaveConfig
    <3>2. CASE Create(t)
      <4>1. /\ pc[t] = "create" /\ op'[t] = op[t] /\ mine'[t] = last + 1 /\ last + 1 \in Objects
            /\ pc'[t] = (IF op[t] = "start" THEN "cancelSame" ELSE "identity")
            /\ obj'[last + 1].profile = want[t].profile
        BY <3>2 DEF Create, RegistryOK
      <4> QED BY <4>1, <2>1
    <3>3. CASE FindOthers(t) \/ Replace(t) BY <3>3, <2>1, <2>2 DEF FindOthers, Replace
    <3>4. CASE BeginToggleOn(t) \/ BeginSaveProfile(t)
      BY <3>4 DEF BeginToggleOn, BeginSaveProfile, Asked
    <3>5. CASE StoreProfile(t) \/ RereadProfile(t)
      <4>1. CASE pc'[t] = "idle" BY <4>1
      <4>2. CASE pc'[t] # "idle"
        BY <3>5, <4>2, <2>1 DEF StoreProfile, RereadProfile, Asked, InMemory
      <4> QED BY <4>1, <4>2
    <3>6. CASE FindMatches(t) \/ FindSameIdentity(t) \/ MatchesCancelled(t) \/ Cancel(t)
      BY <3>6, <2>1, <2>2 DEF FindMatches, FindSameIdentity, MatchesCancelled, Cancel
    <3>7. CASE BeginStart(t) \/ BeginSaveConfig(t) \/ BeginStop(t) \/ BeginSetEnabled(t)
               \/ SetEnabled(t) \/ EndRun(t) \/ BeginToggleOff(t) \/ DeleteProfile(t)
      BY <3>7 DEF BeginStart, BeginSaveConfig, BeginStop, BeginSetEnabled, SetEnabled,
         EndRun, BeginToggleOff, DeleteProfile
    <3>8. CASE Put(t) \/ Reconcile(t) \/ LoadConfig(t) \/ Sync(t) \/ Healed(t) \/ Cancelled(t)
               \/ BeginSave(t) \/ WriteFile(t) \/ WriteFails(t)
      BY <3>8 DEF Put, Reconcile, LoadConfig, Sync, Healed, Cancelled, BeginSave, WriteFile, WriteFails
    <3>9. CASE t = Boot /\ (ReadFile \/ RestoreOne \/ HealDuplicates \/ DuplicatesHealed)
      BY <3>9 DEF ReadFile, RestoreOne, HealDuplicates, DuplicatesHealed
    <3>10. CASE t = Main /\ BeginShutdown
      BY <3>10 DEF BeginShutdown
    <3> QED BY <3>1, <3>2, <3>3, <3>4, <3>5, <3>6, <3>7, <3>8, <3>9, <3>10
            DEF ThreadStep, Request, Heal, Persist
  <2> QED BY <2>3, <2>4 DEF ArmedByProfile
<1> QED BY NextSteps, <1>1, <1>2, <1>3

\* A thread that is responsible for n stays so, or another becomes it.
LEMMA StillReconciling ==
    ASSUME TInv, NEW t \in Threads, ThreadStep(t), NEW n, Reconciling(n),
           pc[t] \in {"boot", "restore", "cancelDup", "reconcile"}
               => pc'[t] \in {"boot", "restore", "cancelDup", "reconcile"},
           pc[t] \in {"load", "heal"} /\ n \in todo[t]
               => pc'[t] \in {"load", "heal"} /\ n \in todo'[t]
    PROVE  Reconciling(n)'
<1>1. PICK u \in Threads : \/ pc[u] \in {"boot", "restore", "cancelDup", "reconcile"}
                           \/ pc[u] \in {"load", "heal"} /\ n \in todo[u]
  BY DEF Reconciling
<1>2. CASE u = t BY <1>1, <1>2 DEF Reconciling
<1>3. CASE u # t BY <1>1, <1>3, OthersKeepLocals DEF Reconciling
<1> QED BY <1>2, <1>3

LEMMA StepOlder ==
    ASSUME IInv, [Next]_vars
    PROVE  OlderIsReconciled'
<1> USE MemoryFacts, ZeroIsNoObject DEF IInv, RInv, registryVars, stores, locals, vars, Go, Begin, End
<1>1. CASE UNCHANGED vars
  BY <1>1 DEF OlderIsReconciled, Reconciling, ConfigDriven, Live
<1>2. CASE ProcessEnds
  <2>1. Live' = {} BY <1>2 DEF ProcessEnds, Live
  <2> QED BY <2>1 DEF OlderIsReconciled
<1>3. ASSUME NEW t \in Threads, pc'[t] \in {"boot", "restore", "cancelDup", "reconcile"}
      PROVE  OlderIsReconciled'
  BY <1>3 DEF OlderIsReconciled, Reconciling
<1>4. ASSUME NEW t \in Threads, ThreadStep(t),
             \A n \in Live' : n \in Live \/ ~ConfigDriven(n)',
             \A n \in Live' : Reconciling(n) => Reconciling(n)'
      PROVE  OlderIsReconciled'
  <2>1. \A n \in Live : SameBirth(obj'[n], obj[n])
    BY <1>4, BirthsStay
  <2> QED BY <1>4, <2>1 DEF OlderIsReconciled, ConfigDriven, SameBirth
<1>5. ASSUME NEW t \in Threads, ThreadStep(t), Live' \subseteq Live,
             pc[t] \notin {"boot", "restore", "cancelDup", "reconcile", "load", "heal"}
      PROVE  OlderIsReconciled'
  BY <1>4, <1>5, StillReconciling
<1>6. ASSUME NEW t \in Threads, ThreadStep(t) PROVE OlderIsReconciled'
  <2> USE <1>6 DEF TInv, Parts, PointsOK, ListsOK
  <2>1. CASE Put(t)
    <3>1. /\ pc[t] = "put" /\ UNCHANGED obj
          /\ pc'[t] = (IF op[t] = "start" THEN "reconcile" ELSE "save")
          /\ registry' = [registry EXCEPT ![obj[mine[t]].id] = mine[t]]
      BY <2>1 DEF Put
    <3>2. CASE op[t] = "start" BY <1>3, <3>1, <3>2
    <3>3. CASE op[t] # "start"
      <4>1. obj'[mine[t]].profile # NoProfile
        BY <3>1, <3>3, AutomationsAssumption DEF AutomationsAssumption, ArmedByProfile
      <4>2. \A n \in Live' : n \in Live \/ n = mine[t]
        BY <3>1 DEF Live, RegistryOK
      <4>3. \A n \in Live' : n \in Live \/ ~ConfigDriven(n)'
        BY <4>1, <4>2 DEF ConfigDriven
      <4> QED BY <1>4, <3>1, <4>3, StillReconciling
    <3> QED BY <3>2, <3>3
  <2>2. CASE Reconcile(t)
    <3>1. pc'[t] = "load" /\ todo'[t] = Superseded /\ UNCHANGED <<registry, obj>>
      BY <2>2 DEF Reconcile
    <3> QED BY <3>1 DEF OlderIsReconciled, Reconciling, Superseded, ConfigDriven, Live
  <2>3. CASE LoadConfig(t) \/ Sync(t)
    <3>1. /\ pc[t] \in {"load", "heal"} /\ pc'[t] = "heal" /\ todo'[t] = todo[t]
          /\ UNCHANGED registry
      BY <2>3 DEF LoadConfig, Sync
    <3>2. Live' = Live BY <3>1 DEF Live
    <3> QED BY <1>4, <3>1, <3>2, StillReconciling
  <2>4. CASE Healed(t)
    <3>1. pc[t] = "heal" /\ todo[t] = {} /\ UNCHANGED registry
      BY <2>4 DEF Healed
    <3>2. Live' = Live BY <3>1 DEF Live
    <3> QED BY <1>4, <3>1, <3>2, StillReconciling
  <2>5. CASE Cancel(t)
    <3>. PICK n \in todo[t] : /\ registry' = [registry EXCEPT ![obj[n].id] = 0]
                              /\ todo' = [todo EXCEPT ![t] = @ \ {n}]
      BY <2>5 DEF Cancel
    <3>1. UNCHANGED <<pc, obj>> BY <2>5 DEF Cancel
    <3>2. Live' \subseteq Live BY DEF Live, RegistryOK
    <3>3. n \notin Live'
      BY DEF Live, Keyed, RegistryOK
    <3>4. \A m \in Live' : m \in todo[t] => m \in todo'[t]
      BY <3>3
    <3> QED BY <1>4, <3>1, <3>2, <3>4, StillReconciling
  <2>6. CASE Replace(t)
    <3>1. pc[t] = "cancelOthers" /\ Live' \subseteq Live
      BY <2>6 DEF Replace, Live, RegistryOK
    <3> QED BY <1>5, <3>1
  <2>7. CASE t = Boot /\ (ReadFile \/ RestoreOne \/ HealDuplicates \/ DuplicatesHealed)
    <3>1. pc'[t] \in {"restore", "cancelDup", "reconcile"}
      BY <2>7 DEF ReadFile, RestoreOne, HealDuplicates, DuplicatesHealed
    <3> QED BY <1>3, <3>1
  <2>8. CASE BeginStart(t) \/ SaveConfig(t) \/ Create(t) \/ FindOthers(t) \/ BeginSaveConfig(t)
             \/ BeginStop(t) \/ Cancelled(t) \/ BeginSetEnabled(t) \/ SetEnabled(t) \/ EndRun(t)
             \/ BeginToggleOn(t) \/ BeginToggleOff(t) \/ BeginSaveProfile(t) \/ StoreProfile(t)
             \/ RereadProfile(t) \/ FindMatches(t) \/ FindSameIdentity(t) \/ MatchesCancelled(t)
             \/ DeleteProfile(t) \/ BeginSave(t) \/ WriteFile(t) \/ WriteFails(t)
             \/ (t = Main /\ BeginShutdown)
    <3>1. UNCHANGED registry
          /\ pc[t] \notin {"boot", "restore", "cancelDup", "reconcile", "load", "heal"}
      BY <2>8 DEF BeginStart, SaveConfig, Create, FindOthers, BeginSaveConfig, BeginStop, Cancelled,
         BeginSetEnabled, SetEnabled, EndRun, BeginToggleOn, BeginToggleOff, BeginSaveProfile,
         StoreProfile, RereadProfile, FindMatches, FindSameIdentity, MatchesCancelled,
         DeleteProfile, BeginSave, WriteFile, WriteFails, BeginShutdown
    <3>2. Live' = Live BY <3>1 DEF Live
    <3> QED BY <1>5, <3>1, <3>2
  <2> QED BY <2>1, <2>2, <2>3, <2>4, <2>5, <2>6, <2>7, <2>8 DEF ThreadStep, Request, Heal, Persist
<1> QED BY NextSteps, <1>1, <1>2, <1>6

LEMMA InitRInv == Init => RInv
<1> SUFFICES ASSUME Init PROVE RInv OBVIOUS
<1>1. Live = {} BY DEF Init, Live, Objects
<1>2. Records = file BY DEF Init, Records
<1>3. BirthsFixed BY <1>2, AutomationsAssumption DEF Init, BirthsFixed, AutomationsAssumption
<1>4. Keyed BY DEF Init, Keyed
<1>5. ArmedByProfile BY DEF Init, ArmedByProfile
<1>6. OlderIsReconciled BY <1>1 DEF OlderIsReconciled
<1> QED BY <1>3, <1>4, <1>5, <1>6 DEF RInv

\* IInv is inductive.
THEOREM InductiveInvariant == Spec => []IInv
<1>1. Init => IInv BY InitTInv, InitRInv DEF IInv
<1>2. IInv /\ [Next]_vars => IInv'
  BY NextKeepsTInv, StepBirths, StepKeyed, StepArmed, StepOlder DEF IInv, RInv
<1> QED BY <1>1, <1>2, PTL DEF Spec

\* Whatever starts, edits, saves, toggles, stops, crashes and restores do to one
\* another, and however many there are, no type has two config-driven schedules
\* once they have finished.
THEOREM OneConfigDrivenPerTypeHolds == Spec => []OneConfigDrivenPerType
<1>1. IInv => OneConfigDrivenPerType
  <2> SUFFICES ASSUME IInv, Quiet, NEW m \in Live, NEW n \in Live,
                      ConfigDriven(m), ConfigDriven(n), obj[m].type = obj[n].type
               PROVE  m = n
    BY DEF OneConfigDrivenPerType
  <2>1. ~Reconciling(m) /\ ~Reconciling(n) BY DEF Quiet, Reconciling
  <2>2. ~(m < n) /\ ~(n < m) BY <2>1 DEF IInv, RInv, OlderIsReconciled
  <2>3. m \in Nat /\ n \in Nat BY DEF Live, Objects
  <2> QED BY <2>2, <2>3
<1> QED BY <1>1, InductiveInvariant, PTL

-----------------------------------------------------------------------------
(***************************************************************************)
(* The file is the registry once all is quiet.                             *)
(***************************************************************************)

OneWriter == \A t, u \in Threads : pc[t] = "write" /\ pc[u] = "write" => t = u

TextsInUse == \A t \in Threads : pc[t] # "write" /\ ~(t = Boot /\ pc[t] = "restore") => text[t] = {}

\* A thread that has changed the registry does not answer before it saves.
ChangesAreNoted ==
    \A t \in Threads :
        /\ pc[t] \in {"idle", "store", "reread"} => ~dirty[t]
        /\ pc[t] \in {"store", "reread", "cancel"} => op[t] # "start"

\* No two records share a key or a birth.
Distinct(records) == \A r, s \in records : r.id = s.id \/ r.created = s.created => r = s

RecordsDistinct == Distinct(file) /\ \A t \in Threads : Distinct(text[t])

\* While records come back, nothing else: the registry is what was taken out of
\* the text, and the file what it was when it was read.
RestoredSoFar ==
    /\ pc[Boot] = "boot" => \A id \in Objects : registry[id] = 0
    /\ pc[Boot] = "restore" =>
           /\ text[Boot] \subseteq file
           /\ \A id \in Objects : registry[id] # 0 => obj[registry[id]] \in file \ text[Boot]
           /\ \A s \in file \ text[Boot] : registry[s.id] = s.created /\ obj[s.created] = s

\* The thread will read the registry for a save.
Owes(t) == pc[t] \notin {"idle", "write"} /\ (pc[t] = "save" \/ op[t] = "start" \/ dirty[t])

\* Until the first save of the process, a thread that has changed what the restore
\* puts back is to save.
UntilFirstSave ==
    pc[Boot] \in {"boot", "restore"} /\ ~partial =>
        /\ \A t \in Threads : pc[t] # "write"
        /\ (\E t \in Threads : Owes(t)) \/ RestoredSoFar

\* The file is the registry, or what makes it so is under way, or it was written
\* too early.
FileFollows ==
    \/ pc[Boot] \in {"boot", "restore"}
    \/ partial
    \/ \E t \in Threads : Owes(t)
    \/ \E t \in Threads : pc[t] = "write" /\ text[t] = Snapshot
    \/ (\A t \in Threads : pc[t] # "write") /\ (unsaved \/ file = Snapshot)

SavingInv == OneWriter /\ TextsInUse /\ ChangesAreNoted /\ RecordsDistinct /\ UntilFirstSave

\* The steps that read, or change a thread's own notes, and no more.
Plain(t) ==
    \/ BeginStart(t) \/ SaveConfig(t) \/ FindOthers(t) \/ Reconcile(t) \/ LoadConfig(t)
    \/ BeginSaveConfig(t) \/ BeginStop(t) \/ BeginSetEnabled(t) \/ EndRun(t)
    \/ BeginToggleOn(t) \/ BeginToggleOff(t) \/ BeginSaveProfile(t)
    \/ FindMatches(t) \/ FindSameIdentity(t) \/ MatchesCancelled(t) \/ DeleteProfile(t)
    \/ (t = Boot /\ DuplicatesHealed) \/ (t = Main /\ BeginShutdown)

\* The steps that may answer the request.
Answers(t) == Healed(t) \/ Cancelled(t) \/ StoreProfile(t) \/ RereadProfile(t)

LEMMA StepKinds ==
    ASSUME NEW t \in Threads, ThreadStep(t)
    PROVE  \/ Plain(t) \/ Answers(t) \/ Create(t) \/ Replace(t) \/ Put(t) \/ SetEnabled(t) \/ Cancel(t)
           \/ Sync(t) \/ BeginSave(t) \/ WriteFile(t) \/ WriteFails(t)
           \/ (t = Boot /\ (ReadFile \/ RestoreOne \/ HealDuplicates))
BY DEF ThreadStep, Request, Heal, Persist, Plain, Answers

LEMMA PlainSteps ==
    ASSUME TInv, NEW t \in Threads, Plain(t)
    PROVE  /\ UNCHANGED <<registry, obj, file, unsaved, stopped, text, dirty>>
           /\ pc[t] \notin {"boot", "restore", "save", "write"}
           /\ pc'[t] \notin {"boot", "restore", "write"}
           /\ pc'[t] = "idle" => pc[t] = "idle"
           /\ op'[t] = op[t] \/ pc[t] = "idle"
           /\ pc'[t] \in {"store", "reread", "cancel"} => op'[t] # "start"
<1> USE DEF TInv, Parts, PointsOK, ListsOK, Go, Begin, registryVars, stores, locals
<1>1. CASE BeginStart(t) \/ BeginSaveConfig(t) \/ EndRun(t)
  BY <1>1 DEF BeginStart, BeginSaveConfig, EndRun
<1>2. CASE SaveConfig(t) BY <1>2 DEF SaveConfig
<1>3. CASE FindOthers(t) \/ Reconcile(t) \/ LoadConfig(t)
  BY <1>3 DEF FindOthers, Reconcile, LoadConfig
<1>4. CASE BeginStop(t) \/ BeginSetEnabled(t) \/ BeginToggleOff(t)
  BY <1>4 DEF BeginStop, BeginSetEnabled, BeginToggleOff
<1>5. CASE BeginToggleOn(t) \/ BeginSaveProfile(t)
  BY <1>5 DEF BeginToggleOn, BeginSaveProfile
<1>6. CASE FindMatches(t) \/ FindSameIdentity(t) \/ MatchesCancelled(t)
  BY <1>6 DEF FindMatches, FindSameIdentity, MatchesCancelled
<1>7. CASE DeleteProfile(t) BY <1>7 DEF DeleteProfile
<1>8. CASE (t = Boot /\ DuplicatesHealed) \/ (t = Main /\ BeginShutdown)
  BY <1>8 DEF DuplicatesHealed, BeginShutdown
<1> QED BY <1>1, <1>2, <1>3, <1>4, <1>5, <1>6, <1>7, <1>8 DEF Plain

LEMMA AnswerSteps ==
    ASSUME TInv, NEW t \in Threads, Answers(t)
    PROVE  /\ UNCHANGED <<registry, obj, last, file, unsaved, stopped>>
           /\ pc[t] \in {"heal", "cancel", "store", "reread"}
           /\ \/ /\ End(t)
                 /\ pc[t] \in {"heal", "cancel"} => ~dirty[t]
                 /\ pc[t] = "heal" => op[t] # "start"
              \/ /\ UNCHANGED <<text, dirty, op, mine, todo>> /\ pc'[t] \in {"save", "reread", "match"}
                 /\ pc'[t] = "reread" => pc[t] = "store"
<1> USE DEF TInv, Parts, PointsOK, Go, registryVars, stores, locals
<1>1. CASE Healed(t) BY <1>1 DEF Healed
<1>2. CASE Cancelled(t) BY <1>2 DEF Cancelled
<1>3. CASE StoreProfile(t) BY <1>3 DEF StoreProfile
<1>4. CASE RereadProfile(t)
  <2>1. CASE profiles[want[t].profile] = Unset BY <1>4, <2>1 DEF RereadProfile
  <2>2. CASE profiles[want[t].profile] # Unset BY <1>4, <2>2 DEF RereadProfile
  <2> QED BY <2>1, <2>2
<1> QED BY <1>1, <1>2, <1>3, <1>4 DEF Answers

\* The thread of the restore does nothing once it is done.
Steps(t) == ThreadStep(t) /\ (t = Boot => pc[t] # "idle")

LEMMA NextThreads ==
    ASSUME [Next]_vars
    PROVE  UNCHANGED vars \/ ProcessEnds \/ \E t \in Threads : Steps(t)
<1>1. ASSUME Restore PROVE ThreadStep(Boot) /\ pc[Boot] # "idle"
  <2>1. ThreadStep(Boot) BY <1>1 DEF Restore, ThreadStep, Request
  <2>2. pc[Boot] # "idle"
    BY <1>1 DEF Restore, ReadFile, RestoreOne, HealDuplicates, DuplicatesHealed, Cancel, Heal,
       Reconcile, LoadConfig, Sync, Healed, Persist, BeginSave, WriteFile, WriteFails, Go
  <2> QED BY <2>1, <2>2
<1>2. ASSUME Shutdown PROVE ProcessEnds \/ ThreadStep(Main)
  BY <1>2 DEF Shutdown, Exit, ThreadStep, Request
<1>3. Main # Boot /\ \A t \in Workers : t # Boot
  BY AutomationsAssumption DEF AutomationsAssumption
<1> QED BY <1>1, <1>2, <1>3, BootIsThread DEF Next, Crash, Threads, Steps, ThreadStep

\* Nor does a thread change what another has noted for its save.
LEMMA OthersKeepTexts ==
    ASSUME TInv, NEW t \in Threads, ThreadStep(t), NEW u \in Threads \ {t}
    PROVE  text'[u] = text[u] /\ dirty'[u] = dirty[u]
<1> USE DEF TInv, Parts, ListsOK, FlagsOK, Go, Begin, End, registryVars, stores, locals
<1>1. CASE Plain(t) BY <1>1, PlainSteps
<1>2. CASE Answers(t) BY <1>2, AnswerSteps
<1>3. CASE Create(t) \/ Replace(t) \/ Put(t) \/ SetEnabled(t) \/ BeginSave(t) \/ WriteFile(t) \/ WriteFails(t)
  BY <1>3 DEF Create, Replace, Put, SetEnabled, BeginSave, WriteFile, WriteFails
<1>4. CASE Cancel(t) \/ Sync(t) BY <1>4 DEF Cancel, Sync
<1>5. CASE t = Boot /\ (ReadFile \/ RestoreOne \/ HealDuplicates)
  BY <1>5 DEF ReadFile, RestoreOne, HealDuplicates
<1> QED BY <1>1, <1>2, <1>3, <1>4, <1>5, StepKinds

\* Where the steps that are not plain lead.
LEMMA OtherSteps ==
    ASSUME TInv, NEW t \in Threads, ThreadStep(t), ~Plain(t), ~Answers(t)
    PROVE  /\ pc'[t] = "idle" => WriteFile(t) \/ WriteFails(t)
           /\ pc'[t] = "write" => BeginSave(t)
           /\ pc'[t] = "restore" => t = Boot /\ (ReadFile \/ RestoreOne)
           /\ pc'[t] # "boot"
           /\ pc'[t] \notin {"store", "reread"}
           /\ pc'[t] = "cancel" => Cancel(t)
<1> USE DEF TInv, Parts, PointsOK, Go, registryVars, stores, locals
<1>1. CASE Create(t) \/ Replace(t) \/ Put(t) \/ SetEnabled(t) \/ BeginSave(t)
  BY <1>1 DEF Create, Replace, Put, SetEnabled, BeginSave
<1>2. CASE WriteFile(t) \/ WriteFails(t)
  BY <1>2 DEF WriteFile, WriteFails, End
<1>3. CASE Cancel(t) \/ Sync(t)
  BY <1>3 DEF Cancel, Sync
<1>4. CASE t = Boot /\ (ReadFile \/ RestoreOne \/ HealDuplicates)
  BY <1>4 DEF ReadFile, RestoreOne, HealDuplicates
<1> QED BY <1>1, <1>2, <1>3, <1>4, StepKinds

\* Only the lock's holder writes.
LEMMA WritesBegin ==
    ASSUME TInv, NEW t \in Threads, ThreadStep(t), pc'[t] = "write"
    PROVE  BeginSave(t)
<1>1. ~Plain(t) BY PlainSteps
<1>2. ~Answers(t)
  <2>1. End(t) => pc'[t] # "write" BY DEF End, TInv, Parts, PointsOK
  <2> QED BY <2>1, AnswerSteps
<1> QED BY <1>1, <1>2, OtherSteps

LEMMA StepWriter ==
    ASSUME TInv, OneWriter, [Next]_vars
    PROVE  OneWriter'
<1>1. CASE UNCHANGED vars BY <1>1 DEF vars, OneWriter
<1>2. CASE ProcessEnds BY <1>2 DEF ProcessEnds, OneWriter
<1>3. ASSUME NEW t \in Threads, ThreadStep(t) PROVE OneWriter'
  <2>1. CASE pc'[t] = "write"
    <3>1. \A u \in Threads : pc[u] # "write" BY <1>3, <2>1, WritesBegin DEF BeginSave, SaveInProgress
    <3> QED BY <1>3, <3>1, OthersKeepLocals DEF OneWriter
  <2>2. CASE pc'[t] # "write" BY <1>3, <2>2, OthersKeepLocals DEF OneWriter
  <2> QED BY <2>1, <2>2
<1> QED BY <1>1, <1>2, <1>3, NextThreads DEF Steps

LEMMA StepTexts ==
    ASSUME TInv, TextsInUse, [Next]_vars
    PROVE  TextsInUse'
<1> USE DEF TInv, Parts, PointsOK, ListsOK
<1>1. CASE UNCHANGED vars BY <1>1 DEF vars, locals, TextsInUse
<1>2. CASE ProcessEnds BY <1>2 DEF ProcessEnds, TextsInUse
<1>3. ASSUME NEW t \in Threads, ThreadStep(t) PROVE TextsInUse'
  <2>1. \A u \in Threads \ {t} : text'[u] = text[u] /\ pc'[u] = pc[u]
    BY <1>3, OthersKeepLocals, OthersKeepTexts
  <2>2. ASSUME pc'[t] # "write", ~(t = Boot /\ pc'[t] = "restore") PROVE text'[t] = {}
    <3>1. CASE Plain(t) BY <3>1, PlainSteps DEF TextsInUse
    <3>2. CASE Answers(t) BY <3>2, AnswerSteps DEF TextsInUse, End
    <3>3. CASE Create(t) \/ Replace(t) \/ Put(t) \/ SetEnabled(t) \/ Cancel(t) \/ Sync(t)
      <4>1. text'[t] = text[t] /\ pc[t] \notin {"write", "restore"}
        BY <3>3 DEF Create, Replace, Put, SetEnabled, Cancel, Sync, Go, locals
      <4> QED BY <4>1 DEF TextsInUse
    <3>4. CASE BeginSave(t) BY <2>2, <3>4 DEF BeginSave, Go
    <3>5. CASE WriteFile(t) \/ WriteFails(t) BY <3>5 DEF WriteFile, WriteFails, End
    <3>6. CASE t = Boot /\ (ReadFile \/ RestoreOne)
      BY <2>2, <3>6 DEF ReadFile, RestoreOne, Go
    <3>7. CASE t = Boot /\ HealDuplicates
      BY <3>7 DEF HealDuplicates, Go
    <3> QED BY <1>3, <3>1, <3>2, <3>3, <3>4, <3>5, <3>6, <3>7, StepKinds
  <2> QED BY <2>1, <2>2 DEF TextsInUse
<1> QED BY <1>1, <1>2, <1>3, NextThreads DEF Steps

LEMMA StepNoted ==
    ASSUME TInv, ChangesAreNoted, [Next]_vars
    PROVE  ChangesAreNoted'
<1> USE DEF TInv, Parts, PointsOK, ListsOK, FlagsOK
<1>1. CASE UNCHANGED vars BY <1>1 DEF vars, locals, ChangesAreNoted
<1>2. CASE ProcessEnds BY <1>2 DEF ProcessEnds, ChangesAreNoted
<1>3. ASSUME NEW t \in Threads, ThreadStep(t) PROVE ChangesAreNoted'
  <2>1. \A u \in Threads \ {t} : dirty'[u] = dirty[u] /\ pc'[u] = pc[u] /\ op'[u] = op[u]
    BY <1>3, OthersKeepLocals, OthersKeepTexts
  <2>2. /\ pc'[t] \in {"idle", "store", "reread"} => ~dirty'[t]
        /\ pc'[t] \in {"store", "reread", "cancel"} => op'[t] # "start"
    <3>1. CASE Plain(t)
      <4>1. pc'[t] \in {"store", "reread"} => pc[t] = "idle"
        BY <3>1 DEF Plain, BeginStart, SaveConfig, FindOthers, Reconcile, LoadConfig, BeginSaveConfig,
           BeginStop, BeginSetEnabled, EndRun, BeginToggleOn, BeginToggleOff, BeginSaveProfile,
           FindMatches, FindSameIdentity, MatchesCancelled, DeleteProfile, DuplicatesHealed,
           BeginShutdown, Begin, Go
      <4> QED BY <3>1, <4>1, PlainSteps DEF ChangesAreNoted
    <3>2. CASE Answers(t) BY <3>2, AnswerSteps DEF ChangesAreNoted, End
    <3>3. CASE ~Plain(t) /\ ~Answers(t)
      <4>1. WriteFile(t) \/ WriteFails(t) => ~dirty'[t] /\ op'[t] = "none" /\ pc'[t] = "idle"
        BY DEF WriteFile, WriteFails, End
      <4>2. Cancel(t) => op' = op /\ pc' = pc BY DEF Cancel
      <4> QED BY <1>3, <3>3, <4>1, <4>2, OtherSteps DEF ChangesAreNoted
    <3> QED BY <3>1, <3>2, <3>3
  <2> QED BY <2>1, <2>2 DEF ChangesAreNoted
<1> QED BY <1>1, <1>2, <1>3, NextThreads DEF Steps

\* The registry has one schedule for a key, and one key for a schedule.
LEMMA SnapshotDistinct ==
    ASSUME IInv
    PROVE  Distinct(Snapshot)
<1> SUFFICES ASSUME NEW m \in Live, NEW n \in Live, obj[m].id = obj[n].id \/ obj[m].created = obj[n].created
             PROVE  m = n
  BY DEF Distinct, Snapshot
<1>1. obj[m] # Unset /\ obj[n] # Unset BY MemoryFacts, UnsetApart DEF IInv
<1>2. CASE obj[m].id = obj[n].id BY <1>2 DEF Live, IInv, RInv, Keyed, Objects
<1>3. CASE obj[m].created = obj[n].created BY <1>1, <1>3 DEF Live, IInv, RInv, BirthsFixed
<1> QED BY <1>2, <1>3

LEMMA StepDistinct ==
    ASSUME IInv, RecordsDistinct, [Next]_vars
    PROVE  RecordsDistinct'
<1> USE DEF IInv, TInv, Parts, PointsOK, ListsOK
<1>0. Distinct({}) BY DEF Distinct
<1>1. CASE UNCHANGED vars BY <1>1 DEF vars, stores, locals, RecordsDistinct
<1>2. CASE ProcessEnds BY <1>0, <1>2 DEF ProcessEnds, RecordsDistinct
<1>3. ASSUME NEW t \in Threads, ThreadStep(t) PROVE RecordsDistinct'
  <2>1. \A u \in Threads \ {t} : text'[u] = text[u]
    BY <1>3, OthersKeepTexts
  <2>2. /\ file' = file \/ file' = text[t]
        /\ text'[t] \subseteq text[t] \/ text'[t] = Snapshot \/ text'[t] = file
    <3>1. CASE Plain(t) BY <3>1, PlainSteps
    <3>2. CASE Answers(t) BY <3>2, AnswerSteps DEF End
    <3>3. CASE Create(t) \/ Replace(t) \/ Put(t) \/ SetEnabled(t) \/ Cancel(t) \/ Sync(t)
      BY <3>3 DEF Create, Replace, Put, SetEnabled, Cancel, Sync, locals, stores
    <3>4. CASE BeginSave(t) BY <3>4 DEF BeginSave, stores
    <3>5. CASE WriteFile(t) \/ WriteFails(t) BY <3>5 DEF WriteFile, WriteFails, End
    <3>6. CASE t = Boot /\ (ReadFile \/ RestoreOne \/ HealDuplicates)
      BY <3>6 DEF ReadFile, RestoreOne, HealDuplicates, stores
    <3> QED BY <1>3, <3>1, <3>2, <3>3, <3>4, <3>5, <3>6, StepKinds
  <2>3. Distinct(file') BY <2>2 DEF RecordsDistinct
  <2>4. Distinct(text'[t])
    <3>1. ASSUME text'[t] \subseteq text[t] PROVE Distinct(text'[t])
      BY <3>1 DEF RecordsDistinct, Distinct
    <3> QED BY <2>2, <3>1, SnapshotDistinct DEF RecordsDistinct
  <2> QED BY <2>1, <2>3, <2>4 DEF RecordsDistinct
<1> QED BY <1>1, <1>2, <1>3, NextThreads DEF Steps

\* What a thread owes it owes until it reads the registry.
LEMMA OwesStays ==
    ASSUME TInv, RInv, ChangesAreNoted, NEW t \in Threads, ThreadStep(t), Owes(t), ~BeginSave(t)
    PROVE  Owes(t)'
<1> USE DEF TInv, Parts, PointsOK, FlagsOK, Go, registryVars, stores, locals, Owes
<1>1. CASE Plain(t) BY <1>1, PlainSteps
<1>2. CASE Answers(t) BY <1>2, AnswerSteps DEF ChangesAreNoted
<1>3. CASE Create(t)
  <2>1. pc'[t] \in {"cancelSame", "identity"} /\ UNCHANGED <<op, dirty>> /\ pc[t] = "create"
    BY <1>3 DEF Create
  <2> QED BY <2>1
<1>4. CASE Replace(t)
  <2>1. op'[t] = "start" /\ pc'[t] = "put" BY <1>4 DEF Replace, RInv, ArmedByProfile
  <2> QED BY <2>1
<1>5. CASE Put(t)
  <2>1. op'[t] = op[t] /\ pc'[t] = (IF op[t] = "start" THEN "reconcile" ELSE "save") BY <1>5 DEF Put
  <2> QED BY <2>1
<1>6. CASE SetEnabled(t)
  <2>1. pc'[t] = "save" BY <1>6 DEF SetEnabled
  <2> QED BY <2>1
<1>7. CASE Cancel(t)
  <2>1. UNCHANGED <<pc, op>> /\ (dirty[t] => dirty'[t]) BY <1>7, Zenon DEF Cancel
  <2> QED BY <2>1
<1>8. CASE Sync(t)
  <2>1. UNCHANGED <<pc, op>> /\ (dirty[t] => dirty'[t]) BY <1>8 DEF Sync
  <2> QED BY <2>1
<1>9. CASE WriteFile(t) \/ WriteFails(t) BY <1>9 DEF WriteFile, WriteFails
<1>10. CASE t = Boot /\ (ReadFile \/ RestoreOne \/ HealDuplicates)
  BY <1>10 DEF ReadFile, RestoreOne, HealDuplicates
<1> QED BY <1>1, <1>2, <1>3, <1>4, <1>5, <1>6, <1>7, <1>8, <1>9, <1>10, StepKinds

\* A record that comes back is in the registry as it was in the file.
LEMMA OneRestored ==
    ASSUME IInv, RecordsDistinct, RestoredSoFar, RestoreOne
    PROVE  RestoredSoFar'
<1> USE BootIsThread DEF IInv, TInv, Parts, RegistryOK, PointsOK, ListsOK
<1>. PICK s \in text[Boot] : /\ obj' = [obj EXCEPT ![s.created] = s]
                             /\ registry' = [registry EXCEPT ![s.id] = s.created]
                             /\ text' = [text EXCEPT ![Boot] = @ \ {s}]
  BY DEF RestoreOne
<1>1. pc[Boot] = "restore" /\ UNCHANGED <<pc, file>> BY DEF RestoreOne, stores
<1>2. /\ text[Boot] \subseteq file
      /\ \A id \in Objects : registry[id] # 0 => obj[registry[id]] \in file \ text[Boot]
      /\ \A r \in file \ text[Boot] : registry[r.id] = r.created /\ obj[r.created] = r
  BY <1>1 DEF RestoredSoFar
<1>3. s \in file /\ s \in Schedules /\ s.id \in Objects /\ s.created \in Objects
  BY <1>2, ScheduleFields DEF StoresOK
<1>4. text'[Boot] = text[Boot] \ {s} OBVIOUS
<1>5. \A r \in file \ text[Boot] : r \in Schedules /\ r.id # s.id /\ r.created # s.created
  BY <1>3 DEF RecordsDistinct, Distinct, StoresOK
<1>6. registry'[s.id] = s.created /\ obj'[s.created] = s BY <1>3
<1>7. ASSUME NEW id \in Objects, registry'[id] # 0 PROVE obj'[registry'[id]] \in file \ text'[Boot]
  <2>1. CASE id = s.id BY <1>3, <1>4, <1>6, <2>1
  <2>2. CASE id # s.id
    <3>1. registry'[id] = registry[id] BY <1>3, <2>2
    <3>2. obj[registry[id]] \in file \ text[Boot] /\ registry[id] \in Objects
      BY <1>2, <1>7, <3>1
    <3>3. registry[id] # s.created
      BY <1>5, <3>2, UnsetApart DEF RInv, BirthsFixed
    <3> QED BY <1>3, <1>4, <3>1, <3>2, <3>3
  <2> QED BY <2>1, <2>2
<1>8. ASSUME NEW r \in file \ text'[Boot] PROVE registry'[r.id] = r.created /\ obj'[r.created] = r
  <2>1. CASE r = s BY <1>6, <2>1
  <2>2. CASE r # s
    <3>1. r \in file \ text[Boot] BY <1>4, <2>2
    <3>2. r.id \in Objects /\ r.created \in Objects BY <1>5, <3>1, ScheduleFields
    <3> QED BY <1>2, <1>3, <1>5, <3>1, <3>2
  <2> QED BY <2>1, <2>2
<1> QED BY <1>1, <1>2, <1>4, <1>7, <1>8 DEF RestoredSoFar

\* A schedule that is new is neither registered nor in the file.
LEMMA CreateRestores ==
    ASSUME IInv, RestoredSoFar, NEW t \in Threads, Create(t)
    PROVE  pc'[Boot] = pc[Boot] => RestoredSoFar'
<1> USE DEF IInv, TInv, Parts, RegistryOK
<1>1. /\ last + 1 \in Objects /\ UNCHANGED <<registry, file, text>>
      /\ \A m \in Objects : m # last + 1 => obj'[m] = obj[m]
  BY DEF Create, stores
<1>2. \A n \in Objects : obj[n] \in Schedules => n # last + 1
  BY MemoryFacts, UnsetApart DEF RInv, BirthsFixed, Objects
<1>3. \A s \in file : s.created \in Objects /\ s.created # last + 1
  BY MemoryFacts, ScheduleFields DEF RInv, BirthsFixed, Objects
<1>4. \A id \in Objects : registry[id] # 0 => registry[id] \in Objects /\ registry[id] # last + 1
  BY <1>2 DEF InMemory
<1> QED BY <1>1, <1>3, <1>4 DEF RestoredSoFar

LEMMA StepUntilFirstSave ==
    ASSUME IInv, SavingInv, [Next]_vars
    PROVE  UntilFirstSave'
<1> USE DEF IInv, TInv, Parts, RegistryOK, PointsOK, ListsOK, SavingInv
<1>0. CASE UNCHANGED vars
  BY <1>0 DEF vars, registryVars, stores, history, locals, UntilFirstSave, RestoredSoFar, Owes
<1>1. CASE ProcessEnds BY <1>1, BootIsThread DEF ProcessEnds, UntilFirstSave, RestoredSoFar
<1>2. ASSUME NEW t \in Threads, Steps(t), pc'[Boot] \in {"boot", "restore"}, ~partial'
      PROVE  (\A u \in Threads : pc'[u] # "write") /\ ((\E u \in Threads : Owes(u)') \/ RestoredSoFar')
  <2> USE <1>2, BootIsThread DEF Steps
  <2>0. \A u \in Threads \ {t} : /\ pc'[u] = pc[u] /\ text'[u] = text[u] /\ (Owes(u) => Owes(u)')
    BY OthersKeepLocals, OthersKeepTexts DEF Owes
  <2>1. pc[Boot] \in {"boot", "restore"}
    <3>1. CASE t # Boot BY <2>0, <3>1
    <3>2. CASE Plain(Boot) BY <3>2, PlainSteps, <2>0
    <3>3. CASE t = Boot /\ Answers(Boot) BY <3>3, AnswerSteps DEF End
    <3>4. CASE t = Boot /\ ~Plain(t) /\ ~Answers(t)
      BY <3>4, OtherSteps DEF ReadFile, RestoreOne, Go
    <3> QED BY <3>1, <3>2, <3>3, <3>4
  <2>2. ~BeginSave(t) /\ ~partial
    <3>1. ~BeginSave(t) BY <2>1, HistorySteps
    <3> QED BY <3>1, HistorySteps
  <2>3. (\A u \in Threads : pc[u] # "write") /\ ((\E u \in Threads : Owes(u)) \/ RestoredSoFar)
    BY <2>1, <2>2 DEF UntilFirstSave
  <2>4. \A u \in Threads : pc'[u] # "write" BY <2>0, <2>2, <2>3, WritesBegin
  <2>5. CASE \E u \in Threads : Owes(u)
    <3> PICK u \in Threads : Owes(u) BY <2>5
    <3> QED BY <2>0, <2>2, <2>4, OwesStays
  <2>6. CASE RestoredSoFar
    <3>0. t # Boot /\ UNCHANGED <<registry, obj, file>> => RestoredSoFar'
      BY <2>0, <2>6 DEF RestoredSoFar
    <3>1. CASE Plain(t) BY <3>0, <3>1, <2>1, <2>4, PlainSteps
    <3>2. CASE Answers(t) BY <3>0, <3>2, <2>1, <2>4, AnswerSteps
    <3>3. CASE Create(t)
      <4>1. pc[t] = "create" BY <3>3 DEF Create, Go
      <4> QED BY <2>0, <2>1, <2>4, <2>6, <3>3, <4>1, CreateRestores
    <3>4. CASE Replace(t)
      <4>1. op'[t] = "start" /\ pc'[t] = "put" BY <3>4 DEF Replace, Go, locals, RInv, ArmedByProfile
      <4> QED BY <2>4, <4>1 DEF Owes
    <3>5. CASE Put(t)
      <4>1. op'[t] = op[t] /\ pc'[t] = (IF op[t] = "start" THEN "reconcile" ELSE "save")
        BY <3>5 DEF Put, Go, locals
      <4> QED BY <2>4, <4>1 DEF Owes
    <3>6. CASE SetEnabled(t)
      <4>1. pc'[t] = "save" BY <3>6 DEF SetEnabled, Go
      <4> QED BY <2>4, <4>1 DEF Owes
    <3>7. CASE Cancel(t)
      <4>. PICK n \in todo[t] : /\ registry' = [registry EXCEPT ![obj[n].id] = 0]
                                /\ dirty' = [dirty EXCEPT ![t] = @ \/ registry[obj[n].id] # 0]
        BY <3>7 DEF Cancel
      <4>1. pc[t] \notin {"boot", "restore", "idle", "write"} /\ UNCHANGED <<obj, pc, op, file>>
        BY <3>7 DEF Cancel, stores
      <4>2. CASE registry[obj[n].id] # 0
        <5>1. dirty'[t] BY <4>2 DEF FlagsOK
        <5> QED BY <2>4, <4>1, <5>1 DEF Owes
      <4>3. CASE registry[obj[n].id] = 0
        <5>1. registry' = registry BY <4>3
        <5> QED BY <2>1, <2>4, <3>0, <4>1, <5>1
      <4> QED BY <4>2, <4>3
    <3>8. CASE Sync(t)
      <4>1. pc[t] = "heal" /\ UNCHANGED <<registry, pc, op, file>> BY <3>8 DEF Sync, stores
      <4>2. (UNCHANGED <<obj, dirty>>) \/ dirty'[t] BY <3>8 DEF Sync, FlagsOK
      <4>3. CASE dirty'[t] BY <2>4, <4>1, <4>3 DEF Owes
      <4>4. CASE UNCHANGED <<obj, dirty>> BY <2>1, <2>4, <3>0, <4>1, <4>4
      <4> QED BY <4>2, <4>3, <4>4
    <3>9. CASE WriteFile(t) \/ WriteFails(t) BY <2>3, <3>9 DEF WriteFile, WriteFails
    <3>10. CASE t = Boot /\ ReadFile
      <4>1. pc[Boot] = "boot" /\ pc'[Boot] = "restore" /\ text'[Boot] = file /\ UNCHANGED <<registry, file>>
        BY <3>10 DEF ReadFile, Go, registryVars, stores
      <4>2. RestoredSoFar' BY <2>6, <4>1 DEF RestoredSoFar
      <4> QED BY <2>4, <4>2
    <3>11. CASE t = Boot /\ RestoreOne
      <4>1. RestoredSoFar' BY <2>6, <3>11, OneRestored
      <4> QED BY <2>4, <4>1
    <3>12. CASE t = Boot /\ HealDuplicates BY <3>12 DEF HealDuplicates, Go
    <3> QED BY <2>2, <2>4, <3>1, <3>2, <3>3, <3>4, <3>5, <3>6, <3>7, <3>8, <3>9, <3>10, <3>11, <3>12, StepKinds
  <2> QED BY <2>3, <2>4, <2>5, <2>6
<1>3. ASSUME NEW t \in Threads, Steps(t) PROVE UntilFirstSave' BY <1>2, <1>3 DEF UntilFirstSave
<1> QED BY <1>0, <1>1, <1>3, NextThreads

\* With all records back, memory holds what the file does.
LEMMA RestoredIsFile ==
    ASSUME IInv, RestoredSoFar, pc[Boot] = "restore", text[Boot] = {}
    PROVE  file = Snapshot
<1> USE DEF IInv, TInv, Parts, RegistryOK, StoresOK, RestoredSoFar
<1>1. ASSUME NEW s \in file PROVE s \in Snapshot
  <2>1. s.id \in Objects /\ s.created \in Objects BY ScheduleFields
  <2>2. registry[s.id] = s.created /\ obj[s.created] = s OBVIOUS
  <2> QED BY <2>1, <2>2 DEF Snapshot, Live
<1>2. ASSUME NEW n \in Live PROVE obj[n] \in file
  <2>. PICK id \in Objects : registry[id] = n BY DEF Live
  <2>1. n # 0 BY ZeroIsNoObject DEF Live
  <2> QED BY <2>1
<1> QED BY <1>1, <1>2 DEF Snapshot

\* A step that neither changes the registry nor answers leaves the file to be,
\* or not to be, written as it was.
LEMMA FileStillFollows ==
    ASSUME TInv, FileFollows, NEW t \in Threads, ThreadStep(t),
           Snapshot' = Snapshot, UNCHANGED <<file, unsaved>>,
           pc[t] \notin {"boot", "restore", "write"}, pc'[t] # "write",
           Owes(t) => Owes(t)'
    PROVE  FileFollows'
<1>0. partial => partial' BY HistorySteps DEF BeginSave, Go, TInv, Parts, PointsOK
<1>1. \A u \in Threads \ {t} : pc'[u] = pc[u] /\ text'[u] = text[u] /\ (Owes(u) => Owes(u)')
  BY OthersKeepLocals, OthersKeepTexts DEF Owes
<1>2. CASE pc[Boot] \in {"boot", "restore"} BY <1>1, <1>2, BootIsThread DEF FileFollows
<1>3. CASE \E u \in Threads : Owes(u) BY <1>1, <1>3 DEF FileFollows
<1>4. CASE \E u \in Threads : pc[u] = "write" /\ text[u] = Snapshot BY <1>1, <1>4 DEF FileFollows
<1>5. CASE (\A u \in Threads : pc[u] # "write") /\ (unsaved \/ file = Snapshot)
  BY <1>1, <1>5 DEF FileFollows
<1> QED BY <1>0, <1>2, <1>3, <1>4, <1>5 DEF FileFollows

LEMMA StepFollows ==
    ASSUME IInv, SavingInv, FileFollows, [Next]_vars
    PROVE  FileFollows'
<1> USE DEF IInv, TInv, Parts, RegistryOK, PointsOK, ListsOK, FlagsOK, Go, registryVars, stores, locals
<1>0. CASE UNCHANGED vars BY <1>0 DEF vars, history, FileFollows, Owes, Snapshot, Live
<1>1. CASE ProcessEnds BY <1>1, BootIsThread DEF ProcessEnds, FileFollows
<1>2. ASSUME NEW t \in Threads, Steps(t) PROVE FileFollows'
  <2> USE <1>2 DEF Steps
  <2>0. UNCHANGED <<registry, obj>> => Snapshot' = Snapshot BY DEF Snapshot, Live
  <2>1. CASE Plain(t)
    <3>1. Owes(t) => Owes(t)' BY <2>1, PlainSteps DEF Owes
    <3> QED BY <2>0, <2>1, <3>1, PlainSteps, FileStillFollows
  <2>2. CASE Answers(t)
    <3>1. Owes(t) => Owes(t)'
      BY <2>2, AnswerSteps DEF Owes, SavingInv, ChangesAreNoted
    <3>2. pc'[t] # "write" BY <2>2, AnswerSteps DEF End
    <3> QED BY <2>0, <2>2, <3>1, <3>2, AnswerSteps, FileStillFollows
  <2>3. CASE Create(t)
    <3>1. /\ last + 1 \in Objects /\ UNCHANGED registry
          /\ \A m \in Objects : m # last + 1 => obj'[m] = obj[m]
      BY <2>3 DEF Create
    <3>2. \A m \in Live : m \in Objects /\ m <= last /\ m # last + 1
      BY MemoryFacts, UnsetApart DEF RInv, BirthsFixed, Objects
    <3>3. Live' = Live BY <3>1 DEF Live
    <3>4. Snapshot' = Snapshot BY <3>1, <3>2, <3>3 DEF Snapshot
    <3>5. /\ pc[t] = "create" /\ pc'[t] \in {"cancelSame", "identity"}
          /\ UNCHANGED <<op, dirty, file, unsaved>>
      BY <2>3 DEF Create
    <3>6. Owes(t) => Owes(t)' BY <3>5 DEF Owes
    <3> QED BY <3>4, <3>5, <3>6, FileStillFollows
  <2>4. CASE Replace(t)
    <3>1. op'[t] = "start" /\ pc'[t] = "put" BY <2>4 DEF Replace, RInv, ArmedByProfile
    <3> QED BY <3>1 DEF FileFollows, Owes
  <2>5. CASE Put(t)
    <3>1. op'[t] = op[t] /\ pc'[t] = (IF op[t] = "start" THEN "reconcile" ELSE "save")
      BY <2>5 DEF Put
    <3> QED BY <3>1 DEF FileFollows, Owes
  <2>6. CASE SetEnabled(t)
    <3>1. pc'[t] = "save" BY <2>6 DEF SetEnabled
    <3> QED BY <3>1 DEF FileFollows, Owes
  <2>7. CASE Cancel(t)
    <3>. PICK n \in todo[t] : /\ registry' = [registry EXCEPT ![obj[n].id] = 0]
                              /\ dirty' = [dirty EXCEPT ![t] = @ \/ registry[obj[n].id] # 0]
      BY <2>7 DEF Cancel
    <3>1. pc[t] \notin {"boot", "restore", "idle", "write"} /\ UNCHANGED <<obj, pc, op, file, unsaved>>
      BY <2>7 DEF Cancel
    <3>2. CASE registry[obj[n].id] # 0
      <4>1. dirty'[t] BY <3>2
      <4> QED BY <3>1, <4>1 DEF FileFollows, Owes
    <3>3. CASE registry[obj[n].id] = 0
      <4>1. registry' = registry BY <3>3
      <4>2. dirty'[t] = dirty[t] BY <3>3
      <4>3. Owes(t) => Owes(t)' BY <3>1, <4>2 DEF Owes
      <4> QED BY <2>0, <3>1, <4>1, <4>3, FileStillFollows
    <3> QED BY <3>2, <3>3
  <2>8. CASE Sync(t)
    <3>1. pc[t] = "heal" /\ UNCHANGED <<registry, pc, op, file, unsaved>> BY <2>8 DEF Sync
    <3>2. (UNCHANGED <<obj, dirty>>) \/ dirty'[t] BY <2>8 DEF Sync
    <3>3. CASE dirty'[t] BY <3>1, <3>3 DEF FileFollows, Owes
    <3>4. CASE UNCHANGED <<obj, dirty>>
      <4>1. Owes(t) => Owes(t)' BY <3>1, <3>4 DEF Owes
      <4> QED BY <2>0, <3>1, <3>4, <4>1, FileStillFollows
    <3> QED BY <3>2, <3>3, <3>4
  <2>9. CASE BeginSave(t)
    <3>1. pc'[t] = "write" /\ text'[t] = Snapshot /\ UNCHANGED <<registry, obj>> BY <2>9 DEF BeginSave
    <3> QED BY <2>0, <3>1 DEF FileFollows
  <2>10. \A u \in Threads \ {t} : /\ pc'[u] = pc[u] /\ text'[u] = text[u] /\ (Owes(u) => Owes(u)')
    BY OthersKeepLocals, OthersKeepTexts DEF Owes
  <2>11. CASE WriteFile(t) \/ WriteFails(t)
    <3>1. /\ pc[t] = "write" /\ pc'[t] = "idle" /\ UNCHANGED <<registry, obj>>
          /\ unsaved' \/ file' = text[t]
      BY <2>11 DEF WriteFile, WriteFails, End
    <3>2. \A u \in Threads : pc'[u] # "write" BY <2>10, <3>1 DEF SavingInv, OneWriter
    <3>3. CASE pc[Boot] \in {"boot", "restore"} BY <2>10, <3>1, <3>3, BootIsThread DEF FileFollows
    <3>4. CASE \E u \in Threads : Owes(u)
      <4>. PICK u \in Threads : Owes(u) BY <3>4
      <4>1. u # t BY <3>1 DEF Owes
      <4> QED BY <2>10, <4>1 DEF FileFollows
    <3>5. CASE \E u \in Threads : pc[u] = "write" /\ text[u] = Snapshot
      <4>1. text[t] = Snapshot BY <3>1, <3>5 DEF SavingInv, OneWriter
      <4> QED BY <2>0, <3>1, <3>2, <4>1 DEF FileFollows
    <3>6. partial => partial' BY <2>11, <3>1, HistorySteps DEF BeginSave
    <3> QED BY <3>1, <3>3, <3>4, <3>5, <3>6 DEF FileFollows
  <2>12. CASE t = Boot /\ (ReadFile \/ RestoreOne)
    <3>1. pc'[Boot] = "restore" BY <2>12, BootIsThread DEF ReadFile, RestoreOne
    <3> QED BY <3>1 DEF FileFollows
  <2>13. CASE t = Boot /\ HealDuplicates
    <3>1. /\ text[Boot] = {} /\ pc[Boot] = "restore" /\ pc'[Boot] = "cancelDup"
          /\ UNCHANGED <<registry, obj, file>>
      BY <2>13, BootIsThread DEF HealDuplicates
    <3>2. partial' = partial BY <2>13, <3>1, HistorySteps DEF BeginSave
    <3>3. Owes(t) => Owes(t)' BY <2>13, <3>1 DEF HealDuplicates, Owes
    <3>4. CASE partial BY <3>2, <3>4 DEF FileFollows
    <3>5. CASE \E u \in Threads : Owes(u) BY <2>10, <3>3, <3>5 DEF FileFollows
    <3>6. CASE RestoredSoFar /\ \A u \in Threads : pc[u] # "write"
      <4>1. file = Snapshot BY <3>1, <3>6, RestoredIsFile
      <4>2. \A u \in Threads : pc'[u] # "write" BY <2>10, <2>13, <3>1, <3>6
      <4> QED BY <2>0, <3>1, <4>1, <4>2 DEF FileFollows
    <3> QED BY <3>1, <3>4, <3>5, <3>6 DEF SavingInv, UntilFirstSave
  <2> QED BY <2>1, <2>2, <2>3, <2>4, <2>5, <2>6, <2>7, <2>8, <2>9, <2>11, <2>12, <2>13, StepKinds
<1> QED BY <1>0, <1>1, <1>2, NextThreads

\* Before any request all of this holds, and the restore is to begin.
LEMMA InitSaving == Init => SavingInv /\ FileFollows
<1> SUFFICES ASSUME Init PROVE SavingInv /\ FileFollows OBVIOUS
<1>1. OneWriter /\ TextsInUse /\ ChangesAreNoted /\ UntilFirstSave /\ FileFollows
  BY BootIsThread DEF Init, OneWriter, TextsInUse, ChangesAreNoted, UntilFirstSave, RestoredSoFar, FileFollows
<1>2. RecordsDistinct
  BY AutomationsAssumption DEF AutomationsAssumption, Init, RecordsDistinct, Distinct
<1> QED BY <1>1, <1>2 DEF SavingInv

THEOREM SavingInvariant == Spec => [](IInv /\ SavingInv /\ FileFollows)
<1>1. Init => IInv /\ SavingInv /\ FileFollows
  BY InitTInv, InitRInv, InitSaving DEF IInv
<1>2. IInv /\ SavingInv /\ FileFollows /\ [Next]_vars => (IInv /\ SavingInv /\ FileFollows)'
  BY NextKeepsTInv, StepBirths, StepKeyed, StepArmed, StepOlder, StepWriter, StepTexts,
     StepNoted, StepDistinct, StepUntilFirstSave, StepFollows DEF IInv, RInv, SavingInv
<1> QED BY <1>1, <1>2, PTL DEF Spec

\* What automations.json holds once all requests are done is the registry, so that a
\* crash then loses and brings back nothing; unless the last save failed, or was begun
\* before the restore had put every record back.
THEOREM FileIsRegistryHolds == Spec => []FileIsRegistry
<1>1. FileFollows => FileIsRegistry
  BY BootIsThread DEF FileFollows, FileIsRegistry, Quiet, Owes
<1> QED BY <1>1, SavingInvariant, PTL

-----------------------------------------------------------------------------
(***************************************************************************)
(* What is stopped is gone.                                                *)
(***************************************************************************)

\* The thread has made a schedule it has not registered yet.
NotPut(t) == pc[t] \in {"cancelSame", "cancelOthers", "put", "identity", "cancelArm"}

\* Its stop has been carried out in memory.
StopDone(t) == op[t] = "stop" /\ (pc[t] \in {"save", "write"} \/ (pc[t] = "cancel" /\ todo[t] = {}))

StopPlaces ==
    \A t \in Threads : op[t] = "stop" =>
        /\ pc[t] \in {"cancel", "save", "write"}
        /\ pc[t] = "cancel" => todo[t] \subseteq {mine[t]}

StoppedGone ==
    /\ \A n \in stopped : n <= last /\ n \notin Live
    /\ \A t \in Threads : StopDone(t) /\ mine[t] \notin early => mine[t] \notin Live

\* No text on its way to or from the file brings a stopped schedule back.
StoppedUnwritten ==
    /\ \A n \in stopped : /\ \A s \in file : s.created # n
                          /\ \A t \in Threads : \A s \in text[t] : s.created # n
    /\ \A t \in Threads : op[t] = "stop" /\ pc[t] = "write" /\ mine[t] \notin early =>
           \A s \in text[t] : s.created # mine[t]

\* Nobody knows of a schedule before it is registered, and no record of it is kept.
NewUnknown ==
    \A t \in Threads : NotPut(t) =>
        /\ mine[t] \notin Live /\ mine[t] \notin stopped
        /\ \A u \in Threads \ {t} : NotPut(u) \/ op[u] = "stop" => mine[u] # mine[t]
        /\ \A s \in file : s.created # mine[t]
        /\ \A u \in Threads : \A s \in text[u] : s.created # mine[t]

\* Until the restore has read the file there are early schedules only, and of what it
\* is still to put back only these are registered or known to a request.
EarlyKnown ==
    /\ pc[Boot] = "boot" => Live \subseteq early /\ \A t \in Threads : mine[t] \in early \cup {0}
    /\ pc[Boot] = "restore" => \A s \in text[Boot] :
           /\ s.created \in Live => s.created \in early
           /\ \A t \in Threads : mine[t] = s.created => s.created \in early

StopInv == StopPlaces /\ StoppedGone /\ StoppedUnwritten /\ NewUnknown /\ EarlyKnown

\* A thread comes to a stop, or to a new schedule, in one way only.
LEMMA StopSteps ==
    ASSUME TInv, StopPlaces, NEW t \in Threads, ThreadStep(t), ~BeginStop(t)
    PROVE  /\ op'[t] = "stop" => /\ op[t] = "stop" /\ mine'[t] = mine[t]
                                 /\ Cancel(t) \/ (pc[t] = "cancel" /\ todo[t] = {} /\ pc'[t] = "save")
                                    \/ (pc[t] = "save" /\ BeginSave(t))
           /\ ~Create(t) /\ NotPut(t)' => NotPut(t) /\ mine'[t] = mine[t]
<1> USE DEF TInv, Parts, PointsOK, Go, Begin, NotPut, StopPlaces
<1>1. CASE BeginStart(t) \/ BeginSaveConfig(t) \/ EndRun(t) \/ BeginSetEnabled(t)
  BY <1>1 DEF BeginStart, BeginSaveConfig, EndRun, BeginSetEnabled
<1>2. CASE BeginToggleOn(t) \/ BeginSaveProfile(t) \/ BeginToggleOff(t)
  BY <1>2 DEF BeginToggleOn, BeginSaveProfile, BeginToggleOff
<1>3. CASE SaveConfig(t) \/ FindOthers(t) \/ Reconcile(t) \/ LoadConfig(t)
  BY <1>3 DEF SaveConfig, FindOthers, Reconcile, LoadConfig, locals
<1>4. CASE FindMatches(t) \/ FindSameIdentity(t) \/ MatchesCancelled(t) \/ DeleteProfile(t)
  BY <1>4 DEF FindMatches, FindSameIdentity, MatchesCancelled, DeleteProfile, locals
<1>5. CASE (t = Boot /\ DuplicatesHealed) \/ (t = Main /\ BeginShutdown)
  BY <1>5 DEF DuplicatesHealed, BeginShutdown, locals
<1>6. CASE Answers(t)
  <2>1. CASE End(t) BY <2>1 DEF End
  <2>2. CASE Cancelled(t) /\ ~End(t) BY <2>2 DEF Cancelled, locals
  <2>3. CASE ~Cancelled(t)
    <3>1. op[t] # "stop"
      BY <1>6, <2>3 DEF Answers, Healed, StoreProfile, RereadProfile
    <3>2. op'[t] # "stop" /\ ~NotPut(t)' BY <1>6, <3>1, AnswerSteps DEF End
    <3> QED BY <3>2
  <2> QED BY <2>1, <2>2, <2>3
<1>7. CASE Create(t) \/ Replace(t) \/ Put(t) \/ SetEnabled(t)
  BY <1>7 DEF Create, Replace, Put, SetEnabled, locals
<1>8. CASE Cancel(t) \/ Sync(t) BY <1>8 DEF Cancel, Sync
<1>9. CASE BeginSave(t) \/ WriteFile(t) \/ WriteFails(t)
  BY <1>9 DEF BeginSave, WriteFile, WriteFails, End
<1>10. CASE t = Boot /\ (ReadFile \/ RestoreOne \/ HealDuplicates)
  BY <1>10 DEF ReadFile, RestoreOne, HealDuplicates
<1> QED BY <1>1, <1>2, <1>3, <1>4, <1>5, <1>6, <1>7, <1>8, <1>9, <1>10, StepKinds DEF Plain

\* What may be registered by a step.
LEMMA LiveSteps ==
    ASSUME TInv, NEW t \in Threads, ThreadStep(t)
    PROVE  \/ Live' \subseteq Live
           \/ Put(t) /\ Live' \subseteq Live \cup {mine[t]}
           \/ t = Boot /\ RestoreOne /\ \E s \in text[Boot] : Live' \subseteq Live \cup {s.created}
<1> USE DEF TInv, Parts, RegistryOK
<1>0. registry' = registry => Live' \subseteq Live BY DEF Live
<1>1. CASE Plain(t) BY <1>0, <1>1, PlainSteps
<1>2. CASE Answers(t) BY <1>0, <1>2, AnswerSteps
<1>3. CASE Create(t) \/ SetEnabled(t) \/ Sync(t) \/ BeginSave(t) \/ WriteFile(t) \/ WriteFails(t)
  BY <1>0, <1>3 DEF Create, SetEnabled, Sync, BeginSave, WriteFile, WriteFails, registryVars
<1>4. CASE Replace(t) \/ Cancel(t)
  <2>1. \A id \in Objects : registry'[id] \in {0, registry[id]} BY <1>4 DEF Replace, Cancel
  <2> QED BY <2>1, ZeroIsNoObject DEF Live
<1>5. CASE Put(t)
  <2>1. \A id \in Objects : registry'[id] \in {mine[t], registry[id]} BY <1>5 DEF Put
  <2> QED BY <1>5, <2>1 DEF Live
<1>6. CASE t = Boot /\ RestoreOne
  <2>. PICK s \in text[Boot] : registry' = [registry EXCEPT ![s.id] = s.created]
    BY <1>6 DEF RestoreOne
  <2>1. \A id \in Objects : registry'[id] \in {s.created, registry[id]} OBVIOUS
  <2> QED BY <1>6, <2>1 DEF Live
<1>7. CASE t = Boot /\ (ReadFile \/ HealDuplicates)
  BY <1>0, <1>7 DEF ReadFile, HealDuplicates, registryVars
<1> QED BY <1>1, <1>2, <1>3, <1>4, <1>5, <1>6, <1>7, StepKinds

\* When a stop is confirmed.
LEMMA StoppedSteps ==
    ASSUME TInv, NEW t \in Threads, ThreadStep(t)
    PROVE  /\ last' \in Nat /\ last <= last'
           /\ \/ stopped' = stopped
              \/ WriteFile(t) /\ op[t] = "stop" /\ stopped' = stopped \cup ({mine[t]} \ early)
<1> USE DEF TInv, Parts, RegistryOK, Objects
<1>1. CASE Plain(t)
  <2>1. UNCHANGED last
    BY <1>1 DEF Plain, BeginStart, SaveConfig, FindOthers, Reconcile, LoadConfig, BeginSaveConfig,
       BeginStop, BeginSetEnabled, EndRun, BeginToggleOn, BeginToggleOff, BeginSaveProfile,
       FindMatches, FindSameIdentity, MatchesCancelled, DeleteProfile, DuplicatesHealed,
       BeginShutdown, registryVars
  <2> QED BY <1>1, <2>1, PlainSteps
<1>2. CASE Answers(t) BY <1>2, AnswerSteps
<1>3. CASE Create(t) \/ SetEnabled(t) \/ Sync(t) \/ Replace(t) \/ Cancel(t) \/ Put(t)
  BY <1>3 DEF Create, SetEnabled, Sync, Replace, Cancel, Put, registryVars, stores
<1>4. CASE BeginSave(t) \/ WriteFile(t) \/ WriteFails(t)
  BY <1>4 DEF BeginSave, WriteFile, WriteFails, registryVars, stores
<1>5. CASE t = Boot /\ (ReadFile \/ RestoreOne \/ HealDuplicates)
  BY <1>5 DEF ReadFile, RestoreOne, HealDuplicates, registryVars, stores
<1> QED BY <1>1, <1>2, <1>3, <1>4, <1>5, StepKinds

\* A schedule a request knows of was made before.
LEMMA KnownAreOld ==
    ASSUME IInv
    PROVE  /\ \A n \in Live : n <= last
           /\ \A t \in Threads : mine[t] \in Nat /\ mine[t] <= last
<1> USE DEF IInv, TInv, Parts, RegistryOK, PointsOK
<1>1. \A n \in Objects : obj[n] # Unset => n <= last
  BY MemoryFacts, UnsetApart DEF RInv, BirthsFixed, Objects
<1>2. \A t \in Threads : mine[t] # 0 => mine[t] \in Objects /\ obj[mine[t]] # Unset
  BY UnsetApart DEF InMemory
<1>3. last \in Nat BY DEF Objects
<1> QED BY <1>1, <1>2, <1>3, MemoryFacts, UnsetApart DEF Objects

LEMMA StepStopPlaces ==
    ASSUME TInv, StopPlaces, [Next]_vars
    PROVE  StopPlaces'
<1> USE DEF TInv, Parts, PointsOK, ListsOK
<1>1. CASE UNCHANGED vars BY <1>1 DEF vars, locals, StopPlaces
<1>2. CASE ProcessEnds BY <1>2 DEF ProcessEnds, StopPlaces
<1>3. ASSUME NEW t \in Threads, ThreadStep(t) PROVE StopPlaces'
  <2>1. ASSUME op'[t] = "stop"
        PROVE  /\ pc'[t] \in {"cancel", "save", "write"}
               /\ pc'[t] = "cancel" => todo'[t] \subseteq {mine'[t]}
    <3>1. CASE BeginStop(t) BY <2>1, <3>1 DEF BeginStop, Begin, Go
    <3>2. CASE Cancel(t) /\ ~BeginStop(t) BY <1>3, <2>1, <3>2, StopSteps DEF StopPlaces, Cancel
    <3>3. CASE ~Cancel(t) /\ ~BeginStop(t) BY <1>3, <2>1, <3>3, StopSteps DEF BeginSave, Go
    <3> QED BY <3>1, <3>2, <3>3
  <2> QED BY <1>3, <2>1, OthersKeepLocals DEF StopPlaces
<1> QED BY <1>1, <1>2, <1>3, NextThreads DEF Steps

\* What a request may hold on to.
LEMMA MineSteps ==
    ASSUME TInv, NEW t \in Threads, ThreadStep(t)
    PROVE  mine'[t] \in {0, mine[t]} \cup Live \/ (Create(t) /\ mine'[t] = last + 1)
<1> USE DEF TInv, Parts, PointsOK, Go, Begin, registryVars, stores, locals
<1>1. CASE BeginStart(t) \/ SaveConfig(t) \/ FindOthers(t) \/ Reconcile(t) \/ LoadConfig(t)
           \/ BeginSaveConfig(t) \/ EndRun(t) \/ BeginToggleOn(t) \/ BeginToggleOff(t)
  BY <1>1 DEF BeginStart, SaveConfig, FindOthers, Reconcile, LoadConfig, BeginSaveConfig, EndRun,
     BeginToggleOn, BeginToggleOff
<1>2. CASE BeginSaveProfile(t) \/ FindMatches(t) \/ FindSameIdentity(t) \/ MatchesCancelled(t)
           \/ DeleteProfile(t) \/ (t = Boot /\ DuplicatesHealed) \/ (t = Main /\ BeginShutdown)
  BY <1>2 DEF BeginSaveProfile, FindMatches, FindSameIdentity, MatchesCancelled, DeleteProfile,
     DuplicatesHealed, BeginShutdown
<1>3. CASE BeginStop(t) \/ BeginSetEnabled(t) BY <1>3, ListFacts DEF BeginStop, BeginSetEnabled
<1>4. CASE Answers(t) BY <1>4, AnswerSteps DEF End
<1>5. CASE Create(t) BY <1>5 DEF Create, RegistryOK
<1>6. CASE Replace(t) \/ Put(t) \/ SetEnabled(t) BY <1>6 DEF Replace, Put, SetEnabled
<1>7. CASE Cancel(t) \/ Sync(t) BY <1>7 DEF Cancel, Sync
<1>8. CASE BeginSave(t) \/ WriteFile(t) \/ WriteFails(t) BY <1>8 DEF BeginSave, WriteFile, WriteFails, End
<1>9. CASE t = Boot /\ (ReadFile \/ RestoreOne \/ HealDuplicates)
  BY <1>9 DEF ReadFile, RestoreOne, HealDuplicates
<1> QED BY <1>1, <1>2, <1>3, <1>4, <1>5, <1>6, <1>7, <1>8, <1>9, StepKinds DEF Plain

LEMMA StepEarlyKnown ==
    ASSUME IInv, SavingInv, EarlyKnown, [Next]_vars
    PROVE  EarlyKnown'
<1> USE BootIsThread, ZeroIsNoObject DEF IInv, TInv, Parts, RegistryOK, PointsOK, ListsOK
<1>1. CASE UNCHANGED vars
  BY <1>1 DEF vars, registryVars, history, locals, EarlyKnown, Live
<1>2. CASE ProcessEnds
  <2>1. Live' = {} BY <1>2 DEF ProcessEnds, Live
  <2> QED BY <1>2, <2>1 DEF ProcessEnds, EarlyKnown
<1>3. ASSUME NEW t \in Threads, Steps(t) PROVE EarlyKnown'
  <2> USE <1>3 DEF Steps
  <2>0. \A u \in Threads \ {t} : pc'[u] = pc[u] /\ mine'[u] = mine[u] /\ text'[u] = text[u]
    BY OthersKeepLocals, OthersKeepTexts
  <2>1. early \subseteq early' BY HistorySteps
  <2>2. \/ Live' \subseteq Live
        \/ Live' \subseteq Live \cup {mine[t]}
        \/ t = Boot /\ RestoreOne
    BY LiveSteps
  <2>3. ASSUME pc'[Boot] = "boot" PROVE Live' \subseteq early' /\ \A u \in Threads : mine'[u] \in early' \cup {0}
    <3>1. t # Boot /\ pc[Boot] = "boot"
      <4>1. CASE Plain(t) BY <2>0, <2>3, <4>1, PlainSteps
      <4>2. CASE Answers(t) BY <2>0, <2>3, <4>2, AnswerSteps DEF End
      <4>3. CASE ~Plain(t) /\ ~Answers(t) BY <2>0, <2>3, <4>3, OtherSteps
      <4> QED BY <4>1, <4>2, <4>3
    <3>2. Live \subseteq early /\ \A u \in Threads : mine[u] \in early \cup {0} BY <3>1 DEF EarlyKnown
    <3>3. 0 \notin Live' BY DEF Live
    <3>4. Live' \subseteq early' BY <2>1, <2>2, <3>1, <3>2, <3>3
    <3>5. Create(t) => last + 1 \in early' BY <3>1 DEF Create
    <3>6. mine'[t] \in early' \cup {0} BY <2>1, <3>2, <3>5, MineSteps
    <3> QED BY <2>0, <2>1, <3>2, <3>4, <3>6
  <2>4. ASSUME pc'[Boot] = "restore", NEW s \in text'[Boot]
        PROVE  /\ s.created \in Live' => s.created \in early'
               /\ \A u \in Threads : mine'[u] = s.created => s.created \in early'
    <3>1. CASE t = Boot /\ ReadFile
      <4>1. pc[Boot] = "boot" /\ UNCHANGED <<registry, mine>> /\ text'[Boot] = file
        BY <3>1 DEF ReadFile, Go, registryVars
      <4>2. Live' = Live BY <4>1 DEF Live
      <4>3. s.created # 0 BY <4>1, MemoryFacts, ScheduleFields
      <4> QED BY <2>1, <4>1, <4>2, <4>3 DEF EarlyKnown
    <3>2. CASE t = Boot /\ RestoreOne
      <4>. PICK r \in text[Boot] : /\ registry' = [registry EXCEPT ![r.id] = r.created]
                                   /\ text' = [text EXCEPT ![Boot] = @ \ {r}]
        BY <3>2 DEF RestoreOne
      <4>1. s \in text[Boot] /\ s # r OBVIOUS
      <4>2. s.created # r.created BY <4>1 DEF SavingInv, RecordsDistinct, Distinct
      <4>3. Live' \subseteq Live \cup {r.created} BY DEF Live
      <4>4. pc[Boot] = "restore" /\ UNCHANGED mine BY <3>2 DEF RestoreOne
      <4> QED BY <2>1, <4>1, <4>2, <4>3, <4>4 DEF EarlyKnown
    <3>3. CASE t # Boot
      <4>1. pc[Boot] = "restore" /\ s \in text[Boot] BY <2>0, <2>4, <3>3
      <4>2. /\ s.created \in Live => s.created \in early
            /\ \A u \in Threads : mine[u] = s.created => s.created \in early
        BY <4>1 DEF EarlyKnown
      <4>3. s.created \in Objects /\ s.created <= last BY <4>1, MemoryFacts, ScheduleFields DEF RInv, BirthsFixed
      <4>4. s.created # 0 /\ s.created # last + 1 BY <4>3 DEF Objects
      <4>5. mine'[t] = s.created => s.created \in early BY <4>2, <4>4, MineSteps
      <4> QED BY <2>0, <2>1, <2>2, <3>3, <4>2, <4>5
    <3>4. CASE t = Boot /\ ~ReadFile /\ ~RestoreOne
      <4>1. CASE Plain(t) BY <2>4, <3>4, <4>1, PlainSteps
      <4>2. CASE Answers(t) BY <2>4, <3>4, <4>2, AnswerSteps DEF End
      <4>3. CASE ~Plain(t) /\ ~Answers(t) BY <2>4, <3>4, <4>3, OtherSteps
      <4> QED BY <4>1, <4>2, <4>3
    <3> QED BY <3>1, <3>2, <3>3, <3>4
  <2> QED BY <2>3, <2>4 DEF EarlyKnown
<1> QED BY <1>1, <1>2, <1>3, NextThreads

\* What a save reads from the registry was made when it was registered.
LEMMA SnapshotIsLive ==
    ASSUME IInv, NEW s \in Snapshot
    PROVE  s.created \in Live
<1>. PICK n \in Live : s = obj[n] BY DEF Snapshot
<1>1. n \in Objects /\ obj[n] # Unset BY MemoryFacts, UnsetApart DEF IInv
<1> QED BY <1>1 DEF IInv, RInv, BirthsFixed

\* Where the file and the texts come from.
LEMMA FileSteps ==
    ASSUME TInv, NEW t \in Threads, ThreadStep(t)
    PROVE  /\ file' = file \/ (WriteFile(t) /\ file' = text[t])
           /\ \/ text'[t] \subseteq text[t]
              \/ BeginSave(t) /\ text'[t] = Snapshot
              \/ t = Boot /\ ReadFile /\ text'[t] = file
<1> USE DEF TInv, Parts, ListsOK
<1>1. CASE Plain(t) BY <1>1, PlainSteps
<1>2. CASE Answers(t) BY <1>2, AnswerSteps DEF End
<1>3. CASE Create(t) \/ Replace(t) \/ Put(t) \/ SetEnabled(t) \/ Cancel(t) \/ Sync(t)
  BY <1>3 DEF Create, Replace, Put, SetEnabled, Cancel, Sync, locals, stores
<1>4. CASE BeginSave(t) BY <1>4 DEF BeginSave, stores
<1>5. CASE WriteFile(t) \/ WriteFails(t) BY <1>5 DEF WriteFile, WriteFails, End
<1>6. CASE t = Boot /\ (ReadFile \/ RestoreOne \/ HealDuplicates)
  BY <1>6 DEF ReadFile, RestoreOne, HealDuplicates, stores
<1> QED BY <1>1, <1>2, <1>3, <1>4, <1>5, <1>6, StepKinds

LEMMA StepNewUnknown ==
    ASSUME IInv, SavingInv, StopInv, [Next]_vars
    PROVE  NewUnknown'
<1> USE DEF IInv, TInv, Parts, RegistryOK, StoresOK, PointsOK, ListsOK
<1>1. CASE UNCHANGED vars
  BY <1>1 DEF vars, registryVars, stores, locals, StopInv, NewUnknown, NotPut, Live
<1>2. CASE ProcessEnds BY <1>2 DEF ProcessEnds, NewUnknown, NotPut
<1>3. ASSUME NEW t \in Threads, Steps(t) PROVE NewUnknown'
  <2> USE <1>3, KnownAreOld DEF Steps
  <2>0. \A u \in Threads \ {t} : pc'[u] = pc[u] /\ op'[u] = op[u] /\ mine'[u] = mine[u]
    BY OthersKeepLocals
  <2>1. CASE Create(t)
    <3>1. /\ mine'[t] = last + 1 /\ op' = op /\ UNCHANGED <<registry, stopped>>
      BY <2>1 DEF Create, Go, stores
    <3>2. Live' = Live BY <3>1 DEF Live
    <3>3. last \in Nat BY DEF Objects
    <3>4. mine'[t] \notin Live /\ mine'[t] \notin stopped /\ \A u \in Threads : mine[u] # mine'[t]
      BY <3>1, <3>3 DEF StopInv, StoppedGone
    <3>5. op'[t] = "stop" => FALSE BY <2>1, <3>1 DEF StopInv, StopPlaces, Create, Go
    <3>6. \A r \in Records : r.created \in Nat /\ r.created <= last
      BY MemoryFacts, ScheduleFields DEF RInv, BirthsFixed, Objects
    <3>7. \A r \in Records : r.created # mine'[t] BY <3>1, <3>3, <3>6
    <3>8. UNCHANGED <<file, text>> BY <2>1 DEF Create, stores
    <3>9. /\ \A s \in file : s.created # mine'[t]
          /\ \A u \in Threads : \A s \in text[u] : s.created # mine'[t]
      BY <3>7, MemoryFacts
    <3> QED BY <2>0, <3>1, <3>2, <3>4, <3>5, <3>8, <3>9 DEF StopInv, NewUnknown, NotPut
  <2>2. CASE BeginStop(t)
    <3>1. UNCHANGED <<registry, stopped>> /\ pc'[t] = "cancel" /\ (op'[t] = "stop" => mine'[t] \in Live)
      BY <2>2 DEF BeginStop, Begin, Go, registryVars, stores
    <3>2. Live' = Live BY <3>1 DEF Live
    <3>3. UNCHANGED <<file, text>> BY <2>2 DEF BeginStop, stores
    <3> QED BY <2>0, <3>1, <3>2, <3>3 DEF StopInv, NewUnknown, NotPut
  <2>3. CASE ~Create(t) /\ ~BeginStop(t)
    <3>1. /\ op'[t] = "stop" => op[t] = "stop" /\ mine'[t] = mine[t]
          /\ NotPut(t)' => NotPut(t) /\ mine'[t] = mine[t]
      BY <2>3, StopSteps DEF StopInv
    <3>2. ASSUME NEW u \in Threads, NotPut(u)' PROVE NotPut(u) /\ mine'[u] = mine[u]
      BY <2>0, <3>1, <3>2 DEF NotPut
    <3>3. ASSUME NEW u \in Threads, NotPut(u)', NEW v \in Threads \ {u}, NotPut(v)' \/ op'[v] = "stop"
          PROVE  mine'[v] # mine'[u]
      <4>1. NotPut(v) \/ op[v] = "stop" BY <2>0, <3>1, <3>2, <3>3
      <4>2. mine'[v] = mine[v] BY <2>0, <3>1, <3>2, <3>3
      <4> QED BY <3>2, <3>3, <4>1, <4>2 DEF StopInv, NewUnknown
    <3>4. ASSUME NEW u \in Threads, NotPut(u)' PROVE mine[u] \notin Live'
      <4>1. NotPut(u) /\ mine[u] \notin Live BY <3>2, <3>4 DEF StopInv, NewUnknown
      <4>2. CASE Put(t)
        <5>1. NotPut(t) /\ pc'[t] \in {"save", "reconcile"} BY <2>3, <4>2 DEF Put, Go, NotPut
        <5>2. u # t BY <3>4, <5>1 DEF NotPut
        <5>3. mine[t] # mine[u] BY <4>1, <5>1, <5>2 DEF StopInv, NewUnknown
        <5>4. ~RestoreOne BY <4>2 DEF Put, RestoreOne, Go
        <5> QED BY <4>1, <5>3, <5>4, LiveSteps
      <4>3. CASE t = Boot /\ RestoreOne
        <5>1. \A s \in text[Boot] : s.created # mine[u] BY <4>1, BootIsThread DEF StopInv, NewUnknown
        <5>2. ~Put(t) BY <4>3 DEF Put, RestoreOne, Go
        <5> QED BY <4>1, <5>1, <5>2, LiveSteps
      <4> QED BY <4>1, <4>2, <4>3, LiveSteps
    <3>5. ASSUME NEW u \in Threads, NotPut(u)' PROVE mine[u] \notin stopped'
      <4>1. NotPut(u) /\ mine[u] \notin stopped BY <3>2, <3>5 DEF StopInv, NewUnknown
      <4>2. CASE op[t] = "stop"
        <5>1. u # t BY <4>1, <4>2 DEF StopInv, StopPlaces, NotPut
        <5>2. mine[t] # mine[u] BY <4>1, <4>2, <5>1 DEF StopInv, NewUnknown
        <5> QED BY <4>1, <5>2, StoppedSteps
      <4> QED BY <4>1, <4>2, StoppedSteps
    <3>6. ASSUME NEW u \in Threads, NotPut(u)'
          PROVE  /\ \A s \in file' : s.created # mine[u]
                 /\ \A v \in Threads : \A s \in text'[v] : s.created # mine[u]
      <4>1. /\ mine[u] \notin Live
            /\ \A s \in file : s.created # mine[u]
            /\ \A v \in Threads : \A s \in text[v] : s.created # mine[u]
        BY <3>2, <3>6 DEF StopInv, NewUnknown
      <4>2. \A s \in Snapshot : s.created # mine[u] BY <4>1, SnapshotIsLive
      <4>3. \A v \in Threads \ {t} : text'[v] = text[v] BY OthersKeepTexts
      <4> QED BY <4>1, <4>2, <4>3, FileSteps
    <3> QED BY <3>2, <3>3, <3>4, <3>5, <3>6 DEF NewUnknown
  <2> QED BY <2>1, <2>2, <2>3
<1> QED BY <1>1, <1>2, <1>3, NextThreads

LEMMA StepStoppedGone ==
    ASSUME IInv, SavingInv, StopInv, [Next]_vars
    PROVE  StoppedGone'
<1> USE DEF IInv, TInv, Parts, RegistryOK, StoresOK, PointsOK, ListsOK
<1>1. CASE UNCHANGED vars
  BY <1>1 DEF vars, registryVars, stores, history, locals, StopInv, StoppedGone, StopDone, Live
<1>2. CASE ProcessEnds
  <2>1. Live' = {} BY <1>2 DEF ProcessEnds, Live, Objects
  <2> QED BY <1>2, <2>1 DEF ProcessEnds, StopInv, StoppedGone
<1>3. ASSUME NEW t \in Threads, Steps(t) PROVE StoppedGone'
  <2> USE <1>3, KnownAreOld DEF Steps
  <2>0. \A u \in Threads \ {t} : /\ pc'[u] = pc[u] /\ op'[u] = op[u] /\ mine'[u] = mine[u]
                                 /\ todo'[u] = todo[u] /\ (StopDone(u)' => StopDone(u))
    BY OthersKeepLocals DEF StopDone
  <2>00. early \subseteq early' BY HistorySteps
  <2>1. ASSUME NEW n, \A u \in Threads : NotPut(u) => mine[u] # n, n \notin Live,
               \A s \in text[Boot] : s.created # n
        PROVE  n \notin Live'
    <3>1. Put(t) => NotPut(t) BY DEF Put, Go, NotPut
    <3> QED BY <2>1, <3>1, LiveSteps
  <2>2. ASSUME NEW n \in stopped' PROVE n <= last' /\ n \notin Live'
    <3>1. n <= last' /\ last \in Nat /\ n \in Nat
      <4>0. n \in stopped \/ n = mine[t] BY <2>2, StoppedSteps
      <4>1. last \in Nat BY DEF Objects
      <4>2. n \in Objects \cup {0} BY <4>0
      <4>3. n \in Nat BY <4>2 DEF Objects
      <4>4. n <= last BY <4>0 DEF StopInv, StoppedGone
      <4>5. last' \in Nat /\ last <= last' BY StoppedSteps
      <4> QED BY <4>1, <4>3, <4>4, <4>5
    <3>2. CASE n \in stopped
      BY <2>1, <3>1, <3>2, BootIsThread DEF StopInv, StoppedGone, StoppedUnwritten, NewUnknown
    <3>3. CASE n \notin stopped
      <4>1. WriteFile(t) /\ op[t] = "stop" /\ n = mine[t] /\ n \notin early BY <2>2, <3>3, StoppedSteps
      <4>2. Live' = Live /\ pc[t] = "write" BY <4>1 DEF WriteFile, registryVars, Live
      <4>3. StopDone(t) BY <4>1, <4>2 DEF StopDone
      <4> QED BY <3>1, <4>1, <4>2, <4>3 DEF StopInv, StoppedGone
    <3> QED BY <3>1, <3>2, <3>3
  <2>3. ASSUME NEW u \in Threads \ {t}, StopDone(u)', mine'[u] \notin early' PROVE mine'[u] \notin Live'
    <3>1. StopDone(u) /\ mine'[u] = mine[u] /\ mine[u] \notin Live /\ mine[u] \notin early
      BY <2>0, <2>00, <2>3 DEF StopInv, StoppedGone
    <3>2. \A v \in Threads : NotPut(v) => mine[v] # mine[u]
      BY <3>1 DEF StopInv, NewUnknown, StopDone, StopPlaces, NotPut
    <3>3. CASE pc[Boot] = "restore"
      <4>1. \A s \in text[Boot] : s.created # mine[u] BY <3>1, <3>3 DEF StopInv, EarlyKnown
      <4>2. Put(t) => NotPut(t) BY DEF Put, Go, NotPut
      <4> QED BY <3>1, <3>2, <4>1, <4>2, LiveSteps
    <3>4. CASE pc[Boot] # "restore"
      <4>1. ~RestoreOne BY <3>4 DEF RestoreOne
      <4>2. Put(t) => NotPut(t) BY DEF Put, Go, NotPut
      <4> QED BY <3>1, <3>2, <4>1, <4>2, LiveSteps
    <3> QED BY <3>3, <3>4
  <2>4. ASSUME StopDone(t)', mine'[t] \notin early' PROVE mine'[t] \notin Live'
    <3>1. ~BeginStop(t)
      <4>1. CASE BeginStop(t)
        <5>1. pc'[t] = "cancel" BY <4>1 DEF BeginStop, Begin, Go
        <5>2. op'[t] = "stop" => \E n \in Live : todo'[t] = {n} BY <4>1 DEF BeginStop, Begin, Go
        <5> QED BY <2>4, <5>1, <5>2 DEF StopDone
      <4> QED BY <4>1
    <3>2. /\ op[t] = "stop" /\ mine'[t] = mine[t]
          /\ Cancel(t) \/ (pc[t] = "cancel" /\ todo[t] = {} /\ pc'[t] = "save")
             \/ (pc[t] = "save" /\ BeginSave(t))
      BY <2>4, <3>1, StopSteps DEF StopInv, StopDone
    <3>3. CASE Cancel(t)
      <4>. PICK n \in todo[t] : registry' = [registry EXCEPT ![obj[n].id] = 0]
        BY <3>3 DEF Cancel
      <4>1. pc[t] = "cancel" BY <3>2, <3>3 DEF StopInv, StopPlaces, Cancel
      <4>2. n = mine[t] BY <3>2, <4>1 DEF StopInv, StopPlaces
      <4>3. n \notin Live' BY ZeroIsNoObject DEF Live, RInv, Keyed
      <4> QED BY <3>2, <4>2, <4>3
    <3>4. CASE ~Cancel(t)
      <4>1. StopDone(t) BY <3>2, <3>4 DEF StopDone
      <4>2. pc[t] \in {"cancel", "save"} BY <3>2, <3>4
      <4>3. t # Boot \/ ~RestoreOne BY <4>2 DEF RestoreOne
      <4>4. ~Put(t) BY <4>2 DEF Put, Go
      <4>5. mine[t] \notin early BY <2>00, <2>4, <3>2
      <4> QED BY <3>2, <4>1, <4>3, <4>4, <4>5, LiveSteps DEF StopInv, StoppedGone
    <3> QED BY <3>3, <3>4
  <2> QED BY <2>2, <2>3, <2>4 DEF StoppedGone
<1> QED BY <1>1, <1>2, <1>3, NextThreads

LEMMA StepStoppedUnwritten ==
    ASSUME IInv, SavingInv, StopInv, [Next]_vars
    PROVE  StoppedUnwritten'
<1> USE DEF IInv, TInv, Parts, RegistryOK, StoresOK, PointsOK, ListsOK
<1>1. CASE UNCHANGED vars
  BY <1>1 DEF vars, stores, history, locals, StopInv, StoppedUnwritten
<1>2. CASE ProcessEnds
  BY <1>2 DEF ProcessEnds, StopInv, StoppedUnwritten
<1>3. ASSUME NEW t \in Threads, Steps(t) PROVE StoppedUnwritten'
  <2> USE <1>3 DEF Steps
  <2>0. \A u \in Threads \ {t} : /\ pc'[u] = pc[u] /\ op'[u] = op[u] /\ mine'[u] = mine[u]
                                 /\ text'[u] = text[u]
    BY OthersKeepLocals, OthersKeepTexts
  <2>1. CASE WriteFile(t)
    <3>1. /\ pc[t] = "write" /\ pc'[t] = "idle" /\ op'[t] = "none" /\ text'[t] = {} /\ file' = text[t]
          /\ stopped' = IF op[t] = "stop" THEN stopped \cup ({mine[t]} \ early) ELSE stopped
          /\ early' = early
      BY <2>1 DEF WriteFile, End, history
    <3>2. \A n \in stopped' : \A s \in file' : s.created # n
      BY <3>1 DEF StopInv, StoppedUnwritten
    <3>3. ASSUME NEW u \in Threads, NEW n \in stopped', NEW s \in text'[u] PROVE s.created # n
      <4>1. u # t /\ s \in text[u] BY <2>0, <3>1, <3>3
      <4>2. CASE n \in stopped BY <4>1, <4>2 DEF StopInv, StoppedUnwritten
      <4>3. CASE n \notin stopped
        <5>1. n = mine[t] /\ n \notin early BY <3>1, <3>3, <4>3
        <5>2. pc[u] # "write" BY <3>1, <4>1 DEF SavingInv, OneWriter
        <5>3. u = Boot /\ pc[u] = "restore" BY <4>1, <5>2 DEF SavingInv, TextsInUse
        <5> QED BY <4>1, <5>1, <5>3 DEF StopInv, EarlyKnown
      <4> QED BY <4>2, <4>3
    <3>4. \A u \in Threads : pc'[u] # "write"
      BY <2>0, <3>1 DEF SavingInv, OneWriter
    <3> QED BY <3>2, <3>3, <3>4 DEF StoppedUnwritten
  <2>2. CASE BeginSave(t)
    <3>1. /\ pc[t] = "save" /\ text'[t] = Snapshot /\ UNCHANGED <<file, stopped, early, op, mine>>
      BY <2>2 DEF BeginSave, Go, stores
    <3>2. \A s \in Snapshot : s.created \in Live BY SnapshotIsLive
    <3>3. \A n \in stopped : \A s \in text'[t] : s.created # n
      BY <3>1, <3>2 DEF StopInv, StoppedGone
    <3>4. op[t] = "stop" /\ mine[t] \notin early => \A s \in text'[t] : s.created # mine[t]
      BY <3>1, <3>2 DEF StopInv, StoppedGone, StopDone
    <3> QED BY <2>0, <3>1, <3>3, <3>4 DEF StopInv, StoppedUnwritten
  <2>3. CASE ~WriteFile(t) /\ ~BeginSave(t)
    <3>1. stopped' = stopped BY <2>3, StoppedSteps
    <3>2. pc'[t] # "write" BY <2>3, WritesBegin
    <3>3. file' = file /\ (text'[t] \subseteq text[t] \/ text'[t] = file) BY <2>3, FileSteps
    <3>4. early \subseteq early' BY HistorySteps
    <3> QED BY <2>0, <3>1, <3>2, <3>3, <3>4 DEF StopInv, StoppedUnwritten
  <2> QED BY <2>1, <2>2, <2>3
<1> QED BY <1>1, <1>2, <1>3, NextThreads

LEMMA InitStops == Init => StopInv
<1> SUFFICES ASSUME Init PROVE StopInv OBVIOUS
<1>1. Live = {} BY DEF Init, Live, Objects
<1>2. StopPlaces /\ NewUnknown /\ EarlyKnown
  BY <1>1, BootIsThread DEF Init, StopPlaces, NewUnknown, NotPut, EarlyKnown
<1>3. StoppedGone /\ StoppedUnwritten
  BY <1>1 DEF Init, StoppedGone, StopDone, StoppedUnwritten
<1> QED BY <1>2, <1>3 DEF StopInv

\* A schedule whose stop was confirmed is neither in memory nor in the file again,
\* over crashes, shutdowns and restarts, and whatever request was in flight, also while
\* the restore runs: no text that holds it is left to be written or restored, and no
\* request that makes a schedule can have made that one.  (What was made before the
\* restore had read the file does not count as stopped.)
THEOREM StoppedStaysStoppedHolds == Spec => []StoppedStaysStopped
<1>1. Init => StopInv BY InitStops
<1>2. (IInv /\ SavingInv) /\ StopInv /\ [Next]_vars => StopInv'
  BY StepStopPlaces, StepStoppedGone, StepStoppedUnwritten, StepNewUnknown, StepEarlyKnown DEF StopInv, IInv
<1>3. StopInv => StoppedStaysStopped
  BY DEF StopInv, StoppedGone, StoppedUnwritten, StoppedStaysStopped
<1> QED BY <1>1, <1>2, <1>3, SavingInvariant, PTL DEF Spec

-----------------------------------------------------------------------------
(***************************************************************************)
(* Healing leaves every type served.                                       *)
(***************************************************************************)

\* Of some schedules one is the newest.
LEMMA Newest ==
    ASSUME NEW S \in SUBSET Objects, S # {}
    PROVE  \E n \in S : \A m \in S : m <= n
<1> DEFINE K == MaxObjects
           T == {K - n : n \in S}
<1>0. K \in Nat BY AutomationsAssumption DEF AutomationsAssumption
<1>1. \A n \in S : n \in Nat /\ n <= K /\ K - n \in Nat BY <1>0 DEF Objects
<1> HIDE DEF K
<1>2. T # {} /\ T \subseteq Nat BY <1>1
<1>3. \E x \in T : \A y \in T : ~ (<<y, x>> \in OpToRel(<, Nat))
  <2> HIDE DEF T
  <2> QED BY <1>2, WFMin, NatLessThanWellFounded
<1>4. \E n \in S : \A m \in S : ~(K - m < K - n)
  <2> PICK n \in S : \A m \in S : ~ (<<K - m, K - n>> \in OpToRel(<, Nat)) BY <1>3
  <2>1. \A m \in S : ~(K - m < K - n) BY <1>1 DEF OpToRel
  <2> QED BY <2>1
<1>5. \A m, n \in S : ~(K - m < K - n) => m <= n BY <1>0, <1>1
<1> QED BY <1>4, <1>5

\* Records on their way to the file.
Written == UNION {text[t] : t \in {u \in Threads : pc[u] = "write"}}

\* A schedule of the type is registered that the restore is not about to cancel.
Kept(type) == \E n \in Live \ todo[Boot] : obj[n].type = type

\* The restore is still to put back a schedule of the type.
StillComing(type) == pc[Boot] = "restore" /\ \E s \in text[Boot] : s.type = type

\* What the restore still has to cancel is registered, and without it each type that
\* is registered, or that the file has or will have, is served or will be.
ServingInv ==
    ~crossed /\ pc[Boot] # "idle" =>
        /\ todo[Boot] \subseteq Live
        /\ \A n \in Live : Kept(obj[n].type)
        /\ \A s \in Written : Kept(s.type) \/ StillComing(s.type)
        /\ pc[Boot] # "boot" => \A s \in file : Kept(s.type) \/ StillComing(s.type)

\* Neither healing pass drops the newest schedule of an identity or of a type.
LEMMA HealingSpares ==
    ASSUME NEW n \in Live
    PROVE  /\ \E m \in Live \ Duplicates : obj[m].type = obj[n].type
           /\ \E m \in Live \ Superseded : obj[m].type = obj[n].type
<1>0. Live \subseteq Objects /\ \A m \in Live : m \in Nat BY DEF Live, Objects
<1>1. \E m \in Live \ Duplicates : obj[m].type = obj[n].type
  <2> DEFINE S == {m \in Live : Identity(obj[m]) = Identity(obj[n])}
  <2>1. PICK m \in S : \A k \in S : k <= m BY <1>0, Newest
  <2>2. m \notin Duplicates BY <1>0, <2>1 DEF Duplicates
  <2>3. obj[m].type = obj[n].type
    <3>1. Identity(obj[m]).type = Identity(obj[n]).type OBVIOUS
    <3> QED BY <3>1 DEF Identity
  <2> QED BY <2>2, <2>3
<1>2. \E m \in Live \ Superseded : obj[m].type = obj[n].type
  <2>1. CASE ~ConfigDriven(n) BY <2>1 DEF Superseded
  <2>2. CASE ConfigDriven(n)
    <3> DEFINE S == {m \in Live : ConfigDriven(m) /\ obj[m].type = obj[n].type}
    <3>1. n \in S BY <2>2
    <3>2. PICK m \in S : \A k \in S : k <= m BY <1>0, <3>1, Newest
    <3>3. m \notin Superseded BY <1>0, <3>2 DEF Superseded
    <3> QED BY <3>3
  <2> QED BY <2>1, <2>2
<1> QED BY <1>1, <1>2

\* The restore's own steps, and those of the other threads.
LEMMA NextRestore ==
    ASSUME [Next]_vars
    PROVE  UNCHANGED vars \/ ProcessEnds \/ Restore \/ \E t \in Threads \ {Boot} : Steps(t)
<1>1. ASSUME Shutdown PROVE ProcessEnds \/ ThreadStep(Main)
  BY <1>1 DEF Shutdown, Exit, ThreadStep, Request
<1>2. Main # Boot /\ \A t \in Workers : t # Boot
  BY AutomationsAssumption DEF AutomationsAssumption
<1> QED BY <1>1, <1>2 DEF Next, Crash, Threads, Steps, ThreadStep

\* Another thread's step drops nothing, or is noted.
LEMMA UncrossedSteps ==
    ASSUME IInv, NEW t \in Threads \ {Boot}, ThreadStep(t), pc[Boot] # "idle", ~crossed'
    PROVE  /\ ~crossed /\ Live \subseteq Live'
           /\ Live' \subseteq Live \cup {mine[t]}
<1> USE ZeroIsNoObject DEF IInv, TInv, Parts, RegistryOK
<1>0. registry' = registry => Live' = Live BY DEF Live
<1>1. ~crossed BY HistorySteps DEF Crosses
<1>2. CASE Put(t) \/ Replace(t)
  <2>1. Crosses(t, obj[mine[t]].id) BY <1>2 DEF Put, Replace
  <2>2. registry[obj[mine[t]].id] = 0 BY <2>1 DEF Crosses
  <2>3. \A id \in Objects : registry'[id] = registry[id] \/ (registry[id] = 0 /\ registry'[id] \in {0, mine[t]})
    BY <1>2, <2>2 DEF Put, Replace
  <2> QED BY <1>1, <2>3 DEF Live
<1>3. CASE Cancel(t)
  <2>1. PICK n \in todo[t] : registry' = [registry EXCEPT ![obj[n].id] = 0] /\ Crosses(t, obj[n].id)
    BY <1>3 DEF Cancel
  <2>2. registry[obj[n].id] = 0 BY <2>1 DEF Crosses
  <2>3. registry' = registry BY <2>1, <2>2
  <2> QED BY <1>0, <1>1, <2>3
<1>4. CASE Plain(t) BY <1>0, <1>1, <1>4, PlainSteps
<1>5. CASE Answers(t) BY <1>0, <1>1, <1>5, AnswerSteps
<1>6. CASE Create(t) \/ SetEnabled(t) \/ Sync(t) \/ BeginSave(t) \/ WriteFile(t) \/ WriteFails(t)
  BY <1>0, <1>1, <1>6 DEF Create, SetEnabled, Sync, BeginSave, WriteFile, WriteFails, registryVars
<1> QED BY <1>2, <1>3, <1>4, <1>5, <1>6, StepKinds

\* What is being written changes by a save that begins, and by one that ends.
LEMMA WrittenSteps ==
    ASSUME TInv, TextsInUse, NEW t \in Threads, ThreadStep(t), NEW s \in Written'
    PROVE  s \in Written \/ (BeginSave(t) /\ s \in Snapshot)
<1>. PICK u \in Threads : pc'[u] = "write" /\ s \in text'[u] BY DEF Written
<1>1. CASE u # t BY <1>1, OthersKeepLocals, OthersKeepTexts DEF Written
<1>2. CASE u = t
  <2>1. BeginSave(t) BY <1>2, WritesBegin
  <2> QED BY <1>2, <2>1 DEF BeginSave, TInv, Parts, ListsOK
<1> QED BY <1>1, <1>2

\* Whatever the step: what is served if nothing that was kept is dropped.
LEMMA StillServing ==
    ASSUME IInv, SavingInv, ServingInv, ~crossed, pc[Boot] # "idle", NEW t \in Threads, ThreadStep(t),
           todo'[Boot] \subseteq Live',
           \A type : Kept(type) => Kept(type)',
           \A n \in Live' \ Live : Kept(obj[n].type)',
           \A type : StillComing(type) => Kept(type)' \/ StillComing(type)',
           pc[Boot] = "boot" => pc'[Boot] = "boot"
    PROVE  ServingInv'
<1> USE DEF IInv
<1>1. /\ \A n \in Live : Kept(obj[n].type)
      /\ \A s \in Written : Kept(s.type) \/ StillComing(s.type)
      /\ pc[Boot] # "boot" => \A s \in file : Kept(s.type) \/ StillComing(s.type)
  BY DEF ServingInv
<1>2. \A n \in Live : Kept(obj[n].type)'
  <2>1. \A n \in Live : obj'[n].type = obj[n].type
    BY BirthsStay, MemoryFacts DEF SameBirth, RInv
  <2> QED BY <1>1, <2>1
<1>3. \A s \in Snapshot : Kept(s.type) BY <1>1 DEF Snapshot
<1>4. ASSUME NEW s \in Written' PROVE Kept(s.type)' \/ StillComing(s.type)'
  BY <1>1, <1>3, <1>4, WrittenSteps DEF SavingInv
<1>5. ASSUME NEW s \in file', pc'[Boot] # "boot" PROVE Kept(s.type)' \/ StillComing(s.type)'
  <2>1. WriteFile(t) => text[t] \subseteq Written BY DEF WriteFile, Written
  <2>2. s \in file \/ s \in Written BY <1>5, <2>1, FileSteps
  <2> QED BY <1>1, <1>5, <2>2
<1> QED BY <1>2, <1>4, <1>5 DEF ServingInv

LEMMA StepServing ==
    ASSUME IInv, SavingInv, ServingInv, [Next]_vars
    PROVE  ServingInv'
<1> USE BootIsThread, ZeroIsNoObject
    DEF IInv, TInv, Parts, RegistryOK, StoresOK, PointsOK, ListsOK, Go, stores, locals, registryVars
<1>1. CASE UNCHANGED vars
  BY <1>1 DEF vars, history, ServingInv, Live, Kept, StillComing, Written
<1>2. CASE ProcessEnds
  <2>1. Live' = {} /\ Written' = {} BY <1>2 DEF ProcessEnds, Live, Written
  <2> QED BY <1>2, <2>1 DEF ProcessEnds, ServingInv
<1>3. ASSUME NEW t \in Threads \ {Boot}, Steps(t), ~crossed', pc'[Boot] # "idle" PROVE ServingInv'
  <2> USE <1>3 DEF Steps
  <2>0. pc'[Boot] = pc[Boot] /\ todo'[Boot] = todo[Boot] /\ text'[Boot] = text[Boot]
    BY OthersKeepLocals, OthersKeepTexts
  <2>1. ~crossed /\ Live \subseteq Live' /\ Live' \subseteq Live \cup {mine[t]}
    BY <2>0, UncrossedSteps
  <2>2. \A n \in Live : obj'[n].type = obj[n].type
    BY BirthsStay, MemoryFacts DEF SameBirth, RInv
  <2>3. todo[Boot] \subseteq Live BY <2>0, <2>1 DEF ServingInv
  <2>4. ASSUME NEW n \in Live' \ Live PROVE Kept(obj[n].type)' BY <2>0, <2>3, <2>4 DEF Kept
  <2>5. ASSUME NEW type, Kept(type) PROVE Kept(type)' BY <2>0, <2>1, <2>2, <2>5 DEF Kept
  <2>6. ASSUME NEW type, StillComing(type) PROVE StillComing(type)' BY <2>0, <2>6 DEF StillComing
  <2> QED BY <2>0, <2>1, <2>3, <2>4, <2>5, <2>6, StillServing
<1>4. ASSUME Restore, ~crossed', pc'[Boot] # "idle" PROVE ServingInv'
  <2>0. ThreadStep(Boot) /\ (registry' = registry => Live' = Live)
    BY <1>4 DEF Restore, ThreadStep, Request, Live
  <2>00. ~crossed BY <1>4, <2>0, HistorySteps DEF Crosses
  <2>01. \A n \in Live : obj'[n].type = obj[n].type
    BY <2>0, BirthsStay, MemoryFacts DEF SameBirth, RInv
  <2>02. ASSUME pc[Boot] # "idle", pc[Boot] # "boot", pc[Boot] # "restore", Live' = Live, todo'[Boot] = todo[Boot]
         PROVE  ServingInv'
    <3>1. todo'[Boot] \subseteq Live' BY <2>00, <2>02 DEF ServingInv
    <3>2. ASSUME NEW type, Kept(type) PROVE Kept(type)' BY <2>01, <2>02, <3>2 DEF Kept
    <3>3. ASSUME NEW type, StillComing(type) PROVE FALSE BY <2>02, <3>3 DEF StillComing
    <3> QED BY <2>0, <2>00, <2>02, <3>1, <3>2, <3>3, StillServing
  <2>1. CASE ReadFile
    <3>1. /\ pc[Boot] = "boot" /\ pc'[Boot] = "restore" /\ text'[Boot] = file
          /\ UNCHANGED <<registry, obj, todo, file>>
      BY <2>1 DEF ReadFile
    <3>2. \A type : Kept(type) => Kept(type)' BY <2>0, <3>1 DEF Kept
    <3>3. \A s \in Written' : s \in Written
      BY <2>0, <3>1, WrittenSteps DEF SavingInv, BeginSave
    <3>4. \A type : ~StillComing(type) BY <3>1 DEF StillComing
    <3>5. \A s \in file : StillComing(s.type)' BY <3>1 DEF StillComing
    <3>6. /\ todo'[Boot] \subseteq Live' /\ \A n \in Live' : Kept(obj[n].type)'
          /\ \A s \in Written' : Kept(s.type)'
      BY <2>0, <2>00, <3>1, <3>2, <3>3, <3>4 DEF ServingInv
    <3> QED BY <3>1, <3>5, <3>6 DEF ServingInv
  <2>2. CASE RestoreOne
    <3>. PICK s \in text[Boot] : /\ obj' = [obj EXCEPT ![s.created] = s]
                                 /\ registry' = [registry EXCEPT ![s.id] = s.created]
                                 /\ text' = [text EXCEPT ![Boot] = @ \ {s}]
                                 /\ crossed' = (crossed \/ registry[s.id] \notin {0, s.created})
      BY <2>2 DEF RestoreOne
    <3>1. pc[Boot] = "restore" /\ UNCHANGED <<pc, todo>> BY <2>2 DEF RestoreOne
    <3>2. registry[s.id] \in {0, s.created} BY <1>4
    <3>3. s \in Schedules /\ s.id \in Objects /\ s.created \in Objects BY MemoryFacts, ScheduleFields
    <3>4. Live' = Live \cup {s.created}
      <4>1. registry'[s.id] = s.created /\ \A id \in Objects : registry'[id] \in {registry[id], s.created}
        BY <3>3
      <4>2. \A id \in Objects : registry[id] # registry'[id] => registry[id] = 0 BY <3>2, <3>3
      <4> QED BY <3>3, <4>1, <4>2 DEF Live
    <3>5. obj'[s.created] = s BY <3>3
    <3>6. todo[Boot] \subseteq Live BY <2>00, <3>1 DEF ServingInv
    <3>7. ASSUME NEW type, Kept(type) PROVE Kept(type)' BY <2>01, <3>1, <3>4, <3>7 DEF Kept
    <3>8. Kept(s.type)'
      <4>1. CASE s.created \in Live
        <5>1. obj[s.created].type = s.type BY <2>01, <3>5, <4>1
        <5> QED BY <2>00, <3>1, <3>7, <4>1, <5>1 DEF ServingInv
      <4>2. CASE s.created \notin Live BY <3>1, <3>4, <3>5, <3>6, <4>2 DEF Kept
      <4> QED BY <4>1, <4>2
    <3>9. ASSUME NEW n \in Live' \ Live PROVE Kept(obj[n].type)' BY <3>4, <3>5, <3>8, <3>9
    <3>10. ASSUME NEW type, StillComing(type) PROVE Kept(type)' \/ StillComing(type)'
      BY <3>1, <3>8, <3>10 DEF StillComing
    <3> QED BY <2>0, <2>00, <3>1, <3>4, <3>6, <3>7, <3>9, <3>10, StillServing
  <2>3. CASE HealDuplicates
    <3>1. /\ pc[Boot] = "restore" /\ text[Boot] = {} /\ todo'[Boot] = Duplicates /\ pc'[Boot] = "cancelDup"
          /\ UNCHANGED <<registry, obj, file>>
      BY <2>3 DEF HealDuplicates
    <3>2. \A n \in Live : \E m \in Live' \ todo'[Boot] : obj'[m].type = obj[n].type
      BY <2>0, <3>1, HealingSpares
    <3>3. \A type : Kept(type) => Kept(type)' BY <3>2 DEF Kept
    <3>4. \A type : ~StillComing(type) BY <3>1 DEF StillComing
    <3>5. Duplicates \subseteq Live BY DEF Duplicates
    <3> QED BY <2>0, <2>00, <3>1, <3>3, <3>4, <3>5, StillServing
  <2>4. CASE Reconcile(Boot)
    <3>1. /\ pc[Boot] = "reconcile" /\ todo'[Boot] = Superseded /\ UNCHANGED <<registry, obj, file>>
      BY <2>4 DEF Reconcile
    <3>2. \A n \in Live : \E m \in Live' \ todo'[Boot] : obj'[m].type = obj[n].type
      BY <2>0, <3>1, HealingSpares
    <3>3. \A type : Kept(type) => Kept(type)' BY <3>2 DEF Kept
    <3>4. \A type : ~StillComing(type) BY <3>1 DEF StillComing
    <3>5. Superseded \subseteq Live BY DEF Superseded
    <3> QED BY <2>0, <2>00, <3>1, <3>3, <3>4, <3>5, StillServing
  <2>5. CASE Cancel(Boot)
    <3> PICK n \in todo[Boot] : /\ registry' = [registry EXCEPT ![obj[n].id] = 0]
                                /\ todo' = [todo EXCEPT ![Boot] = @ \ {n}]
      BY <2>5 DEF Cancel
    <3>1. pc[Boot] = pc'[Boot] /\ UNCHANGED obj /\ pc[Boot] \notin {"boot", "restore"} BY <2>5 DEF Cancel
    <3>2. todo[Boot] \subseteq Live BY <1>4, <2>00, <3>1 DEF ServingInv
    <3>3. registry[obj[n].id] = n /\ obj[n].id \in Objects
      BY <3>2 DEF Live, RInv, Keyed
    <3>4. Live' = Live \ {n}
      BY <3>3 DEF Live, RInv, Keyed
    <3>5. todo'[Boot] = todo[Boot] \ {n} OBVIOUS
    <3>6. ASSUME NEW type, Kept(type) PROVE Kept(type)' BY <3>1, <3>4, <3>5, <3>6 DEF Kept
    <3>7. \A type : ~StillComing(type) BY <3>1 DEF StillComing
    <3> QED BY <1>4, <2>0, <2>00, <3>1, <3>2, <3>4, <3>5, <3>6, <3>7, StillServing
  <2>6. CASE Sync(Boot)
    <3>1. pc[Boot] = "heal" /\ UNCHANGED <<registry, todo>> BY <2>6 DEF Sync
    <3> QED BY <2>0, <2>02, <3>1
  <2>7. CASE LoadConfig(Boot) \/ Healed(Boot) \/ BeginSave(Boot) \/ DuplicatesHealed
    <3>1. pc[Boot] \in {"cancelDup", "load", "heal", "save"} /\ UNCHANGED registry
      BY <2>7 DEF LoadConfig, Healed, BeginSave, DuplicatesHealed
    <3>2. todo'[Boot] = todo[Boot]
      BY <1>4, <2>7 DEF LoadConfig, Healed, BeginSave, DuplicatesHealed, End
    <3> QED BY <2>0, <2>02, <3>1, <3>2
  <2>8. CASE WriteFile(Boot) \/ WriteFails(Boot)
    BY <1>4, <2>8 DEF WriteFile, WriteFails, End
  <2> QED BY <1>4, <2>1, <2>2, <2>3, <2>4, <2>5, <2>6, <2>7, <2>8 DEF Restore, Heal, Persist
<1>5. ASSUME crossed' \/ pc'[Boot] = "idle" PROVE ServingInv' BY <1>5 DEF ServingInv
<1> QED BY <1>1, <1>2, <1>3, <1>4, <1>5, NextRestore

\* The two healing passes of the restore drop a schedule for a newer one only:
\* whatever automations.json holds, duplicates and several schedules of a type
\* included, and whatever is armed, paused or saved meanwhile, each of its types is
\* served when they are done, unless a request took a schedule out as they ran.
THEOREM RestoreServesEveryTypeHolds == Spec => []RestoreServesEveryType
<1>1. Init => ServingInv
  <2> SUFFICES ASSUME Init PROVE ServingInv OBVIOUS
  <2>1. Live = {} /\ Written = {} BY DEF Init, Live, Objects, Written
  <2> QED BY <2>1, BootIsThread DEF Init, ServingInv
<1>2. (IInv /\ SavingInv) /\ ServingInv /\ [Next]_vars => ServingInv' BY StepServing
<1>3. ServingInv => RestoreServesEveryType
  BY DEF ServingInv, Kept, StillComing, RestoreServesEveryType
<1> QED BY <1>1, <1>2, <1>3, SavingInvariant, PTL DEF Spec
=============================================================================
