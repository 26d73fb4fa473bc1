------------------------- MODULE AutomationRunsProofs -------------------------
(***************************************************************************)
(* For any number of schedules and threads, and whatever is requested and  *)
(* fails, crashes at any step included: AutomationRuns keeps its types, a  *)
(* schedule's claim is held exactly while a run of it is in flight, no     *)
(* schedule ever has two runs at a time, a daily report goes out only when *)
(* it is owed, and one that is owed has a run to come; the last two of the *)
(* schedules that are not untimely, or not passed over (AutomationRuns).   *)
(*                                                                         *)
(* With fewer requests and faults, named in the theorem: no email goes out *)
(* twice.                                                                  *)
(***************************************************************************)
EXTENDS AutomationRuns, TLAPS

\* What the steps refer to is in memory: a registered schedule, one the tick is
\* looking at, one a run works on.
InMemory ==
    /\ \A k \in Keys : registry[k] # 0 => obj[registry[k]] # Unset
    /\ \A item \in scan : obj[item[2]] # Unset
    /\ tick = "claim" => seen \in Keys \X Objects /\ obj[seen[2]] # Unset
    /\ \A r \in Runners : runObj[r] # 0 => obj[runObj[r]] # Unset

\* A run in flight knows the key it claimed.
RunsHaveKeys == \A r \in Runners : Running(r) => runKey[r] \in Keys

IInv == TypeOK /\ InMemory /\ RunsHaveKeys /\ ClaimsAreRuns /\ OneRunPerSchedule

-----------------------------------------------------------------------------
(***************************************************************************)
(* Schedules and times.                                                    *)
(***************************************************************************)

LEMMA DivIsNat == ASSUME NEW t \in Nat PROVE t \div DayLength \in Nat
  BY AutomationRunsAssumption, SMT

LEMMA ProductIsNat == ASSUME NEW a \in Nat, NEW b \in Nat PROVE a * b \in Nat
  BY SMT

\* Every time a schedule is given is a natural number.
LEMMA TimesAreNat ==
    ASSUME NEW s \in Schedules, NEW t \in Nat, NEW b \in BOOLEAN
    PROVE  NextRun(s, b, t) \in Nat /\ ResumeTime(s, t) \in Nat
  <1> DEFINE d == t \div DayLength
  <1>1. d \in Nat BY DivIsNat
  <1>2. d * DayLength \in Nat BY <1>1, ProductIsNat, AutomationRunsAssumption
  <1>3. s.sendAt \in Nat
    <2>1. s.sendAt \in SendTimes BY DEF Schedules
    <2>2. SendTimes \subseteq Nat BY AutomationRunsAssumption
    <2> QED BY <2>1, <2>2
  <1>4. SendTime(s, t) \in Nat BY <1>2, <1>3 DEF SendTime
  <1>5. NextSend(s, t) \in Nat BY <1>4, AutomationRunsAssumption DEF NextSend
  <1>6. RetryWait(s) \in Nat
    <2>1. /\ s.failures \in 0 .. Len(RetryWaits)
          /\ RetryWaits \in Seq(Nat \ {0}) /\ RetryWaits # <<>>
      BY AutomationRunsAssumption DEF Schedules
    <2>2. Len(RetryWaits) \in Nat /\ Len(RetryWaits) # 0
      BY <2>1
    <2>3. \A i \in 1 .. Len(RetryWaits) : RetryWaits[i] \in Nat
      BY <2>1
    <2> QED BY <2>1, <2>2, <2>3 DEF RetryWait
  <1>7. RetryTime(s, t) \in Nat BY <1>5, <1>6 DEF RetryTime
  <1>8. s.next \in Nat BY DEF Schedules
  <1>9. t + Interval \in Nat BY AutomationRunsAssumption
  <1>10. NextRun(s, b, t) \in Nat BY <1>5, <1>7, <1>9 DEF NextRun
  <1>11. ResumeTime(s, t) \in Nat BY <1>5, <1>8, <1>9 DEF ResumeTime
  <1> QED BY <1>10, <1>11

LEMMA WithNext ==
    ASSUME NEW s \in Schedules, NEW n \in Nat
    PROVE  [s EXCEPT !.next = n] \in Schedules
  BY DEF Schedules

LEMMA WithSendAt ==
    ASSUME NEW s \in Schedules, NEW a \in SendTimes
    PROVE  [s EXCEPT !.sendAt = a] \in Schedules
  BY DEF Schedules

LEMMA Toggled ==
    ASSUME NEW s \in Schedules
    PROVE  [s EXCEPT !.enabled = ~s.enabled] \in Schedules
  BY DEF Schedules

LEMMA WithFailures ==
    ASSUME NEW s \in Schedules, NEW f \in 0 .. Len(RetryWaits)
    PROVE  [s EXCEPT !.failures = f] \in Schedules
  BY DEF Schedules

LEMMA WithSigned ==
    ASSUME NEW s \in Schedules, NEW g \in Nat, NEW t \in Nat
    PROVE  /\ [s EXCEPT !.signed = g, !.lastRun = t] \in Schedules
           /\ [s EXCEPT !.lastRun = t, !.signed = g] \in Schedules
  BY DEF Schedules

LEMMA ScheduledIsSchedule ==
    ASSUME NEW s \in Schedules, NEW t \in Nat, NEW b \in BOOLEAN
    PROVE  Scheduled(s, b, t) \in Schedules
  BY TimesAreNat, WithNext DEF Scheduled

LEMMA ArmedIsSchedule ==
    ASSUME NEW i \in Identities, NEW a \in SendTimes, NEW t \in Nat
    PROVE  Armed([ident |-> i, sendAt |-> a], t) \in Schedules
  <1> DEFINE fresh == [ident |-> i, sendAt |-> a, born |-> t, signed |-> 0,
                       next |-> 0, enabled |-> TRUE, failures |-> 0, lastRun |-> 0]
  <1>1. Len(RetryWaits) \in Nat BY AutomationRunsAssumption
  <1>2. fresh \in Schedules BY <1>1 DEF Schedules
  <1> QED BY <1>2, ScheduledIsSchedule DEF Armed

LEMMA CountedIsSchedule ==
    ASSUME NEW s \in Schedules, NEW b \in BOOLEAN
    PROVE  Counted(s, b) \in Schedules
  <1>1. Len(RetryWaits) \in Nat BY AutomationRunsAssumption
  <1>2. s.failures \in 0 .. Len(RetryWaits) BY DEF Schedules
  <1> DEFINE f == IF ~b THEN 0 ELSE IF s.failures < Len(RetryWaits) THEN s.failures + 1 ELSE s.failures
  <1>3. f \in 0 .. Len(RetryWaits) BY <1>1, <1>2
  <1>4. Counted(s, b) = [s EXCEPT !.failures = f] BY DEF Counted, Schedules
  <1> QED BY <1>3, <1>4, WithFailures

LEMMA ResumedIsSchedule ==
    ASSUME NEW s \in Schedules, NEW t \in Nat
    PROVE  [Restored(s) EXCEPT !.next = ResumeTime(Restored(s), t)] \in Schedules
  <1>1. 0 \in 0 .. Len(RetryWaits) BY AutomationRunsAssumption
  <1>2. Restored(s) \in Schedules BY <1>1, WithFailures DEF Restored
  <1> QED BY <1>2, TimesAreNat, WithNext

LEMMA CheckedIsSchedule ==
    ASSUME NEW s \in Schedules, NEW g \in Nat, NEW b \in BOOLEAN, now \in Nat
    PROVE  Checked(s, g, b) \in Schedules
  <1> DEFINE h == IF b /\ IsDaily(s) THEN g ELSE s.signed
  <1>1. h \in Nat BY DEF Schedules
  <1>2. Checked(s, g, b) = [s EXCEPT !.lastRun = now, !.signed = h] BY DEF Checked, Schedules
  <1> HIDE DEF h
  <1>3. [s EXCEPT !.lastRun = now, !.signed = h] \in Schedules BY <1>1, WithSigned
  <1> QED BY <1>2, <1>3

\* Putting a schedule in the place of one in memory, or of none.
LEMMA PutSchedule ==
    ASSUME NEW o \in Objects, NEW s \in Schedules,
           obj \in [Objects -> Schedules \cup {Unset}],
           obj' = [obj EXCEPT ![o] = s]
    PROVE  /\ obj' \in [Objects -> Schedules \cup {Unset}]
           /\ obj'[o] # Unset
           /\ \A p \in Objects : obj[p] # Unset => obj'[p] # Unset
  BY AutomationRunsAssumption

-----------------------------------------------------------------------------
(***************************************************************************)
(* The initial states.                                                     *)
(***************************************************************************)

\* Init gives every variable its type, and nothing runs yet.
LEMMA InitIInv == Init => IInv
  <1> SUFFICES ASSUME Init PROVE IInv OBVIOUS
  <1>1. NumKeys \in Nat /\ MaxObjects \in Nat /\ NumKeys <= MaxObjects
    BY AutomationRunsAssumption
  <1>2. \A k \in Keys : k \in Objects BY <1>1 DEF Keys, Objects
  <1>s. PICK setup \in Setups :
          /\ registry = [k \in Keys |-> IF setup[k] = Unset THEN 0 ELSE k]
          /\ obj = [o \in Objects |->
                      IF o \notin Keys THEN Unset
                      ELSE IF setup[o] = Unset THEN Unset ELSE Armed(setup[o], 0)]
    BY DEF Init
  <1>3. \A k \in Keys : setup[k] # Unset => Armed(setup[k], 0) \in Schedules
    <2> TAKE k \in Keys
    <2> HAVE setup[k] # Unset
    <2>1. setup[k] \in [ident : Identities, sendAt : SendTimes]
      BY AutomationRunsAssumption, <1>s
    <2>2. PICK i \in Identities, a \in SendTimes : setup[k] = [ident |-> i, sendAt |-> a]
      BY <2>1
    <2> QED BY <2>2, ArmedIsSchedule
  <1>4. obj \in [Objects -> Schedules \cup {Unset}] BY <1>3, <1>s
  <1>5. \A k \in Keys : registry[k] # 0 => registry[k] = k /\ obj[k] # Unset
    BY <1>2, <1>3, <1>s, AutomationRunsAssumption
  <1>6. registry \in [Keys -> Objects \cup {0}] BY <1>2, <1>s
  <1>7. file \in [Keys -> Schedules \cup {Unset}] BY <1>2, <1>4 DEF Init
  <1>8. last \in 0 .. MaxObjects BY <1>1 DEF Init
  <1>9. TypeOK
    <2>1. \A r \in Runners : pc[r] = "idle" BY DEF Init
    <2> QED BY <1>4, <1>6, <1>7, <1>8, <2>1 DEF Init, TypeOK, StraysOK, WithObject, Points
  <1>10. InMemory BY <1>5 DEF Init, InMemory
  <1>11. RunsHaveKeys /\ ClaimsAreRuns /\ OneRunPerSchedule
    BY DEF Init, RunsHaveKeys, ClaimsAreRuns, OneRunPerSchedule, Running
  <1> QED BY <1>9, <1>10, <1>11 DEF IInv

-----------------------------------------------------------------------------
(***************************************************************************)
(* Claims: only Fire takes one, and only Release and Restart give any back.*)
(***************************************************************************)

Claims == RunsHaveKeys /\ ClaimsAreRuns /\ OneRunPerSchedule

\* What neither starts nor ends a run leaves the claims as they are.
LEMMA SameClaims ==
    ASSUME Claims, claimed' = claimed, runKey' = runKey,
           \A r \in Runners : Running(r)' <=> Running(r)
    PROVE  Claims'
  BY DEF Claims, RunsHaveKeys, ClaimsAreRuns, OneRunPerSchedule

LEMMA SamePoints ==
    ASSUME Claims, claimed' = claimed, UNCHANGED runs
    PROVE  Claims'
  <1>1. \A r \in Runners : Running(r)' <=> Running(r) BY DEF runs, Running
  <1> QED BY <1>1, SameClaims DEF runs

\* A run that goes from one of its points to another.
LEMMA StepKeepsClaims ==
    ASSUME TypeOK, Claims, NEW r \in Runners, pc[r] # "idle", NEW to \in Points \ {"idle"},
           pc' = [pc EXCEPT ![r] = to], claimed' = claimed, runKey' = runKey
    PROVE  Claims'
  <1>1. \A q \in Runners : Running(q)' <=> Running(q) BY DEF Running, TypeOK
  <1> QED BY <1>1, SameClaims

\* Fire takes a claim no run holds, for a run of a thread that had none.
LEMMA FireKeepsClaims ==
    ASSUME TypeOK, InMemory, Claims, Fire PROVE Claims'
  <1>1. PICK r \in Runners :
          /\ pc[r] = "idle"
          /\ pc' = [pc EXCEPT ![r] = "begin"]
          /\ runKey' = [runKey EXCEPT ![r] = seen[1]]
    BY DEF Fire
  <1>2. seen[1] \in Keys /\ seen[1] \notin claimed BY DEF Fire, InMemory
  <1>3. \A q \in Runners : Running(q)' <=> Running(q) \/ q = r
    BY <1>1 DEF Running, TypeOK
  <1>4. \A q \in Runners : runKey'[q] = IF q = r THEN seen[1] ELSE runKey[q]
    BY <1>1 DEF TypeOK
  <1>5. ~Running(r) BY <1>1 DEF Running
  <1>6. \A q \in Runners : Running(q) => runKey[q] # seen[1]
    BY <1>2 DEF Claims, ClaimsAreRuns
  <1>7. RunsHaveKeys' BY <1>2, <1>3, <1>4 DEF Claims, RunsHaveKeys
  <1>8. ClaimsAreRuns'
    <2>1. claimed' = claimed \cup {seen[1]} BY DEF Fire
    <2> QED BY <1>3, <1>4, <1>5, <2>1 DEF Claims, ClaimsAreRuns
  <1>9. OneRunPerSchedule'
    BY <1>3, <1>4, <1>6 DEF Claims, OneRunPerSchedule
  <1> QED BY <1>7, <1>8, <1>9 DEF Claims

\* Release gives back the claim of the one run that holds it.
LEMMA ReleaseKeepsClaims ==
    ASSUME TypeOK, Claims, NEW r \in Runners, Release(r) PROVE Claims'
  <1>1. pc[r] = "release" /\ pc' = [pc EXCEPT ![r] = "idle"] BY DEF Release, Go
  <1>2. \A q \in Runners : Running(q)' <=> Running(q) /\ q # r
    BY <1>1 DEF Running, TypeOK
  <1>3. \A q \in Runners : q # r => runKey'[q] = runKey[q] BY DEF Release, TypeOK
  <1>4. \A q \in Runners : Running(q) /\ q # r => runKey[q] # runKey[r]
    BY <1>1 DEF Claims, OneRunPerSchedule, Running
  <1>5. RunsHaveKeys' /\ OneRunPerSchedule'
    BY <1>2, <1>3 DEF Claims, RunsHaveKeys, OneRunPerSchedule
  <1>6. ClaimsAreRuns'
    <2>1. claimed' = claimed \ {runKey[r]} BY DEF Release
    <2> QED BY <1>2, <1>3, <1>4, <2>1 DEF Claims, ClaimsAreRuns
  <1> QED BY <1>5, <1>6 DEF Claims

LEMMA RestartKeepsClaims == ASSUME Restart PROVE Claims'
  BY DEF Restart, Claims, RunsHaveKeys, ClaimsAreRuns, OneRunPerSchedule, Running

\* The claims stay right whatever happens next.
LEMMA NextKeepsClaims ==
    ASSUME TypeOK, InMemory, Claims, [Next]_vars PROVE Claims'
  <1>1. CASE Fire BY <1>1, FireKeepsClaims
  <1>2. CASE BeginTick \/ Look \/ StillRunning \/ FireFails \/ EndTick
    <2>1. claimed' = claimed /\ UNCHANGED runs
      BY <1>2 DEF BeginTick, Look, StillRunning, FireFails, EndTick
    <2> QED BY <2>1, SamePoints
  <1>3. ASSUME NEW r \in Runners, Release(r) PROVE Claims'
    BY <1>3, ReleaseKeepsClaims
  <1>4. ASSUME NEW r \in Runners, Adopt(r) PROVE Claims'
    <2>1. claimed' = claimed /\ UNCHANGED runs BY <1>4 DEF Adopt
    <2> QED BY <2>1, SamePoints
  <1>5. ASSUME NEW r \in Runners, BeginRun(r) PROVE Claims'
    <2>1. /\ pc[r] = "begin" /\ claimed' = claimed /\ runKey' = runKey
          /\ pc' = [pc EXCEPT ![r] = IF registry[runKey[r]] = 0 THEN "release"
                                     ELSE IF obj[registry[runKey[r]]].enabled THEN "build" ELSE "close"]
      BY <1>5 DEF BeginRun, Go
    <2> QED BY <1>5, <2>1, StepKeepsClaims DEF Points
  <1>6. ASSUME NEW r \in Runners,
               Build(r) \/ Check(r) \/ Send(r) \/ Record(r) \/ Close(r) \/ Save(r)
                 \/ BuildFails(r) \/ SendFails(r)
        PROVE  Claims'
    <2>1. claimed' = claimed /\ runKey' = runKey
      BY <1>6 DEF Build, Check, Send, Record, Close, Save, BuildFails, SendFails
    <2>2. PICK to \in Points \ {"idle"} : pc[r] # "idle" /\ pc' = [pc EXCEPT ![r] = to]
      BY <1>6 DEF Build, Check, Send, Record, Close, Save, BuildFails, SendFails, Go, Points
    <2> QED BY <1>6, <2>1, <2>2, StepKeepsClaims
  <1>7. ASSUME NEW k \in Keys, Request(k) PROVE Claims'
    <2>1. claimed' = claimed /\ UNCHANGED runs
      BY <1>7 DEF Request, Edit, Stop, Move, SetEnabled
    <2> QED BY <2>1, SamePoints
  <1>8. CASE Advance \/ EstateChanges
    <2>1. claimed' = claimed /\ UNCHANGED runs BY <1>8 DEF Advance, EstateChanges
    <2> QED BY <2>1, SamePoints
  <1>9. CASE Restart BY <1>9, RestartKeepsClaims
  <1>10. CASE UNCHANGED vars
    <2>1. claimed' = claimed /\ UNCHANGED runs BY <1>10 DEF vars, runs
    <2> QED BY <2>1, SamePoints
  <1> QED BY <1>1, <1>2, <1>3, <1>4, <1>5, <1>6, <1>7, <1>8, <1>9, <1>10
          DEF Next, Tick, Run, Steps

-----------------------------------------------------------------------------
(***************************************************************************)
(* Types, and what is in memory.                                           *)
(***************************************************************************)

Typed == TypeOK /\ InMemory

\* Schedules stay in memory as long as nothing new is referred to.
LEMMA MemoryStays ==
    ASSUME Typed, UNCHANGED <<registry, runObj>>, scan' \subseteq scan,
           tick' = "claim" => tick = "claim" /\ seen' = seen,
           \A o \in Objects : obj[o] # Unset => obj'[o] # Unset
    PROVE  InMemory'
  <1>1. \A k \in Keys : registry[k] # 0 => registry[k] \in Objects BY DEF Typed, TypeOK
  <1>2. \A item \in scan : item[2] \in Objects BY DEF Typed, TypeOK
  <1>3. tick = "claim" => seen[2] \in Objects BY DEF Typed, InMemory
  <1>4. \A r \in Runners : runObj[r] # 0 => runObj[r] \in Objects BY DEF Typed, TypeOK
  <1> QED BY <1>1, <1>2, <1>3, <1>4 DEF Typed, InMemory

\* What is saved is the schedules that are registered.
LEMMA PersistIsTyped ==
    ASSUME Persist, registry' \in [Keys -> Objects \cup {0}],
           obj' \in [Objects -> Schedules \cup {Unset}]
    PROVE  file' \in [Keys -> Schedules \cup {Unset}]
  BY DEF Persist

\* A run that goes on keeps the schedule it works on.
LEMMA PointIsTyped ==
    ASSUME TypeOK, NEW r \in Runners, NEW from \in WithObject, NEW to \in Points,
           Go(r, from, to), runObj' = runObj
    PROVE  /\ pc' \in [Runners -> Points]
           /\ \A q \in Runners : pc'[q] \in WithObject => runObj'[q] \in Objects
  BY DEF TypeOK, Go

\* The schedule a run works on.
LEMMA RunsSchedule ==
    ASSUME Typed, NEW r \in Runners, pc[r] \in WithObject
    PROVE  runObj[r] \in Objects /\ obj[runObj[r]] \in Schedules
  <1>1. runObj[r] \in Objects BY DEF Typed, TypeOK
  <1>2. runObj[r] # 0 BY <1>1 DEF Objects
  <1>3. obj[runObj[r]] # Unset BY <1>2 DEF Typed, InMemory
  <1> QED BY <1>1, <1>3 DEF Typed, TypeOK

\* The schedule a registered key holds.
LEMMA KeySchedule ==
    ASSUME Typed, NEW k \in Keys, Registered(k)
    PROVE  registry[k] \in Objects /\ obj[registry[k]] \in Schedules
  BY DEF Typed, TypeOK, InMemory, Registered

\* The push of a due schedule's next run.
LEMMA PushIsTyped ==
    ASSUME Typed, tick = "claim", obj' = Pushed
    PROVE  /\ obj' \in [Objects -> Schedules \cup {Unset}]
           /\ \A o \in Objects : obj[o] # Unset => obj'[o] # Unset
  <1>1. seen[2] \in Objects /\ obj[seen[2]] \in Schedules BY DEF Typed, InMemory, TypeOK
  <1> DEFINE s == [obj[seen[2]] EXCEPT !.next = tickNow + Interval]
  <1>2. tickNow + Interval \in Nat BY AutomationRunsAssumption DEF Typed, TypeOK
  <1>3. s \in Schedules BY <1>1, <1>2, WithNext
  <1>4. obj' = [obj EXCEPT ![seen[2]] = s] BY <1>1 DEF Pushed, Typed, TypeOK
  <1>5. obj \in [Objects -> Schedules \cup {Unset}] BY DEF Typed, TypeOK
  <1> QED BY <1>1, <1>3, <1>4, <1>5, PutSchedule

LEMMA TickKeepsTyped == ASSUME Typed, StraysOK', Tick PROVE Typed'
  <1>1. CASE BeginTick
    <2>1. InMemory'
      <3>1. \A item \in scan' : obj[item[2]] # Unset
        BY <1>1 DEF BeginTick, Typed, InMemory, Registered
      <3> QED BY <1>1, <3>1 DEF BeginTick, Typed, InMemory, schedules, runs
    <2>2. scan' \in SUBSET (Keys \X Objects)
      BY <1>1 DEF BeginTick, Typed, TypeOK, Registered
    <2>3. TypeOK'
      BY <1>1, <2>2 DEF BeginTick, Typed, TypeOK, clock, schedules, runs
    <2> QED BY <2>1, <2>3 DEF Typed
  <1>2. CASE Look
    <2>1. PICK item \in scan :
            /\ scan' = scan \ {item}
            /\ \/ tick' = "claim" /\ seen' = item
               \/ UNCHANGED <<tick, seen>>
      BY <1>2 DEF Look
    <2>2. item \in Keys \X Objects /\ obj[item[2]] # Unset
      BY DEF Typed, TypeOK, InMemory
    <2>3. InMemory' BY <1>2, <2>1, <2>2 DEF Look, Typed, InMemory, schedules, runs
    <2>4. TypeOK' BY <1>2, <2>1, <2>2 DEF Look, Typed, TypeOK, clock, schedules, runs
    <2> QED BY <2>3, <2>4 DEF Typed
  <1>3. CASE StillRunning \/ EndTick
    <2>1. /\ tick' \in {"idle", "scan"} /\ scan' \subseteq scan /\ seen' = Nothing
          /\ tickNow' \in {tickNow, 0}
          /\ UNCHANGED <<clock, schedules, file, guard, claimed, runs, inbox>>
      BY <1>3 DEF StillRunning, EndTick, TickOver
    <2>2. InMemory' BY <2>1, MemoryStays DEF schedules, runs
    <2>3. TypeOK' BY <2>1 DEF Typed, TypeOK, clock, schedules, runs
    <2> QED BY <2>2, <2>3 DEF Typed
  <1>4. CASE Fire
    <2>1. /\ obj' \in [Objects -> Schedules \cup {Unset}]
          /\ \A o \in Objects : obj[o] # Unset => obj'[o] # Unset
      BY <1>4, PushIsTyped DEF Fire
    <2>2. PICK r \in Runners :
            /\ pc' = [pc EXCEPT ![r] = "begin"]
            /\ runKey' = [runKey EXCEPT ![r] = seen[1]]
      BY <1>4 DEF Fire
    <2>3. seen[1] \in Keys BY <1>4 DEF Fire, Typed, InMemory
    <2>4. InMemory' BY <1>4, <2>1, MemoryStays DEF Fire
    <2>5. pc' \in [Runners -> Points] /\ runKey' \in [Runners -> Keys \cup {0}]
      BY <2>2, <2>3 DEF Typed, TypeOK, Points
    <2>6. \A q \in Runners : pc'[q] \in WithObject => runObj'[q] \in Objects
      BY <1>4, <2>2 DEF Fire, Typed, TypeOK, WithObject, Points
    <2>7. claimed' \in SUBSET Keys BY <1>4, <2>3 DEF Fire, Typed, TypeOK
    <2>8. TypeOK' BY <1>4, <2>1, <2>5, <2>6, <2>7 DEF Fire, Typed, TypeOK, clock
    <2> QED BY <2>4, <2>8 DEF Typed
  <1>5. CASE FireFails
    <2>1. /\ obj' \in [Objects -> Schedules \cup {Unset}]
          /\ \A o \in Objects : obj[o] # Unset => obj'[o] # Unset
      BY <1>5, PushIsTyped DEF FireFails
    <2>2. InMemory' BY <1>5, <2>1, MemoryStays DEF FireFails, TickOver, runs
    <2>3. TypeOK' BY <1>5, <2>1 DEF FireFails, TickOver, Typed, TypeOK, clock, runs
    <2> QED BY <2>2, <2>3 DEF Typed
  <1> QED BY <1>1, <1>2, <1>3, <1>4, <1>5 DEF Tick

\* A run's new version of its schedule takes the place of the old one.
LEMMA UpdateIsTyped ==
    ASSUME Typed, NEW r \in Runners, pc[r] \in WithObject,
           NEW s \in Schedules, obj' = [obj EXCEPT ![runObj[r]] = s],
           UNCHANGED <<registry, runObj, ticking>>
    PROVE  InMemory' /\ obj' \in [Objects -> Schedules \cup {Unset}]
  <1>1. obj \in [Objects -> Schedules \cup {Unset}] BY DEF Typed, TypeOK
  <1>2. /\ obj' \in [Objects -> Schedules \cup {Unset}]
        /\ \A o \in Objects : obj[o] # Unset => obj'[o] # Unset
    BY <1>1, RunsSchedule, PutSchedule
  <1> QED BY <1>2, MemoryStays DEF ticking

LEMMA BeginRunKeepsTyped ==
    ASSUME Typed, StraysOK', RunsHaveKeys, NEW r \in Runners, BeginRun(r) PROVE Typed'
  <1> DEFINE o == registry[runKey[r]]
  <1>1. runKey[r] \in Keys BY DEF BeginRun, Go, RunsHaveKeys, Running
  <1>2. o \in Objects \cup {0} /\ (o # 0 => obj[o] # Unset)
    BY <1>1 DEF Typed, TypeOK, InMemory
  <1>3. runObj' = [runObj EXCEPT ![r] = o] BY DEF BeginRun
  <1>4. runObj' \in [Runners -> Objects \cup {0}] BY <1>2, <1>3 DEF Typed, TypeOK
  <1>5. InMemory' BY <1>2, <1>3 DEF BeginRun, Typed, InMemory, TypeOK, schedules, ticking
  <1>6. PICK to \in {"release", "build", "close"} :
          pc' = [pc EXCEPT ![r] = to] /\ (o = 0 => to = "release")
    BY DEF BeginRun, Go
  <1>7. pc' \in [Runners -> Points] BY <1>6 DEF Typed, TypeOK, Points
  <1>8. \A q \in Runners : pc'[q] \in WithObject => runObj'[q] \in Objects
    BY <1>2, <1>3, <1>6 DEF Typed, TypeOK, WithObject
  <1>9. TypeOK' BY <1>4, <1>7, <1>8 DEF BeginRun, Typed, TypeOK, clock, schedules, ticking
  <1> QED BY <1>5, <1>9 DEF Typed

LEMMA RunKeepsTyped ==
    ASSUME Typed, StraysOK', RunsHaveKeys, NEW r \in Runners, Run(r) PROVE Typed'
  <1> USE DEF Typed
  <1>1. CASE BeginRun(r) BY <1>1, BeginRunKeepsTyped
  <1>2. CASE Adopt(r)
    <2>1. file' \in [Keys -> Schedules \cup {Unset}]
      BY <1>2, PersistIsTyped DEF Adopt, TypeOK
    <2>2. InMemory' BY <1>2, MemoryStays DEF Adopt, runs, ticking
    <2>3. TypeOK' BY <1>2, <2>1 DEF Adopt, TypeOK, clock, runs, ticking
    <2> QED BY <2>2, <2>3
  <1>3. CASE Build(r) \/ BuildFails(r) \/ SendFails(r)
    <2>1. PICK from \in WithObject, to \in Points : Go(r, from, to)
      BY <1>3 DEF Build, BuildFails, SendFails, WithObject, Points
    <2>2. /\ pc' \in [Runners -> Points]
          /\ \A q \in Runners : pc'[q] \in WithObject => runObj'[q] \in Objects
      BY <1>3, <2>1, PointIsTyped DEF Build, BuildFails, SendFails
    <2>3. sig' \in [Runners -> Nat] /\ failed' \in [Runners -> BOOLEAN]
      <3>1. content \in Alerts \cup {0} BY DEF TypeOK
      <3>2. content \in Nat
        <4>1. Alerts \subseteq Nat BY AutomationRunsAssumption
        <4> HIDE DEF Typed
        <4> QED BY <3>1, <4>1
      <3> QED BY <1>3, <3>2 DEF Build, BuildFails, SendFails, TypeOK
    <2>4. InMemory'
      BY <1>3, MemoryStays DEF Build, BuildFails, SendFails, schedules, ticking
    <2>5. TypeOK'
      BY <1>3, <2>2, <2>3 DEF Build, BuildFails, SendFails, TypeOK, clock, schedules, ticking
    <2> QED BY <2>4, <2>5
  <1>4. CASE Check(r)
    <2>1. pc[r] = "check" BY <1>4 DEF Check, Go
    <2>2. runObj[r] \in Objects /\ obj[runObj[r]] \in Schedules
      BY <2>1, RunsSchedule DEF WithObject, Points
    <2>3. Signature(r) \in Nat
      <3>1. Day(now) \in Nat BY DivIsNat DEF Day, TypeOK
      <3> QED BY <3>1 DEF Signature, TypeOK
    <2>4. /\ pc' \in [Runners -> Points]
          /\ \A q \in Runners : pc'[q] \in WithObject => runObj'[q] \in Objects
      <3>1. PICK to \in Points : Go(r, "check", to) BY <1>4 DEF Check, Points
      <3> QED BY <1>4, <3>1, PointIsTyped DEF Check, WithObject, Points
    <2>5. CASE sig' = [sig EXCEPT ![r] = Signature(r)] /\ UNCHANGED obj
      <3>1. InMemory' BY <1>4, <2>5, MemoryStays DEF Check, schedules, ticking
      <3>2. TypeOK' BY <1>4, <2>3, <2>4, <2>5 DEF Check, TypeOK, clock, schedules, ticking
      <3> QED BY <3>1, <3>2
    <2>6. CASE /\ obj' = [obj EXCEPT ![runObj[r]] = Checked(@, Signature(r), WantsToSend(r))]
               /\ UNCHANGED sig
      <3> DEFINE s == Checked(obj[runObj[r]], Signature(r), WantsToSend(r))
      <3>1. WantsToSend(r) \in BOOLEAN BY DEF WantsToSend
      <3>2. s \in Schedules BY <2>2, <2>3, <3>1, CheckedIsSchedule DEF TypeOK
      <3>3. obj' = [obj EXCEPT ![runObj[r]] = s] BY <2>2, <2>6 DEF TypeOK
      <3>4. UNCHANGED <<registry, runObj, ticking>> BY <1>4 DEF Check, schedules
      <3> HIDE DEF s
      <3>5. InMemory' /\ obj' \in [Objects -> Schedules \cup {Unset}]
        BY <2>1, <3>2, <3>3, <3>4, UpdateIsTyped DEF WithObject, Points
      <3>6. TypeOK' BY <1>4, <2>4, <2>6, <3>5 DEF Check, TypeOK, clock, schedules, ticking
      <3> QED BY <3>5, <3>6
    <2> QED BY <1>4, <2>5, <2>6 DEF Check, schedules
  <1>5. CASE Send(r)
    <2>1. runObj[r] \in Objects /\ obj[runObj[r]] \in Schedules
      BY <1>5, RunsSchedule DEF Send, Go, WithObject, Points
    <2>2. /\ pc' \in [Runners -> Points]
          /\ \A q \in Runners : pc'[q] \in WithObject => runObj'[q] \in Objects
      BY <1>5, PointIsTyped DEF Send, WithObject, Points
    <2>3. Delivered(obj[runObj[r]].ident, sig[r]) \in [sig : Nat, times : 1 .. 2]
      BY DEF Delivered, TypeOK
    <2>4. inbox' \in [Identities -> [sig : Nat, times : 1 .. 2] \cup {Unset}]
      BY <1>5, <2>3 DEF Send, TypeOK
    <2>5. InMemory' BY <1>5, MemoryStays DEF Send, schedules, ticking
    <2>6. TypeOK' BY <1>5, <2>2, <2>4 DEF Send, TypeOK, clock, schedules, ticking
    <2> QED BY <2>5, <2>6
  <1>6. CASE Record(r)
    <2>1. pc[r] = "record" BY <1>6 DEF Record, Go
    <2>2. runObj[r] \in Objects /\ obj[runObj[r]] \in Schedules
      BY <2>1, RunsSchedule DEF WithObject, Points
    <2>3. /\ pc' \in [Runners -> Points]
          /\ \A q \in Runners : pc'[q] \in WithObject => runObj'[q] \in Objects
      BY <1>6, PointIsTyped DEF Record, WithObject, Points
    <2> DEFINE s == [obj[runObj[r]] EXCEPT !.signed = sig[r], !.lastRun = now]
    <2>4. s \in Schedules BY <2>2, WithSigned DEF TypeOK
    <2>5. obj' = [obj EXCEPT ![runObj[r]] = s] BY <1>6, <2>2 DEF Record, TypeOK
    <2>6. UNCHANGED <<registry, runObj, ticking>> BY <1>6 DEF Record
    <2> HIDE DEF s
    <2>7. InMemory' /\ obj' \in [Objects -> Schedules \cup {Unset}]
      BY <2>1, <2>4, <2>5, <2>6, UpdateIsTyped DEF WithObject, Points
    <2>8. guard' \in [Identities -> [sig : Nat, at : Nat] \cup {Unset}]
      BY <1>6 DEF Record, TypeOK
    <2>9. TypeOK' BY <1>6, <2>3, <2>7, <2>8 DEF Record, TypeOK, clock, ticking
    <2> QED BY <2>7, <2>9
  <1>7. CASE Close(r)
    <2>1. pc[r] = "close" BY <1>7 DEF Close, Go
    <2>2. runObj[r] \in Objects /\ obj[runObj[r]] \in Schedules
      BY <2>1, RunsSchedule DEF WithObject, Points
    <2>3. /\ pc' \in [Runners -> Points]
          /\ \A q \in Runners : pc'[q] \in WithObject => runObj'[q] \in Objects
      BY <1>7, PointIsTyped DEF Close, WithObject, Points
    <2> DEFINE c == Counted(obj[runObj[r]], failed[r])
               s == IF Registered(runKey[r]) THEN Scheduled(c, failed[r], now) ELSE c
    <2>4. c \in Schedules BY <2>2, CountedIsSchedule DEF TypeOK
    <2>5. s \in Schedules
      <3> HIDE DEF c
      <3> QED BY <2>4, ScheduledIsSchedule DEF TypeOK
    <2>6. obj' = [obj EXCEPT ![runObj[r]] = s] BY <1>7 DEF Close
    <2>7. UNCHANGED <<registry, runObj, ticking>> BY <1>7 DEF Close
    <2> HIDE DEF s
    <2>8. InMemory' /\ obj' \in [Objects -> Schedules \cup {Unset}]
      BY <2>1, <2>5, <2>6, <2>7, UpdateIsTyped DEF WithObject, Points
    <2>9. TypeOK' BY <1>7, <2>3, <2>8 DEF Close, TypeOK, clock, ticking
    <2> QED BY <2>8, <2>9
  <1>8. CASE Save(r)
    <2>1. file' \in [Keys -> Schedules \cup {Unset}]
      BY <1>8, PersistIsTyped DEF Save, TypeOK
    <2>2. /\ pc' \in [Runners -> Points]
          /\ \A q \in Runners : pc'[q] \in WithObject => runObj'[q] \in Objects
      BY <1>8, PointIsTyped DEF Save, WithObject, Points
    <2>3. InMemory' BY <1>8, MemoryStays DEF Save, ticking
    <2>4. TypeOK' BY <1>8, <2>1, <2>2 DEF Save, TypeOK, clock, ticking
    <2> QED BY <2>3, <2>4
  <1>9. CASE Release(r)
    <2>1. InMemory' BY <1>9 DEF Release, InMemory, TypeOK, schedules, ticking
    <2>2. /\ pc' \in [Runners -> Points]
          /\ \A q \in Runners : pc'[q] \in WithObject => runObj'[q] \in Objects
      BY <1>9 DEF Release, Go, TypeOK, WithObject, Points
    <2>3. TypeOK' BY <1>9, <2>2 DEF Release, TypeOK, clock, schedules, ticking
    <2> QED BY <2>1, <2>3
  <1> QED BY <1>1, <1>2, <1>3, <1>4, <1>5, <1>6, <1>7, <1>8, <1>9 DEF Run, Steps

LEMMA RequestKeepsTyped ==
    ASSUME Typed, StraysOK', NEW k \in Keys, Request(k) PROVE Typed'
  <1> USE DEF Typed
  <1> DEFINE o == registry[k]
  <1>1. o \in Objects /\ obj[o] \in Schedules
    BY KeySchedule DEF Request, Edit, Stop, Move, SetEnabled
  <1>2. obj \in [Objects -> Schedules \cup {Unset}] BY DEF TypeOK
  <1>3. CASE Edit(k)
    <2>1. last + 1 \in Objects /\ last + 1 \in 0 .. MaxObjects
      BY <1>3, AutomationRunsAssumption DEF Edit, TypeOK, Objects
    <2>2. PICK at \in SendTimes :
            obj' = [obj EXCEPT ![last + 1] = Armed([ident |-> obj[o].ident, sendAt |-> at], now)]
      BY <1>3 DEF Edit
    <2>3. obj[o].ident \in Identities BY <1>1 DEF Schedules
    <2>4. Armed([ident |-> obj[o].ident, sendAt |-> at], now) \in Schedules
      BY <2>3, ArmedIsSchedule DEF TypeOK
    <2>5. /\ obj' \in [Objects -> Schedules \cup {Unset}]
          /\ obj'[last + 1] # Unset
          /\ \A p \in Objects : obj[p] # Unset => obj'[p] # Unset
      BY <1>2, <2>1, <2>2, <2>4, PutSchedule
    <2>6. registry' = [registry EXCEPT ![k] = last + 1] BY <1>3 DEF Edit
    <2>7. registry' \in [Keys -> Objects \cup {0}] BY <2>1, <2>6 DEF TypeOK
    <2>8. file' \in [Keys -> Schedules \cup {Unset}]
      BY <1>3, <2>5, <2>7, PersistIsTyped DEF Edit
    <2>9. InMemory'
      <3>1. \A l \in Keys : registry'[l] # 0 => obj'[registry'[l]] # Unset
        BY <2>5, <2>6 DEF TypeOK, InMemory
      <3>2. /\ \A item \in scan : obj'[item[2]] # Unset
            /\ tick = "claim" => seen \in Keys \X Objects /\ obj'[seen[2]] # Unset
            /\ \A r \in Runners : runObj[r] # 0 => obj'[runObj[r]] # Unset
        <4>1. \A item \in scan : item[2] \in Objects BY DEF TypeOK
        <4>2. \A r \in Runners : runObj[r] # 0 => runObj[r] \in Objects BY DEF TypeOK
        <4> QED BY <2>5, <4>1, <4>2 DEF InMemory
      <3>3. UNCHANGED <<tick, scan, seen, runObj>> BY <1>3 DEF Edit, ticking, runs
      <3> QED BY <3>1, <3>2, <3>3 DEF InMemory
    <2>10. TypeOK'
      BY <1>3, <2>1, <2>5, <2>7, <2>8 DEF Edit, TypeOK, clock, ticking, runs
    <2> QED BY <2>9, <2>10
  <1>4. CASE Stop(k)
    <2>1. registry' \in [Keys -> Objects \cup {0}] BY <1>4 DEF Stop, TypeOK
    <2>2. file' \in [Keys -> Schedules \cup {Unset}]
      BY <1>4, <1>2, <2>1, PersistIsTyped DEF Stop
    <2>3. InMemory' BY <1>4 DEF Stop, InMemory, TypeOK, ticking, runs
    <2>4. TypeOK' BY <1>4, <2>1, <2>2 DEF Stop, TypeOK, clock, ticking, runs
    <2> QED BY <2>3, <2>4
  <1>5. ASSUME NEW s \in Schedules, obj' = [obj EXCEPT ![o] = s], Persist,
               UNCHANGED <<registry, clock, last, guard, claimed, ticking, runs, inbox>>
        PROVE  Typed'
    <2>1. /\ obj' \in [Objects -> Schedules \cup {Unset}]
          /\ \A p \in Objects : obj[p] # Unset => obj'[p] # Unset
      BY <1>1, <1>2, <1>5, PutSchedule
    <2>2. file' \in [Keys -> Schedules \cup {Unset}]
      BY <1>5, <2>1, PersistIsTyped DEF TypeOK
    <2>3. InMemory' BY <1>5, <2>1, MemoryStays DEF ticking, runs
    <2>4. TypeOK' BY <1>5, <2>1, <2>2 DEF TypeOK, clock, ticking, runs
    <2> QED BY <2>3, <2>4
  <1>6. CASE Move(k)
    <2>1. PICK at \in SendTimes :
            obj' = [obj EXCEPT ![o] = Scheduled([@ EXCEPT !.sendAt = at], FALSE, now)]
      BY <1>6 DEF Move
    <2> DEFINE s == Scheduled([obj[o] EXCEPT !.sendAt = at], FALSE, now)
    <2>2. s \in Schedules
      <3>1. [obj[o] EXCEPT !.sendAt = at] \in Schedules BY <1>1, WithSendAt
      <3> QED BY <3>1, ScheduledIsSchedule DEF TypeOK
    <2>3. obj' = [obj EXCEPT ![o] = s] BY <1>1, <1>2, <2>1
    <2> HIDE DEF s
    <2> QED BY <1>5, <1>6, <2>2, <2>3 DEF Move
  <1>7. CASE SetEnabled(k)
    <2> DEFINE s == [obj[o] EXCEPT !.enabled = ~obj[o].enabled]
    <2>1. s \in Schedules BY <1>1, Toggled
    <2>2. obj' = [obj EXCEPT ![o] = s] BY <1>1, <1>2, <1>7, Zenon DEF SetEnabled
    <2> HIDE DEF s
    <2> QED BY <1>5, <1>7, <2>1, <2>2 DEF SetEnabled
  <1> QED BY <1>3, <1>4, <1>6, <1>7 DEF Request

LEMMA WorldKeepsTyped ==
    ASSUME Typed, StraysOK', Advance \/ EstateChanges \/ UNCHANGED vars PROVE Typed'
  <1>1. /\ UNCHANGED <<schedules, file, guard, claimed, ticking, runs, inbox>>
        /\ now' \in Nat /\ content' \in Alerts \cup {0}
    BY DEF Advance, EstateChanges, vars, clock, Typed, TypeOK
  <1>2. InMemory' BY <1>1 DEF Typed, InMemory, schedules, ticking, runs
  <1>3. TypeOK' BY <1>1 DEF Typed, TypeOK, schedules, ticking, runs
  <1> QED BY <1>2, <1>3 DEF Typed

LEMMA RestartKeepsTyped == ASSUME Typed, StraysOK', Restart PROVE Typed'
  <1>1. \A k \in Keys : k \in Objects /\ k # 0
    BY AutomationRunsAssumption DEF Keys, Objects
  <1>2. registry' = [k \in Keys |-> IF file[k] = Unset THEN 0 ELSE k] BY DEF Restart
  <1>3. registry' \in [Keys -> Objects \cup {0}] BY <1>1, <1>2
  <1> DEFINE resumed(s) == [Restored(s) EXCEPT !.next = ResumeTime(Restored(s), now)]
  <1>4. \A k \in Keys : file[k] # Unset => resumed(file[k]) \in Schedules
    BY ResumedIsSchedule DEF Typed, TypeOK
  <1>5. obj' = [o \in Objects |-> IF o \notin Keys THEN Unset
                                  ELSE IF file[o] = Unset THEN Unset ELSE resumed(file[o])]
    BY DEF Restart
  <1> HIDE DEF resumed
  <1>6. obj' \in [Objects -> Schedules \cup {Unset}] BY <1>4, <1>5
  <1>7. \A k \in Keys : registry'[k] # 0 => obj'[registry'[k]] # Unset
    BY <1>1, <1>2, <1>4, <1>5, AutomationRunsAssumption
  <1>8. InMemory' BY <1>7 DEF Restart, TickOver, InMemory
  <1>9. last' \in 0 .. MaxObjects BY AutomationRunsAssumption DEF Restart
  <1>10. \A r \in Runners : pc'[r] \notin WithObject BY DEF Restart, WithObject
  <1>11. TypeOK'
    BY <1>3, <1>6, <1>9, <1>10 DEF Restart, TickOver, Typed, TypeOK, clock, Points
  <1> QED BY <1>8, <1>11 DEF Typed

-----------------------------------------------------------------------------
(***************************************************************************)
(* The schedules that have strayed.                                        *)
(***************************************************************************)

LEMMA StepStrays == ASSUME Typed, RunsHaveKeys, [Next]_vars PROVE StraysOK'
<1> USE DEF StraysOK
<1>1. untimely \subseteq Objects /\ passedOver \subseteq Objects BY DEF Typed, TypeOK
<1>2. CASE UNCHANGED strays BY <1>1, <1>2 DEF strays
<1>3. CASE FireFails
  <2>1. seen[2] \in Objects BY <1>3 DEF FireFails, Typed, InMemory
  <2> QED BY <1>1, <1>3, <2>1 DEF FireFails, PutOff
<1>4. ASSUME NEW r \in Runners, BeginRun(r) PROVE StraysOK'
  <2>1. runKey[r] \in Keys BY <1>4 DEF BeginRun, Go, RunsHaveKeys, Running
  <2>2. registry[runKey[r]] \in Objects \cup {0} BY <2>1 DEF Typed, TypeOK
  <2> QED BY <1>1, <1>4, <2>2 DEF BeginRun
<1>5. ASSUME NEW r \in Runners, Close(r) PROVE StraysOK'
  BY <1>1, <1>5 DEF Close
<1>6. ASSUME NEW k \in Keys, Edit(k) PROVE StraysOK'
  <2>1. last + 1 \in Objects BY <1>6, AutomationRunsAssumption DEF Edit, Typed, TypeOK, Objects
  <2> QED BY <1>1, <1>6, <2>1 DEF Edit
<1>7. ASSUME NEW k \in Keys, Move(k) PROVE StraysOK'
  <2>1. registry[k] \in Objects BY <1>7, KeySchedule DEF Move
  <2> QED BY <1>1, <1>7, <2>1 DEF Move
<1>8. CASE Advance
  <2>1. OverMidnight \subseteq Objects BY DEF OverMidnight
  <2>2. LateRuns \subseteq Objects BY DEF LateRuns, Typed, TypeOK, WithObject, Points
  <2> QED BY <1>1, <1>8, <2>1, <2>2 DEF Advance
<1>9. CASE Restart BY <1>9 DEF Restart
<1>10. ASSUME \/ BeginTick \/ Look \/ StillRunning \/ Fire \/ EndTick \/ EstateChanges \/ UNCHANGED vars
              \/ \E r \in Runners : Adopt(r) \/ BuildFails(r) \/ Build(r) \/ Check(r) \/ Send(r)
                                    \/ SendFails(r) \/ Record(r) \/ Save(r) \/ Release(r)
              \/ \E k \in Keys : Stop(k) \/ SetEnabled(k)
       PROVE  UNCHANGED strays
  BY <1>10 DEF BeginTick, Look, StillRunning, Fire, EndTick, EstateChanges, vars, Adopt, BuildFails, Build,
     Check, Send, SendFails, Record, Save, Release, Stop, SetEnabled
<1> HIDE DEF StraysOK
<1> QED BY <1>2, <1>3, <1>4, <1>5, <1>6, <1>7, <1>8, <1>9, <1>10 DEF Next, Tick, Run, Steps, Request

-----------------------------------------------------------------------------
(***************************************************************************)
(* Theorems.                                                               *)
(***************************************************************************)

\* Every step keeps the strengthened invariant.
LEMMA StepIInv == IInv /\ [Next]_vars => IInv'
  <1> SUFFICES ASSUME IInv, [Next]_vars PROVE IInv' OBVIOUS
  <1>1. Typed /\ Claims /\ RunsHaveKeys BY DEF IInv, Typed, Claims
  <1>2. Claims' BY <1>1, NextKeepsClaims DEF Typed
  <1>3. StraysOK' BY <1>1, StepStrays
  <1>4. Typed'
    BY <1>1, <1>3, TickKeepsTyped, RunKeepsTyped, RequestKeepsTyped, WorldKeepsTyped,
       RestartKeepsTyped DEF Next
  <1> QED BY <1>2, <1>4 DEF IInv, Typed, Claims

\* The strengthened invariant holds in every reachable state.
THEOREM InductiveInvariant == Spec => []IInv
  BY InitIInv, StepIInv, PTL DEF Spec

\* Every variable keeps its type, and a run past its first step has a schedule.
THEOREM TypeCorrect == Spec => []TypeOK
  BY InductiveInvariant, PTL DEF IInv

\* A claim is held exactly while a run of its schedule is in flight: no failure,
\* stop, edit or restart leaves one behind or gives one back early.
THEOREM ClaimsAreRunsHolds == Spec => []ClaimsAreRuns
  BY InductiveInvariant, PTL DEF IInv

\* No schedule is ever run twice at a time, however slow its runs are.
THEOREM OneRunPerScheduleHolds == Spec => []OneRunPerSchedule
  BY InductiveInvariant, PTL DEF IInv

-----------------------------------------------------------------------------
(***************************************************************************)
(* When no schedule is edited, each key has one schedule object for good.  *)
(***************************************************************************)

\* Whatever refers to a schedule refers to the object of its key's number.
OwnObjects ==
    /\ \A k \in Keys : registry[k] \in {0, k}
    /\ \A item \in scan : item[1] = item[2]
    /\ tick = "claim" => seen[1] = seen[2]
    /\ \A r \in Runners : /\ runObj[r] # 0 => runObj[r] = runKey[r]
                          /\ pc[r] \in {"idle", "begin"} => runObj[r] = 0
    /\ \A k \in Keys : file[k] = Unset <=> registry[k] = 0

\* What the steps below change of a schedule, and what they keep.
LEMMA FieldsKept ==
    ASSUME NEW s \in Schedules
    PROVE  /\ \A b, t : LET n == Scheduled(s, b, t) IN
                /\ n.ident = s.ident /\ n.sendAt = s.sendAt /\ n.born = s.born /\ n.signed = s.signed
                /\ n.enabled = s.enabled /\ n.failures = s.failures /\ n.next = NextRun(s, b, t)
           /\ \A b : LET n == Counted(s, b) IN
                /\ n.ident = s.ident /\ n.sendAt = s.sendAt /\ n.born = s.born /\ n.signed = s.signed
                /\ n.enabled = s.enabled /\ n.next = s.next
           /\ \A g, b : LET n == Checked(s, g, b) IN
                /\ n.ident = s.ident /\ n.sendAt = s.sendAt /\ n.born = s.born
                /\ n.enabled = s.enabled /\ n.failures = s.failures /\ n.next = s.next
                /\ n.signed = IF b /\ IsDaily(s) THEN g ELSE s.signed
           /\ LET n == Restored(s) IN
                /\ n.ident = s.ident /\ n.sendAt = s.sendAt /\ n.born = s.born /\ n.signed = s.signed
                /\ n.enabled = s.enabled /\ n.failures = 0 /\ n.next = s.next
<1>1. \A b, t : LET n == Scheduled(s, b, t) IN
                /\ n.ident = s.ident /\ n.sendAt = s.sendAt /\ n.born = s.born /\ n.signed = s.signed
                /\ n.enabled = s.enabled /\ n.failures = s.failures /\ n.next = NextRun(s, b, t)
  BY DEF Schedules, Scheduled
<1>2. \A b : LET n == Counted(s, b) IN
                /\ n.ident = s.ident /\ n.sendAt = s.sendAt /\ n.born = s.born /\ n.signed = s.signed
                /\ n.enabled = s.enabled /\ n.next = s.next
  BY DEF Schedules, Counted
<1>3. \A g, b : LET n == Checked(s, g, b) IN
                /\ n.ident = s.ident /\ n.sendAt = s.sendAt /\ n.born = s.born
                /\ n.enabled = s.enabled /\ n.failures = s.failures /\ n.next = s.next
                /\ n.signed = IF b /\ IsDaily(s) THEN g ELSE s.signed
  BY DEF Schedules, Checked
<1>4. LET n == Restored(s) IN
                /\ n.ident = s.ident /\ n.sendAt = s.sendAt /\ n.born = s.born /\ n.signed = s.signed
                /\ n.enabled = s.enabled /\ n.failures = 0 /\ n.next = s.next
  BY DEF Schedules, Restored
<1> QED BY <1>1, <1>2, <1>3, <1>4

LEMMA KeysAreObjects == \A k \in Keys : k \in Objects /\ k # 0
BY AutomationRunsAssumption DEF Keys, Objects

LEMMA StepOwnObjects ==
    ASSUME IInv, OwnObjects, "edit" \notin Requests, [Next]_vars
    PROVE  OwnObjects'
<1> USE DEF IInv, TypeOK
<1>0. \A k \in Keys : registry[k] # 0 => registry[k] = k /\ obj[k] # Unset
  BY DEF OwnObjects, InMemory
<1>1. CASE Tick
  <2>1. CASE BeginTick
    BY <2>1 DEF BeginTick, OwnObjects, Registered, schedules, runs
  <2>2. CASE Look \/ StillRunning \/ EndTick
    BY <2>2 DEF Look, StillRunning, EndTick, TickOver, OwnObjects, schedules, runs
  <2>3. CASE Fire
    <3>1. PICK r \in Runners : /\ pc[r] = "idle" /\ pc' = [pc EXCEPT ![r] = "begin"]
                               /\ runKey' = [runKey EXCEPT ![r] = seen[1]]
      BY <2>3 DEF Fire
    <3>2. UNCHANGED <<registry, file, scan, runObj>> /\ tick' = "scan" BY <2>3 DEF Fire
    <3> QED BY <3>1, <3>2 DEF OwnObjects
  <2>4. CASE FireFails
    BY <2>4 DEF FireFails, TickOver, OwnObjects, runs
  <2> QED BY <1>1, <2>1, <2>2, <2>3, <2>4 DEF Tick
<1>2. ASSUME NEW r \in Runners, Run(r) PROVE OwnObjects'
  <2>1. CASE BeginRun(r)
    <3>1. /\ pc[r] = "begin" /\ runObj' = [runObj EXCEPT ![r] = registry[runKey[r]]]
          /\ UNCHANGED <<registry, file, scan, seen, tick, runKey>> /\ pc'[r] \notin {"idle", "begin"}
          /\ \A q \in Runners \ {r} : pc'[q] = pc[q]
      BY <2>1 DEF BeginRun, Go, schedules, ticking
    <3>2. runKey[r] \in Keys BY <3>1 DEF RunsHaveKeys, Running
    <3> QED BY <1>0, <3>1, <3>2 DEF OwnObjects
  <2>2. CASE Release(r)
    BY <2>2 DEF Release, Go, OwnObjects, schedules, ticking
  <2>3. CASE Adopt(r) \/ Save(r)
    <3>1. /\ UNCHANGED <<registry, obj, scan, seen, tick, runObj, runKey>>
          /\ \A q \in Runners : pc'[q] \in {"idle", "begin"} => pc[q] \in {"idle", "begin"}
          /\ file' = [k \in Keys |-> IF registry[k] = 0 THEN Unset ELSE obj[registry[k]]]
      BY <2>3 DEF Adopt, Save, Persist, Go, runs, ticking
    <3> QED BY <1>0, <3>1 DEF OwnObjects
  <2>4. CASE Build(r) \/ BuildFails(r) \/ Check(r) \/ Send(r) \/ SendFails(r) \/ Record(r) \/ Close(r)
    <3>1. /\ UNCHANGED <<registry, file, scan, seen, tick, runObj, runKey>>
          /\ \A q \in Runners : pc'[q] \in {"idle", "begin"} => pc[q] \in {"idle", "begin"}
      BY <2>4 DEF Build, BuildFails, Check, Send, SendFails, Record, Close, Go, schedules, ticking
    <3> QED BY <3>1 DEF OwnObjects
  <2> QED BY <1>2, <2>1, <2>2, <2>3, <2>4 DEF Run, Steps
<1>3. ASSUME NEW k \in Keys, Request(k) PROVE OwnObjects'
  <2>1. UNCHANGED <<scan, seen, tick, pc, runObj, runKey>>
    BY <1>3 DEF Request, Edit, Stop, Move, SetEnabled, ticking, runs
  <2>2. \A l \in Keys : registry'[l] \in {0, registry[l]}
    BY <1>3 DEF Request, Edit, Stop, Move, SetEnabled
  <2>3. Persist BY <1>3 DEF Request, Edit, Stop, Move, SetEnabled
  <2>4. \A l \in Keys : obj[l] # Unset => obj'[l] # Unset
    <3>1. TypeOK' /\ InMemory' BY StepIInv
    <3>2. CASE Stop(k) BY <3>2 DEF Stop
    <3>3. CASE Move(k) \/ SetEnabled(k)
      <4>1. \A l \in Objects : l # registry[k] => obj'[l] = obj[l] BY <3>3 DEF Move, SetEnabled
      <4>2. registry'[k] # 0 /\ registry' = registry BY <3>3 DEF Move, SetEnabled, Registered
      <4> QED BY <3>1, <4>1, <4>2, KeysAreObjects DEF InMemory
    <3> QED BY <1>3, <3>2, <3>3 DEF Request, Edit
  <2>5. \A l \in Keys : file'[l] = Unset <=> registry'[l] = 0
    BY <1>0, <2>2, <2>3, <2>4 DEF Persist
  <2> QED BY <2>1, <2>2, <2>5 DEF OwnObjects
<1>4. CASE Advance \/ EstateChanges \/ UNCHANGED vars
  BY <1>4 DEF Advance, EstateChanges, vars, schedules, ticking, runs, OwnObjects
<1>5. CASE Restart
  BY <1>5, KeysAreObjects DEF Restart, TickOver, OwnObjects
<1> QED BY <1>1, <1>2, <1>3, <1>4, <1>5 DEF Next

LEMMA InitOwnObjects == Init => OwnObjects
<1> SUFFICES ASSUME Init PROVE OwnObjects OBVIOUS
<1>1. PICK setup \in Setups :
          /\ registry = [k \in Keys |-> IF setup[k] = Unset THEN 0 ELSE k]
          /\ obj = [o \in Objects |->
                      IF o \notin Keys THEN Unset
                      ELSE IF setup[o] = Unset THEN Unset ELSE Armed(setup[o], 0)]
  BY DEF Init
<1>2. \A k \in Keys : registry[k] # 0 => registry[k] = k /\ obj[k] # Unset
  BY <1>1, InitIInv DEF IInv, InMemory
<1>3. \A k \in Keys : registry[k] = 0 => obj[k] = Unset BY <1>1, KeysAreObjects
<1> QED BY <1>1, <1>2, <1>3 DEF Init, OwnObjects, Nothing

\* The schedule of a run is its key's.
LEMMA RunObject ==
    ASSUME IInv, OwnObjects, NEW r \in Runners, pc[r] \in WithObject
    PROVE  /\ runObj[r] = runKey[r] /\ runKey[r] \in Keys /\ runObj[r] \in Objects
           /\ obj[runObj[r]] \in Schedules /\ obj[runObj[r]] # Unset
<1>1. runObj[r] \in Objects /\ obj[runObj[r]] \in Schedules BY RunsSchedule DEF IInv, Typed
<1>2. runObj[r] # 0 BY <1>1 DEF Objects
<1>3. Running(r) BY DEF Running, WithObject
<1> QED BY <1>1, <1>2, <1>3, AutomationRunsAssumption DEF OwnObjects, IInv, RunsHaveKeys

\* The steps that change when a schedule runs next.
Replanned(o) ==
    \/ (Fire \/ FireFails) /\ seen[2] = o
    \/ \E r \in Runners : Close(r) /\ runObj[r] = o
    \/ \E k \in Keys : Move(k) /\ registry[k] = o

\* A schedule stays in memory and remains what it was armed as.
AsArmed(o) ==
    /\ obj'[o] = Unset <=> obj[o] = Unset
    /\ obj[o] # Unset =>
          /\ obj'[o].ident = obj[o].ident /\ obj'[o].born = obj[o].born
          /\ \/ obj'[o].signed = obj[o].signed
             \/ \E r \in Runners : (Check(r) \/ Record(r)) /\ runObj[r] = o
          /\ \/ obj'[o].next = obj[o].next /\ obj'[o].failures = obj[o].failures
             \/ Replanned(o)
          /\ obj'[o].sendAt = obj[o].sendAt \/ \E k \in Keys : Move(k) /\ registry[k] = o
          /\ ("pause" \in Requests \/ obj'[o].enabled = obj[o].enabled)

\* Every step of the process keeps every schedule, but the one that an edit brings.
LEMMA SchedulesKept ==
    ASSUME IInv, ~Restart, [Next]_vars, NEW p \in Objects, ~(p = last + 1 /\ \E k \in Keys : Edit(k))
    PROVE  AsArmed(p)
<1> USE DEF IInv, AsArmed
<1>0. obj \in [Objects -> Schedules \cup {Unset}] /\ Unset \notin Schedules /\ now \in Nat
  BY AutomationRunsAssumption DEF TypeOK
<1>1. ASSUME UNCHANGED obj PROVE AsArmed(p) BY <1>1
<1>2. ASSUME NEW x \in Objects, obj[x] \in Schedules, NEW n, obj' = [obj EXCEPT ![x] = n], n \in Schedules,
             n.ident = obj[x].ident, n.born = obj[x].born,
             n.signed = obj[x].signed \/ \E r \in Runners : (Check(r) \/ Record(r)) /\ runObj[r] = x,
             \/ n.next = obj[x].next /\ n.failures = obj[x].failures
             \/ Replanned(x),
             n.sendAt = obj[x].sendAt \/ \E k \in Keys : Move(k) /\ registry[k] = x,
             "pause" \in Requests \/ n.enabled = obj[x].enabled
      PROVE  AsArmed(p)
  <2>1. CASE p = x
    <3>1. obj'[p] = n /\ n # Unset /\ obj[p] # Unset BY <1>0, <1>2, <2>1
    <3> QED BY <1>2, <2>1, <3>1
  <2>2. CASE p # x
    <3>1. obj'[p] = obj[p] BY <1>0, <1>2, <2>2
    <3> QED BY <3>1
  <2> QED BY <2>1, <2>2
<1>3. CASE Fire \/ FireFails
  <2> DEFINE n == [obj[seen[2]] EXCEPT !.next = tickNow + Interval]
  <2>1. tick = "claim" /\ obj' = Pushed BY <1>3 DEF Fire, FireFails
  <2>2. seen[2] \in Objects /\ obj[seen[2]] \in Schedules BY <1>0, <2>1 DEF InMemory
  <2>3. tickNow + Interval \in Nat BY AutomationRunsAssumption DEF TypeOK
  <2>4. n \in Schedules BY <2>2, <2>3, WithNext
  <2>5. obj' = [obj EXCEPT ![seen[2]] = n] BY <1>0, <2>1, <2>2 DEF Pushed
  <2>6. /\ n.ident = obj[seen[2]].ident /\ n.born = obj[seen[2]].born /\ n.signed = obj[seen[2]].signed
        /\ n.sendAt = obj[seen[2]].sendAt /\ n.enabled = obj[seen[2]].enabled
    BY <2>2 DEF Schedules
  <2>7. Replanned(seen[2]) BY <1>3 DEF Replanned
  <2> HIDE DEF n
  <2> QED BY <1>2, <2>2, <2>4, <2>5, <2>6, <2>7
<1>4. ASSUME NEW r \in Runners, Check(r) PROVE AsArmed(p)
  <2>1. pc[r] = "check" BY <1>4 DEF Check, Go
  <2>2. runObj[r] \in Objects /\ obj[runObj[r]] \in Schedules
    BY <2>1, RunsSchedule DEF WithObject, Points, Typed
  <2>3. CASE UNCHANGED obj BY <1>1, <2>3
  <2>4. CASE obj' = [obj EXCEPT ![runObj[r]] = Checked(@, Signature(r), WantsToSend(r))]
    <3> DEFINE n == Checked(obj[runObj[r]], Signature(r), WantsToSend(r))
    <3>1. Signature(r) \in Nat
      <4>1. Day(now) \in Nat BY <1>0, DivIsNat DEF Day
      <4> QED BY <4>1 DEF Signature, TypeOK
    <3>2. WantsToSend(r) \in BOOLEAN BY DEF WantsToSend
    <3>3. n \in Schedules BY <1>0, <2>2, <3>1, <3>2, CheckedIsSchedule
    <3>4. obj' = [obj EXCEPT ![runObj[r]] = n] BY <1>0, <2>2, <2>4
    <3>5. /\ n.ident = obj[runObj[r]].ident /\ n.born = obj[runObj[r]].born
          /\ n.sendAt = obj[runObj[r]].sendAt /\ n.enabled = obj[runObj[r]].enabled
          /\ n.next = obj[runObj[r]].next /\ n.failures = obj[runObj[r]].failures
      BY <2>2, FieldsKept
    <3> HIDE DEF n
    <3> QED BY <1>2, <1>4, <2>2, <3>3, <3>4, <3>5
  <2> QED BY <1>4, <2>3, <2>4 DEF Check, schedules
<1>5. ASSUME NEW r \in Runners, Record(r) PROVE AsArmed(p)
  <2>1. pc[r] = "record" BY <1>5 DEF Record, Go
  <2>2. runObj[r] \in Objects /\ obj[runObj[r]] \in Schedules
    BY <2>1, RunsSchedule DEF WithObject, Points, Typed
  <2> DEFINE n == [obj[runObj[r]] EXCEPT !.signed = sig[r], !.lastRun = now]
  <2>3. n \in Schedules BY <1>0, <2>2, WithSigned DEF TypeOK
  <2>4. obj' = [obj EXCEPT ![runObj[r]] = n] BY <1>0, <1>5, <2>2 DEF Record
  <2>5. /\ n.ident = obj[runObj[r]].ident /\ n.born = obj[runObj[r]].born
        /\ n.sendAt = obj[runObj[r]].sendAt /\ n.enabled = obj[runObj[r]].enabled
        /\ n.next = obj[runObj[r]].next /\ n.failures = obj[runObj[r]].failures
    BY <2>2 DEF Schedules
  <2> HIDE DEF n
  <2> QED BY <1>2, <1>5, <2>2, <2>3, <2>4, <2>5
<1>6. ASSUME NEW r \in Runners, Close(r) PROVE AsArmed(p)
  <2>1. pc[r] = "close" BY <1>6 DEF Close, Go
  <2>2. runObj[r] \in Objects /\ obj[runObj[r]] \in Schedules
    BY <2>1, RunsSchedule DEF WithObject, Points, Typed
  <2> DEFINE c == Counted(obj[runObj[r]], failed[r])
             n == IF Registered(runKey[r]) THEN Scheduled(c, failed[r], now) ELSE c
  <2>3. c \in Schedules BY <2>2, CountedIsSchedule DEF TypeOK
  <2>4. /\ c.ident = obj[runObj[r]].ident /\ c.born = obj[runObj[r]].born /\ c.signed = obj[runObj[r]].signed
        /\ c.sendAt = obj[runObj[r]].sendAt /\ c.enabled = obj[runObj[r]].enabled
    BY <2>2, FieldsKept
  <2>5. obj' = [obj EXCEPT ![runObj[r]] = n] BY <1>6 DEF Close
  <2>6. n \in Schedules /\ n.ident = c.ident /\ n.born = c.born /\ n.signed = c.signed
        /\ n.sendAt = c.sendAt /\ n.enabled = c.enabled
    <3> HIDE DEF c
    <3> QED BY <1>0, <2>3, ScheduledIsSchedule, FieldsKept DEF TypeOK
  <2>7. Replanned(runObj[r]) BY <1>6 DEF Replanned
  <2> HIDE DEF c, n
  <2> QED BY <1>2, <2>2, <2>4, <2>5, <2>6, <2>7
<1>7. ASSUME NEW k \in Keys, Move(k) PROVE AsArmed(p)
  <2>1. registry[k] \in Objects /\ obj[registry[k]] \in Schedules
    BY <1>7, KeySchedule DEF Move, Typed
  <2>2. PICK at \in SendTimes : obj' = [obj EXCEPT ![registry[k]] = Scheduled([@ EXCEPT !.sendAt = at], FALSE, now)]
    BY <1>7 DEF Move
  <2> DEFINE m == [obj[registry[k]] EXCEPT !.sendAt = at]
             n == Scheduled(m, FALSE, now)
  <2>3. m \in Schedules BY <2>1, WithSendAt
  <2>4. /\ m.ident = obj[registry[k]].ident /\ m.born = obj[registry[k]].born /\ m.signed = obj[registry[k]].signed
        /\ m.enabled = obj[registry[k]].enabled
    BY <2>1 DEF Schedules
  <2>5. obj' = [obj EXCEPT ![registry[k]] = n] BY <1>0, <2>1, <2>2
  <2>6. Replanned(registry[k]) /\ \E l \in Keys : Move(l) /\ registry[l] = registry[k]
    BY <1>7 DEF Replanned
  <2>7. n \in Schedules /\ n.ident = m.ident /\ n.born = m.born /\ n.signed = m.signed /\ n.enabled = m.enabled
    <3> HIDE DEF m
    <3>1. n \in Schedules BY <1>0, <2>3, ScheduledIsSchedule
    <3>2. \A b, t : LET c == Scheduled(m, b, t) IN
                /\ c.ident = m.ident /\ c.born = m.born /\ c.signed = m.signed
                /\ c.enabled = m.enabled
      BY <2>3, FieldsKept
    <3> QED BY <3>1, <3>2
  <2> HIDE DEF m, n
  <2> QED BY <1>2, <2>1, <2>4, <2>5, <2>6, <2>7
<1>8. ASSUME NEW k \in Keys, SetEnabled(k) PROVE AsArmed(p)
  <2>1. registry[k] \in Objects /\ obj[registry[k]] \in Schedules
    BY <1>8, KeySchedule DEF SetEnabled, Typed
  <2> DEFINE n == [obj[registry[k]] EXCEPT !.enabled = ~obj[registry[k]].enabled]
  <2>2. obj' = [obj EXCEPT ![registry[k]] = n] BY <1>0, <1>8, <2>1, Zenon DEF SetEnabled
  <2>3. n \in Schedules BY <2>1, Toggled
  <2>4. /\ n.ident = obj[registry[k]].ident /\ n.born = obj[registry[k]].born
        /\ n.signed = obj[registry[k]].signed /\ n.sendAt = obj[registry[k]].sendAt
        /\ n.next = obj[registry[k]].next /\ n.failures = obj[registry[k]].failures
    BY <2>1 DEF Schedules
  <2>5. "pause" \in Requests BY <1>8 DEF SetEnabled
  <2> HIDE DEF n
  <2> QED BY <1>2, <2>1, <2>2, <2>3, <2>4, <2>5
<1>9. ASSUME \/ BeginTick \/ Look \/ StillRunning \/ EndTick \/ Advance \/ EstateChanges \/ UNCHANGED vars
             \/ \E r \in Runners : BeginRun(r) \/ Build(r) \/ Send(r) \/ Save(r) \/ Release(r)
                                   \/ Adopt(r) \/ BuildFails(r) \/ SendFails(r)
             \/ \E k \in Keys : Stop(k)
      PROVE  UNCHANGED obj
  BY <1>9 DEF BeginTick, Look, StillRunning, EndTick, Advance, EstateChanges, vars, schedules,
     BeginRun, Build, Send, Save, Release, Adopt, BuildFails, SendFails, Stop
<1>10. ASSUME NEW k \in Keys, Edit(k) PROVE AsArmed(p)
  <2>1. p # last + 1 BY <1>10
  <2>2. obj'[p] = obj[p] BY <1>0, <1>10, <2>1 DEF Edit
  <2> QED BY <2>2
<1> HIDE DEF AsArmed, IInv
<1> QED BY <1>1, <1>3, <1>4, <1>5, <1>6, <1>7, <1>8, <1>9, <1>10 DEF Next, Tick, Run, Steps, Request

\* Of schedules that are not edited, by requests that are not made.
LEMMA SchedulesStay ==
    ASSUME IInv, ~Restart, "edit" \notin Requests, [Next]_vars
    PROVE  \A o \in Objects :
              /\ obj'[o] = Unset <=> obj[o] = Unset
              /\ obj[o] # Unset =>
                    /\ obj'[o].ident = obj[o].ident /\ obj'[o].born = obj[o].born
                    /\ \/ obj'[o].signed = obj[o].signed
                       \/ \E r \in Runners : (Check(r) \/ Record(r)) /\ runObj[r] = o
                    /\ ("move" \in Requests \/ obj'[o].sendAt = obj[o].sendAt)
                    /\ ("pause" \in Requests \/ obj'[o].enabled = obj[o].enabled)
<1> SUFFICES ASSUME NEW o \in Objects
             PROVE
              /\ obj'[o] = Unset <=> obj[o] = Unset
              /\ obj[o] # Unset =>
                    /\ obj'[o].ident = obj[o].ident /\ obj'[o].born = obj[o].born
                    /\ \/ obj'[o].signed = obj[o].signed
                       \/ \E r \in Runners : (Check(r) \/ Record(r)) /\ runObj[r] = o
                    /\ ("move" \in Requests \/ obj'[o].sendAt = obj[o].sendAt)
                    /\ ("pause" \in Requests \/ obj'[o].enabled = obj[o].enabled)
  OBVIOUS
<1>1. AsArmed(o) BY SchedulesKept DEF Edit
<1>2. "move" \notin Requests => ~\E k \in Keys : Move(k) BY DEF Move
<1> QED BY <1>1, <1>2 DEF AsArmed

-----------------------------------------------------------------------------
(***************************************************************************)
(* No email twice, while no schedule is edited, no two are each other's    *)
(* twins, and the process does not die in the middle of a run.             *)
(***************************************************************************)

NoTwins ==
    \A setup \in Setups, k, l \in Keys :
        setup[k] # Unset /\ setup[l] # Unset /\ setup[k].ident = setup[l].ident => k = l

\* Each identity has one schedule.
OwnIdentities ==
    \A k, l \in Keys : obj[k] # Unset /\ obj[l] # Unset /\ obj[k].ident = obj[l].ident => k = l

\* g is the email last received from an identity, 0 for none.
Known(i, g) == IF inbox[i] = Unset THEN g = 0 ELSE inbox[i].sig = g

\* A schedule has signed what it last sent, but for a run about to record it.
Remembered ==
    \A k \in Keys :
        obj[k] # Unset /\ (\A r \in Runners : pc[r] = "record" => runObj[r] # k)
        => Known(obj[k].ident, obj[k].signed)

\* What is remembered of an identity agrees with its schedule.
GuardAgrees ==
    \A k \in Keys :
        obj[k] # Unset /\ guard[obj[k].ident] # Unset => guard[obj[k].ident].sig = obj[k].signed

\* The file agrees with a schedule, but for a run that has still to save.
Unsaved == {"record", "close", "save"}

FileAgrees ==
    \A k \in Keys : file[k] # Unset =>
        /\ obj[k] # Unset /\ file[k].ident = obj[k].ident
        /\ (\A r \in Runners : pc[r] \in Unsaved => runObj[r] # k) => file[k].signed = obj[k].signed

\* An email is sent when it is not the one signed, and recorded when it was received.
SendsAreNew ==
    \A r \in Runners :
        /\ pc[r] = "send" => sig[r] # obj[runObj[r]].signed
        /\ pc[r] = "record" => LET i == obj[runObj[r]].ident IN
                               inbox[i] # Unset /\ inbox[i].sig = sig[r]

SentInv == OwnIdentities /\ Remembered /\ GuardAgrees /\ FileAgrees /\ SendsAreNew /\ NoRepeatedEmail

LEMMA InitSentInv == NoTwins /\ Init => SentInv
<1> SUFFICES ASSUME NoTwins, Init PROVE SentInv OBVIOUS
<1>1. PICK setup \in Setups :
          /\ registry = [k \in Keys |-> IF setup[k] = Unset THEN 0 ELSE k]
          /\ obj = [o \in Objects |->
                      IF o \notin Keys THEN Unset
                      ELSE IF setup[o] = Unset THEN Unset ELSE Armed(setup[o], 0)]
  BY DEF Init
<1>2. \A k \in Keys : obj[k] = IF setup[k] = Unset THEN Unset ELSE Armed(setup[k], 0)
  BY <1>1, KeysAreObjects
<1>3. \A k \in Keys : obj[k] # Unset =>
          setup[k] # Unset /\ obj[k].ident = setup[k].ident /\ obj[k].signed = 0 /\ obj[k].ident \in Identities
  <2> SUFFICES ASSUME NEW k \in Keys, obj[k] # Unset
               PROVE  /\ setup[k] # Unset /\ obj[k].ident = setup[k].ident /\ obj[k].signed = 0
                      /\ obj[k].ident \in Identities
    OBVIOUS
  <2>1. setup[k] # Unset /\ obj[k] = Armed(setup[k], 0) BY <1>2
  <2>2. setup[k] \in [ident : Identities, sendAt : SendTimes] BY <2>1, AutomationRunsAssumption
  <2> DEFINE fresh == [ident |-> setup[k].ident, sendAt |-> setup[k].sendAt, born |-> 0, signed |-> 0,
                       next |-> 0, enabled |-> TRUE, failures |-> 0, lastRun |-> 0]
             n == NextRun(fresh, FALSE, 0)
  <2>3. obj[k] = [fresh EXCEPT !.next = n] BY <2>1 DEF Armed, Scheduled
  <2> HIDE DEF n
  <2> QED BY <2>1, <2>2, <2>3
<1>4. OwnIdentities BY <1>3 DEF OwnIdentities, NoTwins
<1>5. Remembered /\ GuardAgrees BY <1>3 DEF Init, Remembered, GuardAgrees, Known
<1>6. \A k \in Keys : file[k] = obj[k] BY DEF Init
<1> QED BY <1>4, <1>5, <1>6 DEF Init, SentInv, FileAgrees, SendsAreNew, NoRepeatedEmail

\* A step that sends and signs nothing keeps all of it.
LEMMA SentStays ==
    ASSUME SentInv,
           \A o \in Keys : /\ obj'[o] = Unset <=> obj[o] = Unset
                           /\ obj[o] # Unset => obj'[o].ident = obj[o].ident /\ obj'[o].signed = obj[o].signed,
           UNCHANGED <<guard, inbox>>,
           \A r \in Runners : /\ pc'[r] = "record" <=> pc[r] = "record"
                              /\ pc[r] = "record" => runObj[r] \in Keys /\ obj[runObj[r]] # Unset
                                                     /\ runObj'[r] = runObj[r] /\ sig'[r] = sig[r]
                              /\ pc'[r] = "send" => sig'[r] # obj'[runObj'[r]].signed,
           \A k \in Keys : file'[k] \in {Unset, file[k], obj'[k]},
           \/ \A k \in Keys : file'[k] \in {Unset, obj'[k]}
           \/ \A r \in Runners : pc[r] \in Unsaved => pc'[r] \in Unsaved /\ runObj'[r] = runObj[r]
    PROVE  SentInv'
<1>1. OwnIdentities' BY DEF SentInv, OwnIdentities
<1>2. Remembered' BY DEF SentInv, Remembered, Known
<1>3. GuardAgrees' BY DEF SentInv, GuardAgrees
<1>4. FileAgrees' BY DEF SentInv, FileAgrees
<1>5. SendsAreNew' BY DEF SentInv, SendsAreNew
<1>6. NoRepeatedEmail' BY DEF SentInv, NoRepeatedEmail
<1> QED BY <1>1, <1>2, <1>3, <1>4, <1>5, <1>6 DEF SentInv

\* Nothing an own-object registry saves is another schedule's.
LEMMA SavedOwn ==
    ASSUME Persist, \A k \in Keys : registry'[k] \in {0, k}
    PROVE  \A k \in Keys : file'[k] \in {Unset, obj'[k]}
BY DEF Persist

\* While a run is past its start, no other run has its schedule.
LEMMA RunsApart ==
    ASSUME IInv, OwnObjects, NEW q \in Runners, NEW r \in Runners,
           pc[q] \in WithObject, pc[r] \in WithObject, runObj[q] = runObj[r]
    PROVE  q = r
<1>1. runKey[q] = runKey[r] BY RunObject
<1> QED BY <1>1 DEF IInv, OneRunPerSchedule, Running, WithObject

\* What is remembered is right, so nothing suppressed here differs from what was signed.
LEMMA CheckKeepsSigned ==
    ASSUME IInv, OwnObjects, SentInv, NEW r \in Runners, Check(r)
    PROVE  \A k \in Keys : /\ obj'[k] = Unset <=> obj[k] = Unset
                           /\ obj[k] # Unset => obj'[k].ident = obj[k].ident /\ obj'[k].signed = obj[k].signed
<1>1. pc[r] = "check" BY DEF Check, Go
<1> DEFINE o == runObj[r]  s == obj[o]
<1>2. o \in Keys /\ o \in Objects /\ s \in Schedules /\ s # Unset
  BY <1>1, RunObject DEF WithObject, Points
<1>3. CASE UNCHANGED obj BY <1>3
<1>4. CASE /\ ~WantsToSend(r) \/ SentByTwin(r)
           /\ obj' = [obj EXCEPT ![o] = Checked(@, Signature(r), WantsToSend(r))]
  <2>1. WantsToSend(r) => Signature(r) # s.signed BY DEF WantsToSend
  <2>2. SentByTwin(r) => guard[s.ident] # Unset /\ guard[s.ident].sig = Signature(r) BY DEF SentByTwin
  <2>3. guard[s.ident] # Unset => guard[s.ident].sig = s.signed BY <1>2 DEF SentInv, GuardAgrees
  <2>4. ~WantsToSend(r) BY <1>4, <2>1, <2>2, <2>3
  <2> DEFINE n == Checked(s, Signature(r), WantsToSend(r))
  <2>5. n.ident = s.ident /\ n.signed = s.signed BY <1>2, <2>4, FieldsKept
  <2>6. n \in Schedules
    <3>1. now \in Nat /\ Day(now) \in Nat BY DivIsNat DEF IInv, TypeOK, Day
    <3>2. Signature(r) \in Nat BY <3>1 DEF Signature, IInv, TypeOK
    <3>3. WantsToSend(r) \in BOOLEAN BY DEF WantsToSend
    <3> QED BY <1>2, <3>1, <3>2, <3>3, CheckedIsSchedule
  <2> HIDE DEF n
  <2>7. obj' = [obj EXCEPT ![o] = n] /\ obj \in [Objects -> Schedules \cup {Unset}]
    BY <1>4 DEF n, IInv, TypeOK
  <2>8. n # Unset BY <2>6, AutomationRunsAssumption
  <2>9. n.ident = obj[o].ident /\ n.signed = obj[o].signed /\ obj[o] # Unset BY <1>2, <2>5
  <2> HIDE DEF o
  <2>10. obj'[o] = n /\ \A k \in Keys : k # o => obj'[k] = obj[k] BY <1>2, <2>7, KeysAreObjects
  <2> QED BY <2>8, <2>9, <2>10
<1> QED BY <1>3, <1>4 DEF Check, schedules

\* A run that checks decides to send only what its schedule has not signed.
LEMMA CheckKeepsSent ==
    ASSUME IInv, OwnObjects, SentInv, NEW r \in Runners, Check(r) PROVE SentInv'
<1>1. /\ pc[r] = "check" /\ pc' = [pc EXCEPT ![r] = pc'[r]] /\ pc'[r] \in {"send", "close"}
      /\ UNCHANGED <<guard, inbox, file, runObj>>
      /\ \A q \in Runners \ {r} : sig'[q] = sig[q]
  BY DEF Check, Go, schedules, IInv, TypeOK
<1>2. \A k \in Keys : /\ obj'[k] = Unset <=> obj[k] = Unset
                      /\ obj[k] # Unset => obj'[k].ident = obj[k].ident /\ obj'[k].signed = obj[k].signed
  BY CheckKeepsSigned
<1>3. pc'[r] = "send" => sig'[r] # obj'[runObj'[r]].signed
  BY <1>1 DEF Check, Go, WantsToSend, schedules, IInv, TypeOK
<1>4. \A q \in Runners \ {r} : pc'[q] = pc[q] BY <1>1 DEF IInv, TypeOK
<1>5. \A q \in Runners : pc[q] \in {"send", "record"} =>
          runObj[q] \in Keys /\ obj[runObj[q]] # Unset /\ q # r
  BY <1>1, RunObject DEF WithObject, Points
<1>6. \A q \in Runners : /\ pc'[q] = "record" <=> pc[q] = "record"
                         /\ pc[q] = "record" => runObj[q] \in Keys /\ obj[runObj[q]] # Unset
                                                /\ runObj'[q] = runObj[q] /\ sig'[q] = sig[q]
                         /\ pc'[q] = "send" => sig'[q] # obj'[runObj'[q]].signed
  BY <1>1, <1>2, <1>3, <1>4, <1>5 DEF SentInv, SendsAreNew
<1>7. \A q \in Runners : pc[q] \in Unsaved => pc'[q] \in Unsaved /\ runObj'[q] = runObj[q]
  BY <1>1, <1>4 DEF Unsaved
<1> QED BY <1>1, <1>2, <1>6, <1>7, SentStays

\* What is received was not the email before it.
LEMMA SendKeepsSent ==
    ASSUME IInv, OwnObjects, SentInv, NEW r \in Runners, Send(r) PROVE SentInv'
<1> DEFINE o == runObj[r]  i == obj[o].ident
<1>1. /\ pc[r] = "send" /\ pc' = [pc EXCEPT ![r] = "record"]
      /\ inbox' = [inbox EXCEPT ![i] = Delivered(i, sig[r])]
      /\ UNCHANGED <<obj, file, guard, runObj, sig>>
  BY DEF Send, Go, schedules
<1>2. /\ o \in Keys /\ obj[o] # Unset /\ obj[o] \in Schedules
      /\ \A q \in Runners : pc[q] = "record" => q # r /\ runObj[q] # o /\ runObj[q] \in Keys
                                                /\ obj[runObj[q]] # Unset
  BY <1>1, RunObject, RunsApart DEF WithObject, Points
<1>3. i \in Identities BY <1>2 DEF Schedules
<1>4. Known(i, obj[o].signed) /\ sig[r] # obj[o].signed
  BY <1>1, <1>2 DEF SentInv, Remembered, SendsAreNew
<1>5. inbox'[i] = [sig |-> sig[r], times |-> 1]
  BY <1>1, <1>3, <1>4 DEF Known, Delivered, IInv, TypeOK
<1>6. \A j \in Identities : j # i => inbox'[j] = inbox[j] BY <1>1 DEF IInv, TypeOK
<1>7. inbox'[i] # Unset
  <2>1. [sig |-> sig[r], times |-> 1] \in [sig : Nat, times : 1 .. 2] BY DEF IInv, TypeOK
  <2> QED BY <1>5, <2>1, AutomationRunsAssumption
<1>8. \A k \in Keys : obj[k] # Unset => obj[k].ident \in Identities BY KeysAreObjects DEF IInv, TypeOK, Schedules
<1>9. OwnIdentities' BY <1>1 DEF SentInv, OwnIdentities
<1>10. Remembered'
  <2> SUFFICES ASSUME NEW k \in Keys, obj[k] # Unset,
                      \A q \in Runners : pc'[q] = "record" => runObj[q] # k
               PROVE  Known(obj[k].ident, obj[k].signed)'
    BY <1>1 DEF Remembered
  <2>1. k # o BY <1>1 DEF IInv, TypeOK
  <2>2. obj[k].ident # i BY <1>2, <2>1 DEF SentInv, OwnIdentities
  <2>3. Known(obj[k].ident, obj[k].signed) BY <1>1 DEF SentInv, Remembered, IInv, TypeOK
  <2> QED BY <1>1, <1>6, <1>8, <2>2, <2>3 DEF Known
<1>11. GuardAgrees' BY <1>1 DEF SentInv, GuardAgrees
<1>12. FileAgrees' BY <1>1 DEF SentInv, FileAgrees, Unsaved, IInv, TypeOK
<1>13. SendsAreNew'
  <2>1. ASSUME NEW q \in Runners, pc'[q] = "send" PROVE sig[q] # obj[runObj[q]].signed
    BY <1>1, <2>1 DEF SentInv, SendsAreNew, IInv, TypeOK
  <2>2. ASSUME NEW q \in Runners, pc'[q] = "record"
        PROVE  inbox'[obj[runObj[q]].ident] # Unset /\ inbox'[obj[runObj[q]].ident].sig = sig[q]
    <3>1. CASE q = r BY <1>5, <1>7, <3>1
    <3>2. CASE q # r
      <4>1. pc[q] = "record" BY <1>1, <2>2, <3>2 DEF IInv, TypeOK
      <4>2. obj[runObj[q]].ident # i BY <1>2, <4>1 DEF SentInv, OwnIdentities
      <4>3. inbox[obj[runObj[q]].ident] # Unset /\ inbox[obj[runObj[q]].ident].sig = sig[q]
        BY <4>1 DEF SentInv, SendsAreNew
      <4> QED BY <1>2, <1>6, <1>8, <4>1, <4>2, <4>3
    <3> QED BY <3>1, <3>2
  <2> QED BY <1>1, <2>1, <2>2 DEF SendsAreNew
<1>14. NoRepeatedEmail' BY <1>5, <1>6 DEF SentInv, NoRepeatedEmail
<1> QED BY <1>9, <1>10, <1>11, <1>12, <1>13, <1>14 DEF SentInv

\* What was received is signed, and remembered of its identity.
LEMMA RecordKeepsSent ==
    ASSUME IInv, OwnObjects, SentInv, NEW r \in Runners, Record(r) PROVE SentInv'
<1> DEFINE o == runObj[r]  i == obj[o].ident
           n == [obj[o] EXCEPT !.signed = sig[r], !.lastRun = now]
           g == [sig |-> sig[r], at |-> now]
<1>1. /\ pc[r] = "record" /\ pc' = [pc EXCEPT ![r] = "close"]
      /\ guard' = [guard EXCEPT ![i] = g]
      /\ UNCHANGED <<inbox, file, runObj, sig>>
  BY DEF Record, Go
<1>2. /\ o \in Keys /\ o \in Objects /\ obj[o] # Unset /\ obj[o] \in Schedules
      /\ \A q \in Runners : pc[q] \in {"send", "record"} /\ q # r =>
            runObj[q] # o /\ runObj[q] \in Keys /\ obj[runObj[q]] # Unset
  BY <1>1, RunObject, RunsApart DEF WithObject, Points
<1>3. i \in Identities BY <1>2 DEF Schedules
<1>4. Known(i, sig[r]) BY <1>1 DEF SentInv, SendsAreNew, Known
<1>5. n \in Schedules BY <1>2, WithSigned DEF IInv, TypeOK
<1>6. n.ident = i /\ n.signed = sig[r] BY <1>2 DEF Schedules
<1>7. obj' = [obj EXCEPT ![o] = n] BY <1>2 DEF Record, IInv, TypeOK
<1>8. n # Unset BY <1>5, AutomationRunsAssumption
<1>9. guard'[i] = g /\ g.sig = sig[r] /\ \A j \in Identities : j # i => guard'[j] = guard[j]
  BY <1>1, <1>3 DEF IInv, TypeOK
<1> HIDE DEF n, g
<1>10. obj'[o] = n /\ \A k \in Keys : k # o => obj'[k] = obj[k]
  BY <1>2, <1>7, KeysAreObjects DEF IInv, TypeOK
<1>11. \A k \in Keys : obj[k] # Unset => obj[k].ident \in Identities /\ (k # o => obj[k].ident # i)
  BY <1>2, KeysAreObjects DEF IInv, TypeOK, Schedules, SentInv, OwnIdentities
<1>12. \A k \in Keys : /\ obj'[k] = Unset <=> obj[k] = Unset
                       /\ obj[k] # Unset => obj'[k].ident = obj[k].ident
                       /\ k # o => obj'[k] = obj[k]
  BY <1>2, <1>6, <1>8, <1>10
<1> HIDE DEF i, o
<1>13. OwnIdentities' BY <1>12 DEF SentInv, OwnIdentities
<1>14. \A q \in Runners : /\ q # r => pc'[q] = pc[q]
                          /\ q = r => pc'[q] = "close"
  BY <1>1 DEF IInv, TypeOK
<1>15. Remembered'
  <2> SUFFICES ASSUME NEW k \in Keys, obj'[k] # Unset,
                      \A q \in Runners : pc'[q] = "record" => runObj[q] # k
               PROVE  Known(obj'[k].ident, obj'[k].signed)
    BY <1>1 DEF Remembered, Known
  <2>1. CASE k = o BY <1>4, <1>6, <1>10, <2>1
  <2>2. CASE k # o
    <3>1. \A q \in Runners : pc[q] = "record" => runObj[q] # k BY <1>14, <2>2 DEF o
    <3> QED BY <1>12, <2>2, <3>1 DEF SentInv, Remembered
  <2> QED BY <2>1, <2>2
<1>16. GuardAgrees'
  <2> SUFFICES ASSUME NEW k \in Keys, obj'[k] # Unset, guard'[obj'[k].ident] # Unset
               PROVE  guard'[obj'[k].ident].sig = obj'[k].signed
    BY DEF GuardAgrees
  <2>1. CASE k = o BY <1>6, <1>9, <1>10, <2>1
  <2>2. CASE k # o BY <1>9, <1>11, <1>12, <2>2 DEF SentInv, GuardAgrees
  <2> QED BY <2>1, <2>2
<1>17. FileAgrees'
  <2> SUFFICES ASSUME NEW k \in Keys, file[k] # Unset
               PROVE  /\ obj'[k] # Unset /\ file[k].ident = obj'[k].ident
                      /\ (\A q \in Runners : pc'[q] \in Unsaved => runObj[q] # k) => file[k].signed = obj'[k].signed
    BY <1>1 DEF FileAgrees
  <2>1. CASE k = o BY <1>12, <1>14, <2>1 DEF SentInv, FileAgrees, Unsaved, o
  <2>2. CASE k # o
    <3>1. (\A q \in Runners : pc'[q] \in Unsaved => runObj[q] # k)
          => \A q \in Runners : pc[q] \in Unsaved => runObj[q] # k
      BY <1>14, <2>2 DEF o
    <3> QED BY <1>12, <2>2, <3>1 DEF SentInv, FileAgrees
  <2> QED BY <2>1, <2>2
<1>18. SendsAreNew'
  <2>1. ASSUME NEW q \in Runners, pc'[q] \in {"send", "record"}
        PROVE  q # r /\ pc'[q] = pc[q] /\ runObj[q] \in Keys /\ obj[runObj[q]] # Unset
               /\ obj'[runObj[q]] = obj[runObj[q]]
    BY <1>2, <1>12, <1>14, <2>1
  <2> QED BY <1>1, <2>1 DEF SentInv, SendsAreNew
<1>19. NoRepeatedEmail' BY <1>1 DEF SentInv, NoRepeatedEmail
<1> QED BY <1>13, <1>15, <1>16, <1>17, <1>18, <1>19 DEF SentInv

\* A restarted process knows what was saved, and nothing was left to save.
LEMMA RestartKeepsSent ==
    ASSUME IInv, SentInv, Restart, AllIdle PROVE SentInv'
<1> DEFINE resumed(s) == [Restored(s) EXCEPT !.next = ResumeTime(Restored(s), now)]
<1>1. \A k \in Keys : file[k] # Unset =>
          /\ file[k] \in Schedules /\ resumed(file[k]) \in Schedules /\ resumed(file[k]) # Unset
          /\ resumed(file[k]).ident = file[k].ident /\ resumed(file[k]).signed = file[k].signed
  <2> SUFFICES ASSUME NEW k \in Keys, file[k] # Unset
               PROVE  /\ file[k] \in Schedules
                      /\ resumed(file[k]) \in Schedules /\ resumed(file[k]) # Unset
                      /\ resumed(file[k]).ident = file[k].ident /\ resumed(file[k]).signed = file[k].signed
    OBVIOUS
  <2>1. file[k] \in Schedules /\ now \in Nat BY DEF IInv, TypeOK
  <2>2. resumed(file[k]) \in Schedules BY <2>1, ResumedIsSchedule
  <2> DEFINE c == Restored(file[k])  t == ResumeTime(c, now)
  <2>3. c \in Schedules
    <3>1. 0 \in 0 .. Len(RetryWaits) BY AutomationRunsAssumption
    <3> QED BY <2>1, <3>1, WithFailures DEF Restored
  <2>4. c.ident = file[k].ident /\ c.signed = file[k].signed BY <2>1, FieldsKept
  <2>5. resumed(file[k]) = [c EXCEPT !.next = t] OBVIOUS
  <2> HIDE DEF c, t
  <2>6. [c EXCEPT !.next = t].ident = c.ident /\ [c EXCEPT !.next = t].signed = c.signed
    BY <2>3 DEF Schedules
  <2> HIDE DEF resumed
  <2> QED BY <2>1, <2>2, <2>4, <2>5, <2>6, AutomationRunsAssumption
<1>2. \A k \in Keys : obj'[k] = IF file[k] = Unset THEN Unset ELSE resumed(file[k])
  BY KeysAreObjects DEF Restart
<1> HIDE DEF resumed
<1>3. \A k \in Keys : file[k] # Unset =>
          obj[k] # Unset /\ file[k].ident = obj[k].ident /\ file[k].signed = obj[k].signed
  BY DEF SentInv, FileAgrees, Unsaved, AllIdle
<1>4. \A k \in Keys : obj'[k] # Unset =>
          /\ obj[k] # Unset /\ obj'[k].ident = obj[k].ident /\ obj'[k].signed = obj[k].signed
          /\ obj'[k].ident \in Identities
  <2> SUFFICES ASSUME NEW k \in Keys, obj'[k] # Unset
               PROVE  /\ obj[k] # Unset /\ obj'[k].ident = obj[k].ident /\ obj'[k].signed = obj[k].signed
                      /\ obj'[k].ident \in Identities
    OBVIOUS
  <2>1. file[k] # Unset /\ obj'[k] = resumed(file[k]) BY <1>2
  <2>2. file[k].ident \in Identities BY <1>1, <2>1 DEF Schedules
  <2> QED BY <1>1, <1>3, <2>1, <2>2
<1>5. /\ UNCHANGED <<file, inbox>> /\ \A r \in Runners : pc'[r] = "idle"
      /\ \A i \in Identities : guard'[i] = Unset
  BY DEF Restart
<1>6. OwnIdentities' BY <1>4 DEF SentInv, OwnIdentities
<1>7. Remembered' BY <1>4, <1>5 DEF SentInv, Remembered, Known, AllIdle
<1>8. GuardAgrees' BY <1>4, <1>5 DEF GuardAgrees
<1>9. FileAgrees' BY <1>1, <1>2, <1>5 DEF FileAgrees
<1>10. SendsAreNew' BY <1>5 DEF SendsAreNew
<1>11. NoRepeatedEmail' BY <1>5 DEF SentInv, NoRepeatedEmail
<1> QED BY <1>6, <1>7, <1>8, <1>9, <1>10, <1>11 DEF SentInv

LEMMA StepSentInv ==
    ASSUME IInv, OwnObjects, SentInv, "edit" \notin Requests, "crash" \notin Faults, [Next]_vars
    PROVE  SentInv'
<1>0. OwnObjects' BY StepOwnObjects
<1>1. CASE Restart
  <2>1. AllIdle BY <1>1 DEF Restart
  <2> QED BY <1>1, <2>1, RestartKeepsSent
<1>2. CASE \E r \in Runners : Check(r) \/ Send(r) \/ Record(r)
  BY <1>2, CheckKeepsSent, SendKeepsSent, RecordKeepsSent
<1>3. CASE ~Restart /\ ~\E r \in Runners : Check(r) \/ Send(r) \/ Record(r)
  <2>1. \A o \in Keys : /\ obj'[o] = Unset <=> obj[o] = Unset
                        /\ obj[o] # Unset => obj'[o].ident = obj[o].ident /\ obj'[o].signed = obj[o].signed
    BY <1>3, SchedulesStay, KeysAreObjects
  <2>2. UNCHANGED <<guard, inbox>>
    <3>1. CASE Tick BY <3>1 DEF Tick, BeginTick, Look, StillRunning, Fire, FireFails, EndTick
    <3>2. CASE \E r \in Runners : Run(r)
      BY <1>3, <3>2 DEF Run, Steps, BeginRun, Adopt, BuildFails, Build, SendFails, Close, Save, Release
    <3>3. CASE \E k \in Keys : Request(k)
      BY <3>3 DEF Request, Edit, Stop, Move, SetEnabled
    <3>4. CASE Advance \/ EstateChanges \/ UNCHANGED vars BY <3>4 DEF Advance, EstateChanges, vars
    <3> QED BY <1>3, <3>1, <3>2, <3>3, <3>4 DEF Next
  <2> DEFINE Tidy(r) == /\ pc'[r] = "record" <=> pc[r] = "record"
                        /\ pc'[r] = "send" => pc[r] = "send"
                        /\ pc[r] \in {"record", "send"} => runObj'[r] = runObj[r] /\ sig'[r] = sig[r]
             Kept(r) == pc[r] \in Unsaved => pc'[r] \in Unsaved /\ runObj'[r] = runObj[r]
  <2>3. /\ \A r \in Runners : Tidy(r)
        /\ Persist \/ (UNCHANGED file /\ \A r \in Runners : Kept(r))
    <3> USE DEF IInv, TypeOK, Unsaved
    <3>1. ASSUME UNCHANGED runs PROVE \A r \in Runners : Tidy(r) /\ Kept(r) BY <3>1 DEF runs
    <3>2. CASE Fire
      <4>1. PICK r \in Runners : pc[r] = "idle" /\ pc' = [pc EXCEPT ![r] = "begin"] BY <3>2 DEF Fire
      <4>2. UNCHANGED <<file, runObj, sig>> BY <3>2 DEF Fire
      <4> QED BY <4>1, <4>2
    <3>3. CASE Tick /\ ~Fire
      <4>1. UNCHANGED <<runs, file>> BY <3>3 DEF Tick, BeginTick, Look, StillRunning, FireFails, EndTick
      <4> QED BY <3>1, <4>1
    <3>4. ASSUME NEW r \in Runners, BeginRun(r) \/ Build(r) \/ BuildFails(r) \/ SendFails(r) \/ Close(r)
          PROVE  UNCHANGED file /\ \A q \in Runners : Tidy(q) /\ Kept(q)
      <4>1. /\ UNCHANGED file /\ pc[r] # "record" /\ pc'[r] \notin {"record", "send"}
            /\ pc' = [pc EXCEPT ![r] = pc'[r]]
            /\ pc[r] = "send" => UNCHANGED <<runObj, sig>>
            /\ pc[r] \in Unsaved => UNCHANGED runObj /\ pc'[r] \in Unsaved
            /\ \A q \in Runners \ {r} : runObj'[q] = runObj[q] /\ sig'[q] = sig[q]
        BY <3>4 DEF BeginRun, Build, BuildFails, SendFails, Close, Go
      <4>2. \A q \in Runners \ {r} : pc'[q] = pc[q] BY <4>1
      <4> QED BY <4>1, <4>2
    <3>5. ASSUME NEW r \in Runners, Save(r) PROVE Persist /\ \A q \in Runners : Tidy(q)
      BY <3>5 DEF Save, Go
    <3>6. ASSUME NEW r \in Runners, Release(r) PROVE UNCHANGED file /\ \A q \in Runners : Tidy(q) /\ Kept(q)
      BY <3>6 DEF Release, Go
    <3>7. ASSUME NEW r \in Runners, Adopt(r) PROVE UNCHANGED runs /\ Persist BY <3>7 DEF Adopt
    <3>8. ASSUME NEW k \in Keys, Request(k) PROVE UNCHANGED runs /\ Persist
      BY <3>8 DEF Request, Edit, Stop, Move, SetEnabled
    <3>9. CASE Advance \/ EstateChanges \/ UNCHANGED vars
      <4>1. UNCHANGED <<runs, file>> BY <3>9 DEF Advance, EstateChanges, vars
      <4> QED BY <3>1, <4>1
    <3>10. CASE \E r \in Runners : Run(r)
      <4>1. PICK r \in Runners : Run(r) BY <3>10
      <4>2. \/ BeginRun(r) \/ Build(r) \/ BuildFails(r) \/ SendFails(r) \/ Close(r)
            \/ Save(r) \/ Release(r) \/ Adopt(r)
        BY <1>3, <4>1 DEF Run, Steps
      <4> HIDE DEF Tidy, Kept
      <4> QED BY <3>1, <3>4, <3>5, <3>6, <3>7, <4>2
    <3>11. CASE \E k \in Keys : Request(k) BY <3>1, <3>8, <3>11
    <3> HIDE DEF Tidy, Kept
    <3> QED BY <1>3, <3>2, <3>3, <3>9, <3>10, <3>11 DEF Next
  <2>4. \A k \in Keys : file'[k] \in {Unset, file[k], obj'[k]}
    BY <1>0, <2>3, SavedOwn DEF OwnObjects
  <2>5. \/ \A k \in Keys : file'[k] \in {Unset, obj'[k]}
        \/ \A r \in Runners : Kept(r)
    BY <1>0, <2>3, SavedOwn DEF OwnObjects
  <2>6. \A r \in Runners : pc[r] \in {"send", "record"} => runObj[r] \in Keys /\ obj[runObj[r]] # Unset
    BY RunObject DEF WithObject, Points
  <2>7. \A r \in Runners : /\ pc'[r] = "record" <=> pc[r] = "record"
                           /\ pc[r] = "record" => runObj[r] \in Keys /\ obj[runObj[r]] # Unset
                                                  /\ runObj'[r] = runObj[r] /\ sig'[r] = sig[r]
                           /\ pc'[r] = "send" => sig'[r] # obj'[runObj'[r]].signed
    BY <2>1, <2>3, <2>6 DEF SentInv, SendsAreNew
  <2> QED BY <2>1, <2>2, <2>4, <2>5, <2>7, SentStays
<1> QED BY <1>1, <1>2, <1>3

\* No recipient gets the same report, or the same alert twice in a row: through
\* failed sends, retries, stops, moves, pauses, restarts between runs, and reports
\* built long before they are sent.
THEOREM NoRepeatedEmailHolds ==
    ASSUME NoTwins, "edit" \notin Requests, "crash" \notin Faults
    PROVE  Spec => []NoRepeatedEmail
<1>1. Init => IInv /\ OwnObjects /\ SentInv BY InitIInv, InitOwnObjects, InitSentInv
<1>2. IInv /\ OwnObjects /\ SentInv /\ [Next]_vars => (IInv /\ OwnObjects /\ SentInv)'
  BY StepIInv, StepOwnObjects, StepSentInv
<1>3. SentInv => NoRepeatedEmail BY DEF SentInv
<1> QED BY <1>1, <1>2, <1>3, PTL DEF Spec

-----------------------------------------------------------------------------
(***************************************************************************)
(* Days and send times.                                                    *)
(***************************************************************************)

DayStart(t) == (t \div DayLength) * DayLength

\* The send time of t's day has come, and the schedule was armed before it.
Ripe(s, t) == s.born < SendTime(s, t) /\ SendTime(s, t) <= t

LEMMA Days ==
    ASSUME NEW t \in Nat
    PROVE  /\ DayStart(t) \in Nat /\ DayStart(t) <= t /\ t < DayStart(t) + DayLength
           /\ Midnight(t) = DayStart(t) + DayLength
           /\ Day(t) \in Nat /\ (Day(t) - 1) * DayLength = DayStart(t)
<1> DEFINE d == t \div DayLength
<1>1. d \in Nat /\ d * DayLength <= t /\ t < d * DayLength + DayLength
  BY AutomationRunsAssumption, SMT
<1>2. d * DayLength \in Nat BY <1>1, ProductIsNat, AutomationRunsAssumption
<1>3. (d + 1) * DayLength = d * DayLength + DayLength BY <1>1, AutomationRunsAssumption, SMT
<1>4. Day(t) = d + 1 /\ DayStart(t) = d * DayLength BY DEF Day, DayStart
<1>5. Midnight(t) = (d + 1) * DayLength BY <1>4 DEF Midnight
<1>6. Day(t) - 1 = d BY <1>1, <1>4
<1> HIDE DEF d
<1> QED BY <1>1, <1>2, <1>3, <1>4, <1>5, <1>6

\* A day holds the times from its start to the next day's.
LEMMA DayOf ==
    ASSUME NEW u \in Nat, NEW d \in Nat, d * DayLength <= u, u < d * DayLength + DayLength
    PROVE  Day(u) = d + 1 /\ DayStart(u) = d * DayLength
<1>1. u \div DayLength = d BY AutomationRunsAssumption, SMT
<1> QED BY <1>1 DEF Day, DayStart

LEMMA SameDay ==
    ASSUME NEW t \in Nat, NEW u \in Nat, DayStart(t) <= u, u < DayStart(t) + DayLength
    PROVE  Day(u) = Day(t) /\ DayStart(u) = DayStart(t)
<1>1. t \div DayLength \in Nat BY DivIsNat
<1> QED BY <1>1, DayOf DEF DayStart, Day

LEMMA NextDay ==
    ASSUME NEW t \in Nat, NEW u \in Nat,
           DayStart(t) + DayLength <= u, u < DayStart(t) + DayLength + DayLength
    PROVE  Day(u) = Day(t) + 1 /\ DayStart(u) = DayStart(t) + DayLength
<1> DEFINE d == t \div DayLength
<1>1. d \in Nat BY DivIsNat
<1>2. (d + 1) * DayLength = d * DayLength + DayLength BY <1>1, AutomationRunsAssumption, SMT
<1>3. DayStart(t) = d * DayLength /\ Day(t) = d + 1 BY DEF DayStart, Day
<1> HIDE DEF d
<1> QED BY <1>1, <1>2, <1>3, DayOf

LEMMA SendAtInDay ==
    ASSUME NEW s \in Schedules
    PROVE  s.sendAt \in Nat /\ 0 < s.sendAt /\ s.sendAt < DayLength /\ s.born \in Nat /\ s.signed \in Nat
           /\ s.next \in Nat
<1>1. s.sendAt \in SendTimes /\ s.born \in Nat /\ s.signed \in Nat /\ s.next \in Nat BY DEF Schedules
<1>2. SendTimes \subseteq 1 .. DayLength - 1 /\ DayLength \in Nat \ {0} BY AutomationRunsAssumption
<1>3. s.sendAt \in 1 .. DayLength - 1 BY <1>1, <1>2
<1> QED BY <1>1, <1>2, <1>3

\* Once ripe, a schedule stays it for the day.
LEMMA RipeForTheDay ==
    ASSUME NEW s, NEW t, NEW u, Ripe(s, t), Day(t) = Day(u), t \in Nat, u \in Nat, t <= u,
           s.sendAt \in Nat
    PROVE  Ripe(s, u)
<1>1. (Day(t) - 1) * DayLength = DayStart(t) /\ (Day(u) - 1) * DayLength = DayStart(u) BY Days
<1>2. DayStart(t) = DayStart(u) BY <1>1
<1>3. SendTime(s, t) = DayStart(t) + s.sendAt /\ SendTime(s, u) = DayStart(u) + s.sendAt
  BY DEF SendTime, DayStart
<1>4. DayStart(t) \in Nat BY Days
<1> QED BY <1>2, <1>3, <1>4 DEF Ripe

\* What is planned for a ripe time is ripe on the day it comes due.
LEMMA RipeWhenDue ==
    ASSUME NEW s \in Schedules, NEW n \in Nat, NEW t \in Nat, Ripe(s, n), DayStart(t) <= n, n <= t
    PROVE  Ripe(s, t)
<1>1. DayStart(t) \in Nat /\ t < DayStart(t) + DayLength BY Days
<1>2. n < DayStart(t) + DayLength BY <1>1, AutomationRunsAssumption
<1>3. Day(n) = Day(t) BY <1>2, SameDay
<1> QED BY <1>3, RipeForTheDay, SendAtInDay

\* The next send time is a ripe one, at the latest tomorrow's.
LEMMA NextSendRipe ==
    ASSUME NEW s \in Schedules, NEW t \in Nat, s.born <= t
    PROVE  LET n == NextSend(s, t) IN
           /\ n \in Nat /\ Ripe(s, n) /\ DayStart(t) <= n /\ n < Midnight(t) + DayLength
           /\ t < SendTime(s, t) => n < Midnight(t)
<1> DEFINE b == DayStart(t)
<1>1. /\ b \in Nat /\ b <= t /\ t < b + DayLength /\ Midnight(t) = b + DayLength
      /\ DayLength \in Nat \ {0}
  BY Days, AutomationRunsAssumption
<1>2. s.sendAt \in Nat /\ 0 < s.sendAt /\ s.sendAt < DayLength /\ s.born \in Nat BY SendAtInDay
<1>3. SendTime(s, t) = b + s.sendAt BY DEF SendTime, DayStart
<1> HIDE DEF b
<1>4. CASE SendTime(s, t) <= t
  <2> DEFINE n == b + s.sendAt + DayLength
  <2>1. NextSend(s, t) = n BY <1>3, <1>4 DEF NextSend
  <2>2. n \in Nat /\ b + DayLength <= n /\ n < b + DayLength + DayLength BY <1>1, <1>2
  <2>3. DayStart(n) = b + DayLength
    <3> HIDE DEF n
    <3> QED BY <2>2, NextDay DEF b
  <2>4. SendTime(s, n) = DayStart(n) + s.sendAt BY DEF SendTime, DayStart
  <2>5. SendTime(s, n) = n BY <1>1, <1>2, <2>3, <2>4
  <2>6. s.born < n BY <1>1, <1>2, <1>3
  <2> HIDE DEF n
  <2>7. Ripe(s, n) BY <2>2, <2>5, <2>6 DEF Ripe
  <2>8. b <= n /\ n < Midnight(t) + DayLength BY <1>1, <2>2
  <2>9. ~(t < SendTime(s, t)) BY <1>1, <1>2, <1>3, <1>4
  <2> QED BY <2>1, <2>2, <2>7, <2>8, <2>9 DEF b
<1>5. CASE t < SendTime(s, t)
  <2> DEFINE n == b + s.sendAt
  <2>1. NextSend(s, t) = n BY <1>1, <1>2, <1>3, <1>5 DEF NextSend
  <2>2. n \in Nat /\ b <= n /\ n < b + DayLength BY <1>1, <1>2
  <2>3. DayStart(n) = b
    <3> HIDE DEF n
    <3> QED BY <2>2, SameDay DEF b
  <2>4. SendTime(s, n) = DayStart(n) + s.sendAt BY DEF SendTime, DayStart
  <2>5. SendTime(s, n) = n BY <2>3, <2>4
  <2>6. s.born < n BY <1>1, <1>2, <1>3, <1>5
  <2> HIDE DEF n
  <2>7. Ripe(s, n) BY <2>2, <2>5, <2>6 DEF Ripe
  <2>8. n < Midnight(t) /\ n < Midnight(t) + DayLength BY <1>1, <2>2
  <2> QED BY <2>1, <2>2, <2>7, <2>8 DEF b
<1>6. SendTime(s, t) <= t \/ t < SendTime(s, t) BY <1>1, <1>2, <1>3
<1> QED BY <1>4, <1>5, <1>6

LEMMA RetryWaitIsNat == ASSUME NEW s \in Schedules PROVE RetryWait(s) \in Nat
<1>1. /\ s.failures \in 0 .. Len(RetryWaits)
      /\ RetryWaits \in Seq(Nat \ {0}) /\ RetryWaits # <<>>
  BY AutomationRunsAssumption DEF Schedules
<1>2. Len(RetryWaits) \in Nat /\ Len(RetryWaits) # 0 BY <1>1
<1>3. \A i \in 1 .. Len(RetryWaits) : RetryWaits[i] \in Nat BY <1>1
<1> QED BY <1>1, <1>2, <1>3 DEF RetryWait

\* A retry is a ripe time as well, and today's unless none fits before midnight.
LEMMA RetryRipe ==
    ASSUME NEW s \in Schedules, NEW t \in Nat, Ripe(s, t)
    PROVE  LET n == RetryTime(s, t) IN
           /\ n \in Nat /\ Ripe(s, n) /\ DayStart(t) <= n /\ n < Midnight(t) + DayLength
           /\ n < Midnight(t) \/ t + RetryWait(s) >= Midnight(t)
<1>1. /\ DayStart(t) \in Nat /\ DayStart(t) <= t /\ t < DayStart(t) + DayLength
      /\ Midnight(t) = DayStart(t) + DayLength /\ DayLength \in Nat \ {0}
  BY Days, AutomationRunsAssumption
<1>2. s.sendAt \in Nat /\ s.born \in Nat /\ RetryWait(s) \in Nat BY SendAtInDay, RetryWaitIsNat
<1>3. SendTime(s, t) = DayStart(t) + s.sendAt BY DEF SendTime, DayStart
<1>4. s.born <= t BY <1>1, <1>2, <1>3 DEF Ripe
<1>5. CASE t + RetryWait(s) < Midnight(t)
  <2> DEFINE n == t + RetryWait(s)
  <2>1. RetryTime(s, t) = n BY <1>5 DEF RetryTime
  <2>2. n \in Nat /\ t <= n /\ DayStart(t) <= n /\ n < DayStart(t) + DayLength BY <1>1, <1>2, <1>5
  <2>3. n < Midnight(t) /\ n < Midnight(t) + DayLength BY <1>1, <2>2
  <2> HIDE DEF n
  <2>4. Day(n) = Day(t) BY <2>2, SameDay
  <2>5. Ripe(s, n) BY <1>2, <2>2, <2>4, RipeForTheDay
  <2> QED BY <2>1, <2>2, <2>3, <2>5
<1>6. CASE t + RetryWait(s) >= Midnight(t)
  <2>1. ~(t + RetryWait(s) < Midnight(t)) BY <1>1, <1>2, <1>6
  <2>2. RetryTime(s, t) = NextSend(s, t) BY <2>1 DEF RetryTime
  <2> QED BY <1>4, <1>6, <2>2, NextSendRipe
<1>7. t + RetryWait(s) < Midnight(t) \/ t + RetryWait(s) >= Midnight(t) BY <1>1, <1>2
<1> QED BY <1>5, <1>6, <1>7

\* When the send time of a day has not come or comes to nothing, no report is owed for it.
NotOwed(s, t) == s.signed = Day(t) \/ s.born >= SendTime(s, t)

\* The next run of a daily report is at a ripe time, and today if one is still owed.
LEMMA NextRunRipe ==
    ASSUME NEW s \in Schedules, IsDaily(s), NEW t \in Nat, NEW b \in BOOLEAN, s.born <= t
    PROVE  LET n == NextRun(s, b, t) IN
           /\ n \in Nat /\ Ripe(s, n) /\ DayStart(t) <= n /\ n < Midnight(t) + DayLength
           /\ b => n < Midnight(t) \/ NotOwed(s, t) \/ t + RetryWait(s) >= Midnight(t)
<1>1. CASE b /\ Owed(s, t)
  <2>1. Ripe(s, t) BY <1>1 DEF Owed, Ripe
  <2>2. NextRun(s, b, t) = RetryTime(s, t) BY <1>1 DEF NextRun
  <2> QED BY <2>1, <2>2, RetryRipe
<1>2. CASE ~(b /\ Owed(s, t))
  <2>1. NextRun(s, b, t) = NextSend(s, t) BY <1>2 DEF NextRun
  <2>2. SendTime(s, t) \in Nat /\ s.born \in Nat
    <3>1. SendTime(s, t) = DayStart(t) + s.sendAt BY DEF SendTime, DayStart
    <3> QED BY <3>1, Days, SendAtInDay
  <2>3. b => t < SendTime(s, t) \/ NotOwed(s, t) BY <1>2, <2>2 DEF Owed, NotOwed
  <2> QED BY <2>1, <2>3, NextSendRipe
<1> QED BY <1>1, <1>2

LEMMA ResumeRipe ==
    ASSUME NEW s \in Schedules, IsDaily(s), NEW t \in Nat, s.born <= t
    PROVE  LET n == ResumeTime(s, t) IN
           /\ n \in Nat /\ Ripe(s, n) /\ DayStart(t) <= n /\ n < Midnight(t) + DayLength
           /\ n < Midnight(t) \/ NotOwed(s, t)
<1>1. /\ DayStart(t) \in Nat /\ DayStart(t) <= t /\ t < DayStart(t) + DayLength
      /\ Midnight(t) = DayStart(t) + DayLength /\ DayLength \in Nat \ {0}
  BY Days, AutomationRunsAssumption
<1>2. CASE Owed(s, t)
  <2>1. Ripe(s, t) BY <1>2 DEF Owed, Ripe
  <2>2. ResumeTime(s, t) = t BY <1>2 DEF ResumeTime
  <2> QED BY <1>1, <2>1, <2>2
<1>3. CASE ~Owed(s, t)
  <2>1. ResumeTime(s, t) = NextSend(s, t) BY <1>3 DEF ResumeTime
  <2>2. SendTime(s, t) \in Nat /\ s.born \in Nat
    <3>1. SendTime(s, t) = DayStart(t) + s.sendAt BY DEF SendTime, DayStart
    <3> QED BY <3>1, Days, SendAtInDay
  <2>3. t < SendTime(s, t) \/ NotOwed(s, t) BY <1>3, <2>2 DEF Owed, NotOwed
  <2> QED BY <2>1, <2>3, NextSendRipe
<1> QED BY <1>2, <1>3

-----------------------------------------------------------------------------
(***************************************************************************)
(* How runs and plans move while the process runs.                         *)
(***************************************************************************)

\* A run that has still to plan the next one.
Early == {"begin"} \cup Working

\* The schedule it works on, or will when it begins.
Subject(r) == IF pc[r] = "begin" THEN registry[runKey[r]] ELSE runObj[r]

LEMMA RunsMove ==
    ASSUME IInv, ~Restart, [Next]_vars, NEW r \in Runners
    PROVE  /\ pc'[r] \in Early =>
                \/ /\ pc[r] \in Early /\ runKey'[r] = runKey[r]
                   /\ \/ Subject(r)' = Subject(r)
                      \/ pc[r] = "begin" /\ pc'[r] = "begin" /\ registry'[runKey[r]] # registry[runKey[r]]
                \/ Fire /\ pc'[r] = "begin" /\ runKey'[r] = seen[1]
           /\ pc'[r] \in {"send", "record"} =>
                \/ pc[r] \in {"send", "record"} /\ sig'[r] = sig[r] /\ runObj'[r] = runObj[r]
                \/ pc'[r] = "send" /\ Check(r)
           /\ pc[r] \in Early => \/ pc'[r] \in Early /\ runKey'[r] = runKey[r]
                                 \/ Close(r)
                                 \/ pc[r] = "begin" /\ registry[runKey[r]] = 0
<1> USE DEF IInv, TypeOK, Early, Working, WithObject, Points, Subject
<1> DEFINE Moves(q) ==
           /\ pc'[q] \in Early =>
                \/ /\ pc[q] \in Early /\ runKey'[q] = runKey[q]
                   /\ \/ Subject(q)' = Subject(q)
                      \/ pc[q] = "begin" /\ pc'[q] = "begin" /\ registry'[runKey[q]] # registry[runKey[q]]
                \/ Fire /\ pc'[q] = "begin" /\ runKey'[q] = seen[1]
           /\ pc'[q] \in {"send", "record"} =>
                \/ pc[q] \in {"send", "record"} /\ sig'[q] = sig[q] /\ runObj'[q] = runObj[q]
                \/ pc'[q] = "send" /\ Check(q)
           /\ pc[q] \in Early => \/ pc'[q] \in Early /\ runKey'[q] = runKey[q]
                                 \/ Close(q)
                                 \/ pc[q] = "begin" /\ registry[runKey[q]] = 0
<1> SUFFICES Moves(r) OBVIOUS
<1>1. ASSUME UNCHANGED <<pc, runKey, runObj, sig>> PROVE Moves(r) BY <1>1
<1>2. CASE Fire
  <2>1. PICK q \in Runners : /\ pc[q] = "idle" /\ pc' = [pc EXCEPT ![q] = "begin"]
                             /\ runKey' = [runKey EXCEPT ![q] = seen[1]]
    BY <1>2 DEF Fire
  <2>2. UNCHANGED <<runObj, sig>> BY <1>2 DEF Fire
  <2>3. seen[1] \in Keys BY <1>2 DEF Fire, InMemory
  <2> QED BY <1>2, <2>1, <2>2, <2>3
<1>3. CASE Tick /\ ~Fire
  <2>1. UNCHANGED <<pc, runKey, runObj, sig>>
    BY <1>3 DEF Tick, BeginTick, Look, StillRunning, FireFails, EndTick, runs
  <2> QED BY <1>1, <2>1
<1>4. ASSUME NEW q \in Runners, Run(q) PROVE Moves(r)
  <2>1. CASE q # r
    <3>1. /\ pc'[r] = pc[r] /\ runKey'[r] = runKey[r]
          /\ pc[r] # "idle" => runObj'[r] = runObj[r] /\ sig'[r] = sig[r]
      BY <1>4, <2>1 DEF Run, Steps, BeginRun, Adopt, BuildFails, Build, Check, Send, SendFails, Record,
         Close, Save, Release, Go, runs
    <3> QED BY <3>1
  <2>2. CASE q = r
    <3>1. CASE BeginRun(r)
      <4>1. /\ pc[r] = "begin" /\ pc'[r] \in {"release", "build", "close"} /\ runKey'[r] = runKey[r]
            /\ pc'[r] = "release" <=> registry[runKey[r]] = 0
            /\ runObj'[r] = registry[runKey[r]]
        BY <3>1 DEF BeginRun, Go
      <4> QED BY <4>1
    <3>2. CASE Build(r) BY <3>2 DEF Build, Go
    <3>3. CASE BuildFails(r) BY <3>3 DEF BuildFails, Go
    <3>4. CASE Check(r)
      <4>1. /\ pc[r] = "check" /\ pc'[r] \in {"send", "close"} /\ runKey'[r] = runKey[r]
            /\ runObj'[r] = runObj[r]
        BY <3>4 DEF Check, Go
      <4> QED BY <3>4, <4>1
    <3>5. CASE Send(r) BY <3>5 DEF Send, Go
    <3>6. CASE SendFails(r) BY <3>6 DEF SendFails, Go
    <3>7. CASE Record(r) BY <3>7 DEF Record, Go
    <3>8. CASE Close(r)
      <4>1. pc[r] = "close" /\ pc'[r] = "save" /\ runKey'[r] = runKey[r] BY <3>8 DEF Close, Go
      <4> QED BY <3>8, <4>1
    <3>9. CASE Save(r) BY <3>9 DEF Save, Go
    <3>10. CASE Release(r) BY <3>10 DEF Release, Go
    <3>11. CASE Adopt(r)
      <4>1. UNCHANGED <<pc, runKey, runObj, sig>> BY <3>11 DEF Adopt, runs
      <4> QED BY <1>1, <4>1
    <3> HIDE DEF Moves
    <3> QED BY <1>4, <2>2, <3>1, <3>2, <3>3, <3>4, <3>5, <3>6, <3>7, <3>8, <3>9, <3>10, <3>11
        DEF Run, Steps
  <2> QED BY <2>1, <2>2
<1>5. ASSUME NEW k \in Keys, Request(k) PROVE Moves(r)
  <2>1. UNCHANGED <<pc, runKey, runObj, sig>>
    BY <1>5 DEF Request, Edit, Stop, Move, SetEnabled, runs
  <2> QED BY <1>1, <2>1
<1>6. CASE Advance \/ EstateChanges \/ UNCHANGED vars
  <2>1. UNCHANGED <<pc, runKey, runObj, sig>> BY <1>6 DEF Advance, EstateChanges, vars, runs
  <2> QED BY <1>1, <2>1
<1> HIDE DEF Moves, IInv, TypeOK, Early, Working, WithObject, Points, Subject
<1> QED BY <1>2, <1>3, <1>4, <1>5, <1>6 DEF Next

\* A key is given up or edited, or holds what it held.
LEMMA RegistryMoves ==
    ASSUME IInv, ~Restart, [Next]_vars, NEW k \in Keys
    PROVE  registry'[k] \in {0, registry[k]} \/ (Edit(k) /\ registry'[k] = last + 1)
<1>1. CASE Tick
  BY <1>1 DEF Tick, BeginTick, Look, StillRunning, Fire, FireFails, EndTick, schedules
<1>2. CASE \E r \in Runners : Run(r)
  BY <1>2 DEF Run, Steps, BeginRun, Adopt, BuildFails, Build, Check, Send, SendFails, Record, Close,
     Save, Release, schedules
<1>3. ASSUME NEW l \in Keys, Request(l)
      PROVE  registry'[k] \in {0, registry[k]} \/ (Edit(k) /\ registry'[k] = last + 1)
  <2>1. CASE Edit(l)
    <3>1. registry' = [registry EXCEPT ![l] = last + 1] /\ registry \in [Keys -> Objects \cup {0}]
      BY <2>1 DEF Edit, IInv, TypeOK
    <3> QED BY <2>1, <3>1
  <2>2. CASE Stop(l) BY <2>2 DEF Stop, IInv, TypeOK
  <2>3. CASE Move(l) \/ SetEnabled(l) BY <2>3 DEF Move, SetEnabled
  <2> QED BY <1>3, <2>1, <2>2, <2>3 DEF Request
<1>4. CASE Advance \/ EstateChanges \/ UNCHANGED vars
  BY <1>4 DEF Advance, EstateChanges, vars, schedules
<1> QED BY <1>1, <1>2, <1>3, <1>4 DEF Next

LEMMA ClockMoves ==
    ASSUME [Next]_vars
    PROVE  now' = now \/ Advance
BY DEF Next, Tick, BeginTick, Look, StillRunning, Fire, FireFails, EndTick, Run, Steps, BeginRun, Adopt,
   BuildFails, Build, Check, Send, SendFails, Record, Close, Save, Release, Request, Edit, Stop, Move,
   SetEnabled, EstateChanges, Restart, vars, clock

-----------------------------------------------------------------------------
(***************************************************************************)
(* A schedule is only ever referred to under one key.                      *)
(***************************************************************************)

\* The tick has yet to look at it, or has found it due.
Listed(k, o) == <<k, o>> \in scan \/ (tick = "claim" /\ seen = <<k, o>>)

\* What knows schedule o by key k.
Refers(k, o) ==
    \/ registry[k] = o
    \/ Listed(k, o)
    \/ \E r \in Runners : runKey[r] = k /\ runObj[r] = o

Apart ==
    /\ \A k, l \in Keys, o \in Objects : Refers(k, o) /\ Refers(l, o) => k = l
    /\ \A k \in Keys, o \in Objects : Refers(k, o) => o <= last
    /\ \A r \in Runners : pc[r] \in {"idle", "begin"} => runObj[r] = 0

\* What a tick lists it has listed, or it begins with what is registered.
LEMMA ListedMoves ==
    ASSUME IInv, ~Restart, [Next]_vars, NEW k \in Keys, NEW o \in Objects, Listed(k, o)'
    PROVE  Listed(k, o) \/ (BeginTick /\ registry[k] = o)
<1>1. CASE BeginTick
  <2>1. tick' = "scan" /\ scan' = {<<l, registry[l]>> : l \in {m \in Keys : Registered(m)}}
    BY <1>1 DEF BeginTick
  <2> QED BY <1>1, <2>1 DEF Listed
<1>2. CASE Look BY <1>2 DEF Look, Listed
<1>3. CASE scan' \subseteq scan /\ (tick' = "claim" => UNCHANGED <<tick, seen>>)
  BY <1>3 DEF Listed
<1>4. \/ BeginTick \/ Look
      \/ scan' \subseteq scan /\ (tick' = "claim" => UNCHANGED <<tick, seen>>)
  BY DEF Next, Tick, StillRunning, Fire, FireFails, EndTick, TickOver, Run, Steps, BeginRun, Adopt,
     BuildFails, Build, Check, Send, SendFails, Record, Close, Save, Release, Request, Edit, Stop, Move,
     SetEnabled, Advance, EstateChanges, vars, ticking
<1> QED BY <1>1, <1>2, <1>3, <1>4

\* A run keeps to the schedule it began with.
LEMMA ObjectsMove ==
    ASSUME IInv, ~Restart, [Next]_vars, NEW r \in Runners
    PROVE  \/ runObj'[r] = runObj[r] /\ runKey'[r] = runKey[r]
           \/ runObj'[r] = 0
           \/ pc[r] = "begin" /\ runKey'[r] = runKey[r] /\ runObj'[r] = registry[runKey[r]]
           \/ pc[r] = "idle" /\ runObj'[r] = runObj[r]
<1> USE DEF IInv, TypeOK
<1>1. CASE Fire
  <2>1. PICK q \in Runners : pc[q] = "idle" /\ runKey' = [runKey EXCEPT ![q] = seen[1]]
    BY <1>1 DEF Fire
  <2>2. UNCHANGED runObj BY <1>1 DEF Fire
  <2> QED BY <2>1, <2>2
<1>2. ASSUME NEW q \in Runners, BeginRun(q)
      PROVE  \/ runObj'[r] = runObj[r] /\ runKey'[r] = runKey[r]
             \/ pc[r] = "begin" /\ runKey'[r] = runKey[r] /\ runObj'[r] = registry[runKey[r]]
  BY <1>2 DEF BeginRun, Go
<1>3. ASSUME NEW q \in Runners, Release(q)
      PROVE  \/ runObj'[r] = runObj[r] /\ runKey'[r] = runKey[r]
             \/ runObj'[r] = 0
  BY <1>3 DEF Release
<1>4. CASE \/ BeginTick \/ Look \/ StillRunning \/ FireFails \/ EndTick
           \/ \E q \in Runners : Adopt(q) \/ BuildFails(q) \/ Build(q) \/ Check(q) \/ Send(q)
                                 \/ SendFails(q) \/ Record(q) \/ Close(q) \/ Save(q)
           \/ \E k \in Keys : Request(k)
           \/ Advance \/ EstateChanges \/ UNCHANGED vars
  <2>1. UNCHANGED <<runObj, runKey>>
    BY <1>4 DEF BeginTick, Look, StillRunning, FireFails, EndTick, Adopt, BuildFails, Build, Check, Send,
       SendFails, Record, Close, Save, Request, Edit, Stop, Move, SetEnabled, Advance, EstateChanges,
       vars, runs
  <2> QED BY <2>1
<1> QED BY <1>1, <1>2, <1>3, <1>4 DEF Next, Tick, Run, Steps

\* Where a run that is idle, or begins, comes from.
LEMMA IdleMoves ==
    ASSUME IInv, ~Restart, [Next]_vars, NEW r \in Runners, pc'[r] \in {"idle", "begin"}
    PROVE  (pc[r] \in {"idle", "begin"} /\ runObj'[r] = runObj[r]) \/ Release(r)
<1> USE DEF IInv, TypeOK
<1> DEFINE Goal == (pc[r] \in {"idle", "begin"} /\ runObj'[r] = runObj[r]) \/ Release(r)
<1>1. CASE Fire
  <2>1. PICK q \in Runners : pc[q] = "idle" /\ pc' = [pc EXCEPT ![q] = "begin"] BY <1>1 DEF Fire
  <2>2. UNCHANGED runObj BY <1>1 DEF Fire
  <2> QED BY <2>1, <2>2
<1>2. ASSUME NEW q \in Runners, Run(q) PROVE Goal
  <2>1. CASE q # r
    <3>1. pc'[r] = pc[r] /\ runObj'[r] = runObj[r]
      BY <1>2, <2>1 DEF Run, Steps, BeginRun, Adopt, BuildFails, Build, Check, Send, SendFails, Record,
         Close, Save, Release, Go, runs
    <3> QED BY <3>1
  <2>2. CASE Adopt(r) BY <2>2 DEF Adopt, runs
  <2>3. CASE Release(r) BY <2>3
  <2>4. CASE BeginRun(r) \/ BuildFails(r) \/ Build(r) \/ Check(r) \/ Send(r) \/ SendFails(r) \/ Record(r)
             \/ Close(r) \/ Save(r)
    <3>1. pc'[r] \notin {"idle", "begin"}
      BY <2>4 DEF BeginRun, BuildFails, Build, Check, Send, SendFails, Record, Close, Save, Go
    <3> QED BY <3>1
  <2> QED BY <1>2, <2>1, <2>2, <2>3, <2>4 DEF Run, Steps
<1>3. CASE \/ BeginTick \/ Look \/ StillRunning \/ FireFails \/ EndTick
           \/ \E k \in Keys : Request(k)
           \/ Advance \/ EstateChanges \/ UNCHANGED vars
  <2>1. UNCHANGED <<runObj, pc>>
    BY <1>3 DEF BeginTick, Look, StillRunning, FireFails, EndTick, Request, Edit, Stop, Move, SetEnabled,
       Advance, EstateChanges, vars, runs
  <2> QED BY <2>1
<1> HIDE DEF Goal
<1> QED BY <1>1, <1>2, <1>3 DEF Next, Tick, Goal

LEMMA RefersMoves ==
    ASSUME IInv, Apart, ~Restart, [Next]_vars, NEW k \in Keys, NEW o \in Objects, Refers(k, o)'
    PROVE  Refers(k, o) \/ (Edit(k) /\ o = last + 1)
<1>1. o # 0 BY DEF Objects
<1>2. CASE registry'[k] = o BY <1>1, <1>2, RegistryMoves DEF Refers
<1>3. CASE Listed(k, o)' BY <1>3, ListedMoves DEF Refers
<1>4. ASSUME NEW r \in Runners, runKey'[r] = k, runObj'[r] = o PROVE Refers(k, o)
  <2>1. pc[r] = "idle" => runObj[r] = 0 BY DEF Apart
  <2> QED BY <1>1, <1>4, <2>1, ObjectsMove DEF Refers
<1> QED BY <1>2, <1>3, <1>4 DEF Refers

LEMMA StepApart == ASSUME IInv, Apart, [Next]_vars PROVE Apart'
<1>1. CASE Restart
  <2>1. /\ \A k \in Keys : registry'[k] \in {0, k}
        /\ scan' = {} /\ tick' = "idle" /\ last' = NumKeys /\ \A r \in Runners : runObj'[r] = 0
    BY <1>1 DEF Restart, TickOver
  <2>2. \A k \in Keys, o \in Objects : Refers(k, o)' => o = k
    BY <2>1 DEF Refers, Listed, Objects
  <2>3. \A k \in Keys : k <= NumKeys BY AutomationRunsAssumption DEF Keys
  <2> QED BY <2>1, <2>2, <2>3 DEF Apart
<1>2. CASE ~Restart
  <2>1. last \in Nat /\ last' \in Nat /\ last <= last' /\ ((\E k \in Keys : Edit(k)) => last' = last + 1)
    <3>1. last \in 0 .. MaxObjects BY DEF IInv, TypeOK
    <3>2. last' = last \/ \E k \in Keys : Edit(k)
      BY <1>2 DEF Next, Tick, BeginTick, Look, StillRunning, Fire, FireFails, EndTick, Run, Steps, BeginRun,
         Adopt, BuildFails, Build, Check, Send, SendFails, Record, Close, Save, Release, Request, Stop, Move,
         SetEnabled, Advance, EstateChanges, vars, schedules
    <3>3. (\E k \in Keys : Edit(k)) => last' = last + 1 BY DEF Edit
    <3> QED BY <3>1, <3>2, <3>3, AutomationRunsAssumption
  <2>2. \A k \in Keys, o \in Objects : Refers(k, o)' => Refers(k, o) \/ (Edit(k) /\ o = last + 1)
    BY <1>2, RefersMoves
  <2>3. \A k, l \in Keys : Edit(k) /\ Edit(l) => k = l
    <3> SUFFICES ASSUME NEW k \in Keys, NEW l \in Keys, Edit(k), Edit(l), k # l PROVE FALSE OBVIOUS
    <3>1. /\ registry' = [registry EXCEPT ![k] = last + 1] /\ registry' = [registry EXCEPT ![l] = last + 1]
          /\ registry \in [Keys -> Objects \cup {0}] /\ registry[k] # 0
      BY DEF Edit, IInv, TypeOK, Registered
    <3>2. registry'[k] = last + 1 /\ registry'[k] = registry[k] BY <3>1
    <3>3. Refers(k, last + 1) /\ last + 1 \in Objects BY <3>1, <3>2 DEF Refers
    <3>4. last + 1 <= last BY <3>3 DEF Apart
    <3> QED BY <2>1, <3>4
  <2>4. ASSUME NEW k \in Keys, NEW o \in Objects, Refers(k, o) PROVE o <= last /\ o # last + 1
    <3>1. o <= last BY <2>4 DEF Apart
    <3>2. o \in Nat BY DEF Objects
    <3> QED BY <2>1, <3>1, <3>2
  <2>5. \A k, l \in Keys, o \in Objects : Refers(k, o)' /\ Refers(l, o)' => k = l
    BY <2>2, <2>3, <2>4 DEF Apart
  <2>6. \A k \in Keys, o \in Objects : Refers(k, o)' => o <= last'
    <3> SUFFICES ASSUME NEW k \in Keys, NEW o \in Objects, Refers(k, o)' PROVE o <= last' OBVIOUS
    <3>1. CASE Refers(k, o)
      <4>1. o <= last /\ o \in Nat BY <2>4, <3>1 DEF Objects
      <4> QED BY <2>1, <4>1
    <3>2. CASE Edit(k) /\ o = last + 1 BY <2>1, <3>2
    <3> QED BY <2>2, <3>1, <3>2
  <2>7. ASSUME NEW r \in Runners, pc'[r] \in {"idle", "begin"} PROVE runObj'[r] = 0
    <3>1. CASE pc[r] \in {"idle", "begin"} /\ runObj'[r] = runObj[r] BY <3>1 DEF Apart
    <3>2. CASE Release(r) BY <3>2 DEF Release, IInv, TypeOK
    <3>3. (pc[r] \in {"idle", "begin"} /\ runObj'[r] = runObj[r]) \/ Release(r)
      BY <1>2, <2>7, IdleMoves
    <3> QED BY <3>1, <3>2, <3>3
  <2> QED BY <2>5, <2>6, <2>7 DEF Apart
<1> QED BY <1>1, <1>2

LEMMA InitApart == Init => Apart
<1> SUFFICES ASSUME Init PROVE Apart OBVIOUS
<1>1. /\ \A k \in Keys : registry[k] \in {0, k}
      /\ scan = {} /\ tick = "idle" /\ last = NumKeys /\ \A r \in Runners : runObj[r] = 0
  BY DEF Init
<1>2. \A k \in Keys, o \in Objects : Refers(k, o) => o = k
  BY <1>1 DEF Refers, Listed, Objects
<1>3. \A k \in Keys : k <= NumKeys BY AutomationRunsAssumption DEF Keys
<1> QED BY <1>1, <1>2, <1>3 DEF Apart

-----------------------------------------------------------------------------
(***************************************************************************)
(* A daily report goes out for the day it is owed, unless its schedule is  *)
(* untimely.                                                               *)
(***************************************************************************)

\* A schedule was armed in the past, and a tick began in the past.
ArmedBefore ==
    /\ \A o \in Objects : obj[o] # Unset => obj[o].born <= now
    /\ \A k \in Keys : file[k] # Unset => file[k].born <= now
    /\ tick # "idle" => tickNow <= now

\* A report of it would be owed now.
Ready(o) == o \in untimely \/ (IsDaily(obj[o]) => Ripe(obj[o], now))

\* A report of it was owed as the tick began, which was today.
Found(o) ==
    o \in untimely \/ (IsDaily(obj[o]) => Ripe(obj[o], tickNow) /\ DayStart(now) <= tickNow)

\* What a key holds is what the tick has listed, or it is untimely.
ListedHeld ==
    \A k \in Keys, o \in Objects :
        Listed(k, o) /\ registry[k] # 0 => registry[k] = o \/ registry[k] \in untimely

\* What is found due is ready, and so is what runs.
DueReady == tick = "claim" /\ registry[seen[1]] # 0 => Found(registry[seen[1]])

RunsReady ==
    \A r \in Runners : pc[r] \in Early /\ Subject(r) # 0 =>
        Ready(Subject(r)) /\ (tick # "idle" => Found(Subject(r)))

Planned(k) == \A r \in Runners : pc[r] \in Early /\ runKey[r] = k => Subject(r) # registry[k]

\* A daily report that is planned is planned for a ripe time, not of a day gone by.
PlannedRipe(s) == Ripe(s, s.next) /\ DayStart(now) <= s.next

NextRipe ==
    \A k \in Keys :
        registry[k] \notin untimely \cup {0} /\ Planned(k) /\ IsDaily(obj[registry[k]]) =>
            PlannedRipe(obj[registry[k]])

\* A daily report carries the date of the day.
SignedToday ==
    \A r \in Runners :
        pc[r] \in {"send", "record"} /\ IsDaily(obj[runObj[r]]) /\ runObj[r] \notin untimely =>
            sig[r] = Day(now)

RipeInv == ArmedBefore /\ ListedHeld /\ DueReady /\ RunsReady /\ NextRipe /\ SignedToday

\* The schedule of a key.
LEMMA HeldSchedule ==
    ASSUME IInv, Apart, NEW k \in Keys, registry[k] # 0
    PROVE  LET o == registry[k] IN
           /\ o \in Objects /\ o \in Nat /\ o # 0 /\ o <= last /\ o # last + 1
           /\ obj[o] \in Schedules /\ obj[o] # Unset
<1>1. registry[k] \in Objects /\ registry[k] # 0 BY DEF IInv, TypeOK
<1>2. obj[registry[k]] \in Schedules /\ obj[registry[k]] # Unset BY <1>1 DEF IInv, TypeOK, InMemory
<1>3. registry[k] <= last BY <1>1 DEF Apart, Refers
<1>4. last \in Nat /\ registry[k] \in Nat BY <1>1 DEF IInv, TypeOK, Objects
<1> QED BY <1>1, <1>2, <1>3, <1>4

\* The schedule of a run.
LEMMA RunSchedule ==
    ASSUME IInv, Apart, NEW r \in Runners, pc[r] \in WithObject
    PROVE  LET o == runObj[r] IN
           /\ o \in Objects /\ o \in Nat /\ o # 0 /\ o <= last /\ o # last + 1
           /\ obj[o] \in Schedules /\ obj[o] # Unset /\ runKey[r] \in Keys
<1>1. runObj[r] \in Objects /\ runObj[r] # 0 BY DEF IInv, TypeOK, Objects
<1>2. obj[runObj[r]] \in Schedules /\ obj[runObj[r]] # Unset BY <1>1 DEF IInv, TypeOK, InMemory
<1>3. runKey[r] \in Keys BY DEF IInv, RunsHaveKeys, Running, WithObject
<1>4. runObj[r] <= last BY <1>1, <1>3 DEF Apart, Refers
<1>5. last \in Nat /\ runObj[r] \in Nat BY <1>1 DEF IInv, TypeOK, Objects
<1> QED BY <1>1, <1>2, <1>3, <1>4, <1>5

\* The schedule of a run that has still to plan the next one.
LEMMA SubjectSchedule ==
    ASSUME IInv, Apart, NEW r \in Runners, pc[r] \in Early, Subject(r) # 0
    PROVE  LET o == Subject(r) IN
           /\ o \in Objects /\ o # 0 /\ o # last + 1
           /\ obj[o] \in Schedules /\ obj[o] # Unset /\ runKey[r] \in Keys /\ Refers(runKey[r], o)
<1>1. runKey[r] \in Keys BY DEF IInv, RunsHaveKeys, Running, Early, Working, WithObject
<1>2. CASE pc[r] = "begin"
  BY <1>1, <1>2, HeldSchedule DEF Subject, Refers
<1>3. CASE pc[r] \in Working
  <2>1. pc[r] \in WithObject /\ pc[r] # "begin" BY <1>3 DEF Working, WithObject
  <2> QED BY <1>1, <2>1, RunSchedule DEF Subject, Refers
<1> QED BY <1>2, <1>3 DEF Early

\* Two runs under way have two schedules.
LEMMA SubjectsApart ==
    ASSUME IInv, Apart, NEW q \in Runners, NEW r \in Runners, pc[q] \in Early, pc[r] \in Early,
           Subject(q) # 0, Subject(q) = Subject(r)
    PROVE  q = r
<1>1. runKey[q] = runKey[r] BY SubjectSchedule DEF Apart
<1>2. Running(q) /\ Running(r) BY DEF Running, Early, Working, WithObject
<1> QED BY <1>1, <1>2 DEF IInv, OneRunPerSchedule

\* What the key of a claimed or listed schedule, or of a run, holds.
LEMMA ListedAwaited ==
    ASSUME NEW k \in Keys, NEW o \in Objects, Listed(k, o)
    PROVE  Awaited(k)
BY DEF Listed, Awaited

\* How a schedule is armed: for the next time its report is owed.
LEMMA ArmedFresh ==
    ASSUME NEW i \in Identities, NEW a \in SendTimes, NEW t \in Nat
    PROVE  LET s == Armed([ident |-> i, sendAt |-> a], t) IN
           /\ s \in Schedules /\ s.ident = i /\ s.born = t
           /\ i \in Daily => /\ Ripe(s, s.next) /\ DayStart(t) <= s.next
                             /\ s.next < Midnight(t) + DayLength
                             /\ s.next < Midnight(t) \/ NotOwed(s, t)
<1> DEFINE fresh == [ident |-> i, sendAt |-> a, born |-> t, signed |-> 0,
                     next |-> 0, enabled |-> TRUE, failures |-> 0, lastRun |-> 0]
           s == Scheduled(fresh, FALSE, t)
           n == NextRun(fresh, FALSE, t)
<1>1. s = Armed([ident |-> i, sendAt |-> a], t) BY DEF Armed
<1>2. fresh \in Schedules
  <2>1. Len(RetryWaits) \in Nat BY AutomationRunsAssumption
  <2> QED BY <2>1 DEF Schedules
<1>3. fresh.ident = i /\ fresh.born = t OBVIOUS
<1> HIDE DEF fresh
<1>4. s \in Schedules BY <1>2, ScheduledIsSchedule
<1>5. /\ s.ident = fresh.ident /\ s.sendAt = fresh.sendAt /\ s.born = fresh.born /\ s.signed = fresh.signed
      /\ s.next = n
  <2>1. \A b, u : LET m == Scheduled(fresh, b, u) IN
          /\ m.ident = fresh.ident /\ m.sendAt = fresh.sendAt /\ m.born = fresh.born
          /\ m.signed = fresh.signed /\ m.next = NextRun(fresh, b, u)
    BY <1>2, FieldsKept
  <2> QED BY <2>1
<1>6. i \in Daily => /\ Ripe(fresh, n) /\ DayStart(t) <= n /\ n < Midnight(t) + DayLength
                     /\ n < Midnight(t) \/ NotOwed(fresh, t)
  <2> SUFFICES ASSUME i \in Daily
               PROVE  /\ Ripe(fresh, n) /\ DayStart(t) <= n /\ n < Midnight(t) + DayLength
                      /\ n < Midnight(t) \/ NotOwed(fresh, t)
    OBVIOUS
  <2>1. n = NextSend(fresh, t) BY <1>3 DEF NextRun, IsDaily
  <2>2. fresh.born <= t BY <1>3
  <2>3. LET m == NextSend(fresh, t) IN
        /\ Ripe(fresh, m) /\ DayStart(t) <= m /\ m < Midnight(t) + DayLength
        /\ t < SendTime(fresh, t) => m < Midnight(t)
    BY <1>2, <2>2, NextSendRipe
  <2>4. t < SendTime(fresh, t) \/ fresh.born >= SendTime(fresh, t)
    <3>1. SendTime(fresh, t) = DayStart(t) + fresh.sendAt BY DEF SendTime, DayStart
    <3>2. DayStart(t) \in Nat /\ fresh.sendAt \in Nat BY <1>2, Days, SendAtInDay
    <3> QED BY <1>3, <3>1, <3>2
  <2> HIDE DEF n
  <2> QED BY <2>1, <2>3, <2>4 DEF NotOwed
<1> HIDE DEF s, n
<1>7. (Ripe(s, n) <=> Ripe(fresh, n)) /\ (NotOwed(s, t) <=> NotOwed(fresh, t))
  BY <1>5 DEF Ripe, NotOwed, SendTime
<1> QED BY <1>1, <1>3, <1>4, <1>5, <1>6, <1>7

\* The schedule an edit makes.
LEMMA EditedFresh ==
    ASSUME IInv, Apart, NEW k \in Keys, Edit(k)
    PROVE  LET s == obj'[last + 1] IN
           /\ last + 1 \in Objects /\ s \in Schedules /\ s.born = now
           /\ IsDaily(s) => /\ Ripe(s, s.next) /\ DayStart(now) <= s.next
                            /\ s.next < Midnight(now) + DayLength
                            /\ s.next < Midnight(now) \/ NotOwed(s, now)
<1>1. registry[k] # 0 BY DEF Edit, Registered
<1>2. obj[registry[k]].ident \in Identities BY <1>1, HeldSchedule DEF Schedules
<1>3. PICK at \in SendTimes :
        obj' = [obj EXCEPT ![last + 1] = Armed([ident |-> obj[registry[k]].ident, sendAt |-> at], now)]
  BY DEF Edit
<1>4. last + 1 \in Objects
  <2>1. last \in Nat /\ last < MaxObjects BY DEF Edit, IInv, TypeOK
  <2> QED BY <2>1, AutomationRunsAssumption DEF Objects
<1>5. obj'[last + 1] = Armed([ident |-> obj[registry[k]].ident, sendAt |-> at], now)
  BY <1>3, <1>4 DEF IInv, TypeOK
<1>6. now \in Nat BY DEF IInv, TypeOK
<1>7. LET s == obj'[last + 1] IN
      /\ s \in Schedules /\ s.ident = obj[registry[k]].ident /\ s.born = now
      /\ s.ident \in Daily => /\ Ripe(s, s.next) /\ DayStart(now) <= s.next
                              /\ s.next < Midnight(now) + DayLength
                              /\ s.next < Midnight(now) \/ NotOwed(s, now)
  BY <1>2, <1>5, <1>6, ArmedFresh
<1> QED BY <1>4, <1>7 DEF IsDaily

\* A tick keeps the time it read as it began.
LEMMA TickMoves ==
    ASSUME ~Restart, [Next]_vars, tick' # "idle"
    PROVE  (tick # "idle" /\ tickNow' = tickNow) \/ (BeginTick /\ tickNow' = now)
<1>1. BeginTick => tickNow' = now BY DEF BeginTick
<1>2. BeginTick \/ tickNow' = tickNow
  BY DEF Next, Tick, Look, StillRunning, Fire, FireFails, EndTick, TickOver, Run, Steps, BeginRun, Adopt,
     BuildFails, Build, Check, Send, SendFails, Record, Close, Save, Release, Request, Edit, Stop, Move,
     SetEnabled, Advance, EstateChanges, vars, ticking
<1>3. BeginTick \/ tick # "idle"
  BY DEF Next, Tick, Look, StillRunning, Fire, FireFails, EndTick, TickOver, Run, Steps, BeginRun, Adopt,
     BuildFails, Build, Check, Send, SendFails, Record, Close, Save, Release, Request, Edit, Stop, Move,
     SetEnabled, Advance, EstateChanges, vars, ticking
<1> QED BY <1>1, <1>2, <1>3

LEMMA StepArmedBefore ==
    ASSUME IInv, Apart, ArmedBefore, ~Restart, [Next]_vars PROVE ArmedBefore'
<1>1. now \in Nat /\ now' \in Nat /\ now <= now' /\ (now' = now \/ Advance)
  <2>1. CASE Advance BY <2>1 DEF IInv, TypeOK, Advance
  <2>2. CASE now' = now BY <2>2 DEF IInv, TypeOK
  <2> QED BY <2>1, <2>2, ClockMoves
<1>2. /\ \A o \in Objects : obj[o] # Unset => obj[o].born \in Nat
      /\ \A k \in Keys : file[k] # Unset => file[k].born \in Nat
  BY DEF IInv, TypeOK, Schedules
<1>3. ASSUME NEW o \in Objects, obj'[o] # Unset PROVE obj'[o].born <= now'
  <2>1. CASE AsArmed(o) BY <1>1, <1>2, <1>3, <2>1 DEF AsArmed, ArmedBefore
  <2>2. ASSUME NEW k \in Keys, Edit(k), o = last + 1 PROVE obj'[o].born = now
    BY <2>2, EditedFresh
  <2>3. now <= now' BY <1>1
  <2> QED BY <2>1, <2>2, <2>3, SchedulesKept
<1>4. ASSUME NEW k \in Keys, file'[k] # Unset PROVE file'[k].born <= now'
  <2>1. CASE Persist
    <3>1. registry'[k] # 0 /\ file'[k] = obj'[registry'[k]] BY <1>4, <2>1 DEF Persist
    <3>2. registry'[k] \in Objects BY <3>1, StepIInv DEF IInv, TypeOK
    <3> QED BY <1>3, <1>4, <3>1, <3>2
  <2>2. CASE UNCHANGED file BY <1>1, <1>2, <1>4, <2>2 DEF ArmedBefore
  <2>3. Persist \/ UNCHANGED file
    BY DEF Next, Tick, BeginTick, Look, StillRunning, Fire, FireFails, EndTick, Run, Steps, BeginRun, Adopt,
       BuildFails, Build, Check, Send, SendFails, Record, Close, Save, Release, Request, Edit, Stop, Move,
       SetEnabled, Advance, EstateChanges, vars
  <2> QED BY <2>1, <2>2, <2>3
<1>5. ASSUME tick' # "idle" PROVE tickNow' <= now'
  <2>1. tickNow \in Nat BY DEF IInv, TypeOK
  <2>2. CASE tick # "idle" /\ tickNow' = tickNow BY <1>1, <2>1, <2>2 DEF ArmedBefore
  <2>3. CASE tickNow' = now BY <1>1, <2>3
  <2> QED BY <1>5, <2>2, <2>3, TickMoves
<1> QED BY <1>3, <1>4, <1>5 DEF ArmedBefore

\* How a schedule ceases to be untimely, or to be passed over.
LEMMA UntimelyEnds ==
    ASSUME ~Restart, [Next]_vars, NEW o \in untimely, o \notin untimely'
    PROVE  \/ \E r \in Runners : Close(r) /\ runObj[r] = o /\ ~Awaited(runKey[r])
           \/ \E k \in Keys : Move(k) /\ registry[k] = o
<1>1. ASSUME NEW r \in Runners, Close(r) PROVE runObj[r] = o /\ ~Awaited(runKey[r])
  BY <1>1 DEF Close
<1>2. ASSUME NEW k \in Keys, Move(k) PROVE registry[k] = o
  BY <1>2 DEF Move
<1>3. (\E r \in Runners : Close(r)) \/ (\E k \in Keys : Move(k)) \/ untimely \subseteq untimely'
  BY DEF Next, Tick, BeginTick, Look, StillRunning, Fire, FireFails, EndTick, Run, Steps, BeginRun, Adopt,
     BuildFails, Build, Check, Send, SendFails, Record, Save, Release, Request, Edit, Stop,
     SetEnabled, Advance, EstateChanges, vars, strays
<1> QED BY <1>1, <1>2, <1>3

LEMMA PassedOverEnds ==
    ASSUME ~Restart, [Next]_vars, NEW o \in passedOver, o \notin passedOver'
    PROVE  \E r \in Runners : BeginRun(r) /\ registry[runKey[r]] = o
<1>1. ASSUME NEW r \in Runners, BeginRun(r) PROVE registry[runKey[r]] = o
  BY <1>1 DEF BeginRun
<1>2. (\E r \in Runners : BeginRun(r)) \/ passedOver \subseteq passedOver'
  BY DEF Next, Tick, BeginTick, Look, StillRunning, Fire, FireFails, EndTick, Run, Steps, Adopt,
     BuildFails, Build, Check, Send, SendFails, Record, Close, Save, Release, Request, Edit, Stop, Move,
     SetEnabled, Advance, EstateChanges, vars, strays
<1> QED BY <1>1, <1>2

\* What is engaged, by a run that begins or is under way or by the tick, is kept
\* as it is or comes to be untimely.
LEMMA EngagedStays ==
    ASSUME IInv, Apart, ~Restart, [Next]_vars, NEW o \in Objects, obj[o] # Unset, o # last + 1,
           \/ \E k \in Keys : registry[k] = o /\ Awaited(k)
           \/ AtWork(o) /\ \A r \in Runners : ~(Close(r) /\ runObj[r] = o),
           o \notin untimely'
    PROVE  /\ o \notin untimely /\ obj'[o] # Unset
           /\ obj'[o].ident = obj[o].ident /\ obj'[o].sendAt = obj[o].sendAt /\ obj'[o].born = obj[o].born
<1>1. ~\E k \in Keys : Move(k) /\ registry[k] = o
  <2> SUFFICES ASSUME NEW k \in Keys, Move(k), registry[k] = o PROVE o \in untimely' OBVIOUS
  <2>1. untimely' = IF Awaited(k) \/ AtWork(o) THEN untimely \cup {o} ELSE untimely \ {o} BY DEF Move
  <2>2. \A l \in Keys : registry[l] = o => l = k BY DEF Apart, Refers
  <2> QED BY <2>1, <2>2
<1>2. o \notin untimely
  <2> SUFFICES ASSUME o \in untimely PROVE FALSE OBVIOUS
  <2>1. PICK r \in Runners : Close(r) /\ runObj[r] = o /\ ~Awaited(runKey[r]) BY <1>1, UntimelyEnds
  <2>2. pc[r] = "close" BY <2>1 DEF Close, Go
  <2>3. runKey[r] \in Keys BY <2>2, RunSchedule DEF WithObject, Points
  <2>4. \A k \in Keys : registry[k] = o => k = runKey[r] BY <2>1, <2>3 DEF Apart, Refers
  <2> QED BY <2>1, <2>4
<1>3. AsArmed(o) BY SchedulesKept
<1> QED BY <1>1, <1>2, <1>3 DEF AsArmed

\* What is closed, checked or recorded, or begins, is not a planned schedule.
LEMMA PlannedIsQuiet ==
    ASSUME IInv, Apart, NEW k \in Keys, registry[k] # 0, Planned(k), NEW r \in Runners
    PROVE  /\ ~(pc[r] \in Working /\ runObj[r] = registry[k])
           /\ ~(pc[r] = "begin" /\ registry[runKey[r]] = registry[k])
<1>1. registry[k] \in Objects BY HeldSchedule
<1>2. CASE pc[r] \in Working
  <2>1. pc[r] \in WithObject /\ pc[r] # "begin" /\ pc[r] \in Early
    BY <1>2 DEF Working, WithObject, Early
  <2>2. runKey[r] \in Keys BY <2>1, RunSchedule
  <2>3. runObj[r] = registry[k] => runKey[r] = k BY <1>1, <2>2 DEF Apart, Refers
  <2> QED BY <2>1, <2>3 DEF Planned, Subject
<1>3. CASE pc[r] = "begin"
  <2>1. runKey[r] \in Keys BY <1>3 DEF IInv, RunsHaveKeys, Running
  <2>2. registry[runKey[r]] = registry[k] => runKey[r] = k BY <1>1, <2>1 DEF Apart, Refers
  <2>3. pc[r] \in Early /\ pc[r] \notin Working BY <1>3 DEF Early, Working, WithObject
  <2> QED BY <1>3, <2>2, <2>3 DEF Planned, Subject
<1> QED BY <1>2, <1>3

\* How a key comes to hold a schedule that no run is under way of: by an edit, as
\* a run of it is closed, by a move, as a run could not start, or as it did before.
LEMMA PlanSteps ==
    ASSUME IInv, Apart, ~Restart, [Next]_vars, NEW k \in Keys, registry'[k] # 0, Planned(k)'
    PROVE  \/ Edit(k) /\ registry'[k] = last + 1
           \/ /\ registry'[k] = registry[k]
              /\ LET p == registry[k] IN
                 \/ \E r \in Runners : Close(r) /\ runObj[r] = p /\ runKey[r] = k
                 \/ Move(k)
                 \/ Planned(k) /\ FireFails /\ seen = <<k, p>>
                 \/ /\ Planned(k)
                    /\ obj'[p].ident = obj[p].ident /\ obj'[p].born = obj[p].born
                    /\ obj'[p].sendAt = obj[p].sendAt /\ obj'[p].signed = obj[p].signed
                    /\ obj'[p].next = obj[p].next /\ obj'[p].failures = obj[p].failures
                    /\ p \in untimely => p \in untimely'
                    /\ p \in passedOver => p \in passedOver'
<1>1. (Edit(k) /\ registry'[k] = last + 1) \/ registry'[k] = registry[k] BY RegistryMoves
<1> SUFFICES ASSUME registry'[k] = registry[k]
             PROVE  LET p == registry[k] IN
                 \/ \E r \in Runners : Close(r) /\ runObj[r] = p /\ runKey[r] = k
                 \/ Move(k)
                 \/ Planned(k) /\ FireFails /\ seen = <<k, p>>
                 \/ /\ Planned(k)
                    /\ obj'[p].ident = obj[p].ident /\ obj'[p].born = obj[p].born
                    /\ obj'[p].sendAt = obj[p].sendAt /\ obj'[p].signed = obj[p].signed
                    /\ obj'[p].next = obj[p].next /\ obj'[p].failures = obj[p].failures
                    /\ p \in untimely => p \in untimely'
                    /\ p \in passedOver => p \in passedOver'
  BY <1>1
<1> DEFINE p == registry[k]
<1>2. p \in Objects /\ p # 0 /\ p # last + 1 /\ obj[p] # Unset BY HeldSchedule
<1>3. CASE ~Planned(k)
  <2>1. PICK r \in Runners : pc[r] \in Early /\ runKey[r] = k /\ Subject(r) = p BY <1>3 DEF Planned
  <2>2. CASE Close(r)
    <3>1. pc[r] = "close" BY <2>2 DEF Close, Go
    <3> QED BY <2>1, <2>2, <3>1 DEF Subject
  <2>3. CASE ~Close(r)
    <3>1. ~(pc[r] = "begin" /\ registry[runKey[r]] = 0) BY <1>2, <2>1
    <3>2. pc'[r] \in Early /\ runKey'[r] = k BY <2>1, <2>3, <3>1, RunsMove
    <3>3. Subject(r)' # p BY <3>2 DEF Planned
    <3>4. Subject(r)' # Subject(r) BY <2>1, <3>3
    <3>5. Fire /\ pc'[r] = "begin" BY <2>1, <3>2, <3>4, RunsMove
    <3>6. Subject(r)' = registry'[k] BY <3>2, <3>5 DEF Subject
    <3> QED BY <3>3, <3>6
  <2> QED BY <2>2, <2>3
<1>4. CASE Planned(k)
  <2>1. \A r \in Runners : /\ ~(pc[r] \in Working /\ runObj[r] = p)
                           /\ ~(pc[r] = "begin" /\ registry[runKey[r]] = p)
    BY <1>2, <1>4, PlannedIsQuiet
  <2>2. \A r \in Runners : (Check(r) \/ Record(r) \/ Close(r)) => runObj[r] # p
    BY <2>1 DEF Check, Record, Close, Go, Working, WithObject, Points
  <2>3. \A l \in Keys : registry[l] = p => l = k BY <1>2 DEF Apart, Refers
  <2>4. (Fire \/ FireFails) /\ seen[2] = p => seen = <<k, p>>
    <3> SUFFICES ASSUME Fire \/ FireFails, seen[2] = p PROVE seen = <<k, p>> OBVIOUS
    <3>1. tick = "claim" /\ seen \in Keys \X Objects BY DEF Fire, FireFails, IInv, InMemory
    <3>2. seen = <<seen[1], p>> /\ seen[1] \in Keys BY <3>1
    <3>3. Refers(seen[1], p) /\ Refers(k, p) BY <3>1, <3>2 DEF Refers, Listed
    <3>4. seen[1] = k BY <1>2, <3>2, <3>3 DEF Apart
    <3> QED BY <3>2, <3>4
  <2>5. ~(Fire /\ seen[2] = p)
    <3> SUFFICES ASSUME Fire, seen[2] = p PROVE FALSE OBVIOUS
    <3>1. PICK r \in Runners : /\ pc' = [pc EXCEPT ![r] = "begin"]
                               /\ runKey' = [runKey EXCEPT ![r] = seen[1]]
      BY DEF Fire
    <3>2. seen[1] = k BY <2>4
    <3>3. pc'[r] = "begin" /\ runKey'[r] = k BY <3>1, <3>2 DEF IInv, TypeOK
    <3> QED BY <3>3 DEF Planned, Subject, Early
  <2>6. CASE Move(k) BY <2>6
  <2>7. CASE FireFails /\ seen[2] = p BY <1>4, <2>4, <2>7
  <2>8. CASE ~Move(k) /\ ~(FireFails /\ seen[2] = p)
    <3>1. AsArmed(p) BY <1>2, SchedulesKept
    <3>2. ~\E l \in Keys : Move(l) /\ registry[l] = p BY <2>3, <2>8
    <3>3. ~Replanned(p) BY <2>2, <2>5, <2>8, <3>2 DEF Replanned
    <3>4. /\ obj'[p].ident = obj[p].ident /\ obj'[p].born = obj[p].born
          /\ obj'[p].sendAt = obj[p].sendAt /\ obj'[p].signed = obj[p].signed
          /\ obj'[p].next = obj[p].next /\ obj'[p].failures = obj[p].failures
      BY <1>2, <2>2, <3>1, <3>2, <3>3 DEF AsArmed
    <3>5. p \in untimely => p \in untimely' BY <2>2, <3>2, UntimelyEnds
    <3>6. p \in passedOver => p \in passedOver'
      <4>1. \A r \in Runners : BeginRun(r) => pc[r] = "begin" BY DEF BeginRun, Go
      <4> QED BY <2>1, <4>1, PassedOverEnds
    <3> QED BY <1>4, <3>4, <3>5, <3>6
  <2> QED BY <2>6, <2>7, <2>8
<1> QED BY <1>3, <1>4

\* The next run of a schedule whose run is closed.
LEMMA ClosedRipe ==
    ASSUME IInv, Apart, ArmedBefore, NEW r \in Runners, Close(r), registry[runKey[r]] # 0,
           IsDaily(obj[runObj[r]])
    PROVE  LET s == obj'[runObj[r]]
               n == s.next IN
           /\ Ripe(s, n) /\ DayStart(now) <= n /\ n < Midnight(now) + DayLength
           /\ s.signed = obj[runObj[r]].signed
           /\ failed[r] => \/ n < Midnight(now)
                           \/ NotOwed(s, now)
                           \/ s.failures > 0 /\ now + RetryWait(s) >= Midnight(now)
<1> DEFINE o == runObj[r]
           c == Counted(obj[o], failed[r])
           n == NextRun(c, failed[r], now)
           s == obj'[o]
<1>1. pc[r] = "close" BY DEF Close, Go
<1>2. o \in Objects /\ obj[o] \in Schedules /\ obj[o] # Unset
  BY <1>1, RunSchedule DEF WithObject, Points
<1>3. failed[r] \in BOOLEAN /\ now \in Nat /\ obj \in [Objects -> Schedules \cup {Unset}]
  BY DEF IInv, TypeOK
<1>4. c \in Schedules BY <1>2, <1>3, CountedIsSchedule
<1>5. /\ c.ident = obj[o].ident /\ c.sendAt = obj[o].sendAt /\ c.born = obj[o].born
      /\ c.signed = obj[o].signed
  BY <1>2, FieldsKept
<1>6. failed[r] => c.failures > 0
  <2>1. obj[o].failures \in 0 .. Len(RetryWaits) /\ Len(RetryWaits) \in Nat /\ Len(RetryWaits) # 0
    BY <1>2, AutomationRunsAssumption DEF Schedules
  <2>2. failed[r] => c.failures = IF obj[o].failures < Len(RetryWaits) THEN obj[o].failures + 1
                                  ELSE obj[o].failures
    BY <1>2 DEF Counted, Schedules
  <2> HIDE DEF c
  <2> QED BY <2>1, <2>2
<1>7. s = Scheduled(c, failed[r], now) BY <1>2, <1>3 DEF Close, Registered
<1> HIDE DEF c
<1>8. s \in Schedules BY <1>3, <1>4, <1>7, ScheduledIsSchedule
<1>9. /\ s.ident = c.ident /\ s.sendAt = c.sendAt /\ s.born = c.born /\ s.signed = c.signed
      /\ s.failures = c.failures /\ s.next = n
  BY <1>3, <1>4, <1>7, FieldsKept
<1>10. IsDaily(c) /\ c.born <= now BY <1>2, <1>5 DEF IsDaily, ArmedBefore
<1>11. /\ Ripe(c, n) /\ DayStart(now) <= n /\ n < Midnight(now) + DayLength
       /\ failed[r] => n < Midnight(now) \/ NotOwed(c, now) \/ now + RetryWait(c) >= Midnight(now)
  BY <1>3, <1>4, <1>10, NextRunRipe
<1> HIDE DEF s, n
<1>12. /\ Ripe(s, n) <=> Ripe(c, n)
       /\ NotOwed(s, now) <=> NotOwed(c, now)
       /\ RetryWait(s) = RetryWait(c)
  BY <1>9 DEF Ripe, NotOwed, RetryWait, SendTime
<1>13. s.signed = obj[o].signed BY <1>5, <1>9
<1>14. failed[r] => s.failures > 0 BY <1>6, <1>9
<1> QED BY <1>9, <1>11, <1>12, <1>13, <1>14 DEF s

\* The next run of a schedule that is moved to another time of day.
LEMMA MovedRipe ==
    ASSUME IInv, Apart, ArmedBefore, NEW k \in Keys, Move(k), IsDaily(obj'[registry[k]])
    PROVE  LET p == registry[k]
               s == obj'[p]
               n == s.next IN
           /\ Ripe(s, n) /\ DayStart(now) <= n /\ n < Midnight(now) + DayLength
           /\ n < Midnight(now) \/ p \in passedOver'
<1> DEFINE p == registry[k]
           s == obj'[p]
<1>1. registry[k] # 0 BY DEF Move, Registered
<1>2. p \in Objects /\ obj[p] \in Schedules /\ obj[p] # Unset BY <1>1, HeldSchedule
<1>3. PICK at \in SendTimes : obj' = [obj EXCEPT ![p] = Scheduled([@ EXCEPT !.sendAt = at], FALSE, now)]
  BY DEF Move
<1> DEFINE c == [obj[p] EXCEPT !.sendAt = at]
<1>4. s = Scheduled(c, FALSE, now) BY <1>2, <1>3 DEF IInv, TypeOK
<1>5. c \in Schedules /\ c.born = obj[p].born BY <1>2, WithSendAt DEF Schedules
<1>6. c.born <= now /\ now \in Nat BY <1>2, <1>5 DEF ArmedBefore, IInv, TypeOK
<1> HIDE DEF c
<1>7. /\ s.ident = c.ident /\ s.sendAt = c.sendAt /\ s.born = c.born /\ s.next = NextRun(c, FALSE, now)
  <2>1. \A b, t : LET m == Scheduled(c, b, t) IN
          /\ m.ident = c.ident /\ m.sendAt = c.sendAt /\ m.born = c.born
          /\ m.next = NextRun(c, b, t)
    BY <1>5, FieldsKept
  <2> QED BY <1>4, <2>1
<1> HIDE DEF s
<1>8. IsDaily(c) BY <1>7 DEF IsDaily, s
<1>9. NextRun(c, FALSE, now) = NextSend(c, now) BY <1>8 DEF NextRun
<1>10. LET n == NextSend(c, now) IN
       /\ Ripe(c, n) /\ DayStart(now) <= n /\ n < Midnight(now) + DayLength
       /\ now < SendTime(c, now) => n < Midnight(now)
  BY <1>5, <1>6, NextSendRipe
<1>11. \A t : (Ripe(s, t) <=> Ripe(c, t)) /\ SendTime(s, t) = SendTime(c, t)
  BY <1>7 DEF Ripe, SendTime
<1>12. SendTime(s, now) <= now => p \in passedOver' BY DEF Move, s
<1>13. now < SendTime(c, now) \/ SendTime(c, now) <= now
  <2>1. SendTime(c, now) = DayStart(now) + c.sendAt BY DEF SendTime, DayStart
  <2> QED BY <1>5, <1>6, <2>1, Days, SendAtInDay
<1> QED BY <1>7, <1>9, <1>10, <1>11, <1>12, <1>13 DEF s

\* A later time of the same day, at which what is kept as armed is as ripe.
LEMMA ReadyStays ==
    ASSUME IInv, NEW o \in Objects, obj[o] \in Schedules, Day(now') = Day(now), now <= now', now' \in Nat,
           obj'[o].ident = obj[o].ident, obj'[o].sendAt = obj[o].sendAt, obj'[o].born = obj[o].born,
           o \notin untimely
    PROVE  /\ Ready(o) => Ready(o)'
           /\ tickNow' = tickNow /\ Found(o) => Found(o)'
           /\ tickNow' = now /\ now' = now /\ Ready(o) => Found(o)'
           /\ tickNow' = tickNow /\ tickNow <= now /\ Found(o) => Ready(o)'
<1>1. now \in Nat /\ tickNow \in Nat BY DEF IInv, TypeOK
<1>2. IsDaily(obj'[o]) <=> IsDaily(obj[o]) BY DEF IsDaily
<1>3. \A t : Ripe(obj'[o], t) <=> Ripe(obj[o], t) BY DEF Ripe, SendTime
<1>4. obj[o].sendAt \in Nat BY SendAtInDay
<1>5. DayStart(now') = DayStart(now) /\ DayStart(now) <= now
  <2>1. (Day(now) - 1) * DayLength = DayStart(now) /\ (Day(now') - 1) * DayLength = DayStart(now')
    BY <1>1, Days
  <2> QED BY <1>1, <2>1, Days
<1>6. Ripe(obj[o], now) => Ripe(obj[o], now') BY <1>1, <1>4, RipeForTheDay
<1>7. tickNow <= now /\ DayStart(now) <= tickNow /\ Ripe(obj[o], tickNow) => Ripe(obj[o], now)
  <2> SUFFICES ASSUME tickNow <= now, DayStart(now) <= tickNow, Ripe(obj[o], tickNow)
               PROVE  Ripe(obj[o], now)
    OBVIOUS
  <2>1. DayStart(now) \in Nat /\ now < DayStart(now) + DayLength /\ DayLength \in Nat
    BY <1>1, Days, AutomationRunsAssumption
  <2>2. Day(tickNow) = Day(now)
    <3>1. tickNow < DayStart(now) + DayLength BY <1>1, <2>1
    <3> QED BY <1>1, <3>1, SameDay
  <2> QED BY <1>1, <1>4, <2>2, RipeForTheDay
<1>8. Ready(o) => Ready(o)'
  BY <1>2, <1>3, <1>6 DEF Ready
<1>9. tickNow' = tickNow /\ Found(o) => Found(o)' BY <1>2, <1>3, <1>5 DEF Found
<1>10. tickNow' = now /\ now' = now /\ Ready(o) => Found(o)' BY <1>2, <1>3, <1>5 DEF Found, Ready
<1>11. tickNow' = tickNow /\ tickNow <= now /\ Found(o) => Ready(o)'
  BY <1>2, <1>3, <1>6, <1>7 DEF Found, Ready
<1> QED BY <1>8, <1>9, <1>10, <1>11

\* The clock, while the day lasts.
LEMMA SameDayStep ==
    ASSUME IInv, [Next]_vars, Day(now') = Day(now)
    PROVE  now \in Nat /\ now' \in Nat /\ now <= now' /\ DayStart(now') = DayStart(now)
<1>1. now \in Nat /\ now' \in Nat /\ now <= now'
  <2>1. CASE Advance BY <2>1 DEF IInv, TypeOK, Advance
  <2>2. CASE now' = now BY <2>2 DEF IInv, TypeOK
  <2> QED BY <2>1, <2>2, ClockMoves
<1>2. (Day(now) - 1) * DayLength = DayStart(now) /\ (Day(now') - 1) * DayLength = DayStart(now')
  BY <1>1, Days
<1> QED BY <1>1, <1>2

LEMMA StepListedHeld ==
    ASSUME IInv, Apart, ListedHeld, ~Restart, [Next]_vars PROVE ListedHeld'
<1> SUFFICES ASSUME NEW k \in Keys, NEW o \in Objects, Listed(k, o)', registry'[k] # 0
             PROVE  registry'[k] = o \/ registry'[k] \in untimely'
  BY DEF ListedHeld
<1>1. CASE BeginTick /\ registry[k] = o
  BY <1>1 DEF BeginTick, schedules
<1>2. CASE Listed(k, o)
  <2>1. Awaited(k) BY <1>2, ListedAwaited
  <2>2. CASE Edit(k) /\ registry'[k] = last + 1 BY <2>1, <2>2 DEF Edit
  <2>3. CASE registry'[k] = registry[k]
    <3> DEFINE p == registry[k]
    <3>1. p \in Objects /\ obj[p] # Unset /\ p # last + 1 BY <2>3, HeldSchedule
    <3>2. p = o \/ p \in untimely BY <1>2, <2>3 DEF ListedHeld
    <3>3. p \notin untimely' => p \notin untimely BY <2>1, <3>1, EngagedStays
    <3> QED BY <2>3, <3>2, <3>3
  <2> QED BY <2>2, <2>3, RegistryMoves
<1> QED BY <1>1, <1>2, ListedMoves

\* What the tick comes to look at, it found due.
LEMMA SeenMoves ==
    ASSUME ~Restart, [Next]_vars, tick' = "claim"
    PROVE  (tick = "claim" /\ UNCHANGED <<seen, tickNow>>) \/ Look
BY DEF Next, Tick, BeginTick, StillRunning, Fire, FireFails, EndTick, TickOver, Run, Steps, BeginRun, Adopt,
   BuildFails, Build, Check, Send, SendFails, Record, Close, Save, Release, Request, Edit, Stop, Move,
   SetEnabled, Advance, EstateChanges, vars, ticking

LEMMA StepDueReady ==
    ASSUME IInv, Apart, RipeInv, ~Restart, [Next]_vars, Day(now') = Day(now) PROVE DueReady'
<1> SUFFICES ASSUME NEW p, tick' = "claim", p = registry'[seen'[1]], p # 0
             PROVE  Found(p)'
  BY DEF DueReady, Found
<1>1. CASE tick = "claim" /\ UNCHANGED <<seen, tickNow>>
  <2> DEFINE k == seen[1]
  <2>1. k \in Keys /\ Awaited(k) BY <1>1 DEF IInv, InMemory, Awaited
  <2>2. CASE Edit(k) /\ registry'[k] = last + 1
    BY <1>1, <2>1, <2>2 DEF Edit, Found
  <2>3. CASE registry[k] = p
    <3>1. p \in Objects /\ obj[p] # Unset /\ p # last + 1 /\ obj[p] \in Schedules
      BY <1>1, <2>1, <2>3, HeldSchedule
    <3>2. CASE p \in untimely' BY <3>2 DEF Found
    <3>3. CASE p \notin untimely'
      <4>1. /\ p \notin untimely
            /\ obj'[p].ident = obj[p].ident /\ obj'[p].sendAt = obj[p].sendAt /\ obj'[p].born = obj[p].born
        BY <2>1, <2>3, <3>1, <3>3, EngagedStays
      <4>2. Found(p) BY <1>1, <2>3 DEF RipeInv, DueReady
      <4> QED BY <1>1, <3>1, <4>1, <4>2, SameDayStep, ReadyStays
    <3> QED BY <3>2, <3>3
  <2> QED BY <1>1, <2>1, <2>2, <2>3, RegistryMoves
<1>2. CASE Look
  <2>1. PICK item \in scan : scan' = scan \ {item} /\ (tick' = "claim" => seen' = item /\ obj[item[2]].next <= tickNow)
    BY <1>2 DEF Look
  <2>2. tick = "scan" /\ UNCHANGED <<registry, obj, tickNow, untimely, now>>
    BY <1>2 DEF Look, schedules, strays, clock
  <2> DEFINE k == item[1]
             s == obj[p]
  <2>3. item \in Keys \X Objects /\ item = <<k, item[2]>> BY DEF IInv, TypeOK
  <2>4. k \in Keys /\ Listed(k, item[2]) BY <2>3 DEF Listed
  <2>5. p = registry[k] BY <2>1, <2>2
  <2>6. p = item[2] \/ p \in untimely BY <2>3, <2>4, <2>5 DEF RipeInv, ListedHeld
  <2>7. ASSUME p \notin untimely, IsDaily(s)
        PROVE  Ripe(s, tickNow) /\ DayStart(now) <= tickNow
    <3>1. s \in Schedules /\ s.next \in Nat BY <2>4, <2>5, HeldSchedule, SendAtInDay
    <3>2. CASE Planned(k)
      <4>1. Ripe(s, s.next) /\ DayStart(now) <= s.next
        BY <2>4, <2>5, <2>7, <3>2 DEF RipeInv, NextRipe, PlannedRipe
      <4>2. s.next <= tickNow BY <2>1, <2>6, <2>7
      <4>3. tickNow <= now /\ tickNow \in Nat /\ now \in Nat
        BY <2>2 DEF RipeInv, ArmedBefore, IInv, TypeOK
      <4>4. DayStart(now) \in Nat /\ DayStart(now) <= tickNow /\ now < DayStart(now) + DayLength
        BY <3>1, <4>1, <4>2, <4>3, Days
      <4>5. DayStart(tickNow) = DayStart(now)
        <5>1. tickNow < DayStart(now) + DayLength BY <4>3, <4>4, AutomationRunsAssumption
        <5> QED BY <4>3, <4>4, <5>1, SameDay
      <4>6. Ripe(s, tickNow) BY <3>1, <4>1, <4>2, <4>3, <4>5, RipeWhenDue
      <4> QED BY <4>4, <4>6
    <3>3. CASE ~Planned(k)
      <4>1. PICK r \in Runners : pc[r] \in Early /\ Subject(r) = p BY <2>5, <3>3 DEF Planned
      <4>2. Found(p) BY <2>2, <2>5, <4>1 DEF RipeInv, RunsReady
      <4> QED BY <2>7, <4>2 DEF Found
    <3> QED BY <3>2, <3>3
  <2> QED BY <2>2, <2>7 DEF Found
<1> QED BY <1>1, <1>2, SeenMoves

LEMMA StepRunsReady ==
    ASSUME IInv, Apart, RipeInv, ~Restart, [Next]_vars, Day(now') = Day(now) PROVE RunsReady'
<1> SUFFICES ASSUME NEW r \in Runners, NEW p, pc'[r] \in Early, p = Subject(r)', p # 0
             PROVE  Ready(p)' /\ (tick' # "idle" => Found(p)')
  BY DEF RunsReady, Ready, Found
<1>1. CASE pc[r] \in Early /\ runKey'[r] = runKey[r] /\ Subject(r) = p
  <2>1. p \in Objects /\ p # 0 /\ p # last + 1 /\ obj[p] \in Schedules /\ obj[p] # Unset /\ runKey[r] \in Keys
    BY <1>1, SubjectSchedule
  <2>2. Ready(p) /\ (tick # "idle" => Found(p)) BY <1>1, <2>1 DEF RipeInv, RunsReady
  <2>3. \A q \in Runners : ~(Close(q) /\ runObj[q] = p)
    <3> SUFFICES ASSUME NEW q \in Runners, Close(q), runObj[q] = p PROVE FALSE OBVIOUS
    <3>1. pc[q] = "close" /\ pc[q] \in Early /\ Subject(q) = p
      BY DEF Close, Go, Early, Working, WithObject, Points, Subject
    <3>2. q = r BY <1>1, <2>1, <3>1, SubjectsApart
    <3>3. pc'[r] = "save" BY <3>2 DEF Close, Go, IInv, TypeOK
    <3> QED BY <3>3 DEF Early, Working, WithObject, Points
  <2>4. \/ \E k \in Keys : registry[k] = p /\ Awaited(k)
        \/ AtWork(p) /\ \A q \in Runners : ~(Close(q) /\ runObj[q] = p)
    <3>1. CASE pc[r] = "begin" BY <1>1, <2>1, <3>1 DEF Subject, Awaited
    <3>2. CASE pc[r] # "begin" BY <1>1, <2>3, <3>2 DEF Subject, AtWork, Early
    <3> QED BY <3>1, <3>2
  <2>5. CASE p \in untimely' BY <2>5 DEF Ready, Found
  <2>6. CASE p \notin untimely'
    <3>1. /\ p \notin untimely
          /\ obj'[p].ident = obj[p].ident /\ obj'[p].sendAt = obj[p].sendAt /\ obj'[p].born = obj[p].born
      BY <2>1, <2>4, <2>6, EngagedStays
    <3>2. /\ Ready(p)'
          /\ tickNow' = tickNow /\ Found(p) => Found(p)'
          /\ tickNow' = now /\ now' = now => Found(p)'
      BY <2>1, <2>2, <3>1, SameDayStep, ReadyStays
    <3>3. tick' # "idle" => Found(p)'
      <4>1. BeginTick => now' = now BY DEF BeginTick, clock
      <4> QED BY <2>2, <3>2, <4>1, TickMoves
    <3> QED BY <3>2, <3>3
  <2> QED BY <2>5, <2>6
<1>2. CASE pc[r] = "begin" /\ pc'[r] = "begin" /\ runKey'[r] = runKey[r] /\ registry'[runKey[r]] # registry[runKey[r]]
  <2>1. runKey[r] \in Keys BY <1>2 DEF IInv, RunsHaveKeys, Running
  <2>2. p = registry'[runKey[r]] BY <1>2 DEF Subject
  <2>3. Edit(runKey[r]) /\ registry'[runKey[r]] = last + 1 BY <1>2, <2>1, <2>2, RegistryMoves
  <2>4. Awaited(runKey[r]) BY <1>2 DEF Awaited
  <2>5. p \in untimely' BY <2>2, <2>3, <2>4 DEF Edit
  <2> QED BY <2>5 DEF Ready, Found
<1>3. CASE Fire /\ pc'[r] = "begin" /\ runKey'[r] = seen[1]
  <2> DEFINE k == seen[1]
  <2>1. /\ tick = "claim" /\ k \in Keys /\ Awaited(k)
        /\ UNCHANGED <<registry, untimely, tickNow, now>>
    BY <1>3 DEF Fire, IInv, InMemory, Awaited, strays, clock
  <2>2. p = registry[k] BY <1>3, <2>1 DEF Subject
  <2>3. p \in Objects /\ obj[p] \in Schedules /\ obj[p] # Unset /\ p # last + 1 BY <2>1, <2>2, HeldSchedule
  <2>4. Found(p) BY <2>1, <2>2 DEF RipeInv, DueReady
  <2>5. CASE p \in untimely' BY <2>5 DEF Ready, Found
  <2>6. CASE p \notin untimely'
    <3>1. /\ p \notin untimely
          /\ obj'[p].ident = obj[p].ident /\ obj'[p].sendAt = obj[p].sendAt /\ obj'[p].born = obj[p].born
      BY <2>1, <2>2, <2>3, <2>6, EngagedStays
    <3>2. tickNow <= now BY <2>1 DEF RipeInv, ArmedBefore
    <3> QED BY <2>1, <2>3, <2>4, <3>1, <3>2, SameDayStep, ReadyStays
  <2> QED BY <2>5, <2>6
<1> QED BY <1>1, <1>2, <1>3, RunsMove

LEMMA StepNextRipe ==
    ASSUME IInv, Apart, RipeInv, ~Restart, [Next]_vars, Day(now') = Day(now) PROVE NextRipe'
<1> SUFFICES ASSUME NEW k \in Keys, NEW p, p = registry'[k], p \notin untimely', p # 0, Planned(k)',
                    IsDaily(obj'[p])
             PROVE  Ripe(obj'[p], obj'[p].next) /\ DayStart(now) <= obj'[p].next
  BY SameDayStep DEF NextRipe, PlannedRipe
<1>1. CASE Edit(k) /\ p = last + 1
  BY <1>1, EditedFresh
<1>2. CASE p = registry[k] /\ \E r \in Runners : Close(r) /\ runObj[r] = p /\ runKey[r] = k
  <2>1. PICK r \in Runners : Close(r) /\ runObj[r] = p /\ runKey[r] = k BY <1>2
  <2>2. p \in Objects /\ p # last + 1 /\ obj[p] # Unset BY <1>2, HeldSchedule
  <2>3. AsArmed(p) BY <2>2, SchedulesKept
  <2>4. IsDaily(obj[p]) BY <2>2, <2>3 DEF AsArmed, IsDaily
  <2> QED BY <1>2, <2>1, <2>4, ClosedRipe DEF RipeInv
<1>3. CASE p = registry[k] /\ Move(k)
  BY <1>3, MovedRipe DEF RipeInv
<1>4. CASE p = registry[k] /\ FireFails /\ seen = <<k, p>>
  <2> DEFINE n == tickNow + Interval
  <2>1. p \in Objects /\ obj[p] \in Schedules /\ tick = "claim" BY <1>4, HeldSchedule DEF FireFails
  <2>2. p \notin untimely /\ Day(n) = Day(now)
    <3>1. untimely' = untimely \cup PutOff BY <1>4 DEF FireFails
    <3>2. p \notin PutOff /\ p \notin untimely BY <3>1
    <3> QED BY <1>4, <3>2 DEF PutOff
  <2>3. obj'[p] = [obj[p] EXCEPT !.next = n]
    <3>1. obj' = [obj EXCEPT ![p] = [@ EXCEPT !.next = n]] BY <1>4 DEF FireFails, Pushed
    <3> QED BY <2>1, <3>1 DEF IInv, TypeOK
  <2>4. now \in Nat /\ tickNow \in Nat /\ n \in Nat /\ tickNow <= n /\ tickNow <= now
    <3>1. now \in Nat /\ tickNow \in Nat /\ tickNow <= now
      BY <2>1 DEF IInv, TypeOK, RipeInv, ArmedBefore
    <3> QED BY <3>1, AutomationRunsAssumption
  <2> HIDE DEF n
  <2>5. /\ obj'[p].next = n /\ obj'[p].born = obj[p].born /\ obj'[p].sendAt = obj[p].sendAt
        /\ obj'[p].ident = obj[p].ident
    BY <2>1, <2>3 DEF Schedules
  <2>6. Ripe(obj[p], tickNow) /\ DayStart(now) <= tickNow
    <3>1. IsDaily(obj[p]) BY <2>5 DEF IsDaily
    <3>2. Found(p) BY <1>4, <2>1 DEF RipeInv, DueReady
    <3> QED BY <2>2, <3>1, <3>2 DEF Found
  <2>7. DayStart(now) <= n /\ Day(tickNow) = Day(n)
    <3>1. DayStart(now) \in Nat /\ now < DayStart(now) + DayLength BY <2>4, Days
    <3>2. DayStart(now) <= n /\ tickNow < DayStart(now) + DayLength
      BY <2>4, <2>6, <3>1, AutomationRunsAssumption
    <3>3. Day(tickNow) = Day(now) BY <2>4, <2>6, <3>2, SameDay
    <3> QED BY <2>2, <3>2, <3>3
  <2>8. Ripe(obj[p], n) BY <2>1, <2>4, <2>6, <2>7, SendAtInDay, RipeForTheDay
  <2> QED BY <2>5, <2>7, <2>8 DEF Ripe, SendTime
<1>5. CASE /\ p = registry[k] /\ Planned(k)
           /\ obj'[p].ident = obj[p].ident /\ obj'[p].born = obj[p].born
           /\ obj'[p].sendAt = obj[p].sendAt /\ obj'[p].next = obj[p].next
           /\ p \in untimely => p \in untimely'
  <2>1. IsDaily(obj[p]) BY <1>5 DEF IsDaily
  <2>2. PlannedRipe(obj[p]) BY <1>5, <2>1 DEF RipeInv, NextRipe
  <2> QED BY <1>5, <2>2 DEF PlannedRipe, Ripe, SendTime
<1> QED BY <1>1, <1>2, <1>3, <1>4, <1>5, PlanSteps

LEMMA StepSignedToday ==
    ASSUME IInv, Apart, RipeInv, ~Restart, [Next]_vars, Day(now') = Day(now) PROVE SignedToday'
<1> SUFFICES ASSUME NEW r \in Runners, pc'[r] \in {"send", "record"}, IsDaily(obj'[runObj'[r]]),
                    runObj'[r] \notin untimely'
             PROVE  sig'[r] = Day(now)
  BY DEF SignedToday
<1>1. CASE pc[r] \in {"send", "record"} /\ sig'[r] = sig[r] /\ runObj'[r] = runObj[r]
  <2> DEFINE o == runObj[r]
  <2>1. o \in Objects /\ o # 0 /\ o # last + 1 /\ obj[o] # Unset
    BY <1>1, RunSchedule DEF WithObject, Points
  <2>2. \A q \in Runners : ~(Close(q) /\ runObj[q] = o)
    <3> SUFFICES ASSUME NEW q \in Runners, Close(q), runObj[q] = o PROVE FALSE OBVIOUS
    <3>1. pc[q] = "close" /\ pc[q] \in Early /\ Subject(q) = o
      BY DEF Close, Go, Early, Working, WithObject, Points, Subject
    <3>2. pc[r] \in Early /\ Subject(r) = o BY <1>1 DEF Early, Working, WithObject, Points, Subject
    <3>3. q = r BY <2>1, <3>1, <3>2, SubjectsApart
    <3> QED BY <1>1, <3>1, <3>3
  <2>3. AtWork(o) BY <1>1 DEF AtWork, Working, WithObject, Points
  <2>4. o \notin untimely /\ obj'[o].ident = obj[o].ident BY <1>1, <2>1, <2>2, <2>3, EngagedStays
  <2>5. IsDaily(obj[o]) BY <1>1, <2>4 DEF IsDaily
  <2> QED BY <1>1, <2>4, <2>5 DEF RipeInv, SignedToday
<1>2. CASE pc'[r] = "send" /\ Check(r)
  <2>1. sig' = [sig EXCEPT ![r] = Signature(r)] /\ UNCHANGED <<obj, runObj>>
    BY <1>2 DEF Check, Go, schedules, IInv, TypeOK
  <2>2. sig'[r] = Signature(r) BY <2>1 DEF IInv, TypeOK
  <2> QED BY <2>1, <2>2 DEF Signature
<1> QED BY <1>1, <1>2, RunsMove

\* The end of a day: what is due or under way has become untimely.
LEMMA MidnightKeepsRipe ==
    ASSUME IInv, Apart, RipeInv, Advance, DayEnds
    PROVE  DueReady' /\ RunsReady' /\ NextRipe' /\ SignedToday'
<1>1. /\ now \in Nat /\ now' = now + 1 /\ now' \in Nat
      /\ UNCHANGED <<registry, obj, tick, seen, tickNow, pc, runKey, runObj, sig>>
      /\ untimely' = untimely \cup OverMidnight
  BY DEF Advance, IInv, TypeOK, schedules, ticking, runs
<1>2. DayStart(now') = now'
  <2>1. /\ DayStart(now) \in Nat /\ Midnight(now) = DayStart(now) + DayLength /\ DayLength \in Nat \ {0}
    BY <1>1, Days, AutomationRunsAssumption
  <2>2. /\ now' = DayStart(now) + DayLength /\ DayStart(now) + DayLength <= now'
        /\ now' < DayStart(now) + DayLength + DayLength
    BY <1>1, <2>1 DEF DayEnds
  <2>3. DayStart(now') = DayStart(now) + DayLength BY <1>1, <2>2, NextDay
  <2> QED BY <2>2, <2>3
<1>3. \A o \in Objects :
        AtWork(o) \/ (\E k \in Keys : registry[k] = o /\ (Due(k) \/ Awaited(k))) => o \in untimely'
  BY <1>1 DEF OverMidnight
<1>4. DueReady'
  <2> SUFFICES ASSUME tick = "claim", registry[seen[1]] # 0 PROVE registry[seen[1]] \in untimely'
    BY <1>1 DEF DueReady, Found
  <2>1. seen[1] \in Keys BY DEF IInv, InMemory
  <2>2. Awaited(seen[1]) /\ registry[seen[1]] \in Objects BY <2>1, HeldSchedule DEF Awaited
  <2> QED BY <1>3, <2>1, <2>2
<1>5. RunsReady'
  <2> SUFFICES ASSUME NEW r \in Runners, pc[r] \in Early, Subject(r) # 0 PROVE Subject(r) \in untimely'
    BY <1>1 DEF RunsReady, Ready, Found, Subject
  <2>1. Subject(r) \in Objects /\ runKey[r] \in Keys BY SubjectSchedule
  <2>2. CASE pc[r] = "begin" BY <1>3, <2>1, <2>2 DEF Subject, Awaited
  <2>3. CASE pc[r] # "begin" BY <1>3, <2>1, <2>3 DEF Subject, Early, AtWork
  <2> QED BY <2>2, <2>3
<1>6. NextRipe'
  <2> SUFFICES ASSUME NEW k \in Keys, registry[k] \notin untimely' \cup {0}, Planned(k), IsDaily(obj[registry[k]])
               PROVE  Ripe(obj[registry[k]], obj[registry[k]].next) /\ DayStart(now') <= obj[registry[k]].next
    BY <1>1 DEF NextRipe, Planned, PlannedRipe, Subject
  <2> DEFINE s == obj[registry[k]]
  <2>1. registry[k] \in Objects /\ s \in Schedules /\ s.next \in Nat BY HeldSchedule, SendAtInDay
  <2>2. ~Due(k) BY <1>3, <2>1
  <2>3. ~(s.next <= now) BY <2>2 DEF Due, Registered
  <2>4. Ripe(s, s.next) BY <1>1 DEF RipeInv, NextRipe, PlannedRipe
  <2>5. now + 1 <= s.next BY <1>1, <2>1, <2>3
  <2> QED BY <1>1, <1>2, <2>4, <2>5
<1>7. SignedToday'
  <2> SUFFICES ASSUME NEW r \in Runners, pc[r] \in {"send", "record"} PROVE runObj[r] \in untimely'
    BY <1>1 DEF SignedToday
  <2>1. AtWork(runObj[r]) BY DEF AtWork, Working, WithObject, Points
  <2>2. runObj[r] \in Objects BY RunSchedule DEF WithObject, Points
  <2> QED BY <1>3, <2>1, <2>2
<1> QED BY <1>4, <1>5, <1>6, <1>7

\* What a restart, or the first start, makes of a schedule.
LEMMA ResumedRipe ==
    ASSUME IInv, ArmedBefore, Restart, NEW k \in Keys, obj'[k] # Unset
    PROVE  LET s == obj'[k] IN
           /\ file[k] # Unset /\ file[k] \in Schedules
           /\ s.born = file[k].born /\ s.born <= now /\ s.enabled = file[k].enabled
           /\ IsDaily(s) => /\ Ripe(s, s.next) /\ DayStart(now) <= s.next
                            /\ s.next < Midnight(now) + DayLength
                            /\ s.next < Midnight(now) \/ NotOwed(s, now)
<1> DEFINE c == Restored(file[k])
           n == ResumeTime(c, now)
           s == [c EXCEPT !.next = n]
<1>1. k \in Objects /\ file[k] # Unset /\ obj'[k] = s BY KeysAreObjects DEF Restart
<1>2. file[k] \in Schedules /\ now \in Nat BY <1>1 DEF IInv, TypeOK
<1>3. c \in Schedules
  <2>1. 0 \in 0 .. Len(RetryWaits) BY AutomationRunsAssumption
  <2> QED BY <1>2, <2>1, WithFailures DEF Restored
<1>4. c.ident = file[k].ident /\ c.born = file[k].born /\ c.enabled = file[k].enabled BY <1>2, FieldsKept
<1> HIDE DEF c
<1>5. /\ s.ident = c.ident /\ s.sendAt = c.sendAt /\ s.born = c.born /\ s.signed = c.signed
      /\ s.enabled = c.enabled /\ s.next = n
  <2> HIDE DEF n
  <2> QED BY <1>3 DEF Schedules
<1>6. c.born <= now BY <1>1, <1>4 DEF ArmedBefore
<1>7. IsDaily(c) => /\ Ripe(c, n) /\ DayStart(now) <= n /\ n < Midnight(now) + DayLength
                    /\ n < Midnight(now) \/ NotOwed(c, now)
  BY <1>2, <1>3, <1>6, ResumeRipe
<1> HIDE DEF n, s
<1>8. IsDaily(s) <=> IsDaily(c) BY <1>5 DEF IsDaily
<1>9. (Ripe(s, n) <=> Ripe(c, n)) /\ (NotOwed(s, now) <=> NotOwed(c, now))
  BY <1>5 DEF Ripe, NotOwed, SendTime
<1> QED BY <1>1, <1>2, <1>4, <1>5, <1>6, <1>7, <1>8, <1>9

LEMMA RestartKeepsRipe == ASSUME IInv, RipeInv, Restart PROVE RipeInv'
<1>1. /\ UNCHANGED <<now, file>> /\ tick' = "idle" /\ scan' = {} /\ \A r \in Runners : pc'[r] = "idle"
      /\ \A k \in Keys : registry'[k] \in {0, k} /\ (registry'[k] # 0 => obj'[k] # Unset)
      /\ \A o \in Objects : obj'[o] # Unset => o \in Keys
  <2>1. /\ UNCHANGED <<now, file>> /\ tick' = "idle" /\ scan' = {} /\ \A r \in Runners : pc'[r] = "idle"
        /\ \A k \in Keys : registry'[k] \in {0, k}
        /\ \A o \in Objects : obj'[o] # Unset => o \in Keys
    BY DEF Restart, TickOver, clock
  <2>2. ASSUME NEW k \in Keys, registry'[k] # 0 PROVE obj'[k] # Unset
    <3>1. registry'[k] = k BY <2>1, <2>2
    <3> QED BY <2>2, <3>1, StepIInv DEF IInv, InMemory, Next
  <2> QED BY <2>1, <2>2
<1>2. ArmedBefore' BY <1>1, ResumedRipe DEF RipeInv, ArmedBefore
<1>3. NextRipe'
  <2> SUFFICES ASSUME NEW k \in Keys, registry'[k] # 0, IsDaily(obj'[registry'[k]])
               PROVE  PlannedRipe(obj[registry[k]])'
    BY DEF NextRipe
  <2>1. registry'[k] = k /\ obj'[k] # Unset BY <1>1
  <2>2. Ripe(obj'[k], obj'[k].next) /\ DayStart(now) <= obj'[k].next
    BY <2>1, ResumedRipe DEF RipeInv
  <2> QED BY <1>1, <2>1, <2>2 DEF PlannedRipe
<1>4. ListedHeld' /\ DueReady' /\ RunsReady' /\ SignedToday'
  BY <1>1 DEF ListedHeld, Listed, DueReady, RunsReady, SignedToday, Early, Working, WithObject
<1> QED BY <1>2, <1>3, <1>4 DEF RipeInv

\* How a schedule is first armed.
LEMMA InitRipe ==
    ASSUME Init, NEW o \in Objects, obj[o] # Unset
    PROVE  LET s == obj[o] IN
           /\ o \in Keys /\ s.born = 0
           /\ IsDaily(s) => /\ Ripe(s, s.next) /\ DayStart(now) <= s.next
                            /\ s.next < Midnight(now) + DayLength
                            /\ s.next < Midnight(now) \/ NotOwed(s, now)
<1>1. PICK setup \in Setups :
          obj = [p \in Objects |-> IF p \notin Keys THEN Unset
                                   ELSE IF setup[p] = Unset THEN Unset ELSE Armed(setup[p], 0)]
  BY DEF Init
<1>2. o \in Keys /\ setup[o] # Unset /\ obj[o] = Armed(setup[o], 0) BY <1>1
<1>3. setup[o] \in [ident : Identities, sendAt : SendTimes] BY <1>2, AutomationRunsAssumption
<1>4. PICK i \in Identities, a \in SendTimes : setup[o] = [ident |-> i, sendAt |-> a] BY <1>3
<1>5. obj[o] = Armed([ident |-> i, sendAt |-> a], 0) BY <1>2, <1>4
<1>6. now = 0 /\ 0 \in Nat BY DEF Init
<1>7. LET s == obj[o] IN
      /\ s.ident = i /\ s.born = 0
      /\ i \in Daily => /\ Ripe(s, s.next) /\ DayStart(now) <= s.next
                        /\ s.next < Midnight(now) + DayLength
                        /\ s.next < Midnight(now) \/ NotOwed(s, now)
  BY <1>5, <1>6, ArmedFresh
<1> QED BY <1>2, <1>7 DEF IsDaily

LEMMA InitRipeInv == ASSUME Init PROVE RipeInv
<1>1. /\ now = 0 /\ tick = "idle" /\ scan = {} /\ \A r \in Runners : pc[r] = "idle"
      /\ \A k \in Keys : file[k] = obj[k]
  BY DEF Init
<1>2. \A k \in Keys : registry[k] # 0 => registry[k] \in Objects /\ obj[registry[k]] # Unset
  BY InitIInv, InitApart, HeldSchedule
<1>3. ArmedBefore
  <2>1. \A o \in Objects : obj[o] # Unset => obj[o].born = 0 BY InitRipe
  <2>2. \A k \in Keys : file[k] # Unset => file[k].born = 0 BY <1>1, <2>1, KeysAreObjects
  <2>3. 0 <= now BY <1>1
  <2> QED BY <1>1, <2>1, <2>2, <2>3 DEF ArmedBefore
<1>4. NextRipe BY <1>2, InitRipe DEF NextRipe, PlannedRipe
<1>5. ListedHeld /\ DueReady /\ RunsReady /\ SignedToday
  BY <1>1 DEF ListedHeld, Listed, DueReady, RunsReady, SignedToday, Early, Working, WithObject
<1> QED BY <1>3, <1>4, <1>5 DEF RipeInv

\* The day changes only as the clock passes midnight.
LEMMA DayMoves ==
    ASSUME IInv, [Next]_vars
    PROVE  Day(now') = Day(now) \/ (Advance /\ DayEnds)
<1>1. CASE now' = now BY <1>1
<1>2. CASE Advance /\ ~DayEnds
  <2>1. now \in Nat /\ now' = now + 1 /\ now' \in Nat BY <1>2 DEF Advance, IInv, TypeOK
  <2>2. /\ DayStart(now) \in Nat /\ DayStart(now) <= now /\ now < DayStart(now) + DayLength
        /\ Midnight(now) = DayStart(now) + DayLength /\ DayLength \in Nat
    BY <2>1, Days, AutomationRunsAssumption
  <2>3. now' < DayStart(now) + DayLength /\ DayStart(now) <= now' BY <1>2, <2>1, <2>2 DEF DayEnds
  <2> QED BY <2>1, <2>3, SameDay
<1> QED BY <1>1, <1>2, ClockMoves

LEMMA StepRipeInv ==
    ASSUME IInv, Apart, RipeInv, [Next]_vars PROVE RipeInv'
<1>1. CASE Restart BY <1>1, RestartKeepsRipe
<1>2. CASE ~Restart
  <2>1. ArmedBefore' /\ ListedHeld' BY <1>2, StepArmedBefore, StepListedHeld DEF RipeInv
  <2>2. CASE Advance /\ DayEnds BY <2>1, <2>2, MidnightKeepsRipe DEF RipeInv
  <2>3. CASE Day(now') = Day(now)
    BY <1>2, <2>1, <2>3, StepDueReady, StepRunsReady, StepNextRipe, StepSignedToday DEF RipeInv
  <2> QED BY <2>2, <2>3, DayMoves
<1> QED BY <1>1, <1>2

LEMMA RipeIsOwed == IInv /\ Apart /\ RipeInv => OnlyOwedReports
<1> SUFFICES ASSUME IInv, Apart, RipeInv, NEW r \in Runners, pc[r] = "send", IsDaily(obj[runObj[r]]),
                    runObj[r] \notin untimely
             PROVE  OnItsDay(r)
  BY DEF OnlyOwedReports
<1>1. pc[r] \in Early /\ Subject(r) = runObj[r] BY DEF Early, Working, WithObject, Points, Subject
<1>2. runObj[r] # 0 BY RunSchedule DEF WithObject, Points
<1>3. Ripe(obj[runObj[r]], now) BY <1>1, <1>2 DEF RipeInv, RunsReady, Ready
<1>4. (sig[r] - 1) * DayLength = DayStart(now) BY Days DEF RipeInv, SignedToday, IInv, TypeOK
<1> QED BY <1>3, <1>4 DEF OnItsDay, Ripe, SendTime, DayStart

\* A daily report goes out at or after its send time, under the day's date, and
\* only for a day whose send time came after it was armed: whatever requests are
\* made and whatever fails, crashes at any step included.  Left out are the reports
\* of schedules that are untimely: a midnight found them due, under way or put off
\* past it, or an edit or a move came between the tick and the end of their run.
THEOREM OnlyOwedReportsHolds == Spec => []OnlyOwedReports
<1>1. Init => IInv /\ Apart /\ RipeInv BY InitIInv, InitApart, InitRipeInv
<1>2. IInv /\ Apart /\ RipeInv /\ [Next]_vars => (IInv /\ Apart /\ RipeInv)'
  BY StepIInv, StepApart, StepRipeInv
<1> QED BY <1>1, <1>2, RipeIsOwed, PTL DEF Spec

-----------------------------------------------------------------------------
(***************************************************************************)
(* A daily report that is owed has a run to come that day, unless its      *)
(* schedule was passed over.                                               *)
(***************************************************************************)

\* A daily report on its way carries the date of the day.
DatedToday ==
    \A r \in Runners :
        pc[r] \in {"send", "record"} /\ IsDaily(obj[runObj[r]]) /\ runObj[r] \notin passedOver =>
            sig[r] = Day(now)

\* A run that has not failed has sent the day's report, or found it sent.
ClosesSigned ==
    \A r \in Runners :
        pc[r] = "close" /\ IsDaily(obj[runObj[r]]) /\ ~failed[r] /\ runObj[r] \notin passedOver =>
            obj[runObj[r]].signed = Day(now)

\* The next run is today unless nothing is owed or no retry fits, tomorrow at the latest.
PlannedInTime(s) ==
    /\ s.next < Midnight(now) + DayLength
    /\ \/ s.next < Midnight(now)
       \/ NotOwed(s, now)
       \/ s.failures > 0 /\ now + RetryWait(s) >= Midnight(now)

NextToday ==
    \A k \in Keys :
        registry[k] \notin passedOver \cup {0} /\ Planned(k) /\ IsDaily(obj[registry[k]]) =>
            PlannedInTime(obj[registry[k]])

OwedInv == DatedToday /\ ClosesSigned /\ NextToday

\* Who works on a schedule that another run begins with.
LEMMA StillPassedOver ==
    ASSUME IInv, Apart, ~Restart, [Next]_vars, NEW r \in Runners, pc[r] \in Working,
           runObj[r] \in passedOver
    PROVE  runObj[r] \in passedOver'
<1> SUFFICES ASSUME runObj[r] \notin passedOver' PROVE FALSE OBVIOUS
<1>1. PICK q \in Runners : BeginRun(q) /\ registry[runKey[q]] = runObj[r] BY PassedOverEnds
<1>2. pc[q] = "begin" /\ pc[q] \in Early /\ Subject(q) = runObj[r]
  BY <1>1 DEF BeginRun, Go, Early, Subject
<1>3. pc[r] # "begin" /\ pc[r] \in WithObject BY DEF Working, WithObject
<1>4. pc[r] \in Early /\ Subject(r) = runObj[r] BY <1>3 DEF Early, Subject
<1>5. runObj[r] # 0 BY <1>3, RunSchedule
<1>6. q = r BY <1>2, <1>4, <1>5, SubjectsApart
<1> QED BY <1>2, <1>3, <1>6

LEMMA StepDatedToday ==
    ASSUME IInv, Apart, OwedInv, ~Restart, [Next]_vars, Day(now') = Day(now) PROVE DatedToday'
<1> SUFFICES ASSUME NEW r \in Runners, pc'[r] \in {"send", "record"}, IsDaily(obj'[runObj'[r]]),
                    runObj'[r] \notin passedOver'
             PROVE  sig'[r] = Day(now)
  BY DEF DatedToday
<1>1. CASE pc[r] \in {"send", "record"} /\ sig'[r] = sig[r] /\ runObj'[r] = runObj[r]
  <2> DEFINE o == runObj[r]
  <2>1. o \in Objects /\ o # last + 1 /\ obj[o] # Unset BY <1>1, RunSchedule DEF WithObject, Points
  <2>2. pc[r] \in Working BY <1>1 DEF Working, WithObject, Points
  <2>3. o \notin passedOver BY <1>1, <2>2, StillPassedOver
  <2>4. AsArmed(o) BY <2>1, SchedulesKept
  <2>5. IsDaily(obj[o]) BY <1>1, <2>1, <2>4 DEF AsArmed, IsDaily
  <2> QED BY <1>1, <2>3, <2>5 DEF OwedInv, DatedToday
<1>2. CASE pc'[r] = "send" /\ Check(r)
  <2>1. sig' = [sig EXCEPT ![r] = Signature(r)] /\ UNCHANGED <<obj, runObj>>
    BY <1>2 DEF Check, Go, schedules, IInv, TypeOK
  <2>2. sig'[r] = Signature(r) BY <2>1 DEF IInv, TypeOK
  <2> QED BY <2>1, <2>2 DEF Signature
<1> QED BY <1>1, <1>2, RunsMove

\* How a run comes to be closed.
LEMMA Closing ==
    ASSUME IInv, Apart, ~Restart, [Next]_vars, NEW r \in Runners, pc'[r] = "close"
    PROVE  \/ pc[r] = "close" /\ runObj'[r] = runObj[r] /\ failed'[r] = failed[r]
           \/ Check(r) \/ Record(r) \/ failed'[r] = TRUE
           \/ runObj'[r] \in passedOver'
<1> USE DEF IInv, TypeOK
<1> DEFINE Way == \/ pc[r] = "close" /\ runObj'[r] = runObj[r] /\ failed'[r] = failed[r]
                  \/ Check(r) \/ Record(r) \/ failed'[r] = TRUE
                  \/ runObj'[r] \in passedOver'
<1> SUFFICES Way OBVIOUS
<1>1. ASSUME pc'[r] = pc[r], UNCHANGED <<runObj, failed>> PROVE Way BY <1>1
<1>2. CASE Tick
  <2>1. UNCHANGED <<runObj, failed>> /\ (UNCHANGED pc \/ Fire)
    BY <1>2 DEF Tick, BeginTick, Look, StillRunning, Fire, FireFails, EndTick, runs
  <2>2. CASE Fire
    <3>1. PICK q \in Runners : pc' = [pc EXCEPT ![q] = "begin"] BY <2>2 DEF Fire
    <3>2. pc'[r] = pc[r] BY <3>1
    <3> QED BY <1>1, <2>1, <3>2
  <2> QED BY <1>1, <2>1, <2>2
<1>3. ASSUME NEW q \in Runners, Run(q) PROVE Way
  <2>1. CASE q # r
    <3>1. pc'[r] = pc[r] /\ (pc[r] # "idle" => runObj'[r] = runObj[r] /\ failed'[r] = failed[r])
      BY <1>3, <2>1 DEF Run, Steps, BeginRun, Adopt, BuildFails, Build, Check, Send, SendFails, Record,
         Close, Save, Release, Go, runs
    <3> QED BY <3>1
  <2>2. CASE q = r
    <3>1. CASE BeginRun(r)
      <4> DEFINE o == registry[runKey[r]]
      <4>1. o # 0 /\ ~obj[o].enabled /\ runObj'[r] = o BY <3>1 DEF BeginRun, Go
      <4>2. o \in passedOver' BY <3>1, <4>1 DEF BeginRun
      <4> QED BY <4>1, <4>2
    <3>2. CASE Adopt(r) BY <1>1, <3>2 DEF Adopt, runs
    <3>3. CASE BuildFails(r) \/ SendFails(r) BY <3>3 DEF BuildFails, SendFails
    <3>4. CASE Check(r) \/ Record(r) BY <3>4
    <3>5. CASE Build(r) \/ Send(r) \/ Close(r) \/ Save(r) \/ Release(r)
      <4>1. pc'[r] # "close" BY <3>5 DEF Build, Send, Close, Save, Release, Go
      <4> QED BY <4>1
    <3> HIDE DEF Way, IInv, TypeOK
    <3> QED BY <1>3, <2>2, <3>1, <3>2, <3>3, <3>4, <3>5 DEF Run, Steps
  <2> QED BY <2>1, <2>2
<1>4. ASSUME NEW k \in Keys, Request(k) PROVE Way
  <2>1. UNCHANGED <<pc, runObj, failed>> BY <1>4 DEF Request, Edit, Stop, Move, SetEnabled, runs
  <2> QED BY <1>1, <2>1
<1>5. CASE Advance \/ EstateChanges \/ UNCHANGED vars
  <2>1. UNCHANGED <<pc, runObj, failed>> BY <1>5 DEF Advance, EstateChanges, vars, runs
  <2> QED BY <1>1, <2>1
<1> HIDE DEF Way, IInv, TypeOK
<1> QED BY <1>2, <1>3, <1>4, <1>5 DEF Next

LEMMA StepClosesSigned ==
    ASSUME IInv, Apart, OwedInv, ~Restart, [Next]_vars, Day(now') = Day(now) PROVE ClosesSigned'
<1> SUFFICES ASSUME NEW r \in Runners, pc'[r] = "close", IsDaily(obj'[runObj'[r]]), ~failed'[r],
                    runObj'[r] \notin passedOver'
             PROVE  obj'[runObj'[r]].signed = Day(now)
  BY DEF ClosesSigned
<1> DEFINE o == runObj[r]
<1>1. CASE pc[r] = "close" /\ runObj'[r] = o /\ failed'[r] = failed[r]
  <2>1. o \in Objects /\ o # 0 /\ o # last + 1 /\ obj[o] # Unset
    BY <1>1, RunSchedule DEF WithObject, Points
  <2>2. pc[r] \in Working BY <1>1 DEF Working, WithObject, Points
  <2>3. o \notin passedOver BY <1>1, <2>2, StillPassedOver
  <2>4. AsArmed(o) BY <2>1, SchedulesKept
  <2>5. IsDaily(obj[o]) BY <1>1, <2>1, <2>4 DEF AsArmed, IsDaily
  <2>6. ASSUME NEW q \in Runners, Check(q) \/ Record(q), runObj[q] = o PROVE FALSE
    <3>1. pc[q] \in {"check", "record"} BY <2>6 DEF Check, Record, Go
    <3>2. pc[q] \in Early /\ Subject(q) = o
      BY <2>6, <3>1 DEF Early, Working, WithObject, Points, Subject
    <3>3. pc[r] \in Early /\ Subject(r) = o BY <1>1 DEF Early, Working, WithObject, Points, Subject
    <3>4. q = r BY <2>1, <3>2, <3>3, SubjectsApart
    <3> QED BY <1>1, <3>1, <3>4
  <2>7. obj'[o].signed = obj[o].signed BY <2>1, <2>4, <2>6 DEF AsArmed
  <2> QED BY <1>1, <2>3, <2>5, <2>7 DEF OwedInv, ClosesSigned
<1>2. CASE Check(r)
  <2>1. pc[r] = "check" /\ UNCHANGED runObj BY <1>2 DEF Check, Go
  <2>2. o \in Objects /\ o # last + 1 /\ obj[o] \in Schedules /\ obj[o] # Unset
    BY <2>1, RunSchedule DEF WithObject, Points
  <2>3. AsArmed(o) BY <2>2, SchedulesKept
  <2>4. IsDaily(obj[o]) BY <2>1, <2>2, <2>3 DEF AsArmed, IsDaily
  <2>5. Signature(r) = Day(now) BY <2>4 DEF Signature
  <2> DEFINE n == Checked(obj[o], Signature(r), WantsToSend(r))
  <2>6. obj' = [obj EXCEPT ![o] = n] BY <1>2, <2>1 DEF Check, Go, IInv, TypeOK
  <2>7. obj'[o] = n BY <2>2, <2>6 DEF IInv, TypeOK
  <2>8. n.signed = IF WantsToSend(r) THEN Signature(r) ELSE obj[o].signed
    <3>1. n.signed = IF WantsToSend(r) /\ IsDaily(obj[o]) THEN Signature(r) ELSE obj[o].signed
      BY <2>2, FieldsKept
    <3> HIDE DEF n
    <3> QED BY <2>4, <3>1
  <2>9. ~WantsToSend(r) => obj[o].signed = Signature(r) BY <2>4 DEF WantsToSend
  <2> HIDE DEF n
  <2> QED BY <2>1, <2>5, <2>7, <2>8, <2>9
<1>3. CASE Record(r)
  <2>1. pc[r] = "record" /\ UNCHANGED <<runObj, passedOver>> BY <1>3 DEF Record, Go, strays
  <2>2. o \in Objects /\ o # last + 1 /\ obj[o] \in Schedules /\ obj[o] # Unset
    BY <2>1, RunSchedule DEF WithObject, Points
  <2>3. AsArmed(o) BY <2>2, SchedulesKept
  <2>4. IsDaily(obj[o]) BY <2>1, <2>2, <2>3 DEF AsArmed, IsDaily
  <2>5. sig[r] = Day(now) BY <2>1, <2>4 DEF OwedInv, DatedToday
  <2>6. obj'[o] = [obj[o] EXCEPT !.signed = sig[r], !.lastRun = now]
    BY <1>3, <2>2 DEF Record, IInv, TypeOK
  <2>7. obj'[o].signed = sig[r] BY <2>2, <2>6 DEF Schedules
  <2> QED BY <2>1, <2>5, <2>7
<1> QED BY <1>1, <1>2, <1>3, Closing

LEMMA StepNextToday ==
    ASSUME IInv, Apart, ArmedBefore, OwedInv, ~Restart, [Next]_vars, Day(now') = Day(now)
    PROVE  NextToday'
<1>0. /\ now \in Nat /\ now' \in Nat /\ now <= now' /\ DayStart(now') = DayStart(now)
      /\ Midnight(now) = DayStart(now) + DayLength /\ Midnight(now') = Midnight(now)
      /\ DayStart(now) \in Nat /\ DayLength \in Nat
  BY SameDayStep, Days, AutomationRunsAssumption
<1> SUFFICES ASSUME NEW k \in Keys, NEW p, p = registry'[k], p \notin passedOver', p # 0, Planned(k)',
                    IsDaily(obj'[p])
             PROVE  /\ obj'[p].next < Midnight(now) + DayLength
                    /\ \/ obj'[p].next < Midnight(now)
                       \/ NotOwed(obj'[p], now')
                       \/ obj'[p].failures > 0 /\ now' + RetryWait(obj'[p]) >= Midnight(now)
  BY <1>0 DEF NextToday, PlannedInTime
<1>1. CASE Edit(k) /\ p = last + 1
  <2>1. now' = now BY <1>1 DEF Edit, clock
  <2> QED BY <1>1, <2>1, EditedFresh
<1>2. CASE p = registry[k] /\ \E r \in Runners : Close(r) /\ runObj[r] = p /\ runKey[r] = k
  <2>1. PICK r \in Runners : Close(r) /\ runObj[r] = p /\ runKey[r] = k BY <1>2
  <2>2. p \in Objects /\ p # last + 1 /\ obj[p] # Unset BY <1>2, HeldSchedule
  <2>3. AsArmed(p) BY <2>2, SchedulesKept
  <2>4. IsDaily(obj[p]) BY <2>2, <2>3 DEF AsArmed, IsDaily
  <2>5. pc[r] = "close" /\ now' = now /\ passedOver' = passedOver BY <2>1 DEF Close, Go, clock
  <2>6. ~failed[r] => obj[p].signed = Day(now) BY <2>1, <2>4, <2>5 DEF OwedInv, ClosesSigned
  <2>7. LET s == obj'[p] IN
        /\ s.next < Midnight(now) + DayLength /\ s.signed = obj[p].signed
        /\ failed[r] => \/ s.next < Midnight(now)
                        \/ NotOwed(s, now)
                        \/ s.failures > 0 /\ now + RetryWait(s) >= Midnight(now)
    BY <1>2, <2>1, <2>4, ClosedRipe
  <2>8. ~failed[r] => NotOwed(obj'[p], now) BY <2>6, <2>7 DEF NotOwed
  <2> QED BY <2>5, <2>7, <2>8
<1>3. CASE p = registry[k] /\ Move(k)
  BY <1>3, MovedRipe
<1>4. CASE p = registry[k] /\ FireFails /\ seen = <<k, p>>
  <2> DEFINE n == tickNow + Interval
  <2>1. p \in Objects /\ obj[p] \in Schedules BY <1>4, HeldSchedule
  <2>2. Day(n) = Day(now)
    <3>1. passedOver' = passedOver \cup PutOff BY <1>4 DEF FireFails
    <3>2. p \notin PutOff BY <3>1
    <3> QED BY <1>4, <3>2 DEF PutOff
  <2>3. obj'[p] = [obj[p] EXCEPT !.next = n]
    <3>1. obj' = [obj EXCEPT ![p] = [@ EXCEPT !.next = n]] BY <1>4 DEF FireFails, Pushed
    <3> QED BY <2>1, <3>1 DEF IInv, TypeOK
  <2>4. n \in Nat BY AutomationRunsAssumption DEF IInv, TypeOK
  <2> HIDE DEF n
  <2>5. obj'[p].next = n BY <2>1, <2>3 DEF Schedules
  <2>6. n < Midnight(now)
    <3>1. n < DayStart(n) + DayLength /\ (Day(n) - 1) * DayLength = DayStart(n) BY <2>4, Days
    <3>2. (Day(now) - 1) * DayLength = DayStart(now) BY <1>0, Days
    <3> QED BY <1>0, <2>2, <3>1, <3>2
  <2>7. n < Midnight(now) + DayLength BY <1>0, <2>4, <2>6
  <2> QED BY <2>5, <2>6, <2>7
<1>5. CASE /\ p = registry[k] /\ Planned(k)
           /\ obj'[p].ident = obj[p].ident /\ obj'[p].born = obj[p].born
           /\ obj'[p].sendAt = obj[p].sendAt /\ obj'[p].signed = obj[p].signed
           /\ obj'[p].next = obj[p].next /\ obj'[p].failures = obj[p].failures
           /\ p \in passedOver => p \in passedOver'
  <2>1. IsDaily(obj[p]) BY <1>5 DEF IsDaily
  <2>2. PlannedInTime(obj[p]) BY <1>5, <2>1 DEF OwedInv, NextToday
  <2>3. NotOwed(obj'[p], now') <=> NotOwed(obj[p], now)
    BY <1>0, <1>5 DEF NotOwed, SendTime, DayStart
  <2>4. RetryWait(obj'[p]) = RetryWait(obj[p]) /\ RetryWait(obj[p]) \in Nat
    <3>1. obj[p] \in Schedules BY <1>5, HeldSchedule
    <3> QED BY <1>5, <3>1, RetryWaitIsNat DEF RetryWait
  <2>5. now + RetryWait(obj[p]) >= Midnight(now) => now' + RetryWait(obj[p]) >= Midnight(now)
    BY <1>0, <2>4
  <2> QED BY <1>5, <2>2, <2>3, <2>4, <2>5 DEF PlannedInTime
<1> QED BY <1>1, <1>2, <1>3, <1>4, <1>5, PlanSteps

\* The end of a day: what was checked on it and is not over is passed over, and what
\* is planned for the day after is planned for the day it is now.
LEMMA MidnightKeepsOwed ==
    ASSUME IInv, Apart, OwedInv, Advance, DayEnds PROVE OwedInv'
<1>1. /\ now \in Nat /\ now' = now + 1 /\ now' \in Nat
      /\ UNCHANGED <<registry, obj, pc, runKey, runObj, sig, failed>>
      /\ passedOver' = passedOver \cup LateRuns
  BY DEF Advance, IInv, TypeOK, schedules, runs
<1>2. \A r \in Runners : pc[r] \in {"send", "record", "close"} => runObj[r] \in passedOver'
  BY <1>1 DEF LateRuns
<1>3. DatedToday' /\ ClosesSigned' BY <1>1, <1>2 DEF DatedToday, ClosesSigned
<1>4. /\ Midnight(now') = Midnight(now) + DayLength
      /\ Midnight(now') \in Nat /\ DayLength \in Nat \ {0}
  <2>1. /\ DayStart(now) \in Nat /\ Midnight(now) = DayStart(now) + DayLength /\ DayLength \in Nat \ {0}
    BY <1>1, Days, AutomationRunsAssumption
  <2>2. /\ now' = DayStart(now) + DayLength /\ DayStart(now) + DayLength <= now'
        /\ now' < DayStart(now) + DayLength + DayLength
    BY <1>1, <2>1 DEF DayEnds
  <2>3. DayStart(now') = DayStart(now) + DayLength BY <1>1, <2>2, NextDay
  <2>4. Midnight(now') = DayStart(now') + DayLength BY <1>1, Days
  <2> QED BY <2>1, <2>3, <2>4
<1>5. NextToday'
  <2> SUFFICES ASSUME NEW k \in Keys, registry[k] \notin passedOver' \cup {0}, Planned(k), IsDaily(obj[registry[k]])
               PROVE  PlannedInTime(obj[registry[k]])'
    BY <1>1 DEF NextToday, Planned, Subject
  <2> DEFINE s == obj[registry[k]]
  <2>1. PlannedInTime(s) BY <1>1 DEF OwedInv, NextToday
  <2>2. s.next \in Nat BY HeldSchedule, SendAtInDay
  <2>3. s.next < Midnight(now') BY <1>4, <2>1 DEF PlannedInTime
  <2>4. s.next < Midnight(now') + DayLength BY <1>4, <2>2, <2>3
  <2> QED BY <1>1, <2>3, <2>4 DEF PlannedInTime
<1> QED BY <1>3, <1>5 DEF OwedInv

LEMMA RestartKeepsOwed == ASSUME IInv, ArmedBefore, Restart PROVE OwedInv'
<1>1. /\ UNCHANGED now /\ \A r \in Runners : pc'[r] = "idle"
      /\ \A k \in Keys : registry'[k] \in {0, k}
  BY DEF Restart, clock
<1>2. NextToday'
  <2> SUFFICES ASSUME NEW k \in Keys, registry'[k] # 0, IsDaily(obj'[registry'[k]])
               PROVE  PlannedInTime(obj[registry[k]])'
    BY DEF NextToday
  <2>1. registry'[k] = k BY <1>1
  <2>2. obj'[k] # Unset BY <2>1, StepIInv DEF IInv, InMemory, Next
  <2>3. LET s == obj'[k] IN s.next < Midnight(now) + DayLength /\ (s.next < Midnight(now) \/ NotOwed(s, now))
    BY <2>1, <2>2, ResumedRipe
  <2> QED BY <1>1, <2>1, <2>3 DEF PlannedInTime
<1>3. DatedToday' /\ ClosesSigned' BY <1>1 DEF DatedToday, ClosesSigned
<1> QED BY <1>2, <1>3 DEF OwedInv

LEMMA InitOwedInv == ASSUME Init PROVE OwedInv
<1>1. \A r \in Runners : pc[r] = "idle" BY DEF Init
<1>2. \A k \in Keys : registry[k] # 0 => registry[k] \in Objects /\ obj[registry[k]] # Unset
  BY InitIInv, InitApart, HeldSchedule
<1>3. NextToday BY <1>2, InitRipe DEF NextToday, PlannedInTime
<1> QED BY <1>1, <1>3 DEF OwedInv, DatedToday, ClosesSigned

LEMMA StepOwedInv ==
    ASSUME IInv, Apart, RipeInv, OwedInv, [Next]_vars PROVE OwedInv'
<1>1. CASE Restart BY <1>1, RestartKeepsOwed DEF RipeInv
<1>2. CASE ~Restart
  <2>1. CASE Advance /\ DayEnds BY <2>1, MidnightKeepsOwed
  <2>2. CASE Day(now') = Day(now)
    BY <1>2, <2>2, StepDatedToday, StepClosesSigned, StepNextToday DEF RipeInv, OwedInv
  <2> QED BY <2>1, <2>2, DayMoves
<1> QED BY <1>1, <1>2

LEMMA OwedIsScheduled == IInv /\ Apart /\ OwedInv => OwedReportIsScheduled
<1> SUFFICES ASSUME IInv, Apart, OwedInv, NEW k \in Keys, Waiting(k), registry[k] \notin passedOver
             PROVE  RunsToday(obj[registry[k]])
  BY DEF OwedReportIsScheduled
<1> DEFINE s == obj[registry[k]]
<1>1. registry[k] # 0 BY DEF Waiting, Registered
<1>2. s \in Schedules BY <1>1, HeldSchedule
<1>3. Planned(k)
  <2>1. \A r \in Runners : pc[r] \in Early => Running(r) BY DEF Early, Working, WithObject, Running
  <2> QED BY <2>1 DEF Waiting, Planned, IInv, ClaimsAreRuns
<1>4. PlannedInTime(s) BY <1>1, <1>3 DEF Waiting, OwedInv, NextToday
<1>5. ~NotOwed(s, now)
  <2>1. s.born \in Nat /\ SendTime(s, now) \in Nat
    <3>1. SendTime(s, now) = DayStart(now) + s.sendAt BY DEF SendTime, DayStart
    <3> QED BY <1>2, <3>1, Days, SendAtInDay DEF IInv, TypeOK
  <2> QED BY <2>1 DEF Waiting, Owed, NotOwed
<1> QED BY <1>4, <1>5 DEF PlannedInTime, RunsToday

\* A daily report that is owed and not being run is due, or to be run before
\* midnight, unless the retry it waits for no longer fits: whatever requests are
\* made and whatever fails, crashes and restarts at any time of the day included.
\* Left out are the schedules that were passed over: a run found them paused, their
\* run ended on a later day than it was checked, their thread did not start so late
\* that the day was over before the next try, or they were moved to a time gone.
THEOREM OwedReportIsScheduledHolds == Spec => []OwedReportIsScheduled
<1>1. Init => IInv /\ Apart /\ RipeInv /\ OwedInv BY InitIInv, InitApart, InitRipeInv, InitOwedInv
<1>2. IInv /\ Apart /\ RipeInv /\ OwedInv /\ [Next]_vars => (IInv /\ Apart /\ RipeInv /\ OwedInv)'
  BY StepIInv, StepApart, StepRipeInv, StepOwedInv
<1> QED BY <1>1, <1>2, OwedIsScheduled, PTL DEF Spec
=============================================================================
