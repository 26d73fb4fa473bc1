-------------------------- MODULE StateFileProofs --------------------------
(***************************************************************************)
(* Proofs about StateFile for any threads, any number of replace attempts  *)
(* and any number of changes: with the save lock held from the reading of  *)
(* the registry to the replace, the file is a durable register.            *)
(***************************************************************************)
EXTENDS StateFile, TLAPS

Saving(w) == pc[w] = "saving"
Due == \E w \in Writers : pc[w] = "changed"

OneSaveAtATime ==
    \A v, w \in Writers : Saving(v) /\ Saving(w) => v = w

\* What a save is about to write is never older than the file.
TextNotOlder ==
    /\ file <= registry
    /\ \A w \in Writers : Saving(w) => file <= text[w] /\ text[w] <= registry

\* A registry that moved on after a save read it has a further save due.
LaterChangesDue ==
    \A w \in Writers : Saving(w) => text[w] = registry \/ Due

\* A file behind the registry is being brought up to date, or known not to be.
BehindIsDue ==
    file = registry \/ unsaved \/ Due \/ \E w \in Writers : Saving(w)

IInv ==
    /\ TypeOK
    /\ OneSaveAtATime
    /\ TextNotOlder
    /\ LaterChangesDue
    /\ BehindIsDue

-----------------------------------------------------------------------------

\* Every variable keeps its type, whether or not saves are serialized.
THEOREM TypeCorrect == Spec => []TypeOK
<1>. USE StateFileAssumption DEF TypeOK, StateFileAssumption
<1>1. Init => TypeOK
  <2>1. Init => unsaved \in BOOLEAN
    BY Zenon DEF Init
  <2>. QED
    BY <2>1 DEF Init
<1>2. TypeOK /\ [Next]_vars => TypeOK'
  <2>. SUFFICES ASSUME TypeOK, [Next]_vars PROVE TypeOK'
    OBVIOUS
  <2>1. CASE Crash
    <3>1. unsaved' \in BOOLEAN
      BY <2>1, Zenon DEF Crash, ThreadsDie
    <3>. QED
      BY <2>1, <3>1 DEF Crash, ThreadsDie
  <2>2. ASSUME NEW w \in Writers, Change(w) PROVE TypeOK'
    BY <2>2 DEF Change
  <2>3. ASSUME NEW w \in Writers, BeginSave(w) PROVE TypeOK'
    BY <2>3 DEF BeginSave
  <2>4. ASSUME NEW w \in Writers, ReplaceRefused(w) PROVE TypeOK'
    BY <2>4 DEF ReplaceRefused
  <2>5. ASSUME NEW w \in Writers, Replaced(w) PROVE TypeOK'
    <3>1. unsaved' \in BOOLEAN
      BY <2>5, Zenon DEF Replaced
    <3>. QED
      BY <2>5, <3>1 DEF Replaced, EndSave
  <2>6. ASSUME NEW w \in Writers, SaveFailed(w) PROVE TypeOK'
    BY <2>6 DEF SaveFailed, EndSave
  <2>7. CASE UNCHANGED vars
    BY <2>7 DEF vars
  <2>. QED
    BY <2>1, <2>2, <2>3, <2>4, <2>5, <2>6, <2>7 DEF Next, Save
<1>. QED
  BY <1>1, <1>2, PTL DEF Spec

-----------------------------------------------------------------------------

LEMMA InitIInv == Init => IInv
<1>1. Init => TypeOK
  <2>1. Init => unsaved \in BOOLEAN
    BY Zenon DEF Init
  <2>. QED
    BY <2>1, StateFileAssumption DEF StateFileAssumption, Init, TypeOK
<1>2. Init => OneSaveAtATime /\ TextNotOlder /\ LaterChangesDue /\ BehindIsDue
  BY DEF Init, OneSaveAtATime, TextNotOlder, LaterChangesDue, BehindIsDue, Saving
<1>. QED
  BY <1>1, <1>2 DEF IInv

\* The end of a save, successful or not, leaves no save in progress.
LEMMA EndSaveIsLast ==
  ASSUME IInv, NEW w \in Writers, EndSave(w)
  PROVE  \A v \in Writers : ~Saving(v)' /\ (pc[v] = "changed" => pc'[v] = "changed")
  BY DEF IInv, TypeOK, OneSaveAtATime, EndSave, Saving

LEMMA StepIInv ==
  ASSUME SerializedSaves, IInv, TypeOK', [Next]_vars
  PROVE  IInv'
<1>. USE DEF IInv, TypeOK, Saving, Due
<1>1. CASE Crash
  BY <1>1 DEF Crash, ThreadsDie, OneSaveAtATime, TextNotOlder, LaterChangesDue, BehindIsDue
<1>2. ASSUME NEW w \in Writers, Change(w) PROVE IInv'
  <2>1. Due'
    BY <1>2 DEF Change
  <2>2. OneSaveAtATime'
    BY <1>2 DEF Change, OneSaveAtATime
  <2>3. TextNotOlder'
    BY <1>2 DEF Change, TextNotOlder
  <2>. QED
    BY <2>1, <2>2, <2>3 DEF LaterChangesDue, BehindIsDue
<1>3. ASSUME NEW w \in Writers, BeginSave(w) PROVE IInv'
  <2>1. \A v \in Writers : Saving(v)' => v = w
    BY <1>3 DEF BeginSave, SaveInProgress
  <2>2. Saving(w)' /\ text'[w] = registry' /\ registry' = registry /\ file' = file
    BY <1>3 DEF BeginSave
  <2>3. OneSaveAtATime' /\ LaterChangesDue' /\ BehindIsDue'
    BY <2>1, <2>2 DEF OneSaveAtATime, LaterChangesDue, BehindIsDue
  <2>4. TextNotOlder'
    BY <2>1, <2>2 DEF TextNotOlder
  <2>. QED
    BY <2>3, <2>4
<1>4. ASSUME NEW w \in Writers, ReplaceRefused(w) PROVE IInv'
  BY <1>4 DEF ReplaceRefused, OneSaveAtATime, TextNotOlder, LaterChangesDue, BehindIsDue
<1>5. ASSUME NEW w \in Writers, Replaced(w) PROVE IInv'
  <2>1. \A v \in Writers : ~Saving(v)' /\ (pc[v] = "changed" => pc'[v] = "changed")
    BY <1>5, EndSaveIsLast DEF Replaced
  <2>2. file' = text[w] /\ registry' = registry /\ Saving(w)
    BY <1>5 DEF Replaced, EndSave
  <2>3. TextNotOlder'
    BY <2>1, <2>2 DEF TextNotOlder
  <2>4. BehindIsDue'
    BY <2>1, <2>2 DEF LaterChangesDue, BehindIsDue
  <2>. QED
    BY <2>1, <2>3, <2>4 DEF OneSaveAtATime, LaterChangesDue
<1>6. ASSUME NEW w \in Writers, SaveFailed(w) PROVE IInv'
  <2>1. \A v \in Writers : ~Saving(v)'
    BY <1>6, EndSaveIsLast DEF SaveFailed
  <2>2. unsaved' /\ file' = file /\ registry' = registry
    BY <1>6 DEF SaveFailed, EndSave
  <2>. QED
    BY <2>1, <2>2 DEF OneSaveAtATime, TextNotOlder, LaterChangesDue, BehindIsDue
<1>7. CASE UNCHANGED vars
  BY <1>7 DEF vars, OneSaveAtATime, TextNotOlder, LaterChangesDue, BehindIsDue
<1>. QED
  BY <1>1, <1>2, <1>3, <1>4, <1>5, <1>6, <1>7 DEF Next, Save

LEMMA InductiveInvariant ==
  ASSUME SerializedSaves
  PROVE  Spec => []IInv
<1>1. IInv /\ TypeOK' /\ [Next]_vars => IInv'
  BY StepIInv
<1>. QED
  BY <1>1, InitIInv, TypeCorrect, PTL DEF Spec

-----------------------------------------------------------------------------

\* With the lock, a file behind the registry once all is quiet means a save
\* that failed and was reported: nothing a request changed is lost silently.
THEOREM QuietMeansSavedHolds ==
  ASSUME SerializedSaves
  PROVE  Spec => []QuietMeansSaved
<1>1. IInv => QuietMeansSaved
  BY DEF IInv, BehindIsDue, QuietMeansSaved, Saving, Due
<1>. QED
  BY <1>1, InductiveInvariant, PTL

\* With the lock, no save carries the file back to an older registry.
THEOREM SavesLandInOrderHolds ==
  ASSUME SerializedSaves
  PROVE  Spec => SavesLandInOrder
<1>1. IInv /\ [Next]_vars => [file' >= file]_file
  <2>. SUFFICES ASSUME IInv, [Next]_vars PROVE file' >= file
    OBVIOUS
  <2>. USE DEF IInv, TypeOK
  <2>1. ASSUME NEW w \in Writers, Replaced(w) PROVE file' >= file
    BY <2>1 DEF Replaced, EndSave, TextNotOlder, Saving
  <2>2. ASSUME file' = file PROVE file' >= file
    BY <2>2
  <2>. QED
    BY <2>1, <2>2 DEF Next, Save, Crash, ThreadsDie, Change, BeginSave, ReplaceRefused, SaveFailed, vars
<1>. QED
  BY <1>1, InductiveInvariant, PTL DEF Spec, SavesLandInOrder

\* With the lock, the file implements the durable register of DurableState.
THEOREM ImplementsDurableStateHolds ==
  ASSUME SerializedSaves
  PROVE  Spec => ImplementsDurableState
<1>. USE DEF Durable!DurableInit, Durable!durableVars, Durable!DurableNext,
             Durable!Update, Durable!Flush, Durable!Restart
<1>1. Init => Durable!DurableInit
  BY DEF Init
<1>2. IInv /\ [Next]_vars => [Durable!DurableNext]_(Durable!durableVars)
  <2>. SUFFICES ASSUME IInv, [Next]_vars
                PROVE  [Durable!DurableNext]_(Durable!durableVars)
    OBVIOUS
  <2>. USE DEF IInv, TypeOK
  <2>1. ASSUME NEW w \in Writers, Replaced(w) PROVE Durable!Flush
    BY <2>1 DEF Replaced, EndSave, TextNotOlder, Saving
  <2>2. ASSUME NEW w \in Writers, Change(w) PROVE Durable!Update
    BY <2>2 DEF Change
  <2>3. CASE Crash
    BY <2>3 DEF Crash, ThreadsDie
  <2>4. CASE UNCHANGED <<registry, file>>
    BY <2>4
  <2>. QED
    BY <2>1, <2>2, <2>3, <2>4 DEF Next, Save, BeginSave, ReplaceRefused, SaveFailed, EndSave, vars
<1>. QED
  BY <1>1, <1>2, InductiveInvariant, PTL DEF Spec, ImplementsDurableState, Durable!DurableSpec
=============================================================================
