------------------------------ MODULE StateFile ------------------------------
(***************************************************************************)
(* One JSON state file and the threads that save it: fileio.py's atomic    *)
(* replace, called the way emailer.persist_automations (under              *)
(* _AUTOMATIONS_FILE_LOCK) and sessions.persist_sessions (with no lock) call*)
(* it.  A thread changes the in-memory registry, then saves: it takes the  *)
(* registry as it stands, and some time later (temporary file, retries while*)
(* another process holds the target) that text replaces the file.          *)
(*                                                                         *)
(* A registry value is abstracted to the number of changes that made it, so*)
(* "older" is "<".  SerializedSaves tells the two callers apart.           *)
(***************************************************************************)
EXTENDS Naturals

CONSTANTS
    Writers,            \* threads that change the registry and save it
    SerializedSaves,    \* is a lock held from reading the registry to the replace?
    ReplaceTries,       \* os.replace calls before a save gives up
    MaxChanges          \* bound on the changes, for model checking only

ASSUME StateFileAssumption ==
    /\ SerializedSaves \in BOOLEAN
    /\ ReplaceTries \in Nat \ {0}
    /\ MaxChanges \in Nat

VARIABLES
    registry,   \* the registry's value in memory
    file,       \* the value the file on disk holds
    pc,         \* per thread: "idle", "changed" (save due), "saving"
    text,       \* per thread: the value its temporary file holds
    tries,      \* per thread: refused replaces so far
    unsaved     \* the last save to end failed, and none has succeeded since

vars == <<registry, file, pc, text, tries, unsaved>>

TypeOK ==
    /\ registry \in Nat
    /\ file \in Nat
    /\ pc \in [Writers -> {"idle", "changed", "saving"}]
    /\ text \in [Writers -> Nat]
    /\ tries \in [Writers -> 0 .. ReplaceTries - 1]
    /\ unsaved \in BOOLEAN

Init ==
    /\ registry = 0
    /\ file = 0
    /\ pc = [w \in Writers |-> "idle"]
    /\ text = [w \in Writers |-> 0]
    /\ tries = [w \in Writers |-> 0]
    /\ unsaved = FALSE

-----------------------------------------------------------------------------

\* The thread alters the registry (put, pop, a field of a record); every such
\* change in the code is followed by the same thread's save.
Change(w) ==
    /\ pc[w] = "idle"
    /\ registry < MaxChanges
    /\ registry' = registry + 1
    /\ pc' = [pc EXCEPT ![w] = "changed"]
    /\ UNCHANGED <<file, text, tries, unsaved>>

SaveInProgress == \E w \in Writers : pc[w] = "saving"

\* Faulty variant: the lock is not taken.
BeginSaveUnlocked(w) ==
    /\ pc[w] = "changed"
    /\ pc' = [pc EXCEPT ![w] = "saving"]
    /\ text' = [text EXCEPT ![w] = registry]
    /\ UNCHANGED <<registry, file, tries, unsaved>>

\* The save reads the registry and writes it to a temporary file of its own.
BeginSave(w) ==
    /\ SerializedSaves => ~SaveInProgress
    /\ pc[w] = "changed"
    /\ pc' = [pc EXCEPT ![w] = "saving"]
    /\ text' = [text EXCEPT ![w] = registry]
    /\ UNCHANGED <<registry, file, tries, unsaved>>

\* Faulty variant: the retries start over instead of giving up.
ReplaceRefusedForever(w) ==
    /\ pc[w] = "saving"
    /\ tries' = [tries EXCEPT ![w] = (@ + 1) % ReplaceTries]
    /\ UNCHANGED <<registry, file, pc, text, unsaved>>

\* Faulty variant: the tries are not counted down to the last.
ReplaceRefusedUnbounded(w) ==
    /\ pc[w] = "saving"
    /\ tries' = [tries EXCEPT ![w] = @ + 1]
    /\ UNCHANGED <<registry, file, pc, text, unsaved>>

\* PermissionError while another process holds the target: wait, try again.
ReplaceRefused(w) ==
    /\ pc[w] = "saving"
    /\ tries[w] < ReplaceTries - 1
    /\ tries' = [tries EXCEPT ![w] = @ + 1]
    /\ UNCHANGED <<registry, file, pc, text, unsaved>>

\* The save is over, and its temporary file gone.
EndSave(w) ==
    /\ pc[w] = "saving"
    /\ pc' = [pc EXCEPT ![w] = "idle"]
    /\ text' = [text EXCEPT ![w] = 0]
    /\ tries' = [tries EXCEPT ![w] = 0]
    /\ UNCHANGED registry

\* os.replace succeeds: a reader sees the old file or the whole new one.
Replaced(w) ==
    /\ EndSave(w)
    /\ file' = text[w]
    /\ unsaved' = FALSE

\* Faulty variant: the failure is not reported.
SaveFailedSilently(w) == EndSave(w) /\ UNCHANGED <<file, unsaved>>

\* Any other OSError, or PermissionError on the last try: the failure is logged
\* and raised, and the two callers carry on from memory.
SaveFailed(w) ==
    /\ EndSave(w)
    /\ unsaved' = TRUE
    /\ UNCHANGED file

\* Every thread dies with the process.
ThreadsDie ==
    /\ pc' = [w \in Writers |-> "idle"]
    /\ text' = [w \in Writers |-> 0]
    /\ tries' = [w \in Writers |-> 0]
    /\ unsaved' = FALSE

\* Faulty variant: the file is not read at boot.
CrashForgets == ThreadsDie /\ registry' = 0 /\ UNCHANGED file

\* The process dies at any point and the next one reads the file at boot.
Crash == ThreadsDie /\ registry' = file /\ UNCHANGED file

Save(w) == BeginSave(w) \/ ReplaceRefused(w) \/ Replaced(w) \/ SaveFailed(w)

Next == Crash \/ \E w \in Writers : Change(w) \/ Save(w)

Spec == Init /\ [][Next]_vars

\* A thread with a save to make carries on with it: the waits between retries
\* end (time.sleep), and a save holds the lock for at most a second and a half,
\* against minutes between saves, so the lock does not starve a waiter.
FairSpec == Spec /\ \A w \in Writers : SF_vars(Save(w))

-----------------------------------------------------------------------------
(***************************************************************************)
(* Properties.                                                             *)
(***************************************************************************)

\* A save never carries the file back to an older registry: the reordering
\* that _AUTOMATIONS_FILE_LOCK is there to rule out (emailer.py, review C19).
SavesLandInOrder == [][file' >= file]_file

\* When every thread's save has returned and the last one did not fail, the
\* file holds the registry: a crash now loses nothing and brings nothing back.
QuietMeansSaved ==
    (\A w \in Writers : pc[w] = "idle") /\ ~unsaved => file = registry

\* Every change reaches the file, or its failure has been reported, whatever
\* the retries: no thread waits for the save lock for ever.
SavesEnd == \A w \in Writers : pc[w] = "changed" ~> pc[w] = "idle"

Durable == INSTANCE DurableState WITH current <- registry, stable <- file

\* The file is a durable register: it may lag, never go back.
ImplementsDurableState == Durable!DurableSpec
=============================================================================
