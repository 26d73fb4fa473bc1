--------------------------- MODULE MCAutomations ---------------------------
(***************************************************************************)
(* Instances of Automations for TLC.                                       *)
(***************************************************************************)
EXTENDS Automations, TLC

CONSTANTS r1, r2, boot, main, d1, d2, p1

MCWorkers1 == {r1}
MCWorkers2 == {r1, r2}
MCTypes1 == {"alert"}
MCTypes2 == {"alert", "daily_report"}
MCDests1 == {d1}
MCDests2 == {d1, d2}
MCProfiles == {p1}

Rec(n, type, dest, profile) ==
    [id |-> n, created |-> n, type |-> type, dest |-> dest, profile |-> profile, enabled |-> TRUE]

\* No schedule yet.
EmptyFile == {{}}

\* One armed schedule.
OneSchedule == {{Rec(1, "alert", d1, NoProfile)}}

AtMostOneSchedule == EmptyFile \cup OneSchedule

\* What earlier versions could leave behind: several config-driven schedules of a
\* type, duplicates of an identity, a profile's schedule beside them.
LegacyFiles ==
    {{}, {Rec(1, "alert", d1, NoProfile)},
     {Rec(1, "alert", d1, NoProfile), Rec(2, "alert", d2, NoProfile)},
     {Rec(1, "alert", d1, NoProfile), Rec(2, "alert", d1, p1), Rec(3, "daily_report", d1, NoProfile)},
     {Rec(1, "alert", d1, p1), Rec(2, "alert", d1, NoProfile), Rec(3, "alert", d2, NoProfile)}}

NoProfilesStored == [p \in MCProfiles |-> Unset]
ProfileStored == [p \in MCProfiles |-> [type |-> "alert", dest |-> d1]]

RequestSymmetry == Permutations(MCWorkers2)

\* The state without the histories, on which no step depends.
ProgramState == <<registryVars, config, profiles, file, unsaved, pc, locals>>

\* The state with the histories of the properties about stops and the file.
SavedState == <<ProgramState, stopped, early, partial>>

\* The state with the histories of the properties about the restore.
RestoredState == <<ProgramState, partial, crossed>>

ArmOps == {"start", "toggleOn", "toggleOff", "saveProfile", "deleteProfile"}
StopOps == {"start", "stop", "save", "crash", "shutdown"}
RestoreOps == {"setEnabled", "stopMany", "run", "writeFails", "crash"}
EditOps == {"start"}
ToggleOps == {"toggleOn"}
ShutdownOps == {"run", "shutdown"}
=============================================================================
