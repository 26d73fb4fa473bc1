--------------------------- MODULE DailySnapshots ---------------------------
(***************************************************************************)
(* The daily snapshots of the dashboard (snapshots.py and the snapshot     *)
(* requests of server.py).  A worker saves the last whole day by itself: it*)
(* looks whether the day has a snapshot, builds that day's dashboard with  *)
(* no lock held, and looks again before it saves.  Meanwhile snapshots are *)
(* saved by hand, annotated and deleted, days pass and the process may be  *)
(* restarted.  Reads of the file are assumed to succeed: the code takes an *)
(* unreadable file for an empty one.                                       *)
(***************************************************************************)
EXTENDS Integers, FiniteSets

CONSTANTS
    Savers,     \* threads that save by themselves: the worker, and the requests
                \* that switch the automatic save on
    MaxKept,    \* snapshots kept: 180
    MaxDays,    \* bound on the days, for model checking only
    Unset

ASSUME SnapshotsAssumption == MaxKept \in Nat \ {0} /\ MaxDays \in Nat /\ Unset \notin {"hand", "auto"}

VARIABLES
    today,
    snapshots,  \* dashboard_snapshots.json: per day its record, or Unset
    automatic,  \* auto_snapshot_config.json
    save        \* per saver: where it is, the day it saves, whether it has one

snapshotVars == <<today, snapshots, automatic, save>>

SnapshotDays == 0..MaxDays
Snapshots == [by : {"hand", "auto"}, annotated : BOOLEAN]
Waiting == [at |-> "waiting", day |-> 0]

SnapshotsInit ==
    /\ today = 1
    /\ snapshots = [d \in SnapshotDays |-> Unset]
    /\ automatic \in BOOLEAN
    /\ save = [s \in Savers |-> Waiting]

Held(f) == {d \in SnapshotDays : f[d] # Unset}

\* save_dashboard_snapshot: the record replaces the day's, and the oldest
\* beyond MaxKept go.
SaveSnapshot(day, by) ==
    LET saved == [snapshots EXCEPT ![day] = [by |-> by, annotated |-> FALSE]] IN
    snapshots' = [d \in SnapshotDays |->
                    IF Cardinality({e \in Held(saved) : e >= d}) > MaxKept THEN Unset ELSE saved[d]]

\* The requests, each under SNAPSHOTS_LOCK.  The dashboard saved is the one on
\* the page or the shared one, and the record is dated today.
SaveByHand == SaveSnapshot(today, "hand") /\ UNCHANGED <<today, automatic, save>>

DeleteSnapshot ==
    /\ \E d \in Held(snapshots) : snapshots' = [snapshots EXCEPT ![d] = Unset]
    /\ UNCHANGED <<today, automatic, save>>

AnnotateSnapshot ==
    /\ \E d \in Held(snapshots) : snapshots' = [snapshots EXCEPT ![d].annotated = TRUE]
    /\ UNCHANGED <<today, automatic, save>>

SwitchAutomatic ==
    /\ \E on \in BOOLEAN : on # automatic /\ automatic' = on
    /\ UNCHANGED <<today, snapshots, save>>

-----------------------------------------------------------------------------
\* _auto_snapshot_once, up to the build: off, or saved already, or no shared
\* session, it has nothing to do.
AutoCheck(s) ==
    /\ save[s].at = "waiting" /\ automatic /\ snapshots[today - 1] = Unset
    /\ save' = [save EXCEPT ![s] = [at |-> "building", day |-> today - 1]]
    /\ UNCHANGED <<today, snapshots, automatic>>

\* The build ends: with a fresh dashboard that has the job data, or with
\* nothing to save.
AutoBuilt(s) ==
    /\ save[s].at = "building"
    /\ \/ save' = [save EXCEPT ![s].at = "saving"]
       \/ save' = [save EXCEPT ![s] = Waiting]
    /\ UNCHANGED <<today, snapshots, automatic>>

\* Faulty variant: the day is not looked up again.
AutoSaveBlind(s) ==
    /\ save[s].at = "saving"
    /\ SaveSnapshot(save[s].day, "auto")
    /\ save' = [save EXCEPT ![s] = Waiting]
    /\ UNCHANGED <<today, automatic>>

\* The second look and the save, under one lock.
AutoSave(s) ==
    /\ save[s].at = "saving"
    /\ IF snapshots[save[s].day] # Unset THEN UNCHANGED snapshots ELSE SaveSnapshot(save[s].day, "auto")
    /\ save' = [save EXCEPT ![s] = Waiting]
    /\ UNCHANGED <<today, automatic>>

DayPasses ==
    /\ today < MaxDays /\ today' = today + 1
    /\ UNCHANGED <<snapshots, automatic, save>>

\* The file is replaced as a whole, so a restart only ends the savers.
SnapshotsRestart ==
    /\ save' = [s \in Savers |-> Waiting]
    /\ UNCHANGED <<today, snapshots, automatic>>

SnapshotsNext ==
    \/ SaveByHand \/ DeleteSnapshot \/ AnnotateSnapshot \/ SwitchAutomatic \/ DayPasses \/ SnapshotsRestart
    \/ \E s \in Savers : AutoCheck(s) \/ AutoBuilt(s) \/ AutoSave(s)

SnapshotsSpec == SnapshotsInit /\ [][SnapshotsNext]_snapshotVars

-----------------------------------------------------------------------------
\* The automatic save never replaces a snapshot, by hand or its own, nor the
\* note on it: a record of its making appears only where there was none.
AutoKeepsSnapshots ==
    [][\A d \in SnapshotDays :
        snapshots[d] # Unset /\ snapshots'[d] # Unset /\ snapshots'[d].by = "auto" =>
            /\ snapshots[d].by = "auto"
            /\ snapshots[d].annotated => snapshots'[d].annotated]_snapshotVars
=============================================================================
