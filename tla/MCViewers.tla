------------------------------ MODULE MCViewers ------------------------------
(***************************************************************************)
(* An instance of SharedDashboard: two publications at a time beside one   *)
(* viewer, or one beside two viewers that compete for the only slot.       *)
(***************************************************************************)
EXTENDS SharedDashboard

CONSTANTS p1, p2, v1, v2

VARIABLE part   \* who takes part

MCPublishers == {p1, p2}
MCViewerSet == {v1, v2}

ViewersInit ==
    /\ SharedInit
    /\ part \in {[publishers |-> {p1, p2}, viewers |-> {v1}], [publishers |-> {p1}, viewers |-> {v1, v2}]}

ViewersNext ==
    /\ SharedNext
    /\ \A p \in Publishers \ part.publishers : publish'[p] = Resting
    /\ \A v \in Viewers \ part.viewers : handler'[v] = "off"
    /\ UNCHANGED part

ViewersSpec == ViewersInit /\ [][ViewersNext]_<<part, sharedVars>> /\ SharedFairness
=============================================================================
