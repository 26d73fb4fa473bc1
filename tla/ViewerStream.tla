---------------------------- MODULE ViewerStream ----------------------------
(***************************************************************************)
(* What /api/stream promises a viewer: first the dashboard that is shared  *)
(* when it connects, then every dashboard published after it connected,    *)
(* each once and in the order they were offered, at most Limit of them     *)
(* waiting behind the one being written; or the stream is cut, after which *)
(* nothing is sent any more but what was being written, and ends.          *)
(***************************************************************************)
EXTENDS Naturals, Sequences

CONSTANTS Viewers, Limit, Frames

VARIABLES
    open,       \* viewers with a stream
    fresh,      \* those of them still owed the first dashboard
    cut,        \* those of them whose stream was cut
    pending,    \* per viewer: the dashboards to come, in order
    shown       \* per viewer: the dashboard its page shows, 0 for none

streamVars == <<open, fresh, cut, pending, shown>>

StreamInit ==
    /\ open = {} /\ fresh = {} /\ cut = {}
    /\ pending = [v \in Viewers |-> <<>>]
    /\ shown = [v \in Viewers |-> 0]

Join(v) ==
    /\ v \notin open
    /\ open' = open \cup {v} /\ fresh' = fresh \cup {v}
    /\ UNCHANGED <<cut, pending, shown>>

\* The shared dashboard at this moment, if there is one.
First(v) ==
    /\ v \in fresh /\ fresh' = fresh \ {v}
    /\ \/ UNCHANGED pending
       \/ \E f \in Frames : pending' = [pending EXCEPT ![v] = <<f>> \o @]
    /\ UNCHANGED <<open, cut, shown>>

Send(v) ==
    /\ v \in open \ cut /\ Len(pending[v]) <= Limit
    /\ \E f \in Frames : pending' = [pending EXCEPT ![v] = Append(@, f)]
    /\ UNCHANGED <<open, fresh, cut, shown>>

Deliver(v) ==
    /\ v \in open \ fresh /\ pending[v] # <<>>
    /\ shown' = [shown EXCEPT ![v] = Head(pending[v])]
    /\ pending' = [pending EXCEPT ![v] = Tail(@)]
    /\ UNCHANGED <<open, fresh, cut>>

\* At most the dashboard being written still arrives.
Cut(v) ==
    /\ v \in open /\ cut' = cut \cup {v}
    /\ \E n \in 0 .. 1 : n <= Len(pending[v]) /\ pending' = [pending EXCEPT ![v] = SubSeq(@, 1, n)]
    /\ UNCHANGED <<open, fresh, shown>>

\* The stream of one viewer is over, or, at a restart, of all of them.
End(over) ==
    /\ open' = open \ over /\ fresh' = fresh \ over /\ cut' = cut \ over
    /\ pending' = [v \in Viewers |-> IF v \in over THEN <<>> ELSE pending[v]]
    /\ UNCHANGED shown

StreamNext ==
    \/ \E v \in Viewers : Join(v) \/ First(v) \/ Send(v) \/ Deliver(v) \/ Cut(v) \/ End({v})
    \/ End(Viewers)

StreamSpec == StreamInit /\ [][StreamNext]_streamVars
=============================================================================
