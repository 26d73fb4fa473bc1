--------------------------- MODULE SharedDashboard ---------------------------
(***************************************************************************)
(* The dashboard every viewer shares: models.set_shared_dashboard, run by  *)
(* the refresh loop and by the requests that built a dashboard, the file of*)
(* the last good one, and the live stream that carries it to the TV and the*)
(* open pages (SseClient, sse_broadcast, server._serve_stream).            *)
(*                                                                         *)
(* A dashboard is the number of its publication, 0 for none; one whose     *)
(* sources answered (dashboard_backup_source_available), the others only   *)
(* set an error text.  A stale dashboard is a copy of the last good one,   *)
(* with that one's number.  The frames' text and the heartbeats' are left  *)
(* out.                                                                    *)
(***************************************************************************)
EXTENDS Naturals, FiniteSets, Sequences

CONSTANTS
    Publishers,     \* threads that publish: the refresh loop, request handlers
    Viewers,        \* pages that open /api/stream
    Limit,          \* SSE_QUEUE_FRAMES
    MaxClients,     \* MAX_SSE_CLIENTS
    MaxBuilds       \* bound on the dashboards published, for model checking only

ASSUME SharedAssumption ==
    Limit \in Nat \ {0} /\ MaxClients \in Nat \ {0} /\ MaxBuilds \in Nat

VARIABLES
    shared,     \* SHARED_DASHBOARD_STATE["dashboard"]
    file,       \* the dashboard last_good_dashboard.json holds
    publish,    \* per publisher: how far its publication got, and its dashboard
    targets,    \* per publisher: viewers its broadcast has yet to offer to
    clients,    \* SSE_CLIENTS
    handler,    \* per viewer: what its /api/stream thread does
    hand,       \* per viewer: the frame that thread is writing, 0: a heartbeat
    queue,      \* per viewer: SseClient._frames
    closed,     \* per viewer: SseClient.closed
    shown,      \* per viewer: the last dashboard its page received
    settled,    \* ghost: the oldest dashboard published since nothing was under way
    kept,       \* ghost: as settled, without the stale ones: those are not written
    unwritten   \* ghost: the last write of the file failed

sharedVars == <<shared, file, publish, targets, clients, handler, hand, queue, closed,
                shown, settled, kept, unwritten>>

viewerVars == <<clients, handler, hand, queue, closed, shown>>

Builds == 0 .. MaxBuilds
Resting == [at |-> "idle", dashboard |-> 0]

SharedTypeOK ==
    /\ shared \in Builds /\ file \in Builds /\ settled \in Builds /\ kept \in Builds /\ unwritten \in BOOLEAN
    /\ publish \in [Publishers -> [at : {"idle", "file", "copy", "offer"}, dashboard : Builds]]
    /\ targets \in [Publishers -> SUBSET Viewers]
    /\ clients \subseteq Viewers
    /\ handler \in [Viewers -> {"off", "joined", "writing", "waiting"}]
    /\ hand \in [Viewers -> Builds] /\ shown \in [Viewers -> Builds]
    /\ queue \in [Viewers -> Seq(Builds)]
    /\ closed \in [Viewers -> BOOLEAN]

SharedInit ==
    /\ shared = 0 /\ file = 0 /\ settled = 0 /\ kept = 0 /\ unwritten = FALSE
    /\ publish = [p \in Publishers |-> Resting]
    /\ targets = [p \in Publishers |-> {}]
    /\ clients = {}
    /\ handler = [v \in Viewers |-> "off"]
    /\ hand = [v \in Viewers |-> 0] /\ shown = hand
    /\ queue = [v \in Viewers |-> <<>>]
    /\ closed = [v \in Viewers |-> FALSE]

-----------------------------------------------------------------------------
\* Publishing: the state under its lock, the file and the broadcast outside.

NothingUnderWay == \A p \in Publishers : publish[p].at = "idle"

\* set_shared_dashboard with a good dashboard: it becomes the state.
Share(p) ==
    /\ publish[p].at = "idle"
    /\ \E d \in 1 .. MaxBuilds :
          /\ d > shared /\ d > file /\ \A q \in Publishers : d > publish[q].dashboard
          /\ shared' = d
          /\ publish' = [publish EXCEPT ![p] = [at |-> "file", dashboard |-> d]]
    /\ settled' = IF NothingUnderWay THEN shared' ELSE settled
    /\ kept' = IF NothingUnderWay THEN shared' ELSE kept
    /\ UNCHANGED <<file, targets, unwritten>> /\ UNCHANGED viewerVars

\* stale_dashboard_from_cache: a copy of the shared dashboard or, when that is
\* not of this session, of the file's.  Publishing it changes no state, so it
\* is as good as on its way to the viewers.
ShareStale(p) ==
    /\ publish[p].at = "idle"
    /\ \E d \in {shared, file} \ {0} :
          /\ publish' = [publish EXCEPT ![p] = [at |-> "copy", dashboard |-> d]]
          /\ settled' = IF NothingUnderWay \/ d < settled THEN d ELSE settled
    /\ UNCHANGED <<shared, file, targets, kept, unwritten>> /\ UNCHANGED viewerVars

\* Faulty variant: a file that is there is left.
WriteFirstGood(p) ==
    /\ publish[p].at = "file"
    /\ file' = (IF file = 0 THEN publish[p].dashboard ELSE file) /\ unwritten' = FALSE
    /\ publish' = [publish EXCEPT ![p].at = "copy"]
    /\ UNCHANGED <<shared, targets, settled, kept>> /\ UNCHANGED viewerVars

\* persist_last_good_dashboard: a failed write is logged and forgotten.
WriteLastGood(p) ==
    /\ publish[p].at = "file"
    /\ \/ file' = publish[p].dashboard /\ unwritten' = FALSE
       \/ UNCHANGED file /\ unwritten' = TRUE
    /\ publish' = [publish EXCEPT ![p].at = "copy"]
    /\ UNCHANGED <<shared, targets, settled, kept>> /\ UNCHANGED viewerVars

\* sse_broadcast copies the list of viewers under its lock.
CopyClients(p) ==
    /\ publish[p].at = "copy"
    /\ targets' = [targets EXCEPT ![p] = clients]
    /\ publish' = [publish EXCEPT ![p].at = "offer"]
    /\ UNCHANGED <<shared, file, settled, kept, unwritten>> /\ UNCHANGED viewerVars

\* Faulty variant: the broadcast waits for a viewer that is behind.
OfferWaits(p, v) ==
    /\ publish[p].at = "offer" /\ v \in targets[p]
    /\ closed[v] \/ Len(queue[v]) < Limit
    /\ targets' = [targets EXCEPT ![p] = @ \ {v}]
    /\ queue' = IF closed[v] THEN queue ELSE [queue EXCEPT ![v] = Append(@, publish[p].dashboard)]
    /\ UNCHANGED <<shared, file, publish, settled, kept, unwritten, clients, handler, hand, closed, shown>>

\* Faulty variant: the oldest frame makes room for the new one.
OfferDropsOldest(p, v) ==
    /\ publish[p].at = "offer" /\ v \in targets[p]
    /\ targets' = [targets EXCEPT ![p] = @ \ {v}]
    /\ queue' = IF closed[v] THEN queue
                ELSE [queue EXCEPT ![v] =
                          Append(IF Len(@) >= Limit THEN Tail(@) ELSE @, publish[p].dashboard)]
    /\ UNCHANGED <<shared, file, publish, settled, kept, unwritten, clients, handler, hand, closed, shown>>

\* SseClient.offer: queued without waiting; a viewer Limit frames behind is
\* closed, its frames dropped, and (_sse_unregister) its slot given back.
Offer(p, v) ==
    LET full == closed[v] \/ Len(queue[v]) >= Limit IN
    /\ publish[p].at = "offer" /\ v \in targets[p]
    /\ targets' = [targets EXCEPT ![p] = @ \ {v}]
    /\ queue' = [queue EXCEPT ![v] = IF full THEN <<>> ELSE Append(@, publish[p].dashboard)]
    /\ closed' = [closed EXCEPT ![v] = full]
    /\ clients' = IF full THEN clients \ {v} ELSE clients
    /\ UNCHANGED <<shared, file, publish, settled, kept, unwritten, handler, hand, shown>>

Published(p) ==
    /\ publish[p].at = "offer" /\ targets[p] = {}
    /\ publish' = [publish EXCEPT ![p] = Resting]
    /\ UNCHANGED <<shared, file, targets, settled, kept, unwritten>> /\ UNCHANGED viewerVars

-----------------------------------------------------------------------------
\* A viewer's stream, served by the thread of its request.

\* _sse_register: refused when MaxClients are connected.  A page reconnects by
\* itself and keeps showing what it has.
Connect(v) ==
    /\ handler[v] = "off" /\ Cardinality(clients) < MaxClients
    /\ clients' = clients \cup {v}
    /\ handler' = [handler EXCEPT ![v] = "joined"]
    /\ UNCHANGED <<hand, queue, closed, shown, shared, file, publish, targets, settled, kept, unwritten>>

\* shared_dashboard_payload: the state, or after a restart the last good file.
Payload == IF shared # 0 THEN shared ELSE file

\* Faulty variant: the first dashboard is not sent.
NoFirstFrame(v) ==
    /\ handler[v] = "joined"
    /\ handler' = [handler EXCEPT ![v] = "writing"]
    /\ hand' = [hand EXCEPT ![v] = 0]
    /\ UNCHANGED <<clients, queue, closed, shown, shared, file, publish, targets, settled, kept, unwritten>>

\* Only once registered does the thread read what is shared.
FirstFrame(v) ==
    /\ handler[v] = "joined"
    /\ handler' = [handler EXCEPT ![v] = "writing"]
    /\ hand' = [hand EXCEPT ![v] = Payload]
    /\ UNCHANGED <<clients, queue, closed, shown, shared, file, publish, targets, settled, kept, unwritten>>

\* The write of a frame, or of a heartbeat, returns.
Written(v) ==
    /\ handler[v] = "writing"
    /\ shown' = [shown EXCEPT ![v] = IF hand[v] = 0 THEN @ ELSE hand[v]]
    /\ hand' = [hand EXCEPT ![v] = 0]
    /\ handler' = [handler EXCEPT ![v] = "waiting"]
    /\ UNCHANGED <<clients, queue, closed, shared, file, publish, targets, settled, kept, unwritten>>

\* next_frame: the oldest frame queued, or a heartbeat when none comes in time.
NextFrame(v) ==
    /\ handler[v] = "waiting" /\ ~closed[v]
    /\ hand' = [hand EXCEPT ![v] = IF queue[v] = <<>> THEN 0 ELSE Head(queue[v])]
    /\ queue' = [queue EXCEPT ![v] = IF @ = <<>> THEN @ ELSE Tail(@)]
    /\ handler' = [handler EXCEPT ![v] = "writing"]
    /\ UNCHANGED <<clients, closed, shown, shared, file, publish, targets, settled, kept, unwritten>>

\* Faulty variant: the slot is not given back.
LeaveRegistered(v) ==
    /\ handler[v] = "writing" \/ (handler[v] = "waiting" /\ closed[v])
    /\ handler' = [handler EXCEPT ![v] = "off"]
    /\ hand' = [hand EXCEPT ![v] = 0]
    /\ queue' = [queue EXCEPT ![v] = <<>>]
    /\ closed' = [closed EXCEPT ![v] = FALSE]
    /\ targets' = [p \in Publishers |-> targets[p] \ {v}]
    /\ UNCHANGED <<clients, shown, shared, file, publish, settled, kept, unwritten>>

\* Faulty variant: a stream that was dropped is served on.
LeaveOnError(v) ==
    /\ handler[v] = "writing"
    /\ clients' = clients \ {v}
    /\ handler' = [handler EXCEPT ![v] = "off"]
    /\ hand' = [hand EXCEPT ![v] = 0]
    /\ queue' = [queue EXCEPT ![v] = <<>>]
    /\ closed' = [closed EXCEPT ![v] = FALSE]
    /\ targets' = [p \in Publishers |-> targets[p] \ {v}]
    /\ UNCHANGED <<shown, shared, file, publish, settled, kept, unwritten>>

\* The write fails or times out, or the viewer was dropped: the thread leaves
\* and unregisters.  Broadcasts that still hold the closed SseClient offer to
\* it in vain, so it leaves their targets too; a reconnection is a new one.
Leave(v) ==
    /\ handler[v] = "writing" \/ (handler[v] = "waiting" /\ closed[v])
    /\ clients' = clients \ {v}
    /\ handler' = [handler EXCEPT ![v] = "off"]
    /\ hand' = [hand EXCEPT ![v] = 0]
    /\ queue' = [queue EXCEPT ![v] = <<>>]
    /\ closed' = [closed EXCEPT ![v] = FALSE]
    /\ targets' = [p \in Publishers |-> targets[p] \ {v}]
    /\ UNCHANGED <<shown, shared, file, publish, settled, kept, unwritten>>

\* The service dies and starts again: only the file is left.
SharedRestart ==
    /\ shared' = 0
    /\ settled' = file /\ kept' = file
    /\ publish' = [p \in Publishers |-> Resting]
    /\ targets' = [p \in Publishers |-> {}]
    /\ clients' = {}
    /\ handler' = [v \in Viewers |-> "off"]
    /\ hand' = [v \in Viewers |-> 0]
    /\ queue' = [v \in Viewers |-> <<>>]
    /\ closed' = [v \in Viewers |-> FALSE]
    /\ unwritten' = FALSE
    /\ UNCHANGED <<file, shown>>

Publish(p) == WriteLastGood(p) \/ CopyClients(p) \/ Published(p) \/ \E v \in Viewers : Offer(p, v)

Serving(v) == FirstFrame(v) \/ Written(v) \/ NextFrame(v) \/ Leave(v)

SharedNext ==
    \/ \E p \in Publishers : Share(p) \/ ShareStale(p) \/ Publish(p)
    \/ \E v \in Viewers : Connect(v) \/ Serving(v)
    \/ SharedRestart

SharedSpec == SharedInit /\ [][SharedNext]_sharedVars

\* A publication runs on in its thread.  A stream's thread does too: a write
\* to a page that does not read ends with the connection's timeout.
SharedFairness ==
    /\ \A p \in Publishers : WF_sharedVars(Publish(p))
    /\ \A v \in Viewers : WF_sharedVars(Serving(v))

-----------------------------------------------------------------------------
(* Properties                                                              *)

\* A viewer that has taken its frames shows the shared dashboard: never one
\* older than the oldest of the last publications to overlap, however slow it
\* is and whenever it connected.  (Overlapping publications may be broadcast
\* in either order, and a stale one overlaps with what is published after its
\* copy was taken: see the README.)
ViewersKeepUp ==
    NothingUnderWay =>
        \A v \in Viewers :
            (handler[v] = "waiting" /\ ~closed[v] /\ queue[v] = <<>>) =>
                shown[v] >= settled

\* The file a restart reads is as good, unless its last write failed.
LastGoodKeepsUp ==
    (NothingUnderWay /\ ~unwritten) => file >= kept

\* Every slot of MAX_SSE_CLIENTS belongs to a stream that is being served, so
\* viewers that went away cannot fill it.
SlotsAreServed ==
    /\ Cardinality(clients) <= MaxClients
    /\ \A v \in clients : handler[v] # "off" /\ ~closed[v]

\* A publication ends whatever its viewers do: it never waits for one.
PublicationsEnd == \A p \in Publishers : publish[p].at # "idle" ~> publish[p].at = "idle"

\* A viewer that was dropped for falling behind is let go, so that its page
\* can connect again.
DroppedStreamsEnd == \A v \in Viewers : closed[v] ~> handler[v] = "off"

Stream == INSTANCE ViewerStream WITH
    Frames <- 1 .. MaxBuilds,
    open <- {v \in Viewers : handler[v] # "off"},
    fresh <- {v \in Viewers : handler[v] = "joined"},
    cut <- {v \in Viewers : closed[v]},
    pending <- [v \in Viewers |-> (IF hand[v] = 0 THEN <<>> ELSE <<hand[v]>>) \o queue[v]]

\* The stream keeps ViewerStream's promise: nothing lost, repeated or out of
\* order until it is cut, nothing queued once it is, and never more than the
\* limit kept for a viewer.
ImplementsViewerStream == Stream!StreamSpec
=============================================================================
