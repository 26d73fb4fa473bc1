---------------------------- MODULE ViewersProofs ----------------------------
(***************************************************************************)
(* The safety properties of SharedDashboard, for any number of publishers  *)
(* and viewers and any queue limit.  What ViewersKeepUp needs to be        *)
(* inductive is where the dashboard still to come is while publications    *)
(* are under way: the last frame on a viewer's way to its page is recent   *)
(* enough, or a publication is going to offer it one that is.              *)
(***************************************************************************)
EXTENDS SharedDashboard, FiniteSetTheorems, SequenceTheorems, TLAPS

Dashboards == 1 .. MaxBuilds

SharedTypes ==
    /\ shared \in Builds /\ file \in Builds /\ settled \in Builds /\ kept \in Builds
    /\ publish \in [Publishers -> [at : {"idle", "file", "copy", "offer"}, dashboard : Builds]]
    /\ targets \in [Publishers -> SUBSET Viewers]
    /\ clients \subseteq Viewers
    /\ handler \in [Viewers -> {"off", "joined", "writing", "waiting"}]
    /\ hand \in [Viewers -> Builds] /\ shown \in [Viewers -> Builds]
    /\ queue \in [Viewers -> Seq(Dashboards)]
    /\ closed \in [Viewers -> BOOLEAN]

\* What is shared, or the file while nothing is, is as recent as was settled,
\* and so is every dashboard being published.
SharedIsCurrent ==
    /\ settled <= Payload /\ kept <= Payload
    /\ shared # 0 => file <= shared
    /\ \A p \in Publishers : publish[p].at # "idle" =>
           /\ publish[p].dashboard \in Dashboards /\ publish[p].dashboard >= settled
           /\ publish[p].at = "file" =>
                  shared # 0 /\ publish[p].dashboard <= shared /\ publish[p].dashboard >= kept

LastGoodOnItsWay == file >= kept \/ unwritten \/ \E p \in Publishers : publish[p].at = "file"

Slots ==
    /\ IsFiniteSet(clients) /\ Cardinality(clients) <= MaxClients
    /\ \A v \in Viewers : v \in clients <=> (handler[v] # "off" /\ ~closed[v])

Streams ==
    \A v \in Viewers :
        /\ handler[v] = "off" => queue[v] = <<>> /\ ~closed[v] /\ \A p \in Publishers : v \notin targets[p]
        /\ handler[v] # "writing" => hand[v] = 0

\* The last frame on its way to the page, or the one it shows.
LastFrame(v) ==
    IF queue[v] # <<>> THEN queue[v][Len(queue[v])] ELSE IF hand[v] # 0 THEN hand[v] ELSE shown[v]

\* The publication of p is still to be offered to v.
Reaches(p, v) == publish[p].at \in {"file", "copy"} \/ (publish[p].at = "offer" /\ v \in targets[p])

\* v has been sent what was shared when it connected, or something later.
Receiving(v) ==
    /\ ~closed[v]
    /\ handler[v] \in {"writing", "waiting"} \/ (handler[v] = "joined" /\ queue[v] # <<>>)

NewsOnItsWay ==
    \A v \in Viewers : Receiving(v) => LastFrame(v) >= settled \/ \E p \in Publishers : Reaches(p, v)

SharedInv == SharedTypes /\ SharedIsCurrent /\ LastGoodOnItsWay /\ Slots /\ Streams /\ NewsOnItsWay

LEMMA SharedInitInv == SharedInit => SharedInv
<1>. SUFFICES ASSUME SharedInit PROVE SharedInv
  OBVIOUS
<1>1. 0 \in Builds /\ <<>> \in Seq(Dashboards) /\ Resting \in [at : {"idle", "file", "copy", "offer"}, dashboard : Builds]
  BY SharedAssumption DEF SharedAssumption, Builds, Resting
<1>2. SharedTypes
  BY <1>1 DEF SharedInit, SharedTypes
<1>3. \A p \in Publishers : publish[p].at = "idle" /\ targets[p] = {}
  BY DEF SharedInit, Resting
<1>4. SharedIsCurrent /\ LastGoodOnItsWay
  BY <1>3 DEF SharedInit, SharedIsCurrent, LastGoodOnItsWay, Payload
<1>5. Slots
  BY FS_EmptySet, SharedAssumption DEF SharedAssumption, SharedInit, Slots
<1>6. Streams
  BY <1>3 DEF SharedInit, Streams
<1>7. NewsOnItsWay
  BY DEF SharedInit, NewsOnItsWay, Receiving
<1>. QED
  BY <1>2, <1>4, <1>5, <1>6, <1>7 DEF SharedInv

\* One publisher's publication moves on.
LEMMA PublicationMoves ==
  ASSUME SharedTypes, NEW p \in Publishers,
         NEW new \in [at : {"idle", "file", "copy", "offer"}, dashboard : Builds],
         publish' = [publish EXCEPT ![p] = new]
  PROVE  /\ publish' \in [Publishers -> [at : {"idle", "file", "copy", "offer"}, dashboard : Builds]]
         /\ publish'[p] = new /\ \A q \in Publishers : q # p => publish'[q] = publish[q]
BY DEF SharedTypes

LEMMA PublicationAt ==
  ASSUME SharedTypes, NEW p \in Publishers, NEW at \in {"file", "copy", "offer"},
         publish' = [publish EXCEPT ![p].at = at]
  PROVE  /\ publish' \in [Publishers -> [at : {"idle", "file", "copy", "offer"}, dashboard : Builds]]
         /\ publish'[p].at = at /\ publish'[p].dashboard = publish[p].dashboard
         /\ \A q \in Publishers : q # p => publish'[q] = publish[q]
<1>. DEFINE new == [publish[p] EXCEPT !.at = at]
<1>1. /\ new \in [at : {"idle", "file", "copy", "offer"}, dashboard : Builds]
      /\ new.at = at /\ new.dashboard = publish[p].dashboard
  BY DEF SharedTypes
<1>2. publish' = [publish EXCEPT ![p] = new]
  OBVIOUS
<1>. HIDE DEF new
<1>. QED
  BY <1>1, <1>2, PublicationMoves

\* Nothing a publisher does alone changes what is on its way to a page.
LEMMA PageKept ==
  ASSUME UNCHANGED viewerVars, NEW v \in Viewers
  PROVE  LastFrame(v)' = LastFrame(v) /\ Receiving(v)' = Receiving(v)
BY DEF viewerVars, LastFrame, Receiving

LEMMA SlotsKept ==
  ASSUME Slots, UNCHANGED viewerVars
  PROVE  Slots'
BY DEF viewerVars, Slots

\* A publication begins with dashboard d, which reaches every viewer.
LEMMA PublicationBegins ==
  ASSUME SharedInv, NEW p \in Publishers, NEW at \in {"file", "copy"}, NEW d \in Dashboards,
         publish' = [publish EXCEPT ![p] = [at |-> at, dashboard |-> d]],
         shared' \in Builds, settled' \in Builds, kept' \in Builds, SharedIsCurrent', LastGoodOnItsWay',
         UNCHANGED <<file, targets>>, UNCHANGED viewerVars
  PROVE  SharedInv'
<1>1. /\ publish' \in [Publishers -> [at : {"idle", "file", "copy", "offer"}, dashboard : Builds]]
      /\ publish'[p].at = at
  <2>. DEFINE new == [at |-> at, dashboard |-> d]
  <2>1. new \in [at : {"idle", "file", "copy", "offer"}, dashboard : Builds] /\ new.at = at
    BY DEF Dashboards, Builds
  <2>. HIDE DEF new
  <2>2. publish' = [publish EXCEPT ![p] = new]
    BY DEF new
  <2>. QED
    BY <2>1, <2>2, PublicationMoves DEF SharedInv
<1>2. SharedTypes'
  BY <1>1 DEF SharedInv, SharedTypes, viewerVars
<1>3. Slots' /\ Streams'
  BY SlotsKept DEF SharedInv, Streams, viewerVars
<1>4. NewsOnItsWay'
  BY <1>1 DEF NewsOnItsWay, Reaches
<1>. QED
  BY <1>2, <1>3, <1>4 DEF SharedInv

LEMMA ShareInv == ASSUME SharedInv, NEW p \in Publishers, Share(p) PROVE SharedInv'
<1>1. PICK d \in 1 .. MaxBuilds :
         /\ d > shared /\ d > file /\ \A q \in Publishers : d > publish[q].dashboard
         /\ shared' = d /\ publish' = [publish EXCEPT ![p] = [at |-> "file", dashboard |-> d]]
  BY DEF Share
<1>2. /\ UNCHANGED <<file, targets>> /\ UNCHANGED viewerVars
      /\ settled' = IF NothingUnderWay THEN d ELSE settled
      /\ kept' = IF NothingUnderWay THEN d ELSE kept
  BY <1>1 DEF Share
<1>3. /\ d \in Dashboards /\ d \in Builds /\ d # 0
      /\ Payload \in Builds /\ file \in Builds /\ settled \in Builds /\ kept \in Builds /\ d > Payload
  BY <1>1 DEF Dashboards, Builds, Payload, SharedInv, SharedTypes
<1>4. settled <= Payload /\ kept <= Payload
  BY DEF SharedInv, SharedIsCurrent
<1>5. settled' \in Builds /\ kept' \in Builds /\ settled' <= d /\ kept' <= d
  BY <1>2, <1>3, <1>4 DEF Builds
<1>6. /\ publish'[p].at = "file" /\ publish'[p].dashboard = d
      /\ \A q \in Publishers : q # p => publish'[q] = publish[q]
  BY <1>1 DEF SharedInv, SharedTypes
<1>7. SharedIsCurrent'
  <2>1. settled' <= Payload' /\ kept' <= Payload' /\ shared' = d /\ shared' # 0 /\ file' <= shared'
    BY <1>1, <1>2, <1>3, <1>5 DEF Payload, Builds
  <2>2. ASSUME NEW q \in Publishers, q # p, publish[q].at # "idle"
        PROVE  /\ publish'[q].dashboard \in Dashboards /\ publish'[q].dashboard >= settled'
               /\ publish'[q].at = "file" =>
                      publish'[q].dashboard <= shared' /\ publish'[q].dashboard >= kept'
    <3>1. publish'[q] = publish[q] /\ settled' = settled /\ kept' = kept
      BY <1>2, <1>6, <2>2 DEF NothingUnderWay
    <3>2. publish[q].dashboard \in Dashboards /\ publish[q].dashboard < d
      BY <1>1, <2>2 DEF SharedInv, SharedIsCurrent
    <3>3. publish[q].dashboard <= d
      BY <3>2 DEF Dashboards
    <3>. QED
      BY <1>1, <2>2, <3>1, <3>2, <3>3 DEF SharedInv, SharedIsCurrent
  <2>3. d \in Dashboards /\ d >= settled' /\ d <= shared' /\ d >= kept'
    BY <1>3, <1>5, <2>1 DEF Builds
  <2>. QED
    BY <1>6, <2>1, <2>2, <2>3 DEF SharedIsCurrent
<1>8. LastGoodOnItsWay'
  BY <1>6 DEF LastGoodOnItsWay
<1>. QED
  BY <1>1, <1>2, <1>3, <1>5, <1>7, <1>8, PublicationBegins

LEMMA ShareStaleInv == ASSUME SharedInv, NEW p \in Publishers, ShareStale(p) PROVE SharedInv'
<1>1. PICK d \in {shared, file} \ {0} :
         /\ publish' = [publish EXCEPT ![p] = [at |-> "copy", dashboard |-> d]]
         /\ settled' = IF NothingUnderWay \/ d < settled THEN d ELSE settled
  BY DEF ShareStale
<1>2. publish[p].at = "idle" /\ UNCHANGED <<shared, file, targets, kept>> /\ UNCHANGED viewerVars
  BY DEF ShareStale
<1>3. unwritten' = unwritten
  BY Zenon DEF ShareStale
<1>4. d \in Dashboards /\ d \in Builds /\ settled \in Builds /\ kept \in Builds /\ shared \in Builds /\ Payload \in Builds
  BY DEF Dashboards, Builds, Payload, SharedInv, SharedTypes
<1>5. d <= Payload /\ settled <= Payload
  BY DEF SharedInv, SharedTypes, SharedIsCurrent, Payload, Builds
<1>6. settled' \in Builds /\ settled' <= Payload /\ settled' <= d
  BY <1>1, <1>4, <1>5 DEF Builds
<1>7. /\ publish'[p].at = "copy" /\ publish'[p].dashboard = d
      /\ \A q \in Publishers : q # p => publish'[q] = publish[q]
  BY <1>1 DEF SharedInv, SharedTypes
<1>8. SharedIsCurrent'
  <2>1. Payload' = Payload
    BY <1>2 DEF Payload
  <2>2. ASSUME NEW q \in Publishers, q # p, publish[q].at # "idle"
        PROVE  publish'[q].dashboard >= settled'
    <3>1. publish'[q] = publish[q] /\ publish[q].dashboard \in Dashboards /\ publish[q].dashboard >= settled
      BY <1>7, <2>2 DEF SharedInv, SharedIsCurrent
    <3>2. ~NothingUnderWay
      BY <2>2 DEF NothingUnderWay
    <3>3. settled' <= settled
      BY <1>1, <1>4, <3>2 DEF Builds
    <3>. QED
      BY <1>4, <1>6, <3>1, <3>3 DEF Builds, Dashboards
  <2>3. d >= settled'
    BY <1>4, <1>6 DEF Builds
  <2>. QED
    BY <1>2, <1>4, <1>6, <1>7, <2>1, <2>2, <2>3 DEF SharedInv, SharedIsCurrent
<1>9. LastGoodOnItsWay'
  BY <1>2, <1>3, <1>7 DEF SharedInv, LastGoodOnItsWay
<1>. QED
  BY <1>1, <1>2, <1>4, <1>6, <1>8, <1>9, PublicationBegins

\* A publication moves on without having been offered to a viewer: what holds
\* of the pages still does, if it still reaches whom it reached.
LEMMA NewsKept ==
  ASSUME SharedInv, UNCHANGED viewerVars, UNCHANGED settled,
         \A v \in Viewers, p \in Publishers :
             v \in clients /\ Reaches(p, v) => \E q \in Publishers : Reaches(q, v)'
  PROVE  NewsOnItsWay'
<1>. SUFFICES ASSUME NEW v \in Viewers, Receiving(v)'
              PROVE  LastFrame(v)' >= settled \/ \E p \in Publishers : Reaches(p, v)'
  BY DEF NewsOnItsWay
<1>1. Receiving(v) /\ LastFrame(v)' = LastFrame(v)
  BY PageKept
<1>2. v \in clients
  BY <1>1 DEF SharedInv, SharedTypes, Slots, Receiving
<1>. QED
  BY <1>1, <1>2 DEF SharedInv, NewsOnItsWay

LEMMA WriteLastGoodInv == ASSUME SharedInv, NEW p \in Publishers, WriteLastGood(p) PROVE SharedInv'
<1>1. /\ publish[p].at = "file" /\ UNCHANGED <<shared, targets, settled, kept>> /\ UNCHANGED viewerVars
      /\ publish' = [publish EXCEPT ![p].at = "copy"]
  BY DEF WriteLastGood
<1>2. /\ publish' \in [Publishers -> [at : {"idle", "file", "copy", "offer"}, dashboard : Builds]]
      /\ publish'[p].at = "copy" /\ publish'[p].dashboard = publish[p].dashboard
      /\ \A q \in Publishers : q # p => publish'[q] = publish[q]
  BY <1>1, PublicationAt DEF SharedInv
<1>3. shared # 0 /\ publish[p].dashboard \in Dashboards /\ publish[p].dashboard >= settled
      /\ publish[p].dashboard >= kept
  BY <1>1 DEF SharedInv, SharedIsCurrent
<1>4. file' \in Builds /\ file' <= shared /\ (file' = publish[p].dashboard \/ unwritten')
  BY <1>1, <1>3 DEF WriteLastGood, SharedInv, SharedTypes, SharedIsCurrent, Builds, Dashboards
<1>5. SharedTypes'
  BY <1>1, <1>2, <1>4 DEF SharedInv, SharedTypes, viewerVars
<1>6. SharedIsCurrent'
  BY <1>1, <1>2, <1>3, <1>4 DEF SharedInv, SharedIsCurrent, Payload
<1>7. LastGoodOnItsWay'
  BY <1>1, <1>3, <1>4 DEF LastGoodOnItsWay
<1>8. Slots'
  BY <1>1, SlotsKept DEF SharedInv
<1>9. Streams'
  BY <1>1 DEF SharedInv, Streams, viewerVars
<1>10. NewsOnItsWay'
  BY <1>1, <1>2, NewsKept DEF Reaches
<1>. QED
  BY <1>5, <1>6, <1>7, <1>8, <1>9, <1>10 DEF SharedInv

LEMMA CopyClientsInv == ASSUME SharedInv, NEW p \in Publishers, CopyClients(p) PROVE SharedInv'
<1>1. /\ publish[p].at = "copy" /\ UNCHANGED <<shared, file, settled, kept>> /\ UNCHANGED viewerVars
      /\ publish' = [publish EXCEPT ![p].at = "offer"] /\ targets' = [targets EXCEPT ![p] = clients]
  BY DEF CopyClients
<1>2. /\ publish' \in [Publishers -> [at : {"idle", "file", "copy", "offer"}, dashboard : Builds]]
      /\ publish'[p].at = "offer" /\ publish'[p].dashboard = publish[p].dashboard
      /\ \A q \in Publishers : q # p => publish'[q] = publish[q]
  BY <1>1, PublicationAt DEF SharedInv
<1>3. /\ targets' \in [Publishers -> SUBSET Viewers] /\ targets'[p] = clients
      /\ \A q \in Publishers : q # p => targets'[q] = targets[q]
  BY <1>1 DEF SharedInv, SharedTypes
<1>4. SharedTypes'
  BY <1>1, <1>2, <1>3 DEF SharedInv, SharedTypes, viewerVars
<1>5. SharedIsCurrent'
  BY <1>1, <1>2 DEF SharedInv, SharedIsCurrent, Payload
<1>6. LastGoodOnItsWay'
  <2>1. unwritten' = unwritten
    BY Zenon DEF CopyClients
  <2>. QED
    BY <1>1, <1>2, <2>1 DEF SharedInv, LastGoodOnItsWay
<1>7. Slots'
  BY <1>1, SlotsKept DEF SharedInv
<1>8. Streams'
  <2>1. \A v \in clients : handler[v] # "off"
    BY DEF SharedInv, SharedTypes, Slots
  <2>. QED
    BY <1>1, <1>3, <2>1 DEF SharedInv, Streams, viewerVars
<1>9. NewsOnItsWay'
  BY <1>1, <1>2, <1>3, NewsKept DEF Reaches
<1>. QED
  BY <1>4, <1>5, <1>6, <1>7, <1>8, <1>9 DEF SharedInv

LEMMA PublishedInv == ASSUME SharedInv, NEW p \in Publishers, Published(p) PROVE SharedInv'
<1>1. /\ publish[p].at = "offer" /\ targets[p] = {} /\ UNCHANGED <<shared, file, targets, settled, kept>>
      /\ UNCHANGED viewerVars /\ publish' = [publish EXCEPT ![p] = Resting]
  BY DEF Published
<1>2. /\ publish' \in [Publishers -> [at : {"idle", "file", "copy", "offer"}, dashboard : Builds]]
      /\ publish'[p].at = "idle" /\ \A q \in Publishers : q # p => publish'[q] = publish[q]
  <2>1. Resting \in [at : {"idle", "file", "copy", "offer"}, dashboard : Builds] /\ Resting.at = "idle"
    BY SharedAssumption DEF SharedAssumption, Builds, Resting
  <2>. QED
    BY <1>1, <2>1, PublicationMoves DEF SharedInv
<1>3. SharedTypes'
  BY <1>1, <1>2 DEF SharedInv, SharedTypes, viewerVars
<1>4. SharedIsCurrent'
  BY <1>1, <1>2 DEF SharedInv, SharedIsCurrent, Payload
<1>5. LastGoodOnItsWay'
  <2>1. unwritten' = unwritten
    BY Zenon DEF Published
  <2>. QED
    BY <1>1, <1>2, <2>1 DEF SharedInv, LastGoodOnItsWay
<1>6. Slots'
  BY <1>1, SlotsKept DEF SharedInv
<1>7. Streams'
  BY <1>1 DEF SharedInv, Streams, viewerVars
<1>8. NewsOnItsWay'
  <2>1. ASSUME NEW v \in Viewers, NEW q \in Publishers, Reaches(q, v) PROVE Reaches(q, v)'
    <3>1. q # p
      BY <1>1, <2>1 DEF Reaches
    <3>. QED
      BY <1>1, <1>2, <2>1, <3>1 DEF Reaches
  <2>. QED
    BY <1>1, <2>1, NewsKept
<1>. QED
  BY <1>3, <1>4, <1>5, <1>6, <1>7, <1>8 DEF SharedInv

\* Offering moves the publication past viewer v: v has the frame now, or is
\* closed and its slot given back.
LEMMA OfferInv ==
  ASSUME SharedInv, NEW p \in Publishers, NEW v \in Viewers, Offer(p, v)
  PROVE  SharedInv'
<1>. DEFINE full == closed[v] \/ Len(queue[v]) >= Limit
            frame == publish[p].dashboard
<1>1. /\ publish[p].at = "offer" /\ v \in targets[p]
      /\ UNCHANGED <<shared, file, publish, settled, kept, handler, hand, shown>>
      /\ targets' = [targets EXCEPT ![p] = @ \ {v}]
      /\ queue' = [queue EXCEPT ![v] = IF full THEN <<>> ELSE Append(queue[v], frame)]
      /\ clients' = IF full THEN clients \ {v} ELSE clients
  BY DEF Offer
<1>2. frame \in Dashboards /\ frame >= settled
  BY <1>1 DEF SharedInv, SharedIsCurrent
<1>3. /\ targets' \in [Publishers -> SUBSET Viewers]
      /\ \A q \in Publishers, w \in Viewers : w # v => (w \in targets'[q] <=> w \in targets[q])
      /\ \A q \in Publishers : targets'[q] \subseteq targets[q]
  BY <1>1 DEF SharedInv, SharedTypes
<1>4. closed' \in [Viewers -> BOOLEAN] /\ (closed'[v] <=> full) /\ \A w \in Viewers : w # v => closed'[w] = closed[w]
  BY DEF Offer, SharedInv, SharedTypes
<1>5. /\ queue' \in [Viewers -> Seq(Dashboards)] /\ \A w \in Viewers : w # v => queue'[w] = queue[w]
      /\ ~full => queue'[v] # <<>> /\ queue'[v][Len(queue'[v])] = frame
  <2>. DEFINE longer == Append(queue[v], frame)
  <2>1. longer \in Seq(Dashboards) /\ longer # <<>> /\ longer[Len(longer)] = frame
    <3>1. queue[v] \in Seq(Dashboards)
      BY DEF SharedInv, SharedTypes
    <3>. HIDE DEF frame
    <3>2. Len(longer) = Len(queue[v]) + 1 /\ longer[Len(queue[v]) + 1] = frame
      BY <1>2, <3>1, AppendProperties
    <3>. QED
      BY <1>2, <3>1, <3>2, AppendProperties
  <2>2. <<>> \in Seq(Dashboards)
    OBVIOUS
  <2>3. queue' = [queue EXCEPT ![v] = IF full THEN <<>> ELSE longer]
    BY <1>1
  <2>. HIDE DEF full, longer
  <2>. QED
    BY <2>1, <2>2, <2>3 DEF SharedInv, SharedTypes
<1>. HIDE DEF full, frame
<1>6. SharedTypes'
  BY <1>1, <1>3, <1>4, <1>5 DEF SharedInv, SharedTypes
<1>7. SharedIsCurrent'
  BY <1>1 DEF SharedInv, SharedIsCurrent, Payload
<1>8. LastGoodOnItsWay'
  <2>1. unwritten' = unwritten
    BY Zenon DEF Offer
  <2>. QED
    BY <1>1, <2>1 DEF SharedInv, LastGoodOnItsWay
<1>9. Slots'
  <2>1. IsFiniteSet(clients') /\ Cardinality(clients') <= MaxClients
    <3>1. IsFiniteSet(clients) /\ Cardinality(clients) <= MaxClients /\ Cardinality(clients) \in Nat
      BY FS_CardinalityType DEF SharedInv, Slots
    <3>2. IsFiniteSet(clients \ {v}) /\ Cardinality(clients \ {v}) <= Cardinality(clients)
          /\ Cardinality(clients \ {v}) \in Nat
      <4>1. IsFiniteSet(clients \ {v}) /\ Cardinality(clients \ {v}) <= Cardinality(clients)
        BY <3>1, FS_Subset
      <4>. QED
        BY <4>1, FS_CardinalityType
    <3>. QED
      BY <1>1, <3>1, <3>2, SharedAssumption DEF SharedAssumption
  <2>2. handler[v] # "off"
    BY <1>1 DEF SharedInv, Streams
  <2>3. full => v \notin clients'
    BY <1>1
  <2>4. ~full => ~closed[v]
    BY DEF full
  <2>5. \A w \in Viewers : w \in clients' <=> (handler'[w] # "off" /\ ~closed'[w])
    BY <1>1, <1>4, <2>2, <2>3, <2>4 DEF SharedInv, Slots
  <2>. QED
    BY <2>1, <2>5 DEF Slots
<1>10. Streams'
  <2>1. handler[v] # "off"
    BY <1>1 DEF SharedInv, Streams
  <2>. QED
    BY <1>1, <1>3, <1>4, <1>5, <2>1 DEF SharedInv, Streams
<1>11. NewsOnItsWay'
  <2>. SUFFICES ASSUME NEW w \in Viewers, Receiving(w)'
                PROVE  LastFrame(w)' >= settled \/ \E q \in Publishers : Reaches(q, w)'
    BY <1>1 DEF NewsOnItsWay
  <2>1. CASE w = v
    BY <1>2, <1>4, <1>5, <2>1 DEF Receiving, LastFrame
  <2>2. CASE w # v
    <3>1. Receiving(w) /\ LastFrame(w)' = LastFrame(w)
      BY <1>1, <1>4, <1>5, <2>2 DEF Receiving, LastFrame
    <3>2. ASSUME NEW q \in Publishers, Reaches(q, w) PROVE Reaches(q, w)'
      <4>1. publish'[q] = publish[q] /\ (w \in targets'[q] <=> w \in targets[q])
        BY <1>1, <1>3, <2>2
      <4>. QED
        BY <3>2, <4>1 DEF Reaches
    <3>. QED
      BY <3>1, <3>2 DEF SharedInv, NewsOnItsWay
  <2>. QED
    BY <2>1, <2>2
<1>. QED
  BY <1>6, <1>7, <1>8, <1>9, <1>10, <1>11 DEF SharedInv

-----------------------------------------------------------------------------
\* The steps of a stream's own thread change no publication.

\* What all of them share: thread v moves between points of its stream.
LEMMA StreamMoves ==
  ASSUME SharedInv, NEW v \in Viewers, UNCHANGED <<shared, file, publish, targets, settled, kept>>,
         unwritten' = unwritten, UNCHANGED <<clients, closed>>,
         hand' \in [Viewers -> Builds], shown' \in [Viewers -> Builds], queue' \in [Viewers -> Seq(Dashboards)],
         NEW to \in {"writing", "waiting"}, handler' = [handler EXCEPT ![v] = to], handler[v] # "off",
         to = "waiting" => hand'[v] = 0,
         \A w \in Viewers : w # v => hand'[w] = hand[w] /\ shown'[w] = shown[w] /\ queue'[w] = queue[w],
         Receiving(v)' => LastFrame(v)' >= settled \/ \E p \in Publishers : Reaches(p, v)
  PROVE  SharedInv'
<1>1. SharedTypes'
  BY DEF SharedInv, SharedTypes
<1>2. SharedIsCurrent' /\ LastGoodOnItsWay'
  BY DEF SharedInv, SharedIsCurrent, LastGoodOnItsWay, Payload
<1>3. handler'[v] = to /\ \A w \in Viewers : w # v => handler'[w] = handler[w]
  BY DEF SharedInv, SharedTypes
<1>4. Slots'
  BY <1>3 DEF SharedInv, Slots
<1>5. Streams'
  BY <1>3 DEF SharedInv, Streams
<1>6. NewsOnItsWay'
  <2>. SUFFICES ASSUME NEW w \in Viewers, Receiving(w)'
                PROVE  LastFrame(w)' >= settled \/ \E p \in Publishers : Reaches(p, w)
    BY DEF NewsOnItsWay, Reaches
  <2>1. CASE w # v
    <3>1. Receiving(w) /\ LastFrame(w)' = LastFrame(w)
      BY <1>3, <2>1 DEF Receiving, LastFrame
    <3>. QED
      BY <3>1 DEF SharedInv, NewsOnItsWay
  <2>. QED
    BY <2>1
<1>. QED
  BY <1>1, <1>2, <1>4, <1>5, <1>6 DEF SharedInv

LEMMA ConnectInv == ASSUME SharedInv, NEW v \in Viewers, Connect(v) PROVE SharedInv'
<1>1. /\ handler[v] = "off" /\ Cardinality(clients) < MaxClients /\ clients' = clients \cup {v}
      /\ handler' = [handler EXCEPT ![v] = "joined"]
      /\ UNCHANGED <<hand, queue, closed, shown, shared, file, publish, targets, settled, kept>>
  BY DEF Connect
<1>2. unwritten' = unwritten
  BY Zenon DEF Connect
<1>3. handler'[v] = "joined" /\ \A w \in Viewers : w # v => handler'[w] = handler[w]
  BY <1>1 DEF SharedInv, SharedTypes
<1>4. SharedTypes'
  BY <1>1 DEF SharedInv, SharedTypes
<1>5. SharedIsCurrent' /\ LastGoodOnItsWay'
  BY <1>1, <1>2 DEF SharedInv, SharedIsCurrent, LastGoodOnItsWay, Payload
<1>6. Slots'
  <2>1. IsFiniteSet(clients') /\ Cardinality(clients') <= MaxClients
    <3>1. IsFiniteSet(clients) /\ Cardinality(clients) \in Nat
      BY FS_CardinalityType DEF SharedInv, Slots
    <3>2. IsFiniteSet(clients \cup {v}) /\ Cardinality(clients \cup {v}) \in {Cardinality(clients), Cardinality(clients) + 1}
      BY <3>1, FS_AddElement
    <3>. QED
      BY <1>1, <3>1, <3>2, SharedAssumption DEF SharedAssumption
  <2>2. ~closed[v]
    BY <1>1 DEF SharedInv, Streams
  <2>3. \A w \in Viewers : w \in clients' <=> (handler'[w] # "off" /\ ~closed'[w])
    BY <1>1, <1>3, <2>2 DEF SharedInv, Slots
  <2>. QED
    BY <2>1, <2>3 DEF Slots
<1>7. Streams'
  BY <1>1, <1>3 DEF SharedInv, Streams
<1>8. NewsOnItsWay'
  <2>. SUFFICES ASSUME NEW w \in Viewers, Receiving(w)'
                PROVE  LastFrame(w)' >= settled \/ \E p \in Publishers : Reaches(p, w)'
    BY <1>1 DEF NewsOnItsWay
  <2>1. w # v
    BY <1>1, <1>3 DEF SharedInv, Streams, Receiving
  <2>2. Receiving(w) /\ LastFrame(w)' = LastFrame(w)
    BY <1>1, <1>3, <2>1 DEF Receiving, LastFrame
  <2>. QED
    BY <1>1, <2>2 DEF SharedInv, NewsOnItsWay, Reaches
<1>. QED
  BY <1>4, <1>5, <1>6, <1>7, <1>8 DEF SharedInv

\* The first frame is what is shared: nothing settled is newer.
LEMMA FirstFrameInv == ASSUME SharedInv, NEW v \in Viewers, FirstFrame(v) PROVE SharedInv'
<1>1. /\ handler[v] = "joined" /\ handler' = [handler EXCEPT ![v] = "writing"]
      /\ hand' = [hand EXCEPT ![v] = Payload]
      /\ UNCHANGED <<clients, queue, closed, shown, shared, file, publish, targets, settled, kept>>
  BY DEF FirstFrame
<1>2. unwritten' = unwritten /\ UNCHANGED <<clients, closed>>
  BY Zenon DEF FirstFrame
<1>3. Payload \in Builds /\ settled <= Payload
  BY DEF SharedInv, SharedTypes, SharedIsCurrent, Payload
<1>4. hand' \in [Viewers -> Builds] /\ shown' \in [Viewers -> Builds] /\ queue' \in [Viewers -> Seq(Dashboards)]
      /\ hand'[v] = Payload /\ \A w \in Viewers : w # v => hand'[w] = hand[w]
  BY <1>1, <1>3 DEF SharedInv, SharedTypes
<1>5. ASSUME Receiving(v)' PROVE LastFrame(v)' >= settled \/ \E p \in Publishers : Reaches(p, v)
  <2>1. CASE queue[v] # <<>>
    <3>1. Receiving(v) /\ LastFrame(v)' = LastFrame(v)
      BY <1>1, <1>5, <2>1 DEF Receiving, LastFrame
    <3>. QED
      BY <3>1 DEF SharedInv, NewsOnItsWay
  <2>2. CASE queue[v] = <<>>
    <3>1. LastFrame(v)' >= Payload
      BY <1>1, <1>3, <1>4, <2>2 DEF LastFrame, Builds
    <3>2. LastFrame(v)' \in Builds /\ settled \in Builds
      BY <1>1, <1>4, <2>2 DEF LastFrame, SharedInv, SharedTypes
    <3>. QED
      BY <1>3, <3>1, <3>2 DEF Builds
  <2>. QED
    BY <2>1, <2>2
<1>. QED
  BY <1>1, <1>2, <1>4, <1>5, StreamMoves

LEMMA WrittenInv == ASSUME SharedInv, NEW v \in Viewers, Written(v) PROVE SharedInv'
<1>1. /\ handler[v] = "writing" /\ handler' = [handler EXCEPT ![v] = "waiting"]
      /\ hand' = [hand EXCEPT ![v] = 0]
      /\ shown' = [shown EXCEPT ![v] = IF hand[v] = 0 THEN shown[v] ELSE hand[v]]
      /\ UNCHANGED <<clients, queue, closed, shared, file, publish, targets, settled, kept>>
  BY DEF Written
<1>2. unwritten' = unwritten /\ UNCHANGED <<clients, closed>>
  BY Zenon DEF Written
<1>3. /\ hand' \in [Viewers -> Builds] /\ shown' \in [Viewers -> Builds] /\ queue' \in [Viewers -> Seq(Dashboards)]
      /\ hand'[v] = 0 /\ shown'[v] = IF hand[v] = 0 THEN shown[v] ELSE hand[v]
      /\ \A w \in Viewers : w # v => hand'[w] = hand[w] /\ shown'[w] = shown[w] /\ queue'[w] = queue[w]
  BY <1>1, SharedAssumption DEF SharedAssumption, SharedInv, SharedTypes, Builds
<1>4. ASSUME Receiving(v)' PROVE LastFrame(v)' >= settled \/ \E p \in Publishers : Reaches(p, v)
  <2>1. Receiving(v)
    BY <1>1, <1>4 DEF Receiving
  <2>2. LastFrame(v)' = LastFrame(v)
    BY <1>1, <1>3 DEF LastFrame
  <2>. QED
    BY <2>1, <2>2 DEF SharedInv, NewsOnItsWay
<1>. QED
  BY <1>1, <1>2, <1>3, <1>4, StreamMoves

\* Taking the oldest frame leaves the last one on its way where it was, or
\* puts it in the thread's hand.
LEMMA NextFrameInv == ASSUME SharedInv, NEW v \in Viewers, NextFrame(v) PROVE SharedInv'
<1>. DEFINE frames == queue[v]
<1>1. /\ handler[v] = "waiting" /\ handler' = [handler EXCEPT ![v] = "writing"] /\ hand[v] = 0
      /\ hand' = [hand EXCEPT ![v] = IF frames = <<>> THEN 0 ELSE Head(frames)]
      /\ queue' = [queue EXCEPT ![v] = IF frames = <<>> THEN frames ELSE Tail(frames)]
      /\ UNCHANGED <<clients, closed, shown, shared, file, publish, targets, settled, kept>>
  BY DEF NextFrame, SharedInv, Streams
<1>2. unwritten' = unwritten /\ UNCHANGED <<clients, closed>>
  BY Zenon DEF NextFrame
<1>3. frames \in Seq(Dashboards) /\ shown[v] \in Builds
  BY DEF SharedInv, SharedTypes
<1>4. CASE frames = <<>>
  <2>1. queue' = queue /\ hand' = hand
    BY <1>1, <1>4 DEF SharedInv, SharedTypes
  <2>2. Receiving(v)' => Receiving(v) /\ LastFrame(v)' = LastFrame(v)
    BY <1>1, <2>1 DEF Receiving, LastFrame
  <2>3. hand' \in [Viewers -> Builds] /\ shown' \in [Viewers -> Builds] /\ queue' \in [Viewers -> Seq(Dashboards)]
        /\ \A w \in Viewers : hand'[w] = hand[w] /\ shown'[w] = shown[w] /\ queue'[w] = queue[w]
    BY <1>1, <2>1 DEF SharedInv, SharedTypes
  <2>4. Receiving(v)' => LastFrame(v)' >= settled \/ \E p \in Publishers : Reaches(p, v)
    BY <2>2 DEF SharedInv, NewsOnItsWay
  <2>. QED
    BY <1>1, <1>2, <2>3, <2>4, StreamMoves
<1>5. CASE frames # <<>>
  <2>. DEFINE first == Head(frames)
              rest == Tail(frames)
  <2>1. /\ first \in Dashboards /\ rest \in Seq(Dashboards) /\ Len(rest) = Len(frames) - 1
        /\ \A i \in 1 .. Len(rest) : rest[i] = frames[i + 1]
    BY <1>3, <1>5, HeadTailProperties
  <2>2. Len(frames) \in Nat \ {0} /\ first = frames[1] /\ first # 0 /\ first \in Builds
    BY <1>3, <1>5, <2>1 DEF Dashboards, Builds
  <2>3. IF rest # <<>> THEN rest[Len(rest)] = frames[Len(frames)] ELSE first = frames[Len(frames)]
    <3>. HIDE DEF first, rest, frames
    <3>1. rest # <<>> => Len(rest) \in Nat \ {0}
      BY <2>1
    <3>2. rest = <<>> => Len(rest) = 0
      OBVIOUS
    <3>. QED
      BY <2>1, <2>2, <3>1, <3>2
  <2>. HIDE DEF first, rest
  <2>4. /\ hand' = [hand EXCEPT ![v] = first] /\ queue' = [queue EXCEPT ![v] = rest]
    BY <1>1, <1>5 DEF first, rest
  <2>5. /\ hand' \in [Viewers -> Builds] /\ shown' \in [Viewers -> Builds] /\ queue' \in [Viewers -> Seq(Dashboards)]
        /\ hand'[v] = first /\ queue'[v] = rest
        /\ \A w \in Viewers : w # v => hand'[w] = hand[w] /\ shown'[w] = shown[w] /\ queue'[w] = queue[w]
    BY <1>1, <2>1, <2>2, <2>4 DEF SharedInv, SharedTypes
  <2>6. LastFrame(v)' = LastFrame(v)
    BY <1>5, <2>2, <2>3, <2>5 DEF LastFrame
  <2>7. Receiving(v)' => Receiving(v)
    BY <1>1 DEF Receiving
  <2>8. Receiving(v)' => LastFrame(v)' >= settled \/ \E p \in Publishers : Reaches(p, v)
    BY <2>6, <2>7 DEF SharedInv, NewsOnItsWay
  <2>. QED
    BY <1>1, <1>2, <2>5, <2>8, StreamMoves
<1>. QED
  BY <1>4, <1>5

LEMMA LeaveInv == ASSUME SharedInv, NEW v \in Viewers, Leave(v) PROVE SharedInv'
<1>1. /\ clients' = clients \ {v} /\ handler' = [handler EXCEPT ![v] = "off"]
      /\ hand' = [hand EXCEPT ![v] = 0] /\ queue' = [queue EXCEPT ![v] = <<>>]
      /\ targets' = [p \in Publishers |-> targets[p] \ {v}]
      /\ UNCHANGED <<shown, shared, file, publish, settled, kept>>
  BY DEF Leave
<1>2. unwritten' = unwritten
  BY Zenon DEF Leave
<1>3. closed' \in [Viewers -> BOOLEAN] /\ ~closed'[v] /\ \A w \in Viewers : w # v => closed'[w] = closed[w]
  BY DEF Leave, SharedInv, SharedTypes
<1>4. /\ handler'[v] = "off" /\ queue'[v] = <<>> /\ hand'[v] = 0
      /\ \A w \in Viewers : w # v => handler'[w] = handler[w] /\ hand'[w] = hand[w] /\ queue'[w] = queue[w]
  BY <1>1 DEF SharedInv, SharedTypes
<1>5. SharedTypes'
  <2>1. 0 \in Builds /\ <<>> \in Seq(Dashboards)
    BY SharedAssumption DEF SharedAssumption, Builds
  <2>. QED
    BY <1>1, <1>3, <2>1 DEF SharedInv, SharedTypes
<1>6. SharedIsCurrent' /\ LastGoodOnItsWay'
  BY <1>1, <1>2 DEF SharedInv, SharedIsCurrent, LastGoodOnItsWay, Payload
<1>7. Slots'
  <2>1. IsFiniteSet(clients') /\ Cardinality(clients') <= MaxClients
    <3>1. IsFiniteSet(clients) /\ Cardinality(clients) <= MaxClients /\ Cardinality(clients) \in Nat
      BY FS_CardinalityType DEF SharedInv, Slots
    <3>2. IsFiniteSet(clients \ {v}) /\ Cardinality(clients \ {v}) <= Cardinality(clients)
      BY <3>1, FS_Subset
    <3>3. Cardinality(clients \ {v}) \in Nat
      BY <3>2, FS_CardinalityType
    <3>. QED
      BY <1>1, <3>1, <3>2, <3>3, SharedAssumption DEF SharedAssumption
  <2>2. \A w \in Viewers : w \in clients' <=> (handler'[w] # "off" /\ ~closed'[w])
    BY <1>1, <1>3, <1>4 DEF SharedInv, Slots
  <2>. QED
    BY <2>1, <2>2 DEF Slots
<1>8. Streams'
  BY <1>1, <1>3, <1>4 DEF SharedInv, Streams
<1>9. NewsOnItsWay'
  <2>. SUFFICES ASSUME NEW w \in Viewers, Receiving(w)'
                PROVE  LastFrame(w)' >= settled \/ \E p \in Publishers : Reaches(p, w)'
    BY <1>1 DEF NewsOnItsWay
  <2>1. w # v
    BY <1>4 DEF Receiving
  <2>2. Receiving(w) /\ LastFrame(w)' = LastFrame(w)
    BY <1>1, <1>3, <1>4, <2>1 DEF Receiving, LastFrame
  <2>3. ASSUME NEW p \in Publishers, Reaches(p, w) PROVE Reaches(p, w)'
    <3>1. publish'[p] = publish[p] /\ (w \in targets[p] => w \in targets'[p])
      BY <1>1, <2>1
    <3>. QED
      BY <2>3, <3>1 DEF Reaches
  <2>. QED
    BY <2>2, <2>3 DEF SharedInv, NewsOnItsWay
<1>. QED
  BY <1>5, <1>6, <1>7, <1>8, <1>9 DEF SharedInv

LEMMA SharedRestartInv == ASSUME SharedInv, SharedRestart PROVE SharedInv'
<1>1. 0 \in Builds /\ <<>> \in Seq(Dashboards)
      /\ Resting \in [at : {"idle", "file", "copy", "offer"}, dashboard : Builds] /\ Resting.at = "idle"
  BY SharedAssumption DEF SharedAssumption, Builds, Resting
<1>2. SharedTypes'
  BY <1>1 DEF SharedRestart, SharedInv, SharedTypes
<1>3. \A p \in Publishers : publish'[p].at = "idle" /\ targets'[p] = {}
  BY <1>1 DEF SharedRestart
<1>4. SharedIsCurrent' /\ LastGoodOnItsWay'
  BY <1>3 DEF SharedRestart, SharedIsCurrent, LastGoodOnItsWay, Payload, SharedInv, SharedTypes, Builds
<1>5. Slots'
  BY FS_EmptySet, SharedAssumption DEF SharedAssumption, SharedRestart, Slots
<1>6. Streams'
  BY <1>3 DEF SharedRestart, Streams
<1>7. NewsOnItsWay'
  BY DEF SharedRestart, NewsOnItsWay, Receiving
<1>. QED
  BY <1>2, <1>4, <1>5, <1>6, <1>7 DEF SharedInv

LEMMA SharedStepInv == SharedInv /\ [SharedNext]_sharedVars => SharedInv'
<1>1. ASSUME SharedInv, UNCHANGED sharedVars PROVE SharedInv'
  <2>. USE <1>1 DEF sharedVars
  <2>1. SharedTypes' /\ SharedIsCurrent' /\ LastGoodOnItsWay'
    BY DEF SharedInv, SharedTypes, SharedIsCurrent, LastGoodOnItsWay, Payload
  <2>2. Slots' /\ Streams'
    BY DEF SharedInv, Slots, Streams
  <2>3. NewsOnItsWay'
    BY DEF SharedInv, NewsOnItsWay, Receiving, LastFrame, Reaches
  <2>. QED
    BY <2>1, <2>2, <2>3 DEF SharedInv
<1>. QED
  BY <1>1, ShareInv, ShareStaleInv, WriteLastGoodInv, CopyClientsInv, PublishedInv, OfferInv, ConnectInv, FirstFrameInv,
     WrittenInv, NextFrameInv, LeaveInv, SharedRestartInv DEF SharedNext, Publish, Serving

\* However publications overlap, and whenever a page connects, falls behind
\* and comes back, one that has taken its frames shows what was settled.
THEOREM ViewersKeepUpHolds == SharedSpec => []ViewersKeepUp
<1>1. SharedInv => ViewersKeepUp
  <2>. SUFFICES ASSUME SharedInv, NothingUnderWay, NEW v \in Viewers,
                       handler[v] = "waiting", ~closed[v], queue[v] = <<>>
                PROVE  shown[v] >= settled
    BY DEF ViewersKeepUp
  <2>1. Receiving(v) /\ LastFrame(v) = shown[v]
    BY DEF SharedInv, Streams, Receiving, LastFrame
  <2>2. \A p \in Publishers : ~Reaches(p, v)
    BY DEF NothingUnderWay, Reaches
  <2>. QED
    BY <2>1, <2>2 DEF SharedInv, NewsOnItsWay
<1>. QED
  BY <1>1, SharedInitInv, SharedStepInv, PTL DEF SharedSpec

\* The last good file is as recent as what was published good, but for a write
\* that failed.
THEOREM LastGoodKeepsUpHolds == SharedSpec => []LastGoodKeepsUp
<1>1. SharedInv => LastGoodKeepsUp
  BY DEF SharedInv, LastGoodOnItsWay, LastGoodKeepsUp, NothingUnderWay
<1>. QED
  BY <1>1, SharedInitInv, SharedStepInv, PTL DEF SharedSpec

\* The state of the shared dashboard and its viewers keeps its types.
THEOREM SharedTypeCorrect == SharedSpec => []SharedTypeOK
<1>. DEFINE Flag == unwritten \in BOOLEAN
<1>1. SharedInit => Flag
  BY DEF SharedInit
<1>2. Flag /\ [SharedNext]_sharedVars => Flag'
  <2>. SUFFICES ASSUME Flag, [SharedNext]_sharedVars PROVE unwritten' = unwritten \/ unwritten' \in BOOLEAN
    OBVIOUS
  <2>1. CASE UNCHANGED sharedVars
    BY <2>1 DEF sharedVars
  <2>2. ASSUME NEW p \in Publishers, Share(p) \/ ShareStale(p) \/ Publish(p)
        PROVE  unwritten' = unwritten \/ unwritten' \in BOOLEAN
    BY <2>2 DEF Share, ShareStale, Publish, WriteLastGood, CopyClients, Offer, Published
  <2>3. ASSUME NEW v \in Viewers, Connect(v) \/ Serving(v)
        PROVE  unwritten' = unwritten
    BY <2>3 DEF Connect, Serving, FirstFrame, Written, NextFrame, Leave
  <2>. QED
    BY <2>1, <2>2, <2>3 DEF SharedNext, SharedRestart
<1>3. SharedInv /\ Flag => SharedTypeOK
  <2>. SUFFICES ASSUME SharedInv, Flag PROVE SharedTypeOK
    OBVIOUS
  <2>1. queue \in [Viewers -> Seq(Builds)]
    <3>1. queue \in [Viewers -> Seq(Dashboards)] /\ \A d \in Dashboards : d \in Builds
      BY SharedAssumption DEF SharedInv, SharedTypes, SharedAssumption, Dashboards, Builds
    <3>2. \A q \in Seq(Dashboards) : q \in Seq(Builds)
      BY <3>1
    <3>. QED
      BY <3>1, <3>2
  <2>. QED
    BY <2>1 DEF SharedInv, SharedTypes, SharedTypeOK
<1>. QED
  BY <1>1, <1>2, <1>3, SharedInitInv, SharedStepInv, PTL DEF SharedSpec

\* The cap on streams holds, and every slot taken is a stream being served.
THEOREM SlotsAreServedHolds == SharedSpec => []SlotsAreServed
<1>1. SharedInv => SlotsAreServed
  BY DEF SharedInv, SharedTypes, Slots, SlotsAreServed
<1>. QED
  BY <1>1, SharedInitInv, SharedStepInv, PTL DEF SharedSpec

-----------------------------------------------------------------------------
(* The stream of a viewer implements ViewerStream.                         *)

\* What the abstract stream's variables are here.
Open == {v \in Viewers : handler[v] # "off"}
Fresh == {v \in Viewers : handler[v] = "joined"}
Dropped == {v \in Viewers : closed[v]}
InHand(v) == IF hand[v] = 0 THEN <<>> ELSE <<hand[v]>>
Pending == [v \in Viewers |-> InHand(v) \o queue[v]]

StreamSteps == [Stream!StreamNext]_(Stream!streamVars)

LEMMA PendingIsSequence ==
  ASSUME SharedInv, NEW v \in Viewers
  PROVE  /\ InHand(v) \in Seq(Dashboards) /\ Len(InHand(v)) \in 0 .. 1
         /\ queue[v] \in Seq(Dashboards) /\ Pending[v] = InHand(v) \o queue[v]
         /\ Pending[v] \in Seq(Dashboards) /\ Len(Pending[v]) = Len(InHand(v)) + Len(queue[v])
<1>1. hand[v] \in Builds /\ queue[v] \in Seq(Dashboards)
  BY DEF SharedInv, SharedTypes
<1>2. InHand(v) \in Seq(Dashboards) /\ Len(InHand(v)) \in 0 .. 1
  <2>1. CASE hand[v] = 0
    BY <2>1 DEF InHand
  <2>2. CASE hand[v] # 0
    <3>. DEFINE frame == hand[v]
    <3>1. frame \in Dashboards /\ InHand(v) = <<frame>>
      BY <1>1, <2>2 DEF InHand, Builds, Dashboards
    <3>. HIDE DEF frame
    <3>. QED
      BY <3>1
  <2>. QED
    BY <2>1, <2>2
<1>3. Pending[v] = InHand(v) \o queue[v]
  BY DEF Pending
<1>. QED
  BY <1>1, <1>2, <1>3, ConcatProperties

\* Only what is on its way to viewer v changes.
LEMMA PendingMoves ==
  ASSUME NEW v \in Viewers, NEW frames,
         \A w \in Viewers : w # v => hand'[w] = hand[w] /\ queue'[w] = queue[w],
         InHand(v)' \o queue'[v] = frames
  PROVE  Pending' = [Pending EXCEPT ![v] = frames]
BY DEF Pending, InHand

LEMMA OpenKept ==
  ASSUME handler' = handler
  PROVE  Open' = Open /\ Fresh' = Fresh
BY DEF Open, Fresh

LEMMA DroppedKept ==
  ASSUME closed' = closed
  PROVE  Dropped' = Dropped
BY DEF Dropped

\* The steps of a publication up to its offers are no steps of a stream.
LEMMA PublicationStutters ==
  ASSUME UNCHANGED viewerVars
  PROVE  UNCHANGED (Stream!streamVars)
BY DEF viewerVars, Stream!streamVars

LEMMA OfferStreams ==
  ASSUME SharedInv, NEW p \in Publishers, NEW v \in Viewers, Offer(p, v)
  PROVE  Stream!Send(v) \/ Stream!Cut(v)
<1>. DEFINE full == closed[v] \/ Len(queue[v]) >= Limit
            frame == publish[p].dashboard
<1>1. /\ publish[p].at = "offer" /\ v \in targets[p] /\ UNCHANGED <<handler, hand, shown>>
      /\ queue' = [queue EXCEPT ![v] = IF full THEN <<>> ELSE Append(queue[v], frame)]
      /\ closed' = [closed EXCEPT ![v] = full]
  BY DEF Offer
<1>2. v \in Open /\ Open' = Open /\ Fresh' = Fresh
  BY <1>1, OpenKept DEF SharedInv, Streams, Open
<1>3. frame \in Dashboards
  BY <1>1 DEF SharedInv, SharedIsCurrent
<1>4. queue'[v] = (IF full THEN <<>> ELSE Append(queue[v], frame)) /\ InHand(v)' = InHand(v)
      /\ \A w \in Viewers : w # v => hand'[w] = hand[w] /\ queue'[w] = queue[w]
  BY <1>1 DEF SharedInv, SharedTypes, InHand
<1>5. CASE full
  <2>. DEFINE n == Len(InHand(v))
  <2>1. n \in 0 .. 1 /\ n <= Len(Pending[v])
    BY PendingIsSequence, LenProperties
  <2>2. SubSeq(Pending[v], 1, n) = InHand(v)
    BY PendingIsSequence, SubSeqOfConcat1, SubSeqFull
  <2>3. InHand(v)' \o queue'[v] = InHand(v)
    BY <1>4, <1>5, PendingIsSequence, ConcatEmptySeq
  <2>4. Pending' = [Pending EXCEPT ![v] = InHand(v)]
    BY <1>4, <2>3, PendingMoves
  <2>5. Pending' = [Pending EXCEPT ![v] = SubSeq(Pending[v], 1, n)]
    BY <2>2, <2>4
  <2>6. Dropped' = Dropped \cup {v}
    BY <1>1, <1>5 DEF Dropped, SharedInv, SharedTypes
  <2>. HIDE DEF n
  <2>. QED
    BY <1>1, <1>2, <2>1, <2>5, <2>6 DEF Stream!Cut, Open, Fresh, Dropped, Pending, InHand
<1>6. CASE ~full
  <2>1. Len(Pending[v]) <= Limit
    BY <1>6, PendingIsSequence, LenProperties, SharedAssumption DEF SharedAssumption
  <2>2. InHand(v)' \o queue'[v] = Append(Pending[v], frame)
    <3>. HIDE DEF frame, full
    <3>1. InHand(v) \o Append(queue[v], frame) = Append(InHand(v) \o queue[v], frame)
      BY <1>3, PendingIsSequence, AppendIsConcat, ConcatAssociative, ConcatProperties
    <3>. QED
      BY <1>4, <1>6, <3>1, PendingIsSequence
  <2>3. Pending' = [Pending EXCEPT ![v] = Append(Pending[v], frame)]
    BY <1>4, <2>2, PendingMoves
  <2>4. v \notin Dropped /\ Dropped' = Dropped
    BY <1>1, <1>6 DEF Dropped, SharedInv, SharedTypes
  <2>. HIDE DEF frame
  <2>. QED
    BY <1>1, <1>2, <1>3, <2>1, <2>3, <2>4 DEF Stream!Send, Open, Fresh, Dropped, Pending, InHand, Dashboards
<1>. QED
  BY <1>5, <1>6

LEMMA ConnectStreams == ASSUME SharedInv, NEW v \in Viewers, Connect(v) PROVE Stream!Join(v)
<1>1. handler[v] = "off" /\ handler' = [handler EXCEPT ![v] = "joined"] /\ UNCHANGED <<hand, queue, closed, shown>>
  BY DEF Connect
<1>2. v \notin Open /\ Open' = Open \cup {v} /\ Fresh' = Fresh \cup {v}
  BY <1>1 DEF Open, Fresh, SharedInv, SharedTypes
<1>3. Pending' = Pending
  BY <1>1 DEF Pending, InHand
<1>. QED
  BY <1>1, <1>2, <1>3 DEF Stream!Join, Open, Fresh, Dropped, Pending, InHand

LEMMA FirstFrameStreams == ASSUME SharedInv, NEW v \in Viewers, FirstFrame(v) PROVE Stream!First(v)
<1>1. /\ handler[v] = "joined" /\ handler' = [handler EXCEPT ![v] = "writing"]
      /\ hand' = [hand EXCEPT ![v] = Payload] /\ UNCHANGED <<queue, closed, shown>>
  BY DEF FirstFrame
<1>2. v \in Fresh /\ Open' = Open /\ Fresh' = Fresh \ {v}
  BY <1>1 DEF Open, Fresh, SharedInv, SharedTypes
<1>3. /\ hand[v] = 0 /\ hand'[v] = Payload /\ Payload \in Builds
      /\ \A w \in Viewers : w # v => hand'[w] = hand[w] /\ queue'[w] = queue[w]
  BY <1>1 DEF SharedInv, SharedTypes, Streams, Payload
<1>4. Pending[v] = queue[v] /\ queue'[v] = queue[v] /\ queue[v] \in Seq(Dashboards)
  BY <1>1, <1>3, PendingIsSequence, ConcatEmptySeq DEF InHand
<1>5. CASE Payload = 0
  <2>1. hand' = hand
    BY <1>1, <1>3, <1>5 DEF SharedInv, SharedTypes
  <2>2. Pending' = Pending
    BY <1>1, <2>1 DEF Pending, InHand
  <2>. QED
    BY <1>1, <1>2, <2>2 DEF Stream!First, Open, Fresh, Dropped, Pending, InHand
<1>6. CASE Payload # 0
  <2>1. Payload \in Dashboards
    BY <1>3, <1>6 DEF Builds, Dashboards
  <2>2. InHand(v)' \o queue'[v] = <<Payload>> \o Pending[v]
    BY <1>3, <1>4, <1>6 DEF InHand
  <2>3. Pending' = [Pending EXCEPT ![v] = <<Payload>> \o Pending[v]]
    BY <1>3, <2>2, PendingMoves
  <2>4. \E f \in Dashboards : Pending' = [Pending EXCEPT ![v] = <<f>> \o Pending[v]]
    BY <2>1, <2>3
  <2>. QED
    BY <1>1, <1>2, <2>4 DEF Stream!First, Open, Fresh, Dropped, Pending, InHand, Dashboards
<1>. QED
  BY <1>5, <1>6

\* The write that returns delivers what the thread held; a heartbeat nothing.
LEMMA WrittenStreams ==
  ASSUME SharedInv, NEW v \in Viewers, Written(v)
  PROVE  Stream!Deliver(v) \/ UNCHANGED (Stream!streamVars)
<1>1. /\ handler[v] = "writing" /\ handler' = [handler EXCEPT ![v] = "waiting"]
      /\ hand' = [hand EXCEPT ![v] = 0] /\ UNCHANGED <<queue, closed>>
      /\ shown' = [shown EXCEPT ![v] = IF hand[v] = 0 THEN shown[v] ELSE hand[v]]
  BY DEF Written
<1>2. v \in Open \ Fresh /\ Open' = Open /\ Fresh' = Fresh
  BY <1>1 DEF Open, Fresh, SharedInv, SharedTypes
<1>3. CASE hand[v] = 0
  <2>1. hand' = hand /\ shown' = shown
    BY <1>1, <1>3 DEF SharedInv, SharedTypes
  <2>2. Pending' = Pending
    BY <1>1, <2>1 DEF Pending, InHand
  <2>. QED
    BY <1>1, <1>2, <2>1, <2>2, DroppedKept DEF Stream!streamVars, Open, Fresh, Dropped, Pending, InHand
<1>4. CASE hand[v] # 0
  <2>. DEFINE frame == hand[v]
              rest == queue[v]
  <2>1. frame \in Dashboards /\ rest \in Seq(Dashboards) /\ Pending[v] = <<frame>> \o rest
    BY <1>4 DEF SharedInv, SharedTypes, Builds, Dashboards, Pending, InHand
  <2>2. Pending[v] # <<>> /\ Head(Pending[v]) = frame /\ Tail(Pending[v]) = rest
    <3>. HIDE DEF frame, rest
    <3>. DEFINE whole == <<frame>> \o rest
    <3>1. <<frame>> \in Seq(Dashboards) /\ Len(<<frame>>) = 1 /\ <<frame>>[1] = frame
      BY <2>1
    <3>2. /\ whole \in Seq(Dashboards) /\ Len(whole) = Len(rest) + 1 /\ whole[1] = frame
          /\ \A i \in 1 .. Len(rest) : whole[i + 1] = rest[i]
      BY <2>1, <3>1, ConcatProperties, LenProperties
    <3>3. whole # <<>> /\ Head(whole) = frame
      BY <2>1, <3>2, LenProperties
    <3>4. Tail(whole) \in Seq(Dashboards) /\ Len(Tail(whole)) = Len(rest)
          /\ \A i \in 1 .. Len(rest) : Tail(whole)[i] = rest[i]
      BY <2>1, <3>2, <3>3, HeadTailProperties, LenProperties
    <3>. HIDE DEF whole
    <3>5. Tail(whole) = rest
      BY <2>1, <3>4, SeqEqual
    <3>. QED
      BY <2>1, <3>3, <3>5 DEF whole
  <2>3. hand'[v] = 0 /\ queue'[v] = rest /\ shown' = [shown EXCEPT ![v] = frame]
        /\ \A w \in Viewers : w # v => hand'[w] = hand[w] /\ queue'[w] = queue[w]
    BY <1>1, <1>4, SharedAssumption DEF SharedInv, SharedTypes
  <2>4. InHand(v)' \o queue'[v] = Tail(Pending[v])
    BY <2>1, <2>2, <2>3, ConcatEmptySeq DEF InHand
  <2>5. Pending' = [Pending EXCEPT ![v] = Tail(Pending[v])]
    BY <2>3, <2>4, PendingMoves
  <2>6. shown' = [shown EXCEPT ![v] = Head(Pending[v])]
    BY <2>2, <2>3
  <2>. HIDE DEF frame, rest
  <2>. QED
    BY <1>1, <1>2, <2>2, <2>5, <2>6, DroppedKept DEF Stream!Deliver, Open, Fresh, Dropped, Pending, InHand
<1>. QED
  BY <1>3, <1>4

\* A frame that moves from the queue into the thread's hand is still pending.
LEMMA NextFrameStreams ==
  ASSUME SharedInv, NEW v \in Viewers, NextFrame(v)
  PROVE  UNCHANGED (Stream!streamVars)
<1>. DEFINE frames == queue[v]
<1>1. /\ handler[v] = "waiting" /\ handler' = [handler EXCEPT ![v] = "writing"] /\ hand[v] = 0
      /\ hand' = [hand EXCEPT ![v] = IF frames = <<>> THEN 0 ELSE Head(frames)]
      /\ queue' = [queue EXCEPT ![v] = IF frames = <<>> THEN frames ELSE Tail(frames)]
      /\ UNCHANGED <<closed, shown>>
  BY DEF NextFrame, SharedInv, Streams
<1>2. Open' = Open /\ Fresh' = Fresh
  BY <1>1 DEF Open, Fresh, SharedInv, SharedTypes
<1>3. frames \in Seq(Dashboards) /\ Pending[v] = frames
  BY <1>1, PendingIsSequence, ConcatEmptySeq DEF InHand
<1>4. Pending' = Pending
  <2>1. CASE frames = <<>>
    <3>1. hand' = hand /\ queue' = queue
      BY <1>1, <2>1 DEF SharedInv, SharedTypes
    <3>. QED
      BY <3>1 DEF Pending, InHand
  <2>2. CASE frames # <<>>
    <3>. DEFINE first == Head(frames)
                rest == Tail(frames)
    <3>1. first \in Dashboards /\ rest \in Seq(Dashboards)
      BY <1>3, <2>2, HeadTailProperties
    <3>2. <<first>> \o rest = frames
      BY <1>3, <2>2, <3>1
    <3>3. first # 0 /\ hand' = [hand EXCEPT ![v] = first] /\ queue' = [queue EXCEPT ![v] = rest]
      BY <1>1, <2>2, <3>1 DEF Dashboards
    <3>. HIDE DEF first, rest
    <3>4. /\ hand'[v] = first /\ queue'[v] = rest
          /\ \A w \in Viewers : w # v => hand'[w] = hand[w] /\ queue'[w] = queue[w]
      BY <3>3 DEF SharedInv, SharedTypes
    <3>5. InHand(v)' \o queue'[v] = Pending[v]
      BY <1>3, <3>2, <3>3, <3>4 DEF InHand
    <3>6. Pending' = [Pending EXCEPT ![v] = Pending[v]]
      BY <3>4, <3>5, PendingMoves
    <3>. QED
      BY <3>6 DEF Pending
  <2>. QED
    BY <2>1, <2>2
<1>. QED
  BY <1>1, <1>2, <1>4, DroppedKept DEF Stream!streamVars, Open, Fresh, Dropped, Pending, InHand

LEMMA LeaveStreams == ASSUME SharedInv, NEW v \in Viewers, Leave(v) PROVE Stream!End({v})
<1>1. /\ handler' = [handler EXCEPT ![v] = "off"] /\ hand' = [hand EXCEPT ![v] = 0]
      /\ queue' = [queue EXCEPT ![v] = <<>>] /\ closed' = [closed EXCEPT ![v] = FALSE]
      /\ UNCHANGED shown
  BY DEF Leave
<1>2. Open' = Open \ {v} /\ Fresh' = Fresh \ {v} /\ Dropped' = Dropped \ {v}
  BY <1>1 DEF Open, Fresh, Dropped, SharedInv, SharedTypes
<1>3. /\ hand'[v] = 0 /\ queue'[v] = <<>>
      /\ \A w \in Viewers : w # v => hand'[w] = hand[w] /\ queue'[w] = queue[w]
  BY <1>1 DEF SharedInv, SharedTypes
<1>4. InHand(v)' \o queue'[v] = <<>>
  BY <1>3 DEF InHand
<1>5. Pending' = [w \in Viewers |-> IF w \in {v} THEN <<>> ELSE Pending[w]]
  BY <1>3, <1>4 DEF Pending, InHand
<1>. QED
  BY <1>1, <1>2, <1>5 DEF Stream!End, Open, Fresh, Dropped, Pending, InHand

LEMMA RestartStreams == ASSUME SharedRestart PROVE Stream!End(Viewers)
<1>1. /\ handler' = [v \in Viewers |-> "off"] /\ hand' = [v \in Viewers |-> 0]
      /\ queue' = [v \in Viewers |-> <<>>] /\ closed' = [v \in Viewers |-> FALSE]
      /\ UNCHANGED shown
  BY DEF SharedRestart
<1>2. Open' = Open \ Viewers /\ Fresh' = Fresh \ Viewers /\ Dropped' = Dropped \ Viewers
  BY <1>1 DEF Open, Fresh, Dropped
<1>3. Pending' = [w \in Viewers |-> IF w \in Viewers THEN <<>> ELSE Pending[w]]
  BY <1>1 DEF Pending, InHand
<1>. QED
  BY <1>1, <1>2, <1>3 DEF Stream!End, Open, Fresh, Dropped, Pending, InHand

\* Whatever publishers and viewers do, what a viewer receives is a stream as
\* ViewerStream promises it: nothing lost, repeated or out of order until the
\* stream is cut, nothing queued once it is, and never more than the limit kept
\* for it.
THEOREM ImplementsViewerStreamHolds == SharedSpec => ImplementsViewerStream
<1>1. SharedInit => Stream!StreamInit
  BY DEF SharedInit, Stream!StreamInit
<1>2. SharedInv /\ [SharedNext]_sharedVars => StreamSteps
  <2>. SUFFICES ASSUME SharedInv, [SharedNext]_sharedVars PROVE StreamSteps
    OBVIOUS
  <2>. USE DEF StreamSteps, Stream!StreamNext
  <2>1. CASE UNCHANGED sharedVars
    BY <2>1 DEF sharedVars, Stream!streamVars
  <2>2. ASSUME NEW p \in Publishers,
               Share(p) \/ ShareStale(p) \/ WriteLastGood(p) \/ CopyClients(p) \/ Published(p)
        PROVE  StreamSteps
    BY <2>2, PublicationStutters DEF Share, ShareStale, WriteLastGood, CopyClients, Published
  <2>3. ASSUME NEW p \in Publishers, NEW v \in Viewers, Offer(p, v) PROVE StreamSteps
    BY <2>3, OfferStreams
  <2>4. ASSUME NEW v \in Viewers, Connect(v) PROVE StreamSteps
    BY <2>4, ConnectStreams
  <2>5. ASSUME NEW v \in Viewers, Serving(v) PROVE StreamSteps
    BY <2>5, FirstFrameStreams, WrittenStreams, NextFrameStreams, LeaveStreams DEF Serving
  <2>6. CASE SharedRestart
    BY <2>6, RestartStreams
  <2>. QED
    BY <2>1, <2>2, <2>3, <2>4, <2>5, <2>6 DEF SharedNext, Publish
<1>. QED
  BY <1>1, <1>2, SharedInitInv, SharedStepInv, PTL
     DEF SharedSpec, ImplementsViewerStream, Stream!StreamSpec, StreamSteps
=============================================================================
