---------------------------- MODULE RestFallback ----------------------------
(***************************************************************************)
(* How the jobs database is asked (nwui.py, restapi.py).  NWUI mode tries  *)
(* the NetWorker server and the API host, each with the versions of the    *)
(* REST API; REST mode has one of each.  A NetWorker that does not know a  *)
(* field answers HTTP 400 naming it, and is asked again without it.  (The  *)
(* loop would drop a time filter too; none of its paths carries one.)      *)
(***************************************************************************)
EXTENDS Integers, FiniteSets

CONSTANTS
    MaxEndpoints,   \* endpoints tried: hosts times versions
    Fields          \* JOB_QUERY_FIELDS

ASSUME FallbackAssumption == MaxEndpoints \in Nat \ {0}

VARIABLES
    last,       \* the number of endpoints this query has
    serves,     \* the endpoints that have the REST API and accept the password
    unknown,    \* per endpoint: the fields its NetWorker does not know
    missed,     \* the endpoints that could not be reached when asked
    endpoint, fields, removed,      \* the locals of the loops
    state       \* "asking", "answered" or "failed"

fallbackVars == <<last, serves, unknown, missed, endpoint, fields, removed, state>>

Endpoints == 1..MaxEndpoints

FallbackInit ==
    /\ last \in Endpoints
    /\ serves \in SUBSET (1..last)
    /\ unknown \in [1..last -> SUBSET Fields]
    /\ missed = {} /\ endpoint = 1 /\ fields = Fields /\ removed = {} /\ state = "asking"

\* Faulty variant: the next endpoint is asked without the removed fields.
TryNextReduced ==
    /\ IF endpoint < last THEN endpoint' = endpoint + 1 /\ UNCHANGED state
       ELSE state' = "failed" /\ UNCHANGED endpoint
    /\ UNCHANGED <<fields, removed>>

\* Another error: the next endpoint is asked, for all the fields.
TryNext ==
    /\ IF endpoint < last THEN endpoint' = endpoint + 1 /\ fields' = Fields /\ removed' = {} /\ UNCHANGED state
       ELSE state' = "failed" /\ UNCHANGED <<endpoint, fields, removed>>

Answered ==
    /\ state = "asking" /\ endpoint \in serves /\ fields \cap unknown[endpoint] = {}
    /\ state' = "answered"
    /\ UNCHANGED <<last, serves, unknown, missed, endpoint, fields, removed>>

\* HTTP 400 naming a field: asked again without it.
FieldRefused ==
    /\ state = "asking" /\ endpoint \in serves
    /\ \E f \in fields \cap unknown[endpoint] :
          fields' = fields \ {f} /\ removed' = removed \cup {f}
    /\ UNCHANGED <<last, serves, unknown, missed, endpoint, state>>

\* Any other error: an old version, a refused sign-in, too large an answer.
Refused == state = "asking" /\ endpoint \notin serves /\ TryNext /\ UNCHANGED <<last, serves, unknown, missed>>

\* The network fails.
Missed ==
    /\ state = "asking" /\ endpoint \in serves
    /\ missed' = missed \cup {endpoint} /\ TryNext
    /\ UNCHANGED <<last, serves, unknown>>

FallbackNext == Answered \/ FieldRefused \/ Refused \/ Missed
FallbackSpec == FallbackInit /\ [][FallbackNext]_fallbackVars

-----------------------------------------------------------------------------
\* The first endpoint that serves and can be reached answers, with every field
\* it knows: the search gives up only when none would, and no endpoint's gaps
\* are carried over to the next.
FallbackAnswers ==
    /\ state = "failed" => serves \subseteq missed
    /\ state = "answered" => /\ fields = Fields \ unknown[endpoint]
                             /\ serves \cap 1..(endpoint - 1) \subseteq missed
=============================================================================
