------------------------------- MODULE MCStores -------------------------------
(***************************************************************************)
(* Instances of the modules of what the service keeps between requests:    *)
(* dashboard sessions, connection profiles and the SMTP passwords.  Their  *)
(* machines share no state here, so a behaviour is one of them.            *)
(***************************************************************************)
EXTENDS DashboardSessions, StoredPasswords, SmtpPasswords, TLC

CONSTANTS
    Stores,     \* what the instance looks at
    w1, w2, day, week, s1, s2

VARIABLE store

storesVars == <<store, sessionVars, passwordVars, smtpVars>>

MCWorkers == {w1, w2}
MCRanges == {day, week}
MCServers == {s1, s2}
MCSymmetry == Permutations(MCWorkers)

\* A machine that is not looked at stays where it happens to start.
StoresInit ==
    /\ store \in Stores
    /\ SessionsInit /\ PasswordsInit /\ SmtpInit
    /\ store # "profiles" => keyFile.key = 0 /\ \A n \in ProfileNames : profiles[n] = Unset
    /\ store # "email" => config.server = s1

StoresNext ==
    /\ UNCHANGED store
    /\ \/ store = "sessions" /\ SessionsNext /\ UNCHANGED <<passwordVars, smtpVars>>
       \/ store = "profiles" /\ PasswordsNext /\ UNCHANGED <<sessionVars, smtpVars>>
       \/ store = "email" /\ SmtpNext /\ UNCHANGED <<sessionVars, passwordVars>>

\* What the invariants and the steps still read: not the ghost of
\* RangeFollowsLastChoice, nor the range of an object nobody has any more.
InUse(o) == (\E i \in Ids : registry[i] = o) \/ (\E w \in Workers : job[w].object = o)
StoredState == <<store, registry, made, [o \in Objects |-> IF InUse(o) THEN range[o] ELSE DefaultRange],
                 records, saving, toRestore, held, job, cache, chosen, report, purged, passwordVars, smtpVars>>

StoresSpec == StoresInit /\ [][StoresNext]_storesVars
=============================================================================
