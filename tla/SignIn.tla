------------------------------- MODULE SignIn -------------------------------
(***************************************************************************)
(* Signing in to the dashboard and its admin console: the table of logins  *)
(* and its file (auth._LoginSessions), the admin window of each login, the *)
(* limit on failed guesses, the first password and password changes, as    *)
(* server.py's handler threads run them.  The checks a request makes and   *)
(* what it does with their answer are different steps.  What it does with  *)
(* the answer is one, over several lock takes: SignedIn clears the failures*)
(* (a lock of their own), issues the login and opens its admin window, and *)
(* Unlocked clears the failures and opens the window.  The failures are    *)
(* read by the limit alone, and a login that has ended in between is not   *)
(* given a window.                                                         *)
(*                                                                         *)
(* One client address (the limit is kept per address).  Login ids are      *)
(* random in the code; here 1, 2, ... in the order they are issued.  A     *)
(* password is the number of times one was set, 0 for none.  The clock     *)
(* counts units that UnlockSeconds, Window and Ttl are multiples of.       *)
(* Expired entries, which the code deletes the next time it takes the      *)
(* table's lock, are kept and ignored (LiveLogins).                        *)
(***************************************************************************)
EXTENDS Naturals, FiniteSets, Sequences, Selections

CONSTANTS
    Threads,        \* the server's request threads
    MaxEntries,     \* _LoginSessions.MAX_ENTRIES
    MaxAttempts,    \* LOGIN_MAX_ATTEMPTS
    Window,         \* LOGIN_WINDOW_SECONDS
    Ttl,            \* AUTH_TTL_SECONDS
    UnlockSeconds,  \* ADMIN_UNLOCK_SECONDS
    InitialPasswords, \* passwords the service may be found with: 0 none, 1 one
    MaxLogins,      \* bound on the logins issued, for model checking only
    MaxPasswords,   \* bound on the passwords set, for model checking only
    MaxTime         \* bound on the clock, for model checking only

ASSUME SignInAssumption ==
    /\ IsFiniteSet(Threads) /\ MaxEntries \in Nat \ {0} /\ MaxAttempts \in Nat \ {0}
    /\ Window \in Nat \ {0} /\ Ttl \in Nat \ {0} /\ UnlockSeconds \in Nat \ {0}
    /\ InitialPasswords \subseteq {0, 1}
    /\ MaxLogins \in Nat /\ MaxPasswords \in Nat /\ MaxTime \in Nat

VARIABLES
    now,        \* time.time()
    enabled,    \* _cfg.AUTH_ENABLED: every viewer signs in
    password,   \* the password whose hash auth.json holds
    expiry,     \* _table: per login when it expires, 0 when not in the table
    saved,      \* the table as auth_sessions.json holds it
    adminUntil, \* _admin_until: per login when its admin window closes
    attempts,   \* LOGIN_ATTEMPTS of the address: when each failure was recorded
    issued,     \* logins issued so far
    request,    \* per thread: the request it serves and how far it got
    proof,      \* ghost: per login, the password it last proved
    ended,      \* ghost: logins ended by a sign-out, a revocation or a change
    undone,     \* ghost: ended logins the file still held when its save failed
    exempt,     \* ghost: logins a password change could not end (see OldLoginsEnd)
    locked      \* ghost: logins whose window was shut with no request under way

signInVars == <<now, enabled, password, expiry, saved, adminUntil, attempts, issued,
                request, proof, ended, undone, exempt, locked>>

tableVars == <<expiry, saved, issued, proof, ended, undone, exempt>>

Logins == 1 .. MaxLogins
Ops == {"none", "login", "unlock", "admin", "change", "first"}
Points == {"idle", "check", "wrong", "proved", "stored", "touch", "admitted"}
NoRequest == [op |-> "none", at |-> "idle", sid |-> 0, given |-> 0]

SignInTypeOK ==
    /\ now \in Nat /\ enabled \in BOOLEAN /\ password \in Nat /\ issued \in 0 .. MaxLogins
    /\ expiry \in [Logins -> Nat] /\ saved \in [Logins -> Nat] /\ adminUntil \in [Logins -> Nat]
    /\ attempts \in Seq(Nat)
    /\ request \in [Threads -> [op : Ops, at : Points, sid : 0 .. MaxLogins, given : Nat]]
    /\ proof \in [Logins -> Nat]
    /\ ended \subseteq Logins /\ undone \subseteq Logins
    /\ exempt \subseteq Logins /\ locked \subseteq Logins

SignInInit ==
    /\ now = 1 /\ password \in InitialPasswords /\ enabled = (password # 0) /\ issued = 0
    /\ expiry = [s \in Logins |-> 0] /\ saved = expiry /\ adminUntil = expiry
    /\ attempts = <<>>
    /\ request = [t \in Threads |-> NoRequest]
    /\ proof = [s \in Logins |-> 0]
    /\ ended = {} /\ undone = {} /\ exempt = {} /\ locked = {}

-----------------------------------------------------------------------------
\* The table of logins.

LiveLogins(s) == s \in Logins /\ expiry[s] > now
AdminOpen(s) == s \in Logins /\ adminUntil[s] > now /\ LiveLogins(s)

\* _save: the whole table replaces the file, or the write fails and the table
\* in memory carries on alone.
Save(table, over, ok) ==
    /\ saved' = IF ok THEN table ELSE saved
    /\ undone' = {s \in over : table[s] # 0 \/ (~ok /\ saved[s] # 0)}

\* Faulty variant: the file is not rewritten.
DiscardUnsaved(gone) ==
    /\ expiry' = [s \in Logins |-> IF s \in gone THEN 0 ELSE expiry[s]]
    /\ adminUntil' = [s \in Logins |-> IF s \in gone THEN 0 ELSE adminUntil[s]]
    /\ ended' = ended \cup gone
    /\ UNCHANGED <<saved, undone>>

\* discard and discard_all_except: the logins leave the table with their admin
\* windows; the file is written when any of them was there.
Discard(gone) ==
    /\ expiry' = [s \in Logins |-> IF s \in gone THEN 0 ELSE expiry[s]]
    /\ adminUntil' = [s \in Logins |-> IF s \in gone THEN 0 ELSE adminUntil[s]]
    /\ ended' = ended \cup gone
    /\ IF \E s \in gone : LiveLogins(s)
       THEN \E ok \in BOOLEAN : Save(expiry', ended', ok)
       ELSE UNCHANGED <<saved, undone>>

\* The table with login s in it, and above the cap without the oldest ones.
\* All logins live Ttl, so the least expiry is the earliest issued.
WithLogin(s) ==
    LET table == [expiry EXCEPT ![s] = now + Ttl]
        Kept(r) == /\ table[r] > now
                   /\ Cardinality({q \in Logins : q > r /\ table[q] > now}) < MaxEntries
    IN  [r \in Logins |-> IF Kept(r) THEN table[r] ELSE 0]

-----------------------------------------------------------------------------
\* The limit on failed guesses: one record per failure, each forgotten Window
\* after it was made.  Checking, recording and clearing each take the lock.

Recent == Select(attempts, {f \in 0 .. now : now - f < Window})

\* Faulty variant: one guess more.
LimitedLate == Len(Recent) > MaxAttempts

Limited == Len(Recent) >= MaxAttempts

Guessing == {t \in Threads : request[t].at \in {"check", "wrong"}}

\* _login_rate_limited lets the request go on to check what was typed.
PassLimit(t, op, s) ==
    /\ ~Limited
    /\ attempts' = Recent
    /\ request' = [request EXCEPT ![t] = [op |-> op, at |-> "check", sid |-> s, given |-> 0]]

\* POST /api/login, /api/admin/unlock (by a signed-in browser) and
\* /api/admin/setup (refused once a password is set).
BeginGuess(t, op, s) ==
    /\ request[t] = NoRequest
    /\ op = "login" => enabled /\ s = 0
    /\ op = "unlock" => enabled /\ LiveLogins(s)
    /\ op = "first" => ~enabled /\ s = 0
    /\ PassLimit(t, op, s)
    /\ UNCHANGED <<now, enabled, password, adminUntil, locked>> /\ UNCHANGED tableVars

\* The request of t gets to point at with a proof of password p.
Proving(t, at, p) == [request EXCEPT ![t].at = at, ![t].given = p]

\* verify_auth_password reads the file and hashes; for the first password
\* setup_code_ok compares the code, which is gone once sign-in is on.
CheckGuess(t) ==
    /\ request[t].at = "check"
    /\ \/ /\ request[t].op = "first" => ~enabled
          /\ request' = Proving(t, "proved", password)
       \/ request' = [request EXCEPT ![t].at = "wrong"]
    /\ UNCHANGED <<now, enabled, password, adminUntil, attempts, locked>> /\ UNCHANGED tableVars

\* _record_login_failure, and the request is refused.
RecordFailure(t) ==
    /\ request[t].at = "wrong"
    /\ attempts' = Append(Recent, now)
    /\ request' = [request EXCEPT ![t] = NoRequest]
    /\ UNCHANGED <<now, enabled, password, adminUntil, locked>> /\ UNCHANGED tableVars

-----------------------------------------------------------------------------
\* What a proved password is used for.

\* _make_auth_cookie: the new login is in the table, its file is written, and
\* a sign-in at the console opens its admin window at once.
IssueLogin(s, by, atConsole) ==
    /\ s = issued + 1 /\ s \in Logins
    /\ issued' = s
    /\ expiry' = WithLogin(s)
    /\ \E ok \in BOOLEAN : Save(expiry', ended, ok)
    /\ adminUntil' = [adminUntil EXCEPT ![s] = IF atConsole THEN now + UnlockSeconds ELSE 0]
    /\ proof' = [proof EXCEPT ![s] = by]
    /\ UNCHANGED ended

\* _handle_login after the check: failures cleared, login issued, and its admin
\* window opened if it signs in at the console.
SignedIn(t, atConsole) ==
    /\ request[t].op = "login" /\ request[t].at = "proved"
    /\ attempts' = <<>>
    /\ IssueLogin(issued + 1, request[t].given, atConsole)
    /\ exempt' = IF request[t].given = password THEN exempt ELSE exempt \cup {issued + 1}
    /\ request' = [request EXCEPT ![t] = NoRequest]
    /\ UNCHANGED <<now, enabled, password, locked>>

\* admin.unlock after the check: failures cleared, the window opened if the
\* login is still there.
Unlocked(t) ==
    LET s == request[t].sid IN
    /\ request[t].op = "unlock" /\ request[t].at = "proved"
    /\ attempts' = <<>>
    /\ adminUntil' = IF LiveLogins(s) THEN [adminUntil EXCEPT ![s] = now + UnlockSeconds] ELSE adminUntil
    /\ locked' = locked \ {s}
    /\ request' = [request EXCEPT ![t] = NoRequest]
    /\ UNCHANGED <<now, enabled, password>> /\ UNCHANGED tableVars

\* set_auth_password: the file holds the new hash.  For a first password the
\* code then turns sign-in on and drops the setup code.
StorePassword(t) ==
    /\ request[t].op \in {"change", "first"} /\ request[t].at = "proved"
    /\ password < MaxPasswords
    /\ password' = password + 1
    /\ request' = Proving(t, "stored", password + 1)
    /\ UNCHANGED <<now, enabled, adminUntil, attempts, locked>> /\ UNCHANGED tableVars

\* first_password, then _handle_first_password signs this browser in.
SignInEnabled(t) ==
    /\ request[t].op = "first" /\ request[t].at = "stored"
    /\ enabled' = TRUE
    /\ attempts' = <<>>
    /\ IssueLogin(issued + 1, request[t].given, TRUE)
    /\ exempt' = exempt \cup {s \in 1 .. issued + 1 : proof'[s] # password}
    /\ request' = [request EXCEPT ![t] = NoRequest]
    /\ UNCHANGED <<now, password, locked>>

\* Faulty variant: a password change ends no login.
EndNoLogins(t) ==
    /\ request[t].op = "change" /\ request[t].at = "stored"
    /\ proof' = [proof EXCEPT ![request[t].sid] = password]
    /\ request' = [request EXCEPT ![t] = NoRequest]
    /\ UNCHANGED <<now, enabled, password, attempts, adminUntil, expiry, saved, ended,
                   undone, exempt, issued, locked>>

\* change_password, after the new hash is stored: every other login is ended.
EndOtherLogins(t) ==
    LET keep == request[t].sid IN
    /\ request[t].op = "change" /\ request[t].at = "stored"
    /\ Discard({s \in Logins : LiveLogins(s) /\ s # keep})
    /\ proof' = [proof EXCEPT ![keep] = IF @ > request[t].given THEN @ ELSE request[t].given]
    /\ request' = [request EXCEPT ![t] = NoRequest]
    /\ UNCHANGED <<now, enabled, password, attempts, exempt, issued, locked>>

\* The new password is too short, or its file cannot be written: nothing done.
\* A route of the console that changes no login ends the same way.
GiveUp(t) ==
    /\ \/ request[t].op \in {"change", "first"} /\ request[t].at = "proved"
       \/ request[t].at = "admitted"
    /\ request' = [request EXCEPT ![t] = NoRequest]
    /\ UNCHANGED <<now, enabled, password, adminUntil, attempts, locked>> /\ UNCHANGED tableVars

-----------------------------------------------------------------------------
\* The admin console's requests.

\* Faulty variant: the window need not be open.
AdminGateSignedIn(t, s) ==
    /\ request[t] = NoRequest /\ enabled /\ LiveLogins(s)
    /\ request' = [request EXCEPT ![t] = [op |-> "admin", at |-> "touch", sid |-> s, given |-> 0]]
    /\ UNCHANGED <<now, enabled, password, adminUntil, attempts, locked>> /\ UNCHANGED tableVars

\* _admin_gate: the window must be open; touch_admin_window reads it once more.
AdminGate(t, s) ==
    /\ request[t] = NoRequest /\ enabled /\ AdminOpen(s)
    /\ request' = [request EXCEPT ![t] = [op |-> "admin", at |-> "touch", sid |-> s, given |-> 0]]
    /\ UNCHANGED <<now, enabled, password, adminUntil, attempts, locked>> /\ UNCHANGED tableVars

\* ... and then extends it, unless the login has ended.
ExtendWindow(t) ==
    LET s == request[t].sid IN
    /\ request[t].at = "touch"
    /\ adminUntil' = IF LiveLogins(s) THEN [adminUntil EXCEPT ![s] = now + UnlockSeconds] ELSE adminUntil
    /\ request' = [request EXCEPT ![t].at = "admitted"]
    /\ UNCHANGED <<now, enabled, password, attempts, locked>> /\ UNCHANGED tableVars

\* sessions/revoke names one other login, sessions/revoke-others all of them.
Revoke(t) ==
    /\ request[t].at = "admitted"
    /\ \E gone \in {{s} : s \in Logins \ {request[t].sid}} \cup {{s \in Logins : s # request[t].sid}} :
           (\E s \in gone : LiveLogins(s)) /\ Discard({s \in gone : LiveLogins(s)})
    /\ request' = [request EXCEPT ![t] = NoRequest]
    /\ UNCHANGED <<now, enabled, password, attempts, issued, proof, exempt, locked>>

\* The password route checks the limit before the current password.
BeginChange(t) ==
    /\ request[t].at = "admitted"
    /\ PassLimit(t, "change", request[t].sid)
    /\ UNCHANGED <<now, enabled, password, adminUntil, locked>> /\ UNCHANGED tableVars

\* Logout needs no more than the cookie.
SignOut(s) ==
    /\ LiveLogins(s)
    /\ Discard({s})
    /\ UNCHANGED <<now, enabled, password, attempts, request, issued, proof, exempt, locked>>

\* The Lock button: lock_admin.
LockAdmin(s) ==
    /\ LiveLogins(s)
    /\ adminUntil' = [adminUntil EXCEPT ![s] = 0]
    /\ locked' = IF \E t \in Threads : request[t].sid = s THEN locked ELSE locked \cup {s}
    /\ UNCHANGED <<now, enabled, password, attempts, request>> /\ UNCHANGED tableVars

Tick ==
    /\ now < MaxTime
    /\ now' = now + 1
    /\ UNCHANGED <<enabled, password, adminUntil, attempts, request, locked>> /\ UNCHANGED tableVars

\* The service is restarted, or dies: run() reads the password file, the table
\* is loaded from its file, windows and failures start empty.  A change or a
\* sign-out under way is cut short.
Restart ==
    /\ request' = [t \in Threads |-> NoRequest]
    /\ enabled' = (password # 0)
    /\ expiry' = saved
    /\ adminUntil' = [s \in Logins |-> 0]
    /\ attempts' = <<>>
    /\ exempt' = {s \in Logins : saved[s] # 0 /\ proof[s] # password}
    /\ locked' = {s \in Logins : s <= issued}
    /\ UNCHANGED <<now, password, saved, issued, proof, ended, undone>>

Serve(t) ==
    \/ CheckGuess(t) \/ RecordFailure(t) \/ Unlocked(t) \/ StorePassword(t)
    \/ SignInEnabled(t) \/ EndOtherLogins(t) \/ GiveUp(t) \/ ExtendWindow(t)
    \/ Revoke(t) \/ BeginChange(t)
    \/ \E atConsole \in BOOLEAN : SignedIn(t, atConsole)

SignInNext ==
    \/ \E t \in Threads : Serve(t)
    \/ \E t \in Threads : \E op \in {"login", "unlock", "first"} : \E s \in 0 .. MaxLogins : BeginGuess(t, op, s)
    \/ \E t \in Threads : \E s \in Logins : AdminGate(t, s)
    \/ \E s \in Logins : SignOut(s) \/ LockAdmin(s)
    \/ Tick
    \/ Restart

SignInSpec == SignInInit /\ [][SignInNext]_signInVars

-----------------------------------------------------------------------------
(* Properties                                                              *)

\* A login that was signed out or revoked never works again, over restarts
\* too, unless the write of the file that should have dropped it failed and
\* no later one succeeded before the restart (the comment in _save allows it).
EndedStaysEnded ==
    \A s \in ended \ undone : expiry[s] = 0 /\ saved[s] = 0

\* Requests that passed the limit before the failures of others were recorded
\* still guess, so an address gets at most one guess per thread beyond the
\* limit within a window: checking and recording are separate lock takes.
GuessesBounded ==
    Len(Recent) + Cardinality(Guessing) <= MaxAttempts - 1 + Cardinality(Threads)

\* Locked, or closed by a restart, an admin window opens again only for the
\* password: no request the console makes on its own reopens it.  (A request
\* already past its check when the button is pressed does; see the README.)
LockedStaysLocked ==
    \A s \in locked : ~AdminOpen(s)

Quiet == \A t \in Threads : request[t].at # "stored"

\* After a password change no login that proved an older password is left,
\* but those of sign-ins that were checked before the change and finished
\* after it, those a restart found in the file, and those of a first password
\* that a second one, checked before sign-in was on, replaced.
OldLoginsEnd ==
    Quiet => \A s \in Logins \ exempt : LiveLogins(s) => proof[s] = password
=============================================================================
