---------------------------- MODULE SmtpPasswords ----------------------------
(***************************************************************************)
(* Where the SMTP passwords typed into the email window go (snapshots.py,  *)
(* emailer.py): the shared email configuration, a named email profile, and *)
(* the schedules in memory.  A server is host, port, user and security as  *)
(* one value, and a password is identified by the server it was typed for. *)
(* A request works through its steps without one lock over them: the files *)
(* and the copy a send works from have locks of their own.                 *)
(***************************************************************************)
EXTENDS Integers, Sequences

CONSTANTS
    Servers,
    Requesters,   \* threads serving the email window
    MaxSchedules,   \* bound: schedules armed
    Blank

ASSUME SmtpAssumption ==
    /\ Blank \notin Servers /\ Blank \notin [server : Servers, password : Servers \cup {Blank}]
    /\ MaxSchedules \in Nat

VARIABLES
    config,       \* email_config.json: its server and password
    emailProfile, \* one of email_profiles.json, or Blank
    objects,      \* the schedule objects ever armed
    armed,        \* the one that follows the config and the one of the profile
    sent,         \* what the last send logged in to, and with which password
    req           \* per requester: where it is and what it has read

smtpVars == <<config, emailProfile, objects, armed, sent, req>>

Passwords == Servers \cup {Blank}
Pairs == [server : Servers, password : Passwords]
ScheduleKinds == {"config", "profile"}
Idle == [at |-> "idle", kind |-> "config", want |-> Blank, typed |-> Blank,
         seen |-> 0, old |-> Blank, found |-> Blank]

SmtpInit ==
    /\ config \in [server : Servers, password : {Blank}]
    /\ emailProfile = Blank
    /\ objects = << >>
    /\ armed = [k \in ScheduleKinds |-> 0]
    /\ sent = Blank
    /\ req = [r \in Requesters |-> Idle]

\* What a save keeps of a stored pair when no password was typed: nothing,
\* once it is aimed at another server.
Rebound(pair, server, typed) ==
    [server |-> server,
     password |-> IF typed # Blank THEN typed
                  ELSE IF pair # Blank /\ pair.server = server THEN pair.password ELSE Blank]

-----------------------------------------------------------------------------
\* The profile's own requests, under EMAIL_PROFILES_LOCK.

SaveEmailProfile ==
    /\ \E s \in Servers : \E typed \in {Blank, s} :
          emailProfile' = Rebound(emailProfile, s, typed)
    /\ UNCHANGED <<config, objects, armed, sent, req>>

DeleteEmailProfile ==
    /\ emailProfile' = Blank
    /\ UNCHANGED <<config, objects, armed, sent, req>>

\* _smtp_send_view, for any schedule that is due: copied under the lock.
Send ==
    /\ \E k \in ScheduleKinds : armed[k] # 0 /\ sent' = objects[armed[k]]
    /\ UNCHANGED <<config, emailProfile, objects, armed, req>>

-----------------------------------------------------------------------------
\* Start, test and switching a profile on.

\* resolve_email_profile_password: "(saved)" stands for the profile's
\* password, and is refused for another server than the profile's.
SavedPassword(server) ==
    IF emailProfile = Blank \/ emailProfile.password = Blank THEN {Blank}
    ELSE IF emailProfile.server = server THEN {emailProfile.password} ELSE {}

BeginStart(r, kind) ==
    /\ req[r] = Idle
    /\ \E s \in Servers : \E typed \in {s, Blank} \cup SavedPassword(s), k \in ScheduleKinds :
          req' = [req EXCEPT ![r] = [Idle EXCEPT
                     !.at = IF typed = Blank THEN "target" ELSE "decided",
                     !.kind = kind, !.want = s, !.typed = typed,
                     !.found = typed, !.seen = armed[k]]]
    /\ UNCHANGED <<config, emailProfile, objects, armed, sent>>

\* toggle-profile: the profile as it is in the file when the switch is thrown.
BeginToggle(r) ==
    /\ req[r] = Idle /\ emailProfile # Blank
    /\ req' = [req EXCEPT ![r] = [Idle EXCEPT
                  !.at = IF emailProfile.password = Blank THEN "target" ELSE "decided",
                  !.kind = "profile", !.want = emailProfile.server,
                  !.found = emailProfile.password, !.seen = armed["profile"]]]
    /\ UNCHANGED <<config, emailProfile, objects, armed, sent>>

\* _stored_smtp_password reads the schedule's server, its password, and then
\* the config's pair: each on its own.
ReadScheduleServer(r) ==
    /\ req[r].at = "target"
    /\ req' = [req EXCEPT ![r].at = "password",
                          ![r].old = IF req[r].seen = 0 THEN Blank ELSE objects[req[r].seen].server]
    /\ UNCHANGED <<config, emailProfile, objects, armed, sent>>

ReadSchedulePassword(r) ==
    /\ req[r].at = "password"
    /\ req' = [req EXCEPT ![r].at = "shared",
                          ![r].found = IF req[r].seen = 0 THEN Blank ELSE objects[req[r].seen].password]
    /\ UNCHANGED <<config, emailProfile, objects, armed, sent>>

\* The first stored password whose server is the wanted one; refused when
\* there are only others.
DecidePassword(r) ==
    /\ req[r].at = "shared"
    /\ LET own == req[r].found # Blank /\ req[r].old = req[r].want
           shared == config.password # Blank /\ config.server = req[r].want
           refused == ~own /\ ~shared /\ (req[r].found # Blank \/ config.password # Blank)
       IN req' = [req EXCEPT ![r] =
                     IF refused THEN Idle
                     ELSE [req[r] EXCEPT !.at = "decided",
                              !.found = IF own THEN req[r].found
                                        ELSE IF shared THEN config.password ELSE Blank]]
    /\ UNCHANGED <<config, emailProfile, objects, armed, sent>>

\* A start saves the configuration before it arms, with what was typed only.
StartSavesConfig(r) ==
    /\ req[r].at = "decided" /\ req[r].kind = "config"
    /\ config' = Rebound(config, req[r].want, req[r].typed)
    /\ req' = [req EXCEPT ![r].at = "arm"]
    /\ UNCHANGED <<emailProfile, objects, armed, sent>>

Arm(r) ==
    /\ req[r].at = IF req[r].kind = "config" THEN "arm" ELSE "decided"
    /\ req[r].kind \in ScheduleKinds /\ Len(objects) < MaxSchedules
    /\ objects' = Append(objects, [server |-> req[r].want, password |-> req[r].found])
    /\ armed' = [k \in ScheduleKinds |->
                    IF k = req[r].kind THEN Len(objects) + 1
                    ELSE IF armed[k] = req[r].seen THEN 0 ELSE armed[k]]
    /\ req' = [req EXCEPT ![r] = Idle]
    /\ UNCHANGED <<config, emailProfile, sent>>

\* action=test: sent at once, nothing stored.
SendTest(r) ==
    /\ req[r].at = "decided" /\ req[r].kind = "test"
    /\ sent' = [server |-> req[r].want, password |-> req[r].found]
    /\ req' = [req EXCEPT ![r] = Idle]
    /\ UNCHANGED <<config, emailProfile, objects, armed>>

-----------------------------------------------------------------------------
\* Save: the configuration, and then the schedule that follows it.

BeginSave(r) ==
    /\ req[r] = Idle
    /\ \E s \in Servers : \E typed \in {s, Blank} \cup SavedPassword(s) :
          config' = Rebound(config, s, typed)
    /\ req' = [req EXCEPT ![r].at = "saved"]
    /\ UNCHANGED <<emailProfile, objects, armed, sent>>

ReadConfig(r) ==
    /\ req[r].at = "saved"
    /\ req' = [req EXCEPT ![r] = IF armed["config"] = 0 THEN Idle
                                 ELSE [Idle EXCEPT !.at = "sync", !.want = config.server,
                                                   !.seen = armed["config"]]]
    /\ UNCHANGED <<config, emailProfile, objects, armed, sent>>

\* _sync_automation_from_email_config: the schedule's old server ...
SyncReadsServer(r) ==
    /\ req[r].at = "sync"
    /\ req' = [req EXCEPT ![r].at = "secret", ![r].old = objects[req[r].seen].server]
    /\ UNCHANGED <<config, emailProfile, objects, armed, sent>>

\* ... the config's password, unless a save has re-aimed it since ...
SyncReadsPassword(r) ==
    /\ req[r].at = "secret"
    /\ req' = [req EXCEPT ![r].at = "apply",
                          ![r].found = IF config.server = req[r].want THEN config.password ELSE Blank]
    /\ UNCHANGED <<config, emailProfile, objects, armed, sent>>

\* Faulty variant: a schedule that is aimed elsewhere keeps its password.
KeptAlways(r) == objects[req[r].seen].password

\* ... and both written under _AUTOMATION_SMTP_LOCK: the schedule's own
\* password does not follow it to another server.
KeptPassword(r) == IF req[r].old = req[r].want THEN objects[req[r].seen].password ELSE Blank

SyncApplies(r) ==
    /\ req[r].at = "apply"
    /\ objects' = [objects EXCEPT ![req[r].seen] =
            [server |-> req[r].want,
             password |-> IF req[r].found # Blank THEN req[r].found ELSE KeptPassword(r)]]
    /\ req' = [req EXCEPT ![r] = Idle]
    /\ UNCHANGED <<config, emailProfile, armed, sent>>

-----------------------------------------------------------------------------
SmtpNext ==
    \/ SaveEmailProfile \/ DeleteEmailProfile \/ Send
    \/ \E r \in Requesters :
          \/ BeginStart(r, "config") \/ BeginStart(r, "test") \/ BeginToggle(r)
          \/ ReadScheduleServer(r) \/ ReadSchedulePassword(r) \/ DecidePassword(r)
          \/ StartSavesConfig(r) \/ Arm(r) \/ SendTest(r)
          \/ BeginSave(r) \/ ReadConfig(r)
          \/ SyncReadsServer(r) \/ SyncReadsPassword(r) \/ SyncApplies(r)

SmtpSpec == SmtpInit /\ [][SmtpNext]_smtpVars

\* Type invariant of the email window's passwords.
SmtpTypeOK ==
    /\ config \in Pairs
    /\ emailProfile \in Pairs \cup {Blank}
    /\ objects \in Seq(Pairs) /\ Len(objects) <= MaxSchedules
    /\ armed \in [ScheduleKinds -> 0..Len(objects)]
    /\ sent \in Pairs \cup {Blank}
    /\ \A r \in Requesters :
          /\ req[r].want \in Passwords /\ req[r].typed \in Passwords
          /\ req[r].old \in Passwords /\ req[r].found \in Passwords
          /\ req[r].seen \in 0..Len(objects)

GoesHome(pair) == pair # Blank /\ pair.password # Blank => pair.password = pair.server

\* Wherever a password is kept or sent, it is with the server it was typed
\* for: through saves that re-aim the server, starts that take the password of
\* the schedule they replace, "(saved)" passwords and sends in between.
SmtpPasswordsGoHome ==
    /\ GoesHome(config) /\ GoesHome(emailProfile) /\ GoesHome(sent)
    /\ \A i \in DOMAIN objects : GoesHome(objects[i])
=============================================================================
