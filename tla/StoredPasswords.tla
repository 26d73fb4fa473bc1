-------------------------- MODULE StoredPasswords --------------------------
(***************************************************************************)
(* The passwords saved with connection profiles (profiles.py) and the key  *)
(* they are encrypted with (secrets.py).  A password is identified by the  *)
(* connection it was typed for; a blob is a password under a key, in the   *)
(* old form or the one bound to its profile.  The operator may swap the key*)
(* file, put it back, or start the process from an account that may not    *)
(* read it.                                                                *)
(***************************************************************************)
EXTENDS Integers

CONSTANTS
    ProfileNames,
    Targets,    \* connections: hosts, ports, user and TLS verification
    Keys,       \* keys the file may hold: 1 is its own
    Unset

VARIABLES
    keyFile,    \* .session_key: its key, or 0 when there is none; may it be read
    process,    \* where the process is, and the key it loaded
    profiles,   \* profiles.json: per name the connection and the blob, or Unset
    used        \* the connection and password of the last resolved profile

passwordVars == <<keyFile, process, profiles, used>>

Blobs == [of : Targets, key : Keys, form : {"old", "bound"}]
Profiles == [target : Targets, blob : Blobs \cup {Unset}]

ASSUME PasswordsAssumption ==
    /\ Keys \subseteq Nat \ {0} /\ 1 \in Keys
    /\ Unset \notin Targets \cup Blobs \cup Profiles

Down == [at |-> "down", key |-> 0]

PasswordsInit ==
    /\ keyFile \in [key : {0, 1}, readable : {TRUE}]
    /\ process = Down
    /\ profiles \in [ProfileNames -> {Unset} \cup [target : Targets, blob : {Unset} \cup [of : Targets, key : {1}, form : {"old"}]]]
    /\ \A n \in ProfileNames : profiles[n] # Unset /\ profiles[n].blob # Unset =>
            profiles[n].blob.of = profiles[n].target /\ keyFile.key = 1
    /\ used = Unset

\* The operator: another machine's key, one's own again, access denied.
KeyFileChanges ==
    /\ keyFile.key # 0
    /\ \E k \in Keys, r \in BOOLEAN : keyFile' = [key |-> k, readable |-> r]
    /\ UNCHANGED <<process, profiles, used>>

ProcessEnds == process' = Down /\ used' = Unset /\ UNCHANGED <<keyFile, profiles>>

\* Faulty variant: a key that cannot be read is replaced by a new one.
LoadKeyAnyway ==
    /\ process.at = "down"
    /\ \E k \in Keys :
          /\ keyFile.readable /\ keyFile.key # 0 => k = keyFile.key
          /\ keyFile' = [key |-> k, readable |-> TRUE]
          /\ process' = [at |-> "migrating", key |-> k]
    /\ UNCHANGED <<profiles, used>>

\* _load_or_create_stable_key: a key is made only when there is no file; one
\* that cannot be used stops the process instead.
LoadKey ==
    /\ process.at = "down"
    /\ \/ /\ keyFile.key # 0 /\ keyFile.readable
          /\ process' = [at |-> "migrating", key |-> keyFile.key]
          /\ UNCHANGED keyFile
       \/ /\ keyFile.key = 0
          /\ keyFile' = [key |-> 1, readable |-> TRUE]
          /\ process' = [at |-> "migrating", key |-> 1]
    /\ UNCHANGED <<profiles, used>>

\* decrypt_profile_secret: the password, or none under another key.
Decrypted(blob) == IF blob # Unset /\ blob.key = process.key THEN blob.of ELSE Unset

\* migrate_profile_secrets: what decrypts is bound to its profile, what does
\* not is left; one write at the end.
Migrate ==
    /\ process.at = "migrating"
    /\ profiles' = [n \in ProfileNames |->
            IF profiles[n] # Unset /\ Decrypted(profiles[n].blob) # Unset
            THEN [profiles[n] EXCEPT !.blob.form = "bound"] ELSE profiles[n]]
    /\ process' = [process EXCEPT !.at = "up"]
    /\ UNCHANGED <<keyFile, used>>

-----------------------------------------------------------------------------
\* The requests, each under PROFILES_LOCK.

\* Faulty variant: the stored password stays when the profile is re-aimed.
BlobKeptAlways(n, target) ==
    IF profiles[n] # Unset THEN profiles[n].blob ELSE Unset

\* _profile_target_changed: the stored password stays with its connection.
BlobKept(n, target) ==
    IF profiles[n] # Unset /\ profiles[n].target = target THEN profiles[n].blob ELSE Unset

\* profile_record_for_save: with a typed password, or without one.
SaveProfile(n, target) ==
    /\ process.at = "up"
    /\ \E blob \in {BlobKept(n, target), [of |-> target, key |-> process.key, form |-> "bound"]} :
          profiles' = [profiles EXCEPT ![n] = [target |-> target, blob |-> blob]]
    /\ UNCHANGED <<keyFile, process, used>>

DeleteProfile(n) ==
    /\ process.at = "up"
    /\ profiles' = [profiles EXCEPT ![n] = Unset]
    /\ UNCHANGED <<keyFile, process, used>>

\* _resolve_profile_password: refused for another connection than the
\* profile's own, and when the password does not decrypt.
ResolvePassword(n, target) ==
    /\ process.at = "up" /\ profiles[n] # Unset
    /\ profiles[n].target = target /\ Decrypted(profiles[n].blob) # Unset
    /\ used' = [target |-> target, password |-> Decrypted(profiles[n].blob)]
    /\ UNCHANGED <<keyFile, process, profiles>>

PasswordsNext ==
    \/ KeyFileChanges \/ ProcessEnds \/ LoadKey \/ Migrate
    \/ \E n \in ProfileNames :
          \/ DeleteProfile(n)
          \/ \E t \in Targets : SaveProfile(n, t) \/ ResolvePassword(n, t)

PasswordsSpec == PasswordsInit /\ [][PasswordsNext]_passwordVars

-----------------------------------------------------------------------------
\* Type invariant of the profiles and the key.
PasswordsTypeOK ==
    /\ keyFile \in [key : Keys \cup {0}, readable : BOOLEAN]
    /\ process \in [at : {"down", "migrating", "up"}, key : Keys \cup {0}]
    /\ profiles \in [ProfileNames -> Profiles \cup {Unset}]
    /\ used \in [target : Targets, password : Targets] \cup {Unset}

\* A stored password is only ever used for the connection it was saved for,
\* however profiles were re-aimed, renamed and saved again in between.
ProfilePasswordsGoHome ==
    /\ used # Unset => used.password = used.target
    /\ \A n \in ProfileNames :
          profiles[n] # Unset /\ profiles[n].blob # Unset => profiles[n].blob.of = profiles[n].target

\* What a start may change of a profile: the form of its blob.
SamePassword(p, q) ==
    IF p = Unset THEN q = Unset
    ELSE /\ q # Unset /\ q.target = p.target
         /\ IF p.blob = Unset THEN q.blob = Unset
            ELSE /\ q.blob # Unset /\ q.blob.of = p.blob.of /\ q.blob.key = p.blob.key

\* The process never replaces a key file, and starting under a key that does
\* not fit loses no password: put the right key back and all are there.
SavedPasswordsSurvive ==
    [][/\ keyFile.key # 0 /\ process' # process => keyFile' = keyFile
       /\ process.at # "up" =>
            \A n \in ProfileNames : SamePassword(profiles[n], profiles'[n])]_passwordVars
=============================================================================
