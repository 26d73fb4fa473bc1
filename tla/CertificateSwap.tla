-------------------------- MODULE CertificateSwap --------------------------
(***************************************************************************)
(* The certificate and key the service listens with, and their replacement *)
(* from the admin console: install_certificate stages a pair beside the    *)
(* live files, loads it, swaps it in (_swap_in) and gives it to the        *)
(* listener, all under _TLS_LOCK; restore_previous_certificate installs the*)
(* pair the last upload replaced.  Any copy or replace may fail, and the   *)
(* process may die between any two of them.                                *)
(*                                                                         *)
(* A certificate is the number of its upload, and a key the number of the  *)
(* certificate it belongs to: a pair loads when they are equal.  0 is a    *)
(* file that does not exist or that a failed copy left unusable.           *)
(***************************************************************************)
EXTENDS Naturals

CONSTANT MaxUploads     \* bound on the pairs uploaded, for model checking only

ASSUME CertAssumption == MaxUploads \in Nat

VARIABLES
    live,       \* the two files the listener was started with
    previous,   \* the two *.previous files: the pair an upload replaced
    kept,       \* the two *.previous.new files: copies made before a swap
    swapAt,     \* how far the upload that holds _TLS_LOCK got
    incoming,   \* its pair
    swapped,    \* how many of the live files it has replaced
    served,     \* the pair the listener gives to new connections, 0: not running
    putBack,    \* a restore request: what it has read of *.previous
    uploads,    \* pairs uploaded so far
    torn,       \* ghost: a crash or a failed roll-back left files that do not match
    replaced,   \* ghost: the pair served before the last upload that was put in place
    lost        \* ghost: a failure or a crash kept that upload, or a later one, from keeping it

certVars == <<live, previous, kept, swapAt, incoming, swapped, served, putBack, uploads,
              torn, replaced, lost>>

File == 0 .. MaxUploads + 1
Pair == [cert : File, key : File]
Both(n) == [cert |-> n, key |-> n]
SwapPoints == {"free", "keep", "replace", "previous", "apply", "back"}
NoRead == [at |-> "none", cert |-> 0, key |-> 0]

CertTypeOK ==
    /\ live \in Pair /\ previous \in Pair /\ kept \in Pair
    /\ swapAt \in [point : SwapPoints, file : 1 .. 2]
    /\ incoming \in File /\ swapped \in 0 .. 2 /\ served \in File
    /\ putBack \in [at : {"none", "cert", "key"}, cert : File, key : File]
    /\ uploads \in 1 .. MaxUploads + 1 /\ torn \in BOOLEAN /\ replaced \in File
    /\ lost \in BOOLEAN

\* Files are taken in this order: 1 the certificate, 2 the key.
Of(pair, file) == IF file = 1 THEN pair.cert ELSE pair.key
With(pair, file, n) ==
    [cert |-> IF file = 1 THEN n ELSE pair.cert, key |-> IF file = 2 THEN n ELSE pair.key]

At(point, file) == swapAt = [point |-> point, file |-> file]
Goto(point, file) == swapAt' = [point |-> point, file |-> file]

CertInit ==
    /\ live = Both(1) /\ previous = Both(0) /\ kept = Both(0)
    /\ swapAt = [point |-> "free", file |-> 1] /\ incoming = 0 /\ swapped = 0
    /\ served = 1 /\ putBack = NoRead /\ uploads = 1 /\ torn = FALSE /\ replaced = 0
    /\ lost = FALSE

-----------------------------------------------------------------------------

\* install_certificate takes the lock with a pair that loads, is in date and
\* names this host; any other is answered with 400 or 409 and changes nothing.
BeginSwap(pair) ==
    /\ At("free", 1) /\ served # 0
    /\ incoming' = pair /\ swapped' = 0
    /\ Goto("keep", 1)
    /\ UNCHANGED <<live, previous, kept, served, torn, replaced, lost>>

Upload ==
    /\ uploads <= MaxUploads
    /\ uploads' = uploads + 1
    /\ BeginSwap(uploads + 1)
    /\ UNCHANGED putBack

\* restore_previous_certificate reads the two kept files outside the lock...
ReadPrevious ==
    /\ served # 0 /\ previous.cert # 0 /\ previous.key # 0
    /\ \/ putBack.at = "none" /\ putBack' = [at |-> "cert", cert |-> previous.cert, key |-> 0]
       \/ putBack.at = "cert" /\ putBack' = [putBack EXCEPT !.at = "key", !.key = previous.key]
    /\ UNCHANGED <<live, previous, kept, swapAt, incoming, swapped, served, uploads, torn, replaced, lost>>

\* ... and installs them: a pair read across a swap does not load.
PutBack ==
    /\ putBack.at = "key"
    /\ putBack' = NoRead
    /\ \/ putBack.cert = putBack.key /\ BeginSwap(putBack.cert)
       \/ putBack.cert # putBack.key
          /\ UNCHANGED <<live, previous, kept, swapAt, incoming, swapped, served, torn, replaced, lost>>
    /\ UNCHANGED uploads

\* One file is done: the other one, or the next stage of the swap.
Advance(point, next) ==
    IF swapAt.file = 1 THEN Goto(point, 2) ELSE Goto(next, 1)

\* Faulty variant: the copy is made as *.previous at once, before the swap.
KeepFileAsPrevious ==
    /\ swapAt.point = "keep"
    /\ kept' = With(kept, swapAt.file, Of(live, swapAt.file))
    /\ previous' = With(previous, swapAt.file, Of(live, swapAt.file))
    /\ Advance("keep", "replace")
    /\ UNCHANGED <<live, incoming, swapped, served, putBack, uploads, torn, replaced, lost>>

\* shutil.copyfile of a live file to its *.previous.new.
KeepFile ==
    /\ swapAt.point = "keep"
    /\ kept' = With(kept, swapAt.file, Of(live, swapAt.file))
    /\ Advance("keep", "replace")
    /\ UNCHANGED <<live, previous, incoming, swapped, served, putBack, uploads, torn, replaced, lost>>

\* replace_with_retry of the staged file over the live one: the key after the
\* certificate.
ReplaceFile ==
    /\ swapAt.point = "replace"
    /\ live' = With(live, swapAt.file, incoming)
    /\ swapped' = swapAt.file
    /\ Advance("replace", "previous")
    /\ UNCHANGED <<previous, kept, incoming, served, putBack, uploads, torn, replaced, lost>>

\* The copy becomes the *.previous file.
KeepPrevious ==
    /\ swapAt.point = "previous"
    /\ previous' = With(previous, swapAt.file, Of(kept, swapAt.file))
    /\ Advance("previous", "apply")
    /\ UNCHANGED <<live, kept, incoming, swapped, served, putBack, uploads, torn, replaced, lost>>

\* A copy or a replace raises OSError.  A copy may leave its target unusable,
\* and the second of the *.previous files may be left beside one of another pair.
StepFails ==
    /\ swapAt.point \in {"keep", "replace", "previous"}
    /\ \/ UNCHANGED <<kept, previous>>
       \/ swapAt.point = "keep" /\ kept' = With(kept, swapAt.file, 0) /\ UNCHANGED previous
       \/ swapAt.point = "previous" /\ previous' = With(previous, swapAt.file, 0) /\ UNCHANGED kept
    /\ Goto("back", 1)
    /\ lost' = (lost \/ (swapAt.point = "previous" /\ (swapAt.file = 2 \/ previous' # previous)))
    /\ UNCHANGED <<live, incoming, swapped, served, putBack, uploads, torn, replaced>>

\* The finally clause: the staged files and the copies are removed.
Release == kept' = Both(0) /\ incoming' = 0 /\ swapped' = 0 /\ Goto("free", 1)

\* Faulty variant: only the last file replaced is put back.
RollBackLast ==
    /\ swapAt.point = "back"
    /\ live' = IF swapped = 0 THEN live ELSE With(live, swapped, Of(kept, swapped))
    /\ Release
    /\ UNCHANGED <<previous, served, putBack, uploads, torn, replaced, lost>>

\* The except clause: each file that was replaced is copied back.
RollBack ==
    /\ swapAt.point = "back"
    /\ live' = [cert |-> IF swapped >= 1 THEN kept.cert ELSE live.cert,
                key  |-> IF swapped = 2 THEN kept.key ELSE live.key]
    /\ Release
    /\ UNCHANGED <<previous, served, putBack, uploads, torn, replaced, lost>>

\* Copying back fails as well: what was not copied yet stays replaced, and the
\* copies are removed all the same.
RollBackFails ==
    /\ swapAt.point = "back" /\ swapped > 0
    /\ \E n \in 0 .. swapped - 1 : \E broken \in {0, incoming} :
           live' = [cert |-> IF n >= 1 THEN kept.cert ELSE broken,
                    key  |-> IF swapped = 2 THEN (IF n = 1 THEN broken ELSE live.key) ELSE live.key]
    /\ torn' = TRUE
    /\ Release
    /\ UNCHANGED <<previous, served, putBack, uploads, replaced, lost>>

\* apply: the listener's new connections use the loaded pair.
Apply ==
    /\ At("apply", 1)
    /\ served' = incoming
    /\ replaced' = served /\ lost' = torn
    /\ torn' = FALSE
    /\ Release
    /\ UNCHANGED <<live, previous, putBack, uploads>>

\* The process dies; a service whose files do not match does not start again.
CertCrash ==
    /\ served # 0
    /\ served' = IF live.cert = live.key THEN live.cert ELSE 0
    /\ torn' = (live.cert # live.key)
    /\ IF swapAt.point = "apply" THEN replaced' = served /\ lost' = torn
       ELSE /\ lost' = (lost \/ swapAt.point = "previous" \/ live # Both(served))
            /\ UNCHANGED replaced
    /\ putBack' = NoRead
    /\ Release
    /\ UNCHANGED <<live, previous, uploads>>

Swap == KeepFile \/ ReplaceFile \/ KeepPrevious \/ StepFails \/ RollBack \/ RollBackFails \/ Apply

CertNext == Upload \/ ReadPrevious \/ PutBack \/ Swap \/ CertCrash

CertSpec == CertInit /\ [][CertNext]_certVars

-----------------------------------------------------------------------------
(* Properties                                                              *)

\* When no upload is under way the live files are a pair and the one being
\* served, so the service starts again with it: a refused or failed upload put
\* everything back, a successful one left nothing behind.  Only a crash between
\* the two replaces, or a roll-back that fails too, can leave them torn.
FilesAreServed ==
    (swapAt.point = "free" /\ ~torn) =>
        live.cert = live.key /\ served = live.cert

\* But while an upload is writing it, the pair kept as *.previous is the one
\* that the last upload put in place replaced, whole: over uploads that are
\* refused, fail or are rolled back since, and over crashes.  Not if an upload
\* failed or died while writing the *.previous files (the second copy may fail
\* when the first is made), or if the files it replaced were torn.
PreviousIsReplaced ==
    (swapAt.point \notin {"previous", "apply"} /\ ~lost) => previous = Both(replaced)

\* _swap_in: "so a failed upload also leaves the pair the last one kept".  Not kept:
\* PreviousMixed.cfg has one whose second *.previous copy fails.
FailedUploadKeepsPrevious == swapAt.point = "back" => previous = Both(replaced)
=============================================================================
