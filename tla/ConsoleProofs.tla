---------------------------- MODULE ConsoleProofs ----------------------------
(***************************************************************************)
(* Proofs about the admin console: the certificate swap, with any copy or  *)
(* replace failing and a crash at any point, and signing in, for any number*)
(* of request threads and any limits.                                      *)
(***************************************************************************)
EXTENDS SignIn, CertificateSwap, SelectionsProofs, FiniteSetTheorems, TLAPS

-----------------------------------------------------------------------------
(* The certificate and its key                                             *)

\* How much of the swap is done, at each of its points.
SwapProgress ==
    LET point == swapAt.point  file == swapAt.file IN
    /\ point \in {"free", "apply", "back"} => file = 1
    /\ point = "keep" => swapped = 0
    /\ point = "replace" => swapped = file - 1
    /\ point \in {"previous", "apply"} => swapped = 2 /\ live = Both(incoming)
    /\ point = "replace" /\ file = 2 => live.cert = incoming

\* Unless the files were torn before, what is live is the pair served or what
\* the swap has replaced of it, and the copies are of the pair served.
CopiesAreServed ==
    LET point == swapAt.point  file == swapAt.file IN
    ~torn =>
        /\ point \in {"free", "keep"} => live = Both(served)
        /\ point = "keep" /\ file = 2 => kept.cert = served
        /\ point = "replace" => kept = Both(served) /\ live.key = served
        /\ point = "replace" /\ file = 1 => live.cert = served
        /\ point = "previous" => kept = Both(served)
        /\ point = "previous" /\ file = 2 => previous.cert = served
        /\ point = "apply" => previous = Both(served)
        /\ point = "back" => \/ swapped = 0 /\ live = Both(served)
                             \/ swapped = 1 /\ live.key = served /\ kept = Both(served)
                             \/ swapped = 2 /\ kept = Both(served)

\* The pair kept is the one that was replaced until an upload that swapped its
\* own in writes the first of the *.previous files.
KeptIsReplaced ==
    ~lost /\ ((swapAt.point = "previous" /\ swapAt.file = 1) \/ swapAt.point \notin {"previous", "apply"})
        => previous = Both(replaced)

CertInv == CertTypeOK /\ SwapProgress /\ CopiesAreServed /\ KeptIsReplaced

LEMMA CertInitInv == CertInit => CertInv
<1>. SUFFICES ASSUME CertInit PROVE CertInv
  OBVIOUS
<1>1. 0 \in File /\ 1 \in File /\ 1 \in 1 .. MaxUploads + 1
  BY CertAssumption DEF CertAssumption, File
<1>2. torn \in BOOLEAN /\ lost \in BOOLEAN
  BY Zenon DEF CertInit
<1>. QED
  BY <1>1, <1>2 DEF CertInit, CertInv, CertTypeOK, SwapProgress, CopiesAreServed, KeptIsReplaced, Both, Pair,
     NoRead, SwapPoints

\* One more file is done.
LEMMA Advanced ==
  ASSUME CertInv, NEW point \in SwapPoints, NEW next \in SwapPoints, Advance(point, next)
  PROVE  /\ swapAt' \in [point : SwapPoints, file : 1 .. 2]
         /\ \/ swapAt.file = 1 /\ swapAt'.point = point /\ swapAt'.file = 2
            \/ swapAt.file = 2 /\ swapAt'.point = next /\ swapAt'.file = 1
BY DEF Advance, Goto, CertInv, CertTypeOK

LEMMA WithType ==
  ASSUME NEW pair \in Pair, NEW file \in 1 .. 2, NEW n \in File
  PROVE  With(pair, file, n) \in Pair /\ Of(pair, file) \in File
BY DEF With, Of, Pair

LEMMA KeepFileInv == ASSUME CertInv, KeepFile PROVE CertInv'
<1>0. swapAt.file \in 1 .. 2
  BY DEF CertInv, CertTypeOK
<1>1. kept' \in Pair /\ swapAt.file \in {1, 2} /\ swapAt.point = "keep"
      /\ UNCHANGED <<live, previous, incoming, swapped, served, torn, replaced, lost>>
  <2>1. kept' \in Pair
    BY <1>0, WithType DEF KeepFile, CertInv, CertTypeOK
  <2>2. swapAt.point = "keep" /\ UNCHANGED <<live, previous, incoming, swapped, served, torn, replaced, lost>>
    BY Zenon DEF KeepFile
  <2>. QED
    BY <1>0, <2>1, <2>2
<1>2. CertTypeOK'
  BY <1>1, Advanced DEF KeepFile, CertInv, CertTypeOK, SwapPoints
<1>3. CASE swapAt.file = 1
  <2>1. swapAt'.point = "keep" /\ swapAt'.file = 2 /\ kept' = [cert |-> live.cert, key |-> kept.key]
    BY <1>1, <1>3, Advanced DEF KeepFile, With, Of, SwapPoints
  <2>2. SwapProgress'
    BY <1>1, <1>3, <2>1 DEF KeepFile, CertInv, SwapProgress
  <2>3. CopiesAreServed'
    BY <1>1, <1>3, <2>1 DEF CertInv, CopiesAreServed, Both
  <2>4. KeptIsReplaced'
    BY <1>1, <1>3, <2>1 DEF CertInv, KeptIsReplaced
  <2>. QED
    BY <1>2, <2>2, <2>3, <2>4 DEF CertInv
<1>4. CASE swapAt.file = 2
  <2>1. swapAt'.point = "replace" /\ swapAt'.file = 1 /\ kept' = [cert |-> kept.cert, key |-> live.key]
    BY <1>1, <1>4, Advanced DEF KeepFile, With, Of, SwapPoints
  <2>2. SwapProgress'
    BY <1>1, <1>4, <2>1 DEF KeepFile, CertInv, SwapProgress, Both
  <2>3. CopiesAreServed'
    BY <1>1, <1>4, <2>1 DEF CertInv, CopiesAreServed, Both
  <2>4. KeptIsReplaced'
    BY <1>1, <1>4, <2>1 DEF CertInv, KeptIsReplaced
  <2>. QED
    BY <1>2, <2>2, <2>3, <2>4 DEF CertInv
<1>. QED
  BY <1>1, <1>3, <1>4

LEMMA ReplaceFileInv == ASSUME CertInv, ReplaceFile PROVE CertInv'
<1>0. swapAt.file \in 1 .. 2
  BY DEF CertInv, CertTypeOK
<1>1. live' \in Pair /\ swapAt.file \in {1, 2} /\ swapAt.point = "replace"
      /\ UNCHANGED <<kept, previous, incoming, served, torn, replaced, lost>>
  <2>1. live' \in Pair
    BY <1>0, WithType DEF ReplaceFile, CertInv, CertTypeOK
  <2>2. swapAt.point = "replace" /\ UNCHANGED <<kept, previous, incoming, served, torn, replaced, lost>>
    BY Zenon DEF ReplaceFile
  <2>. QED
    BY <1>0, <2>1, <2>2
<1>2. CertTypeOK'
  BY <1>1, Advanced DEF ReplaceFile, CertInv, CertTypeOK, SwapPoints
<1>3. CASE swapAt.file = 1
  <2>1. swapAt'.point = "replace" /\ swapAt'.file = 2 /\ live' = [cert |-> incoming, key |-> live.key]
    BY <1>1, <1>3, Advanced DEF ReplaceFile, With, Of, SwapPoints
  <2>2. SwapProgress'
    BY <1>1, <1>3, <2>1 DEF ReplaceFile, CertInv, SwapProgress
  <2>3. CopiesAreServed'
    BY <1>1, <1>3, <2>1 DEF CertInv, CopiesAreServed, Both
  <2>4. KeptIsReplaced'
    BY <1>1, <1>3, <2>1 DEF CertInv, KeptIsReplaced
  <2>. QED
    BY <1>2, <2>2, <2>3, <2>4 DEF CertInv
<1>4. CASE swapAt.file = 2
  <2>1. swapAt'.point = "previous" /\ swapAt'.file = 1 /\ live' = [cert |-> live.cert, key |-> incoming]
    BY <1>1, <1>4, Advanced DEF ReplaceFile, With, Of, SwapPoints
  <2>2. SwapProgress'
    BY <1>1, <1>4, <2>1 DEF ReplaceFile, CertInv, SwapProgress, Both
  <2>3. CopiesAreServed'
    BY <1>1, <1>4, <2>1 DEF CertInv, CopiesAreServed, Both
  <2>4. KeptIsReplaced'
    BY <1>1, <1>4, <2>1 DEF CertInv, KeptIsReplaced
  <2>. QED
    BY <1>2, <2>2, <2>3, <2>4 DEF CertInv
<1>. QED
  BY <1>1, <1>3, <1>4

LEMMA KeepPreviousInv == ASSUME CertInv, KeepPrevious PROVE CertInv'
<1>0. swapAt.file \in 1 .. 2
  BY DEF CertInv, CertTypeOK
<1>1. previous' \in Pair /\ swapAt.file \in {1, 2} /\ swapAt.point = "previous"
      /\ UNCHANGED <<live, kept, incoming, swapped, served, torn, replaced, lost>>
  <2>1. previous' \in Pair
    BY <1>0, WithType DEF KeepPrevious, CertInv, CertTypeOK
  <2>2. swapAt.point = "previous" /\ UNCHANGED <<live, kept, incoming, swapped, served, torn, replaced, lost>>
    BY Zenon DEF KeepPrevious
  <2>. QED
    BY <1>0, <2>1, <2>2
<1>2. CertTypeOK'
  BY <1>1, Advanced DEF KeepPrevious, CertInv, CertTypeOK, SwapPoints
<1>3. CASE swapAt.file = 1
  <2>1. swapAt'.point = "previous" /\ swapAt'.file = 2 /\ previous' = [cert |-> kept.cert, key |-> previous.key]
    BY <1>1, <1>3, Advanced DEF KeepPrevious, With, Of, SwapPoints
  <2>2. SwapProgress'
    BY <1>1, <1>3, <2>1 DEF KeepPrevious, CertInv, SwapProgress
  <2>3. CopiesAreServed'
    BY <1>1, <1>3, <2>1 DEF CertInv, CopiesAreServed, Both
  <2>4. KeptIsReplaced'
    BY <1>1, <1>3, <2>1 DEF CertInv, KeptIsReplaced
  <2>. QED
    BY <1>2, <2>2, <2>3, <2>4 DEF CertInv
<1>4. CASE swapAt.file = 2
  <2>1. swapAt'.point = "apply" /\ swapAt'.file = 1 /\ previous' = [cert |-> previous.cert, key |-> kept.key]
    BY <1>1, <1>4, Advanced DEF KeepPrevious, With, Of, SwapPoints
  <2>2. SwapProgress'
    BY <1>1, <1>4, <2>1 DEF KeepPrevious, CertInv, SwapProgress, Both
  <2>3. CopiesAreServed'
    BY <1>1, <1>4, <2>1 DEF CertInv, CopiesAreServed, Both
  <2>4. KeptIsReplaced'
    BY <1>1, <1>4, <2>1 DEF CertInv, KeptIsReplaced
  <2>. QED
    BY <1>2, <2>2, <2>3, <2>4 DEF CertInv
<1>. QED
  BY <1>1, <1>3, <1>4


LEMMA StepFailsInv == ASSUME CertInv, StepFails PROVE CertInv'
<1>1. 0 \in File
  BY CertAssumption DEF CertAssumption, File
<1>2. kept' \in Pair /\ previous' \in Pair
  <2>1. With(kept, swapAt.file, 0) \in Pair /\ With(previous, swapAt.file, 0) \in Pair
    <3>1. swapAt.file \in 1 .. 2 /\ kept \in Pair /\ previous \in Pair
      BY DEF CertInv, CertTypeOK
    <3>. QED
      BY <1>1, <3>1, WithType
  <2>. QED
    BY <2>1 DEF StepFails, CertInv, CertTypeOK
<1>3. swapAt' = [point |-> "back", file |-> 1] /\ UNCHANGED <<live, incoming, swapped, served, torn>>
  BY DEF StepFails, Goto
<1>3a. lost' = (lost \/ (swapAt.point = "previous" /\ (swapAt.file = 2 \/ previous' # previous))) /\ replaced' = replaced
  BY DEF StepFails
<1>3b. lost' \in BOOLEAN
  BY <1>3a, Zenon DEF CertInv, CertTypeOK
<1>4. CertTypeOK'
  BY <1>2, <1>3, <1>3b DEF StepFails, CertInv, CertTypeOK, SwapPoints
<1>5. SwapProgress'
  BY <1>3 DEF SwapProgress
<1>6. CopiesAreServed'
  <2>. SUFFICES ASSUME ~torn PROVE CopiesAreServed'
    BY <1>3 DEF CopiesAreServed
  <2>1. CASE swapAt.point = "keep"
    BY <1>3, <2>1 DEF CertInv, SwapProgress, CopiesAreServed
  <2>2. CASE swapAt.point = "replace"
    <3>1. kept' = kept /\ swapAt.file \in {1, 2}
      BY <2>2 DEF StepFails, CertInv, CertTypeOK
    <3>2. swapAt.file = 1 => live = Both(served)
      BY <2>2 DEF CertInv, CertTypeOK, CopiesAreServed, Pair, Both
    <3>. QED
      BY <1>3, <2>2, <3>1, <3>2 DEF CertInv, SwapProgress, CopiesAreServed
  <2>3. CASE swapAt.point = "previous"
    <3>1. kept' = kept
      BY <2>3 DEF StepFails
    <3>. QED
      BY <1>3, <2>3, <3>1 DEF CertInv, SwapProgress, CopiesAreServed
  <2>. QED
    BY <2>1, <2>2, <2>3 DEF StepFails
<1>7. KeptIsReplaced'
  <2>. SUFFICES ASSUME ~lost' PROVE previous' = Both(replaced')
    BY DEF KeptIsReplaced, Both
  <2>1a. ~(lost \/ (swapAt.point = "previous" /\ (swapAt.file = 2 \/ previous' # previous)))
    BY <1>3a, Zenon
  <2>1. ~lost /\ (swapAt.point = "previous" => swapAt.file = 1 /\ previous' = previous)
    BY <2>1a DEF CertInv, CertTypeOK
  <2>2. previous' = previous /\ swapAt.point \in {"keep", "replace", "previous"}
    BY <2>1 DEF StepFails
  <2>. QED
    BY <1>3a, <2>1, <2>2 DEF CertInv, KeptIsReplaced, Both
<1>. QED
  BY <1>4, <1>5, <1>6, <1>7 DEF CertInv

\* Once the lock is free again, only what is live matters.
LEMMA Freed ==
  ASSUME CertInv, Release, live' \in Pair, previous' \in Pair, served' \in File,
         torn' \in BOOLEAN, replaced' \in File, uploads' = uploads,
         putBack' \in {putBack, NoRead}, torn' \/ live' = Both(served'),
         lost' \in BOOLEAN, lost' \/ previous' = Both(replaced')
  PROVE  CertInv'
<1>1. 0 \in File
  BY CertAssumption DEF CertAssumption, File
<1>2. swapAt' = [point |-> "free", file |-> 1] /\ swapped' = 0 /\ incoming' = 0 /\ kept' = Both(0)
  BY DEF Release, Goto
<1>3. CertTypeOK'
  BY <1>1, <1>2 DEF CertInv, CertTypeOK, Both, Pair, NoRead, SwapPoints
<1>. QED
  BY <1>2, <1>3 DEF CertInv, SwapProgress, CopiesAreServed, KeptIsReplaced

LEMMA RollBackInv == ASSUME CertInv, RollBack PROVE CertInv'
<1>1. live' = [cert |-> IF swapped >= 1 THEN kept.cert ELSE live.cert,
               key  |-> IF swapped = 2 THEN kept.key ELSE live.key]
  BY DEF RollBack
<1>2. live' \in Pair
  BY <1>1 DEF CertInv, CertTypeOK, Pair
<1>3. torn' = torn /\ served' = served /\ swapAt.point = "back" /\ swapped \in 0 .. 2
  BY DEF RollBack, CertInv, CertTypeOK
<1>4. torn' \/ live' = Both(served')
  BY <1>1, <1>3 DEF CertInv, CopiesAreServed, Both
<1>5. previous' = previous /\ replaced' = replaced /\ lost' = lost
  BY DEF RollBack
<1>6. lost' \/ previous' = Both(replaced')
  BY <1>3, <1>5 DEF CertInv, KeptIsReplaced, Both
<1>. QED
  BY <1>2, <1>3, <1>4, <1>5, <1>6, Freed DEF RollBack, CertInv, CertTypeOK

LEMMA RollBackFailsInv == ASSUME CertInv, RollBackFails PROVE CertInv'
<1>1. 0 \in File
  BY CertAssumption DEF CertAssumption, File
<1>2. live' \in Pair
  BY <1>1 DEF RollBackFails, CertInv, CertTypeOK, Pair
<1>3. torn' = TRUE
  BY Zenon DEF RollBackFails
<1>4. torn' \in BOOLEAN
  BY <1>3, Zenon
<1>5. previous' = previous /\ replaced' = replaced /\ lost' = lost /\ swapAt.point = "back"
  BY DEF RollBackFails
<1>6. lost' \/ previous' = Both(replaced')
  BY <1>5 DEF CertInv, KeptIsReplaced, Both
<1>. QED
  BY <1>2, <1>3, <1>4, <1>5, <1>6, Freed DEF RollBackFails, CertInv, CertTypeOK

LEMMA ApplyInv == ASSUME CertInv, Apply PROVE CertInv'
<1>1. live' = Both(served') /\ served' \in File /\ replaced' \in File /\ live' \in Pair
  BY DEF Apply, At, CertInv, CertTypeOK, SwapProgress
<1>2. torn' \in BOOLEAN /\ lost' = torn
  BY Zenon DEF Apply
<1>3. lost' \in BOOLEAN
  BY <1>2, Zenon DEF CertInv, CertTypeOK
<1>4. previous' = previous /\ replaced' = served /\ swapAt.point = "apply"
  BY DEF Apply, At
<1>5. lost' \/ previous' = Both(replaced')
  BY <1>2, <1>4 DEF CertInv, CopiesAreServed, Both
<1>. QED
  BY <1>1, <1>2, <1>3, <1>5, Freed DEF Apply, CertInv, CertTypeOK

LEMMA CertCrashInv == ASSUME CertInv, CertCrash PROVE CertInv'
<1>1. 0 \in File
  BY CertAssumption DEF CertAssumption, File
<1>2. served' \in File /\ replaced' \in File /\ live' \in Pair
  BY <1>1 DEF CertCrash, CertInv, CertTypeOK, Pair
<1>3. torn' = (live.cert # live.key)
  BY Zenon DEF CertCrash
<1>4. torn' \in BOOLEAN
  BY <1>3, Zenon
<1>5. live.cert = live.key => live' = Both(served')
  BY DEF CertCrash, CertInv, CertTypeOK, Pair, Both
<1>6. lost' \in BOOLEAN /\ (lost' \/ previous' = Both(replaced'))
  <2>1. previous' = previous
    BY DEF CertCrash
  <2>2. CASE swapAt.point = "apply"
    <3>1. lost' = torn /\ replaced' = served
      BY <2>2, Zenon DEF CertCrash
    <3>2. lost' \in BOOLEAN
      BY <3>1, Zenon DEF CertInv, CertTypeOK
    <3>. QED
      BY <2>1, <2>2, <3>1, <3>2 DEF CertInv, CopiesAreServed, Both
  <2>3. CASE swapAt.point # "apply"
    <3>1. lost' = (lost \/ swapAt.point = "previous" \/ live # Both(served)) /\ replaced' = replaced
      BY <2>3, Zenon DEF CertCrash
    <3>2. lost' \in BOOLEAN
      BY <3>1, Zenon
    <3>3. ~lost' => ~lost /\ swapAt.point # "previous"
      BY <3>1, Zenon DEF CertInv, CertTypeOK
    <3>. QED
      BY <2>1, <2>3, <3>1, <3>2, <3>3 DEF CertInv, KeptIsReplaced, Both
  <2>. QED
    BY <2>2, <2>3
<1>. QED
  BY <1>2, <1>3, <1>4, <1>5, <1>6, Freed DEF CertCrash, CertInv, CertTypeOK

\* A swap begins with whatever pair, once no other holds the lock.
LEMMA SwapBegins ==
  ASSUME CertInv, NEW pair \in File, BeginSwap(pair),
         putBack' \in {putBack, NoRead}, uploads' \in 1 .. MaxUploads + 1
  PROVE  CertInv'
<1>1. swapAt.point = "free" /\ swapAt' = [point |-> "keep", file |-> 1] /\ swapped' = 0 /\ incoming' = pair
  BY DEF BeginSwap, At, Goto
<1>2. CertTypeOK'
  BY <1>1, CertAssumption DEF CertAssumption, File, BeginSwap, CertInv, CertTypeOK, NoRead, SwapPoints
<1>. QED
  BY <1>1, <1>2 DEF BeginSwap, CertInv, SwapProgress, CopiesAreServed, KeptIsReplaced, Both

LEMMA UploadInv == ASSUME CertInv, Upload PROVE CertInv'
<1>1. uploads + 1 \in File /\ uploads' \in 1 .. MaxUploads + 1
  BY CertAssumption DEF CertAssumption, Upload, CertInv, CertTypeOK, File
<1>. QED
  BY <1>1, SwapBegins DEF Upload

LEMMA ReadPreviousInv == ASSUME CertInv, ReadPrevious PROVE CertInv'
<1>1. putBack' \in [at : {"none", "cert", "key"}, cert : File, key : File]
  <2>1. 0 \in File /\ previous.cert \in File /\ previous.key \in File
    BY CertAssumption DEF CertAssumption, File, CertInv, CertTypeOK, Pair
  <2>2. CASE putBack' = [at |-> "cert", cert |-> previous.cert, key |-> 0]
    BY <2>1, <2>2
  <2>3. CASE putBack' = [putBack EXCEPT !.at = "key", !.key = previous.key]
    BY <2>1, <2>3 DEF CertInv, CertTypeOK
  <2>. QED
    BY <2>2, <2>3 DEF ReadPrevious
<1>. QED
  BY <1>1 DEF ReadPrevious, CertInv, CertTypeOK, SwapProgress, CopiesAreServed, KeptIsReplaced, Both

LEMMA PutBackInv == ASSUME CertInv, PutBack PROVE CertInv'
<1>1. putBack' = NoRead /\ uploads' = uploads /\ putBack.cert \in File
  BY DEF PutBack, CertInv, CertTypeOK
<1>2. CASE BeginSwap(putBack.cert)
  BY <1>1, <1>2, SwapBegins DEF CertInv, CertTypeOK
<1>3. CASE UNCHANGED <<live, previous, kept, swapAt, incoming, swapped, served, torn, replaced, lost>>
  BY <1>1, <1>3, CertAssumption DEF CertAssumption, File, NoRead, CertInv, CertTypeOK, SwapProgress, CopiesAreServed,
     KeptIsReplaced, Both
<1>. QED
  BY <1>2, <1>3 DEF PutBack

LEMMA CertStepInv == CertInv /\ [CertNext]_certVars => CertInv'
<1>1. CertInv /\ UNCHANGED certVars => CertInv'
  BY DEF certVars, CertInv, CertTypeOK, SwapProgress, CopiesAreServed, KeptIsReplaced, Both
<1>. QED
  BY <1>1, UploadInv, ReadPreviousInv, PutBackInv, KeepFileInv, ReplaceFileInv, KeepPreviousInv, StepFailsInv,
     RollBackInv, RollBackFailsInv, ApplyInv, CertCrashInv DEF CertNext, Swap

\* The files, the copies and the swap's progress keep their types.
THEOREM CertTypeCorrect == CertSpec => []CertTypeOK
BY CertInitInv, CertStepInv, PTL DEF CertSpec, CertInv

\* However an upload or a restore ends, the live files are the pair served,
\* but after a crash between the replaces or a roll-back that fails as well.
THEOREM FilesAreServedHolds == CertSpec => []FilesAreServed
<1>1. CertInv => FilesAreServed
  BY DEF CertInv, CopiesAreServed, FilesAreServed, Both
<1>. QED
  BY <1>1, CertInitInv, CertStepInv, PTL DEF CertSpec

\* At every moment but while an upload writes it, the pair kept as *.previous
\* is the one the last upload put in place replaced, whatever failed since, but
\* after a failure or a crash while the *.previous files themselves were written
\* or of files already torn.
THEOREM PreviousIsReplacedHolds == CertSpec => []PreviousIsReplaced
<1>1. CertInv => PreviousIsReplaced
  BY DEF CertInv, KeptIsReplaced, PreviousIsReplaced
<1>. QED
  BY <1>1, CertInitInv, CertStepInv, PTL DEF CertSpec

-----------------------------------------------------------------------------
(* Signing in                                                              *)

Requests == [op : Ops, at : Points, sid : 0 .. MaxLogins, given : Nat]

\* The types, without those of the limit on guesses (see Guesses).
LoginsTypeOK ==
    /\ now \in Nat /\ password \in Nat /\ issued \in 0 .. MaxLogins
    /\ expiry \in [Logins -> Nat] /\ saved \in [Logins -> Nat] /\ adminUntil \in [Logins -> Nat]
    /\ request \in [Threads -> Requests]
    /\ proof \in [Logins -> Nat]
    /\ ended \subseteq Logins /\ undone \subseteq Logins
    /\ exempt \subseteq Logins /\ locked \subseteq Logins

OnlyIssued == \A s \in Logins : s > issued => expiry[s] = 0 /\ saved[s] = 0 /\ s \notin locked

\* The window of a locked login is shut, and no request is about to extend it.
WindowsShut ==
    \A s \in locked : /\ adminUntil[s] <= now
                      /\ \A t \in Threads : request[t].at = "touch" => request[t].sid # s

\* A proof is of a password there has been.
ProofsArePast ==
    /\ \A s \in Logins : proof[s] <= password
    /\ \A t \in Threads :
          /\ request[t].at \in {"proved", "stored"} => request[t].given <= password
          /\ request[t].at = "stored" => request[t].op \in {"change", "first"}

\* Request t will end login s, exempt it, or prove the present password for it.
Settles(t, s) ==
    /\ request[t].at = "stored"
    /\ request[t].op = "first" \/ request[t].sid # s \/ request[t].given = password

\* A live login that proved an older password is dealt with by a change that
\* is under way: with two changes at once, by either.
OldLoginsSettled ==
    \A s \in Logins \ exempt :
        LiveLogins(s) => proof[s] = password \/ \E t \in Threads : Settles(t, s)

SignInInv ==
    /\ LoginsTypeOK /\ OnlyIssued /\ EndedStaysEnded /\ WindowsShut /\ ProofsArePast /\ OldLoginsSettled

LEMMA SignInInitInv == SignInInit => SignInInv
<1>. SUFFICES ASSUME SignInInit PROVE SignInInv
  OBVIOUS
<1>1. NoRequest \in Requests
  BY SignInAssumption DEF SignInAssumption, NoRequest, Requests, Ops, Points
<1>2. LoginsTypeOK
  BY <1>1, SignInAssumption DEF SignInAssumption, SignInInit, LoginsTypeOK
<1>3. \A t \in Threads : request[t].at = "idle"
  BY DEF SignInInit, NoRequest
<1>4. \A s \in Logins : expiry[s] = 0 /\ saved[s] = 0 /\ proof[s] = 0
  BY DEF SignInInit
<1>5. OnlyIssued /\ EndedStaysEnded /\ WindowsShut
  BY <1>4 DEF SignInInit, OnlyIssued, EndedStaysEnded, WindowsShut
<1>6. ProofsArePast
  BY <1>2, <1>3, <1>4 DEF LoginsTypeOK, ProofsArePast
<1>7. OldLoginsSettled
  BY <1>4 DEF SignInInit, OldLoginsSettled, LiveLogins
<1>. QED
  BY <1>2, <1>5, <1>6, <1>7 DEF SignInInv

\* One thread's request moves on.
LEMMA RequestMoves ==
  ASSUME LoginsTypeOK, NEW t \in Threads, NEW new \in Requests, request' = [request EXCEPT ![t] = new]
  PROVE  /\ request' \in [Threads -> Requests] /\ request'[t] = new
         /\ \A u \in Threads : u # t => request'[u] = request[u]
BY DEF LoginsTypeOK

LEMMA RequestEnds ==
  ASSUME LoginsTypeOK, NEW t \in Threads, request' = [request EXCEPT ![t] = NoRequest]
  PROVE  /\ request' \in [Threads -> Requests] /\ request'[t].at = "idle" /\ request'[t].sid = 0
         /\ \A u \in Threads : u # t => request'[u] = request[u]
<1>1. NoRequest \in Requests
  BY SignInAssumption DEF SignInAssumption, NoRequest, Requests, Ops, Points
<1>. QED
  BY <1>1, RequestMoves DEF NoRequest

LEMMA RequestBegins ==
  ASSUME LoginsTypeOK, NEW t \in Threads, NEW op \in Ops, NEW at \in Points, NEW s \in 0 .. MaxLogins,
         request' = [request EXCEPT ![t] = [op |-> op, at |-> at, sid |-> s, given |-> 0]]
  PROVE  /\ request' \in [Threads -> Requests] /\ request'[t].at = at /\ request'[t].sid = s
         /\ \A u \in Threads : u # t => request'[u] = request[u]
<1>. DEFINE new == [op |-> op, at |-> at, sid |-> s, given |-> 0]
<1>1. new \in Requests /\ new.at = at /\ new.sid = s
  BY DEF Requests
<1>. HIDE DEF new
<1>. QED
  BY <1>1, RequestMoves DEF new

LEMMA RequestAt ==
  ASSUME LoginsTypeOK, NEW t \in Threads, NEW at \in Points, request' = [request EXCEPT ![t].at = at]
  PROVE  /\ request' \in [Threads -> Requests] /\ request'[t].at = at /\ request'[t].sid = request[t].sid
         /\ request'[t].op = request[t].op /\ request'[t].given = request[t].given
         /\ \A u \in Threads : u # t => request'[u] = request[u]
<1>. DEFINE new == [request[t] EXCEPT !.at = at]
<1>1. new \in Requests /\ new.at = at /\ new.sid = request[t].sid
      /\ new.op = request[t].op /\ new.given = request[t].given
  BY DEF LoginsTypeOK, Requests
<1>2. request' = [request EXCEPT ![t] = new]
  OBVIOUS
<1>. HIDE DEF new
<1>. QED
  BY <1>1, <1>2, RequestMoves

LEMMA RequestProved ==
  ASSUME LoginsTypeOK, NEW t \in Threads, NEW at \in Points, NEW p \in Nat,
         request' = Proving(t, at, p)
  PROVE  /\ request' \in [Threads -> Requests] /\ request'[t].at = at /\ request'[t].sid = request[t].sid
         /\ request'[t].op = request[t].op /\ request'[t].given = p
         /\ \A u \in Threads : u # t => request'[u] = request[u]
<1>. DEFINE mid == [request[t] EXCEPT !.at = at]
            new == [mid EXCEPT !.given = p]
<1>1. mid \in Requests /\ mid.at = at /\ mid.sid = request[t].sid /\ mid.op = request[t].op
  BY DEF LoginsTypeOK, Requests
<1>2. request' = [request EXCEPT ![t] = new]
  BY DEF LoginsTypeOK, Proving
<1>. HIDE DEF mid
<1>3. new \in Requests /\ new.at = at /\ new.sid = mid.sid /\ new.op = mid.op /\ new.given = p
  BY <1>1 DEF Requests
<1>. HIDE DEF new
<1>. QED
  BY <1>1, <1>2, <1>3, RequestMoves

\* What a step that leaves the table of logins alone has to show, whatever
\* thread t does in it: the invariant's parts about the table follow.
LEMMA TableKept ==
  ASSUME SignInInv, UNCHANGED <<now, password>>, UNCHANGED tableVars, NEW t \in Threads,
         request' \in [Threads -> Requests], \A u \in Threads : u # t => request'[u] = request[u],
         request[t].at # "stored", request'[t].at # "stored",
         request'[t].at = "proved" => request'[t].given <= password,
         adminUntil' \in [Logins -> Nat], locked' \subseteq Logins,
         \A s \in Logins : s > issued => s \notin locked', WindowsShut'
  PROVE  SignInInv'
<1>. USE DEF tableVars
<1>1. LoginsTypeOK'
  BY DEF SignInInv, LoginsTypeOK
<1>2. OnlyIssued'
  BY DEF SignInInv, OnlyIssued
<1>3. EndedStaysEnded'
  BY DEF SignInInv, EndedStaysEnded
<1>4. ProofsArePast'
  <2>1. \A u \in Threads : /\ request'[u].at \in {"proved", "stored"} => request'[u].given <= password
                           /\ request'[u].at = "stored" => request'[u].op \in {"change", "first"}
    BY DEF SignInInv, ProofsArePast
  <2>. QED
    BY <2>1 DEF SignInInv, ProofsArePast
<1>5. OldLoginsSettled'
  <2>. SUFFICES ASSUME NEW s \in Logins \ exempt, LiveLogins(s), proof[s] # password
                PROVE  \E u \in Threads : Settles(u, s)'
    BY DEF OldLoginsSettled, LiveLogins
  <2>1. PICK u \in Threads : Settles(u, s)
    BY DEF SignInInv, OldLoginsSettled
  <2>2. u # t
    BY <2>1 DEF Settles
  <2>3. request'[u] = request[u]
    BY <2>2
  <2>4. Settles(u, s)'
    BY <2>1, <2>3 DEF Settles
  <2>. QED
    BY <2>4
<1>. QED
  BY <1>1, <1>2, <1>3, <1>4, <1>5 DEF SignInInv

\* ... and when the windows are left alone too.
LEMMA WindowsKept ==
  ASSUME SignInInv, UNCHANGED <<now, adminUntil, locked>>, NEW t \in Threads,
         \A u \in Threads : u # t => request'[u] = request[u],
         request'[t].at = "touch" => request'[t].sid \notin locked
  PROVE  WindowsShut' /\ adminUntil' \in [Logins -> Nat] /\ locked' \subseteq Logins
         /\ \A s \in Logins : s > issued => s \notin locked'
<1>1. WindowsShut'
  <2>. SUFFICES ASSUME NEW s \in locked, NEW u \in Threads, request'[u].at = "touch"
                PROVE  request'[u].sid # s
    BY DEF SignInInv, WindowsShut
  <2>1. CASE u = t
    BY <2>1
  <2>2. CASE u # t
    BY <2>2 DEF SignInInv, WindowsShut
  <2>. QED
    BY <2>1, <2>2
<1>. QED
  BY <1>1 DEF SignInInv, LoginsTypeOK, OnlyIssued

LEMMA BeginGuessInv ==
  ASSUME SignInInv, NEW t \in Threads, NEW op \in {"login", "unlock", "first"}, NEW s \in 0 .. MaxLogins,
         BeginGuess(t, op, s)
  PROVE  SignInInv'
<1>1. request' = [request EXCEPT ![t] = [op |-> op, at |-> "check", sid |-> s, given |-> 0]]
      /\ UNCHANGED <<now, password, adminUntil, locked>> /\ UNCHANGED tableVars /\ request[t] = NoRequest
  BY DEF BeginGuess, PassLimit
<1>2. request' \in [Threads -> Requests] /\ request'[t].at = "check"
      /\ \A u \in Threads : u # t => request'[u] = request[u]
  BY <1>1, RequestBegins DEF SignInInv, Ops, Points
<1>3. request[t].at = "idle"
  BY <1>1 DEF NoRequest
<1>4. WindowsShut' /\ adminUntil' \in [Logins -> Nat] /\ locked' \subseteq Logins
         /\ \A r \in Logins : r > issued => r \notin locked'
  BY <1>1, <1>2, WindowsKept
<1>. QED
  BY <1>1, <1>2, <1>3, <1>4, TableKept

LEMMA CheckGuessInv == ASSUME SignInInv, NEW t \in Threads, CheckGuess(t) PROVE SignInInv'
<1>1. UNCHANGED <<now, password, adminUntil, locked>> /\ UNCHANGED tableVars /\ request[t].at = "check"
  BY DEF CheckGuess
<1>2. request' \in [Threads -> Requests] /\ request'[t].at \in {"proved", "wrong"}
      /\ (request'[t].at = "proved" => request'[t].given <= password)
      /\ \A u \in Threads : u # t => request'[u] = request[u]
  <2>0. LoginsTypeOK /\ password \in Nat /\ password <= password /\ "proved" \in Points
    BY DEF SignInInv, LoginsTypeOK, Points
  <2>1. CASE request' = Proving(t, "proved", password)
    <3>1. request' \in [Threads -> Requests] /\ request'[t].at = "proved" /\ request'[t].given = password
          /\ \A u \in Threads : u # t => request'[u] = request[u]
      BY <2>0, <2>1, RequestProved
    <3>2. request'[t].given <= password
      BY <2>0, <3>1
    <3>. QED
      BY <3>1, <3>2
  <2>2. CASE request' = [request EXCEPT ![t].at = "wrong"]
    BY <2>2, RequestAt DEF SignInInv, Points
  <2>. QED
    BY <2>1, <2>2 DEF CheckGuess
<1>3. WindowsShut' /\ adminUntil' \in [Logins -> Nat] /\ locked' \subseteq Logins
         /\ \A r \in Logins : r > issued => r \notin locked'
  BY <1>1, <1>2, WindowsKept
<1>. QED
  BY <1>1, <1>2, <1>3, TableKept

\* The request ends and changes nothing.
LEMMA RequestEndsInv ==
  ASSUME SignInInv, NEW t \in Threads, request' = [request EXCEPT ![t] = NoRequest],
         UNCHANGED <<now, password, adminUntil, locked>>, UNCHANGED tableVars, request[t].at # "stored"
  PROVE  SignInInv'
<1>1. request' \in [Threads -> Requests] /\ request'[t].at = "idle"
      /\ \A u \in Threads : u # t => request'[u] = request[u]
  BY RequestEnds DEF SignInInv
<1>2. WindowsShut' /\ adminUntil' \in [Logins -> Nat] /\ locked' \subseteq Logins
         /\ \A r \in Logins : r > issued => r \notin locked'
  BY <1>1, WindowsKept
<1>. QED
  BY <1>1, <1>2, TableKept

LEMMA RecordFailureInv == ASSUME SignInInv, NEW t \in Threads, RecordFailure(t) PROVE SignInInv'
BY RequestEndsInv DEF RecordFailure

LEMMA GiveUpInv == ASSUME SignInInv, NEW t \in Threads, GiveUp(t) PROVE SignInInv'
BY RequestEndsInv DEF GiveUp

LEMMA AdminGateInv ==
  ASSUME SignInInv, NEW t \in Threads, NEW s \in Logins, AdminGate(t, s)
  PROVE  SignInInv'
<1>1. UNCHANGED <<now, password, adminUntil, locked>> /\ UNCHANGED tableVars
      /\ request[t] = NoRequest /\ s \notin locked
      /\ request' = [request EXCEPT ![t] = [op |-> "admin", at |-> "touch", sid |-> s, given |-> 0]]
  <2>1. s \notin locked
    BY DEF AdminGate, AdminOpen, SignInInv, LoginsTypeOK, WindowsShut
  <2>. QED
    BY <2>1 DEF AdminGate
<1>2. request' \in [Threads -> Requests] /\ request'[t].at = "touch" /\ request'[t].sid = s
      /\ \A u \in Threads : u # t => request'[u] = request[u]
  <2>1. s \in 0 .. MaxLogins
    BY SignInAssumption DEF SignInAssumption, Logins
  <2>. QED
    BY <1>1, <2>1, RequestBegins DEF SignInInv, Ops, Points
<1>3. request[t].at = "idle"
  BY <1>1 DEF NoRequest
<1>4. WindowsShut' /\ adminUntil' \in [Logins -> Nat] /\ locked' \subseteq Logins
         /\ \A r \in Logins : r > issued => r \notin locked'
  BY <1>1, <1>2, WindowsKept
<1>. QED
  BY <1>1, <1>2, <1>3, <1>4, TableKept

LEMMA BeginChangeInv == ASSUME SignInInv, NEW t \in Threads, BeginChange(t) PROVE SignInInv'
<1>1. request' = [request EXCEPT ![t] = [op |-> "change", at |-> "check", sid |-> request[t].sid, given |-> 0]]
      /\ UNCHANGED <<now, password, adminUntil, locked>> /\ UNCHANGED tableVars /\ request[t].at = "admitted"
  BY DEF BeginChange, PassLimit
<1>2. request' \in [Threads -> Requests] /\ request'[t].at = "check"
      /\ \A u \in Threads : u # t => request'[u] = request[u]
  <2>. DEFINE s == request[t].sid
  <2>1. s \in 0 .. MaxLogins
    BY DEF SignInInv, LoginsTypeOK, Requests
  <2>2. request' = [request EXCEPT ![t] = [op |-> "change", at |-> "check", sid |-> s, given |-> 0]]
    BY <1>1
  <2>. HIDE DEF s
  <2>. QED
    BY <2>1, <2>2, RequestBegins DEF SignInInv, Ops, Points
<1>3. WindowsShut' /\ adminUntil' \in [Logins -> Nat] /\ locked' \subseteq Logins
         /\ \A r \in Logins : r > issued => r \notin locked'
  BY <1>1, <1>2, WindowsKept
<1>. QED
  BY <1>1, <1>2, <1>3, TableKept

\* ExtendWindow opens no locked window: a request that gets this far has a
\* login that is not locked.
LEMMA ExtendWindowInv == ASSUME SignInInv, NEW t \in Threads, ExtendWindow(t) PROVE SignInInv'
<1>. DEFINE s == request[t].sid
<1>1. UNCHANGED <<now, password, locked>> /\ UNCHANGED tableVars /\ request[t].at = "touch"
      /\ request' = [request EXCEPT ![t].at = "admitted"]
  BY DEF ExtendWindow
<1>2. request' \in [Threads -> Requests] /\ request'[t].at = "admitted"
      /\ \A u \in Threads : u # t => request'[u] = request[u]
  BY <1>1, RequestAt DEF SignInInv, Points
<1>3. adminUntil' \in [Logins -> Nat] /\ \A r \in Logins : r # s => adminUntil'[r] = adminUntil[r]
  <2>1. now + UnlockSeconds \in Nat
    BY SignInAssumption DEF SignInAssumption, SignInInv, LoginsTypeOK
  <2>. QED
    BY <2>1 DEF ExtendWindow, SignInInv, LoginsTypeOK
<1>4. s \notin locked
  BY <1>1 DEF SignInInv, WindowsShut
<1>5. WindowsShut'
  <2>. SUFFICES ASSUME NEW r \in locked
                PROVE  /\ adminUntil'[r] <= now
                       /\ \A u \in Threads : request'[u].at = "touch" => request'[u].sid # r
    BY <1>1 DEF WindowsShut
  <2>1. r \in Logins /\ r # s
    BY <1>4 DEF SignInInv, LoginsTypeOK
  <2>2. adminUntil'[r] <= now
    BY <1>3, <2>1 DEF SignInInv, WindowsShut
  <2>. QED
    BY <1>2, <2>2 DEF SignInInv, WindowsShut
<1>6. \A r \in Logins : r > issued => r \notin locked'
  BY <1>1 DEF SignInInv, OnlyIssued
<1>7. locked' \subseteq Logins
  BY <1>1 DEF SignInInv, LoginsTypeOK
<1>. QED
  BY <1>1, <1>2, <1>3, <1>5, <1>6, <1>7, TableKept

LEMMA UnlockedInv == ASSUME SignInInv, NEW t \in Threads, Unlocked(t) PROVE SignInInv'
<1>. DEFINE s == request[t].sid
<1>1. UNCHANGED <<now, password>> /\ UNCHANGED tableVars /\ request[t].at = "proved"
      /\ request' = [request EXCEPT ![t] = NoRequest] /\ locked' = locked \ {s}
  BY DEF Unlocked
<1>2. request' \in [Threads -> Requests] /\ request'[t].at = "idle"
      /\ \A u \in Threads : u # t => request'[u] = request[u]
  BY <1>1, RequestEnds DEF SignInInv
<1>3. adminUntil' \in [Logins -> Nat] /\ \A r \in Logins : r # s => adminUntil'[r] = adminUntil[r]
  <2>1. now + UnlockSeconds \in Nat
    BY SignInAssumption DEF SignInAssumption, SignInInv, LoginsTypeOK
  <2>. QED
    BY <2>1 DEF Unlocked, SignInInv, LoginsTypeOK
<1>4. WindowsShut'
  <2>. SUFFICES ASSUME NEW r \in locked, r # s
                PROVE  /\ adminUntil'[r] <= now
                       /\ \A u \in Threads : request'[u].at = "touch" => request'[u].sid # r
    BY <1>1 DEF WindowsShut
  <2>1. r \in Logins
    BY DEF SignInInv, LoginsTypeOK
  <2>2. adminUntil'[r] <= now
    BY <1>3, <2>1 DEF SignInInv, WindowsShut
  <2>. QED
    BY <1>2, <2>2 DEF SignInInv, WindowsShut
<1>5. \A r \in Logins : r > issued => r \notin locked'
  BY <1>1 DEF SignInInv, OnlyIssued
<1>6. locked' \subseteq Logins
  BY <1>1 DEF SignInInv, LoginsTypeOK
<1>. QED
  BY <1>1, <1>2, <1>3, <1>4, <1>5, <1>6, TableKept

\* The change under way settles every login: it will end it, or has just set
\* the password it proved.
LEMMA StorePasswordInv == ASSUME SignInInv, NEW t \in Threads, StorePassword(t) PROVE SignInInv'
<1>1. UNCHANGED <<now, adminUntil, locked>> /\ UNCHANGED tableVars /\ password' = password + 1
      /\ request[t].at = "proved" /\ request[t].op \in {"change", "first"}
      /\ request' = Proving(t, "stored", password + 1)
  BY DEF StorePassword
<1>2. /\ request' \in [Threads -> Requests] /\ request'[t].at = "stored" /\ request'[t].op = request[t].op
      /\ request'[t].given = password'
      /\ \A u \in Threads : u # t => request'[u] = request[u]
  <2>1. LoginsTypeOK /\ password + 1 \in Nat /\ "stored" \in Points
    BY DEF SignInInv, LoginsTypeOK, Points
  <2>. DEFINE p == password + 1
  <2>2. request' = Proving(t, "stored", p)
    BY <1>1
  <2>. HIDE DEF p
  <2>3. p \in Nat
    BY <2>1 DEF p
  <2>4. request' \in [Threads -> Requests] /\ request'[t].at = "stored" /\ request'[t].op = request[t].op
        /\ request'[t].given = p
        /\ \A u \in Threads : u # t => request'[u] = request[u]
    BY <2>1, <2>2, <2>3, RequestProved
  <2>. QED
    BY <1>1, <2>4 DEF p
<1>3. WindowsShut' /\ adminUntil' \in [Logins -> Nat] /\ locked' \subseteq Logins
         /\ \A r \in Logins : r > issued => r \notin locked'
  BY <1>1, <1>2, WindowsKept
<1>4. LoginsTypeOK'
  BY <1>1, <1>2, <1>3 DEF SignInInv, LoginsTypeOK, tableVars
<1>5. OnlyIssued' /\ EndedStaysEnded'
  BY <1>1 DEF SignInInv, OnlyIssued, EndedStaysEnded, tableVars
<1>6. ProofsArePast'
  <2>1. \A s \in Logins : proof'[s] <= password'
    BY <1>1 DEF SignInInv, LoginsTypeOK, ProofsArePast, tableVars
  <2>. SUFFICES ASSUME NEW u \in Threads
                PROVE  /\ request'[u].at \in {"proved", "stored"} => request'[u].given <= password'
                       /\ request'[u].at = "stored" => request'[u].op \in {"change", "first"}
    BY <2>1 DEF ProofsArePast
  <2>2. CASE u = t
    BY <1>1, <1>2, <1>4, <2>2 DEF LoginsTypeOK
  <2>3. CASE u # t
    <3>1. request'[u] = request[u] /\ request[u].given \in Nat /\ password \in Nat
      BY <1>2, <2>3 DEF SignInInv, LoginsTypeOK, Requests
    <3>. QED
      BY <1>1, <3>1 DEF SignInInv, ProofsArePast
  <2>. QED
    BY <2>2, <2>3
<1>7. OldLoginsSettled'
  <2>1. \A s \in Logins : Settles(t, s)'
    BY <1>2 DEF Settles
  <2>. QED
    BY <1>1, <2>1 DEF OldLoginsSettled, tableVars
<1>. QED
  BY <1>3, <1>4, <1>5, <1>6, <1>7 DEF SignInInv

\* Steps of no request: what is left of the invariant is its windows.
LEMMA RequestsSame ==
  ASSUME SignInInv, UNCHANGED <<password, request>>, UNCHANGED tableVars, now' \in Nat, now' >= now,
         adminUntil' \in [Logins -> Nat], locked' \subseteq Logins,
         \A s \in Logins : s > issued => s \notin locked', WindowsShut'
  PROVE  SignInInv'
<1>. USE DEF tableVars
<1>1. LoginsTypeOK'
  BY DEF SignInInv, LoginsTypeOK
<1>2. OnlyIssued' /\ EndedStaysEnded' /\ ProofsArePast'
  BY DEF SignInInv, OnlyIssued, EndedStaysEnded, ProofsArePast
<1>3. OldLoginsSettled'
  <2>. SUFFICES ASSUME NEW s \in Logins \ exempt, expiry[s] > now', proof[s] # password
                PROVE  \E u \in Threads : Settles(u, s)'
    BY DEF OldLoginsSettled, LiveLogins
  <2>1. LiveLogins(s)
    BY DEF LiveLogins, SignInInv, LoginsTypeOK
  <2>2. PICK u \in Threads : Settles(u, s)
    BY <2>1 DEF SignInInv, OldLoginsSettled
  <2>3. Settles(u, s)'
    BY <2>2 DEF Settles
  <2>. QED
    BY <2>3
<1>. QED
  BY <1>1, <1>2, <1>3 DEF SignInInv

LEMMA LockAdminInv == ASSUME SignInInv, NEW s \in Logins, LockAdmin(s) PROVE SignInInv'
<1>1. UNCHANGED <<now, password, request>> /\ UNCHANGED tableVars
      /\ adminUntil' = [adminUntil EXCEPT ![s] = 0] /\ LiveLogins(s)
      /\ locked' \in {locked, locked \cup {s}}
      /\ (s \in locked' => s \in locked \/ \A t \in Threads : request[t].sid # s)
  BY DEF LockAdmin
<1>2. now \in Nat /\ adminUntil' \in [Logins -> Nat] /\ locked' \subseteq Logins
  BY <1>1 DEF SignInInv, LoginsTypeOK
<1>3. \A r \in Logins : r > issued => r \notin locked'
  BY <1>1 DEF SignInInv, LoginsTypeOK, OnlyIssued, LiveLogins
<1>4. WindowsShut'
  BY <1>1 DEF SignInInv, LoginsTypeOK, WindowsShut
<1>. QED
  BY <1>1, <1>2, <1>3, <1>4, RequestsSame

LEMMA SignInTickInv == ASSUME SignInInv, Tick PROVE SignInInv'
<1>1. UNCHANGED <<password, request, adminUntil, locked>> /\ UNCHANGED tableVars /\ now' = now + 1
  BY DEF Tick
<1>2. now' \in Nat /\ now' >= now /\ adminUntil' \in [Logins -> Nat] /\ locked' \subseteq Logins
  BY <1>1 DEF SignInInv, LoginsTypeOK
<1>3. \A r \in Logins : r > issued => r \notin locked'
  BY <1>1 DEF SignInInv, OnlyIssued
<1>4. WindowsShut'
  BY <1>1 DEF SignInInv, LoginsTypeOK, WindowsShut
<1>. QED
  BY <1>1, <1>2, <1>3, <1>4, RequestsSame

\* A login leaves the file with the table, or is known to be left in it.
LEMMA Saved ==
  ASSUME LoginsTypeOK, NEW table \in [Logins -> Nat], NEW over \in SUBSET Logins, NEW ok \in BOOLEAN,
         Save(table, over, ok)
  PROVE  /\ saved' \in [Logins -> Nat] /\ undone' \subseteq Logins
         /\ \A s \in Logins : saved'[s] \in {saved[s], table[s]}
         /\ \A s \in over \ undone' : table[s] = 0 /\ saved'[s] = 0
BY DEF Save, LoginsTypeOK

LEMMA Discarded ==
  ASSUME SignInInv, NEW gone \in SUBSET Logins, Discard(gone), \A s \in gone : LiveLogins(s)
  PROVE  /\ expiry' \in [Logins -> Nat] /\ saved' \in [Logins -> Nat] /\ adminUntil' \in [Logins -> Nat]
         /\ ended' \subseteq Logins /\ undone' \subseteq Logins /\ EndedStaysEnded'
         /\ \A s \in Logins : /\ expiry'[s] = IF s \in gone THEN 0 ELSE expiry[s]
                              /\ saved'[s] \in {saved[s], expiry'[s]}
                              /\ adminUntil'[s] \in {adminUntil[s], 0}
<1>1. /\ expiry' \in [Logins -> Nat] /\ adminUntil' \in [Logins -> Nat] /\ ended' \in SUBSET Logins
      /\ ended' = ended \cup gone
      /\ \A s \in Logins : /\ expiry'[s] = IF s \in gone THEN 0 ELSE expiry[s]
                           /\ adminUntil'[s] \in {adminUntil[s], 0}
  BY DEF Discard, SignInInv, LoginsTypeOK
<1>2. CASE gone = {}
  <2>1. UNCHANGED <<saved, undone>>
    BY <1>2 DEF Discard
  <2>2. EndedStaysEnded'
    BY <1>1, <1>2, <2>1 DEF SignInInv, LoginsTypeOK, EndedStaysEnded
  <2>. QED
    BY <1>1, <2>1, <2>2 DEF SignInInv, LoginsTypeOK
<1>3. CASE gone # {}
  <2>1. PICK ok \in BOOLEAN : Save(expiry', ended', ok)
    BY <1>3 DEF Discard
  <2>2. /\ saved' \in [Logins -> Nat] /\ undone' \subseteq Logins
        /\ \A s \in Logins : saved'[s] \in {saved[s], expiry'[s]}
        /\ \A s \in ended' \ undone' : expiry'[s] = 0 /\ saved'[s] = 0
    <3>. DEFINE table == expiry'
                over == ended'
    <3>1. table \in [Logins -> Nat] /\ over \in SUBSET Logins /\ Save(table, over, ok) /\ LoginsTypeOK
      BY <1>1, <2>1 DEF SignInInv
    <3>. HIDE DEF table, over
    <3>2. /\ saved' \in [Logins -> Nat] /\ undone' \subseteq Logins
          /\ \A s \in Logins : saved'[s] \in {saved[s], table[s]}
          /\ \A s \in over \ undone' : table[s] = 0 /\ saved'[s] = 0
      BY <3>1, Saved
    <3>. QED
      BY <3>2 DEF table, over
  <2>. QED
    BY <1>1, <2>2 DEF EndedStaysEnded
<1>. QED
  BY <1>2, <1>3

LEMMA WithLoginTable ==
  ASSUME LoginsTypeOK, NEW s \in Logins
  PROVE  /\ WithLogin(s) \in [Logins -> Nat]
         /\ \A r \in Logins : r # s => WithLogin(s)[r] \in {expiry[r], 0}
<1>. DEFINE table == [expiry EXCEPT ![s] = now + Ttl]
            Kept(r) == /\ table[r] > now
                       /\ Cardinality({q \in Logins : q > r /\ table[q] > now}) < MaxEntries
<1>1. table \in [Logins -> Nat] /\ \A r \in Logins : r # s => table[r] = expiry[r]
  BY SignInAssumption DEF SignInAssumption, LoginsTypeOK
<1>2. WithLogin(s) = [r \in Logins |-> IF Kept(r) THEN table[r] ELSE 0]
  BY DEF WithLogin
<1>. HIDE DEF table, Kept
<1>. QED
  BY <1>1, <1>2

\* Logins are ended: the windows of the others and the file lose nothing.
LEMMA DiscardedWindows ==
  ASSUME SignInInv, UNCHANGED <<now, locked, issued>>, NEW gone \in SUBSET Logins, Discard(gone),
         \A s \in gone : LiveLogins(s), \A t \in Threads : request'[t] = request[t] \/ request'[t].at = "idle"
  PROVE  OnlyIssued' /\ WindowsShut'
<1>1. \A s \in Logins : /\ expiry'[s] \in {expiry[s], 0} /\ saved'[s] \in {saved[s], expiry'[s]}
                        /\ adminUntil'[s] \in {adminUntil[s], 0}
  BY Discarded
<1>2. OnlyIssued'
  BY <1>1 DEF SignInInv, OnlyIssued
<1>3. WindowsShut'
  <2>. SUFFICES ASSUME NEW s \in locked
                PROVE  /\ adminUntil'[s] <= now
                       /\ \A t \in Threads : request'[t].at = "touch" => request'[t].sid # s
    BY DEF WindowsShut
  <2>1. s \in Logins
    BY DEF SignInInv, LoginsTypeOK
  <2>2. adminUntil'[s] <= now
    BY <1>1, <2>1 DEF SignInInv, LoginsTypeOK, WindowsShut
  <2>. QED
    BY <2>2 DEF SignInInv, WindowsShut
<1>. QED
  BY <1>2, <1>3

\* Ending some logins, as long as no change of the password is finished by it.
LEMMA DiscardInv ==
  ASSUME SignInInv, UNCHANGED <<now, password, issued, proof, exempt, locked>>,
         NEW gone \in SUBSET Logins, Discard(gone), \A s \in gone : LiveLogins(s),
         request' \in [Threads -> Requests],
         \A t \in Threads : request'[t] = request[t] \/ (request'[t].at = "idle" /\ request[t].at = "admitted")
  PROVE  SignInInv'
<1>1. LoginsTypeOK' /\ EndedStaysEnded'
  BY Discarded DEF SignInInv, LoginsTypeOK
<1>2. OnlyIssued' /\ WindowsShut'
  BY DiscardedWindows
<1>3. ProofsArePast'
  BY DEF SignInInv, ProofsArePast
<1>4. OldLoginsSettled'
  <2>. SUFFICES ASSUME NEW s \in Logins \ exempt, expiry'[s] > now, proof[s] # password
                PROVE  \E t \in Threads : Settles(t, s)'
    BY DEF OldLoginsSettled, LiveLogins
  <2>1. expiry'[s] = IF s \in gone THEN 0 ELSE expiry[s]
    BY Discarded
  <2>2. LiveLogins(s)
    BY <2>1 DEF LiveLogins, SignInInv, LoginsTypeOK
  <2>3. PICK t \in Threads : Settles(t, s)
    BY <2>2 DEF SignInInv, OldLoginsSettled
  <2>4. request'[t] = request[t]
    BY <2>3 DEF Settles
  <2>5. Settles(t, s)'
    BY <2>3, <2>4 DEF Settles
  <2>. QED
    BY <2>5
<1>. QED
  BY <1>1, <1>2, <1>3, <1>4 DEF SignInInv

LEMMA RevokeInv == ASSUME SignInInv, NEW t \in Threads, Revoke(t) PROVE SignInInv'
<1>1. UNCHANGED <<now, password, issued, proof, exempt, locked>> /\ request[t].at = "admitted"
      /\ request' = [request EXCEPT ![t] = NoRequest]
  BY DEF Revoke
<1>2. PICK gone \in SUBSET Logins : Discard(gone) /\ \A s \in gone : LiveLogins(s)
  <2>1. PICK named \in {{s} : s \in Logins \ {request[t].sid}} \cup {{s \in Logins : s # request[t].sid}} :
            Discard({s \in named : LiveLogins(s)})
    BY DEF Revoke
  <2>2. {s \in named : LiveLogins(s)} \in SUBSET Logins
    BY DEF LiveLogins
  <2>. QED
    BY <2>1, <2>2
<1>3. request' \in [Threads -> Requests] /\ request'[t].at = "idle"
      /\ \A u \in Threads : u # t => request'[u] = request[u]
  BY <1>1, RequestEnds DEF SignInInv
<1>. QED
  BY <1>1, <1>2, <1>3, DiscardInv

LEMMA SignOutInv == ASSUME SignInInv, NEW s \in Logins, SignOut(s) PROVE SignInInv'
<1>1. UNCHANGED <<now, password, issued, proof, exempt, locked, request>> /\ LiveLogins(s) /\ Discard({s})
  BY DEF SignOut
<1>. QED
  BY <1>1, DiscardInv DEF SignInInv, LoginsTypeOK

\* A change ends every login but its own, whose proof becomes the newer of the
\* two it made: either it is the present password, or the change that set the
\* present one is still to end this login.
LEMMA EndOtherLoginsInv == ASSUME SignInInv, NEW t \in Threads, EndOtherLogins(t) PROVE SignInInv'
<1>. DEFINE keep == request[t].sid
            gone == {s \in Logins : LiveLogins(s) /\ s # keep}
<1>1. /\ UNCHANGED <<now, password, exempt, issued, locked>>
      /\ request[t].op = "change" /\ request[t].at = "stored"
      /\ request' = [request EXCEPT ![t] = NoRequest]
      /\ gone \in SUBSET Logins /\ Discard(gone) /\ \A s \in gone : LiveLogins(s)
  BY DEF EndOtherLogins
<1>2. request' \in [Threads -> Requests] /\ request'[t].at = "idle"
      /\ \A u \in Threads : u # t => request'[u] = request[u]
  BY <1>1, RequestEnds DEF SignInInv
<1>3. request[t].given \in Nat /\ request[t].given <= password
  BY <1>1 DEF SignInInv, LoginsTypeOK, Requests, ProofsArePast
<1>4. /\ proof' \in [Logins -> Nat]
      /\ \A s \in Logins : proof'[s] = IF s # keep THEN proof[s]
                                       ELSE IF proof[s] > request[t].given THEN proof[s] ELSE request[t].given
  BY <1>3 DEF EndOtherLogins, SignInInv, LoginsTypeOK
<1>5. /\ expiry' \in [Logins -> Nat] /\ saved' \in [Logins -> Nat] /\ adminUntil' \in [Logins -> Nat]
      /\ ended' \subseteq Logins /\ undone' \subseteq Logins /\ EndedStaysEnded'
      /\ \A s \in Logins : expiry'[s] = IF s \in gone THEN 0 ELSE expiry[s]
  <2>. HIDE DEF gone
  <2>. QED
    BY <1>1, Discarded
<1>6. LoginsTypeOK'
  BY <1>1, <1>2, <1>4, <1>5 DEF SignInInv, LoginsTypeOK
<1>7. OnlyIssued' /\ WindowsShut'
  <2>. HIDE DEF gone
  <2>. QED
    BY <1>1, <1>2, DiscardedWindows
<1>8. ProofsArePast'
  <2>1. \A s \in Logins : proof'[s] <= password
    BY <1>3, <1>4 DEF SignInInv, ProofsArePast
  <2>2. \A u \in Threads : /\ request'[u].at \in {"proved", "stored"} => request'[u].given <= password
                           /\ request'[u].at = "stored" => request'[u].op \in {"change", "first"}
    BY <1>2 DEF SignInInv, ProofsArePast
  <2>. QED
    BY <1>1, <2>1, <2>2 DEF ProofsArePast
<1>9. OldLoginsSettled'
  <2>. SUFFICES ASSUME NEW s \in Logins \ exempt, expiry'[s] > now, proof'[s] # password
                PROVE  \E u \in Threads : Settles(u, s)'
    BY <1>1 DEF OldLoginsSettled, LiveLogins
  <2>1. s \notin gone /\ LiveLogins(s)
    BY <1>5 DEF LiveLogins, SignInInv, LoginsTypeOK
  <2>2. s = keep
    BY <2>1
  <2>3. proof[s] # password /\ request[t].given # password
    BY <1>3, <1>4, <2>2 DEF SignInInv, LoginsTypeOK, ProofsArePast
  <2>4. PICK u \in Threads : Settles(u, s)
    BY <2>1, <2>3 DEF SignInInv, OldLoginsSettled
  <2>5. u # t
    BY <1>1, <2>2, <2>3, <2>4 DEF Settles
  <2>6. Settles(u, s)'
    BY <1>1, <1>2, <2>4, <2>5 DEF Settles
  <2>. QED
    BY <2>6
<1>. QED
  BY <1>5, <1>6, <1>7, <1>8, <1>9 DEF SignInInv

\* A login is issued to a request that proved a password there has been.
LEMMA Issued ==
  ASSUME SignInInv, NEW t \in Threads, NEW atConsole \in BOOLEAN,
         request[t].at \in {"proved", "stored"}, IssueLogin(issued + 1, request[t].given, atConsole),
         request' = [request EXCEPT ![t] = NoRequest], UNCHANGED <<now, password, locked>>,
         exempt' \subseteq Logins, OldLoginsSettled'
  PROVE  SignInInv'
<1>. DEFINE s == issued + 1
            by == request[t].given
<1>1. s \in Logins /\ issued' = s /\ expiry' = WithLogin(s) /\ UNCHANGED ended
  BY DEF IssueLogin
<1>2. request' \in [Threads -> Requests] /\ request'[t].at = "idle"
      /\ \A u \in Threads : u # t => request'[u] = request[u]
  BY RequestEnds DEF SignInInv
<1>3. by \in Nat /\ by <= password
  BY DEF SignInInv, LoginsTypeOK, Requests, ProofsArePast
<1>4. expiry' \in [Logins -> Nat] /\ \A r \in Logins : r # s => expiry'[r] \in {expiry[r], 0}
  <2>. HIDE DEF s
  <2>. QED
    BY <1>1, WithLoginTable DEF SignInInv
<1>5. proof' = [proof EXCEPT ![s] = by] /\ proof' \in [Logins -> Nat]
  BY <1>1, <1>3 DEF IssueLogin, SignInInv, LoginsTypeOK
<1>6. adminUntil' \in [Logins -> Nat] /\ \A r \in Logins : r # s => adminUntil'[r] = adminUntil[r]
  <2>1. now + UnlockSeconds \in Nat
    BY SignInAssumption DEF SignInAssumption, SignInInv, LoginsTypeOK
  <2>. QED
    BY <1>1, <2>1 DEF IssueLogin, SignInInv, LoginsTypeOK
<1>7. PICK ok \in BOOLEAN : Save(expiry', ended, ok)
  BY DEF IssueLogin
<1>8. /\ saved' \in [Logins -> Nat] /\ undone' \subseteq Logins
      /\ \A r \in Logins : saved'[r] \in {saved[r], expiry'[r]}
      /\ \A r \in ended \ undone' : expiry'[r] = 0 /\ saved'[r] = 0
  <2>. DEFINE table == expiry'
  <2>1. table \in [Logins -> Nat] /\ ended \in SUBSET Logins /\ Save(table, ended, ok) /\ LoginsTypeOK
    BY <1>4, <1>7 DEF SignInInv, LoginsTypeOK
  <2>. HIDE DEF table
  <2>2. /\ saved' \in [Logins -> Nat] /\ undone' \subseteq Logins
        /\ \A r \in Logins : saved'[r] \in {saved[r], table[r]}
        /\ \A r \in ended \ undone' : table[r] = 0 /\ saved'[r] = 0
    BY <2>1, Saved
  <2>. QED
    BY <2>2 DEF table
<1>9. LoginsTypeOK'
  BY <1>1, <1>2, <1>4, <1>5, <1>6, <1>8 DEF SignInInv, LoginsTypeOK, Logins
<1>10. OnlyIssued'
  <2>. SUFFICES ASSUME NEW r \in Logins, r > s PROVE expiry'[r] = 0 /\ saved'[r] = 0 /\ r \notin locked
    BY <1>1 DEF OnlyIssued
  <2>1. r > issued /\ r # s
    BY <1>1 DEF SignInInv, LoginsTypeOK, Logins
  <2>. QED
    BY <1>4, <1>8, <2>1 DEF SignInInv, OnlyIssued
<1>11. EndedStaysEnded'
  BY <1>1, <1>8 DEF EndedStaysEnded
<1>12. WindowsShut'
  <2>. SUFFICES ASSUME NEW r \in locked
                PROVE  /\ adminUntil'[r] <= now
                       /\ \A u \in Threads : request'[u].at = "touch" => request'[u].sid # r
    BY DEF WindowsShut
  <2>1. r \in Logins /\ r # s
    BY <1>1 DEF SignInInv, LoginsTypeOK, OnlyIssued
  <2>2. adminUntil'[r] <= now
    BY <1>6, <2>1 DEF SignInInv, WindowsShut
  <2>. QED
    BY <1>2, <2>2 DEF SignInInv, WindowsShut
<1>13. ProofsArePast'
  <2>1. \A r \in Logins : proof'[r] <= password
    BY <1>3, <1>5 DEF SignInInv, LoginsTypeOK, ProofsArePast
  <2>2. \A u \in Threads : /\ request'[u].at \in {"proved", "stored"} => request'[u].given <= password
                           /\ request'[u].at = "stored" => request'[u].op \in {"change", "first"}
    BY <1>2 DEF SignInInv, ProofsArePast
  <2>. QED
    BY <2>1, <2>2 DEF ProofsArePast
<1>. QED
  BY <1>9, <1>10, <1>11, <1>12, <1>13 DEF SignInInv

LEMMA SignedInInv ==
  ASSUME SignInInv, NEW t \in Threads, NEW atConsole \in BOOLEAN, SignedIn(t, atConsole)
  PROVE  SignInInv'
<1>. DEFINE s == issued + 1
<1>1. /\ request[t].at = "proved" /\ IssueLogin(s, request[t].given, atConsole)
      /\ request' = [request EXCEPT ![t] = NoRequest] /\ UNCHANGED <<now, password, locked>>
      /\ exempt' = IF request[t].given = password THEN exempt ELSE exempt \cup {s}
  BY DEF SignedIn
<1>2. s \in Logins /\ expiry' = WithLogin(s) /\ proof' = [proof EXCEPT ![s] = request[t].given]
  BY <1>1 DEF IssueLogin
<1>3. exempt' \subseteq Logins
  BY <1>1, <1>2 DEF SignInInv, LoginsTypeOK
<1>4. \A r \in Logins : r # s => expiry'[r] \in {expiry[r], 0}
  <2>. HIDE DEF s
  <2>. QED
    BY <1>2, WithLoginTable DEF SignInInv
<1>5. OldLoginsSettled'
  <2>. SUFFICES ASSUME NEW r \in Logins \ exempt', expiry'[r] > now, proof'[r] # password
                PROVE  \E u \in Threads : Settles(u, r)'
    BY <1>1 DEF OldLoginsSettled, LiveLogins
  <2>1. r # s
    BY <1>1, <1>2 DEF SignInInv, LoginsTypeOK
  <2>2. LiveLogins(r) /\ proof[r] # password /\ r \notin exempt
    BY <1>1, <1>2, <1>4, <2>1 DEF LiveLogins, SignInInv, LoginsTypeOK
  <2>3. PICK u \in Threads : Settles(u, r)
    BY <2>2 DEF SignInInv, OldLoginsSettled
  <2>4. request'[u] = request[u]
    BY <1>1, <2>3, RequestEnds DEF Settles, SignInInv
  <2>5. Settles(u, r)'
    BY <1>1, <2>3, <2>4 DEF Settles
  <2>. QED
    BY <2>5
<1>. QED
  BY <1>1, <1>3, <1>5, Issued

\* A first password leaves no login behind that is not exempt.
LEMMA SignInEnabledInv == ASSUME SignInInv, NEW t \in Threads, SignInEnabled(t) PROVE SignInInv'
<1>. DEFINE s == issued + 1
<1>1. /\ request[t].at = "stored" /\ IssueLogin(s, request[t].given, TRUE)
      /\ request' = [request EXCEPT ![t] = NoRequest] /\ UNCHANGED <<now, password, locked>>
      /\ exempt' = exempt \cup {r \in 1 .. s : proof'[r] # password}
  BY DEF SignInEnabled
<1>2. s \in Logins /\ expiry' = WithLogin(s)
  BY <1>1 DEF IssueLogin
<1>3. exempt' \subseteq Logins
  <2>1. 1 .. s \subseteq Logins /\ exempt \subseteq Logins
    BY <1>2, SignInAssumption DEF SignInAssumption, SignInInv, LoginsTypeOK, Logins
  <2>. QED
    BY <1>1, <2>1
<1>4. \A r \in Logins : r # s => expiry'[r] \in {expiry[r], 0}
  <2>. HIDE DEF s
  <2>. QED
    BY <1>2, WithLoginTable DEF SignInInv
<1>5. OldLoginsSettled'
  <2>. SUFFICES ASSUME NEW r \in Logins \ exempt', expiry'[r] > now, proof'[r] # password
                PROVE  FALSE
    BY <1>1 DEF OldLoginsSettled, LiveLogins
  <2>1. r \notin 1 .. s
    BY <1>1
  <2>2. r > issued /\ r # s
    BY <1>2, <2>1 DEF SignInInv, LoginsTypeOK, Logins
  <2>3. expiry'[r] = 0
    BY <1>4, <2>2 DEF SignInInv, OnlyIssued
  <2>. QED
    BY <2>3 DEF SignInInv, LoginsTypeOK
<1>. QED
  BY <1>1, <1>3, <1>5, Issued

LEMMA RestartInv == ASSUME SignInInv, Restart PROVE SignInInv'
<1>1. /\ request' = [t \in Threads |-> NoRequest] /\ expiry' = saved /\ adminUntil' = [s \in Logins |-> 0]
      /\ exempt' = {s \in Logins : saved[s] # 0 /\ proof[s] # password}
      /\ locked' = {s \in Logins : s <= issued}
      /\ UNCHANGED <<now, password, saved, issued, proof, ended, undone>>
  BY DEF Restart
<1>2. NoRequest \in Requests /\ NoRequest.at = "idle"
  BY SignInAssumption DEF SignInAssumption, NoRequest, Requests, Ops, Points
<1>3. LoginsTypeOK'
  <2>1. adminUntil' \in [Logins -> Nat] /\ request' \in [Threads -> Requests]
    BY <1>1, <1>2
  <2>. QED
    BY <1>1, <2>1 DEF SignInInv, LoginsTypeOK
<1>4. OnlyIssued'
  BY <1>1 DEF SignInInv, LoginsTypeOK, Logins, OnlyIssued
<1>5. EndedStaysEnded'
  BY <1>1 DEF SignInInv, EndedStaysEnded
<1>6. WindowsShut'
  BY <1>1, <1>2 DEF SignInInv, LoginsTypeOK, WindowsShut
<1>7. ProofsArePast'
  <2>1. \A t \in Threads : request'[t].at = "idle"
    BY <1>1, <1>2
  <2>. QED
    BY <1>1, <2>1 DEF SignInInv, ProofsArePast
<1>8. OldLoginsSettled'
  <2>. SUFFICES ASSUME NEW s \in Logins \ exempt', saved[s] > now, proof[s] # password
                PROVE  FALSE
    BY <1>1 DEF OldLoginsSettled, LiveLogins
  <2>. QED
    BY <1>1 DEF SignInInv, LoginsTypeOK
<1>. QED
  BY <1>3, <1>4, <1>5, <1>6, <1>7, <1>8 DEF SignInInv

LEMMA SignInStepInv == SignInInv /\ [SignInNext]_signInVars => SignInInv'
<1>. SUFFICES ASSUME SignInInv, [SignInNext]_signInVars PROVE SignInInv'
  OBVIOUS
<1>1. CASE UNCHANGED signInVars
  <2>1. UNCHANGED <<now, password, request, adminUntil, locked>> /\ UNCHANGED tableVars
    BY <1>1 DEF signInVars, tableVars
  <2>2. now' \in Nat /\ now' >= now /\ adminUntil' \in [Logins -> Nat] /\ locked' \subseteq Logins
    BY <2>1 DEF SignInInv, LoginsTypeOK
  <2>3. (\A s \in Logins : s > issued => s \notin locked') /\ WindowsShut'
    BY <2>1 DEF SignInInv, OnlyIssued, WindowsShut
  <2>. QED
    BY <2>1, <2>2, <2>3, RequestsSame
<1>2. CASE \E t \in Threads : Serve(t)
  BY <1>2, CheckGuessInv, RecordFailureInv, UnlockedInv, StorePasswordInv, SignInEnabledInv,
     EndOtherLoginsInv, GiveUpInv, ExtendWindowInv, RevokeInv, BeginChangeInv, SignedInInv DEF Serve
<1>. QED
  BY <1>1, <1>2, BeginGuessInv, AdminGateInv, SignOutInv, LockAdminInv, SignInTickInv, RestartInv
     DEF SignInNext

\* A login that was signed out, revoked or ended by a password change never
\* works again, however requests and restarts interleave, unless the file that
\* should have dropped it could not be written.
THEOREM EndedStaysEndedHolds == SignInSpec => []EndedStaysEnded
<1>1. SignInInv => EndedStaysEnded
  BY DEF SignInInv
<1>. QED
  BY <1>1, SignInInitInv, SignInStepInv, PTL DEF SignInSpec

\* A window that was locked with no request under way, or closed by a restart,
\* is opened by the password and by nothing else.
THEOREM LockedStaysLockedHolds == SignInSpec => []LockedStaysLocked
<1>1. SignInInv => LockedStaysLocked
  BY DEF SignInInv, LoginsTypeOK, WindowsShut, LockedStaysLocked, AdminOpen
<1>. QED
  BY <1>1, SignInInitInv, SignInStepInv, PTL DEF SignInSpec

\* Once no change of the password is under way, the logins that are left have
\* proved the present one, but for the exempt ones: also after two changes at
\* once, each of which keeps a login the other ends.
THEOREM OldLoginsEndHolds == SignInSpec => []OldLoginsEnd
<1>1. SignInInv => OldLoginsEnd
  BY DEF SignInInv, OldLoginsSettled, OldLoginsEnd, Quiet, Settles
<1>. QED
  BY <1>1, SignInInitInv, SignInStepInv, PTL DEF SignInSpec

-----------------------------------------------------------------------------
(* The limit on failed guesses                                             *)

\* The failures were recorded in the past, and the limit is kept.
Guesses == enabled \in BOOLEAN /\ attempts \in Seq(0 .. now) /\ GuessesBounded

\* Requests move on without a guess, or have theirs proved right.
Quieter == /\ Guessing' \subseteq Guessing /\ now' = now
           /\ attempts' = attempts \/ attempts' = <<>>

\* A guess was wrong.
GuessFails == /\ \E t \in Guessing : Guessing' \subseteq Guessing \ {t}
              /\ now' = now /\ attempts' = Append(Recent, now)

\* A request is let through to guess.
GuessAllowed == ~Limited /\ now' = now /\ attempts' = Recent

\* Time passes.
TimePasses == now' = now + 1 /\ attempts' = attempts /\ Guessing' = Guessing

LEMMA RecentType ==
  ASSUME now \in Nat, attempts \in Seq(0 .. now)
  PROVE  Recent \in Seq(0 .. now) /\ Len(Recent) \in Nat /\ Len(Recent) <= Len(attempts)
<1>1. Recent \in Seq(0 .. now) /\ Len(Recent) <= Len(attempts)
  BY SelectType DEF Recent
<1>. QED
  BY <1>1

LEMMA GuessersType ==
  ASSUME NEW G, G \subseteq Threads
  PROVE  IsFiniteSet(G) /\ Cardinality(G) \in Nat /\ Cardinality(G) <= Cardinality(Threads)
BY SignInAssumption, FS_Subset, FS_CardinalityType DEF SignInAssumption

\* The step of a thread changes only its own place among those that guess.
LEMMA GuessingMoves ==
  ASSUME NEW t \in Threads, \A u \in Threads : u # t => request'[u] = request[u]
  PROVE  /\ request'[t].at \notin {"check", "wrong"} => Guessing' \subseteq Guessing \ {t}
         /\ request[t].at \in {"check", "wrong"} => Guessing' \subseteq Guessing
BY DEF Guessing

\* Fewer guess and no more failures count.
LEMMA QuieterBounded ==
  ASSUME LoginsTypeOK, Guesses, Quieter PROVE attempts' \in Seq(0 .. now') /\ GuessesBounded'
<1>1. now \in Nat /\ Guessing \subseteq Threads /\ Guessing' \subseteq Guessing /\ now' = now
  BY DEF LoginsTypeOK, Quieter, Guessing
<1>2. Cardinality(Guessing) \in Nat /\ Cardinality(Guessing') \in Nat /\ Cardinality(Guessing') <= Cardinality(Guessing)
  <2>1. IsFiniteSet(Guessing)
    BY <1>1, GuessersType
  <2>. QED
    BY <1>1, <2>1, FS_Subset, FS_CardinalityType
<1>3. Len(Recent) \in Nat
  BY <1>1, RecentType DEF Guesses
<1>4. attempts' \in Seq(0 .. now') /\ Len(Recent') \in Nat /\ Len(Recent') <= Len(Recent)
  <2>1. CASE attempts' = attempts
    BY <1>1, <1>3, <2>1 DEF Guesses, Recent
  <2>2. CASE attempts' = <<>>
    <3>1. Recent' = <<>>
      BY <2>2, SelectNone DEF Recent
    <3>. QED
      BY <1>1, <1>3, <2>2, <3>1
  <2>. QED
    BY <2>1, <2>2 DEF Quieter
<1>5. Cardinality(Threads) \in Nat /\ MaxAttempts \in Nat
  BY SignInAssumption, FS_CardinalityType DEF SignInAssumption
<1>. QED
  BY <1>2, <1>3, <1>4, <1>5 DEF Guesses, GuessesBounded

\* One failure more, of one that guesses no longer.
LEMMA GuessFailsBounded ==
  ASSUME LoginsTypeOK, Guesses, GuessFails PROVE attempts' \in Seq(0 .. now') /\ GuessesBounded'
<1>1. now \in Nat /\ Guessing \subseteq Threads /\ now' = now /\ attempts' = Append(Recent, now)
  BY DEF LoginsTypeOK, GuessFails, Guessing
<1>2. PICK t \in Guessing : Guessing' \subseteq Guessing \ {t}
  BY DEF GuessFails
<1>3. /\ Cardinality(Guessing) \in Nat /\ Cardinality(Guessing') \in Nat
      /\ Cardinality(Guessing') <= Cardinality(Guessing) - 1
  <2>1. IsFiniteSet(Guessing) /\ IsFiniteSet(Guessing \ {t})
    BY <1>1, GuessersType
  <2>2. Cardinality(Guessing \ {t}) = Cardinality(Guessing) - 1
    BY <2>1, FS_RemoveElement
  <2>3. Cardinality(Guessing') \in Nat /\ Cardinality(Guessing') <= Cardinality(Guessing \ {t})
    BY <1>2, <2>1, FS_Subset, FS_CardinalityType
  <2>. QED
    BY <2>1, <2>2, <2>3, FS_CardinalityType
<1>4. Recent \in Seq(0 .. now) /\ Len(Recent) \in Nat
  BY <1>1, RecentType DEF Guesses
<1>5. attempts' \in Seq(0 .. now') /\ Len(attempts') = Len(Recent) + 1
  BY <1>1, <1>4
<1>6. now' \in Nat
  BY <1>1
<1>7. Len(Recent') \in Nat /\ Len(Recent') <= Len(Recent) + 1
  <2>1. Recent' = Select(attempts', {f \in 0 .. now' : now' - f < Window})
    BY DEF Recent
  <2>2. Recent' \in Seq(0 .. now') /\ Len(Recent') <= Len(attempts')
    BY <1>5, <2>1, SelectType
  <2>. QED
    BY <1>5, <2>2
<1>8. Cardinality(Threads) \in Nat /\ MaxAttempts \in Nat
  BY SignInAssumption, FS_CardinalityType DEF SignInAssumption
<1>. QED
  BY <1>3, <1>4, <1>5, <1>7, <1>8 DEF Guesses, GuessesBounded

\* Below the limit all threads may guess.
LEMMA GuessAllowedBounded ==
  ASSUME LoginsTypeOK, Guesses, GuessAllowed PROVE attempts' \in Seq(0 .. now') /\ GuessesBounded'
<1>1. now \in Nat /\ Guessing' \subseteq Threads /\ now' = now /\ attempts' = Recent
  BY DEF LoginsTypeOK, GuessAllowed, Guessing
<1>2. Recent \in Seq(0 .. now) /\ Len(Recent) \in Nat
  BY <1>1, RecentType DEF Guesses
<1>3. attempts' \in Seq(0 .. now')
  BY <1>1, <1>2
<1>4. Len(Recent') \in Nat /\ Len(Recent') <= Len(Recent)
  <2>1. Recent' = Select(attempts', {f \in 0 .. now' : now' - f < Window})
    BY DEF Recent
  <2>2. Recent' \in Seq(0 .. now') /\ Len(Recent') <= Len(attempts')
    BY <1>3, <2>1, SelectType
  <2>. QED
    BY <1>1, <2>2
<1>5. MaxAttempts \in Nat /\ Len(Recent) <= MaxAttempts - 1
  BY <1>2, SignInAssumption DEF SignInAssumption, GuessAllowed, Limited
<1>6. Cardinality(Guessing') \in Nat /\ Cardinality(Guessing') <= Cardinality(Threads)
  BY <1>1, GuessersType
<1>7. Cardinality(Threads) \in Nat
  BY GuessersType
<1>. QED
  BY <1>2, <1>3, <1>4, <1>5, <1>6, <1>7 DEF GuessesBounded

\* Failures are forgotten.
LEMMA TimePassesBounded ==
  ASSUME LoginsTypeOK, Guesses, TimePasses PROVE attempts' \in Seq(0 .. now') /\ GuessesBounded'
<1>1. now \in Nat /\ now' = now + 1 /\ attempts' = attempts /\ Guessing' = Guessing /\ Guessing \subseteq Threads
  BY DEF LoginsTypeOK, TimePasses, Guessing
<1>2. Recent \in Seq(0 .. now) /\ Len(Recent) \in Nat
  BY <1>1, RecentType DEF Guesses
<1>3. attempts \in Seq(0 .. now) /\ attempts' \in Seq(0 .. now')
  BY <1>1 DEF Guesses
<1>4. Len(Recent') \in Nat /\ Len(Recent') <= Len(Recent)
  <2>. DEFINE S == {f \in 0 .. now' : now' - f < Window}
              U == {f \in 0 .. now : now - f < Window}
  <2>1. Recent' = Select(attempts, S) /\ Recent = Select(attempts, U)
    BY <1>1 DEF Recent
  <2>2. \A e \in 0 .. now : e \in S => e \in U
    BY <1>1, SignInAssumption DEF SignInAssumption
  <2>. HIDE DEF S, U
  <2>3. Len(Select(attempts, S)) <= Len(Select(attempts, U)) /\ Select(attempts, S) \in Seq(0 .. now)
    BY <1>3, <2>2, SelectMore, SelectType
  <2>. QED
    BY <2>1, <2>3
<1>5. Cardinality(Guessing) \in Nat /\ Cardinality(Threads) \in Nat /\ MaxAttempts \in Nat
  BY <1>1, GuessersType, SignInAssumption DEF SignInAssumption
<1>. QED
  BY <1>1, <1>2, <1>3, <1>4, <1>5 DEF Guesses, GuessesBounded

\* A request that t leaves in Quieter's way.
LEMMA QuietStep ==
  ASSUME NEW t \in Threads, \A u \in Threads : u # t => request'[u] = request[u],
         request'[t].at \notin {"check", "wrong"} \/ request[t].at \in {"check", "wrong"},
         now' = now, attempts' = attempts \/ attempts' = <<>>
  PROVE  Quieter
BY GuessingMoves DEF Quieter

LEMMA ServeGuesses ==
  ASSUME LoginsTypeOK, Guesses, NEW t \in Threads, Serve(t)
  PROVE  (Quieter \/ GuessFails \/ GuessAllowed) /\ enabled' \in BOOLEAN
<1>0. enabled \in BOOLEAN
  BY DEF Guesses
<1>1. CASE CheckGuess(t)
  <2>1. request[t].at \in {"check", "wrong"} /\ now' = now /\ attempts' = attempts /\ enabled' = enabled
    BY <1>1 DEF CheckGuess
  <2>2. \A u \in Threads : u # t => request'[u] = request[u]
    BY <1>1 DEF CheckGuess, Proving, LoginsTypeOK
  <2>. QED
    BY <1>0, <2>1, <2>2, QuietStep
<1>2. CASE RecordFailure(t)
  <2>1. t \in Guessing /\ now' = now /\ attempts' = Append(Recent, now) /\ enabled' = enabled
    BY <1>2 DEF RecordFailure, Guessing
  <2>2. request'[t].at = "idle" /\ \A u \in Threads : u # t => request'[u] = request[u]
    BY <1>2, RequestEnds DEF RecordFailure
  <2>3. Guessing' \subseteq Guessing \ {t}
    BY <2>2, GuessingMoves
  <2>. QED
    BY <1>0, <2>1, <2>3 DEF GuessFails
<1>3. CASE Unlocked(t)
  <2>1. request'[t].at = "idle" /\ \A u \in Threads : u # t => request'[u] = request[u]
    BY <1>3, RequestEnds DEF Unlocked
  <2>2. now' = now /\ attempts' = <<>> /\ enabled' = enabled
    BY <1>3 DEF Unlocked
  <2>. QED
    BY <1>0, <2>1, <2>2, QuietStep
<1>4. CASE StorePassword(t)
  <2>1. now' = now /\ attempts' = attempts /\ enabled' = enabled /\ request' = Proving(t, "stored", password + 1)
    BY <1>4 DEF StorePassword
  <2>2. "stored" \in Points /\ password + 1 \in Nat
    BY DEF Points, LoginsTypeOK
  <2>3. request'[t].at = "stored" /\ \A u \in Threads : u # t => request'[u] = request[u]
    BY <2>1, <2>2, RequestProved
  <2>. QED
    BY <1>0, <2>1, <2>3, QuietStep
<1>5. CASE SignInEnabled(t)
  <2>1. request'[t].at = "idle" /\ \A u \in Threads : u # t => request'[u] = request[u]
    BY <1>5, RequestEnds DEF SignInEnabled
  <2>2. now' = now /\ attempts' = <<>> /\ enabled' = TRUE
    BY <1>5 DEF SignInEnabled
  <2>. QED
    BY <2>1, <2>2, QuietStep
<1>6. CASE EndOtherLogins(t)
  <2>1. request'[t].at = "idle" /\ \A u \in Threads : u # t => request'[u] = request[u]
    BY <1>6, RequestEnds DEF EndOtherLogins
  <2>2. now' = now /\ attempts' = attempts /\ enabled' = enabled
    BY <1>6 DEF EndOtherLogins
  <2>. QED
    BY <1>0, <2>1, <2>2, QuietStep
<1>7. CASE GiveUp(t)
  <2>1. request'[t].at = "idle" /\ \A u \in Threads : u # t => request'[u] = request[u]
    BY <1>7, RequestEnds DEF GiveUp
  <2>2. now' = now /\ attempts' = attempts /\ enabled' = enabled
    BY <1>7 DEF GiveUp
  <2>. QED
    BY <1>0, <2>1, <2>2, QuietStep
<1>8. CASE ExtendWindow(t)
  <2>1. request'[t].at = "admitted" /\ \A u \in Threads : u # t => request'[u] = request[u]
    BY <1>8, RequestAt DEF ExtendWindow, Points
  <2>2. now' = now /\ attempts' = attempts /\ enabled' = enabled
    BY <1>8 DEF ExtendWindow
  <2>. QED
    BY <1>0, <2>1, <2>2, QuietStep
<1>9. CASE Revoke(t)
  <2>1. request'[t].at = "idle" /\ \A u \in Threads : u # t => request'[u] = request[u]
    BY <1>9, RequestEnds DEF Revoke
  <2>2. now' = now /\ attempts' = attempts /\ enabled' = enabled
    BY <1>9 DEF Revoke
  <2>. QED
    BY <1>0, <2>1, <2>2, QuietStep
<1>10. CASE BeginChange(t)
  BY <1>0, <1>10 DEF BeginChange, PassLimit, GuessAllowed
<1>11. ASSUME NEW atConsole \in BOOLEAN, SignedIn(t, atConsole)
       PROVE  Quieter /\ enabled' \in BOOLEAN
  <2>1. request'[t].at = "idle" /\ \A u \in Threads : u # t => request'[u] = request[u]
    BY <1>11, RequestEnds DEF SignedIn
  <2>2. now' = now /\ attempts' = <<>> /\ enabled' = enabled
    BY <1>11 DEF SignedIn
  <2>. QED
    BY <1>0, <2>1, <2>2, QuietStep
<1>. QED
  BY <1>1, <1>2, <1>3, <1>4, <1>5, <1>6, <1>7, <1>8, <1>9, <1>10, <1>11 DEF Serve

LEMMA StepGuesses ==
  ASSUME LoginsTypeOK, Guesses, [SignInNext]_signInVars
  PROVE  (Quieter \/ GuessFails \/ GuessAllowed \/ TimePasses) /\ enabled' \in BOOLEAN
<1>0. enabled \in BOOLEAN
  BY DEF Guesses
<1>1. CASE \E t \in Threads : Serve(t)
  BY <1>1, ServeGuesses
<1>2. ASSUME NEW t \in Threads, NEW op, NEW s, BeginGuess(t, op, s)
      PROVE  GuessAllowed /\ enabled' \in BOOLEAN
  BY <1>0, <1>2 DEF BeginGuess, PassLimit, GuessAllowed
<1>3. ASSUME NEW t \in Threads, NEW s \in Logins, AdminGate(t, s)
      PROVE  Quieter /\ enabled' \in BOOLEAN
  <2>1. "admin" \in Ops /\ "touch" \in Points /\ s \in 0 .. MaxLogins
    BY DEF Ops, Points, Logins
  <2>2. request'[t].at = "touch" /\ \A u \in Threads : u # t => request'[u] = request[u]
    BY <1>3, <2>1, RequestBegins DEF AdminGate
  <2>3. now' = now /\ attempts' = attempts /\ enabled' = enabled
    BY <1>3 DEF AdminGate
  <2>. QED
    BY <1>0, <2>2, <2>3, QuietStep
<1>4. ASSUME NEW s \in Logins, SignOut(s) \/ LockAdmin(s)
      PROVE  Quieter /\ enabled' \in BOOLEAN
  <2>1. now' = now /\ attempts' = attempts /\ enabled' = enabled /\ request' = request
    BY <1>4 DEF SignOut, LockAdmin
  <2>. QED
    BY <1>0, <2>1 DEF Quieter, Guessing
<1>5. CASE Tick
  BY <1>0, <1>5 DEF Tick, TimePasses, Guessing
<1>6. CASE Restart
  <2>1. now' = now /\ attempts' = <<>> /\ enabled' \in BOOLEAN /\ request' = [t \in Threads |-> NoRequest]
    BY <1>6 DEF Restart
  <2>2. Guessing' = {}
    BY <2>1 DEF Guessing, NoRequest
  <2>. QED
    BY <2>1, <2>2 DEF Quieter
<1>7. CASE UNCHANGED signInVars
  BY <1>0, <1>7 DEF signInVars, Quieter, Guessing
<1>. QED
  BY <1>1, <1>2, <1>3, <1>4, <1>5, <1>6, <1>7 DEF SignInNext

LEMMA GuessesInit == SignInInit => Guesses
<1>. SUFFICES ASSUME SignInInit PROVE Guesses
  OBVIOUS
<1>1. enabled \in BOOLEAN /\ attempts = <<>> /\ now = 1
  BY Zenon DEF SignInInit
<1>2. Guessing = {}
  BY DEF SignInInit, Guessing, NoRequest
<1>3. Recent = <<>>
  BY <1>1, SelectNone DEF Recent
<1>4. Cardinality(Guessing) = 0 /\ Cardinality(Threads) \in Nat /\ MaxAttempts \in Nat \ {0}
  BY <1>2, GuessersType, FS_EmptySet, SignInAssumption DEF SignInAssumption
<1>5. Len(Recent) = 0 /\ attempts \in Seq(0 .. now)
  BY <1>1, <1>3
<1>. QED
  BY <1>1, <1>4, <1>5 DEF Guesses, GuessesBounded

LEMMA GuessesStep == SignInInv /\ Guesses /\ [SignInNext]_signInVars => Guesses'
<1>. SUFFICES ASSUME SignInInv, Guesses, [SignInNext]_signInVars PROVE Guesses'
  OBVIOUS
<1>1. LoginsTypeOK
  BY DEF SignInInv
<1>2. (Quieter \/ GuessFails \/ GuessAllowed \/ TimePasses) /\ enabled' \in BOOLEAN
  BY <1>1, StepGuesses
<1>3. attempts' \in Seq(0 .. now') /\ GuessesBounded'
  BY <1>1, <1>2, QuieterBounded, GuessFailsBounded, GuessAllowedBounded, TimePassesBounded
<1>. QED
  BY <1>2, <1>3 DEF Guesses

\* The variables of signing in keep their types.
THEOREM SignInTypeCorrect == SignInSpec => []SignInTypeOK
<1>1. SignInInv /\ Guesses => SignInTypeOK
  <2>. SUFFICES ASSUME SignInInv, Guesses PROVE SignInTypeOK
    OBVIOUS
  <2>1. attempts \in Seq(Nat)
    <3>1. now \in Nat /\ attempts \in Seq(0 .. now)
      BY DEF SignInInv, LoginsTypeOK, Guesses
    <3>. QED
      BY <3>1
  <2>. QED
    BY <2>1, Zenon DEF SignInInv, LoginsTypeOK, Guesses, SignInTypeOK, Requests
<1>. QED
  BY <1>1, SignInInitInv, SignInStepInv, GuessesInit, GuessesStep, PTL DEF SignInSpec

\* However many threads check, fail and record at once, and whatever restarts
\* and clearings come between, an address has at most one guess per thread
\* beyond the limit within a window.
THEOREM GuessesBoundedHolds == SignInSpec => []GuessesBounded
<1>1. Guesses => GuessesBounded
  BY DEF Guesses
<1>. QED
  BY <1>1, SignInInitInv, SignInStepInv, GuessesInit, GuessesStep, PTL DEF SignInSpec
=============================================================================
