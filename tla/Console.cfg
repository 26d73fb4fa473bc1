\* Two threads, three logins and two passwords; two certificates uploaded.
CONSTANTS
    t1 = t1
    t2 = t2
    Threads <- MCThreads
    MaxEntries = 2
    MaxAttempts = 2
    Window = 1
    Ttl = 2
    UnlockSeconds = 1
    InitialPasswords = {0, 1}
    MaxLogins = 3
    MaxPasswords = 2
    MaxTime = 2
    MaxUploads = 2

SPECIFICATION ConsoleSpec
SYMMETRY MCSymmetry
CHECK_DEADLOCK FALSE

INVARIANT EndedStaysEnded
INVARIANT GuessesBounded
INVARIANT LockedStaysLocked
INVARIANT OldLoginsEnd
INVARIANT FilesAreServed
INVARIANT PreviousIsReplaced
