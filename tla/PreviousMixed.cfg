\* An upload whose second copy of the pair it replaces fails.
CONSTANTS
    t1 = t1
    t2 = t2
    Threads <- MCThreads
    MaxEntries = 2
    MaxAttempts = 2
    Window = 1
    Ttl = 2
    UnlockSeconds = 1
    InitialPasswords = {0}
    MaxLogins = 1
    MaxPasswords = 2
    MaxTime = 2
    MaxUploads = 2

SPECIFICATION ConsoleSpec
SYMMETRY MCSymmetry
CHECK_DEADLOCK FALSE

INVARIANT FailedUploadKeepsPrevious
