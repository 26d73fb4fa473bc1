\* automations.json: _AUTOMATIONS_FILE_LOCK is held for the whole save.
CONSTANTS
    w1 = w1
    w2 = w2
    w3 = w3
    Writers <- MCWriters
    SerializedSaves = TRUE
    ReplaceTries = 3
    MaxChanges = 5

SPECIFICATION FairSpec

INVARIANT QuietMeansSaved
PROPERTY SavesLandInOrder
PROPERTY SavesEnd
PROPERTY ImplementsDurableState

CHECK_DEADLOCK TRUE
