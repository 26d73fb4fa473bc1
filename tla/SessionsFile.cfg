\* sessions.json: persist_sessions takes no lock.
CONSTANTS
    w1 = w1
    w2 = w2
    w3 = w3
    Writers <- MCWriters
    SerializedSaves = FALSE
    ReplaceTries = 2
    MaxChanges = 3

SPECIFICATION Spec

INVARIANT QuietMeansSaved
