CONSTANTS
    q1 = q1
    q2 = q2
    s1 = s1
    s2 = s2
    t1 = t1
    None = None
    Query = {q1, q2}
    Stream = {s1, s2}
    Table = {t1}
    Reads <- RestartReads
    Private = {}
    Unloadable = {q2}
    Kinds <- MostKinds
    Paced = TRUE
    Again = {}
    MaxFlight = 0
    MaxCrashes = 2
SPECIFICATION RSpec
INVARIANTS RTypeOK OwnReplies AgreeAgain Remembered
PROPERTY RecoveryEnds
CHECK_DEADLOCK FALSE
