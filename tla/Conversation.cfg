SPECIFICATION Spec
CONSTANTS
    ann = ann
    bob = bob
    t1 = t1
    t2 = t2
    small = small
    None = None
    Turns = {t1, t2}
    Streams = {t1}
    Users = {ann, bob}
    Asker <- AnnAsks
    Models = {small}
    Wants <- SmallOnce
    Levels = {0, 2, 3}
    EgressMax = 2
    MaxMessages = 3
    Budget = 4
    Trigger = 1
    TranscriptMax = 2
    SummaryMax = 2
    MaxOpen = 2
INVARIANTS
    RepliesAreTrue
    CallsAreAllowed
    SummaryFollowsMark
    NoTurnSentTwice
PROPERTY
    TurnsEnd
