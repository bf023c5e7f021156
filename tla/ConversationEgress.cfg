SPECIFICATION Spec
CONSTANTS
    ann = ann
    bob = bob
    t1 = t1
    t2 = t2
    small = small
    None = None
    Turns = {t1, t2}
    Streams = {}
    Users = {ann, bob}
    Asker <- AnnAsks
    Models = {small}
    Wants <- DefaultRoute
    Levels = {2, 3, 0}
    EgressMax = 2
    MaxMessages = 3
    Budget = 4
    Trigger = 12
    TranscriptMax = 2
    SummaryMax = 2
    MaxOpen = 2
PROPERTY
    RestrictionIsOneWay
