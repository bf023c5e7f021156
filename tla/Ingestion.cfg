SPECIFICATION Spec
CONSTANTS
    j1 = j1
    j2 = j2
    None = None
    Jobs = {j1, j2}
    Offers <- SomeOffers
    MaxKey = 2
    MaxRetries = 1
    MaxFaults = 2
    MaxDeletions = 1
INVARIANTS
    IndexIsSound
    JobsAreTrue
    IndexedAsUploaded
    MissingOnlyByDeletion
PROPERTIES
    ImplementsIndex
    MessagesSettle
CHECK_DEADLOCK FALSE
