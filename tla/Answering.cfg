SPECIFICATION Spec
CONSTANTS
    None = None
    Unreadable = Unreadable
    Chunks <- SomeChunks
    Departments = {"it", "hr"}
    IndexModel = "nomic"
    Candidates = 3
    TopK = 2
    Threshold = 60
    Margin = 10
    ReviewMargin = 10
    ReviewMax = 2
    RRF_K = 60
    Scale = 238266
    Permissions <- SomePermissions
    Held = {None, "confidential"}
    Moving = {"runbook", "leave"}
    EgressMax = "internal"
    Replies <- SomeReplies
    Verdicts = {{}, {0, 1}, {2, 3}, {1, 2}}
    Small = "small"
    Large = "large"
INVARIANTS
    SourcesAreSound
    OnlyPermittedText
    StaysOnTheBox
    BestAnswerShown
CHECK_DEADLOCK FALSE
