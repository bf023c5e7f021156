SPECIFICATION FairSpec
CONSTANTS
    cloud = cloud
    spare = spare
    local = local
    None = None
    GatewayCalls = {c1}
    Models = {cloud, spare, local}
    Routes <- PickerRoutes
    Egressing = {cloud}
    Disabled = {spare}
    MaxAttempts = 2
    Threshold = 2
    Cooldown = 1
    Deadline = 2
    Delays = {0, 1}
    MaxTime = 3
    Faults = {"timeout", "transient", "auth", "malformed", "not_found", "bad_request"}
    LossyRecorder = TRUE
INVARIANTS
    FollowsRoute
    EveryAttemptAccounted
    HonestResult
PROPERTIES
    CallsEnd
