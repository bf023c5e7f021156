SPECIFICATION Spec
CONSTANTS
    cloud = cloud
    spare = spare
    local = local
    None = None
    GatewayCalls = {c1, c2}
    Models = {cloud, local}
    Routes <- OneRoute
    Egressing = {cloud}
    Disabled = {}
    MaxAttempts = 2
    Threshold = 2
    Cooldown = 1
    Deadline = 2
    Delays = {0, 1}
    MaxTime = 3
    Faults = {"timeout", "not_found"}
    LossyRecorder = FALSE
SYMMETRY AnyCall
INVARIANTS
    BreakersAreSound
    NoSplice
