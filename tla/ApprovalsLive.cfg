SPECIFICATION FairSpec
CONSTANTS
    ann = ann
    bob = bob
    cat = cat
    p1 = p1
    None = None
    Users = {ann, bob}
    Args = {ghost}
    Resolvable = {}
    Actions = {p1, p2, p3}
    Requests = {r1, r2, r3}
    Grants <- TwoUsers
    Edits <- NoEdits
    Workload <- LifeCalls
    TTL = 1
    MaxTime = 0
PROPERTIES
    RequestsComplete
