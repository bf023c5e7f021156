SPECIFICATION Spec
CONSTANTS
    ann = ann
    bob = bob
    cat = cat
    p1 = p1
    None = None
    Users = {ann, bob, cat}
    Args = {known}
    Resolvable = {known}
    Actions = {p1}
    Requests = {r1, r2, r3}
    Grants <- ThreeUsers
    Edits <- SomeEdits
    Workload <- RaceCalls
    TTL = 0
    MaxTime = 1
SYMMETRY AnyRequest
INVARIANTS
    ExecutedAtMostOnce
    ExecutionIsAccountable
    SeparationOfDuties
    IndInv
    AuditChainIntact
    AuditedExactlyOnce
PROPERTIES
    LapsedNeverExecutes
    ImplementsLedger
