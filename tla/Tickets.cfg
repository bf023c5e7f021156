SPECIFICATION Spec
CONSTANTS
    ann = ann
    bob = bob
    cat = cat
    vpn = vpn
    None = None
    Requests = {r1, r2, r3}
    Users = {ann, bob, cat}
    Holders = {ann, bob}
    Texts = {vpn}
    Rate = 1
    Burst = 2
    Cost = 2
    Idle = 4
    MaxSkew = 1
    Window = 2
    MaxTime = 4
SYMMETRY AnyRequest
INVARIANTS
    TicketsAreSound
    RateBounded
CHECK_DEADLOCK FALSE
