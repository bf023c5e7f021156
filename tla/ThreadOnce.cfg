SPECIFICATION Spec
CONSTANTS
    ann = ann
    bob = bob
    vpn = vpn
    chat = chat
    side = side
    q1 = q1
    q2 = q2
    q3 = q3
    None = None
    Users = {ann, bob}
    Args = {vpn}
    Actions = {p1, p2}
    Conversations = {chat}
    Questions = {q1}
    Wanted <- OneQuestion
    MaxTurns = 0
VIEW WithoutTrail
SYMMETRY AnyAction
INVARIANTS
    ExecutedOncePerQuestion
