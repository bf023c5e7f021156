SPECIFICATION Spec
CONSTANTS
    ann = ann
    bob = bob
    vpn = vpn
    chat = chat
    side = side
    q1 = q1
    q2 = q2
    q3 = q3
    None = None
    Users = {ann, bob}
    Args = {vpn}
    Actions = {p1, p2, p3}
    Conversations = {chat, side}
    Questions = {q1, q2, q3}
    Wanted <- TwoThreads
    MaxTurns = 1
VIEW WithoutTrail
SYMMETRY AnyAction
INVARIANTS
    ThreadsAreSound
    ToldTruthfully
