--------------------------- MODULE MCAgentThread ---------------------------
(* Instances of AgentThread for TLC. *)
EXTENDS AgentThread, TLC
CONSTANTS ann, bob, vpn, chat, side, q1, q2, q3

Want(c, u) == [conversation |-> c, user |-> u, args |-> vpn]

\* ann asks twice in one conversation and bob once in another.
TwoThreads == (q1 :> Want(chat, ann)) @@ (q2 :> Want(chat, ann)) @@ (q3 :> Want(side, bob))
OneQuestion == q1 :> Want(chat, ann)

\* No guard and no property here reads the trail: states that differ only in it
\* have the same successors.
WithoutTrail == <<actions, issued, asked, turns, thread, origin, deciding, told>>

AnyAction == Permutations(Actions)
=============================================================================
