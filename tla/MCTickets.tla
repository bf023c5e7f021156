----------------------------- MODULE MCTickets -----------------------------
(* Instances of Tickets for TLC. *)
EXTENDS Tickets, TLC
CONSTANTS ann, bob, cat, vpn  \* cat may not raise tickets

AnyRequest == Permutations(Requests)
=============================================================================
