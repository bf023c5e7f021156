--------------------------- MODULE MCConversation ---------------------------
(* Instances of Conversation for TLC. *)
EXTENDS Conversation, TLC
CONSTANTS ann, bob, t1, t2, small

AnnAsks == [t \in Turns |-> ann]
SmallOnce == [t \in Turns |-> IF t = t1 THEN small ELSE None]
DefaultRoute == [t \in Turns |-> None]
=============================================================================
