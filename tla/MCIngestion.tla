---------------------------- MODULE MCIngestion ----------------------------
(* Instances of Ingestion for TLC. *)
EXTENDS Ingestion, TLC
CONSTANTS j1, j2

Plain == [writes |-> {"it"}, perms |-> {}, asked |-> None, suffix |-> "md", size |-> "ok",
          secret |-> FALSE, claims |-> [department |-> None, class |-> None]]
Secret == [Plain EXCEPT !.suffix = "pdf", !.asked = "confidential", !.perms = {"it:confidential"}]

\* One reason to be refused each.
Refused == {
    [Plain EXCEPT !.writes = {}], [Plain EXCEPT !.writes = {"it", "hr"}],
    [Plain EXCEPT !.suffix = "exe"], [Plain EXCEPT !.asked = "confidential"],
    [Plain EXCEPT !.asked = "public"], [Plain EXCEPT !.size = "large"],
    [Plain EXCEPT !.size = "empty"], [Plain EXCEPT !.secret = TRUE],
    [Plain EXCEPT !.claims.department = "hr"], [Plain EXCEPT !.claims.class = "public"]}

\* With a second class of PDF the state space triples; IngestionProofs covers any offers.
SomeOffers == {Plain, Secret} \cup Refused
=============================================================================
