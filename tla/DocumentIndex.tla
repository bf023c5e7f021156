--------------------------- MODULE DocumentIndex ---------------------------
(***************************************************************************)
(* What the knowledge index promises its readers: a search sees one        *)
(* version of a document or none, a new version replaces the old one at    *)
(* once, what is already shown is never published again, and every version *)
(* stays on record for the citations that name it.                         *)
(***************************************************************************)
EXTENDS Sequences

CONSTANTS Keys, Versions, None

VARIABLES
    shown,   \* key -> the version a search sees, or None
    record   \* key -> the versions published so far

Init ==
    /\ shown = [k \in Keys |-> None]
    /\ record = [k \in Keys |-> << >>]

Publish(k, v) ==
    /\ shown[k] # v
    /\ shown' = [shown EXCEPT ![k] = v]
    /\ record' = [record EXCEPT ![k] = Append(@, v)]

Withdraw(k) ==
    /\ shown' = [shown EXCEPT ![k] = None]
    /\ UNCHANGED record

Next == \E k \in Keys : Withdraw(k) \/ \E v \in Versions : Publish(k, v)

Spec == Init /\ [][Next]_<<shown, record>>
=============================================================================
