---------------------------- MODULE ActionLedger ----------------------------
(***************************************************************************)
(* What the approval protocol promises, with no transactions, locks or     *)
(* requests: a ledger of sensitive actions in which opening, executing and *)
(* closing an action are single steps, each one together with its line in  *)
(* the audit trail.  Approvals implements it.                              *)
(***************************************************************************)
EXTENDS Naturals, Sequences

CONSTANTS Users, Args, Actions, None

VARIABLES
    actions,  \* [Actions -> state, requester, args, approver]
    issued,   \* profiles handed out: [action, args, requested_by, approved_by]
    trail     \* the audit trail: <<decision, action>> pairs

ledger == <<actions, issued, trail>>

Absent == [state |-> "none", requester |-> None, args |-> None, approver |-> None]

Init ==
    /\ actions = [p \in Actions |-> Absent]
    /\ issued = {}
    /\ trail = << >>

Open(p) ==
    /\ actions[p] = Absent
    /\ \E u \in Users, a \in Args :
         actions' = [actions EXCEPT ![p] = [state |-> "open", requester |-> u,
                                            args |-> a, approver |-> None]]
    /\ trail' = Append(trail, <<"pending", p>>)
    /\ UNCHANGED issued

Settled(p, state, approver) ==
    [state |-> state, requester |-> actions[p].requester, args |-> actions[p].args,
     approver |-> approver]

\* Somebody else than the requester has the action executed: once, as asked.
Execute(p) ==
    /\ actions[p].state = "open"
    /\ \E v \in Users :
         /\ v # actions[p].requester
         /\ actions' = [actions EXCEPT ![p] = Settled(p, "executed", v)]
         /\ issued' = issued \cup {[action |-> p, args |-> actions[p].args,
                                    requested_by |-> actions[p].requester,
                                    approved_by |-> v]}
    /\ trail' = Append(trail, <<"executed", p>>)

Close(p) ==
    /\ actions[p].state = "open"
    /\ \E v \in Users \cup {None} :
         actions' = [actions EXCEPT ![p] = Settled(p, "closed", v)]
    /\ \E d \in {"deny", "error"} : trail' = Append(trail, <<d, p>>)
    /\ UNCHANGED issued

\* A decision that moves no action: a denial, or a tool that needs no approval.
Note ==
    /\ \E d \in {"deny", "error", "executed"}, p \in Actions \cup {None} :
         /\ d = "executed" => p = None
         /\ trail' = Append(trail, <<d, p>>)
    /\ UNCHANGED <<actions, issued>>

Next == (\E p \in Actions : Open(p) \/ Execute(p) \/ Close(p)) \/ Note

Spec == Init /\ [][Next]_ledger
=============================================================================
