---------------------------- MODULE MCApprovals ----------------------------
(* Instances of Approvals for TLC. *)
EXTENDS Approvals, TLC
CONSTANTS ann, bob, cat, p1

\* ann may request, bob may request and approve, cat may only approve.
TwoUsers == (ann :> {"vpn:create", "ticket:create"})
            @@ (bob :> {"vpn:create", "vpn:approve"})
ThreeUsers == (ann :> {"vpn:create", "ticket:create"})
              @@ (bob :> {"vpn:create", "vpn:approve"}) @@ (cat :> {"vpn:approve"})

NoEdits == {}
\* The requester may lose the permission or be deactivated at any time.
SomeEdits == {<<ann, "vpn:create">>, <<ann, "is_active">>}

Tool(name) == [op |-> "run_tool", tool |-> name]
Proposals == {c \in Calls : c.op = "run_tool" /\ c.tool = "create_vpn_profile"}
Confirmations(requesters) ==
    [op : {"approve"}, action : {p1}, confirm : Args \X requesters]
Rejections == [op : {"reject"}, action : {p1}]

\* Everything that can happen to one action, and a call with refused arguments.
RaceCalls == Proposals \cup Confirmations({ann, bob}) \cup Rejections \cup {Tool("invalid")}

\* One of each operation on the same action, and a tool that needs no approval.
LifeCalls == Proposals \cup Confirmations({ann}) \cup Rejections \cup {Tool("ticket")}

AnyRequest == Permutations(Requests)
============================================================================
