------------------------------ MODULE Approvals ------------------------------
(***************************************************************************)
(* The sensitive-action protocol of OpsAssist: tools/executor.py (run_tool,*)
(* approve_pending, reject_pending), the hash-chained audit log of         *)
(* policy/audit.py it writes in the same transaction, and the principal    *)
(* auth.py loads when a request arrives.                                   *)
(*                                                                         *)
(* Every HTTP request is a process.  It reads its principal in a session   *)
(* of its own (Arrive), runs one operation inside one READ COMMITTED       *)
(* transaction (the Decide actions, which take the row lock of the pending *)
(* action when the code says FOR UPDATE), waits for the advisory lock of   *)
(* the audit log (LockAudit), and commits everything it buffered (Commit)  *)
(* or loses everything (Abort: an exception, a cancelled request or a      *)
(* crash).  Between any two of these steps other requests, the clock and   *)
(* an administrator who edits the users table may move.                    *)
(***************************************************************************)
EXTENDS Naturals, Sequences, FiniteSets

CONSTANTS
    Users,       \* rows of the users table
    Args,        \* validated argument objects of create_vpn_profile
    Actions,     \* uuid4 values a pending action may be given
    Requests,    \* HTTP requests; each runs once
    Grants,      \* the permissions the users table starts with
    Edits,       \* the edits of the users table an administrator may make
    Workload,    \* the calls clients may make
    Resolvable,  \* arguments whose employee resolve_employee finds
    TTL,         \* PENDING_TTL in clock units
    MaxTime,     \* bound on the clock
    None         \* SQL NULL, and "no holder" of a lock

Perms == {"vpn:create", "vpn:approve", "ticket:create"}

ASSUME GrantsAssumption == Grants \in [Users -> SUBSET Perms]
ASSUME EditsAssumption == Edits \subseteq Users \X (Perms \cup {"is_active"})
ASSUME BoundsAssumption == TTL \in Nat /\ MaxTime \in Nat /\ Resolvable \subseteq Args

VARIABLES
    users,      \* users table: is_active and permissions
    pending,    \* pending_actions table; status "absent" is no row
    profiles,   \* vpn_profiles table
    results,    \* requests whose non-sensitive tool left a committed result
    log,        \* audit_log table, in id order
    vpnSeq,     \* vpn_profile_seq: nextval survives a rollback
    now,        \* the clock both the service and the database read
    rowLock,    \* FOR UPDATE lock on a pending_actions row
    auditLock,  \* pg_advisory_xact_lock(AUDIT_LOCK)
    pc,         \* how far a request has come
    who,        \* the principal it read when it arrived
    call,       \* the operation it asked for
    reply,      \* what it was answered
    tx,         \* what its open transaction has written so far
    prev        \* the last audit hash its transaction has read

tables == <<pending, profiles, results, log>>
locks == <<rowLock, auditLock>>
requests == <<pc, who, call, reply, tx, prev>>
vars == <<users, tables, vpnSeq, now, locks, requests>>

-----------------------------------------------------------------------------
(* Rows and records *)

Final == {"executed", "rejected", "expired", "failed"}
Hashes == Args \X Users

\* sha256 over tool, arguments and requester, collision free.
action_hash(args, requester) == <<args, requester>>

Row == [status : {"absent", "pending"} \cup Final,
        requester : Users \cup {None}, args : Args \cup {None},
        hash : Hashes \cup {None}, approver : Users \cup {None},
        expires : Nat]
NoRow == [status |-> "absent", requester |-> None, args |-> None,
          hash |-> None, approver |-> None, expires |-> 0]

Profile == [id : Nat, args : Args, requested_by : Users,
            approved_by : Users, action : Actions]

AuditEntry == [request : Requests, actor : Users,
               event : {"tool_call", "approval"},
               decision : {"deny", "pending", "executed", "error"},
               action : Actions \cup {None}, hash : Hashes \cup {None}]

ASSUME NoneAssumption ==
    None \notin Users \cup Args \cup Actions \cup Requests \cup Hashes
              \cup AuditEntry \cup Profile

\* A hash names the whole history it was computed over: that is what a
\* collision-free sha256(prev_hash || record) is for the reader of the chain.
GENESIS == << >>
record_hash(last, entry) == Append(last, entry)
AuditRow == [prev : Seq(AuditEntry), entry : AuditEntry, hash : Seq(AuditEntry)]

LastHash == IF log = << >> THEN GENESIS ELSE log[Len(log)].hash

Principal == [user : Users, perms : SUBSET Perms]
principal_of(u) == [user |-> u, perms |-> users[u].perms]

\* run_tool on the sensitive tool with valid arguments, on a non-sensitive tool
\* ("ticket"), on a name the registry does not know, or with arguments the
\* tool's schema rejects.
Calls == [op : {"run_tool"}, tool : {"create_vpn_profile"}, args : Args]
    \cup [op : {"run_tool"}, tool : {"ticket", "unknown", "invalid"}]
    \cup [op : {"approve"}, action : Actions, confirm : Hashes]
    \cup [op : {"reject"}, action : Actions]
ASSUME WorkloadAssumption == Workload \subseteq Calls

PCs == {"new", "open", "auditing", "committing", "done"}
Replies == {"none", "ok", "denied", "pending", "error", "lost"}

\* What a transaction has buffered: at most one audit entry, one new value of
\* a pending row, one profile, one result of a non-sensitive tool; and what it
\* will answer.
Tx == [entry : AuditEntry \cup {None}, action : Actions \cup {None}, row : Row,
       profile : Profile \cup {None}, result : BOOLEAN, reply : Replies]
Decision(entry, result, answer) ==
    [entry |-> entry, action |-> None, row |-> NoRow, profile |-> None,
     result |-> result, reply |-> answer]
RowDecision(entry, action, row, profile, answer) ==
    [entry |-> entry, action |-> action, row |-> row, profile |-> profile,
     result |-> FALSE, reply |-> answer]
NoTx == Decision(None, FALSE, "none")

Init ==
    /\ users = [u \in Users |-> [active |-> TRUE, perms |-> Grants[u]]]
    /\ pending = [p \in Actions |-> NoRow]
    /\ profiles = {}
    /\ results = {}
    /\ log = << >>
    /\ vpnSeq = 0
    /\ now = 0
    /\ rowLock = [p \in Actions |-> None]
    /\ auditLock = None
    /\ pc = [r \in Requests |-> "new"]
    /\ who = [r \in Requests |-> None]
    /\ call = [r \in Requests |-> None]
    /\ reply = [r \in Requests |-> "none"]
    /\ tx = [r \in Requests |-> NoTx]
    /\ prev = [r \in Requests |-> GENESIS]

-----------------------------------------------------------------------------
(* Environment *)

Tick ==
    /\ now < MaxTime
    /\ now' = now + 1
    /\ UNCHANGED <<users, tables, vpnSeq, locks, requests>>

\* An administrator takes a permission away or deactivates a user; no code
\* path of the service writes the users table.
Revoke(u) ==
    /\ \/ \E perm \in users[u].perms :
            /\ <<u, perm>> \in Edits
            /\ users' = [users EXCEPT ![u] = [active |-> users[u].active,
                                             perms |-> users[u].perms \ {perm}]]
       \/ /\ users[u].active
          /\ <<u, "is_active">> \in Edits
          /\ users' = [users EXCEPT ![u] = [active |-> FALSE, perms |-> users[u].perms]]
    /\ UNCHANGED <<tables, vpnSeq, now, locks, requests>>

\* get_principal: the bearer's row is read once, before the handler runs.
Arrive(r) ==
    /\ pc[r] = "new"
    /\ pc' = [pc EXCEPT ![r] = "open"]
    /\ \E u \in Users :
         /\ users[u].active
         /\ who' = [who EXCEPT ![r] = principal_of(u)]
    /\ \E c \in Workload : call' = [call EXCEPT ![r] = c]
    /\ UNCHANGED <<users, tables, vpnSeq, now, locks, reply, tx, prev>>

-----------------------------------------------------------------------------
(* Transactions: the outcome of an operation, decided before the audit lock *)

Has(r, perm) == perm \in who[r].perms
Me(r) == who[r].user

Entry(r, event, decision, action, hash) ==
    [request |-> r, actor |-> Me(r), event |-> event, decision |-> decision,
     action |-> action, hash |-> hash]

\* The operation has decided: buffer its writes and go for the audit lock.
Conclude(r, writes) ==
    /\ pc' = [pc EXCEPT ![r] = "auditing"]
    /\ tx' = [tx EXCEPT ![r] = writes]
    /\ UNCHANGED <<who, call, reply, prev>>

Called(r, op) == pc[r] = "open" /\ call[r].op = op

\* run_tool on a sensitive tool: a new pending row and its audit entry.
Propose(r) ==
    /\ Called(r, "run_tool")
    /\ call[r].tool = "create_vpn_profile"
    /\ Has(r, "vpn:create")
    /\ \E p \in Actions :
         /\ pending[p].status = "absent"
         /\ \A s \in Requests : tx[s].action # p
         /\ LET hash == action_hash(call[r].args, Me(r))
                row == [status |-> "pending", requester |-> Me(r), args |-> call[r].args,
                        hash |-> hash, approver |-> None, expires |-> now + TTL]
            IN Conclude(r, RowDecision(Entry(r, "tool_call", "pending", p, hash),
                                       p, row, None, "pending"))
    /\ UNCHANGED <<users, tables, vpnSeq, now, locks>>

\* run_tool on any other tool: the handler runs (and may refuse the record
\* with ToolDenied or fail with ToolError) in the transaction of its audit row.
RunOtherTool(r) ==
    /\ Called(r, "run_tool")
    /\ call[r].tool = "ticket"
    /\ Has(r, "ticket:create")
    /\ \/ Conclude(r, Decision(Entry(r, "tool_call", "executed", None, None), TRUE, "ok"))
       \/ Conclude(r, Decision(Entry(r, "tool_call", "deny", None, None), FALSE, "denied"))
       \/ Conclude(r, Decision(Entry(r, "tool_call", "error", None, None), FALSE, "error"))
    /\ UNCHANGED <<users, tables, vpnSeq, now, locks>>

\* run_tool refuses: unknown tool, arguments the schema rejects, or a
\* permission the caller does not hold.
RefuseTool(r) ==
    /\ Called(r, "run_tool")
    /\ \/ call[r].tool \in {"unknown", "invalid"}
       \/ call[r].tool = "create_vpn_profile" /\ ~Has(r, "vpn:create")
       \/ call[r].tool = "ticket" /\ ~Has(r, "ticket:create")
    /\ Conclude(r, Decision(Entry(r, "tool_call", "deny", None, None), FALSE,
                            IF call[r].tool = "invalid" THEN "error" ELSE "denied"))
    /\ UNCHANGED <<users, tables, vpnSeq, now, locks>>

\* Mutant: a SELECT without FOR UPDATE.
ReadRow(r, p) == UNCHANGED rowLock

\* SELECT ... FOR UPDATE: wait for the row's lock, then read the row as it is.
\* An id with no committed row locks nothing.
LockRow(r, p) ==
    /\ rowLock[p] = None
    /\ rowLock' = IF pending[p].status = "absent" THEN rowLock
                  ELSE [rowLock EXCEPT ![p] = r]

Expired(p) == pending[p].expires < now

\* Mutant: the approver may be the requester.
ConfirmedByAnyone(r, p) ==
    Has(r, "vpn:approve") /\ call[r].confirm = pending[p].hash

\* The checks of approve_pending that leave the row as it is.
Confirmed(r, p) ==
    /\ Has(r, "vpn:approve")
    /\ Me(r) # pending[p].requester
    /\ call[r].confirm = pending[p].hash

\* Mutant: the requester's permission is not looked at again.
RequesterActive(p) == users[pending[p].requester].active

\* principal_of(requester), read again at the time of the decision.
RequesterAuthorized(p) ==
    /\ users[pending[p].requester].active
    /\ "vpn:create" \in users[pending[p].requester].perms

\* approve_pending ends in a denial that changes nothing: unknown or already
\* decided action, or a confirmation that fails one of the checks.  Only the
\* denials about who confirms carry the action's hash.
RefuseApproval(r) ==
    /\ Called(r, "approve")
    /\ LET p == call[r].action
           wrongPerson == pending[p].status = "pending"
                          /\ (~Has(r, "vpn:approve") \/ Me(r) = pending[p].requester)
       IN
         /\ LockRow(r, p)
         /\ \/ pending[p].status # "pending"
            \/ ~Expired(p) /\ ~Confirmed(r, p)
         /\ Conclude(r, Decision(Entry(r, "approval", "deny", p,
                                       IF wrongPerson THEN pending[p].hash ELSE None),
                                 FALSE, "denied"))
    /\ UNCHANGED <<users, tables, vpnSeq, now, auditLock>>

\* The row with its decision, everything that was proposed kept.
Decided(p, status, approver) ==
    [status |-> status, requester |-> pending[p].requester, args |-> pending[p].args,
     hash |-> pending[p].hash, approver |-> approver, expires |-> pending[p].expires]

\* approve_pending closes the action without running it.
CloseAction(r, p, status, decision, hash, answer) ==
    Conclude(r, RowDecision(Entry(r, "approval", decision, p, hash), p,
                            Decided(p, status, pending[p].approver), None, answer))

\* approve_pending on an action past expires_at.
ExpireAction(r) ==
    /\ Called(r, "approve")
    /\ LET p == call[r].action IN
         /\ LockRow(r, p)
         /\ pending[p].status = "pending"
         /\ Expired(p)
         /\ CloseAction(r, p, "expired", "deny", None, "denied")
    /\ UNCHANGED <<users, tables, vpnSeq, now, auditLock>>

\* approve_pending when the requester has lost the permission or the account.
DropAction(r) ==
    /\ Called(r, "approve")
    /\ LET p == call[r].action IN
         /\ LockRow(r, p)
         /\ pending[p].status = "pending"
         /\ ~Expired(p)
         /\ Confirmed(r, p)
         /\ ~RequesterAuthorized(p)
         /\ CloseAction(r, p, "rejected", "deny", pending[p].hash, "denied")
    /\ UNCHANGED <<users, tables, vpnSeq, now, auditLock>>

\* approve_pending when the handler raises ToolError (no such employee).
FailAction(r) ==
    /\ Called(r, "approve")
    /\ LET p == call[r].action IN
         /\ LockRow(r, p)
         /\ pending[p].status = "pending"
         /\ ~Expired(p)
         /\ Confirmed(r, p)
         /\ RequesterAuthorized(p)
         /\ pending[p].args \notin Resolvable
         /\ CloseAction(r, p, "failed", "error", pending[p].hash, "error")
    /\ UNCHANGED <<users, tables, vpnSeq, now, auditLock>>

\* approve_pending runs the handler: nextval, the profile row (approved_by and
\* pending_action_id overwritten), the row's new status and the audit entry.
ExecuteAction(r) ==
    /\ Called(r, "approve")
    /\ LET p == call[r].action IN
         /\ LockRow(r, p)
         /\ pending[p].status = "pending"
         /\ ~Expired(p)
         /\ Confirmed(r, p)
         /\ RequesterAuthorized(p)
         /\ pending[p].args \in Resolvable
         /\ vpnSeq' = vpnSeq + 1
         /\ LET profile == [id |-> vpnSeq + 1, args |-> pending[p].args,
                            requested_by |-> pending[p].requester,
                            approved_by |-> Me(r), action |-> p]
            IN Conclude(r, RowDecision(
                   Entry(r, "approval", "executed", p, pending[p].hash), p,
                   Decided(p, "executed", Me(r)), profile, "ok"))
    /\ UNCHANGED <<users, tables, now, auditLock>>

MayReject(r, p) == Has(r, "vpn:approve") \/ Me(r) = pending[p].requester

\* reject_pending: an approver, or the requester cancelling.  The expiry is
\* not looked at.
RejectAction(r) ==
    /\ Called(r, "reject")
    /\ LET p == call[r].action IN
         /\ LockRow(r, p)
         /\ pending[p].status = "pending"
         /\ MayReject(r, p)
         /\ Conclude(r, RowDecision(
                Entry(r, "approval", "deny", p, pending[p].hash), p,
                Decided(p, "rejected", Me(r)), None, "denied"))
    /\ UNCHANGED <<users, tables, vpnSeq, now, auditLock>>

\* reject_pending returns before any audit entry: the transaction commits empty.
RefuseReject(r) ==
    /\ Called(r, "reject")
    /\ LET p == call[r].action IN
         /\ LockRow(r, p)
         /\ pending[p].status # "pending" \/ ~MayReject(r, p)
         /\ pc' = [pc EXCEPT ![r] = "committing"]
         /\ tx' = [tx EXCEPT ![r] = Decision(None, FALSE, "denied")]
    /\ UNCHANGED <<users, tables, vpnSeq, now, auditLock, who, call, reply, prev>>

-----------------------------------------------------------------------------
(* The end of a transaction *)

\* Mutant: the last hash is read without the advisory lock.
ReadAudit(r) ==
    /\ pc[r] = "auditing"
    /\ prev' = [prev EXCEPT ![r] = LastHash]
    /\ pc' = [pc EXCEPT ![r] = "committing"]
    /\ UNCHANGED <<users, tables, vpnSeq, now, locks, who, call, reply, tx>>

\* Mutant: append runs in a session of its own and locks the action it tells of.
LockActionAgain(r) ==
    /\ pc[r] = "auditing"
    /\ auditLock = None
    /\ tx[r].action # None => rowLock[tx[r].action] = None
    /\ auditLock' = r
    /\ prev' = [prev EXCEPT ![r] = LastHash]
    /\ pc' = [pc EXCEPT ![r] = "committing"]
    /\ UNCHANGED <<users, tables, vpnSeq, now, rowLock, who, call, reply, tx>>

\* audit.append: take the advisory lock, then read the last row's hash.
LockAudit(r) ==
    /\ pc[r] = "auditing"
    /\ auditLock = None
    /\ auditLock' = r
    /\ prev' = [prev EXCEPT ![r] = LastHash]
    /\ pc' = [pc EXCEPT ![r] = "committing"]
    /\ UNCHANGED <<users, tables, vpnSeq, now, rowLock, who, call, reply, tx>>

\* Both locks are held to the end of the transaction.
Release(r) ==
    /\ rowLock' = [p \in Actions |-> IF rowLock[p] = r THEN None ELSE rowLock[p]]
    /\ auditLock' = IF auditLock = r THEN None ELSE auditLock

\* The transaction and the request are over; the answer is sent.
Finish(r, answer) ==
    /\ pc' = [pc EXCEPT ![r] = "done"]
    /\ who' = [who EXCEPT ![r] = None]
    /\ call' = [call EXCEPT ![r] = None]
    /\ reply' = [reply EXCEPT ![r] = answer]
    /\ tx' = [tx EXCEPT ![r] = NoTx]
    /\ prev' = [prev EXCEPT ![r] = GENESIS]

\* Mutant: the audit row is committed in a session of its own, before the rows it
\* tells of, which may then be rolled back.
CommitAuditFirst(r) ==
    LET t == tx[r] IN
    /\ pc[r] = "committing"
    /\ log' = IF t.entry = None THEN log
              ELSE Append(log, [prev |-> prev[r], entry |-> t.entry,
                                hash |-> record_hash(prev[r], t.entry)])
    /\ Release(r)
    /\ \/ /\ pending' = IF t.action = None THEN pending
                         ELSE [pending EXCEPT ![t.action] = t.row]
          /\ profiles' = IF t.profile = None THEN profiles ELSE profiles \cup {t.profile}
          /\ results' = IF t.result THEN results \cup {r} ELSE results
          /\ Finish(r, t.reply)
       \/ UNCHANGED <<pending, profiles, results>> /\ Finish(r, "lost")
    /\ UNCHANGED <<users, vpnSeq, now>>

Commit(r) ==
    LET t == tx[r] IN
    /\ pc[r] = "committing"
    /\ pending' = IF t.action = None THEN pending
                  ELSE [pending EXCEPT ![t.action] = t.row]
    /\ profiles' = IF t.profile = None THEN profiles ELSE profiles \cup {t.profile}
    /\ results' = IF t.result THEN results \cup {r} ELSE results
    /\ log' = IF t.entry = None THEN log
              ELSE Append(log, [prev |-> prev[r], entry |-> t.entry,
                                hash |-> record_hash(prev[r], t.entry)])
    /\ Release(r)
    /\ Finish(r, t.reply)
    /\ UNCHANGED <<users, vpnSeq, now>>

\* Any other exception, a cancelled request, a lost connection or a crash:
\* the transaction rolls back and its locks are released.
Abort(r) ==
    /\ pc[r] \in {"open", "auditing", "committing"}
    /\ Release(r)
    /\ Finish(r, "lost")
    /\ UNCHANGED <<users, tables, vpnSeq, now>>

Decide(r) ==
    \/ Propose(r) \/ RunOtherTool(r) \/ RefuseTool(r)
    \/ RefuseApproval(r) \/ ExpireAction(r) \/ DropAction(r)
    \/ FailAction(r) \/ ExecuteAction(r)
    \/ RejectAction(r) \/ RefuseReject(r)

\* No request is being served; the process may idle.
Quiet ==
    /\ \A r \in Requests : pc[r] \in {"new", "done"}
    /\ UNCHANGED vars

Next ==
    \/ Tick
    \/ \E u \in Users : Revoke(u)
    \/ \E r \in Requests :
         \/ Arrive(r)
         \/ Decide(r)
         \/ LockAudit(r)
         \/ Commit(r)
         \/ Abort(r)
    \/ Quiet

Spec == Init /\ [][Next]_vars

\* An open request keeps running: its statements are executed, a lock it waits
\* for is granted once it is free (PostgreSQL queues lock requests).
Fairness == \A r \in Requests : WF_vars(Decide(r)) /\ WF_vars(LockAudit(r))
                                /\ WF_vars(Commit(r))
FairSpec == Spec /\ Fairness

-----------------------------------------------------------------------------
(* What the protocol promises *)

\* Every row, lock, request and open transaction keeps its type.
TypeOK ==
    /\ users \in [Users -> [active : BOOLEAN, perms : SUBSET Perms]]
    /\ pending \in [Actions -> Row]
    /\ profiles \subseteq Profile
    /\ results \subseteq Requests
    /\ log \in Seq(AuditRow)
    /\ vpnSeq \in Nat
    /\ now \in Nat
    /\ rowLock \in [Actions -> Requests \cup {None}]
    /\ auditLock \in Requests \cup {None}
    /\ pc \in [Requests -> PCs]
    /\ who \in [Requests -> Principal \cup {None}]
    /\ call \in [Requests -> Calls \cup {None}]
    /\ reply \in [Requests -> Replies]
    /\ tx \in [Requests -> Tx]
    /\ prev \in [Requests -> Seq(AuditEntry)]

\* A double approval cannot run an action twice (approve_pending's docstring):
\* however approvals, rejections and rollbacks interleave, two VPN profiles
\* never come from the same pending action.
ExecutedAtMostOnce ==
    \A f, g \in profiles : f.action = g.action => f = g

ExecutedRows(p) ==
    {i \in DOMAIN log : log[i].entry.action = p /\ log[i].entry.decision = "executed"}

\* "A tool result can never exist without its audit row" and the reverse: a
\* pending action is executed exactly when its profile exists, the profile is
\* the one that was proposed and confirmed, and the audit log holds an
\* executed entry by that approver for that hash.
ExecutionIsAccountable ==
    \A p \in Actions :
      /\ pending[p].status = "executed" <=> \E f \in profiles : f.action = p
      /\ pending[p].status = "executed" <=> ExecutedRows(p) # {}
      /\ \A f \in profiles : f.action = p =>
           /\ f.args = pending[p].args
           /\ f.requested_by = pending[p].requester
           /\ f.approved_by = pending[p].approver
           /\ pending[p].hash = action_hash(f.args, f.requested_by)
      /\ \A i \in ExecutedRows(p) :
           /\ log[i].entry.actor = pending[p].approver
           /\ log[i].entry.hash = pending[p].hash

\* No one gets a profile alone: the approver is someone else than the
\* requester, and both held the permission their part needs.
SeparationOfDuties ==
    \A f \in profiles :
      /\ f.approved_by # f.requested_by
      /\ "vpn:approve" \in Grants[f.approved_by]
      /\ "vpn:create" \in Grants[f.requested_by]

\* verify_chain finds no broken row: concurrent appends never fork the chain.
AuditChainIntact ==
    \A i \in DOMAIN log :
      /\ log[i].prev = IF i = 1 THEN GENESIS ELSE log[i - 1].hash
      /\ log[i].hash = record_hash(log[i].prev, log[i].entry)

\* A request leaves at most one audit row, a lost one none, and a non-sensitive
\* result is there exactly when its executed row is.
AuditedExactlyOnce ==
    /\ \A i, j \in DOMAIN log : log[i].entry.request = log[j].entry.request => i = j
    /\ \A i \in DOMAIN log :
         LET r == log[i].entry.request IN
         pc[r] = "done" /\ reply[r] \in {"ok", "denied", "pending", "error"}
    /\ \A r \in Requests :
         r \in results <=> \E i \in DOMAIN log :
             /\ log[i].entry.request = r
             /\ log[i].entry.event = "tool_call"
             /\ log[i].entry.decision = "executed"

\* A decided action is never decided again, and what was proposed (arguments,
\* hash, requester, expiry) is never edited while it waits.
DecisionsAreFinal ==
    [][\A p \in Actions :
         /\ pending[p].status \in Final => pending'[p] = pending[p]
         /\ pending[p].status = "pending" =>
              /\ pending'[p].status \in {"pending"} \cup Final
              /\ pending'[p].requester = pending[p].requester
              /\ pending'[p].args = pending[p].args
              /\ pending'[p].hash = pending[p].hash
              /\ pending'[p].expires = pending[p].expires]_vars

\* No transaction has yet decided to execute p.
Undecided(p) == \A r \in Requests : tx[r].profile # None => tx[r].action # p

\* What the requester needs for the action to run, whatever the code looks at.
Qualified(p) ==
    LET u == pending[p].requester IN users[u].active /\ "vpn:create" \in users[u].perms

\* An action that nobody may execute any more.
Lapsed(p) ==
    /\ pending[p].status = "pending"
    /\ Undecided(p)
    /\ Expired(p) \/ ~Qualified(p)

\* Once an action has expired, or its requester has lost the permission or the
\* account, before any approval got past the checks of approve_pending, it is
\* never executed: it stays lapsed until it is closed some other way.
LapsedNeverExecutes ==
    [][\A p \in Actions :
         Lapsed(p) => Lapsed(p)' \/ pending'[p].status \in Final \ {"executed"}]_vars

\* Nobody waits for ever: a request that has arrived ends, whatever locks it
\* had to queue for.
RequestsComplete ==
    \A r \in Requests : pc[r] = "open" ~> pc[r] = "done"

-----------------------------------------------------------------------------
(* Why it holds: an inductive invariant *)

InFlight == {"auditing", "committing"}

\* Principals and rows never carry more than the users table granted.
PeopleInv ==
    /\ \A u \in Users : users[u].perms \subseteq Grants[u]
    /\ \A r \in Requests : pc[r] \in {"open"} \cup InFlight =>
         /\ who[r] \in Principal
         /\ call[r] \in Calls
         /\ who[r].perms \subseteq Grants[who[r].user]

Proposed(row) ==
    /\ row.requester \in Users
    /\ row.args \in Args
    /\ row.hash = action_hash(row.args, row.requester)
    /\ "vpn:create" \in Grants[row.requester]

RowInv ==
    \A p \in Actions :
      \/ pending[p] = NoRow
      \/ pending[p].status # "absent" /\ Proposed(pending[p])

\* Who holds a lock is inside a transaction that has not ended.
LockInv ==
    /\ \A p \in Actions : rowLock[p] # None => pc[rowLock[p]] \in InFlight
    /\ auditLock # None => pc[auditLock] = "committing"

\* The four shapes of an open transaction: it touches no action, inserts one,
\* or closes or executes one whose row it has locked.
Bystands(t) ==
    /\ t.action = None
    /\ t.profile = None
    /\ t.entry = None => ~t.result
    /\ t.entry # None =>
         /\ t.entry.decision \in {"deny", "error", "executed"}
         /\ t.entry.decision = "executed" => t.entry.action = None
         /\ t.result <=> t.entry.decision = "executed"
         /\ t.entry.decision = "executed" => t.entry.event = "tool_call"

Opens(r, t) ==
    /\ t.action \in Actions
    /\ pending[t.action] = NoRow
    /\ \A s \in Requests \ {r} : tx[s].action # t.action
    /\ t.row.status = "pending"
    /\ t.row.approver = None
    /\ Proposed(t.row)
    /\ t.profile = None
    /\ ~t.result
    /\ t.entry # None
    /\ t.entry.decision = "pending"
    /\ t.entry.action = t.action

Locks(r, t) ==
    /\ t.action \in Actions
    /\ rowLock[t.action] = r
    /\ pending[t.action].status = "pending"
    /\ t.row.requester = pending[t.action].requester
    /\ t.row.args = pending[t.action].args
    /\ t.row.hash = pending[t.action].hash
    /\ t.row.expires = pending[t.action].expires
    /\ ~t.result
    /\ t.entry # None
    /\ t.entry.action = t.action
    /\ t.entry.event = "approval"

Closes(r, t) ==
    /\ Locks(r, t)
    /\ t.row.status \in Final \ {"executed"}
    /\ t.profile = None
    /\ t.entry.decision \in {"deny", "error"}

Executes(r, t) ==
    /\ Locks(r, t)
    /\ t.row.status = "executed"
    /\ t.row.approver \in Users
    /\ t.row.approver # t.row.requester
    /\ "vpn:approve" \in Grants[t.row.approver]
    /\ t.profile # None
    /\ t.profile.action = t.action
    /\ t.profile.args = t.row.args
    /\ t.profile.requested_by = t.row.requester
    /\ t.profile.approved_by = t.row.approver
    /\ t.entry.decision = "executed"
    /\ t.entry.actor = t.row.approver
    /\ t.entry.hash = t.row.hash

TxInv ==
    \A r \in Requests :
      /\ pc[r] \notin InFlight => tx[r] = NoTx
      /\ pc[r] = "auditing" => tx[r].entry # None
      /\ pc[r] = "committing" /\ tx[r].entry # None =>
           auditLock = r /\ prev[r] = LastHash
      /\ tx[r].entry # None => tx[r].entry.request = r
      /\ pc[r] \in InFlight => tx[r].reply \in {"ok", "denied", "pending", "error"}
      /\ Bystands(tx[r]) \/ Opens(r, tx[r]) \/ Closes(r, tx[r]) \/ Executes(r, tx[r])

\* The inductive invariant: what the tables promise, together with what every
\* open transaction of run_tool, approve_pending and reject_pending relies on.
IndInv ==
    /\ TypeOK
    /\ PeopleInv
    /\ RowInv
    /\ LockInv
    /\ TxInv
    /\ ExecutedAtMostOnce
    /\ ExecutionIsAccountable
    /\ SeparationOfDuties
    /\ AuditChainIntact
    /\ AuditedExactlyOnce

-----------------------------------------------------------------------------
(* The protocol seen as a ledger *)

LedgerState(status) ==
    CASE status = "absent" -> "none"
      [] status = "pending" -> "open"
      [] status = "executed" -> "executed"
      [] OTHER -> "closed"

LedgerActions == [p \in Actions |-> [state |-> LedgerState(pending[p].status),
                                     requester |-> pending[p].requester,
                                     args |-> pending[p].args,
                                     approver |-> pending[p].approver]]
Issue(f) == [action |-> f.action, args |-> f.args, requested_by |-> f.requested_by,
             approved_by |-> f.approved_by]
LedgerTrail == [i \in DOMAIN log |-> <<log[i].entry.decision, log[i].entry.action>>]

Ledger == INSTANCE ActionLedger WITH
    actions <- LedgerActions,
    issued <- {Issue(f) : f \in profiles},
    trail <- LedgerTrail

\* The locked, buffered, abortable transactions behave like single steps of the
\* ledger: each commit opens, executes or closes one action, or only leaves a
\* line in the trail; no other step is visible.
ImplementsLedger == Ledger!Spec
=============================================================================
