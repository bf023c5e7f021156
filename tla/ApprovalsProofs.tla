-------------------------- MODULE ApprovalsProofs --------------------------
(***************************************************************************)
(* Proofs about Approvals for any number of users, actions and requests.   *)
(***************************************************************************)
EXTENDS Approvals, TLAPS

-----------------------------------------------------------------------------
(* The decide actions, seen alike *)

Answers == {"ok", "denied", "pending", "error"}

\* What every operation does up to the audit lock: it buffers a transaction
\* of one of the four shapes, perhaps having taken one free row lock.
DecideStep(r, t, to) ==
    /\ pc[r] = "open"
    /\ t \in Tx
    /\ t.entry = None => to = "committing"
    /\ t.entry # None => to = "auditing" /\ t.entry.request = r
    /\ pc' = [pc EXCEPT ![r] = to]
    /\ tx' = [tx EXCEPT ![r] = t]
    /\ \/ rowLock' = rowLock
       \/ \E p \in Actions : rowLock[p] = None /\ rowLock' = [rowLock EXCEPT ![p] = r]
    /\ t.reply \in Answers
    /\ Bystands(t) \/ Opens(r, t)' \/ Closes(r, t)' \/ Executes(r, t)'
    /\ t.profile # None => ~Expired(t.action) /\ RequesterAuthorized(t.action)
    /\ vpnSeq' \in Nat
    /\ UNCHANGED <<users, tables, now, auditLock, who, call, reply, prev>>

\* A tool call is typed as its tool says.
LEMMA ToolCall ==
    ASSUME NEW c \in Calls, c.op = "run_tool"
    PROVE  c.tool = "create_vpn_profile" => c.args \in Args
BY DEF Calls

\* An approval or a rejection names an action.
LEMMA DecisionCall ==
    ASSUME NEW c \in Calls, c.op \in {"approve", "reject"}
    PROVE  c.action \in Actions
BY DEF Calls

\* An open request has its principal and call, and has written nothing yet.
LEMMA OpenRequest ==
    ASSUME IndInv, NEW r \in Requests, pc[r] = "open"
    PROVE  /\ who[r] \in Principal
           /\ Me(r) \in Users
           /\ call[r] \in Calls
           /\ \A perm : Has(r, perm) => perm \in Grants[Me(r)]
BY DEF IndInv, PeopleInv, Me, Has, Principal

\* An audit entry of audit.append is well typed and keeps what it was given.
LEMMA EntryType ==
    ASSUME NEW r \in Requests, Me(r) \in Users,
           NEW event \in {"tool_call", "approval"},
           NEW decision \in {"deny", "pending", "executed", "error"},
           NEW action \in Actions \cup {None}, NEW hash \in Hashes \cup {None}
    PROVE  LET e == Entry(r, event, decision, action, hash) IN
           /\ e \in AuditEntry
           /\ e # None
           /\ e.request = r /\ e.actor = Me(r) /\ e.event = event
           /\ e.decision = decision /\ e.action = action /\ e.hash = hash
<1>1. Entry(r, event, decision, action, hash) \in AuditEntry
  BY DEF Entry, AuditEntry
<1> QED
  BY <1>1, NoneAssumption DEF Entry

\* A row that waits was proposed, and its decided form is a row.
LEMMA PendingRow ==
    ASSUME IndInv, NEW p \in Actions, pending[p].status = "pending"
    PROVE  /\ pending[p] \in Row
           /\ Proposed(pending[p])
           /\ pending[p].hash \in Hashes
           /\ \A status \in Final, v \in Users \cup {None} :
                Decided(p, status, v) \in Row
<1>1. pending[p] \in Row /\ pending[p] # NoRow
  BY DEF IndInv, TypeOK, NoRow
<1>2. Proposed(pending[p])
  BY <1>1 DEF IndInv, RowInv
<1>3. pending[p].hash \in Hashes
  BY <1>2 DEF Proposed, action_hash, Hashes
<1>4. \A status \in Final, v \in Users \cup {None} : Decided(p, status, v) \in Row
  BY <1>1 DEF Row, Decided
<1> QED
  BY <1>1, <1>2, <1>3, <1>4

\* LockRow takes at most one free lock, and the lock of a row that exists.
LEMMA LockRowStep ==
    ASSUME TypeOK, NEW r \in Requests, NEW p \in Actions, LockRow(r, p)
    PROVE  /\ \/ rowLock' = rowLock
              \/ \E q \in Actions : rowLock[q] = None /\ rowLock' = [rowLock EXCEPT ![q] = r]
           /\ pending[p].status # "absent" => rowLock'[p] = r
BY DEF LockRow, TypeOK

\* A decision that touches no row is a bystander's transaction.
LEMMA DecisionShape ==
    ASSUME NEW e \in AuditEntry \cup {None}, NEW result \in BOOLEAN, NEW a \in Answers,
           e = None => ~result,
           e # None => /\ e.decision \in {"deny", "error", "executed"}
                       /\ e.decision = "executed" => e.action = None /\ e.event = "tool_call"
                       /\ result <=> e.decision = "executed"
    PROVE  /\ Decision(e, result, a) \in Tx
           /\ Bystands(Decision(e, result, a))
           /\ Decision(e, result, a).entry = e
           /\ Decision(e, result, a).reply = a
<1>1. NoRow \in Row
  BY DEF NoRow, Row
<1> QED
  BY <1>1 DEF Decision, Tx, Bystands, Answers, Replies

\* A decision about a row is a transaction that keeps what it was given.
LEMMA RowDecisionType ==
    ASSUME NEW e \in AuditEntry, NEW p \in Actions, NEW row \in Row,
           NEW f \in Profile \cup {None}, NEW a \in Answers
    PROVE  /\ RowDecision(e, p, row, f, a) \in Tx
           /\ RowDecision(e, p, row, f, a).entry = e
           /\ RowDecision(e, p, row, f, a).entry # None
           /\ RowDecision(e, p, row, f, a).action = p
           /\ RowDecision(e, p, row, f, a).row = row
           /\ RowDecision(e, p, row, f, a).profile = f
           /\ ~RowDecision(e, p, row, f, a).result
           /\ RowDecision(e, p, row, f, a).reply = a
BY NoneAssumption DEF RowDecision, Tx, Answers, Replies

-----------------------------------------------------------------------------
(* Every decide action is a DecideStep *)

\* run_tool on the sensitive tool opens a fresh action.
LEMMA ProposeStep ==
    ASSUME IndInv, NEW r \in Requests, Propose(r)
    PROVE  \E t, to : DecideStep(r, t, to)
<1>1. /\ pc[r] = "open" /\ Me(r) \in Users /\ call[r].args \in Args
      /\ "vpn:create" \in Grants[Me(r)]
  BY OpenRequest, ToolCall DEF Propose, Called
<1>2. PICK h : h = action_hash(call[r].args, Me(r))
  OBVIOUS
<1>3. PICK row : row = [status |-> "pending", requester |-> Me(r), args |-> call[r].args,
                        hash |-> h, approver |-> None, expires |-> now + TTL]
  OBVIOUS
<1>4. PICK p \in Actions :
        /\ pending[p].status = "absent"
        /\ \A s \in Requests : tx[s].action # p
        /\ Conclude(r, RowDecision(Entry(r, "tool_call", "pending", p, h), p, row,
                                   None, "pending"))
  BY <1>2, <1>3 DEF Propose
<1>5. PICK e : e = Entry(r, "tool_call", "pending", p, h)
  OBVIOUS
<1>6. PICK t : t = RowDecision(e, p, row, None, "pending")
  OBVIOUS
<1>7. TypeOK /\ now \in Nat /\ TTL \in Nat
  BY BoundsAssumption DEF IndInv, TypeOK
<1>8. h \in Hashes
  BY <1>1, <1>2 DEF action_hash, Hashes
<1>9. /\ row \in Row /\ Proposed(row)
      /\ row.status = "pending" /\ row.approver = None
  BY <1>1, <1>2, <1>3, <1>7, <1>8 DEF Row, Proposed
<1>10. e \in AuditEntry /\ e.request = r /\ e.decision = "pending" /\ e.action = p
  BY <1>1, <1>5, <1>8, EntryType
<1>11. /\ t \in Tx /\ t.entry = e /\ t.entry # None /\ t.action = p
       /\ t.row = row /\ t.profile = None /\ ~t.result /\ t.reply = "pending"
  BY <1>6, <1>9, <1>10, RowDecisionType DEF Answers
<1>12. pending[p] = NoRow
  BY <1>4 DEF IndInv, RowInv
<1>13. UNCHANGED <<users, tables, vpnSeq, now, locks, who, call, reply, prev>>
  BY <1>4 DEF Propose, Conclude
<1>14. pc' = [pc EXCEPT ![r] = "auditing"] /\ tx' = [tx EXCEPT ![r] = t]
  BY <1>4, <1>5, <1>6 DEF Conclude
<1>15. \A s \in Requests \ {r} : tx'[s].action # p
  BY <1>4, <1>7, <1>14 DEF TypeOK
<1>16. Opens(r, t)'
  BY <1>9, <1>10, <1>11, <1>12, <1>13, <1>15 DEF Opens, Proposed, tables
<1>17. DecideStep(r, t, "auditing")
  BY <1>1, <1>7, <1>10, <1>11, <1>13, <1>14, <1>16 DEF DecideStep, Answers, locks, TypeOK
<1> QED
  BY <1>17

\* run_tool on any other tool, or refusing, touches no action.
LEMMA ToolStep ==
    ASSUME IndInv, NEW r \in Requests, RunOtherTool(r) \/ RefuseTool(r)
    PROVE  \E t, to : DecideStep(r, t, to)
<1>1. pc[r] = "open" /\ Me(r) \in Users
  BY OpenRequest DEF RunOtherTool, RefuseTool, Called
<1>2. PICK d \in {"deny", "error", "executed"}, result \in BOOLEAN, a \in Answers :
        /\ result <=> d = "executed"
        /\ Conclude(r, Decision(Entry(r, "tool_call", d, None, None), result, a))
  BY DEF RunOtherTool, RefuseTool, Answers
<1>3. PICK e : e = Entry(r, "tool_call", d, None, None)
  OBVIOUS
<1>4. PICK t : t = Decision(e, result, a)
  OBVIOUS
<1>5. /\ e \in AuditEntry /\ e # None /\ e.request = r /\ e.decision = d
      /\ e.action = None /\ e.event = "tool_call"
  BY <1>1, <1>3, EntryType
<1>6. t \in Tx /\ Bystands(t) /\ t.entry = e /\ t.reply = a
  BY <1>2, <1>4, <1>5, DecisionShape
<1>7. UNCHANGED <<users, tables, vpnSeq, now, locks, who, call, reply, prev>>
  BY <1>2 DEF RunOtherTool, RefuseTool, Conclude
<1>8. pc' = [pc EXCEPT ![r] = "auditing"] /\ tx' = [tx EXCEPT ![r] = t]
  BY <1>2, <1>3, <1>4 DEF Conclude
<1>9. DecideStep(r, t, "auditing")
  BY <1>1, <1>5, <1>6, <1>7, <1>8 DEF DecideStep, Bystands, locks, IndInv, TypeOK
<1> QED
  BY <1>9

\* The operations on an action take its row lock.
OnAction(r) ==
    \/ RefuseApproval(r) \/ ExpireAction(r) \/ DropAction(r) \/ FailAction(r)
    \/ ExecuteAction(r) \/ RejectAction(r) \/ RefuseReject(r)

\* approve_pending and reject_pending lock the row they were asked about.
LEMMA OnActionFacts ==
    ASSUME IndInv, NEW r \in Requests, OnAction(r)
    PROVE  /\ pc[r] = "open" /\ Me(r) \in Users
           /\ \A perm : Has(r, perm) => perm \in Grants[Me(r)]
           /\ call[r].action \in Actions
           /\ LockRow(r, call[r].action)
           /\ vpnSeq' \in Nat
           /\ UNCHANGED <<users, tables, now, auditLock, who, call, reply, prev>>
<1> USE DEF OnAction, RefuseApproval, ExpireAction, DropAction, FailAction, ExecuteAction,
            RejectAction, RefuseReject, Called
<1>1. pc[r] = "open" /\ call[r].op \in {"approve", "reject"}
  OBVIOUS
<1>2. Me(r) \in Users /\ call[r].action \in Actions
      /\ \A perm : Has(r, perm) => perm \in Grants[Me(r)]
  BY <1>1, OpenRequest, DecisionCall
<1>3. LockRow(r, call[r].action)
  OBVIOUS
<1>4. vpnSeq \in Nat
  BY DEF IndInv, TypeOK
<1>5. vpnSeq' = vpnSeq \/ vpnSeq' = vpnSeq + 1
  OBVIOUS
<1>6. UNCHANGED <<users, tables, now, auditLock, who, call, reply, prev>>
  BY DEF Conclude, CloseAction
<1> QED
  BY <1>1, <1>2, <1>3, <1>4, <1>5, <1>6 DEF tables

\* approve_pending and reject_pending denying touch no action.
LEMMA RefusalStep ==
    ASSUME IndInv, NEW r \in Requests, RefuseApproval(r) \/ RefuseReject(r)
    PROVE  \E t, to : DecideStep(r, t, to)
<1>1. PICK p \in Actions : p = call[r].action
  BY OnActionFacts DEF OnAction
<1>2. /\ pc[r] = "open" /\ Me(r) \in Users /\ LockRow(r, p) /\ vpnSeq' \in Nat
      /\ UNCHANGED <<users, tables, now, auditLock, who, call, reply, prev>>
  BY <1>1, OnActionFacts DEF OnAction
<1>3. \/ rowLock' = rowLock
      \/ \E q \in Actions : rowLock[q] = None /\ rowLock' = [rowLock EXCEPT ![q] = r]
  BY <1>1, <1>2, LockRowStep DEF IndInv
<1>4. CASE RefuseApproval(r)
  <2>0. pending[p].hash \in Hashes \cup {None}
    BY DEF IndInv, TypeOK, Row
  <2>1. PICK hash \in Hashes \cup {None} :
          Conclude(r, Decision(Entry(r, "approval", "deny", p, hash), FALSE, "denied"))
    BY <1>1, <1>4, <2>0 DEF RefuseApproval
  <2>11. PICK e : e = Entry(r, "approval", "deny", p, hash)
    OBVIOUS
  <2>2. PICK t : t = Decision(e, FALSE, "denied")
    OBVIOUS
  <2>3. e \in AuditEntry /\ e # None /\ e.request = r /\ e.decision = "deny"
    BY <1>1, <1>2, <2>11, EntryType
  <2>4. t \in Tx /\ Bystands(t) /\ t.entry = e /\ t.reply = "denied"
    BY <2>2, <2>3, DecisionShape DEF Answers
  <2>5. pc' = [pc EXCEPT ![r] = "auditing"] /\ tx' = [tx EXCEPT ![r] = t]
    BY <2>1, <2>11, <2>2 DEF Conclude
  <2>6. DecideStep(r, t, "auditing")
    BY <1>2, <1>3, <2>3, <2>4, <2>5 DEF DecideStep, Bystands, Answers
  <2> QED
    BY <2>6
<1>5. CASE RefuseReject(r)
  <2>1. PICK t : t = Decision(None, FALSE, "denied")
    OBVIOUS
  <2>2. t \in Tx /\ Bystands(t) /\ t.entry = None /\ t.reply = "denied"
    BY <2>1, DecisionShape DEF Answers
  <2>3. pc' = [pc EXCEPT ![r] = "committing"] /\ tx' = [tx EXCEPT ![r] = t]
    BY <1>5, <2>1 DEF RefuseReject
  <2>4. DecideStep(r, t, "committing")
    BY <1>2, <1>3, <2>2, <2>3 DEF DecideStep, Bystands, Answers
  <2> QED
    BY <2>4
<1> QED
  BY <1>4, <1>5

\* An expired, dropped, failed or rejected action is closed under its lock.
LEMMA ClosingStep ==
    ASSUME IndInv, NEW r \in Requests,
           ExpireAction(r) \/ DropAction(r) \/ FailAction(r) \/ RejectAction(r)
    PROVE  \E t, to : DecideStep(r, t, to)
<1>1. PICK p \in Actions : p = call[r].action
  BY OnActionFacts DEF OnAction
<1>2. /\ pc[r] = "open" /\ Me(r) \in Users /\ LockRow(r, p) /\ vpnSeq' \in Nat
      /\ UNCHANGED <<users, tables, now, auditLock, who, call, reply, prev>>
  BY <1>1, OnActionFacts DEF OnAction
<1>3. pending[p].status = "pending"
  BY <1>1 DEF ExpireAction, DropAction, FailAction, RejectAction
<1>4. /\ pending[p] \in Row /\ pending[p].hash \in Hashes
      /\ \A status \in Final, v \in Users \cup {None} : Decided(p, status, v) \in Row
  BY <1>3, PendingRow
<1>5. /\ \/ rowLock' = rowLock
         \/ \E q \in Actions : rowLock[q] = None /\ rowLock' = [rowLock EXCEPT ![q] = r]
      /\ rowLock'[p] = r
  BY <1>1, <1>2, <1>3, LockRowStep DEF IndInv
<1>6. pending[p].approver \in Users \cup {None}
  BY <1>4 DEF Row
<1>7. PICK status \in Final \ {"executed"}, d \in {"deny", "error"},
           hash \in Hashes \cup {None}, v \in Users \cup {None}, a \in Answers :
        Conclude(r, RowDecision(Entry(r, "approval", d, p, hash), p,
                                Decided(p, status, v), None, a))
  BY <1>1, <1>2, <1>4, <1>6
     DEF ExpireAction, DropAction, FailAction, RejectAction, CloseAction, Final, Answers
<1>8. PICK e : e = Entry(r, "approval", d, p, hash)
  OBVIOUS
<1>9. PICK row : row = Decided(p, status, v)
  OBVIOUS
<1>10. PICK t : t = RowDecision(e, p, row, None, a)
  OBVIOUS
<1>11. /\ e \in AuditEntry /\ e.request = r /\ e.decision = d /\ e.action = p
       /\ e.event = "approval"
  BY <1>2, <1>7, <1>8, EntryType
<1>12. /\ row \in Row /\ row.status = status
       /\ row.requester = pending[p].requester /\ row.args = pending[p].args
       /\ row.hash = pending[p].hash /\ row.expires = pending[p].expires
  BY <1>4, <1>7, <1>9 DEF Decided
<1>13. /\ t \in Tx /\ t.entry = e /\ t.entry # None /\ t.action = p
       /\ t.row = row /\ t.profile = None /\ ~t.result /\ t.reply = a
  BY <1>10, <1>11, <1>12, RowDecisionType
<1>14. pc' = [pc EXCEPT ![r] = "auditing"] /\ tx' = [tx EXCEPT ![r] = t]
  BY <1>7, <1>8, <1>9, <1>10 DEF Conclude
<1>15. Closes(r, t)'
  BY <1>2, <1>3, <1>5, <1>7, <1>11, <1>12, <1>13 DEF Closes, Locks, tables
<1>16. DecideStep(r, t, "auditing")
  BY <1>2, <1>5, <1>11, <1>13, <1>14, <1>15 DEF DecideStep
<1> QED
  BY <1>16

\* approve_pending executes under the row's lock, as two people asked.
LEMMA ExecuteStep ==
    ASSUME IndInv, NEW r \in Requests, ExecuteAction(r)
    PROVE  \E t, to : DecideStep(r, t, to)
<1>1. PICK p \in Actions : p = call[r].action
  BY OnActionFacts DEF OnAction
<1>2. /\ pc[r] = "open" /\ Me(r) \in Users /\ LockRow(r, p) /\ vpnSeq' \in Nat
      /\ UNCHANGED <<users, tables, now, auditLock, who, call, reply, prev>>
      /\ \A perm : Has(r, perm) => perm \in Grants[Me(r)]
  BY <1>1, OnActionFacts DEF OnAction
<1>3. /\ pending[p].status = "pending" /\ Confirmed(r, p)
      /\ ~Expired(p) /\ RequesterAuthorized(p)
  BY <1>1 DEF ExecuteAction
<1>4. /\ pending[p] \in Row /\ pending[p].hash \in Hashes /\ Proposed(pending[p])
      /\ Decided(p, "executed", Me(r)) \in Row
  BY <1>2, <1>3, PendingRow DEF Final
<1>5. /\ \/ rowLock' = rowLock
         \/ \E q \in Actions : rowLock[q] = None /\ rowLock' = [rowLock EXCEPT ![q] = r]
      /\ rowLock'[p] = r
  BY <1>1, <1>2, <1>3, LockRowStep DEF IndInv
<1>6. Me(r) # pending[p].requester /\ "vpn:approve" \in Grants[Me(r)]
  BY <1>2, <1>3 DEF Confirmed
<1>7. PICK f : f = [id |-> vpnSeq + 1, args |-> pending[p].args,
                    requested_by |-> pending[p].requester,
                    approved_by |-> Me(r), action |-> p]
  OBVIOUS
<1>8. PICK e : e = Entry(r, "approval", "executed", p, pending[p].hash)
  OBVIOUS
<1>9. PICK row : row = Decided(p, "executed", Me(r))
  OBVIOUS
<1>10. PICK t : t = RowDecision(e, p, row, f, "ok")
  OBVIOUS
<1>11. f \in Profile
  <2>1. vpnSeq + 1 \in Nat
    BY DEF IndInv, TypeOK
  <2> QED
    BY <1>2, <1>4, <1>7, <2>1 DEF Profile, Proposed
<1>12. /\ e \in AuditEntry /\ e.request = r /\ e.decision = "executed" /\ e.action = p
       /\ e.event = "approval" /\ e.actor = Me(r) /\ e.hash = pending[p].hash
  BY <1>2, <1>4, <1>8, EntryType
<1>13. /\ row \in Row /\ row.status = "executed" /\ row.approver = Me(r)
       /\ row.requester = pending[p].requester /\ row.args = pending[p].args
       /\ row.hash = pending[p].hash /\ row.expires = pending[p].expires
  BY <1>4, <1>9 DEF Decided
<1>14. /\ t \in Tx /\ t.entry = e /\ t.entry # None /\ t.action = p
       /\ t.row = row /\ t.profile = f /\ ~t.result /\ t.reply = "ok"
  BY <1>10, <1>11, <1>12, <1>13, RowDecisionType DEF Answers
<1>15. pc' = [pc EXCEPT ![r] = "auditing"] /\ tx' = [tx EXCEPT ![r] = t]
  BY <1>1, <1>7, <1>8, <1>9, <1>10 DEF ExecuteAction, Conclude
<1>16. f # None /\ f.action = p /\ f.args = row.args /\ f.requested_by = row.requester
       /\ f.approved_by = row.approver
  BY <1>7, <1>11, <1>13, NoneAssumption
<1>17. Executes(r, t)'
  BY <1>2, <1>3, <1>5, <1>6, <1>12, <1>13, <1>14, <1>16 DEF Executes, Locks, tables
<1>18. DecideStep(r, t, "auditing")
  BY <1>2, <1>3, <1>5, <1>12, <1>14, <1>15, <1>17 DEF DecideStep, Answers
<1> QED
  BY <1>18

\* Whatever an operation decides has one of the four transaction shapes.
LEMMA Decides ==
    ASSUME IndInv, NEW r \in Requests, Decide(r)
    PROVE  \E t, to : DecideStep(r, t, to)
BY ProposeStep, ToolStep, RefusalStep, ClosingStep, ExecuteStep DEF Decide

-----------------------------------------------------------------------------
(* The invariant holds initially and every step keeps it *)

\* The empty tables satisfy the invariant.
LEMMA InitInv == Init => IndInv
<1> SUFFICES ASSUME Init PROVE IndInv
  OBVIOUS
<1>1. NoTx \in Tx /\ Bystands(NoTx) /\ NoTx.entry = None
  <2>1. NoRow \in Row
    BY DEF NoRow, Row
  <2> QED
    BY <2>1 DEF NoTx, Decision, Tx, Bystands, Replies
<1>2. TypeOK
  <2>1. NoRow \in Row
    BY DEF NoRow, Row
  <2>2. Grants \in [Users -> SUBSET Perms]
    BY GrantsAssumption
  <2> QED
    BY <1>1, <2>1, <2>2 DEF Init, TypeOK, GENESIS, PCs, Replies
<1>3. PeopleInv /\ RowInv /\ LockInv
  BY DEF Init, PeopleInv, RowInv, LockInv, InFlight
<1>4. TxInv
  BY <1>1 DEF Init, TxInv, InFlight
<1>5. /\ ExecutedAtMostOnce /\ ExecutionIsAccountable /\ SeparationOfDuties
      /\ AuditChainIntact /\ AuditedExactlyOnce
  BY DEF Init, ExecutedAtMostOnce, ExecutionIsAccountable, ExecutedRows, SeparationOfDuties,
         AuditChainIntact, AuditedExactlyOnce, NoRow
<1> QED
  BY <1>2, <1>3, <1>4, <1>5 DEF IndInv

\* The steps that are neither a decision nor the end of a transaction.
Elsewhere ==
    Tick \/ (\E u \in Users : Revoke(u)) \/ (\E r \in Requests : Arrive(r))
    \/ (\E r \in Requests : LockAudit(r)) \/ UNCHANGED vars

\* Every step is a decision, the end of a transaction, or happens elsewhere.
LEMMA StepCases ==
    ASSUME IndInv, [Next]_vars
    PROVE  \/ Elsewhere
           \/ \E r \in Requests : \E t, to : DecideStep(r, t, to)
           \/ \E r \in Requests : Commit(r) \/ Abort(r)
BY Decides DEF Next, Elsewhere, Quiet

\* The last hash of the audit log is a history.
LEMMA HashType ==
    ASSUME TypeOK
    PROVE  LastHash \in Seq(AuditEntry)
<1>1. CASE log = << >>
  BY <1>1 DEF LastHash, GENESIS
<1>2. CASE log # << >>
  <2>1. log \in Seq(AuditRow) /\ Len(log) \in 1 .. Len(log)
    BY <1>2 DEF TypeOK
  <2>2. log[Len(log)] \in AuditRow
    BY <2>1
  <2> QED
    BY <1>2, <2>2 DEF LastHash, AuditRow
<1> QED
  BY <1>1, <1>2

\* A request with nothing buffered is a bystander.
LEMMA NoTxFacts ==
    /\ NoTx \in Tx /\ Bystands(NoTx) /\ NoTx.entry = None /\ NoTx.action = None
    /\ NoTx.profile = None
<1>1. NoRow \in Row
  BY DEF NoRow, Row
<1> QED
  BY <1>1 DEF NoTx, Decision, Tx, Bystands, Replies

\* Every step keeps the types.
LEMMA TypeStep ==
    ASSUME IndInv, [Next]_vars
    PROVE  TypeOK'
<1> USE DEF TypeOK
<1>0. TypeOK
  BY DEF IndInv
<1>1. ASSUME Tick PROVE TypeOK'
  BY <1>0, <1>1 DEF Tick, tables, locks, requests
<1>2. ASSUME NEW u \in Users, Revoke(u) PROVE TypeOK'
  <2>1. users' \in [Users -> [active : BOOLEAN, perms : SUBSET Perms]]
    <3>1. users[u].active \in BOOLEAN /\ users[u].perms \subseteq Perms
      BY <1>0
    <3>2. \E b \in BOOLEAN, q \in SUBSET Perms :
            users' = [users EXCEPT ![u] = [active |-> b, perms |-> q]]
      BY <1>2, <3>1 DEF Revoke
    <3> QED
      BY <1>0, <3>2
  <2> QED
    BY <1>0, <1>2, <2>1 DEF Revoke, tables, locks, requests
<1>3. ASSUME NEW r \in Requests, Arrive(r) PROVE TypeOK'
  BY <1>0, <1>3, WorkloadAssumption DEF Arrive, tables, locks, principal_of, Principal, PCs
<1>4. ASSUME NEW r \in Requests, LockAudit(r) PROVE TypeOK'
  <2>1. LastHash \in Seq(AuditEntry)
    BY <1>0, HashType
  <2> QED
    BY <1>0, <1>4, <2>1 DEF LockAudit, tables, PCs
<1>5. CASE UNCHANGED vars
  BY <1>0, <1>5 DEF vars, tables, locks, requests
<1>6. ASSUME NEW r \in Requests, NEW t, NEW to, DecideStep(r, t, to) PROVE TypeOK'
  BY <1>0, <1>6 DEF DecideStep, tables, PCs
<1>7. ASSUME NEW r \in Requests, Abort(r) PROVE TypeOK'
  BY <1>0, <1>7, NoTxFacts DEF Abort, Release, Finish, tables, PCs, Replies, GENESIS
<1>8. ASSUME NEW r \in Requests, Commit(r) PROVE TypeOK'
  <2>1. tx[r] \in Tx /\ prev[r] \in Seq(AuditEntry)
    BY <1>0
  <2>2. tx[r].action # None => tx[r].action \in Actions
    BY <2>1 DEF Tx
  <2>3. tx[r].row \in Row /\ tx[r].reply \in Replies
    BY <2>1 DEF Tx
  <2>4. pending' \in [Actions -> Row]
    BY <1>0, <1>8, <2>2, <2>3 DEF Commit
  <2>5. profiles' \subseteq Profile
    BY <1>0, <1>8, <2>1 DEF Commit, Tx
  <2>6. log' \in Seq(AuditRow)
    <3>1. CASE tx[r].entry = None
      BY <1>0, <1>8, <3>1 DEF Commit
    <3>2. CASE tx[r].entry # None
      <4>1. tx[r].entry \in AuditEntry
        BY <2>1, <3>2 DEF Tx
      <4>2. record_hash(prev[r], tx[r].entry) \in Seq(AuditEntry)
        BY <2>1, <4>1 DEF record_hash
      <4>3. [prev |-> prev[r], entry |-> tx[r].entry,
             hash |-> record_hash(prev[r], tx[r].entry)] \in AuditRow
        BY <2>1, <4>1, <4>2 DEF AuditRow
      <4> QED
        BY <1>0, <1>8, <3>2, <4>3 DEF Commit
    <3> QED
      BY <3>1, <3>2
  <2> QED
    BY <1>0, <1>8, <2>3, <2>4, <2>5, <2>6, NoTxFacts
       DEF Commit, Release, Finish, PCs, GENESIS
<1> QED
  BY <1>1, <1>2, <1>3, <1>4, <1>5, <1>6, <1>7, <1>8, StepCases DEF Elsewhere

\* Every step keeps principals within what the users table granted.
LEMMA PeopleStep ==
    ASSUME IndInv, [Next]_vars
    PROVE  PeopleInv'
<1> USE DEF PeopleInv, InFlight
<1>0. TypeOK /\ PeopleInv
  BY DEF IndInv
<1>1. ASSUME Tick \/ UNCHANGED vars PROVE PeopleInv'
  BY <1>0, <1>1 DEF Tick, vars, requests
<1>2. ASSUME NEW u \in Users, Revoke(u) PROVE PeopleInv'
  <2>1. \A v \in Users : users'[v].perms \subseteq users[v].perms
    <3>1. \E b : \E q \in SUBSET users[u].perms :
            users' = [users EXCEPT ![u] = [active |-> b, perms |-> q]]
      BY <1>2 DEF Revoke
    <3> QED
      BY <1>0, <3>1 DEF TypeOK
  <2> QED
    BY <1>0, <1>2, <2>1 DEF Revoke, requests
<1>3. ASSUME NEW r \in Requests, Arrive(r) PROVE PeopleInv'
  <2>1. PICK u \in Users : who' = [who EXCEPT ![r] = principal_of(u)]
    BY <1>3 DEF Arrive
  <2>2. principal_of(u) \in Principal /\ principal_of(u).user = u
        /\ principal_of(u).perms \subseteq Grants[u]
    BY <1>0 DEF TypeOK, principal_of, Principal
  <2>3. PICK c \in Calls : call' = [call EXCEPT ![r] = c]
    BY <1>3, WorkloadAssumption DEF Arrive
  <2>4. UNCHANGED users /\ pc' = [pc EXCEPT ![r] = "open"]
    BY <1>3 DEF Arrive
  <2> QED
    BY <1>0, <2>1, <2>2, <2>3, <2>4 DEF TypeOK
<1>4. ASSUME NEW r \in Requests, LockAudit(r) PROVE PeopleInv'
  BY <1>0, <1>4 DEF LockAudit, TypeOK
<1>6. ASSUME NEW r \in Requests, NEW t, NEW to, DecideStep(r, t, to) PROVE PeopleInv'
  BY <1>0, <1>6 DEF DecideStep, TypeOK
<1>7. ASSUME NEW r \in Requests, Commit(r) \/ Abort(r) PROVE PeopleInv'
  <2>1. /\ UNCHANGED users
        /\ pc' = [pc EXCEPT ![r] = "done"]
        /\ who' = [who EXCEPT ![r] = None]
        /\ call' = [call EXCEPT ![r] = None]
    BY <1>7 DEF Commit, Abort, Finish
  <2> QED
    BY <1>0, <2>1 DEF TypeOK
<1> QED
  BY <1>1, <1>2, <1>3, <1>4, <1>6, <1>7, StepCases DEF Elsewhere

\* What a step does to the row of an action: nothing, or what the transaction
\* that commits has buffered for it.
LEMMA RowChange ==
    ASSUME IndInv, [Next]_vars
    PROVE  \A p \in Actions :
             \/ pending'[p] = pending[p]
             \/ \E r \in Requests :
                  /\ Commit(r) /\ tx[r].action = p /\ pending'[p] = tx[r].row
                  /\ Opens(r, tx[r]) \/ Closes(r, tx[r]) \/ Executes(r, tx[r])
<1>0. TypeOK /\ TxInv
  BY DEF IndInv
<1>1. CASE Elsewhere
  <2>1. UNCHANGED pending
    BY <1>1 DEF Elsewhere, Tick, Revoke, Arrive, LockAudit, vars, tables
  <2> QED
    BY <2>1
<1>2. ASSUME NEW r \in Requests, NEW t, NEW to, DecideStep(r, t, to) PROVE UNCHANGED pending
  BY <1>2 DEF DecideStep, tables
<1>3. ASSUME NEW r \in Requests, Abort(r) PROVE UNCHANGED pending
  BY <1>3 DEF Abort, tables
<1>4. ASSUME NEW r \in Requests, Commit(r), NEW p \in Actions, pending'[p] # pending[p]
      PROVE  /\ tx[r].action = p /\ pending'[p] = tx[r].row
             /\ Opens(r, tx[r]) \/ Closes(r, tx[r]) \/ Executes(r, tx[r])
  <2>1. tx[r].action # None /\ tx[r].action = p /\ pending'[p] = tx[r].row
    BY <1>0, <1>4 DEF Commit, TypeOK
  <2> QED
    BY <1>0, <2>1 DEF TxInv, Bystands
<1> QED
  BY <1>1, <1>2, <1>3, <1>4, StepCases

\* Every step keeps pending_actions rows as they were proposed.
LEMMA RowStep ==
    ASSUME IndInv, [Next]_vars
    PROVE  RowInv'
<1> SUFFICES ASSUME NEW p \in Actions
             PROVE  \/ pending'[p] = NoRow
                    \/ pending'[p].status # "absent" /\ Proposed(pending'[p])
  BY DEF RowInv, Proposed
<1>1. \/ pending[p] = NoRow
      \/ pending[p].status # "absent" /\ Proposed(pending[p])
  BY DEF IndInv, RowInv
<1>2. CASE pending'[p] = pending[p]
  BY <1>1, <1>2
<1>3. ASSUME NEW r \in Requests, tx[r].action = p, pending'[p] = tx[r].row,
             Opens(r, tx[r]) \/ Closes(r, tx[r]) \/ Executes(r, tx[r])
      PROVE  pending'[p].status # "absent" /\ Proposed(pending'[p])
  <2>1. CASE Opens(r, tx[r])
    BY <1>3, <2>1 DEF Opens
  <2>2. CASE Closes(r, tx[r]) \/ Executes(r, tx[r])
    <3>1. Locks(r, tx[r]) /\ tx[r].row.status \in Final
      BY <2>2 DEF Closes, Executes, Final
    <3>2. Proposed(pending[p])
      BY <1>3, <3>1, PendingRow DEF Locks
    <3> QED
      BY <1>3, <3>1, <3>2 DEF Locks, Proposed, Final
  <2> QED
    BY <1>3, <2>1, <2>2
<1> QED
  BY <1>2, <1>3, RowChange

\* Every step leaves locks only with transactions that have not ended.
LEMMA LockStep ==
    ASSUME IndInv, [Next]_vars
    PROVE  LockInv'
<1> USE NoneAssumption DEF InFlight
<1>0. TypeOK /\ LockInv
  BY DEF IndInv
<1>1. ASSUME Tick \/ UNCHANGED vars \/ \E u \in Users : Revoke(u) PROVE LockInv'
  BY <1>0, <1>1 DEF Tick, Revoke, vars, requests, locks, LockInv
<1>2. ASSUME NEW r \in Requests, Arrive(r) PROVE LockInv'
  BY <1>0, <1>2 DEF Arrive, locks, TypeOK, LockInv
<1>3. ASSUME NEW r \in Requests, LockAudit(r) PROVE LockInv'
  BY <1>0, <1>3 DEF LockAudit, TypeOK, LockInv
<1>4. ASSUME NEW r \in Requests, NEW t, NEW to, DecideStep(r, t, to) PROVE LockInv'
  <2>1. /\ UNCHANGED auditLock /\ to \in {"auditing", "committing"}
        /\ pc[r] = "open" /\ pc' = [pc EXCEPT ![r] = to]
        /\ \/ rowLock' = rowLock
           \/ \E p \in Actions : rowLock[p] = None /\ rowLock' = [rowLock EXCEPT ![p] = r]
    BY <1>4 DEF DecideStep
  <2>2. pc'[r] \in InFlight /\ \A s \in Requests : s # r => pc'[s] = pc[s]
    BY <1>0, <2>1 DEF TypeOK
  <2>3. \A p \in Actions : rowLock'[p] = rowLock[p] \/ rowLock'[p] = r
    BY <1>0, <2>1 DEF TypeOK
  <2>4. \A p \in Actions : rowLock[p] # None => rowLock[p] \in Requests /\ pc[rowLock[p]] \in InFlight
    BY <1>0 DEF TypeOK, LockInv
  <2>5. ASSUME NEW p \in Actions, rowLock'[p] # None PROVE pc'[rowLock'[p]] \in InFlight
    BY <2>1, <2>2, <2>3, <2>4, <2>5
  <2>6. auditLock' # None => pc'[auditLock'] = "committing"
    BY <1>0, <2>1, <2>2 DEF TypeOK, LockInv
  <2> QED
    BY <2>5, <2>6 DEF LockInv
<1>5. ASSUME NEW r \in Requests, Commit(r) \/ Abort(r) PROVE LockInv'
  <2>1. Release(r) /\ pc' = [pc EXCEPT ![r] = "done"]
    BY <1>5 DEF Commit, Abort, Finish
  <2>2. \A p \in Actions : rowLock'[p] # None => rowLock'[p] = rowLock[p] /\ rowLock[p] # r
    BY <2>1 DEF Release
  <2>3. auditLock' # None => auditLock' = auditLock /\ auditLock # r
    BY <2>1 DEF Release
  <2>4. \A s \in Requests : s # r => pc'[s] = pc[s]
    BY <1>0, <2>1 DEF TypeOK
  <2> QED
    BY <1>0, <2>2, <2>3, <2>4 DEF TypeOK, LockInv
<1> QED
  BY <1>1, <1>2, <1>3, <1>4, <1>5, StepCases DEF Elsewhere

-----------------------------------------------------------------------------
(* Open transactions *)

Shape(r, t) == Bystands(t) \/ Opens(r, t) \/ Closes(r, t) \/ Executes(r, t)

\* A transaction that others leave alone keeps its shape.
LEMMA KeptShape ==
    ASSUME NEW s \in Requests, Shape(s, tx[s]), tx'[s] = tx[s],
           \A p \in Actions : p = tx[s].action => pending'[p] = pending[p],
           \A p \in Actions : rowLock[p] = s => rowLock'[p] = s,
           Opens(s, tx[s]) => \A q \in Requests \ {s} : tx'[q].action # tx[s].action
    PROVE  Shape(s, tx[s])'
<1>1. PICK t : t = tx[s]
  OBVIOUS
<1>2. tx'[s] = t /\ Shape(s, t)
  BY <1>1
<1>3. ASSUME Locks(s, t) PROVE Locks(s, t)'
  BY <1>1, <1>3 DEF Locks
<1>4. ASSUME Opens(s, t) PROVE Opens(s, t)'
  BY <1>1, <1>4 DEF Opens, Proposed
<1>5. ASSUME Closes(s, t) PROVE Closes(s, t)'
  BY <1>3, <1>5 DEF Closes
<1>6. ASSUME Executes(s, t) PROVE Executes(s, t)'
  BY <1>3, <1>6 DEF Executes
<1>7. Shape(s, t)'
  BY <1>2, <1>4, <1>5, <1>6 DEF Shape
<1> QED
  BY <1>2, <1>7

\* The transaction of r and that of s never buffer the same action.
LEMMA Disjoint ==
    ASSUME IndInv, NEW r \in Requests, NEW s \in Requests, r # s, tx[r].action \in Actions
    PROVE  tx[s].action # tx[r].action
<1>1. Shape(r, tx[r]) /\ Shape(s, tx[s])
  BY DEF IndInv, TxInv, Shape
<1>2. SUFFICES ASSUME tx[s].action = tx[r].action PROVE FALSE
  OBVIOUS
<1>3. PICK p \in Actions : p = tx[r].action
  OBVIOUS
<1>4. Opens(r, tx[r]) \/ Locks(r, tx[r])
  BY <1>1, <1>3, NoneAssumption DEF Shape, Bystands, Closes, Executes
<1>5. Opens(s, tx[s]) \/ Locks(s, tx[s])
  BY <1>1, <1>2, <1>3, NoneAssumption DEF Shape, Bystands, Closes, Executes
<1>6. CASE Opens(r, tx[r]) \/ Opens(s, tx[s])
  BY <1>2, <1>6 DEF Opens
<1>7. CASE Locks(r, tx[r]) /\ Locks(s, tx[s])
  BY <1>2, <1>7 DEF Locks
<1> QED
  BY <1>4, <1>5, <1>6, <1>7

\* Everything TxInv says of a request besides the shape of its transaction.
Progress(r) ==
    /\ pc[r] \notin InFlight => tx[r] = NoTx
    /\ pc[r] = "auditing" => tx[r].entry # None
    /\ pc[r] = "committing" /\ tx[r].entry # None =>
         auditLock = r /\ prev[r] = LastHash
    /\ tx[r].entry # None => tx[r].entry.request = r
    /\ pc[r] \in InFlight => tx[r].reply \in Answers

\* TxInv is how far each transaction is, and which shape it has.
LEMMA TxSplit == TxInv <=> \A r \in Requests : Progress(r) /\ Shape(r, tx[r])
BY DEF TxInv, Progress, Shape, Answers

\* A request no step of its own or of the lock it needs keeps its progress.
LEMMA KeptProgress ==
    ASSUME NEW s \in Requests, Progress(s), tx'[s] = tx[s], pc'[s] = pc[s],
           prev'[s] = prev[s],
           auditLock = s => auditLock' = s /\ UNCHANGED log
    PROVE  Progress(s)'
<1>1. UNCHANGED log => LastHash' = LastHash
  BY DEF LastHash
<1> QED
  BY <1>1 DEF Progress

\* Every step keeps the open transactions well formed.
LEMMA TxStep ==
    ASSUME IndInv, [Next]_vars
    PROVE  TxInv'
<1>0. TypeOK /\ LockInv /\ \A s \in Requests : Progress(s) /\ Shape(s, tx[s])
  BY TxSplit DEF IndInv
<1> SUFFICES ASSUME NEW s \in Requests PROVE Progress(s)' /\ Shape(s, tx[s])'
  BY TxSplit DEF TxInv, Progress, Shape, Answers
<1>1. Progress(s) /\ Shape(s, tx[s])
  BY <1>0
<1>a. Opens(s, tx[s]) => \A q \in Requests \ {s} : tx[q].action # tx[s].action
  BY DEF Opens
<1>2. CASE Tick \/ UNCHANGED vars \/ \E u \in Users : Revoke(u)
  <2>1. UNCHANGED <<pending, log, rowLock, auditLock, pc, tx, prev>>
    BY <1>2 DEF Tick, Revoke, vars, tables, locks, requests
  <2> QED
    BY <1>1, <1>a, <2>1, KeptShape, KeptProgress
<1>3. ASSUME NEW r \in Requests, Arrive(r) PROVE Progress(s)' /\ Shape(s, tx[s])'
  <2>1. /\ UNCHANGED <<pending, log, rowLock, auditLock, tx, prev>>
        /\ pc[r] = "new" /\ pc' = [pc EXCEPT ![r] = "open"]
    BY <1>3 DEF Arrive, tables, locks
  <2>2. Shape(s, tx[s])'
    BY <1>1, <1>a, <2>1, KeptShape
  <2>3. CASE s # r
    BY <1>0, <1>1, <2>1, <2>2, <2>3, KeptProgress DEF TypeOK
  <2>4. CASE s = r
    BY <1>0, <1>1, <2>1, <2>2, <2>4 DEF TypeOK, Progress, InFlight
  <2> QED
    BY <2>3, <2>4
<1>4. ASSUME NEW r \in Requests, LockAudit(r) PROVE Progress(s)' /\ Shape(s, tx[s])'
  <2>1. /\ UNCHANGED <<pending, log, rowLock, tx>>
        /\ pc[r] = "auditing" /\ pc' = [pc EXCEPT ![r] = "committing"]
        /\ auditLock = None /\ auditLock' = r /\ prev' = [prev EXCEPT ![r] = LastHash]
    BY <1>4 DEF LockAudit, tables
  <2>2. Shape(s, tx[s])'
    BY <1>1, <1>a, <2>1, KeptShape
  <2>3. CASE s # r
    BY <1>0, <1>1, <2>1, <2>2, <2>3, KeptProgress, NoneAssumption DEF TypeOK
  <2>4. CASE s = r
    <3>1. LastHash' = LastHash
      BY <2>1 DEF LastHash
    <3> QED
      BY <1>0, <1>1, <2>1, <2>2, <2>4, <3>1 DEF TypeOK, Progress, InFlight
  <2> QED
    BY <2>3, <2>4
<1>5. ASSUME NEW r \in Requests, NEW t, NEW to, DecideStep(r, t, to)
      PROVE  Progress(s)' /\ Shape(s, tx[s])'
  <2>1. /\ UNCHANGED <<pending, log, auditLock, prev>>
        /\ pc[r] = "open" /\ pc' = [pc EXCEPT ![r] = to]
        /\ tx' = [tx EXCEPT ![r] = t]
        /\ t.entry = None => to = "committing"
        /\ t.entry # None => to = "auditing" /\ t.entry.request = r
        /\ t.reply \in Answers
        /\ Bystands(t) \/ Opens(r, t)' \/ Closes(r, t)' \/ Executes(r, t)'
    BY <1>5 DEF DecideStep, tables
  <2>2. \A p \in Actions : rowLock[p] = s => rowLock'[p] = s
    BY <1>0, <1>5, NoneAssumption DEF DecideStep, TypeOK
  <2>3. CASE s = r
    <3>1. tx'[s] = t /\ pc'[s] = to
      BY <1>0, <2>1, <2>3 DEF TypeOK
    <3>2. Shape(s, t)'
      BY <2>1, <2>3 DEF Shape
    <3>3. Progress(s)'
      BY <2>1, <2>3, <3>1 DEF Progress, InFlight
    <3> QED
      BY <3>1, <3>2, <3>3
  <2>4. CASE s # r
    <3>1. tx'[r] = t /\ tx'[s] = tx[s] /\ pc'[s] = pc[s]
      BY <1>0, <2>1, <2>4 DEF TypeOK
    <3>2. Progress(s)'
      BY <1>1, <2>1, <3>1, KeptProgress
    <3>3. ASSUME Opens(s, tx[s]) PROVE t.action # tx[s].action
      <4>1. tx[s].action \in Actions /\ pending'[tx[s].action] = NoRow
        BY <2>1, <3>3 DEF Opens
      <4>2. CASE Bystands(t)
        BY <4>1, <4>2, NoneAssumption DEF Bystands
      <4>3. CASE Opens(r, t)'
        BY <2>4, <3>1, <4>3 DEF Opens
      <4>4. CASE Closes(r, t)' \/ Executes(r, t)'
        BY <4>1, <4>4 DEF Closes, Executes, Locks, NoRow
      <4> QED
        BY <2>1, <4>2, <4>3, <4>4
    <3>4. ASSUME Opens(s, tx[s]), NEW q \in Requests \ {s} PROVE tx'[q].action # tx[s].action
      BY <1>0, <1>a, <2>1, <3>3, <3>4 DEF TypeOK
    <3>5. Shape(s, tx[s])'
      BY <1>1, <2>1, <2>2, <3>1, <3>4, KeptShape
    <3> QED
      BY <3>2, <3>5
  <2> QED
    BY <2>3, <2>4
<1>6. ASSUME NEW r \in Requests, Commit(r) \/ Abort(r) PROVE Progress(s)' /\ Shape(s, tx[s])'
  <2>1. /\ Release(r) /\ pc' = [pc EXCEPT ![r] = "done"] /\ tx' = [tx EXCEPT ![r] = NoTx]
        /\ prev' = [prev EXCEPT ![r] = GENESIS]
    BY <1>6 DEF Commit, Abort, Finish
  <2>2. CASE s = r
    <3>1. tx'[s] = NoTx /\ pc'[s] = "done"
      BY <1>0, <2>1, <2>2 DEF TypeOK
    <3> QED
      BY <3>1, NoTxFacts DEF Progress, Shape, InFlight
  <2>3. CASE s # r
    <3>1. tx'[s] = tx[s] /\ pc'[s] = pc[s] /\ prev'[s] = prev[s]
      BY <1>0, <2>1, <2>3 DEF TypeOK
    <3>2. \A p \in Actions : rowLock[p] = s => rowLock'[p] = s
      BY <2>1, <2>3 DEF Release
    <3>3. \A p \in Actions : p = tx[s].action => pending'[p] = pending[p]
      <4>1. CASE Abort(r)
        BY <4>1 DEF Abort, tables
      <4>2. CASE Commit(r)
        BY <1>0, <2>3, <4>2, Disjoint DEF Commit, TypeOK
      <4> QED
        BY <1>6, <4>1, <4>2
    <3>4. ASSUME Opens(s, tx[s]), NEW q \in Requests \ {s} PROVE tx'[q].action # tx[s].action
      <4>1. tx[s].action # None
        BY <3>4, NoneAssumption DEF Opens
      <4> QED
        BY <1>0, <1>a, <2>1, <3>4, <4>1, NoTxFacts DEF TypeOK
    <3>5. auditLock = s => auditLock' = s /\ UNCHANGED log
      <4>1. ASSUME auditLock = s PROVE UNCHANGED log
        <5>1. CASE Abort(r)
          BY <5>1 DEF Abort, tables
        <5>2. CASE Commit(r)
          <6>1. tx[r].entry = None
            BY <1>0, <2>3, <4>1, <5>2 DEF Commit, Progress
          <6> QED
            BY <5>2, <6>1 DEF Commit
        <5> QED
          BY <1>6, <5>1, <5>2
      <4> QED
        BY <2>1, <2>3, <4>1 DEF Release
    <3> QED
      BY <1>1, <3>1, <3>2, <3>3, <3>4, <3>5, KeptShape, KeptProgress
  <2> QED
    BY <2>2, <2>3
<1> QED
  BY <1>2, <1>3, <1>4, <1>5, <1>6, StepCases DEF Elsewhere

-----------------------------------------------------------------------------
(* The tables and the audit log *)

Outcomes ==
    /\ ExecutedAtMostOnce /\ ExecutionIsAccountable /\ SeparationOfDuties
    /\ AuditChainIntact /\ AuditedExactlyOnce

\* What has been answered stays answered.
LEMMA DoneStays ==
    ASSUME IndInv, [Next]_vars, NEW s \in Requests, pc[s] = "done"
    PROVE  pc'[s] = "done" /\ reply'[s] = reply[s]
<1>0. TypeOK
  BY DEF IndInv
<1>1. CASE Elsewhere
  BY <1>0, <1>1 DEF Elsewhere, Tick, Revoke, Arrive, LockAudit, vars, requests, TypeOK
<1>2. ASSUME NEW r \in Requests, NEW t, NEW to, DecideStep(r, t, to)
      PROVE  pc'[s] = "done" /\ reply'[s] = reply[s]
  BY <1>0, <1>2 DEF DecideStep, TypeOK
<1>3. ASSUME NEW r \in Requests, Commit(r) \/ Abort(r)
      PROVE  pc'[s] = "done" /\ reply'[s] = reply[s]
  <2>1. pc[r] # "done" /\ \E a : pc' = [pc EXCEPT ![r] = "done"] /\ reply' = [reply EXCEPT ![r] = a]
    BY <1>3 DEF Commit, Abort, Finish
  <2> QED
    BY <1>0, <2>1 DEF TypeOK
<1> QED
  BY <1>1, <1>2, <1>3, StepCases

\* Only the commit of a transaction with an audit entry changes a table.
LEMMA TableChange ==
    ASSUME IndInv, [Next]_vars
    PROVE  UNCHANGED tables \/ \E r \in Requests : Commit(r) /\ tx[r].entry # None
<1>1. CASE Elsewhere
  BY <1>1 DEF Elsewhere, Tick, Revoke, Arrive, LockAudit, vars
<1>2. ASSUME NEW r \in Requests, NEW t, NEW to, DecideStep(r, t, to) PROVE UNCHANGED tables
  BY <1>2 DEF DecideStep
<1>3. ASSUME NEW r \in Requests, Abort(r) PROVE UNCHANGED tables
  BY <1>3 DEF Abort
<1>4. ASSUME NEW r \in Requests, Commit(r), tx[r].entry = None PROVE UNCHANGED tables
  <2>1. Bystands(tx[r])
    BY <1>4 DEF IndInv, TxInv, Opens, Closes, Executes, Locks
  <2> QED
    BY <1>4, <2>1 DEF Bystands, Commit, tables
<1> QED
  BY <1>1, <1>2, <1>3, <1>4, StepCases

\* An audit row names the request that wrote it.
LEMMA LogRequests ==
    ASSUME TypeOK, NEW i \in DOMAIN log
    PROVE  log[i].entry.request \in Requests
<1>1. log[i] \in AuditRow
  BY DEF TypeOK
<1> QED
  BY <1>1 DEF AuditRow, AuditEntry

\* A step that writes no table keeps what the tables promise.
LEMMA OutcomesKept ==
    ASSUME IndInv, [Next]_vars, UNCHANGED tables
    PROVE  Outcomes'
<1>1. Outcomes
  BY DEF IndInv, Outcomes
<1>2. UNCHANGED <<pending, profiles, results, log>>
  BY DEF tables
<1>3. \A p \in Actions : ExecutedRows(p)' = ExecutedRows(p)
  BY <1>2 DEF ExecutedRows
<1>4. ExecutedAtMostOnce' /\ SeparationOfDuties' /\ AuditChainIntact'
  BY <1>1, <1>2 DEF Outcomes, ExecutedAtMostOnce, SeparationOfDuties, AuditChainIntact
<1>5. ExecutionIsAccountable'
  BY <1>1, <1>2, <1>3 DEF Outcomes, ExecutionIsAccountable
<1>6. \A i \in DOMAIN log : log[i].entry.request \in Requests
  BY LogRequests DEF IndInv
<1>7. AuditedExactlyOnce'
  BY <1>1, <1>2, <1>6, DoneStays DEF Outcomes, AuditedExactlyOnce
<1> QED
  BY <1>4, <1>5, <1>7 DEF Outcomes

\* A commit with an audit entry appends one row to the log.
LEMMA LogGrows ==
    ASSUME IndInv, NEW r \in Requests, Commit(r), tx[r].entry # None
    PROVE  /\ Len(log) \in Nat /\ DOMAIN log = 1 .. Len(log)
           /\ DOMAIN log' = 1 .. Len(log) + 1
           /\ \A i \in 1 .. Len(log) : log'[i] = log[i]
           /\ log'[Len(log) + 1].prev = prev[r]
           /\ log'[Len(log) + 1].entry = tx[r].entry
           /\ log'[Len(log) + 1].hash = record_hash(prev[r], tx[r].entry)
<1>1. log \in Seq(AuditRow)
  BY DEF IndInv, TypeOK
<1>2. PICK row : row = [prev |-> prev[r], entry |-> tx[r].entry,
                        hash |-> record_hash(prev[r], tx[r].entry)]
  OBVIOUS
<1>3. log' = Append(log, row)
  BY <1>2 DEF Commit
<1>4. PICK n \in Nat : n = Len(log)
  BY <1>1
<1>5. /\ DOMAIN log = 1 .. n /\ DOMAIN log' = 1 .. n + 1
      /\ \A i \in 1 .. n : log'[i] = log[i]
      /\ log'[n + 1] = row
  BY <1>1, <1>3, <1>4
<1> QED
  BY <1>2, <1>4, <1>5

\* A commit under the advisory lock extends the hash chain.
LEMMA ChainGrows ==
    ASSUME IndInv, NEW r \in Requests, Commit(r), tx[r].entry # None
    PROVE  AuditChainIntact'
<1>1. PICK n \in Nat : n = Len(log)
  BY LogGrows
<1>2. /\ DOMAIN log = 1 .. n /\ DOMAIN log' = 1 .. n + 1
      /\ \A i \in 1 .. n : log'[i] = log[i]
      /\ log'[n + 1].prev = prev[r] /\ log'[n + 1].entry = tx[r].entry
      /\ log'[n + 1].hash = record_hash(prev[r], tx[r].entry)
  BY <1>1, LogGrows
<1>3. prev[r] = LastHash
  BY DEF IndInv, TxInv, Commit
<1>4. prev[r] = IF n = 0 THEN GENESIS ELSE log[n].hash
  <2>1. log = << >> <=> n = 0
    BY <1>1 DEF IndInv, TypeOK
  <2> QED
    BY <1>1, <1>3, <2>1 DEF LastHash
<1>5. AuditChainIntact
  BY DEF IndInv
<1> SUFFICES ASSUME NEW i \in 1 .. n + 1
             PROVE  /\ log'[i].prev = IF i = 1 THEN GENESIS ELSE log'[i - 1].hash
                    /\ log'[i].hash = record_hash(log'[i].prev, log'[i].entry)
  BY <1>2 DEF AuditChainIntact, GENESIS, record_hash
<1>6. CASE i = n + 1
  BY <1>1, <1>2, <1>4, <1>6, SMTT(30) DEF record_hash
<1>7. CASE i \in 1 .. n
  <2>1. i # 1 => i - 1 \in 1 .. n
    BY <1>1, <1>7
  <2> QED
    BY <1>2, <1>5, <1>7, <2>1 DEF AuditChainIntact, record_hash
<1> QED
  BY <1>1, <1>6, <1>7

\* A commit adds the only audit row of its request.
LEMMA AuditGrows ==
    ASSUME IndInv, [Next]_vars, NEW r \in Requests, Commit(r), tx[r].entry # None
    PROVE  AuditedExactlyOnce'
<1>0. TypeOK /\ AuditedExactlyOnce
  BY DEF IndInv
<1>1. PICK n \in Nat : n = Len(log)
  BY LogGrows
<1>2. PICK e : e = tx[r].entry
  OBVIOUS
<1>3. /\ DOMAIN log = 1 .. n /\ DOMAIN log' = 1 .. n + 1
      /\ \A i \in 1 .. n : log'[i] = log[i]
      /\ log'[n + 1].entry = e
  BY <1>1, <1>2, LogGrows
<1>4. e.request = r /\ tx[r].reply \in Answers
  BY <1>2 DEF IndInv, TxInv, Commit, InFlight, Answers
<1>5. \A i \in 1 .. n : /\ log[i].entry.request \in Requests
                        /\ pc[log[i].entry.request] = "done"
                        /\ reply[log[i].entry.request] \in Answers
                        /\ log[i].entry.request # r
  BY <1>0, <1>3, LogRequests DEF AuditedExactlyOnce, Commit, Answers
<1>6. pc'[r] = "done" /\ reply'[r] = tx[r].reply
  BY <1>0 DEF Commit, Finish, TypeOK
<1>7. \A i \in 1 .. n + 1 : i \in 1 .. n \/ i = n + 1
  BY <1>1
<1>8. \A i, j \in DOMAIN log' :
        log'[i].entry.request = log'[j].entry.request => i = j
  <2> SUFFICES ASSUME NEW i \in 1 .. n + 1, NEW j \in 1 .. n + 1,
                      log'[i].entry.request = log'[j].entry.request
               PROVE  i = j
    BY <1>3
  <2>1. CASE i \in 1 .. n /\ j \in 1 .. n
    BY <1>0, <1>3, <2>1 DEF AuditedExactlyOnce
  <2>2. CASE i = n + 1 /\ j \in 1 .. n
    BY <1>3, <1>4, <1>5, <2>2
  <2>3. CASE j = n + 1 /\ i \in 1 .. n
    BY <1>3, <1>4, <1>5, <2>3
  <2> QED
    BY <1>7, <2>1, <2>2, <2>3
<1>9. \A i \in DOMAIN log' : LET s == log'[i].entry.request IN
        pc'[s] = "done" /\ reply'[s] \in Answers
  <2>1. \A i \in 1 .. n : LET s == log'[i].entry.request IN
          pc'[s] = "done" /\ reply'[s] \in Answers
    BY <1>3, <1>5, DoneStays
  <2> QED
    BY <1>3, <1>4, <1>6, <1>7, <2>1
<1>10. tx[r].result <=> e.event = "tool_call" /\ e.decision = "executed"
  BY <1>2 DEF IndInv, TxInv, Bystands, Opens, Closes, Executes, Locks
<1>11. results' = IF tx[r].result THEN results \cup {r} ELSE results
  BY DEF Commit
<1>12. r \notin results
  BY <1>0, <1>3, <1>5 DEF AuditedExactlyOnce
<1>13. ASSUME NEW s \in Requests
       PROVE  s \in results' <=> \E i \in DOMAIN log' :
                  /\ log'[i].entry.request = s
                  /\ log'[i].entry.event = "tool_call"
                  /\ log'[i].entry.decision = "executed"
  <2>0. s \in results <=> \E i \in 1 .. n :
                  /\ log[i].entry.request = s
                  /\ log[i].entry.event = "tool_call"
                  /\ log[i].entry.decision = "executed"
    BY <1>0, <1>3 DEF AuditedExactlyOnce
  <2>1. n + 1 \in 1 .. n + 1 /\ 1 .. n \subseteq 1 .. n + 1
    BY <1>1
  <2>2. CASE s = r
    <3>1. \A i \in 1 .. n : log'[i].entry.request # s
      BY <1>3, <1>5, <2>2
    <3>2. s \in results' <=> tx[r].result
      BY <1>11, <1>12, <2>2
    <3> QED
      BY <1>3, <1>4, <1>7, <1>10, <2>1, <2>2, <3>1, <3>2
  <2>3. CASE s # r
    <3>1. s \in results' <=> s \in results
      BY <1>11, <2>3
    <3> QED
      BY <1>3, <1>4, <1>7, <2>0, <2>1, <2>3, <3>1
  <2> QED
    BY <2>2, <2>3
<1> QED
  BY <1>8, <1>9, <1>13 DEF AuditedExactlyOnce, Answers

\* The new row counts for an action only if it says that action was executed.
LEMMA ExecutedRowsGrow ==
    ASSUME IndInv, NEW r \in Requests, Commit(r), tx[r].entry # None, NEW p \in Actions
    PROVE  /\ tx[r].entry.action = p /\ tx[r].entry.decision = "executed" =>
                ExecutedRows(p)' = ExecutedRows(p) \cup {Len(log) + 1}
           /\ ~(tx[r].entry.action = p /\ tx[r].entry.decision = "executed") =>
                ExecutedRows(p)' = ExecutedRows(p)
           /\ \A i \in ExecutedRows(p) : log'[i] = log[i]
<1>1. PICK n \in Nat : n = Len(log)
  BY LogGrows
<1>2. PICK e : e = tx[r].entry
  OBVIOUS
<1>3. /\ DOMAIN log = 1 .. n /\ DOMAIN log' = 1 .. n + 1
      /\ \A i \in 1 .. n : log'[i] = log[i]
      /\ log'[n + 1].entry = e
  BY <1>1, <1>2, LogGrows
<1>4. 1 .. n + 1 = (1 .. n) \cup {n + 1} /\ n + 1 \notin 1 .. n
  BY <1>1
<1> QED
  BY <1>1, <1>2, <1>3, <1>4 DEF ExecutedRows

\* Before an action is executed nothing speaks of its execution.
LEMMA Untouched ==
    ASSUME IndInv, NEW p \in Actions, pending[p].status # "executed"
    PROVE  ExecutedRows(p) = {} /\ \A f \in profiles : f.action # p
BY DEF IndInv, ExecutionIsAccountable

\* A commit keeps rows, profiles and audit rows in agreement.
LEMMA AccountGrows ==
    ASSUME IndInv, NEW r \in Requests, Commit(r), tx[r].entry # None
    PROVE  ExecutedAtMostOnce' /\ ExecutionIsAccountable' /\ SeparationOfDuties'
<1>0. /\ TypeOK /\ ExecutedAtMostOnce /\ ExecutionIsAccountable /\ SeparationOfDuties
      /\ Shape(r, tx[r])
  BY DEF IndInv, TxInv, Shape
<1>1. PICK e : e = tx[r].entry
  OBVIOUS
<1>2. \A p \in Actions :
        /\ e.action = p /\ e.decision = "executed" =>
             ExecutedRows(p)' = ExecutedRows(p) \cup {Len(log) + 1}
        /\ ~(e.action = p /\ e.decision = "executed") => ExecutedRows(p)' = ExecutedRows(p)
        /\ \A i \in ExecutedRows(p) : log'[i] = log[i]
  BY <1>1, ExecutedRowsGrow
<1>3. CASE Bystands(tx[r])
  <2>1. pending' = pending /\ profiles' = profiles
    BY <1>3 DEF Bystands, Commit
  <2>2. \A p \in Actions : ExecutedRows(p)' = ExecutedRows(p)
    BY <1>1, <1>2, <1>3, NoneAssumption DEF Bystands
  <2>3. ExecutionIsAccountable'
    BY <1>0, <1>2, <2>1, <2>2 DEF ExecutionIsAccountable, action_hash
  <2> QED
    BY <1>0, <2>1, <2>3 DEF ExecutedAtMostOnce, SeparationOfDuties
<1>4. CASE Opens(r, tx[r]) \/ Closes(r, tx[r])
  <2>1. PICK q \in Actions : q = tx[r].action
    BY <1>4 DEF Opens, Closes, Locks
  <2>2. /\ pending[q].status # "executed" /\ tx[r].row.status # "executed"
        /\ tx[r].profile = None /\ e.decision # "executed"
    BY <1>1, <1>4, <2>1 DEF Opens, Closes, Locks, NoRow, Final
  <2>3. profiles' = profiles /\ pending' = [pending EXCEPT ![q] = tx[r].row]
    BY <2>1, <2>2, NoneAssumption DEF Commit
  <2>4. \A p \in Actions : ExecutedRows(p)' = ExecutedRows(p)
    BY <1>2, <2>2
  <2>5. pending'[q].status # "executed" /\ \A p \in Actions : p # q => pending'[p] = pending[p]
    BY <1>0, <2>2, <2>3 DEF TypeOK
  <2>6. ExecutedRows(q) = {} /\ \A f \in profiles : f.action # q
    BY <2>2, Untouched
  <2>7. ExecutionIsAccountable'
    BY <1>0, <1>2, <2>3, <2>4, <2>5, <2>6 DEF ExecutionIsAccountable, action_hash
  <2> QED
    BY <1>0, <2>3, <2>7 DEF ExecutedAtMostOnce, SeparationOfDuties
<1>5. CASE Executes(r, tx[r])
  <2>1. PICK q \in Actions : q = tx[r].action
    BY <1>5 DEF Executes, Locks
  <2>2. PICK f : f = tx[r].profile
    OBVIOUS
  <2>3. PICK row : row = tx[r].row
    OBVIOUS
  <2>4. /\ pending[q].status = "pending" /\ Proposed(pending[q])
        /\ row.requester = pending[q].requester /\ row.args = pending[q].args
        /\ row.hash = pending[q].hash
    BY <1>5, <2>1, <2>3, PendingRow DEF Executes, Locks
  <2>5. /\ row.status = "executed" /\ row.approver # row.requester
        /\ "vpn:approve" \in Grants[row.approver]
        /\ f # None /\ f.action = q /\ f.args = row.args
        /\ f.requested_by = row.requester /\ f.approved_by = row.approver
        /\ e.action = q /\ e.decision = "executed" /\ e.actor = row.approver
        /\ e.hash = row.hash
    BY <1>1, <1>5, <2>1, <2>2, <2>3 DEF Executes, Locks
  <2>6. /\ profiles' = profiles \cup {f}
        /\ pending' = [pending EXCEPT ![q] = row]
    BY <2>1, <2>2, <2>3, <2>5, NoneAssumption DEF Commit
  <2>7. pending'[q] = row /\ \A p \in Actions : p # q => pending'[p] = pending[p]
    BY <1>0, <2>6 DEF TypeOK
  <2>8. ExecutedRows(q) = {} /\ \A g \in profiles : g.action # q
    BY <2>4, Untouched
  <2>9. /\ ExecutedRows(q)' = {Len(log) + 1}
        /\ log'[Len(log) + 1].entry = e
        /\ \A p \in Actions : p # q => ExecutedRows(p)' = ExecutedRows(p)
    BY <1>1, <1>2, <2>5, <2>8, LogGrows
  <2>10. ASSUME NEW p \in Actions
         PROVE  /\ pending'[p].status = "executed" <=> \E g \in profiles' : g.action = p
                /\ pending'[p].status = "executed" <=> ExecutedRows(p)' # {}
                /\ \A g \in profiles' : g.action = p =>
                     /\ g.args = pending'[p].args
                     /\ g.requested_by = pending'[p].requester
                     /\ g.approved_by = pending'[p].approver
                     /\ pending'[p].hash = action_hash(g.args, g.requested_by)
                /\ \A i \in ExecutedRows(p)' :
                     /\ log'[i].entry.actor = pending'[p].approver
                     /\ log'[i].entry.hash = pending'[p].hash
    <3>1. CASE p = q
      BY <2>4, <2>5, <2>6, <2>7, <2>8, <2>9, <3>1, SMTT(30) DEF Proposed
    <3>2. CASE p # q
      BY <1>0, <1>2, <2>5, <2>6, <2>7, <2>9, <3>2 DEF ExecutionIsAccountable
    <3> QED
      BY <3>1, <3>2
  <2>11. ExecutionIsAccountable'
    BY <2>10 DEF ExecutionIsAccountable, action_hash
  <2>12. ExecutedAtMostOnce'
    BY <1>0, <2>5, <2>6, <2>8 DEF ExecutedAtMostOnce
  <2>13. SeparationOfDuties'
    BY <1>0, <2>4, <2>5, <2>6 DEF SeparationOfDuties, Proposed
  <2> QED
    BY <2>11, <2>12, <2>13
<1> QED
  BY <1>0, <1>3, <1>4, <1>5 DEF Shape

\* Every step keeps what the tables promise.
LEMMA OutcomeStep ==
    ASSUME IndInv, [Next]_vars
    PROVE  Outcomes'
BY TableChange, OutcomesKept, ChainGrows, AuditGrows, AccountGrows DEF Outcomes

\* Every step keeps the invariant.
LEMMA InductiveStep == IndInv /\ [Next]_vars => IndInv'
BY TypeStep, PeopleStep, RowStep, LockStep, TxStep, OutcomeStep DEF IndInv, Outcomes

-----------------------------------------------------------------------------
(* The theorems *)

\* IndInv holds in every reachable state, for any set of users, actions,
\* arguments and requests, any workload and any edits of the users table.
THEOREM Invariance == Spec => []IndInv
BY InitInv, InductiveStep, PTL DEF Spec

\* The tables, the locks and the open transactions of run_tool, approve_pending
\* and reject_pending keep their types.
THEOREM TypeCorrect == Spec => []TypeOK
<1>1. IndInv => TypeOK
  BY DEF IndInv
<1> QED
  BY <1>1, Invariance, PTL

\* "A double approval cannot run it twice", whatever approve_pending,
\* reject_pending and rollbacks do concurrently.
THEOREM ExecuteOnce == Spec => []ExecutedAtMostOnce
<1>1. IndInv => ExecutedAtMostOnce
  BY DEF IndInv
<1> QED
  BY <1>1, Invariance, PTL

\* Executed status, VPN profile and executed audit row go together.
THEOREM Accountable == Spec => []ExecutionIsAccountable
<1>1. IndInv => ExecutionIsAccountable
  BY DEF IndInv
<1> QED
  BY <1>1, Invariance, PTL

\* Every profile was requested and approved by two people who may do so.
THEOREM DutiesSeparated == Spec => []SeparationOfDuties
<1>1. IndInv => SeparationOfDuties
  BY DEF IndInv
<1> QED
  BY <1>1, Invariance, PTL

\* audit.append never forks the chain: verify_chain would find it intact.
THEOREM ChainNeverForks == Spec => []AuditChainIntact
<1>1. IndInv => AuditChainIntact
  BY DEF IndInv
<1> QED
  BY <1>1, Invariance, PTL

\* One audit row per answered request that decided something, none for a lost
\* one, and a tool result exactly with its executed row.
THEOREM AuditedOnce == Spec => []AuditedExactlyOnce
<1>1. IndInv => AuditedExactlyOnce
  BY DEF IndInv
<1> QED
  BY <1>1, Invariance, PTL

\* A row of pending_actions is decided once and never edited.
THEOREM Finality == Spec => DecisionsAreFinal
<1>1. IndInv /\ [Next]_vars =>
        [\A p \in Actions :
         /\ pending[p].status \in Final => pending'[p] = pending[p]
         /\ pending[p].status = "pending" =>
              /\ pending'[p].status \in {"pending"} \cup Final
              /\ pending'[p].requester = pending[p].requester
              /\ pending'[p].args = pending[p].args
              /\ pending'[p].hash = pending[p].hash
              /\ pending'[p].expires = pending[p].expires]_vars
  <2> SUFFICES ASSUME IndInv, [Next]_vars, NEW p \in Actions
               PROVE  /\ pending[p].status \in Final => pending'[p] = pending[p]
                      /\ pending[p].status = "pending" =>
                           /\ pending'[p].status \in {"pending"} \cup Final
                           /\ pending'[p].requester = pending[p].requester
                           /\ pending'[p].args = pending[p].args
                           /\ pending'[p].hash = pending[p].hash
                           /\ pending'[p].expires = pending[p].expires
    OBVIOUS
  <2>1. CASE pending'[p] = pending[p]
    BY <2>1
  <2>2. ASSUME NEW r \in Requests, tx[r].action = p, pending'[p] = tx[r].row, Opens(r, tx[r])
        PROVE  pending[p].status \notin {"pending"} \cup Final
    BY <2>2 DEF Opens, NoRow, Final
  <2>3. ASSUME NEW r \in Requests, tx[r].action = p, pending'[p] = tx[r].row,
               Closes(r, tx[r]) \/ Executes(r, tx[r])
        PROVE  /\ pending[p].status = "pending" /\ pending[p].status \notin Final
               /\ pending'[p].status \in Final
               /\ pending'[p].requester = pending[p].requester
               /\ pending'[p].args = pending[p].args
               /\ pending'[p].hash = pending[p].hash
               /\ pending'[p].expires = pending[p].expires
    BY <2>3 DEF Closes, Executes, Locks, Final
  <2> QED
    BY <2>1, <2>2, <2>3, RowChange
<1> QED
  BY <1>1, Invariance, PTL DEF Spec, DecisionsAreFinal

\* A step lets a lapsed action lapse on, as long as its row is not decided.
LEMMA LapseStays ==
    ASSUME IndInv, [Next]_vars, NEW p \in Actions, Lapsed(p), pending'[p] = pending[p]
    PROVE  Lapsed(p)'
<1>0. TypeOK /\ pending[p].status = "pending" /\ Undecided(p)
  BY DEF IndInv, Lapsed
<1>1. PICK u \in Users : u = pending[p].requester
  BY <1>0, PendingRow DEF Proposed
<1>2. pending[p].expires \in Nat
  BY <1>0 DEF TypeOK, Row
<1>3. now' \in Nat /\ now' >= now
  <2>1. CASE Elsewhere
    <3>1. now' = now \/ now' = now + 1
      BY <2>1 DEF Elsewhere, Tick, Revoke, Arrive, LockAudit, vars
    <3>2. now \in Nat
      BY <1>0 DEF TypeOK
    <3> QED
      BY <3>1, <3>2
  <2>2. ASSUME NEW r \in Requests, NEW t, NEW to, DecideStep(r, t, to) PROVE now' = now
    BY <2>2 DEF DecideStep
  <2>3. ASSUME NEW r \in Requests, Commit(r) \/ Abort(r) PROVE now' = now
    BY <2>3 DEF Commit, Abort
  <2> QED
    BY <1>0, <2>1, <2>2, <2>3, StepCases DEF TypeOK
<1>4. Expired(p) => Expired(p)'
  BY <1>0, <1>2, <1>3 DEF Expired, TypeOK
<1>5. /\ users'[u].active => users[u].active
      /\ users'[u].perms \subseteq users[u].perms
  <2>1. ASSUME NEW v \in Users, Revoke(v)
        PROVE  /\ users'[u].active => users[u].active
               /\ users'[u].perms \subseteq users[u].perms
    <3>1. \E b \in BOOLEAN : \E q \in SUBSET users[v].perms :
            /\ b => users[v].active
            /\ users' = [users EXCEPT ![v] = [active |-> b, perms |-> q]]
      <4>1. users[v].active \in BOOLEAN
        BY <1>0 DEF TypeOK
      <4> QED
        BY <2>1, <4>1 DEF Revoke
    <3> QED
      BY <1>0, <3>1 DEF TypeOK
  <2>2. CASE Elsewhere
    BY <2>1, <2>2 DEF Elsewhere, Tick, Arrive, LockAudit, vars
  <2>3. ASSUME NEW r \in Requests, NEW t, NEW to, DecideStep(r, t, to) PROVE users' = users
    BY <2>3 DEF DecideStep
  <2>4. ASSUME NEW r \in Requests, Commit(r) \/ Abort(r) PROVE users' = users
    BY <2>4 DEF Commit, Abort
  <2> QED
    BY <2>2, <2>3, <2>4, StepCases
<1>6. RequesterAuthorized(p)' => RequesterAuthorized(p)
  BY <1>1, <1>5 DEF RequesterAuthorized
<1>7. Undecided(p)'
  <2>1. CASE Elsewhere
    <3>1. UNCHANGED tx
      BY <2>1 DEF Elsewhere, Tick, Revoke, Arrive, LockAudit, vars, requests
    <3> QED
      BY <1>0, <3>1 DEF Undecided
  <2>2. ASSUME NEW r \in Requests, NEW t, NEW to, DecideStep(r, t, to) PROVE Undecided(p)'
    <3>1. /\ tx' = [tx EXCEPT ![r] = t]
          /\ t.profile # None => ~Expired(t.action) /\ RequesterAuthorized(t.action)
      BY <2>2 DEF DecideStep
    <3>2. t.profile # None => t.action # p
      BY <3>1 DEF Lapsed, Qualified, RequesterAuthorized
    <3> QED
      BY <1>0, <3>1, <3>2 DEF Undecided, TypeOK
  <2>3. ASSUME NEW r \in Requests, Commit(r) \/ Abort(r) PROVE Undecided(p)'
    <3>1. tx' = [tx EXCEPT ![r] = NoTx]
      BY <2>3 DEF Commit, Abort, Finish
    <3> QED
      BY <1>0, <3>1, NoTxFacts DEF Undecided, TypeOK
  <2> QED
    BY <2>1, <2>2, <2>3, StepCases
<1> QED
  BY <1>0, <1>4, <1>6, <1>7 DEF Lapsed, Qualified, RequesterAuthorized

\* approve_pending never executes what had expired, or whose requester had lost
\* the right to ask, before the approval got past its checks.
THEOREM NoLateExecution == Spec => LapsedNeverExecutes
<1>1. IndInv /\ [Next]_vars =>
        [\A p \in Actions :
           Lapsed(p) => Lapsed(p)' \/ pending'[p].status \in Final \ {"executed"}]_vars
  <2> SUFFICES ASSUME IndInv, [Next]_vars, NEW p \in Actions, Lapsed(p)
               PROVE  Lapsed(p)' \/ pending'[p].status \in Final \ {"executed"}
    OBVIOUS
  <2>1. CASE pending'[p] = pending[p]
    BY <2>1, LapseStays
  <2>2. ASSUME NEW r \in Requests, tx[r].action = p, pending'[p] = tx[r].row,
               Opens(r, tx[r]) \/ Closes(r, tx[r]) \/ Executes(r, tx[r])
        PROVE  pending'[p].status \in Final \ {"executed"}
    <3>1. ~Opens(r, tx[r])
      BY <2>2 DEF Lapsed, Opens, NoRow
    <3>2. ~Executes(r, tx[r])
      BY <2>2 DEF Lapsed, Undecided, Executes
    <3> QED
      BY <2>2, <3>1, <3>2 DEF Closes
  <2> QED
    BY <2>1, <2>2, RowChange
<1> QED
  BY <1>1, Invariance, PTL DEF Spec, LapsedNeverExecutes

-----------------------------------------------------------------------------
(* Refinement: every commit is one step of the ledger *)

\* A commit adds one line to the trail of the ledger.
LEMMA TrailGrows ==
    ASSUME IndInv, NEW r \in Requests, Commit(r), tx[r].entry # None
    PROVE  LedgerTrail' = Append(LedgerTrail, <<tx[r].entry.decision, tx[r].entry.action>>)
<1>1. PICK n \in Nat : n = Len(log)
  BY LogGrows
<1>2. PICK e : e = tx[r].entry
  OBVIOUS
<1>3. /\ DOMAIN log = 1 .. n /\ DOMAIN log' = 1 .. n + 1
      /\ \A i \in 1 .. n : log'[i] = log[i]
      /\ log'[n + 1].entry = e
  BY <1>1, <1>2, LogGrows
<1>4. PICK T : T = LedgerTrail
  OBVIOUS
<1>5. PICK x : x = <<e.decision, e.action>>
  OBVIOUS
<1>6. T = [i \in 1 .. n |-> <<log[i].entry.decision, log[i].entry.action>>]
  BY <1>3, <1>4 DEF LedgerTrail
<1>7. PICK S : S = {x} \cup {T[i] : i \in 1 .. n}
  OBVIOUS
<1>8. T \in Seq(S) /\ Len(T) = n
  <2>1. T \in [1 .. n -> S]
    BY <1>6, <1>7
  <2> QED
    BY <2>1, <1>1
<1>9. Append(T, x) = [i \in 1 .. n + 1 |-> IF i = n + 1 THEN x ELSE T[i]]
  <2>1. PICK A : A = Append(T, x)
    OBVIOUS
  <2>2. A \in Seq(S) /\ Len(A) = n + 1 /\ x \in S
    BY <1>7, <1>8, <2>1
  <2>3. A \in [1 .. n + 1 -> S]
    BY <1>1, <2>2
  <2>4. \A i \in 1 .. n + 1 : A[i] = IF i = n + 1 THEN x ELSE T[i]
    BY <1>1, <1>8, <2>1, <2>2
  <2> QED
    BY <2>1, <2>3, <2>4
<1>10. LedgerTrail' = [i \in 1 .. n + 1 |-> IF i = n + 1 THEN x ELSE T[i]]
  BY <1>1, <1>3, <1>5, <1>6 DEF LedgerTrail
<1> QED
  BY <1>2, <1>4, <1>5, <1>9, <1>10

\* The ledger's view of a row that a commit replaces.
LEMMA ActionsChange ==
    ASSUME TypeOK, NEW q \in Actions, NEW row, pending' = [pending EXCEPT ![q] = row]
    PROVE  LedgerActions' = [LedgerActions EXCEPT ![q] =
              [state |-> LedgerState(row.status), requester |-> row.requester,
               args |-> row.args, approver |-> row.approver]]
BY DEF LedgerActions, LedgerState, TypeOK

\* A commit is one step of the ledger.
LEMMA CommitRefines ==
    ASSUME IndInv, NEW r \in Requests, Commit(r), tx[r].entry # None
    PROVE  Ledger!Next
<1>0. TypeOK /\ Shape(r, tx[r])
  BY DEF IndInv, TxInv, Shape
<1>1. PICK e \in AuditEntry : e = tx[r].entry
  BY <1>0 DEF TypeOK, Tx
<1>2. LedgerTrail' = Append(LedgerTrail, <<e.decision, e.action>>)
  BY <1>1, TrailGrows
<1>3. CASE Bystands(tx[r])
  <2>1. pending' = pending /\ profiles' = profiles
    BY <1>3 DEF Bystands, Commit
  <2>2. e.action \in Actions \cup {None}
    BY DEF AuditEntry
  <2>3. e.decision \in {"deny", "error", "executed"} /\ (e.decision = "executed" => e.action = None)
    BY <1>1, <1>3 DEF Bystands
  <2>4. Ledger!Note
    BY <1>2, <2>1, <2>2, <2>3 DEF Ledger!Note, LedgerActions
  <2> QED
    BY <2>4 DEF Ledger!Next
<1>4. CASE Opens(r, tx[r])
  <2>1. PICK q \in Actions : q = tx[r].action
    BY <1>4 DEF Opens
  <2>2. PICK row : row = tx[r].row
    OBVIOUS
  <2>3. /\ pending[q] = NoRow /\ row.status = "pending" /\ row.approver = None
        /\ row.requester \in Users /\ row.args \in Args
        /\ e.decision = "pending" /\ e.action = q
    BY <1>1, <1>4, <2>1, <2>2 DEF Opens, Proposed
  <2>4. profiles' = profiles /\ pending' = [pending EXCEPT ![q] = row]
    BY <1>4, <2>1, <2>2, NoneAssumption DEF Opens, Commit
  <2>5. LedgerActions[q] = Ledger!Absent
    BY <2>3 DEF LedgerActions, Ledger!Absent, LedgerState, NoRow
  <2>6. LedgerState(row.status) = "open"
    BY <2>3 DEF LedgerState
  <2>7. LedgerActions' = [LedgerActions EXCEPT ![q] =
           [state |-> "open", requester |-> row.requester, args |-> row.args,
            approver |-> None]]
    BY <1>0, <2>3, <2>4, <2>6, ActionsChange
  <2>8. Ledger!Open(q)
    BY <1>2, <2>3, <2>4, <2>5, <2>7 DEF Ledger!Open
  <2> QED
    BY <2>8 DEF Ledger!Next
<1>5. CASE Closes(r, tx[r])
  <2>1. PICK q \in Actions : q = tx[r].action
    BY <1>5 DEF Closes, Locks
  <2>2. PICK row : row = tx[r].row
    OBVIOUS
  <2>3. /\ pending[q].status = "pending" /\ row.status \in Final \ {"executed"}
        /\ row.requester = pending[q].requester /\ row.args = pending[q].args
        /\ e.decision \in {"deny", "error"} /\ e.action = q
    BY <1>1, <1>5, <2>1, <2>2 DEF Closes, Locks
  <2>4. row.approver \in Users \cup {None}
    BY <1>0, <2>2 DEF TypeOK, Tx, Row
  <2>5. profiles' = profiles /\ pending' = [pending EXCEPT ![q] = row]
    BY <1>5, <2>1, <2>2, NoneAssumption DEF Closes, Commit
  <2>6. LedgerState(row.status) = "closed"
    BY <2>3 DEF LedgerState, Final
  <2>7. /\ LedgerActions[q].state = "open"
        /\ LedgerActions[q].requester = row.requester /\ LedgerActions[q].args = row.args
    BY <2>3 DEF LedgerActions, LedgerState
  <2>8. LedgerActions' = [LedgerActions EXCEPT ![q] =
           [state |-> "closed", requester |-> LedgerActions[q].requester,
            args |-> LedgerActions[q].args, approver |-> row.approver]]
    BY <1>0, <2>5, <2>6, <2>7, ActionsChange
  <2>9. Ledger!Close(q)
    BY <1>2, <2>3, <2>4, <2>5, <2>7, <2>8 DEF Ledger!Close, Ledger!Settled
  <2> QED
    BY <2>9 DEF Ledger!Next
<1>6. CASE Executes(r, tx[r])
  <2>1. PICK q \in Actions : q = tx[r].action
    BY <1>6 DEF Executes, Locks
  <2>2. PICK row : row = tx[r].row
    OBVIOUS
  <2>3. PICK f : f = tx[r].profile
    OBVIOUS
  <2>4. /\ pending[q].status = "pending" /\ row.status = "executed"
        /\ row.requester = pending[q].requester /\ row.args = pending[q].args
        /\ row.approver \in Users /\ row.approver # row.requester
        /\ f # None /\ f.action = q /\ f.args = row.args
        /\ f.requested_by = row.requester /\ f.approved_by = row.approver
        /\ e.decision = "executed" /\ e.action = q
    BY <1>1, <1>6, <2>1, <2>2, <2>3 DEF Executes, Locks
  <2>5. profiles' = profiles \cup {f} /\ pending' = [pending EXCEPT ![q] = row]
    BY <2>1, <2>2, <2>3, <2>4, NoneAssumption DEF Commit
  <2>6. LedgerState(row.status) = "executed"
    BY <2>4 DEF LedgerState
  <2>7. /\ LedgerActions[q].state = "open"
        /\ LedgerActions[q].requester = row.requester /\ LedgerActions[q].args = row.args
    BY <2>4 DEF LedgerActions, LedgerState
  <2>8. LedgerActions' = [LedgerActions EXCEPT ![q] =
           [state |-> "executed", requester |-> LedgerActions[q].requester,
            args |-> LedgerActions[q].args, approver |-> row.approver]]
    BY <1>0, <2>5, <2>6, <2>7, ActionsChange
  <2>9. Issue(f) = [action |-> q, args |-> LedgerActions[q].args,
                    requested_by |-> LedgerActions[q].requester,
                    approved_by |-> row.approver]
    BY <2>4, <2>7 DEF Issue
  <2>10. {Issue(g) : g \in profiles}' = {Issue(g) : g \in profiles} \cup {Issue(f)}
    BY <2>5 DEF Issue
  <2>11. Ledger!Execute(q)
    BY <1>2, <2>4, <2>7, <2>8, <2>9, <2>10 DEF Ledger!Execute, Ledger!Settled
  <2> QED
    BY <2>11 DEF Ledger!Next
<1> QED
  BY <1>0, <1>3, <1>4, <1>5, <1>6 DEF Shape

\* The transactions of executor.py, with their locks, buffered writes and
\* rollbacks, implement the ledger, in which a decision is one step.
THEOREM Refinement == Spec => ImplementsLedger
<1>1. Init => Ledger!Init
  <2> SUFFICES ASSUME Init PROVE Ledger!Init
    OBVIOUS
  <2>1. LedgerActions = [p \in Actions |-> Ledger!Absent]
    BY DEF Init, LedgerActions, Ledger!Absent, LedgerState, NoRow
  <2>2. {Issue(f) : f \in profiles} = {} /\ LedgerTrail = << >>
    BY DEF Init, LedgerTrail
  <2> QED
    BY <2>1, <2>2 DEF Ledger!Init
<1>2. IndInv /\ [Next]_vars => [Ledger!Next]_(Ledger!ledger)
  <2> SUFFICES ASSUME IndInv, [Next]_vars PROVE [Ledger!Next]_(Ledger!ledger)
    OBVIOUS
  <2>1. ASSUME UNCHANGED tables PROVE UNCHANGED Ledger!ledger
    BY <2>1 DEF tables, Ledger!ledger, LedgerActions, LedgerTrail, LedgerState, Issue
  <2> QED
    BY <2>1, TableChange, CommitRefines
<1> QED
  BY <1>1, <1>2, Invariance, PTL DEF Spec, ImplementsLedger, Ledger!Spec
============================================================================
