---------------------------- MODULE AgentThread ----------------------------
(***************************************************************************)
(* The agent's conversation threads around the action ledger: the tool     *)
(* node of agent/graph.py that proposes a sensitive action and pauses, the *)
(* chat turns of api/chat.py that run the graph, and api/actions.py, which *)
(* decides the action and then resumes the requester's thread.             *)
(*                                                                         *)
(* The ledger is ActionLedger, which Approvals implements.  LangGraph is   *)
(* external: a thread checkpoints the node it has not finished; new input  *)
(* starts the graph again and drops that node; Command(resume=...) runs    *)
(* the unfinished node again FROM ITS START, where interrupt() then        *)
(* returns the payload; on a thread with no unfinished node it runs        *)
(* nothing.                                                                *)
(***************************************************************************)
EXTENDS Naturals, Sequences, FiniteSets

CONSTANTS
    Users, Args, Actions, None,  \* as in the ledger
    Conversations,
    Questions,                   \* chat turns the router sends to create_vpn_profile
    Wanted,                      \* [Questions -> conversation, user, args]
    MaxTurns                     \* bound on the other turns of the conversations

ASSUME WantedAssumption ==
    Wanted \in [Questions -> [conversation : Conversations, user : Users, args : Args]]
ASSUME TurnsAssumption == MaxTurns \in Nat
ASSUME NoneAssumption == None \notin Users \cup Args \cup Actions \cup Questions

VARIABLES
    actions, issued, trail,  \* the ledger
    asked,     \* questions asked so far
    turns,     \* other turns taken so far
    thread,    \* the question whose tool node a thread has not finished
    origin,    \* the question an action was proposed for
    deciding,  \* approve and reject requests that have decided: action -> step, payload
    told       \* assistant messages about actions: conversation, action, payload

L == INSTANCE ActionLedger

ledger == <<actions, issued, trail>>
vars == <<ledger, asked, turns, thread, origin, deciding, told>>

Payloads == {"ok", "rejected"}
Steps == {"none", "decided", "ran", "lost"} \* where the request that decides an action is
NoDecision == [step |-> "none", payload |-> None]

Conversation(p) == Wanted[origin[p]].conversation

Init ==
    /\ L!Init
    /\ asked = {}
    /\ turns = 0
    /\ thread = [c \in Conversations |-> None]
    /\ origin = [p \in Actions |-> None]
    /\ deciding = [p \in Actions |-> NoDecision]
    /\ told = << >>

\* run_tool inside the tool node proposes a new action for question q ...
Propose(q) ==
    \E p \in Actions :
      /\ L!Open(p)
      /\ actions'[p].requester = Wanted[q].user
      /\ actions'[p].args = Wanted[q].args
      /\ origin' = [origin EXCEPT ![p] = q]

\* ... or refuses: the caller lacks the permission or the arguments are invalid,
\* which is audited, or the user is deactivated, which ends the node before
\* run_tool.
Refuse ==
    /\ \/ L!Note /\ trail'[Len(trail')] = <<"deny", None>>
       \/ UNCHANGED ledger
    /\ UNCHANGED origin

tool_node(q) == Propose(q) \/ Refuse

PausedAt(c, q) == thread' = [thread EXCEPT ![c] = q]

\* Mutant: the node waits for an approval whatever run_tool answered.
AskAndWait(q) ==
    /\ q \notin asked
    /\ asked' = asked \cup {q}
    /\ tool_node(q) /\ PausedAt(Wanted[q].conversation, q)
    /\ UNCHANGED <<turns, deciding, told>>

\* A turn the router sends to create_vpn_profile: the tool node stays unfinished
\* at its interrupt() when an action waits, and finishes otherwise.
Ask(q) ==
    LET c == Wanted[q].conversation IN
    /\ q \notin asked
    /\ asked' = asked \cup {q}
    /\ (Propose(q) /\ PausedAt(c, q)) \/ (Refuse /\ PausedAt(c, None))
    /\ UNCHANGED <<turns, deciding, told>>

\* Any other turn: small talk, a refusal, knowledge, another tool.
OtherTurn(c) ==
    /\ turns < MaxTurns
    /\ turns' = turns + 1
    /\ PausedAt(c, None)
    /\ UNCHANGED <<ledger, asked, origin, deciding, told>>

Decided(p, payload) ==
    deciding' = [deciding EXCEPT ![p] = [step |-> "decided", payload |-> payload]]

\* approve: approve_pending executed the action.
Approve(p) ==
    /\ L!Execute(p)
    /\ Decided(p, "ok")
    /\ UNCHANGED <<asked, turns, thread, origin, told>>

\* Mutant: a rejection closes the action and does not resume the thread.
RejectSilently(p) ==
    /\ L!Close(p)
    /\ actions'[p].approver # None
    /\ UNCHANGED <<asked, turns, thread, origin, deciding, told>>

\* reject: reject_pending closed it.
Reject(p) ==
    /\ L!Close(p)
    /\ actions'[p].approver # None
    /\ Decided(p, "rejected")
    /\ UNCHANGED <<asked, turns, thread, origin, told>>

\* Mutant: approve resumes whatever approve_pending answered.
CloseResumed(p) ==
    /\ L!Close(p)
    /\ actions'[p].approver = None
    /\ Decided(p, "ok")
    /\ UNCHANGED <<asked, turns, thread, origin, told>>

\* approve: approve_pending closed it (expired, failed, requester lost the
\* permission); outcome.executed is false and the thread is left paused.
CloseUnexecuted(p) ==
    /\ L!Close(p)
    /\ actions'[p].approver = None
    /\ UNCHANGED <<asked, turns, thread, origin, deciding, told>>

Ran(p) == deciding' = [deciding EXCEPT ![p] = [step |-> "ran", payload |-> deciding[p].payload]]

\* _resume_conversation: ainvoke(Command(resume=payload)) on the thread of the
\* action's conversation, whatever question that thread is paused at.
Resume(p) ==
    LET c == Conversation(p)
        q == thread[c]
    IN  /\ deciding[p].step = "decided"
        /\ q # None
        /\ tool_node(q)
        /\ PausedAt(c, None)
        /\ Ran(p)
        /\ UNCHANGED <<asked, turns, told>>

\* ... which has no unfinished node.
ResumeNothing(p) ==
    /\ deciding[p].step = "decided"
    /\ thread[Conversation(p)] = None
    /\ Ran(p)
    /\ UNCHANGED <<ledger, asked, turns, thread, origin, told>>

\* The final answer is stored in the action's conversation.
Tell(p) ==
    /\ deciding[p].step = "ran"
    /\ told' = Append(told, <<Conversation(p), p, deciding[p].payload>>)
    /\ deciding' = [deciding EXCEPT ![p] = NoDecision]
    /\ UNCHANGED <<ledger, asked, turns, thread, origin>>

\* The request that decided dies on the way, or ainvoke raises and the
\* exception is swallowed: the decision stands, nobody is told.
Lose(p) ==
    /\ deciding[p].step \in {"decided", "ran"}
    /\ deciding' = [deciding EXCEPT ![p].step = "lost"]
    /\ UNCHANGED <<ledger, asked, turns, thread, origin, told>>

Idle ==
    /\ \A p \in Actions : deciding[p].step \in {"none", "lost"} /\ actions[p].state # "open"
    /\ UNCHANGED vars

Next ==
    \/ \E q \in Questions : Ask(q)
    \/ \E c \in Conversations : OtherTurn(c)
    \/ \E p \in Actions :
         \/ Approve(p) \/ Reject(p) \/ CloseUnexecuted(p)
         \/ Resume(p) \/ ResumeNothing(p) \/ Tell(p) \/ Lose(p)
    \/ Idle

Spec == Init /\ [][Next]_vars

-----------------------------------------------------------------------------
(* What a conversation may rely on *)

\* Threads, proposals, decisions under way and messages keep their types.
TypeOK ==
    /\ asked \subseteq Questions
    /\ turns \in 0 .. MaxTurns
    /\ thread \in [Conversations -> Questions \cup {None}]
    /\ origin \in [Actions -> Questions \cup {None}]
    /\ deciding \in [Actions -> [step : Steps, payload : Payloads \cup {None}]]
    /\ told \in Seq(Conversations \X Actions \X Payloads)

\* What a conversation is told about an action is what the ledger says of it,
\* whoever closed it and however late: "ok" exactly for an executed action,
\* once, and in the conversation that asked for it.
ToldTruthfully ==
    /\ \A i, j \in DOMAIN told : told[i][2] = told[j][2] => i = j
    /\ \A i \in DOMAIN told :
         LET p == told[i][2] IN
         /\ origin[p] \in asked
         /\ told[i][1] = Wanted[origin[p]].conversation
         /\ actions[p].state = IF told[i][3] = "ok" THEN "executed" ELSE "closed"

\* What a thread that waits at question q waits for: an action proposed for q that
\* is open; or one decided, whose request is on its way to the thread or was lost
\* before it got there; or one closed without being executed (expired, failed, the
\* requester lost the permission), after which approve does not resume the thread.
HasCause(q) ==
    \E p \in Actions :
      /\ origin[p] = q
      /\ \/ actions[p].state = "open"
         \/ actions[p].state = "closed" /\ actions[p].approver = None
         \/ deciding[p].step \in {"decided", "lost"}

\* A thread waits only at a question of its own conversation, and only for an
\* action that HasCause names: no pause outlives the execution or the rejection of
\* its action, unless the request that decided it was lost.  And nothing was ever
\* proposed that nobody asked for.
PausesHaveCauses ==
    /\ \A c \in Conversations : thread[c] # None =>
         Wanted[thread[c]].conversation = c /\ HasCause(thread[c])
    /\ \A p \in Actions : actions[p].state # "none" =>
         /\ origin[p] \in asked
         /\ actions[p].requester = Wanted[origin[p]].user

\* "propose -> wait for a different person's approval -> resume -> execute
\* exactly once": a question asked once leads to one profile at most.
ExecutedOncePerQuestion ==
    \A f, g \in issued : origin[f.action] = origin[g.action] => f = g

\* Whatever is asked, decided and lost, a thread does not stay paused after its
\* answer was handed to it.
ThreadsAreSound ==
    /\ TypeOK
    /\ PausesHaveCauses
=============================================================================
