------------------------- MODULE AgentThreadProofs -------------------------
(***************************************************************************)
(* For any conversations, questions and actions: no thread stays paused    *)
(* after its answer was handed to it, and what a conversation is told is   *)
(* what was decided.                                                       *)
(***************************************************************************)
EXTENDS AgentThread, TLAPS

-----------------------------------------------------------------------------
(* The inductive invariant *)

States == {"none", "open", "executed", "closed"}
Action == [state : States, requester : Users \cup {None}, args : Args \cup {None},
           approver : Users \cup {None}]

\* An action that was proposed belongs to a question that was asked.
OriginInv ==
    \A p \in Actions : actions[p].state # "none" =>
      origin[p] \in asked /\ actions[p].requester = Wanted[origin[p]].user

\* A thread waits only for what HasCause names.
PauseInv ==
    \A c \in Conversations : thread[c] # None =>
      Wanted[thread[c]].conversation = c /\ HasCause(thread[c])

Outcome(payload) == IF payload = "ok" THEN "executed" ELSE "closed"

\* A request that has decided carries what the ledger says of its action, which
\* nobody has been told of.
DecidingInv ==
    \A p \in Actions :
      /\ deciding[p] = NoDecision \/ deciding[p].step \in {"decided", "ran", "lost"}
      /\ deciding[p].step # "none" =>
           /\ deciding[p].payload \in Payloads
           /\ actions[p].state = Outcome(deciding[p].payload)
           /\ \A i \in DOMAIN told : told[i][2] # p

\* What was told is so, and was told once.
ToldInv ==
    /\ \A i, j \in DOMAIN told : told[i][2] = told[j][2] => i = j
    /\ \A i \in DOMAIN told :
         /\ told[i][1] = Wanted[origin[told[i][2]]].conversation
         /\ actions[told[i][2]].state = Outcome(told[i][3])

IInv ==
    /\ TypeOK
    /\ actions \in [Actions -> Action]
    /\ OriginInv
    /\ PauseInv
    /\ DecidingInv
    /\ ToldInv

-----------------------------------------------------------------------------
(* What a step does to the ledger *)

Opened(p, q) ==
    /\ actions[p].state = "none"
    /\ actions' = [actions EXCEPT ![p] = [state |-> "open", requester |-> Wanted[q].user,
                                          args |-> Wanted[q].args, approver |-> None]]
    /\ origin' = [origin EXCEPT ![p] = q]

\* The tool node opens an action for its question, or none.
LEMMA ToolIs ==
    ASSUME IInv, NEW q \in Questions
    PROVE  /\ Propose(q) => \E p \in Actions : Opened(p, q)
           /\ Refuse => UNCHANGED <<actions, origin>>
<1>1. ASSUME Propose(q) PROVE \E p \in Actions : Opened(p, q)
  <2>1. PICK p \in Actions : /\ L!Open(p)
                             /\ actions'[p].requester = Wanted[q].user
                             /\ actions'[p].args = Wanted[q].args
                             /\ origin' = [origin EXCEPT ![p] = q]
    BY <1>1 DEF Propose
  <2>2. PICK u \in Users, a \in Args :
          actions' = [actions EXCEPT ![p] = [state |-> "open", requester |-> u,
                                             args |-> a, approver |-> None]]
    BY <2>1 DEF L!Open
  <2>3. actions'[p] = [state |-> "open", requester |-> u, args |-> a, approver |-> None]
    BY <2>2 DEF IInv
  <2>4. u = Wanted[q].user /\ a = Wanted[q].args
    BY <2>1, <2>3
  <2>5. actions[p].state = "none"
    BY <2>1 DEF L!Open, L!Absent
  <2> QED
    BY <2>1, <2>2, <2>4, <2>5 DEF Opened
<1>2. Refuse => UNCHANGED <<actions, origin>>
  BY DEF Refuse, L!Note, ledger
<1> QED
  BY <1>1, <1>2

Closed(p, to) ==
    /\ actions[p].state = "open"
    /\ \E v \in Users \cup {None} :
         actions' = [actions EXCEPT ![p] = [state |-> to, requester |-> actions[p].requester,
                                            args |-> actions[p].args, approver |-> v]]

\* A decision settles an open action.
LEMMA DecisionIs ==
    ASSUME NEW p \in Actions
    PROVE  /\ Approve(p) => Closed(p, "executed")
           /\ Reject(p) \/ CloseUnexecuted(p) => Closed(p, "closed")
BY DEF Approve, Reject, CloseUnexecuted, L!Execute, L!Close, L!Settled, Closed

Settled == {"executed", "closed"}

\* Whatever happens, a proposed action keeps its requester and its question, and a
\* settled one its row.
Lasting ==
    /\ actions' \in [Actions -> Action]
    /\ origin' \in [Actions -> Questions \cup {None}]
    /\ \A p \in Actions :
         /\ actions[p].state # "none" =>
              /\ actions'[p].state # "none" /\ actions'[p].requester = actions[p].requester
              /\ origin'[p] = origin[p]
         /\ actions[p].state \in Settled => actions'[p] = actions[p]

LEMMA OpenLasts ==
    ASSUME IInv, NEW p \in Actions, NEW q \in Questions, Opened(p, q)
    PROVE  Lasting
<1>1. actions \in [Actions -> Action] /\ origin \in [Actions -> Questions \cup {None}]
  BY DEF IInv, TypeOK
<1>2. PICK x : x = [state |-> "open", requester |-> Wanted[q].user,
                    args |-> Wanted[q].args, approver |-> None]
  OBVIOUS
<1>3. Wanted[q].user \in Users /\ Wanted[q].args \in Args
  BY WantedAssumption
<1>4. x \in Action
  BY <1>2, <1>3 DEF Action, States
<1>5. actions' = [actions EXCEPT ![p] = x] /\ actions[p].state = "none"
      /\ origin' = [origin EXCEPT ![p] = q]
  BY <1>2 DEF Opened
<1>6. actions' \in [Actions -> Action] /\ origin' \in [Actions -> Questions \cup {None}]
  BY <1>1, <1>4, <1>5
<1>7. \A o \in Actions : actions[o].state # "none" => actions'[o] = actions[o] /\ origin'[o] = origin[o]
  BY <1>1, <1>5
<1> QED
  BY <1>6, <1>7 DEF Lasting, Settled

LEMMA CloseLasts ==
    ASSUME IInv, NEW p \in Actions, NEW to \in Settled, Closed(p, to), origin' = origin
    PROVE  Lasting /\ actions'[p].state = to
<1>1. actions \in [Actions -> Action] /\ origin \in [Actions -> Questions \cup {None}]
  BY DEF IInv, TypeOK
<1>2. PICK v \in Users \cup {None} :
        actions' = [actions EXCEPT ![p] = [state |-> to, requester |-> actions[p].requester,
                                           args |-> actions[p].args, approver |-> v]]
  BY DEF Closed
<1>3. PICK x : x = [state |-> to, requester |-> actions[p].requester,
                    args |-> actions[p].args, approver |-> v]
  OBVIOUS
<1>4. x \in Action /\ x.state = to /\ x.requester = actions[p].requester /\ to # "none"
  BY <1>1, <1>3 DEF Action, States, Settled
<1>5. actions[p].state = "open" /\ actions' = [actions EXCEPT ![p] = x]
  BY <1>2, <1>3 DEF Closed
<1>6. actions' \in [Actions -> Action] /\ actions'[p] = x
  BY <1>1, <1>4, <1>5
<1>7. \A o \in Actions : o # p => actions'[o] = actions[o]
  BY <1>1, <1>5
<1> QED
  BY <1>1, <1>4, <1>5, <1>6, <1>7 DEF Lasting, Settled

LEMMA QuietLasts ==
    ASSUME IInv, UNCHANGED <<actions, origin>>
    PROVE  Lasting
BY DEF Lasting, IInv, TypeOK

\* The kinds of steps.
LEMMA Kinds ==
    ASSUME [Next]_vars
    PROVE  \/ \E q \in Questions : Ask(q)
           \/ \E c \in Conversations : OtherTurn(c)
           \/ \E p \in Actions : Approve(p) \/ Reject(p) \/ CloseUnexecuted(p)
           \/ \E p \in Actions : Resume(p)
           \/ \E p \in Actions : ResumeNothing(p) \/ Tell(p) \/ Lose(p)
           \/ UNCHANGED vars
BY DEF Next, Idle

\* The question a thread is resumed at was asked.
LEMMA ResumeIs ==
    ASSUME IInv, NEW p \in Actions, Resume(p)
    PROVE  \E c \in Conversations, q \in asked :
             /\ thread[c] = q /\ q \in Questions /\ tool_node(q)
             /\ thread' = [thread EXCEPT ![c] = None]
<1>1. PICK c, q : /\ c = Conversation(p) /\ q = thread[c] /\ deciding[p].step = "decided" /\ q # None
                  /\ tool_node(q) /\ thread' = [thread EXCEPT ![c] = None]
  BY DEF Resume, PausedAt
<1>2. actions[p].state # "none"
  <2>1. actions[p].state = Outcome(deciding[p].payload)
    BY <1>1 DEF IInv, DecidingInv
  <2> QED
    BY <2>1 DEF Outcome
<1>3. origin[p] \in Questions
  BY <1>2 DEF IInv, TypeOK, OriginInv
<1>4. c \in Conversations
  BY <1>1, <1>3, WantedAssumption DEF Conversation
<1>5. PICK o \in Actions : origin[o] = q /\ actions[o].state # "none"
  <2>1. HasCause(q)
    BY <1>1, <1>4 DEF IInv, PauseInv
  <2>2. PICK o \in Actions : origin[o] = q /\ (actions[o].state \in {"open", "closed"} \/ deciding[o].step # "none")
    BY <2>1 DEF HasCause
  <2>3. deciding[o].step # "none" => actions[o].state = Outcome(deciding[o].payload)
    BY DEF IInv, DecidingInv
  <2> QED
    BY <2>2, <2>3 DEF Outcome
<1>6. q \in asked /\ asked \subseteq Questions
  BY <1>5 DEF IInv, TypeOK, OriginInv
<1> QED
  BY <1>1, <1>4, <1>6

LEMMA LastingStep ==
    ASSUME IInv, [Next]_vars
    PROVE  Lasting
<1>1. ASSUME NEW q \in Questions, Propose(q) \/ Refuse PROVE Lasting
  BY <1>1, ToolIs, OpenLasts, QuietLasts
<1>2. ASSUME NEW q \in Questions, Ask(q) PROVE Lasting
  BY <1>1, <1>2 DEF Ask
<1>3. ASSUME NEW p \in Actions, Resume(p) PROVE Lasting
  BY <1>1, <1>3, ResumeIs DEF tool_node
<1>4. ASSUME NEW p \in Actions, Approve(p) \/ Reject(p) \/ CloseUnexecuted(p) PROVE Lasting
  <2>1. origin' = origin
    BY <1>4 DEF Approve, Reject, CloseUnexecuted
  <2> QED
    BY <1>4, <2>1, DecisionIs, CloseLasts DEF Settled
<1>5. ASSUME NEW c \in Conversations, OtherTurn(c) PROVE Lasting
  BY <1>5, QuietLasts DEF OtherTurn, ledger
<1>6. ASSUME NEW p \in Actions, ResumeNothing(p) \/ Tell(p) \/ Lose(p) PROVE Lasting
  BY <1>6, QuietLasts DEF ResumeNothing, Tell, Lose, ledger
<1>7. CASE UNCHANGED vars
  BY <1>7, QuietLasts DEF vars, ledger
<1> QED
  BY <1>2, <1>3, <1>4, <1>5, <1>6, <1>7, Kinds

-----------------------------------------------------------------------------
(* The invariant is kept *)

\* Requests that decide go from "decided" to "ran" to none, or are lost.
LEMMA DecidingIs ==
    ASSUME IInv, [Next]_vars
    PROVE  \/ deciding' = deciding
           \/ \E p \in Actions, w \in Payloads : /\ deciding' = [deciding EXCEPT ![p] = [step |-> "decided", payload |-> w]]
                                                 /\ Closed(p, Outcome(w)) /\ origin' = origin /\ told' = told
           \/ \E p \in Actions :
                /\ deciding[p].step = "decided" /\ told' = told
                /\ deciding' = [deciding EXCEPT ![p] = [step |-> "ran", payload |-> deciding[p].payload]]
           \/ \E p \in Actions : /\ deciding[p].step \in {"decided", "ran"} /\ told' = told
                                 /\ deciding' = [deciding EXCEPT ![p].step = "lost"]
           \/ \E p \in Actions : Tell(p) /\ deciding' = [deciding EXCEPT ![p] = NoDecision]
BY Kinds, DecisionIs DEF Ask, OtherTurn, Approve, Reject, CloseUnexecuted, Resume, ResumeNothing, Ran,
   Tell, Lose, vars, Decided, Outcome, Payloads

LEMMA TypeStep == IInv /\ [Next]_vars => TypeOK' /\ actions' \in [Actions -> Action]
<1> SUFFICES ASSUME IInv, [Next]_vars PROVE TypeOK' /\ actions' \in [Actions -> Action]
  OBVIOUS
<1>1. /\ asked \subseteq Questions /\ turns \in 0 .. MaxTurns
      /\ thread \in [Conversations -> Questions \cup {None}]
      /\ origin \in [Actions -> Questions \cup {None}]
      /\ deciding \in [Actions -> [step : Steps, payload : Payloads \cup {None}]]
      /\ told \in Seq(Conversations \X Actions \X Payloads) /\ MaxTurns \in Nat
  BY TurnsAssumption DEF IInv, TypeOK
<1>2. actions' \in [Actions -> Action] /\ origin' \in [Actions -> Questions \cup {None}]
  BY LastingStep DEF Lasting
<1>3. deciding' \in [Actions -> [step : Steps, payload : Payloads \cup {None}]]
  <2>1. ASSUME NEW x \in [step : Steps, payload : Payloads \cup {None}], NEW p \in Actions,
               deciding' = [deciding EXCEPT ![p] = x]
        PROVE  deciding' \in [Actions -> [step : Steps, payload : Payloads \cup {None}]]
    BY <1>1, <2>1
  <2>2. NoDecision \in [step : Steps, payload : Payloads \cup {None}]
    BY DEF NoDecision, Steps
  <2>3. \A w \in Payloads : [step |-> "decided", payload |-> w] \in [step : Steps, payload : Payloads \cup {None}]
    BY DEF Steps
  <2>4. \A p \in Actions : [step |-> "ran", payload |-> deciding[p].payload]
                             \in [step : Steps, payload : Payloads \cup {None}]
    BY <1>1 DEF Steps
  <2>5. \A p \in Actions : [deciding EXCEPT ![p].step = "lost"]
                             \in [Actions -> [step : Steps, payload : Payloads \cup {None}]]
    BY <1>1 DEF Steps
  <2>6. \/ deciding' = deciding
        \/ \E p \in Actions : deciding' = [deciding EXCEPT ![p].step = "lost"]
        \/ \E p \in Actions, x \in [step : Steps, payload : Payloads \cup {None}] :
             deciding' = [deciding EXCEPT ![p] = x]
    BY <2>2, <2>3, <2>4, DecidingIs
  <2> QED
    BY <1>1, <2>1, <2>5, <2>6
<1>4. asked' \subseteq Questions /\ turns' \in 0 .. MaxTurns
  BY <1>1, Kinds DEF Ask, OtherTurn, Approve, Reject, CloseUnexecuted, Resume, ResumeNothing,
     Tell, Lose, vars
<1>5. thread' \in [Conversations -> Questions \cup {None}]
  <2>1. \/ thread' = thread
        \/ \E c, q : q \in Questions \cup {None} /\ thread' = [thread EXCEPT ![c] = q]
    BY Kinds DEF Ask, OtherTurn, Approve, Reject, CloseUnexecuted, Resume, ResumeNothing,
       Tell, Lose, vars, PausedAt
  <2> QED
    BY <1>1, <2>1
<1>6. told' \in Seq(Conversations \X Actions \X Payloads)
  <2>1. ASSUME NEW p \in Actions, Tell(p)
        PROVE  told' \in Seq(Conversations \X Actions \X Payloads)
    <3>1. deciding[p].payload \in Payloads /\ actions[p].state # "none"
      BY <2>1 DEF Tell, IInv, DecidingInv, Outcome
    <3>2. Conversation(p) \in Conversations
      BY <1>1, <3>1, WantedAssumption DEF IInv, OriginInv, Conversation
    <3>3. PICK z \in Conversations \X Actions \X Payloads :
            z = <<Conversation(p), p, deciding[p].payload>>
      BY <3>1, <3>2
    <3> QED
      BY <1>1, <2>1, <3>3 DEF Tell
  <2>2. told' = told \/ \E p \in Actions : Tell(p)
    BY Kinds DEF Ask, OtherTurn, Approve, Reject, CloseUnexecuted, Resume, ResumeNothing,
       Lose, vars
  <2> QED
    BY <1>1, <2>1, <2>2
<1> QED
  BY <1>2, <1>3, <1>4, <1>5, <1>6 DEF TypeOK

\* An action that a step brings into being is for the question of its node.
LEMMA OriginStep == IInv /\ [Next]_vars => OriginInv'
<1> SUFFICES ASSUME IInv, [Next]_vars, NEW p \in Actions, actions'[p].state # "none"
             PROVE  origin'[p] \in asked' /\ actions'[p].requester = Wanted[origin'[p]].user
  BY DEF OriginInv
<1>1. asked \subseteq asked' /\ actions \in [Actions -> Action]
      /\ origin \in [Actions -> Questions \cup {None}]
  BY Kinds DEF Ask, OtherTurn, Approve, Reject, CloseUnexecuted, Resume, ResumeNothing,
     Tell, Lose, vars, IInv, TypeOK
<1>2. CASE actions[p].state # "none"
  BY <1>1, <1>2, LastingStep DEF Lasting, IInv, OriginInv
<1>3. CASE actions[p].state = "none"
  <2>1. ASSUME NEW o \in Actions, NEW q \in asked', Opened(o, q)
        PROVE  origin'[p] \in asked' /\ actions'[p].requester = Wanted[origin'[p]].user
    <3>1. p = o
      BY <1>1, <1>3, <2>1 DEF Opened
    <3>2. actions'[p].requester = Wanted[q].user /\ origin'[p] = q
      BY <1>1, <2>1, <3>1 DEF Opened
    <3> QED
      BY <3>2
  <2>2. actions'[p] # actions[p]
    BY <1>3
  <2>3. ASSUME NEW q \in Questions, Ask(q)
        PROVE  origin'[p] \in asked' /\ actions'[p].requester = Wanted[origin'[p]].user
    <3>1. q \in asked' /\ (Propose(q) \/ Refuse)
      BY <2>3 DEF Ask
    <3> QED
      BY <2>1, <2>2, <3>1, ToolIs
  <2>4. ASSUME NEW o \in Actions, Resume(o)
        PROVE  origin'[p] \in asked' /\ actions'[p].requester = Wanted[origin'[p]].user
    <3>1. PICK q \in asked : q \in Questions /\ tool_node(q)
      BY <2>4, ResumeIs
    <3> QED
      BY <1>1, <2>1, <2>2, <3>1, ToolIs DEF tool_node
  <2>5. ASSUME NEW o \in Actions, Approve(o) \/ Reject(o) \/ CloseUnexecuted(o) PROVE FALSE
    <3>1. actions[o].state = "open" /\ \E x : actions' = [actions EXCEPT ![o] = x]
      BY <2>5, DecisionIs DEF Closed
    <3> QED
      BY <1>1, <1>3, <2>2, <3>1
  <2>6. ASSUME UNCHANGED vars \/ (\E c \in Conversations : OtherTurn(c))
               \/ (\E o \in Actions : ResumeNothing(o) \/ Tell(o) \/ Lose(o))
        PROVE  FALSE
    BY <2>2, <2>6 DEF vars, ledger, OtherTurn, ResumeNothing, Tell, Lose
  <2> QED
    BY <2>3, <2>4, <2>5, <2>6, Kinds
<1> QED
  BY <1>2, <1>3

\* An open action stays open, or its decision is on its way to the thread, or it is
\* closed without an approver.
LEMMA OpenCause ==
    ASSUME IInv, [Next]_vars, NEW p \in Actions, actions[p].state = "open"
    PROVE  \/ actions'[p].state = "open"
           \/ actions'[p].state = "closed" /\ actions'[p].approver = None
           \/ deciding'[p].step = "decided"
<1>1. /\ actions \in [Actions -> Action] /\ origin \in [Actions -> Questions \cup {None}]
      /\ deciding \in [Actions -> [step : Steps, payload : Payloads \cup {None}]]
  BY DEF IInv, TypeOK
<1>2. ASSUME NEW q \in Questions, Propose(q) \/ Refuse PROVE actions'[p].state = "open"
  <2>1. ASSUME NEW o \in Actions, Opened(o, q) PROVE actions'[p].state = "open"
    BY <1>1, <2>1 DEF Opened
  <2> QED
    BY <1>2, <2>1, ToolIs
<1>3. ASSUME NEW q \in Questions, Ask(q) PROVE actions'[p].state = "open"
  BY <1>2, <1>3 DEF Ask
<1>4. ASSUME NEW o \in Actions, Resume(o) PROVE actions'[p].state = "open"
  BY <1>2, <1>4, ResumeIs DEF tool_node
<1>5. ASSUME NEW o \in Actions, Approve(o) \/ Reject(o)
      PROVE  actions'[p].state = "open" \/ deciding'[p].step = "decided"
  <2>1. PICK w : deciding' = [deciding EXCEPT ![o] = [step |-> "decided", payload |-> w]]
    BY <1>5 DEF Approve, Reject, Decided
  <2>2. PICK x : actions' = [actions EXCEPT ![o] = x]
    BY <1>5, DecisionIs DEF Closed
  <2> QED
    BY <1>1, <2>1, <2>2
<1>6. ASSUME NEW o \in Actions, CloseUnexecuted(o)
      PROVE  actions'[p].state = "open" \/ (actions'[p].state = "closed" /\ actions'[p].approver = None)
  <2>1. PICK v \in Users \cup {None} :
          actions' = [actions EXCEPT ![o] = [state |-> "closed", requester |-> actions[o].requester,
                                             args |-> actions[o].args, approver |-> v]]
    BY <1>6, DecisionIs DEF Closed
  <2>2. actions'[o].approver = None
    BY <1>6 DEF CloseUnexecuted
  <2> QED
    BY <1>1, <2>1, <2>2
<1>7. ASSUME \/ \E c \in Conversations : OtherTurn(c)
             \/ \E o \in Actions : ResumeNothing(o) \/ Tell(o) \/ Lose(o)
             \/ UNCHANGED vars
      PROVE  actions'[p].state = "open"
  BY <1>7 DEF OtherTurn, ResumeNothing, Tell, Lose, vars, ledger
<1> QED
  BY <1>3, <1>4, <1>5, <1>6, <1>7, Kinds

\* A decision on its way reaches a thread that then no longer waits, or is lost.
LEMMA DecidedCause ==
    ASSUME IInv, [Next]_vars, NEW p \in Actions, deciding[p].step \in {"decided", "lost"},
           thread'[Conversation(p)] # None
    PROVE  deciding'[p].step \in {"decided", "lost"}
<1>1. /\ deciding \in [Actions -> [step : Steps, payload : Payloads \cup {None}]]
      /\ thread \in [Conversations -> Questions \cup {None}]
  BY DEF IInv, TypeOK
<1>2. actions[p].state \in Settled
  BY DEF IInv, DecidingInv, Outcome, Settled
<1>3. Conversation(p) \in Conversations
  BY <1>2, WantedAssumption DEF IInv, TypeOK, OriginInv, Conversation, Settled
<1>4. ASSUME NEW o \in Actions, NEW w \in Payloads, Closed(o, Outcome(w)),
             deciding' = [deciding EXCEPT ![o] = [step |-> "decided", payload |-> w]]
      PROVE  deciding'[p].step \in {"decided", "lost"}
  BY <1>1, <1>4
<1>5. ASSUME NEW o \in Actions, Resume(o) \/ ResumeNothing(o)
      PROVE  deciding'[p].step \in {"decided", "lost"}
  <2>1. deciding[o].step = "decided" /\ deciding' = [deciding EXCEPT ![o] = [step |-> "ran", payload |-> deciding[o].payload]]
    BY <1>5 DEF Resume, ResumeNothing, Ran
  <2>2. thread'[Conversation(o)] = None \/ Conversation(o) \notin Conversations
    BY <1>1, <1>5 DEF Resume, ResumeNothing, PausedAt
  <2>3. o # p
    BY <1>3, <2>2
  <2> QED
    BY <1>1, <2>1, <2>3
<1>6. ASSUME NEW o \in Actions, Tell(o) \/ Lose(o)
      PROVE  deciding'[p].step \in {"decided", "lost"}
  <2>1. \/ deciding[o].step = "ran" /\ deciding' = [deciding EXCEPT ![o] = NoDecision]
        \/ deciding' = [deciding EXCEPT ![o].step = "lost"]
    BY <1>6 DEF Tell, Lose
  <2> QED
    BY <1>1, <2>1
<1>7. ASSUME \/ \E q \in Questions : Ask(q)
             \/ \E c \in Conversations : OtherTurn(c)
             \/ \E o \in Actions : CloseUnexecuted(o)
             \/ UNCHANGED vars
      PROVE  deciding'[p].step \in {"decided", "lost"}
  BY <1>7 DEF Ask, OtherTurn, CloseUnexecuted, vars
<1>8. ASSUME NEW o \in Actions, Approve(o) \/ Reject(o)
      PROVE  deciding'[p].step \in {"decided", "lost"}
  <2>1. \E w \in Payloads : deciding' = [deciding EXCEPT ![o] = [step |-> "decided", payload |-> w]]
    BY <1>8 DEF Approve, Reject, Decided, Payloads
  <2> QED
    BY <1>1, <2>1
<1> QED
  BY <1>5, <1>6, <1>7, <1>8, Kinds

\* A thread comes to wait only where an action has just been proposed, and waits on
\* only as long as it has a cause.
LEMMA PauseStep == IInv /\ [Next]_vars => PauseInv'
<1> SUFFICES ASSUME IInv, [Next]_vars, NEW c \in Conversations, thread'[c] # None
             PROVE  /\ Wanted[thread'[c]].conversation = c
                    /\ \E p \in Actions :
                         /\ origin'[p] = thread'[c]
                         /\ \/ actions'[p].state = "open"
                            \/ actions'[p].state = "closed" /\ actions'[p].approver = None
                            \/ deciding'[p].step \in {"decided", "lost"}
  BY DEF PauseInv, HasCause
<1>1. thread \in [Conversations -> Questions \cup {None}] /\ actions \in [Actions -> Action]
      /\ origin \in [Actions -> Questions \cup {None}]
  BY DEF IInv, TypeOK
<1>2. CASE thread'[c] = thread[c]
  <2>1. Wanted[thread[c]].conversation = c /\ HasCause(thread[c])
    BY <1>2 DEF IInv, PauseInv
  <2>2. PICK p \in Actions :
          /\ origin[p] = thread[c]
          /\ \/ actions[p].state = "open"
             \/ actions[p].state = "closed" /\ actions[p].approver = None
             \/ deciding[p].step \in {"decided", "lost"}
    BY <2>1 DEF HasCause
  <2>3. deciding[p].step \in {"decided", "lost"} => actions[p].state \in Settled
    BY DEF IInv, DecidingInv, Outcome, Settled
  <2>4. origin'[p] = thread'[c]
    BY <1>2, <2>2, <2>3, LastingStep DEF Lasting, Settled
  <2>5. CASE actions[p].state = "open"
    BY <1>2, <2>1, <2>4, <2>5, OpenCause
  <2>6. CASE actions[p].state = "closed" /\ actions[p].approver = None
    <3>1. actions'[p] = actions[p]
      BY <2>6, LastingStep DEF Lasting, Settled
    <3> QED
      BY <1>2, <2>1, <2>4, <2>6, <3>1
  <2>7. CASE deciding[p].step \in {"decided", "lost"}
    <3>1. Conversation(p) = c
      BY <2>1, <2>2 DEF Conversation
    <3> QED
      BY <1>2, <2>1, <2>4, <2>7, <3>1, DecidedCause
  <2> QED
    BY <2>2, <2>5, <2>6, <2>7
<1>3. CASE thread'[c] # thread[c]
  <2>1. PICK q \in Questions : Ask(q) /\ Propose(q) /\ thread' = [thread EXCEPT ![Wanted[q].conversation] = q]
    BY <1>1, <1>3, Kinds DEF Ask, OtherTurn, Approve, Reject, CloseUnexecuted, Resume, ResumeNothing,
       Tell, Lose, vars, PausedAt
  <2>2. c = Wanted[q].conversation /\ thread'[c] = q
    BY <1>1, <1>3, <2>1
  <2>3. PICK p \in Actions : Opened(p, q)
    BY <2>1, ToolIs
  <2>4. origin'[p] = q /\ actions'[p].state = "open"
    BY <1>1, <2>3 DEF Opened
  <2> QED
    BY <2>2, <2>4
<1> QED
  BY <1>2, <1>3

\* What a request carries stays what the ledger says.
LEMMA DecidingStep == IInv /\ [Next]_vars => DecidingInv'
<1> SUFFICES ASSUME IInv, [Next]_vars, NEW p \in Actions
             PROVE  /\ deciding'[p] = NoDecision \/ deciding'[p].step \in {"decided", "ran", "lost"}
                    /\ deciding'[p].step # "none" =>
                         /\ deciding'[p].payload \in Payloads
                         /\ actions'[p].state = Outcome(deciding'[p].payload)
                         /\ \A i \in DOMAIN told' : told'[i][2] # p
  BY DEF DecidingInv
<1>1. /\ deciding \in [Actions -> [step : Steps, payload : Payloads \cup {None}]]
      /\ told \in Seq(Conversations \X Actions \X Payloads)
  BY DEF IInv, TypeOK
<1>2. /\ deciding[p] = NoDecision \/ deciding[p].step \in {"decided", "ran", "lost"}
      /\ deciding[p].step # "none" =>
           /\ deciding[p].payload \in Payloads
           /\ actions[p].state = Outcome(deciding[p].payload)
           /\ \A i \in DOMAIN told : told[i][2] # p
  BY DEF IInv, DecidingInv
<1>3. deciding[p].step # "none" => actions'[p].state = Outcome(deciding[p].payload)
  BY <1>2, LastingStep DEF Lasting, Settled, Outcome
<1>4. CASE told' = told
  <2>1. CASE deciding'[p] = deciding[p]
    BY <1>2, <1>3, <1>4, <2>1
  <2>2. CASE deciding'[p] = NoDecision
    BY <2>2 DEF NoDecision
  <2>3. CASE deciding[p].step = "decided"
             /\ deciding'[p] = [step |-> "ran", payload |-> deciding[p].payload]
    BY <1>2, <1>3, <1>4, <2>3
  <2>4. ASSUME NEW w \in Payloads, deciding'[p] = [step |-> "decided", payload |-> w],
               Closed(p, Outcome(w)), origin' = origin
        PROVE  /\ deciding'[p].step \in {"decided", "ran"} /\ deciding'[p].payload \in Payloads
               /\ actions'[p].state = Outcome(deciding'[p].payload)
               /\ \A i \in DOMAIN told' : told'[i][2] # p
    <3>1. actions'[p].state = Outcome(w)
      BY <2>4, CloseLasts DEF Outcome, Settled
    <3>2. \A i \in DOMAIN told : told[i][2] # p
      BY <2>4 DEF Closed, IInv, ToldInv, Outcome
    <3> QED
      BY <1>4, <2>4, <3>1, <3>2
  <2>5. CASE deciding[p].step \in {"decided", "ran"}
             /\ deciding'[p] = [step |-> "lost", payload |-> deciding[p].payload]
    BY <1>2, <1>3, <1>4, <2>5
  <2>6. \/ deciding'[p] = deciding[p] \/ deciding'[p] = NoDecision
        \/ /\ deciding[p].step \in {"decided", "ran"}
           /\ deciding'[p] = [step |-> "lost", payload |-> deciding[p].payload]
        \/ deciding[p].step = "decided" /\ deciding'[p] = [step |-> "ran", payload |-> deciding[p].payload]
        \/ \E w \in Payloads : /\ deciding'[p] = [step |-> "decided", payload |-> w]
                               /\ Closed(p, Outcome(w)) /\ origin' = origin
    BY <1>1, DecidingIs
  <2> QED
    BY <2>1, <2>2, <2>3, <2>4, <2>5, <2>6
<1>5. ASSUME NEW o \in Actions, Tell(o)
      PROVE  /\ deciding'[p] = NoDecision \/ deciding'[p].step \in {"decided", "ran", "lost"}
             /\ deciding'[p].step # "none" =>
                  /\ deciding'[p].payload \in Payloads
                  /\ actions'[p].state = Outcome(deciding'[p].payload)
                  /\ \A i \in DOMAIN told' : told'[i][2] # p
  <2>1. deciding' = [deciding EXCEPT ![o] = NoDecision]
    BY <1>5 DEF Tell
  <2>2. CASE p = o
    BY <1>1, <2>1, <2>2 DEF NoDecision
  <2>3. CASE p # o
    <3>1. deciding'[p] = deciding[p]
      BY <1>1, <2>1, <2>3
    <3>2. ASSUME \A i \in DOMAIN told : told[i][2] # p PROVE \A i \in DOMAIN told' : told'[i][2] # p
      <4>1. told' = Append(told, <<Conversation(o), o, deciding[o].payload>>)
        BY <1>5 DEF Tell
      <4> QED
        BY <1>1, <2>3, <3>2, <4>1
    <3> QED
      BY <1>2, <1>3, <3>1, <3>2
  <2> QED
    BY <2>2, <2>3
<1>6. told' = told \/ \E o \in Actions : Tell(o)
  BY Kinds DEF Ask, OtherTurn, Approve, Reject, CloseUnexecuted, Resume, ResumeNothing, Lose, vars
<1> QED
  BY <1>4, <1>5, <1>6

\* What was told stays so, and a message is the first about its action.
LEMMA ToldStep == IInv /\ [Next]_vars => ToldInv'
<1> SUFFICES ASSUME IInv, [Next]_vars PROVE ToldInv'
  OBVIOUS
<1>1. told \in Seq(Conversations \X Actions \X Payloads)
  BY DEF IInv, TypeOK
<1>2. ASSUME NEW i \in DOMAIN told
      PROVE  /\ told[i][1] = Wanted[origin'[told[i][2]]].conversation
             /\ actions'[told[i][2]].state = Outcome(told[i][3])
  <2>1. PICK p \in Actions : p = told[i][2]
    BY <1>1
  <2>2. told[i][1] = Wanted[origin[p]].conversation /\ actions[p].state = Outcome(told[i][3])
    BY <2>1 DEF IInv, ToldInv
  <2>3. actions[p].state \in Settled /\ actions[p].state # "none"
    BY <2>2 DEF Outcome, Settled
  <2>4. actions'[p].state = actions[p].state /\ origin'[p] = origin[p]
    BY <2>3, LastingStep DEF Lasting
  <2> QED
    BY <2>1, <2>2, <2>4
<1>3. CASE told' = told
  BY <1>2, <1>3 DEF ToldInv, IInv
<1>4. ASSUME NEW p \in Actions, Tell(p) PROVE ToldInv'
  <2>1. /\ deciding[p].payload \in Payloads /\ actions[p].state = Outcome(deciding[p].payload)
        /\ \A i \in DOMAIN told : told[i][2] # p
    BY <1>4 DEF Tell, IInv, DecidingInv
  <2>2. Conversation(p) \in Conversations
    <3>1. origin[p] \in Questions
      BY <2>1 DEF IInv, TypeOK, OriginInv, Outcome
    <3> QED
      BY <3>1, WantedAssumption DEF Conversation
  <2>3. PICK k \in Conversations, w \in Payloads : k = Conversation(p) /\ w = deciding[p].payload
    BY <2>1, <2>2
  <2>4. PICK z \in Conversations \X Actions \X Payloads :
          z = <<k, p, w>> /\ z[1] = k /\ z[2] = p /\ z[3] = w
    <3>1. <<k, p, w>> \in Conversations \X Actions \X Payloads
      OBVIOUS
    <3>2. <<k, p, w>>[1] = k /\ <<k, p, w>>[2] = p /\ <<k, p, w>>[3] = w
      OBVIOUS
    <3> QED
      BY <3>1, <3>2
  <2>5. told' = Append(told, z) /\ origin' = origin /\ actions' = actions
    BY <1>4, <2>3, <2>4 DEF Tell, ledger
  <2>6. PICK n \in Nat : /\ DOMAIN told = 1 .. n /\ DOMAIN told' = 1 .. n + 1 /\ told'[n + 1] = z
                         /\ \A i \in 1 .. n : told'[i] = told[i]
    BY <1>1, <2>5
  <2>7. \A i \in DOMAIN told' : /\ told'[i][1] = Wanted[origin'[told'[i][2]]].conversation
                                /\ actions'[told'[i][2]].state = Outcome(told'[i][3])
    <3>1. z[1] = Wanted[origin'[z[2]]].conversation /\ actions'[z[2]].state = Outcome(z[3])
      BY <2>1, <2>3, <2>4, <2>5 DEF Conversation
    <3>2. \A i \in 1 .. n + 1 : i \in 1 .. n \/ i = n + 1
      OBVIOUS
    <3> QED
      BY <1>2, <2>6, <3>1, <3>2
  <2>8. \A i, j \in DOMAIN told' : told'[i][2] = told'[j][2] => i = j
    <3>1. \A i, j \in 1 .. n : told[i][2] = told[j][2] => i = j
      BY <2>6 DEF IInv, ToldInv
    <3>2. \A i \in 1 .. n : told[i][2] # p
      BY <2>1, <2>6
    <3>3. \A i \in 1 .. n + 1 : i \in 1 .. n \/ i = n + 1
      OBVIOUS
    <3> QED
      BY <2>4, <2>6, <3>1, <3>2, <3>3
  <2> QED
    BY <2>7, <2>8 DEF ToldInv
<1>5. told' = told \/ \E p \in Actions : Tell(p)
  BY Kinds DEF Ask, OtherTurn, Approve, Reject, CloseUnexecuted, Resume, ResumeNothing, Lose, vars
<1> QED
  BY <1>3, <1>4, <1>5

\* Initially no thread waits and nobody was told anything.
LEMMA Initially == Init => IInv
<1> SUFFICES ASSUME Init PROVE IInv
  OBVIOUS
<1>1. /\ \A p \in Actions : /\ actions[p] = L!Absent /\ deciding[p] = NoDecision /\ origin[p] = None
      /\ told = << >> /\ \A c \in Conversations : thread[c] = None
  BY DEF Init, L!Init
<1>2. L!Absent \in Action /\ L!Absent.state = "none" /\ NoDecision.step = "none"
      /\ NoDecision \in [step : Steps, payload : Payloads \cup {None}]
  BY DEF L!Absent, Action, States, NoDecision, Steps
<1>3. TypeOK /\ actions \in [Actions -> Action]
  BY <1>2, TurnsAssumption DEF TypeOK, Init, L!Init
<1>4. OriginInv /\ PauseInv /\ DecidingInv /\ ToldInv
  BY <1>1, <1>2 DEF OriginInv, PauseInv, DecidingInv, ToldInv
<1> QED
  BY <1>3, <1>4 DEF IInv

\* The inductive invariant: decisions under way carry what the ledger says, proposals
\* belong to questions, pauses to proposals.
THEOREM Invariance == Spec => []IInv
<1>1. IInv /\ [Next]_vars => IInv'
  BY TypeStep, OriginStep, PauseStep, DecidingStep, ToldStep DEF IInv
<1> QED
  BY <1>1, Initially, PTL DEF Spec

\* Whatever is asked, decided and lost in any number of conversations, a thread waits
\* only for an action that is open, that was closed without being executed, or whose
\* decision is on its way to the thread or was lost on it, and nothing was proposed
\* that nobody asked for (ThreadsAreSound).
THEOREM SoundThreads == Spec => []ThreadsAreSound
<1>1. IInv => ThreadsAreSound
  BY DEF IInv, OriginInv, PauseInv, ThreadsAreSound, PausesHaveCauses
<1> QED
  BY <1>1, Invariance, PTL

\* However late a request comes back, what a conversation is told about an action is
\* what the ledger says of it, once (ToldTruthfully).
THEOREM TruthIsTold == Spec => []ToldTruthfully
<1>1. IInv => ToldTruthfully
  <2> SUFFICES ASSUME IInv PROVE ToldTruthfully
    OBVIOUS
  <2>1. ASSUME NEW i \in DOMAIN told
        PROVE  /\ origin[told[i][2]] \in asked
               /\ told[i][1] = Wanted[origin[told[i][2]]].conversation
               /\ actions[told[i][2]].state = IF told[i][3] = "ok" THEN "executed" ELSE "closed"
    <3>1. told[i][2] \in Actions
      BY DEF IInv, TypeOK
    <3>2. /\ told[i][1] = Wanted[origin[told[i][2]]].conversation
          /\ actions[told[i][2]].state = IF told[i][3] = "ok" THEN "executed" ELSE "closed"
      BY DEF IInv, ToldInv, Outcome
    <3> QED
      BY <3>1, <3>2 DEF IInv, OriginInv
  <2>2. \A i, j \in DOMAIN told : told[i][2] = told[j][2] => i = j
    BY DEF IInv, ToldInv
  <2> QED
    BY <2>1, <2>2 DEF ToldTruthfully
<1> QED
  BY <1>1, Invariance, PTL

=============================================================================
