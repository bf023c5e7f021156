------------------------- MODULE ConversationProofs -------------------------
(***************************************************************************)
(* For any number of overlapping turns, of streams that break off and of   *)
(* redeployments: what is stored is what the client was told, the summary  *)
(* follows its mark, the window repeats none of it, and a turn that may    *)
(* leave the box carries nothing that may not.                             *)
(***************************************************************************)
EXTENDS Conversation, FiniteSetTheorems, WellFoundedInduction, TLAPS

-----------------------------------------------------------------------------
(* The inductive invariant *)

\* Up to the reply; the reply is stored; and the two with the steps that store it.
Working == {"loading", "storing", "meta", "routing", "retrieving", "remembering", "marking",
            "answering", "asking"}
Replied == {"telling", "folding", "rows", "summing"}
Replying == {"saving", "committing"} \cup Replied
\* A message is inserted and not yet committed.
Inserting == {"storing", "committing", "sealing"}

\* The control state of a turn: finished is set with the reply, and the event that
\* follows says "done" exactly about a complete answer.
ControlInv(t) ==
    /\ turn[t].finished => turn[t].pc \in Replying
    /\ t \in Streams /\ turn[t].pc \in Replying => turn[t].finished
    /\ turn[t].pc \in Replying =>
         /\ turn[t].reply.status \in Statuses
         /\ turn[t].reply.event = "done" <=> turn[t].reply.status = "complete"
    /\ turn[t].end # "" => turn[t].pc = "ended"

\* The message a turn is about to commit is the one it inserted.
InsertInv(t) ==
    /\ turn[t].pc \in Inserting => turn[t].seq \in DOMAIN messages
    /\ turn[t].pc = "storing" =>
         messages[turn[t].seq] = [turn |-> t, role |-> "user", status |-> "complete", cls |-> 0]
    /\ turn[t].pc = "committing" =>
         messages[turn[t].seq] = [turn |-> t, role |-> "assistant",
                                  status |-> turn[t].reply.status, cls |-> turn[t].reply.cls]
    /\ turn[t].pc = "sealing" =>
         /\ messages[turn[t].seq].turn = t
         /\ messages[turn[t].seq].role = "assistant"
         /\ messages[turn[t].seq].status = "partial"

\* The answers of a turn follow its control state, and what the client was told
\* follows the answer.
AnswerInv(t) ==
    /\ \A i, j \in AnswersOf(t) : i = j
    /\ turn[t].pc \notin Replied \cup {"ended"} => AnswersOf(t) = {}
    /\ turn[t].pc \in Replied => AnswersOf(t) # {}
    /\ turn[t].pc \in Replied =>
         \A i \in AnswersOf(t) : messages[i].status = turn[t].reply.status
    /\ told[t] # "" => \/ turn[t].pc = "ended"
                       \/ t \in Streams /\ turn[t].pc \in {"folding", "rows", "summing"}
    /\ turn[t].end \in {"answered", "left"} => AnswersOf(t) # {}
    /\ t \in Streams /\ turn[t].end = "raised" => AnswersOf(t) # {}
    /\ \A i \in AnswersOf(t) :
         /\ told[t] = "done" => messages[i].status = "complete"
         /\ told[t] = "error" => messages[i].status # "complete"

\* A summary s up to the mark n, among the complete messages c and the committed v: it
\* stands for nothing above the mark, and below it for all but what is in l.
Covers(s, n, c, v, l) ==
    /\ s \subseteq {i \in c : i <= n}
    /\ n \in {0} \cup v
    /\ \A i \in c : i <= n => i \in s \cup l

\* What a fold is about to take in follows the mark n without a gap but those in l.
Follows(w, n, c, l) ==
    /\ w # {}
    /\ \A i \in w : i > n
    /\ \A i \in w : \A k \in c : n < k /\ k <= i => k \in w \cup l

\* What a turn holds of the summary follows its mark, and so does what it folds.
FoldInv(t) ==
    /\ Covers(turn[t].sum, turn[t].upto, Complete, visible, cut \cup overtaken)
    /\ turn[t].window \subseteq Complete
    /\ turn[t].pc \in Working => turn[t].sum \cap turn[t].window = {}
    /\ turn[t].pc = "summing" => Follows(turn[t].window, turn[t].upto, Complete, overtaken)

\* The summary of the row does, too.
MarkInv == Covers(conv.sum, conv.upto, Complete, visible, cut \cup overtaken)

\* While turns do not overlap, the row is as sensitive as the answers and as what the
\* open turn retrieved, and the history is no more sensitive than the turn knows.
EgressInv(t) ==
    /\ turn[t].pc = "loading" => turn[t].cls = conv.cls
    /\ turn[t].pc \in Working =>
         /\ turn[t].cls <= conv.cls
         /\ \A i \in History(t) : messages[i].cls <= turn[t].cls
    /\ turn[t].pc = "marking" => turn[t].seen = conv.cls
    /\ turn[t].pc \in {"answering", "asking"} => turn[t].found <= conv.cls
    /\ turn[t].pc \in {"saving", "committing"} /\ turn[t].reply.status = "complete" =>
         turn[t].reply.cls <= conv.cls

AloneInv ==
    ~ overlapped =>
      /\ \A t, u \in Open : t = u
      /\ \A i \in Complete : messages[i].cls <= conv.cls
      /\ \A t \in Turns : EgressInv(t)

IInv ==
    /\ TypeOK /\ overlapped \in BOOLEAN
    /\ \A t \in Turns : ControlInv(t)
    /\ \A t \in Turns : InsertInv(t)
    /\ \A t \in Turns : AnswerInv(t)
    /\ \A t \in Turns : FoldInv(t)
    /\ MarkInv
    /\ ChosenModelIsOffered
    /\ AloneInv

-----------------------------------------------------------------------------
(* Sets of positions *)

\* most_sensitive takes the larger of two ranks.
LEMMA MaxOfTwo ==
    ASSUME NEW a \in Nat, NEW b \in Nat
    PROVE  /\ MostSensitive(a, b) \in {a, b}
           /\ MostSensitive(a, b) >= a
           /\ MostSensitive(a, b) >= b
<1>1. \E x \in {a, b} : \A y \in {a, b} : x >= y
  <2>1. CASE a >= b
    BY <2>1
  <2>2. CASE b >= a
    BY <2>2
  <2> QED
    BY <2>1, <2>2
<1> QED
  BY <1>1 DEF MostSensitive, Max

\* A set of numbers has a least one.
LEMMA LeastOf ==
    ASSUME NEW S, S \subseteq Nat, S # {}
    PROVE  \E m \in S : \A k \in S : m <= k
<1>1. PICK m \in S : \A k \in S : ~ (<<k, m>> \in OpToRel(<, Nat))
  BY WFMin, NatLessThanWellFounded
<1>2. \A k \in S : ~ (k < m)
  BY <1>1 DEF OpToRel
<1> QED
  BY <1>2

\* A set of positions has a largest one.
LEMMA LargestOf ==
    ASSUME NEW n \in Nat, NEW S \in SUBSET (1 .. n), S # {}
    PROVE  Max(S) \in S /\ \A k \in S : k <= Max(S)
<1> DEFINE U == {k \in Nat : \A j \in S : j <= k}
<1>1. n \in U
  OBVIOUS
<1>2. PICK u \in U : \A k \in U : u <= k
  BY <1>1, LeastOf
<1>3. u \in S
  <2> SUFFICES ASSUME u \notin S PROVE FALSE
    OBVIOUS
  <2>1. \A j \in S : j <= u - 1
    BY <1>2
  <2>2. PICK j \in S : j \in 1 .. n
    OBVIOUS
  <2>3. u - 1 \in Nat
    BY <1>2, <2>2
  <2> QED
    BY <2>1, <2>3, <1>2
<1>4. \E x \in S : \A y \in S : x >= y
  BY <1>2, <1>3
<1> QED
  BY <1>4 DEF Max

\* All but the newest k of some positions: without a gap from the oldest on, and there
\* are some when there are more than k.
LEMMA AllButTheNewest ==
    ASSUME NEW n \in Nat, NEW S \in SUBSET (1 .. n), NEW k \in Nat
    PROVE  /\ \A i \in S \ Newest(S, k) : \A j \in S : j <= i => j \in S \ Newest(S, k)
           /\ Cardinality(S) > k => S \ Newest(S, k) # {}
<1> DEFINE Later(i) == {j \in S : j > i}
<1>1. IsFiniteSet(S) /\ \A i \in S : i \in Nat
  <2>1. IsFiniteSet(1 .. n)
    BY FS_Interval
  <2>2. IsFiniteSet(S)
    BY <2>1, FS_Subset
  <2>3. \A i \in S : i \in Nat
    OBVIOUS
  <2> QED
    BY <2>2, <2>3
<1>2. \A i \in S : IsFiniteSet(Later(i)) /\ Cardinality(Later(i)) \in Nat
  BY <1>1, FS_Subset, FS_CardinalityType
<1>3. \A i \in S : i \in S \ Newest(S, k) <=> Cardinality(Later(i)) >= k
  BY <1>2 DEF Newest
<1>4. ASSUME NEW i \in S \ Newest(S, k), NEW j \in S, j <= i
      PROVE  j \in S \ Newest(S, k)
  <2>1. Later(i) \in SUBSET Later(j)
    <3>1. ASSUME NEW x \in S, x > i PROVE x > j
      BY <1>1, <1>4, <3>1
    <3> QED
      BY <3>1
  <2>2. Cardinality(Later(i)) <= Cardinality(Later(j))
    BY <2>1, <1>2, FS_Subset
  <2> HIDE DEF Later
  <2> QED
    BY <2>2, <1>2, <1>3
<1>5. ASSUME Cardinality(S) > k PROVE S \ Newest(S, k) # {}
  <2>1. Cardinality(S) \in Nat
    BY <1>1, FS_CardinalityType
  <2>2. S # {}
    BY <1>5, <2>1, FS_EmptySet
  <2>3. PICK m \in S : \A j \in S : m <= j
    BY <1>1, <2>2, LeastOf
  <2>4. Later(m) = S \ {m}
    <3>1. \A x \in S : x > m <=> x # m
      BY <1>1, <2>3
    <3> QED
      BY <3>1
  <2>5. Cardinality(Later(m)) = Cardinality(S) - 1
    BY <2>3, <2>4, <1>1, FS_RemoveElement
  <2> HIDE DEF Later
  <2>6. Cardinality(Later(m)) >= k
    BY <2>1, <2>5, <1>5
  <2> QED
    BY <2>3, <2>6, <1>3
<1> QED
  BY <1>4, <1>5

-----------------------------------------------------------------------------
(* Types *)

ReplyType == [status : Statuses \cup {""}, cls : Levels, event : {"", "done", "error"}]
\* What a request may hold when the conversation has the positions D.
HeldType(D) ==
    [pc : Steps, cls : Levels, sum : SUBSET D, upto : {0} \cup D, window : SUBSET D,
     choice : Models \cup {None}, seq : {0} \cup D, found : Levels, seen : Levels,
     started : BOOLEAN, reply : ReplyType, folds : BOOLEAN, finished : BOOLEAN, gone : BOOLEAN,
     end : TurnEnds]
MessageType ==
    [turn : Turns, role : {"user", "assistant"}, status : Statuses, cls : Levels]
RowType(D) ==
    [owner : Users \cup {None}, cls : Levels, model : Models \cup {None}, sum : SUBSET D,
     upto : {0} \cup D]

\* The type invariant in the terms of this module.
LEMMA TypeIs ==
    TypeOK <=> /\ conv \in RowType(DOMAIN messages)
               /\ messages \in Seq(MessageType)
               /\ visible \subseteq DOMAIN messages /\ overtaken \subseteq DOMAIN messages
               /\ cut \subseteq DOMAIN messages
               /\ turn \in [Turns -> HeldType(DOMAIN messages)]
               /\ told \in [Turns -> {"", "done", "error"}]
               /\ offered \subseteq Models
BY DEF TypeOK, RowType, MessageType, HeldType, ReplyType

\* What is held stays typed when messages are appended.
LEMMA TypesGrow ==
    ASSUME NEW D, NEW E, D \subseteq E
    PROVE  HeldType(D) \subseteq HeldType(E) /\ RowType(D) \subseteq RowType(E)
<1>1. HeldType(D) \subseteq HeldType(E)
  BY DEF HeldType
<1>2. RowType(D) \subseteq RowType(E)
  BY DEF RowType
<1> QED
  BY <1>1, <1>2

\* A request that is over holds nothing.
LEMMA EndedType ==
    ASSUME NEW D, NEW how \in TurnEnds
    PROVE  [NoTurn EXCEPT !.pc = "ended", !.end = how] \in HeldType(D)
BY TurnsAssumption, NumbersAssumption DEF NoTurn, NoReply, HeldType, ReplyType, Steps

\* A message is inserted: nobody sees it yet.
Inserts(m) ==
    /\ messages' = Append(messages, m)
    /\ UNCHANGED <<visible, overtaken, cut>>

LEMMA Inserted ==
    ASSUME TypeOK, NEW m \in MessageType, Inserts(m)
    PROVE  /\ messages' \in Seq(MessageType)
           /\ Len(messages) \in Nat
           /\ DOMAIN messages = 1 .. Len(messages)
           /\ DOMAIN messages' = 1 .. Len(messages) + 1
           /\ DOMAIN messages \subseteq DOMAIN messages'
           /\ \A i \in DOMAIN messages : messages'[i] = messages[i]
           /\ messages'[Len(messages) + 1] = m
           /\ Complete' = Complete
           /\ \A u : AnswersOf(u)' = AnswersOf(u)
<1>1. messages \in Seq(MessageType) /\ visible \subseteq DOMAIN messages
  BY TypeIs
<1>2. /\ messages' \in Seq(MessageType)
      /\ Len(messages) \in Nat
      /\ DOMAIN messages = 1 .. Len(messages)
      /\ DOMAIN messages' = 1 .. Len(messages) + 1
      /\ \A i \in DOMAIN messages : messages'[i] = messages[i]
      /\ messages'[Len(messages) + 1] = m
  BY <1>1 DEF Inserts
<1>3. DOMAIN messages \subseteq DOMAIN messages'
  BY <1>2
<1>4. \A i \in visible : messages'[i] = messages[i]
  BY <1>1, <1>2
<1>5. visible' = visible
  BY DEF Inserts
<1>6. Complete' = Complete /\ \A u : AnswersOf(u)' = AnswersOf(u)
  BY <1>4, <1>5 DEF Complete, AnswersOf
<1> QED
  BY <1>2, <1>3, <1>6

\* A message is committed: it is seen from now on.
LEMMA Committed ==
    ASSUME TypeOK, NEW t \in Turns, turn[t].seq \in DOMAIN messages, Commit(t)
    PROVE  /\ messages' = messages /\ cut' = cut
           /\ visible' = visible \cup {turn[t].seq}
           /\ overtaken \subseteq overtaken'
           /\ overtaken' \subseteq overtaken \cup {turn[t].seq}
           /\ \A j \in visible : j > turn[t].seq => turn[t].seq \in overtaken'
           /\ Complete' = IF messages[turn[t].seq].status = "complete"
                          THEN Complete \cup {turn[t].seq} ELSE Complete
           /\ \A u : AnswersOf(u)' =
                       IF messages[turn[t].seq].turn = u /\ messages[turn[t].seq].role = "assistant"
                       THEN AnswersOf(u) \cup {turn[t].seq} ELSE AnswersOf(u)
<1>1. /\ messages' = messages /\ cut' = cut
      /\ visible' = visible \cup {turn[t].seq}
      /\ overtaken' = overtaken \cup {k \in {turn[t].seq} : \E j \in visible : j > k}
  BY DEF Commit
<1>2. Complete' = IF messages[turn[t].seq].status = "complete"
                  THEN Complete \cup {turn[t].seq} ELSE Complete
  BY <1>1 DEF Complete
<1>3. \A u : AnswersOf(u)' =
               IF messages[turn[t].seq].turn = u /\ messages[turn[t].seq].role = "assistant"
               THEN AnswersOf(u) \cup {turn[t].seq} ELSE AnswersOf(u)
  BY <1>1 DEF AnswersOf
<1> QED
  BY <1>1, <1>2, <1>3

\* A step that inserts no message keeps the types when what it holds and the row have
\* theirs.
LEMMA HoldsType ==
    ASSUME TypeOK, NEW t \in Turns, NEW h \in HeldType(DOMAIN messages), Holds(t, h),
           messages' = messages, offered' = offered,
           visible' \subseteq DOMAIN messages, overtaken' \subseteq DOMAIN messages,
           cut' \subseteq DOMAIN messages,
           told' = told \/ told' = [told EXCEPT ![t] = turn[t].reply.event],
           conv' \in RowType(DOMAIN messages)
    PROVE  TypeOK'
<1>1. turn' \in [Turns -> HeldType(DOMAIN messages)]
  BY TypeIs DEF Holds
<1>2. turn[t].reply.event \in {"", "done", "error"}
  BY TypeIs DEF HeldType, ReplyType
<1>3. told' \in [Turns -> {"", "done", "error"}]
  BY <1>2, TypeIs
<1> QED
  BY <1>1, <1>3, TypeIs DEF TypeOK, HeldType, ReplyType, RowType, MessageType

\* So does a step that inserts one.
LEMMA InsertsType ==
    ASSUME TypeOK, NEW t \in Turns, NEW m \in MessageType, Inserts(m),
           NEW h \in HeldType(DOMAIN messages'), Holds(t, h),
           offered' = offered, told' = told, conv' = conv
    PROVE  TypeOK'
<1>1. messages' \in Seq(MessageType) /\ DOMAIN messages \subseteq DOMAIN messages'
  BY Inserted
<1>2. /\ turn \in [Turns -> HeldType(DOMAIN messages)] /\ conv \in RowType(DOMAIN messages)
      /\ visible \subseteq DOMAIN messages /\ overtaken \subseteq DOMAIN messages
      /\ cut \subseteq DOMAIN messages
      /\ told \in [Turns -> {"", "done", "error"}] /\ offered \subseteq Models
  BY TypeIs
<1>3. HeldType(DOMAIN messages) \subseteq HeldType(DOMAIN messages') /\ conv' \in RowType(DOMAIN messages')
  BY <1>1, <1>2, TypesGrow
<1>4. turn' \in [Turns -> HeldType(DOMAIN messages')]
  BY <1>2, <1>3 DEF Holds
<1>5. /\ visible' \subseteq DOMAIN messages' /\ overtaken' \subseteq DOMAIN messages'
      /\ cut' \subseteq DOMAIN messages'
  BY <1>1, <1>2 DEF Inserts
<1> QED
  BY <1>1, <1>2, <1>3, <1>4, <1>5 DEF TypeOK, HeldType, ReplyType, RowType, MessageType

\* The steps in which a turn only changes what it holds.
Quiet(t) ==
    \/ Start(t) \/ Meta(t) \/ Route(t) \/ ChatDirect(t) \/ StreamDirect(t)
    \/ ChatNoRetrieval(t) \/ StreamNoRetrieval(t) \/ \E level \in Levels : Retrieve(t, level)
    \/ RememberRead(t) \/ ChatAbstains(t) \/ StreamAbstains(t) \/ Ask(t)
    \/ StreamStarted(t) \/ StreamCompleted(t) \/ StreamFailed(t) \/ ChatAnswered(t) \/ ChatFailed(t)
    \/ FoldRead(t) \/ FoldRows(t) \/ FoldFails(t)
    \/ Raise(t) \/ SaveFails(t) \/ Disconnect(t)

\* Whatever such a step holds is typed.
LEMMA QuietType ==
    ASSUME TypeOK, NEW t \in Turns, Quiet(t)
    PROVE  /\ \E h \in HeldType(DOMAIN messages) : Holds(t, h)
           /\ UNCHANGED <<conv, log, told, offered>>
<1> DEFINE D == DOMAIN messages
<1>1. /\ turn[t] \in HeldType(D) /\ conv \in RowType(D) /\ 0 \in Levels
      /\ Wants[t] \in Models \cup {None} /\ None \in Models \cup {None}
      /\ offered \subseteq Models
  BY TypeIs, NumbersAssumption, TurnsAssumption
<1>2. \A how \in TurnEnds : [NoTurn EXCEPT !.pc = "ended", !.end = how] \in HeldType(D)
  BY EndedType
<1>3. \A step \in Steps : [turn[t] EXCEPT !.pc = step] \in HeldType(D)
  BY <1>1 DEF HeldType
<1>0. NoTurn \in HeldType(D)
  BY <1>1 DEF NoTurn, NoReply, HeldType, ReplyType, Steps, TurnEnds
<1>4. \A status \in Statuses, cls \in Levels, event \in {"done", "error"}, folds \in BOOLEAN :
        [NoTurn EXCEPT !.pc = "saving", !.finished = t \in Streams, !.folds = folds,
                       !.reply = [status |-> status, cls |-> cls, event |-> event]]
          \in HeldType(D)
  <2>1. \A reply \in ReplyType, folds, finished \in BOOLEAN :
          [NoTurn EXCEPT !.pc = "saving", !.finished = finished, !.folds = folds,
                         !.reply = reply] \in HeldType(D)
    BY <1>0, ZenonT(40) DEF HeldType, Steps
  <2>2. \A status \in Statuses, cls \in Levels, event \in {"done", "error"} :
          [status |-> status, cls |-> cls, event |-> event] \in ReplyType
    BY DEF ReplyType
  <2>3. (t \in Streams) \in BOOLEAN
    OBVIOUS
  <2> QED
    BY <2>1, <2>2, <2>3, Zenon
<1>20. AfterTheFold(t) => \E h \in HeldType(D) : Holds(t, h)
  <2>1. [NoTurn EXCEPT !.pc = "telling", !.reply = turn[t].reply] \in HeldType(D)
    BY <1>0, <1>1, ZenonT(40) DEF HeldType, Steps
  <2> QED
    BY <1>2, <2>1 DEF AfterTheFold, Finish, TurnEnds
<1>5. turn[t].found \in Levels
  BY <1>1 DEF HeldType
<1>6. ASSUME Start(t) PROVE \E h \in HeldType(D) : Holds(t, h)
  <2>1. StoredChoice(conv.model) \in Models \cup {None}
    BY <1>1 DEF StoredChoice
  <2>3. \A c \in Models \cup {None} :
          [NoTurn EXCEPT !.pc = "loading", !.cls = conv.cls, !.sum = conv.sum,
                         !.upto = conv.upto, !.choice = c] \in HeldType(D)
    BY <1>0, <1>1 DEF HeldType, RowType, Steps
  <2>4. (IF Wants[t] # None THEN Wants[t] ELSE StoredChoice(conv.model)) \in Models \cup {None}
    BY <1>1, <2>1
  <2>5. CASE check_choice(Wants[t]) /\ (conv.owner = None \/ get_owned(t))
    BY <1>6, <2>3, <2>4, <2>5 DEF Start
  <2>6. CASE ~ (check_choice(Wants[t]) /\ (conv.owner = None \/ get_owned(t)))
    BY <1>2, <1>6, <2>6 DEF Start, Finish, TurnEnds
  <2> QED
    BY <2>5, <2>6
<1>7. ASSUME NEW level \in Levels, Retrieve(t, level) PROVE \E h \in HeldType(D) : Holds(t, h)
  <2>1. [turn[t] EXCEPT !.pc = "remembering", !.found = level] \in HeldType(D)
    BY <1>1 DEF HeldType, Steps
  <2> QED
    BY <1>7, <2>1 DEF Retrieve
<1>8. ASSUME RememberRead(t) PROVE \E h \in HeldType(D) : Holds(t, h)
  <2>1. [turn[t] EXCEPT !.pc = "marking", !.seen = conv.cls] \in HeldType(D)
    BY <1>1 DEF HeldType, RowType, Steps
  <2> QED
    BY <1>3, <1>8, <2>1 DEF RememberRead, Moves, Steps
<1>9. ASSUME StreamStarted(t) PROVE \E h \in HeldType(D) : Holds(t, h)
  <2>1. [turn[t] EXCEPT !.started = TRUE] \in HeldType(D)
    BY <1>1 DEF HeldType
  <2> QED
    BY <1>9, <2>1 DEF StreamStarted
<1>10. ASSUME FoldRead(t) PROVE \E h \in HeldType(D) : Holds(t, h)
  <2>1. [turn[t] EXCEPT !.pc = "rows", !.sum = conv.sum, !.upto = conv.upto] \in HeldType(D)
    BY <1>1 DEF HeldType, RowType, Steps
  <2> QED
    BY <1>10, <2>1 DEF FoldRead
<1>11. ASSUME FoldRows(t) PROVE \E h \in HeldType(D) : Holds(t, h)
  <2>1. Unfolded(t) \ Newest(Unfolded(t), Trigger) \in SUBSET D
    BY TypeIs DEF Unfolded, Complete
  <2>2. [turn[t] EXCEPT !.pc = "summing", !.window = Unfolded(t) \ Newest(Unfolded(t), Trigger)]
          \in HeldType(D)
    BY <1>1, <2>1 DEF HeldType, Steps
  <2> QED
    BY <1>11, <1>20, <2>2 DEF FoldRows
<1>12. ASSUME Raise(t) \/ SaveFails(t) \/ FoldFails(t) PROVE \E h \in HeldType(D) : Holds(t, h)
  BY <1>2, <1>3, <1>12, <1>20 DEF Raise, Abandons, SaveFails, FoldFails, Moves, Finish, Steps, TurnEnds
<1>13. ASSUME Disconnect(t) PROVE \E h \in HeldType(D) : Holds(t, h)
  <2>1. /\ [turn[t] EXCEPT !.gone = TRUE] \in HeldType(D)
        /\ [turn[t] EXCEPT !.pc = "closing", !.gone = TRUE] \in HeldType(D)
    BY <1>1 DEF HeldType, Steps
  <2> QED
    BY <1>2, <1>13, <2>1 DEF Disconnect, Finish, TurnEnds
<1>14. ASSUME Meta(t) \/ Route(t) \/ Ask(t) PROVE \E h \in HeldType(D) : Holds(t, h)
  BY <1>3, <1>14 DEF Meta, Route, Ask, Moves, Steps
<1>15. ASSUME NEW status \in Statuses, NEW cls \in Levels, NEW event \in {"done", "error"},
              NEW folds \in BOOLEAN, Replies(t, status, cls, event, folds)
       PROVE  \E h \in HeldType(D) : Holds(t, h)
  BY <1>4, <1>15 DEF Replies
<1>16. ASSUME ChatDirect(t) \/ StreamDirect(t) \/ ChatNoRetrieval(t) \/ StreamNoRetrieval(t)
              \/ ChatAbstains(t) \/ StreamAbstains(t) \/ StreamCompleted(t) \/ StreamFailed(t)
              \/ ChatAnswered(t) \/ ChatFailed(t)
       PROVE  \E h \in HeldType(D) : Holds(t, h)
  BY <1>1, <1>5, <1>15, <1>16
     DEF ChatDirect, StreamDirect, ChatNoRetrieval, StreamNoRetrieval, ChatAbstains,
         StreamAbstains, StreamCompleted, StreamFailed, ChatAnswered, ChatFailed, Statuses
<1>17. UNCHANGED <<conv, log, told, offered>>
  BY DEF Quiet, Start, Meta, Route, ChatDirect, StreamDirect, ChatNoRetrieval, StreamNoRetrieval,
         Retrieve, RememberRead, ChatAbstains, StreamAbstains, Ask, StreamStarted,
         StreamCompleted, StreamFailed, ChatAnswered, ChatFailed, FoldRead, FoldRows, FoldFails,
         Raise, SaveFails, Disconnect, Replies
<1> QED
  BY <1>6, <1>7, <1>8, <1>9, <1>10, <1>11, <1>12, <1>13, <1>14, <1>16, <1>17 DEF Quiet

\* Every step keeps the types.
\* Every step keeps the types.
LEMMA TypeStep == IInv /\ [Next]_vars => TypeOK' /\ (overlapped \in BOOLEAN)'
<1> SUFFICES ASSUME IInv, [Next]_vars
             PROVE  TypeOK' /\ overlapped' \in BOOLEAN
  OBVIOUS
<1> DEFINE D == DOMAIN messages
<1>1. /\ TypeOK /\ overlapped \in BOOLEAN
      /\ \A t \in Turns : ControlInv(t)
      /\ \A t \in Turns : FoldInv(t)
      /\ \A t \in Turns : InsertInv(t)
  BY DEF IInv
<1>2. /\ turn \in [Turns -> HeldType(D)] /\ conv \in RowType(D) /\ messages \in Seq(MessageType)
      /\ told \in [Turns -> {"", "done", "error"}] /\ offered \subseteq Models
      /\ visible \subseteq D /\ overtaken \subseteq D /\ cut \subseteq D
      /\ 0 \in Levels
  BY <1>1, TypeIs, NumbersAssumption
<1>3. \A how \in TurnEnds : [NoTurn EXCEPT !.pc = "ended", !.end = how] \in HeldType(D)
  BY EndedType
<1>4. \A t \in Turns : \A step \in Steps : [turn[t] EXCEPT !.pc = step] \in HeldType(D)
  BY <1>2, ZenonT(40) DEF HeldType
<1>5. ASSUME NEW t \in Turns, Quiet(t) PROVE TypeOK'
  <2>1. PICK h \in HeldType(D) : Holds(t, h)
    BY <1>1, <1>5, QuietType
  <2>2. UNCHANGED <<conv, log, told, offered>>
    BY <1>1, <1>5, QuietType
  <2> QED
    BY <1>1, <1>2, <2>1, <2>2, HoldsType DEF log
<1>20. ASSUME NEW t \in Turns, NEW m \in MessageType, Inserts(m)
       PROVE  \A step \in Steps : [turn[t] EXCEPT !.pc = step, !.seq = Len(messages) + 1]
                                    \in HeldType(DOMAIN messages')
  <2>1. Len(messages) + 1 \in DOMAIN messages' /\ D \subseteq DOMAIN messages'
    BY <1>1, <1>20, Inserted
  <2>2. turn[t] \in HeldType(DOMAIN messages')
    BY <1>2, <2>1, TypesGrow
  <2> QED
    BY <2>1, <2>2 DEF HeldType
<1>6. ASSUME NEW t \in Turns, Prepare(t) PROVE TypeOK'
  <2> DEFINE m == [turn |-> t, role |-> "user", status |-> "complete", cls |-> 0]
  <2>1. m \in MessageType
    BY <1>2 DEF MessageType, Statuses
  <2>2. Inserts(m)
    BY <1>6 DEF Prepare, add_message, Inserts
  <2> HIDE DEF m
  <2> DEFINE E == DOMAIN messages'
  <2>3. Len(messages) + 1 \in E /\ D \subseteq E
    BY <1>1, <2>1, <2>2, Inserted
  <2>4. load_conversation_memory(turn[t].sum, turn[t].upto) \in SUBSET E
    BY <1>2, <2>3 DEF load_conversation_memory, Newest, Complete
  <2>5. turn[t] \in HeldType(E)
    BY <1>2, <2>3, TypesGrow
  <2> HIDE DEF E
  <2>6. \A window \in SUBSET E : [turn[t] EXCEPT !.pc = "storing", !.seq = Len(messages) + 1,
                                                 !.window = window] \in HeldType(E)
    BY <2>3, <2>5 DEF HeldType, Steps
  <2>7. PICK h \in HeldType(E) : Holds(t, h)
    BY <1>6, <2>4, <2>6 DEF Prepare
  <2> QED
    BY <1>1, <1>6, <2>1, <2>2, <2>7, InsertsType DEF Prepare, E
<1>21. ASSUME NEW t \in Turns, Commit(t), turn[t].seq \in D
       PROVE  /\ messages' = messages /\ visible' \subseteq D /\ overtaken' \subseteq D
              /\ cut' \subseteq D
  BY <1>1, <1>2, <1>21, Committed
<1>22. ASSUME NEW t \in Turns, Prepared(t) PROVE TypeOK'
  <2>1. (IF t \in Streams THEN "meta" ELSE "routing") \in Steps
    BY DEF Steps
  <2>2. PICK h \in HeldType(D) : Holds(t, h)
    BY <1>4, <1>22, <2>1 DEF Prepared, Moves
  <2>6. \A u \in Users, m \in Models \cup {None} :
          [conv EXCEPT !.owner = u, !.model = m] \in RowType(D)
    BY <1>2 DEF RowType
  <2>7. Asker[t] \in Users /\ Wants[t] \in Models \cup {None} /\ conv.model \in Models \cup {None}
    BY <1>2, TurnsAssumption DEF RowType
  <2>8. conv' \in RowType(D)
    <3>1. conv' = [conv EXCEPT !.owner = Asker[t],
                               !.model = IF Wants[t] # None THEN Wants[t] ELSE conv.model]
      BY <1>2, <1>22 DEF Prepared, RowType
    <3> QED
      BY <2>6, <2>7, <3>1
  <2>9. turn[t].seq \in D
    BY <1>1, <1>22 DEF InsertInv, Inserting, Prepared, At
  <2> QED
    BY <1>1, <1>21, <1>22, <2>2, <2>8, <2>9, HoldsType DEF Prepared
<1>7. ASSUME NEW t \in Turns, RememberWrite(t) PROVE TypeOK'
  <2>1. [conv EXCEPT !.cls = turn[t].found] \in RowType(D)
    BY <1>2 DEF HeldType, RowType
  <2>2. conv' \in RowType(D)
    BY <1>2, <1>7, <2>1 DEF RememberWrite
  <2>3. [turn[t] EXCEPT !.pc = "answering"] \in HeldType(D)
    BY <1>4 DEF Steps
  <2> QED
    BY <1>1, <1>2, <1>7, <2>2, <2>3, HoldsType DEF RememberWrite, Moves, log
<1>8. ASSUME NEW t \in Turns, SaveAssistant(t) PROVE TypeOK'
  <2> DEFINE m == [turn |-> t, role |-> "assistant", status |-> turn[t].reply.status,
                   cls |-> turn[t].reply.cls]
  <2>1. m \in MessageType
    BY <1>1, <1>2, <1>8 DEF SaveAssistant, At, ControlInv, Replying, MessageType, HeldType, ReplyType
  <2>2. Inserts(m)
    BY <1>8 DEF SaveAssistant, add_message, Inserts
  <2> HIDE DEF m
  <2>3. PICK h \in HeldType(DOMAIN messages') : Holds(t, h)
    BY <1>8, <1>20, <2>1, <2>2 DEF SaveAssistant, Steps
  <2> QED
    BY <1>1, <1>8, <2>1, <2>2, <2>3, InsertsType DEF SaveAssistant
<1>23. ASSUME NEW t \in Turns, Saved(t) PROVE TypeOK'
  <2>1. PICK h \in HeldType(D) : Holds(t, h)
    BY <1>3, <1>4, <1>23 DEF Saved, AfterTheReply, Moves, Finish, TurnEnds, Steps
  <2>2. turn[t].seq \in D
    BY <1>1, <1>23 DEF InsertInv, Inserting, Saved, At
  <2> QED
    BY <1>1, <1>2, <1>21, <1>23, <2>1, <2>2, HoldsType DEF Saved
<1>9. ASSUME NEW t \in Turns, Tell(t) PROVE TypeOK'
  <2>1. PICK h \in HeldType(D) : Holds(t, h)
    BY <1>3, <1>4, <1>9 DEF Tell, Moves, Finish, TurnEnds, Steps
  <2> QED
    BY <1>1, <1>2, <1>9, <2>1, HoldsType DEF Tell, log
<1>10. ASSUME NEW t \in Turns, FoldWrite(t) PROVE TypeOK'
  <2> DEFINE w == turn[t].window
             s == turn[t].sum
  <2>1. /\ w \in SUBSET D /\ w # {} /\ s \in SUBSET D
        /\ Len(messages) \in Nat /\ D = 1 .. Len(messages)
    <3>1. turn[t] \in HeldType(D)
      BY <1>2
    <3>2. w # {}
      BY <1>1, <1>10 DEF FoldWrite, At, FoldInv, Follows
    <3>3. w \in SUBSET D /\ s \in SUBSET D
      BY <3>1 DEF HeldType
    <3>4. messages \in Seq(MessageType)
      BY <1>2
    <3>5. Len(messages) \in Nat /\ D = 1 .. Len(messages)
      BY <3>4
    <3> QED
      BY <3>2, <3>3, <3>5
  <2>2. Max(w) \in w
    BY <2>1, LargestOf
  <2>3. \A S \in SUBSET D, n \in D : [conv EXCEPT !.sum = S, !.upto = n] \in RowType(D)
    BY <1>2 DEF RowType
  <2>4. PICK text \in {Transcript(w), {}} :
          LET sum == Newest(s \cup text, SummaryMax) IN
          /\ conv' = [conv EXCEPT !.sum = sum, !.upto = Max(w)]
          /\ cut' = cut \cup ((s \cup w) \ sum)
    BY <1>10 DEF FoldWrite, Folds
  <2>5. Newest(s \cup text, SummaryMax) \in SUBSET D
    BY <2>1 DEF Newest, Transcript
  <2>6. conv' \in RowType(D) /\ cut' \in SUBSET D
    BY <1>2, <2>1, <2>2, <2>3, <2>4, <2>5
  <2>7. AfterTheFold(t)
    BY <1>10 DEF FoldWrite, Folds
  <2>8. PICK h \in HeldType(D) : Holds(t, h)
    <3>1. NoTurn \in HeldType(D)
      BY <1>2, TurnsAssumption DEF NoTurn, NoReply, HeldType, ReplyType, Steps, TurnEnds
    <3>2. turn[t].reply \in ReplyType
      BY <1>2 DEF HeldType
    <3>3. [NoTurn EXCEPT !.pc = "telling", !.reply = turn[t].reply] \in HeldType(D)
      BY <3>1, <3>2, ZenonT(40) DEF HeldType, Steps
    <3> QED
      BY <1>3, <2>7, <3>3 DEF AfterTheFold, Finish, TurnEnds
  <2>9. UNCHANGED <<messages, visible, overtaken, told, offered>>
    BY <1>10 DEF FoldWrite, Folds
  <2> QED
    BY <1>1, <1>2, <2>6, <2>8, <2>9, HoldsType
<1>11. ASSUME NEW t \in Turns, Finally(t) PROVE TypeOK'
  <2> DEFINE m == [turn |-> t, role |-> "assistant", status |-> "partial", cls |-> turn[t].found]
  <2>1. m \in MessageType
    BY <1>2 DEF MessageType, Statuses, HeldType
  <2>2. Inserts(m)
    BY <1>11 DEF Finally, add_message, Inserts
  <2> HIDE DEF m
  <2>3. PICK h \in HeldType(DOMAIN messages') : Holds(t, h)
    BY <1>11, <1>20, <2>1, <2>2 DEF Finally, Steps
  <2> QED
    BY <1>1, <1>11, <2>1, <2>2, <2>3, InsertsType DEF Finally
<1>24. ASSUME NEW t \in Turns, Sealed(t) PROVE TypeOK'
  <2>1. PICK h \in HeldType(D) : Holds(t, h)
    BY <1>3, <1>24 DEF Sealed, Finish, TurnEnds
  <2>2. turn[t].seq \in D
    BY <1>1, <1>24 DEF InsertInv, Inserting, Sealed, At
  <2> QED
    BY <1>1, <1>2, <1>21, <1>24, <2>1, <2>2, HoldsType DEF Sealed
<1>12. ASSUME NEW u \in Users, NEW m \in Models, SwitchModel(u, m) PROVE TypeOK'
  <2>1. [conv EXCEPT !.model = m] \in RowType(D)
    BY <1>2 DEF RowType
  <2> QED
    BY <1>12, <1>2, <2>1, TypeIs DEF SwitchModel, TypeOK, HeldType, ReplyType, RowType, MessageType, log
<1>13. ASSUME Redeploy PROVE TypeOK'
  <2>1. turn' \in [Turns -> HeldType(D)]
    BY <1>2, <1>3, <1>13 DEF Redeploy, TurnEnds
  <2> QED
    BY <1>13, <1>2, <2>1, TypeIs DEF Redeploy, TypeOK, HeldType, ReplyType, RowType, MessageType, log
<1>14. CASE UNCHANGED vars
  BY <1>1, <1>14 DEF vars, log, TypeOK
<1>15. TypeOK'
  BY <1>5, <1>6, <1>7, <1>8, <1>9, <1>10, <1>11, <1>12, <1>13, <1>14, <1>22, <1>23, <1>24
     DEF Next, Step, Quiet
<1>16. ASSUME NEW t \in Turns, Start(t) PROVE overlapped' \in BOOLEAN
  BY <1>16 DEF Start
<1>17. overlapped' = overlapped \/ \E t \in Turns : Start(t)
  BY ZenonT(40) DEF Next, Step, Prepare, Prepared, Meta, Route, ChatDirect, StreamDirect,
       ChatNoRetrieval, StreamNoRetrieval, Retrieve, RememberRead, RememberWrite, ChatAbstains,
       StreamAbstains, Ask, StreamStarted, StreamCompleted, StreamFailed, ChatAnswered, ChatFailed,
       SaveAssistant, Saved, Tell, FoldRead, FoldRows, FoldWrite, Folds, FoldFails, Finally, Sealed,
       Raise, SaveFails, Disconnect, SwitchModel, Redeploy, Replies, vars
<1> QED
  BY <1>1, <1>15, <1>16, <1>17

-----------------------------------------------------------------------------
(* Control *)

\* A step of turn t is a change of what t holds.
LEMMA Held ==
    ASSUME TypeOK, NEW t \in Turns, NEW h, Holds(t, h)
    PROVE  turn'[t] = h /\ \A u \in Turns : u # t => turn'[u] = turn[u]
BY TypeIs DEF Holds

\* A request that is over.
LEMMA Over ==
    ASSUME TypeOK, NEW t \in Turns, NEW how, Finish(t, how)
    PROVE  /\ turn'[t].pc = "ended" /\ turn'[t].end = how /\ turn'[t].finished = FALSE
           /\ turn'[t].sum = {} /\ turn'[t].upto = 0 /\ turn'[t].window = {}
           /\ \A u \in Turns : u # t => turn'[u] = turn[u]
<1>1. /\ turn'[t] = [NoTurn EXCEPT !.pc = "ended", !.end = how]
      /\ \A u \in Turns : u # t => turn'[u] = turn[u]
  BY Held DEF Finish
<1> QED
  BY <1>1 DEF NoTurn

\* A turn that moves on holds what it held.
LEMMA MovedOn ==
    ASSUME TypeOK, NEW t \in Turns, NEW step, Moves(t, step)
    PROVE  /\ turn'[t].pc = step /\ turn'[t].end = turn[t].end
           /\ turn'[t].reply = turn[t].reply /\ turn'[t].finished = turn[t].finished
           /\ turn'[t].sum = turn[t].sum /\ turn'[t].upto = turn[t].upto
           /\ turn'[t].window = turn[t].window /\ turn'[t].cls = turn[t].cls
           /\ turn'[t].found = turn[t].found /\ turn'[t].seen = turn[t].seen
           /\ turn'[t].choice = turn[t].choice
           /\ \A u \in Turns : u # t => turn'[u] = turn[u]
<1>1. turn[t] \in HeldType(DOMAIN messages)
  BY TypeIs
<1>2. /\ turn'[t] = [turn[t] EXCEPT !.pc = step]
      /\ \A u \in Turns : u # t => turn'[u] = turn[u]
  BY Held DEF Moves
<1> QED
  BY <1>1, <1>2 DEF HeldType

\* The steps in which the handler decides on its reply.
Decides(t) ==
    \/ ChatDirect(t) \/ StreamDirect(t) \/ ChatNoRetrieval(t) \/ StreamNoRetrieval(t)
    \/ ChatAbstains(t) \/ StreamAbstains(t) \/ StreamCompleted(t) \/ StreamFailed(t)
    \/ ChatAnswered(t) \/ ChatFailed(t)

Consistent(status, event) == (event = "done") <=> (status = "complete")

\* The reply has a status, "done" goes with a complete one, and only an answer of a
\* model is classified.
LEMMA DecidesHow ==
    ASSUME NEW t \in Turns, Decides(t)
    PROVE  \E status \in Statuses, cls \in {0, turn[t].found}, event \in {"done", "error"},
              folds \in BOOLEAN :
             /\ Replies(t, status, cls, event, folds)
             /\ Consistent(status, event)
             /\ turn[t].pc \in {"routing", "retrieving", "answering", "asking"}
             /\ cls # 0 => turn[t].pc = "asking"
<1> USE DEF At, Consistent, Statuses
<1>1. CASE ChatDirect(t) \/ StreamDirect(t)
  BY <1>1 DEF ChatDirect, StreamDirect
<1>2. CASE ChatNoRetrieval(t) \/ StreamNoRetrieval(t)
  BY <1>2 DEF ChatNoRetrieval, StreamNoRetrieval
<1>3. CASE ChatAbstains(t) \/ StreamAbstains(t)
  BY <1>3 DEF ChatAbstains, StreamAbstains
<1>4. CASE StreamCompleted(t) \/ ChatAnswered(t)
  <2>1. PICK cls \in {0, turn[t].found} : Replies(t, "complete", cls, "done", TRUE)
    BY <1>4 DEF StreamCompleted, ChatAnswered
  <2>2. turn[t].pc = "asking"
    BY <1>4 DEF StreamCompleted, ChatAnswered
  <2> QED
    BY <2>1, <2>2
<1>5. CASE StreamFailed(t)
  <2>1. (IF turn[t].started THEN "partial" ELSE "error") \in {"partial", "error"}
    OBVIOUS
  <2> QED
    BY <1>5, <2>1 DEF StreamFailed
<1>6. CASE ChatFailed(t)
  BY <1>6 DEF ChatFailed
<1> QED
  BY <1>1, <1>2, <1>3, <1>4, <1>5, <1>6 DEF Decides

\* What a turn holds once it has decided.
Decided(t, status, cls, event) ==
    /\ turn'[t].pc = "saving" /\ turn'[t].end = ""
    /\ turn'[t].finished <=> t \in Streams
    /\ turn'[t].reply.status = status /\ turn'[t].reply.cls = cls
    /\ turn'[t].reply.event = event
    /\ turn'[t].sum = {} /\ turn'[t].upto = 0 /\ turn'[t].window = {}
    /\ turn'[t].choice = None
    /\ \A u \in Turns : u # t => turn'[u] = turn[u]

LEMMA DecidedHolds ==
    ASSUME TypeOK, NEW t \in Turns, NEW status, NEW cls, NEW event, NEW folds,
           Replies(t, status, cls, event, folds)
    PROVE  Decided(t, status, cls, event)
<1> DEFINE f == t \in Streams
           r == [status |-> status, cls |-> cls, event |-> event]
<1>1. f \in BOOLEAN /\ (f <=> t \in Streams)
  OBVIOUS
<1>2. /\ turn'[t] = [NoTurn EXCEPT !.pc = "saving", !.finished = f, !.folds = folds, !.reply = r]
      /\ \A u \in Turns : u # t => turn'[u] = turn[u]
  BY Held DEF Replies
<1> HIDE DEF f, r
<1>3. /\ turn'[t].pc = "saving" /\ turn'[t].end = "" /\ turn'[t].finished = f
      /\ turn'[t].reply = r /\ turn'[t].sum = {} /\ turn'[t].upto = 0
      /\ turn'[t].window = {} /\ turn'[t].choice = None
  BY <1>2 DEF NoTurn
<1>4. r.status = status /\ r.cls = cls /\ r.event = event
  BY DEF r
<1> QED
  BY <1>1, <1>2, <1>3, <1>4 DEF Decided

\* What a turn holds after a fold: a stream is over, and a chat has its reply left to tell.
LEMMA FoldOver ==
    ASSUME TypeOK, NEW t \in Turns, AfterTheFold(t)
    PROVE  \/ Finish(t, "answered")
           \/ /\ t \notin Streams /\ turn'[t].pc = "telling" /\ turn'[t].end = ""
              /\ turn'[t].finished = FALSE /\ turn'[t].reply = turn[t].reply
              /\ turn'[t].sum = {} /\ turn'[t].upto = 0 /\ turn'[t].window = {}
              /\ turn'[t].choice = None
              /\ \A u \in Turns : u # t => turn'[u] = turn[u]
<1> SUFFICES ASSUME ~ Finish(t, "answered")
             PROVE  /\ t \notin Streams /\ turn'[t].pc = "telling" /\ turn'[t].end = ""
                    /\ turn'[t].finished = FALSE /\ turn'[t].reply = turn[t].reply
                    /\ turn'[t].sum = {} /\ turn'[t].upto = 0 /\ turn'[t].window = {}
                    /\ turn'[t].choice = None
                    /\ \A u \in Turns : u # t => turn'[u] = turn[u]
  OBVIOUS
<1> DEFINE r == turn[t].reply
<1>1. t \notin Streams /\ Holds(t, [NoTurn EXCEPT !.pc = "telling", !.reply = r])
  BY DEF AfterTheFold
<1> HIDE DEF r
<1>2. /\ turn'[t] = [NoTurn EXCEPT !.pc = "telling", !.reply = r]
      /\ \A u \in Turns : u # t => turn'[u] = turn[u]
  BY <1>1, Held
<1> QED
  BY <1>1, <1>2 DEF NoTurn, r

\* Every step of a turn keeps the control state of that turn in order.
LEMMA ControlStep ==
    ASSUME IInv, NEW t \in Turns, Start(t) \/ Step(t) \/ Raise(t) \/ SaveFails(t) \/ Disconnect(t)
    PROVE  ControlInv(t)' /\ \A u \in Turns : u # t => turn'[u] = turn[u]
<1> DEFINE D == DOMAIN messages
<1>1. TypeOK /\ ControlInv(t) /\ turn[t] \in HeldType(D)
  BY TypeIs DEF IInv
<1> USE DEF At, Replying, Replied
<1>2. ASSUME NEW how, Finish(t, how)
      PROVE  ControlInv(t)' /\ \A u \in Turns : u # t => turn'[u] = turn[u]
  <2>1. /\ turn'[t].pc = "ended" /\ turn'[t].finished = FALSE
        /\ \A u \in Turns : u # t => turn'[u] = turn[u]
    BY <1>1, <1>2, Over
  <2> QED
    BY <2>1 DEF ControlInv
<1>3. ASSUME NEW step, Moves(t, step),
             \/ turn[t].pc = "committing" /\ step \in {"folding", "telling"}
             \/ turn[t].pc \in Replied /\ step \in {"folding", "telling"}
             \/ turn[t].pc \notin Replying \cup {"ended"} /\ step \notin Replying \cup {"ended"}
             \/ ~ turn[t].finished /\ turn[t].end = "" /\ step = "closing"
      PROVE  ControlInv(t)' /\ \A u \in Turns : u # t => turn'[u] = turn[u]
  <2>1. /\ turn'[t].pc = step /\ turn'[t].finished = turn[t].finished
        /\ turn'[t].reply = turn[t].reply /\ turn'[t].end = turn[t].end
        /\ \A u \in Turns : u # t => turn'[u] = turn[u]
    BY <1>1, <1>3, MovedOn
  <2> QED
    BY <1>1, <1>3, <2>1 DEF ControlInv
<1>4. ASSUME NEW status \in Statuses, NEW cls, NEW event, NEW folds,
             Replies(t, status, cls, event, folds), Consistent(status, event),
             turn[t].pc # "ended"
      PROVE  ControlInv(t)' /\ \A u \in Turns : u # t => turn'[u] = turn[u]
  <2>1. Decided(t, status, cls, event)
    BY <1>1, <1>4, DecidedHolds
  <2> QED
    BY <1>1, <1>4, <2>1 DEF ControlInv, Consistent, Decided
<1>5. ASSUME NEW h, Holds(t, h), h.pc \notin Replying \cup {"ended"}, h.finished = FALSE,
             h.end = ""
      PROVE  ControlInv(t)' /\ \A u \in Turns : u # t => turn'[u] = turn[u]
  BY <1>1, <1>5, Held DEF ControlInv
<1>6. CASE Start(t)
  <2> DEFINE c == IF Wants[t] # None THEN Wants[t] ELSE StoredChoice(conv.model)
             h == [NoTurn EXCEPT !.pc = "loading", !.cls = conv.cls, !.sum = conv.sum,
                                 !.upto = conv.upto, !.choice = c]
  <2>1. h.pc = "loading" /\ h.finished = FALSE /\ h.end = ""
    BY DEF NoTurn
  <2>2. Holds(t, h) \/ Finish(t, "rejected")
    BY <1>6 DEF Start
  <2> HIDE DEF h
  <2> QED
    BY <1>2, <1>5, <2>1, <2>2
<1>20. ASSUME turn'[t].pc \in Replying, turn[t].pc \in Replying,
              turn'[t].finished = turn[t].finished, turn'[t].end = turn[t].end,
              turn'[t].reply = turn[t].reply
       PROVE  ControlInv(t)'
  BY <1>1, <1>20 DEF ControlInv
<1>7. CASE Prepare(t)
  <2> DEFINE w == load_conversation_memory(turn[t].sum, turn[t].upto)
             n == Len(messages) + 1
             h == [turn[t] EXCEPT !.pc = "storing", !.seq = n, !.window = w]
  <2> HIDE DEF w, n
  <2>1. h.pc = "storing" /\ h.finished = turn[t].finished /\ h.end = turn[t].end
    BY <1>1 DEF HeldType
  <2>2. turn[t].finished = FALSE /\ turn[t].end = ""
    BY <1>1, <1>7 DEF Prepare, ControlInv, HeldType
  <2>3. Holds(t, h)
    BY <1>7 DEF Prepare, w, n
  <2> HIDE DEF h
  <2> QED
    BY <1>5, <2>1, <2>2, <2>3
<1>21. CASE Prepared(t)
  BY <1>3, <1>21 DEF Prepared
<1>8. CASE Meta(t) \/ Route(t) \/ RememberWrite(t) \/ Ask(t)
  BY <1>3, <1>8 DEF Meta, Route, RememberWrite, Ask
<1>9. CASE \E level \in Levels : Retrieve(t, level)
  <2>1. PICK level \in Levels : Retrieve(t, level)
    BY <1>9
  <2> DEFINE h == [turn[t] EXCEPT !.pc = "remembering", !.found = level]
  <2>2. h.pc = "remembering" /\ h.finished = turn[t].finished /\ h.end = turn[t].end
    BY <1>1 DEF HeldType
  <2>3. turn[t].finished = FALSE /\ turn[t].end = ""
    BY <1>1, <2>1 DEF Retrieve, ControlInv, HeldType
  <2>4. Holds(t, h)
    BY <2>1 DEF Retrieve
  <2> HIDE DEF h
  <2> QED
    BY <1>5, <2>2, <2>3, <2>4
<1>10. CASE RememberRead(t)
  <2> DEFINE h == [turn[t] EXCEPT !.pc = "marking", !.seen = conv.cls]
  <2>1. h.pc = "marking" /\ h.finished = turn[t].finished /\ h.end = turn[t].end
    BY <1>1 DEF HeldType
  <2>2. turn[t].finished = FALSE /\ turn[t].end = ""
    BY <1>1, <1>10 DEF RememberRead, ControlInv, HeldType
  <2>3. Holds(t, h) \/ Moves(t, "answering")
    BY <1>10 DEF RememberRead
  <2> HIDE DEF h
  <2> QED
    BY <1>3, <1>5, <1>10, <2>1, <2>2, <2>3 DEF RememberRead
<1>11. CASE StreamStarted(t)
  <2> DEFINE h == [turn[t] EXCEPT !.started = TRUE]
  <2>1. h.pc = turn[t].pc /\ h.finished = turn[t].finished /\ h.end = turn[t].end
    BY <1>1 DEF HeldType
  <2>2. turn[t].finished = FALSE /\ turn[t].end = ""
    BY <1>1, <1>11 DEF StreamStarted, ControlInv, HeldType
  <2>3. Holds(t, h)
    BY <1>11 DEF StreamStarted
  <2> HIDE DEF h
  <2> QED
    BY <1>5, <1>11, <2>1, <2>2, <2>3 DEF StreamStarted
<1>12. CASE Decides(t)
  BY <1>4, <1>12, DecidesHow
<1>13. CASE SaveAssistant(t)
  <2> DEFINE n == Len(messages) + 1
             h == [turn[t] EXCEPT !.pc = "committing", !.seq = n]
  <2> HIDE DEF n
  <2>1. /\ h.pc = "committing" /\ h.finished = turn[t].finished /\ h.end = turn[t].end
        /\ h.reply = turn[t].reply
    BY <1>1 DEF HeldType
  <2>2. turn'[t] = h /\ \A u \in Turns : u # t => turn'[u] = turn[u]
    BY <1>1, <1>13, Held DEF SaveAssistant, n
  <2> HIDE DEF h
  <2> QED
    BY <1>13, <1>20, <2>1, <2>2 DEF SaveAssistant
<1>22. CASE Saved(t)
  BY <1>2, <1>3, <1>22 DEF Saved, AfterTheReply
<1>14. CASE Tell(t)
  BY <1>2, <1>3, <1>14 DEF Tell
<1>15. CASE FoldRead(t)
  <2> DEFINE h == [turn[t] EXCEPT !.pc = "rows", !.sum = conv.sum, !.upto = conv.upto]
  <2>1. /\ h.pc = "rows" /\ h.finished = turn[t].finished /\ h.end = turn[t].end
        /\ h.reply = turn[t].reply
    BY <1>1 DEF HeldType
  <2>2. turn'[t] = h /\ \A u \in Turns : u # t => turn'[u] = turn[u]
    BY <1>1, <1>15, Held DEF FoldRead
  <2> HIDE DEF h
  <2> QED
    BY <1>1, <1>15, <2>1, <2>2 DEF ControlInv, FoldRead
<1>16. CASE FoldRows(t) \/ FoldWrite(t) \/ FoldFails(t)
  <2> DEFINE w == Unfolded(t) \ Newest(Unfolded(t), Trigger)
             h == [turn[t] EXCEPT !.pc = "summing", !.window = w]
  <2>1. /\ h.pc = "summing" /\ h.finished = turn[t].finished /\ h.end = turn[t].end
        /\ h.reply = turn[t].reply
    BY <1>1 DEF HeldType
  <2>2. Holds(t, h) \/ AfterTheFold(t)
    BY <1>16 DEF FoldRows, FoldWrite, Folds, FoldFails
  <2>3. turn[t].pc \in {"rows", "summing"}
    BY <1>16 DEF FoldRows, FoldWrite, FoldFails
  <2> HIDE DEF h
  <2>4. CASE Holds(t, h)
    <3>1. turn'[t] = h /\ \A u \in Turns : u # t => turn'[u] = turn[u]
      BY <1>1, <2>4, Held
    <3> QED
      BY <1>1, <2>1, <2>3, <3>1 DEF ControlInv
  <2>5. CASE AfterTheFold(t)
    <3>1. CASE Finish(t, "answered")
      BY <1>2, <3>1
    <3>2. CASE ~ Finish(t, "answered")
      <4>1. /\ t \notin Streams /\ turn'[t].pc = "telling" /\ turn'[t].end = ""
            /\ turn'[t].finished = FALSE /\ turn'[t].reply = turn[t].reply
            /\ \A u \in Turns : u # t => turn'[u] = turn[u]
        BY <1>1, <2>5, <3>2, FoldOver
      <4> QED
        BY <1>1, <2>3, <4>1 DEF ControlInv
    <3> QED
      BY <3>1, <3>2
  <2> QED
    BY <2>2, <2>4, <2>5
<1>17. CASE Finally(t)
  <2> DEFINE n == Len(messages) + 1
             h == [turn[t] EXCEPT !.pc = "sealing", !.seq = n]
  <2> HIDE DEF n
  <2>1. h.pc = "sealing" /\ h.finished = turn[t].finished /\ h.end = turn[t].end
    BY <1>1 DEF HeldType
  <2>2. turn[t].finished = FALSE /\ turn[t].end = ""
    BY <1>1, <1>17 DEF Finally, ControlInv, HeldType
  <2>3. Holds(t, h)
    BY <1>17 DEF Finally, n
  <2> HIDE DEF h
  <2> QED
    BY <1>5, <2>1, <2>2, <2>3
<1>23. CASE Sealed(t) \/ SaveFails(t)
  BY <1>2, <1>23 DEF Sealed, SaveFails
<1>18. CASE Raise(t)
  <2>1. ~ turn[t].finished => turn[t].end = ""
    BY <1>1, <1>18 DEF Raise, MayRaise, ControlInv
  <2> QED
    BY <1>2, <1>3, <1>18, <2>1 DEF Raise, Abandons
<1>19. CASE Disconnect(t)
  <2> DEFINE g == [turn[t] EXCEPT !.gone = TRUE]
             h == [turn[t] EXCEPT !.pc = "closing", !.gone = TRUE]
  <2>1. /\ g.pc = turn[t].pc /\ g.finished = turn[t].finished /\ g.end = turn[t].end
        /\ g.reply = turn[t].reply
        /\ h.pc = "closing" /\ h.finished = turn[t].finished /\ h.end = turn[t].end
    BY <1>1 DEF HeldType
  <2>2. turn[t].pc # "ended" /\ turn[t].end = "" /\ turn[t].finished \in BOOLEAN
    BY <1>1, <1>19 DEF Disconnect, Open, ControlInv, HeldType
  <2>3. \/ Finish(t, "early") \/ Finish(t, "left") \/ Holds(t, g)
        \/ Holds(t, h) /\ turn[t].finished = FALSE
    BY <1>19, <2>2 DEF Disconnect
  <2> HIDE DEF g, h
  <2>4. CASE Holds(t, g)
    <3>1. turn'[t] = g /\ \A u \in Turns : u # t => turn'[u] = turn[u]
      BY <1>1, <2>4, Held
    <3> QED
      BY <1>1, <2>1, <3>1 DEF ControlInv
  <2> QED
    BY <1>2, <1>5, <2>1, <2>2, <2>3, <2>4
<1> QED
  BY <1>6, <1>7, <1>8, <1>9, <1>10, <1>11, <1>12, <1>13, <1>14, <1>15, <1>16, <1>17, <1>18, <1>19,
     <1>21, <1>22, <1>23 DEF Step, Decides

-----------------------------------------------------------------------------
(* The log *)

\* Messages are appended and committed, never changed or taken back; and a complete
\* message that appears below a visible one is overtaken.
Grown ==
    /\ DOMAIN messages \subseteq DOMAIN messages'
    /\ \A i \in DOMAIN messages : messages'[i] = messages[i]
    /\ visible \subseteq visible' /\ overtaken \subseteq overtaken' /\ cut \subseteq cut'
    /\ Complete \subseteq Complete'
    /\ \A k \in visible : \A i \in Complete' : i <= k => i \in Complete \cup overtaken'
    /\ \A i \in Complete' : i \in Nat /\ i > 0

\* The positions of the log.
LEMMA Positions ==
    ASSUME TypeOK
    PROVE  /\ Complete \subseteq visible /\ visible \subseteq DOMAIN messages
           /\ Len(messages) \in Nat /\ DOMAIN messages = 1 .. Len(messages)
           /\ \A i \in DOMAIN messages : i \in Nat /\ i > 0
<1>1. messages \in Seq(MessageType) /\ visible \subseteq DOMAIN messages
  BY TypeIs
<1>2. Len(messages) \in Nat /\ DOMAIN messages = 1 .. Len(messages)
  BY <1>1
<1>3. \A i \in DOMAIN messages : i \in Nat /\ i > 0
  BY <1>2
<1> QED
  BY <1>1, <1>2, <1>3 DEF Complete

\* A step that leaves the log alone, or only lengthens what was cut, is one.
LEMMA LogKept ==
    ASSUME TypeOK, UNCHANGED <<messages, visible, overtaken>>, cut \subseteq cut'
    PROVE  /\ Grown /\ Complete' = Complete /\ \A u : AnswersOf(u)' = AnswersOf(u)
<1>1. Complete' = Complete /\ \A u : AnswersOf(u)' = AnswersOf(u)
  BY DEF Complete, AnswersOf
<1>2. Complete \subseteq visible /\ visible \subseteq DOMAIN messages
      /\ \A i \in DOMAIN messages : i \in Nat /\ i > 0
  BY Positions
<1> QED
  BY <1>1, <1>2 DEF Grown

\* So are an insertion and a commit.
LEMMA InsertGrows ==
    ASSUME TypeOK, NEW m \in MessageType, Inserts(m)
    PROVE  Grown
<1>1. /\ DOMAIN messages \subseteq DOMAIN messages'
      /\ \A i \in DOMAIN messages : messages'[i] = messages[i]
      /\ Complete' = Complete
  BY Inserted
<1>2. Complete \subseteq visible /\ visible \subseteq DOMAIN messages
      /\ \A i \in DOMAIN messages : i \in Nat /\ i > 0
  BY Positions
<1>3. UNCHANGED <<visible, overtaken, cut>>
  BY DEF Inserts
<1> QED
  BY <1>1, <1>2, <1>3 DEF Grown

LEMMA CommitGrows ==
    ASSUME TypeOK, NEW t \in Turns, turn[t].seq \in DOMAIN messages, Commit(t)
    PROVE  Grown
<1> DEFINE n == turn[t].seq
<1>1. /\ messages' = messages /\ cut' = cut /\ visible' = visible \cup {n}
      /\ overtaken \subseteq overtaken'
      /\ \A j \in visible : j > n => n \in overtaken'
      /\ Complete' = IF messages[n].status = "complete" THEN Complete \cup {n} ELSE Complete
  BY Committed
<1>2. Complete \subseteq visible /\ visible \subseteq DOMAIN messages /\ n \in DOMAIN messages
      /\ \A i \in DOMAIN messages : i \in Nat /\ i > 0
  BY Positions
<1> HIDE DEF n
<1>3. ASSUME NEW k \in visible, NEW i \in Complete', i <= k
      PROVE  i \in Complete \cup overtaken'
  <2>1. CASE i \in Complete
    BY <2>1
  <2>2. CASE i \notin Complete
    <3>1. i = n /\ messages[n].status = "complete"
      BY <1>1, <2>2
    <3>2. k # n
      BY <3>1, <2>2 DEF Complete
    <3>3. k > n
      BY <1>2, <1>3, <3>1, <3>2
    <3> QED
      BY <1>1, <3>1, <3>3
  <2> QED
    BY <2>1, <2>2
<1>4. \A i \in Complete' : i \in Nat /\ i > 0
  BY <1>1, <1>2
<1>5. Complete \subseteq Complete' /\ visible \subseteq visible'
  BY <1>1
<1> QED
  BY <1>1, <1>3, <1>4, <1>5 DEF Grown

\* A turn commits what it inserted.
LEMMA CommitsItsOwn ==
    ASSUME IInv, NEW t \in Turns, turn[t].pc \in Inserting
    PROVE  turn[t].seq \in DOMAIN messages
BY DEF IInv, InsertInv

\* Whatever a turn does, the log only grows.
LEMMA OnlyGrows ==
    ASSUME IInv, NEW t \in Turns, Start(t) \/ Step(t) \/ Raise(t) \/ SaveFails(t) \/ Disconnect(t)
    PROVE  Grown
<1>1. /\ TypeOK /\ ControlInv(t) /\ turn[t] \in HeldType(DOMAIN messages) /\ 0 \in Levels
  BY TypeIs, NumbersAssumption DEF IInv
<1>2. CASE Quiet(t)
  BY <1>1, <1>2, QuietType, LogKept DEF log
<1>3. CASE Prepare(t)
  <2>1. [turn |-> t, role |-> "user", status |-> "complete", cls |-> 0] \in MessageType
    BY <1>1 DEF MessageType, Statuses
  <2> QED
    BY <1>1, <1>3, <2>1, InsertGrows DEF Prepare, add_message, Inserts
<1>4. CASE SaveAssistant(t)
  <2>1. [turn |-> t, role |-> "assistant", status |-> turn[t].reply.status,
         cls |-> turn[t].reply.cls] \in MessageType
    BY <1>1, <1>4 DEF SaveAssistant, At, ControlInv, Replying, MessageType, HeldType, ReplyType
  <2> QED
    BY <1>1, <1>4, <2>1, InsertGrows DEF SaveAssistant, add_message, Inserts
<1>5. CASE Finally(t)
  <2>1. [turn |-> t, role |-> "assistant", status |-> "partial", cls |-> turn[t].found]
          \in MessageType
    BY <1>1 DEF MessageType, HeldType, Statuses
  <2> QED
    BY <1>1, <1>5, <2>1, InsertGrows DEF Finally, add_message, Inserts
<1>6. CASE Prepared(t) \/ Saved(t) \/ Sealed(t)
  <2>1. Commit(t) /\ turn[t].pc \in Inserting
    BY <1>6 DEF Prepared, Saved, Sealed, At, Inserting
  <2> QED
    BY <1>1, <2>1, CommitsItsOwn, CommitGrows
<1>7. CASE RememberWrite(t) \/ Tell(t)
  BY <1>1, <1>7, LogKept DEF RememberWrite, Tell, log
<1>8. CASE FoldWrite(t)
  <2>1. UNCHANGED <<messages, visible, overtaken>> /\ cut \subseteq cut'
    BY <1>8 DEF FoldWrite, Folds
  <2> QED
    BY <1>1, <2>1, LogKept
<1> QED
  BY <1>2, <1>3, <1>4, <1>5, <1>6, <1>7, <1>8 DEF Step, Quiet

\* Only the steps that insert leave a turn with something to commit.
LEMMA InsertStep ==
    ASSUME IInv, NEW t \in Turns, Start(t) \/ Step(t) \/ Raise(t) \/ SaveFails(t) \/ Disconnect(t)
    PROVE  \A u \in Turns : InsertInv(u)'
<1> DEFINE D == DOMAIN messages
<1>1. /\ TypeOK /\ ControlInv(t) /\ turn[t] \in HeldType(D) /\ 0 \in Levels
      /\ \A u \in Turns : InsertInv(u)
  BY TypeIs, NumbersAssumption DEF IInv
<1>2. Grown /\ \A u \in Turns : u # t => turn'[u] = turn[u]
  BY OnlyGrows, ControlStep
<1>3. ASSUME NEW u \in Turns, turn'[u].pc = turn[u].pc, turn'[u].seq = turn[u].seq,
             turn'[u].reply = turn[u].reply
      PROVE  InsertInv(u)'
  <2>1. InsertInv(u)
    BY <1>1
  <2>2. turn[u].pc \in Inserting =>
          turn[u].seq \in DOMAIN messages' /\ messages'[turn[u].seq] = messages[turn[u].seq]
    BY <1>2, <2>1 DEF Grown, InsertInv
  <2> QED
    BY <1>3, <2>1, <2>2 DEF InsertInv, Inserting
<1>4. ASSUME InsertInv(t)' PROVE \A u \in Turns : InsertInv(u)'
  BY <1>2, <1>3, <1>4
<1>5. ASSUME turn'[t].pc \notin Inserting PROVE \A u \in Turns : InsertInv(u)'
  BY <1>4, <1>5 DEF InsertInv, Inserting
<1> USE DEF At, Inserting
<1>6. ASSUME NEW how, Finish(t, how) PROVE turn'[t].pc \notin Inserting
  BY <1>1, <1>6, Over
<1>7. ASSUME NEW step, Moves(t, step), step \notin Inserting PROVE turn'[t].pc \notin Inserting
  BY <1>1, <1>7, MovedOn
<1>8. ASSUME AfterTheFold(t) PROVE turn'[t].pc \notin Inserting
  BY <1>1, <1>6, <1>8, FoldOver
<1>9. CASE Start(t)
  <2> DEFINE c == IF Wants[t] # None THEN Wants[t] ELSE StoredChoice(conv.model)
             h == [NoTurn EXCEPT !.pc = "loading", !.cls = conv.cls, !.sum = conv.sum,
                                 !.upto = conv.upto, !.choice = c]
  <2>1. h.pc = "loading"
    BY DEF NoTurn
  <2>2. Holds(t, h) \/ Finish(t, "rejected")
    BY <1>9 DEF Start
  <2> HIDE DEF h
  <2> QED
    BY <1>1, <1>5, <1>6, <2>1, <2>2, Held
<1>10. CASE Decides(t)
  <2>1. PICK status, cls, event, folds : Replies(t, status, cls, event, folds)
    BY <1>10, DecidesHow
  <2>2. Decided(t, status, cls, event)
    BY <1>1, <2>1, DecidedHolds
  <2> QED
    BY <1>5, <2>2 DEF Decided
<1>11. CASE \/ \E level \in Levels : Retrieve(t, level)
            \/ RememberRead(t) \/ StreamStarted(t) \/ FoldRead(t) \/ FoldRows(t)
  <2> DEFINE w == Unfolded(t) \ Newest(Unfolded(t), Trigger)
  <2>1. \/ \E level \in Levels : turn'[t] = [turn[t] EXCEPT !.pc = "remembering", !.found = level]
        \/ turn'[t] = [turn[t] EXCEPT !.pc = "marking", !.seen = conv.cls]
        \/ turn'[t] = [turn[t] EXCEPT !.started = TRUE] /\ turn[t].pc = "asking"
        \/ turn'[t] = [turn[t] EXCEPT !.pc = "rows", !.sum = conv.sum, !.upto = conv.upto]
        \/ turn'[t] = [turn[t] EXCEPT !.pc = "summing", !.window = w]
        \/ AfterTheFold(t) \/ Moves(t, "answering")
    BY <1>1, <1>11, Held DEF Retrieve, RememberRead, StreamStarted, FoldRead, FoldRows
  <2> HIDE DEF w
  <2>2. \/ turn'[t].pc \in {"remembering", "marking", "asking", "rows", "summing"}
        \/ AfterTheFold(t) \/ Moves(t, "answering")
    BY <1>1, <2>1 DEF HeldType
  <2> QED
    BY <1>5, <1>7, <1>8, <2>2
<1>12. CASE Prepare(t)
  <2> DEFINE m == [turn |-> t, role |-> "user", status |-> "complete", cls |-> 0]
             w == load_conversation_memory(turn[t].sum, turn[t].upto)
             n == Len(messages) + 1
  <2>1. m \in MessageType
    BY <1>1 DEF MessageType, Statuses
  <2>2. Inserts(m)
    BY <1>12 DEF Prepare, add_message, Inserts
  <2>3. turn'[t] = [turn[t] EXCEPT !.pc = "storing", !.seq = n, !.window = w]
    BY <1>1, <1>12, Held DEF Prepare
  <2> HIDE DEF m, w
  <2>4. n \in DOMAIN messages' /\ messages'[n] = m
    BY <1>1, <2>1, <2>2, Inserted
  <2> HIDE DEF n
  <2>5. turn'[t].pc = "storing" /\ turn'[t].seq = n
    BY <1>1, <2>3 DEF HeldType
  <2> QED
    BY <1>4, <2>4, <2>5 DEF InsertInv, m
<1>13. CASE SaveAssistant(t)
  <2> DEFINE m == [turn |-> t, role |-> "assistant", status |-> turn[t].reply.status,
                   cls |-> turn[t].reply.cls]
             n == Len(messages) + 1
  <2>1. m \in MessageType
    BY <1>1, <1>13 DEF SaveAssistant, ControlInv, Replying, MessageType, HeldType, ReplyType
  <2>2. Inserts(m)
    BY <1>13 DEF SaveAssistant, add_message, Inserts
  <2>3. turn'[t] = [turn[t] EXCEPT !.pc = "committing", !.seq = n]
    BY <1>1, <1>13, Held DEF SaveAssistant
  <2> HIDE DEF m
  <2>4. n \in DOMAIN messages' /\ messages'[n] = m
    BY <1>1, <2>1, <2>2, Inserted
  <2> HIDE DEF n
  <2>5. turn'[t].pc = "committing" /\ turn'[t].seq = n /\ turn'[t].reply = turn[t].reply
    BY <1>1, <2>3 DEF HeldType
  <2> QED
    BY <1>4, <2>4, <2>5 DEF InsertInv, m
<1>14. CASE Finally(t)
  <2> DEFINE m == [turn |-> t, role |-> "assistant", status |-> "partial", cls |-> turn[t].found]
             n == Len(messages) + 1
  <2>1. m \in MessageType /\ m.turn = t /\ m.role = "assistant" /\ m.status = "partial"
    BY <1>1 DEF MessageType, HeldType, Statuses
  <2>2. Inserts(m)
    BY <1>14 DEF Finally, add_message, Inserts
  <2>3. turn'[t] = [turn[t] EXCEPT !.pc = "sealing", !.seq = n]
    BY <1>1, <1>14, Held DEF Finally
  <2> HIDE DEF m
  <2>4. n \in DOMAIN messages' /\ messages'[n] = m
    BY <1>1, <2>1, <2>2, Inserted
  <2> HIDE DEF n
  <2>5. turn'[t].pc = "sealing" /\ turn'[t].seq = n
    BY <1>1, <2>3 DEF HeldType
  <2> QED
    BY <1>4, <2>1, <2>4, <2>5 DEF InsertInv
<1>15. CASE Disconnect(t)
  <2>1. \/ Finish(t, "early") \/ Finish(t, "left")
        \/ turn'[t] = [turn[t] EXCEPT !.gone = TRUE]
        \/ turn'[t] = [turn[t] EXCEPT !.pc = "closing", !.gone = TRUE]
    BY <1>1, <1>15, Held DEF Disconnect
  <2>2. \/ Finish(t, "early") \/ Finish(t, "left") \/ turn'[t].pc = "closing"
        \/ /\ turn'[t].pc = turn[t].pc /\ turn'[t].seq = turn[t].seq
           /\ turn'[t].reply = turn[t].reply
    BY <1>1, <2>1 DEF HeldType
  <2> QED
    BY <1>3, <1>4, <1>5, <1>6, <2>2
<1>16. CASE \/ Prepared(t) \/ Meta(t) \/ Route(t) \/ RememberWrite(t) \/ Ask(t) \/ Saved(t) \/ Tell(t)
            \/ FoldWrite(t) \/ FoldFails(t) \/ Sealed(t) \/ Raise(t) \/ SaveFails(t)
  BY <1>5, <1>6, <1>7, <1>8, <1>16
     DEF Prepared, Meta, Route, RememberWrite, Ask, Saved, AfterTheReply, Tell, FoldWrite, Folds,
         FoldFails, Sealed, Raise, Abandons, SaveFails
<1> QED
  BY <1>9, <1>10, <1>11, <1>12, <1>13, <1>14, <1>15, <1>16 DEF Step, Decides

-----------------------------------------------------------------------------
(* Replies *)

\* The answers of turn u are left alone.
SameAnswers(u) ==
    AnswersOf(u)' = AnswersOf(u) /\ \A i \in AnswersOf(u) : messages'[i] = messages[i]

\* A step that leaves what a turn holds, its answers and what its client was told alone
\* keeps its replies in order.
LEMMA AnswerFrame ==
    ASSUME NEW u \in Turns, AnswerInv(u), turn'[u] = turn[u], told'[u] = told[u], SameAnswers(u)
    PROVE  AnswerInv(u)'
BY ZenonT(40) DEF AnswerInv, SameAnswers

\* Every step of a turn keeps its replies in order.
LEMMA AnswerStep ==
    ASSUME IInv, NEW t \in Turns, Start(t) \/ Step(t) \/ Raise(t) \/ SaveFails(t) \/ Disconnect(t)
    PROVE  \A u \in Turns : AnswerInv(u)'
<1> DEFINE D == DOMAIN messages
<1>1. /\ TypeOK /\ ControlInv(t) /\ turn[t] \in HeldType(D) /\ 0 \in Levels
      /\ AnswerInv(t) /\ InsertInv(t) /\ \A u \in Turns : AnswerInv(u)
      /\ told \in [Turns -> {"", "done", "error"}]
  BY TypeIs, NumbersAssumption DEF IInv
<1>0. AnswerInv(t)
  BY <1>1
<1>2. ControlInv(t)' /\ \A u \in Turns : u # t => turn'[u] = turn[u]
  BY ControlStep
<1>40. \A u : \A i \in AnswersOf(u) : messages'[i] = messages[i]
  <2>1. \A i \in D : messages'[i] = messages[i]
    BY OnlyGrows DEF Grown
  <2>2. \A u : \A i \in AnswersOf(u) : i \in D
    BY <1>1, Positions DEF AnswersOf
  <2> QED
    BY <2>1, <2>2
<1>3. ASSUME UNCHANGED <<messages, visible>> PROVE \A u : SameAnswers(u)
  BY <1>3 DEF SameAnswers, AnswersOf
<1>4. ASSUME NEW m \in MessageType, Inserts(m) PROVE \A u : SameAnswers(u)
  BY <1>1, <1>4, <1>40, Inserted DEF SameAnswers
<1>5. ASSUME \A u \in Turns : u # t => SameAnswers(u) /\ told'[u] = told[u], AnswerInv(t)'
      PROVE  \A u \in Turns : AnswerInv(u)'
  BY <1>1, <1>2, <1>5, AnswerFrame
<1> USE DEF At, Replied, Replying
<1>6. ASSUME SameAnswers(t), told' = told,
             turn[t].pc \notin Replied \cup {"ended"}, turn'[t].pc \notin Replied \cup {"ended"}
      PROVE  AnswerInv(t)'
  <2>1. AnswersOf(t) = {} /\ told[t] = "" /\ turn'[t].end = ""
    BY <1>1, <1>2, <1>6 DEF AnswerInv, ControlInv
  <2>2. AnswersOf(t)' = {} /\ told'[t] = ""
    BY <1>6, <2>1 DEF SameAnswers
  <2> QED
    BY <1>6, <2>1, <2>2 DEF AnswerInv
<1>7. ASSUME SameAnswers(t), told' = told, turn[t].pc \in Replied, turn'[t].pc \in Replied,
             turn'[t].reply = turn[t].reply, turn'[t].pc = "telling" => t \notin Streams
      PROVE  AnswerInv(t)'
  <2>1. turn'[t].end = ""
    BY <1>2, <1>7 DEF ControlInv
  <2>2. /\ AnswersOf(t)' = AnswersOf(t) /\ told'[t] = told[t]
        /\ \A i \in AnswersOf(t) : messages'[i] = messages[i]
    BY <1>7 DEF SameAnswers
  <2> QED
    BY <1>0, <1>7, <2>1, <2>2, ZenonT(40) DEF AnswerInv
<1>8. ASSUME SameAnswers(t), told' = told, NEW how, Finish(t, how),
             how \in {"answered", "left"} => turn[t].pc \in Replied,
             how = "raised" /\ t \in Streams => turn[t].pc \in Replied
      PROVE  AnswerInv(t)'
  <2>1. turn'[t].pc = "ended" /\ turn'[t].end = how
    BY <1>1, <1>8, Over
  <2>2. /\ AnswersOf(t)' = AnswersOf(t) /\ told'[t] = told[t]
        /\ \A i \in AnswersOf(t) : messages'[i] = messages[i]
    BY <1>8 DEF SameAnswers
  <2> QED
    BY <1>0, <1>8, <2>1, <2>2, ZenonT(40) DEF AnswerInv
<1>9. ASSUME NEW step, Moves(t, step)
      PROVE  turn'[t].pc = step /\ turn'[t].reply = turn[t].reply
  BY <1>1, <1>9, MovedOn
<1>10. ASSUME Quiet(t), AnswerInv(t)' PROVE \A u \in Turns : AnswerInv(u)'
  BY <1>1, <1>3, <1>5, <1>10, QuietType DEF log
<1>11. ASSUME Quiet(t) PROVE SameAnswers(t) /\ told' = told
  BY <1>1, <1>3, <1>11, QuietType DEF log
<1>12. CASE Start(t)
  <2> DEFINE c == IF Wants[t] # None THEN Wants[t] ELSE StoredChoice(conv.model)
             h == [NoTurn EXCEPT !.pc = "loading", !.cls = conv.cls, !.sum = conv.sum,
                                 !.upto = conv.upto, !.choice = c]
  <2>1. h.pc = "loading"
    BY DEF NoTurn
  <2>2. Holds(t, h) \/ Finish(t, "rejected")
    BY <1>12 DEF Start
  <2> HIDE DEF h
  <2>3. turn'[t] = h \/ Finish(t, "rejected")
    BY <1>1, <2>2, Held
  <2> QED
    BY <1>6, <1>8, <1>10, <1>11, <1>12, <2>1, <2>3 DEF Start, Quiet
<1>13. CASE Meta(t) \/ Route(t) \/ Ask(t)
  BY <1>6, <1>9, <1>10, <1>11, <1>13 DEF Meta, Route, Ask, Quiet
<1>14. CASE Decides(t)
  <2>1. Quiet(t) /\ turn[t].pc \in {"routing", "retrieving", "answering", "asking"}
    BY <1>14, DecidesHow DEF Decides, Quiet
  <2>2. PICK status, cls, event, folds : Replies(t, status, cls, event, folds)
    BY <1>14, DecidesHow
  <2>3. turn'[t].pc = "saving"
    BY <1>1, <2>2, DecidedHolds DEF Decided
  <2> QED
    BY <1>6, <1>10, <1>11, <2>1, <2>3
<1>15. CASE \E level \in Levels : Retrieve(t, level)
  <2>1. PICK level \in Levels : Retrieve(t, level)
    BY <1>15
  <2>2. turn'[t] = [turn[t] EXCEPT !.pc = "remembering", !.found = level]
    BY <1>1, <2>1, Held DEF Retrieve
  <2>3. turn'[t].pc = "remembering"
    BY <1>1, <2>2 DEF HeldType
  <2> QED
    BY <1>6, <1>10, <1>11, <1>15, <2>1, <2>3 DEF Retrieve, Quiet
<1>16. CASE RememberRead(t)
  <2>1. turn'[t] = [turn[t] EXCEPT !.pc = "marking", !.seen = conv.cls] \/ Moves(t, "answering")
    BY <1>1, <1>16, Held DEF RememberRead
  <2>2. turn'[t].pc \in {"marking", "answering"}
    BY <1>1, <1>9, <2>1 DEF HeldType
  <2> QED
    BY <1>6, <1>10, <1>11, <1>16, <2>2 DEF RememberRead, Quiet
<1>17. CASE StreamStarted(t)
  <2>1. turn'[t] = [turn[t] EXCEPT !.started = TRUE]
    BY <1>1, <1>17, Held DEF StreamStarted
  <2>2. turn'[t].pc = "asking"
    BY <1>1, <1>17, <2>1 DEF HeldType, StreamStarted
  <2> QED
    BY <1>6, <1>10, <1>11, <1>17, <2>2 DEF StreamStarted, Quiet
<1>18. CASE FoldRead(t)
  <2>1. turn'[t] = [turn[t] EXCEPT !.pc = "rows", !.sum = conv.sum, !.upto = conv.upto]
    BY <1>1, <1>18, Held DEF FoldRead
  <2>2. turn'[t].pc = "rows" /\ turn'[t].reply = turn[t].reply
    BY <1>1, <2>1 DEF HeldType
  <2> QED
    BY <1>7, <1>10, <1>11, <1>18, <2>2 DEF FoldRead, Quiet
<1>19. ASSUME SameAnswers(t), told' = told, turn[t].pc \in Replied, AfterTheFold(t)
       PROVE  AnswerInv(t)'
  <2>1. CASE Finish(t, "answered")
    BY <1>8, <1>19, <2>1
  <2>2. CASE ~ Finish(t, "answered")
    <3>1. t \notin Streams /\ turn'[t].pc = "telling" /\ turn'[t].reply = turn[t].reply
      BY <1>1, <1>19, <2>2, FoldOver
    <3> QED
      BY <1>7, <1>19, <3>1
  <2> QED
    BY <2>1, <2>2
<1>20. CASE FoldRows(t)
  <2> DEFINE w == Unfolded(t) \ Newest(Unfolded(t), Trigger)
  <2>1. turn'[t] = [turn[t] EXCEPT !.pc = "summing", !.window = w] \/ AfterTheFold(t)
    BY <1>1, <1>20, Held DEF FoldRows
  <2> HIDE DEF w
  <2>2. (turn'[t].pc = "summing" /\ turn'[t].reply = turn[t].reply) \/ AfterTheFold(t)
    BY <1>1, <2>1 DEF HeldType
  <2> QED
    BY <1>7, <1>10, <1>11, <1>19, <1>20, <2>2 DEF FoldRows, Quiet
<1>21. CASE FoldFails(t)
  BY <1>10, <1>11, <1>19, <1>21 DEF FoldFails, Quiet
<1>22. CASE Raise(t)
  <2>1. SameAnswers(t) /\ told' = told
    BY <1>11, <1>22 DEF Quiet
  <2>2. CASE InTry(t) /\ ~ turn[t].finished
    <3>1. turn[t].pc \notin Replied \cup {"ended"} /\ turn'[t].pc = "closing"
      BY <1>1, <1>9, <1>22, <2>2 DEF Raise, MayRaise, InTry, ControlInv
    <3> QED
      BY <1>6, <1>10, <1>22, <2>1, <3>1 DEF Quiet
  <2>3. CASE ~ (InTry(t) /\ ~ turn[t].finished)
    <3>1. t \in Streams /\ turn[t].pc \notin {"loading", "storing"} => turn[t].pc \in Replied
      BY <1>1, <1>22, <2>3 DEF Raise, MayRaise, InTry, ControlInv
    <3>2. PICK how : /\ Finish(t, how)
                     /\ how = IF turn[t].pc \in {"loading", "storing"} THEN "unprepared" ELSE "raised"
      BY <1>22, <2>3 DEF Raise, Abandons
    <3>3. AnswerInv(t)'
      BY <1>8, <2>1, <3>1, <3>2
    <3> QED
      BY <1>10, <1>22, <3>3 DEF Quiet
  <2> QED
    BY <2>2, <2>3
<1>23. CASE SaveFails(t)
  BY <1>8, <1>10, <1>11, <1>23 DEF SaveFails, Quiet
<1>24. CASE Disconnect(t)
  <2>1. \/ Finish(t, "early")
        \/ Finish(t, "left") /\ turn[t].pc \in Replied
        \/ turn'[t] = [turn[t] EXCEPT !.gone = TRUE] /\ turn[t].pc \in Saving
        \/ /\ turn'[t] = [turn[t] EXCEPT !.pc = "closing", !.gone = TRUE]
           /\ turn[t].pc \notin Replied \cup {"ended"}
    BY <1>1, <1>24, Held, ZenonT(40) DEF Disconnect, Saving, ControlInv, Open
  <2>2. \/ Finish(t, "early")
        \/ Finish(t, "left") /\ turn[t].pc \in Replied
        \/ turn'[t].pc \in Saving /\ turn[t].pc \notin Replied \cup {"ended"}
    BY <1>1, <2>1 DEF HeldType, Saving
  <2> QED
    BY <1>6, <1>8, <1>10, <1>11, <1>24, <2>2 DEF Quiet, Saving
<1>25. CASE Prepare(t)
  <2>1. [turn |-> t, role |-> "user", status |-> "complete", cls |-> 0] \in MessageType
    BY <1>1 DEF MessageType, Statuses
  <2>2. \A u \in Turns : SameAnswers(u)
    BY <1>4, <1>25, <2>1 DEF Prepare, add_message, Inserts
  <2> DEFINE n == Len(messages) + 1
             w == load_conversation_memory(turn[t].sum, turn[t].upto)
  <2>3. turn'[t] = [turn[t] EXCEPT !.pc = "storing", !.seq = n, !.window = w]
    BY <1>1, <1>25, Held DEF Prepare
  <2> HIDE DEF w, n
  <2>4. turn'[t].pc = "storing"
    BY <1>1, <2>3 DEF HeldType
  <2> QED
    BY <1>5, <1>6, <1>25, <2>2, <2>4 DEF Prepare
<1>32. CASE Prepared(t)
  <2> DEFINE n == turn[t].seq
  <2>1. turn[t].pc = "storing" /\ Commit(t) /\ told' = told
    BY <1>32 DEF Prepared
  <2>2. n \in D /\ messages[n] = [turn |-> t, role |-> "user", status |-> "complete", cls |-> 0]
    BY <1>1, <2>1 DEF InsertInv, Inserting
  <2>3. messages[n].role # "assistant"
    BY <2>2
  <2>4. \A u : AnswersOf(u)' = AnswersOf(u)
    BY <1>1, <2>1, <2>2, <2>3, Committed
  <2>5. \A u \in Turns : SameAnswers(u)
    BY <1>40, <2>4 DEF SameAnswers
  <2>6. turn'[t].pc \in {"meta", "routing"}
    BY <1>9, <1>32 DEF Prepared
  <2> QED
    BY <1>5, <1>6, <2>1, <2>5, <2>6
<1>26. CASE RememberWrite(t)
  BY <1>3, <1>5, <1>6, <1>9, <1>26 DEF RememberWrite, log
<1>27. CASE FoldWrite(t)
  BY <1>3, <1>5, <1>19, <1>27 DEF FoldWrite, Folds
<1>28. CASE Tell(t)
  <2>1. SameAnswers(t) /\ told'[t] = turn[t].reply.event
        /\ \A u \in Turns : u # t => SameAnswers(u) /\ told'[u] = told[u]
    BY <1>1, <1>3, <1>28 DEF Tell, log
  <2>4. /\ turn[t].pc = "telling" /\ (told'[t] = "done" <=> turn[t].reply.status = "complete")
        /\ AnswersOf(t)' = AnswersOf(t)
        /\ \A i \in AnswersOf(t) : messages'[i] = messages[i]
    BY <1>1, <1>28, <2>1 DEF Tell, ControlInv, SameAnswers
  <2>5. /\ \A i, j \in AnswersOf(t)' : i = j
        /\ AnswersOf(t)' # {}
        /\ \A i \in AnswersOf(t)' :
             /\ messages'[i].status = turn[t].reply.status
             /\ told'[t] = "done" => messages'[i].status = "complete"
             /\ told'[t] = "error" => messages'[i].status # "complete"
    BY <1>0, <2>4, ZenonT(40) DEF AnswerInv
  <2>2. CASE Moves(t, "folding") /\ t \in Streams
    <3>1. turn'[t].pc = "folding" /\ turn'[t].reply = turn[t].reply
      BY <1>9, <2>2
    <3>2. turn'[t].end = ""
      BY <1>2, <3>1 DEF ControlInv
    <3>3. AnswerInv(t)'
      BY <2>2, <2>5, <3>1, <3>2 DEF AnswerInv
    <3> QED
      BY <1>5, <2>1, <3>3
  <2>3. CASE Finish(t, "answered")
    <3>1. turn'[t].pc = "ended" /\ turn'[t].end = "answered"
      BY <1>1, <2>3, Over
    <3>2. AnswerInv(t)'
      BY <2>5, <3>1 DEF AnswerInv
    <3> QED
      BY <1>5, <2>1, <3>2
  <2> QED
    BY <1>28, <2>2, <2>3 DEF Tell
<1>29. ASSUME Commit(t), told' = told, turn[t].pc \in {"committing", "sealing"},
              \/ turn'[t].pc = "ended"
              \/ /\ turn'[t].pc \in Replied /\ turn'[t].reply = turn[t].reply
                 /\ turn[t].pc = "committing"
       PROVE  \A u \in Turns : AnswerInv(u)'
  <2> DEFINE n == turn[t].seq
  <2>1. n \in D
    BY <1>1, <1>29 DEF InsertInv, Inserting
  <2>2. /\ messages[n].turn = t /\ messages[n].role = "assistant"
        /\ turn[t].pc = "committing" => messages[n].status = turn[t].reply.status
    <3>1. InsertInv(t)
      BY <1>1
    <3> HIDE DEF n
    <3>2. CASE turn[t].pc = "committing"
      <4>1. messages[n] = [turn |-> t, role |-> "assistant", status |-> turn[t].reply.status,
                           cls |-> turn[t].reply.cls]
        BY <3>1, <3>2 DEF InsertInv, n
      <4> QED
        BY <4>1
    <3>3. CASE turn[t].pc = "sealing"
      BY <3>1, <3>3 DEF InsertInv, n
    <3> QED
      BY <1>29, <3>2, <3>3
  <2>3. /\ messages' = messages
        /\ \A u : AnswersOf(u)' = IF messages[n].turn = u /\ messages[n].role = "assistant"
                                  THEN AnswersOf(u) \cup {n} ELSE AnswersOf(u)
    BY <1>1, <1>29, <2>1, Committed
  <2>4. \A u : u # t => SameAnswers(u)
    BY <2>2, <2>3 DEF SameAnswers
  <2>5. AnswersOf(t) = {} /\ told[t] = ""
    BY <1>1, <1>29 DEF AnswerInv
  <2>6. AnswersOf(t)' = {n}
    BY <2>2, <2>3, <2>5
  <2>7. told'[t] = "" /\ messages'[n] = messages[n]
    BY <1>29, <2>3, <2>5
  <2> HIDE DEF n
  <2>8. AnswerInv(t)'
    BY <1>29, <2>2, <2>6, <2>7 DEF AnswerInv
  <2> QED
    BY <1>5, <1>29, <2>4, <2>8
<1>30. CASE SaveAssistant(t)
  <2>1. [turn |-> t, role |-> "assistant", status |-> turn[t].reply.status,
         cls |-> turn[t].reply.cls] \in MessageType
    BY <1>1, <1>30 DEF SaveAssistant, ControlInv, MessageType, HeldType, ReplyType
  <2>2. \A u \in Turns : SameAnswers(u)
    BY <1>4, <1>30, <2>1 DEF SaveAssistant, add_message, Inserts
  <2> DEFINE n == Len(messages) + 1
  <2>3. turn'[t] = [turn[t] EXCEPT !.pc = "committing", !.seq = n]
    BY <1>1, <1>30, Held DEF SaveAssistant
  <2> HIDE DEF n
  <2>4. turn'[t].pc = "committing"
    BY <1>1, <2>3 DEF HeldType
  <2> QED
    BY <1>5, <1>6, <1>30, <2>2, <2>4 DEF SaveAssistant
<1>33. CASE Saved(t)
  <2>1. Finish(t, "left") \/ Moves(t, "folding") \/ Moves(t, "telling")
    BY <1>33 DEF Saved, AfterTheReply
  <2>2. \/ turn'[t].pc = "ended"
        \/ turn'[t].pc \in Replied /\ turn'[t].reply = turn[t].reply
    BY <1>1, <1>9, <2>1, Over
  <2> QED
    BY <1>29, <1>33, <2>2 DEF Saved
<1>31. CASE Finally(t)
  <2>1. [turn |-> t, role |-> "assistant", status |-> "partial", cls |-> turn[t].found]
          \in MessageType
    BY <1>1 DEF MessageType, HeldType, Statuses
  <2>2. \A u \in Turns : SameAnswers(u)
    BY <1>4, <1>31, <2>1 DEF Finally, add_message, Inserts
  <2> DEFINE n == Len(messages) + 1
  <2>3. turn'[t] = [turn[t] EXCEPT !.pc = "sealing", !.seq = n]
    BY <1>1, <1>31, Held DEF Finally
  <2> HIDE DEF n
  <2>4. turn'[t].pc = "sealing"
    BY <1>1, <2>3 DEF HeldType
  <2> QED
    BY <1>5, <1>6, <1>31, <2>2, <2>4 DEF Finally
<1>34. CASE Sealed(t)
  <2>1. turn'[t].pc = "ended"
    BY <1>1, <1>34, Over DEF Sealed
  <2> QED
    BY <1>29, <1>34, <2>1 DEF Sealed
<1> QED
  BY <1>12, <1>13, <1>14, <1>15, <1>16, <1>17, <1>18, <1>20, <1>21, <1>22, <1>23, <1>24, <1>25,
     <1>26, <1>27, <1>28, <1>30, <1>31, <1>32, <1>33, <1>34 DEF Step, Decides

-----------------------------------------------------------------------------
(* The summary and the window *)

\* A summary goes on covering its mark while the log grows.
LEMMA CoversGrows ==
    ASSUME NEW s, NEW n, NEW c, NEW v, NEW l, NEW c2, NEW v2, NEW l2,
           Covers(s, n, c, v, l), c \subseteq c2, v \subseteq v2, l \subseteq l2,
           \A k \in v : \A i \in c2 : i <= k => i \in c \cup l2,
           \A i \in c2 : i \in Nat /\ i > 0
    PROVE  Covers(s, n, c2, v2, l2)
<1>1. s \subseteq {i \in c2 : i <= n} /\ n \in {0} \cup v2
  BY DEF Covers
<1>2. ASSUME NEW i \in c2, i <= n PROVE i \in s \cup l2
  <2>1. CASE n = 0
    BY <1>2, <2>1
  <2>2. CASE n \in v
    <3>1. i \in c \cup l2
      BY <1>2, <2>2
    <3> QED
      BY <1>2, <3>1 DEF Covers
  <2> QED
    BY <2>1, <2>2 DEF Covers
<1> QED
  BY <1>1, <1>2 DEF Covers

\* An empty summary covers nothing.
LEMMA CoversNothing ==
    ASSUME NEW c, NEW v, NEW l, \A i \in c : i \in Nat /\ i > 0
    PROVE  Covers({}, 0, c, v, l)
BY DEF Covers

\* What a turn holds of the summary and of the messages stays in order when the turn
\* keeps it.
LEMMA FoldFrame ==
    ASSUME TypeOK, Grown, NEW u \in Turns, FoldInv(u), turn'[u].sum = turn[u].sum,
           turn'[u].upto = turn[u].upto, turn'[u].window = turn[u].window,
           turn'[u].pc \in Working => turn[u].pc \in Working,
           turn'[u].pc = "summing" => turn[u].pc = "summing"
    PROVE  FoldInv(u)'
<1> DEFINE s == turn[u].sum
           n == turn[u].upto
           w == turn[u].window
           l == cut \cup overtaken
<1>1. /\ visible \subseteq visible' /\ overtaken \subseteq overtaken' /\ l \subseteq l'
      /\ Complete \subseteq Complete'
      /\ \A k \in visible : \A i \in Complete' : i <= k => i \in Complete \cup overtaken'
      /\ \A k \in visible : \A i \in Complete' : i <= k => i \in Complete \cup l'
      /\ \A i \in Complete' : i \in Nat /\ i > 0
  BY DEF Grown
<1>2. Covers(s, n, Complete, visible, l) /\ w \subseteq Complete
  BY DEF FoldInv
<1>3. w \subseteq visible
  BY <1>2, Positions
<1>4. turn'[u].sum = s /\ turn'[u].upto = n /\ turn'[u].window = w
  OBVIOUS
<1>5. turn[u].pc = "summing" => Follows(w, n, Complete, overtaken)
  BY DEF FoldInv
<1>6. turn[u].pc \in Working => s \cap w = {}
  BY DEF FoldInv
<1> HIDE DEF s, n, w
<1>7. Covers(s, n, Complete', visible', l')
  <2> HIDE DEF l
  <2> QED
    BY <1>1, <1>2, CoversGrows
<1>8. ASSUME turn[u].pc = "summing" PROVE Follows(w, n, Complete', overtaken')
  <2>1. Follows(w, n, Complete, overtaken)
    BY <1>5, <1>8
  <2> QED
    BY <1>1, <1>3, <2>1 DEF Follows
<1>9. w \subseteq Complete'
  BY <1>1, <1>2
<1> QED
  BY <1>4, <1>6, <1>7, <1>8, <1>9 DEF FoldInv

\* Every step of a turn keeps the summaries and the windows in order.
LEMMA FoldStep ==
    ASSUME IInv, NEW t \in Turns, Start(t) \/ Step(t) \/ Raise(t) \/ SaveFails(t) \/ Disconnect(t)
    PROVE  (\A u \in Turns : FoldInv(u)') /\ MarkInv'
<1> DEFINE D == DOMAIN messages
           l == cut \cup overtaken
<1>1. /\ TypeOK /\ ControlInv(t) /\ turn[t] \in HeldType(D) /\ conv \in RowType(D) /\ FoldInv(t)
  BY TypeIs DEF IInv
<1>2. Grown /\ MarkInv /\ \A u \in Turns : FoldInv(u)
  BY OnlyGrows DEF IInv
<1>3. \A u \in Turns : u # t => FoldInv(u)'
  <2>1. \A u \in Turns : u # t => turn'[u] = turn[u]
    BY ControlStep
  <2> QED
    BY <1>1, <1>2, <2>1, FoldFrame
<1>4. /\ visible \subseteq visible' /\ overtaken \subseteq overtaken' /\ l \subseteq l'
      /\ Complete \subseteq Complete'
      /\ \A k \in visible : \A i \in Complete' : i <= k => i \in Complete \cup l'
      /\ \A i \in Complete' : i \in Nat /\ i > 0
  BY <1>2 DEF Grown
<1>40. Complete \subseteq visible /\ visible \subseteq D /\ \A i \in D : i \in Nat /\ i > 0
  BY <1>1, Positions
<1>5. Covers(conv.sum, conv.upto, Complete', visible', l')
  <2> HIDE DEF l
  <2>1. Covers(conv.sum, conv.upto, Complete, visible, l)
    BY <1>2 DEF MarkInv, l
  <2> QED
    BY <1>4, <2>1, CoversGrows
<1>6. conv'.sum = conv.sum /\ conv'.upto = conv.upto => MarkInv'
  BY <1>5 DEF MarkInv
<1>41. Covers({}, 0, Complete', visible', l')
  BY <1>4, CoversNothing
<1>7. ASSUME turn'[t].sum = {}, turn'[t].upto = 0, turn'[t].window = {},
             turn'[t].pc # "summing"
      PROVE  FoldInv(t)'
  BY <1>7, <1>41 DEF FoldInv
<1>8. ASSUME NEW how, Finish(t, how) PROVE FoldInv(t)'
  BY <1>1, <1>7, <1>8, Over
<1>9. ASSUME NEW step, Moves(t, step), step \in Working => turn[t].pc \in Working,
             step # "summing"
      PROVE  FoldInv(t)'
  BY <1>1, <1>2, <1>9, FoldFrame, MovedOn
<1>10. ASSUME Quiet(t) PROVE MarkInv'
  BY <1>1, <1>6, <1>10, QuietType
<1>19. ASSUME AfterTheFold(t) PROVE FoldInv(t)'
  <2>1. CASE Finish(t, "answered")
    BY <1>8, <2>1
  <2>2. CASE ~ Finish(t, "answered")
    <3>1. /\ turn'[t].pc = "telling" /\ turn'[t].sum = {} /\ turn'[t].upto = 0
          /\ turn'[t].window = {}
      BY <1>1, <1>19, <2>2, FoldOver
    <3> QED
      BY <1>7, <3>1
  <2> QED
    BY <2>1, <2>2
<1> USE DEF At, Working
<1>11. CASE Start(t)
  <2> DEFINE c == IF Wants[t] # None THEN Wants[t] ELSE StoredChoice(conv.model)
             h == [NoTurn EXCEPT !.pc = "loading", !.cls = conv.cls, !.sum = conv.sum,
                                 !.upto = conv.upto, !.choice = c]
  <2>1. h.pc = "loading" /\ h.sum = conv.sum /\ h.upto = conv.upto /\ h.window = {}
    BY DEF NoTurn
  <2>2. Holds(t, h) \/ Finish(t, "rejected")
    BY <1>11 DEF Start
  <2> HIDE DEF h
  <2>3. CASE Holds(t, h)
    <3>1. turn'[t] = h
      BY <1>1, <2>3, Held
    <3>2. FoldInv(t)'
      BY <1>5, <2>1, <3>1 DEF FoldInv
    <3> QED
      BY <1>3, <1>10, <1>11, <3>2 DEF Quiet
  <2> QED
    BY <1>3, <1>8, <1>10, <1>11, <2>2, <2>3 DEF Quiet
<1>12. CASE Meta(t) \/ Route(t) \/ Ask(t) \/ RememberWrite(t) \/ Prepared(t)
  <2>1. FoldInv(t)'
    BY <1>9, <1>12 DEF Meta, Route, Ask, RememberWrite, Prepared
  <2>2. conv'.sum = conv.sum /\ conv'.upto = conv.upto
    BY <1>1, <1>12 DEF Meta, Route, Ask, RememberWrite, Prepared, RowType
  <2> QED
    BY <1>3, <1>6, <2>1, <2>2
<1>13. CASE Decides(t)
  <2>1. PICK status, cls, event, folds : Replies(t, status, cls, event, folds)
    BY <1>13, DecidesHow
  <2>2. Decided(t, status, cls, event)
    BY <1>1, <2>1, DecidedHolds
  <2>3. FoldInv(t)'
    BY <1>7, <2>2 DEF Decided
  <2> QED
    BY <1>3, <1>10, <1>13, <2>3 DEF Decides, Quiet
<1>14. CASE \E level \in Levels : Retrieve(t, level)
  <2>1. PICK level \in Levels : Retrieve(t, level)
    BY <1>14
  <2>2. turn'[t] = [turn[t] EXCEPT !.pc = "remembering", !.found = level]
    BY <1>1, <2>1, Held DEF Retrieve
  <2>3. /\ turn'[t].pc = "remembering" /\ turn'[t].sum = turn[t].sum
        /\ turn'[t].upto = turn[t].upto /\ turn'[t].window = turn[t].window
    BY <1>1, <2>2 DEF HeldType
  <2>4. FoldInv(t)'
    BY <1>1, <1>2, <2>1, <2>3, FoldFrame DEF Retrieve
  <2> QED
    BY <1>3, <1>10, <1>14, <2>4 DEF Quiet
<1>15. CASE RememberRead(t)
  <2>1. turn'[t] = [turn[t] EXCEPT !.pc = "marking", !.seen = conv.cls] \/ Moves(t, "answering")
    BY <1>1, <1>15, Held DEF RememberRead
  <2>2. /\ turn'[t].pc \in {"marking", "answering"} /\ turn'[t].sum = turn[t].sum
        /\ turn'[t].upto = turn[t].upto /\ turn'[t].window = turn[t].window
    BY <1>1, <2>1, MovedOn DEF HeldType
  <2>3. FoldInv(t)'
    BY <1>1, <1>2, <1>15, <2>2, FoldFrame DEF RememberRead
  <2> QED
    BY <1>3, <1>10, <1>15, <2>3 DEF Quiet
<1>16. CASE StreamStarted(t)
  <2>1. turn'[t] = [turn[t] EXCEPT !.started = TRUE]
    BY <1>1, <1>16, Held DEF StreamStarted
  <2>2. /\ turn'[t].pc = turn[t].pc /\ turn'[t].sum = turn[t].sum
        /\ turn'[t].upto = turn[t].upto /\ turn'[t].window = turn[t].window
    BY <1>1, <2>1 DEF HeldType
  <2>3. FoldInv(t)'
    BY <1>1, <1>2, <2>2, FoldFrame
  <2> QED
    BY <1>3, <1>10, <1>16, <2>3 DEF Quiet
<1>17. CASE FoldRead(t)
  <2>1. turn'[t] = [turn[t] EXCEPT !.pc = "rows", !.sum = conv.sum, !.upto = conv.upto]
    BY <1>1, <1>17, Held DEF FoldRead
  <2>2. /\ turn'[t].pc = "rows" /\ turn'[t].sum = conv.sum /\ turn'[t].upto = conv.upto
        /\ turn'[t].window = turn[t].window
    BY <1>1, <2>1 DEF HeldType
  <2>3. turn[t].window \subseteq Complete'
    BY <1>1, <1>4 DEF FoldInv
  <2>4. FoldInv(t)'
    BY <1>5, <2>2, <2>3 DEF FoldInv
  <2> QED
    BY <1>3, <1>10, <1>17, <2>4 DEF Quiet
<1>18. CASE FoldRows(t) /\ ~ AfterTheFold(t)
  <2> DEFINE rows == Unfolded(t)
             w == rows \ Newest(rows, Trigger)
             n == turn[t].upto
  <2>1. Holds(t, [turn[t] EXCEPT !.pc = "summing", !.window = w])
    BY <1>18 DEF FoldRows
  <2>2. ~ (Cardinality(rows) <= Trigger)
    BY <1>18 DEF FoldRows
  <2>3. rows = {i \in Complete : i > n}
    BY DEF Unfolded
  <2>4. UNCHANGED <<messages, visible, overtaken, cut>>
    BY <1>18 DEF FoldRows, log
  <2>5. Complete' = Complete
    BY <2>4 DEF Complete
  <2> HIDE DEF rows
  <2>6. /\ Len(messages) \in Nat /\ rows \in SUBSET (1 .. Len(messages)) /\ Trigger \in Nat
        /\ Cardinality(rows) \in Nat
    <3>1. Len(messages) \in Nat /\ D = 1 .. Len(messages)
      BY <1>1, Positions
    <3>2. rows \in SUBSET (1 .. Len(messages))
      BY <1>40, <2>3, <3>1
    <3>3. IsFiniteSet(1 .. Len(messages))
      BY <3>1, FS_Interval
    <3>4. Cardinality(rows) \in Nat
      BY <3>2, <3>3, FS_Subset, FS_CardinalityType
    <3> QED
      BY <3>1, <3>2, <3>4, NumbersAssumption
  <2>7. /\ \A i \in w : \A j \in rows : j <= i => j \in w
        /\ w # {}
    BY <2>2, <2>6, AllButTheNewest, SMTT(30)
  <2>8. w \subseteq rows
    OBVIOUS
  <2> HIDE DEF w
  <2>9. turn'[t] = [turn[t] EXCEPT !.pc = "summing", !.window = w]
    BY <1>1, <2>1, Held
  <2>10. /\ turn'[t].pc = "summing" /\ turn'[t].sum = turn[t].sum /\ turn'[t].upto = n
         /\ turn'[t].window = w
    BY <1>1, <2>9 DEF HeldType
  <2>11. Covers(turn[t].sum, n, Complete', visible', l')
    BY <1>1, <2>4, <2>5 DEF FoldInv
  <2>12. w \subseteq Complete' /\ Follows(w, n, Complete', overtaken')
    BY <2>3, <2>5, <2>7, <2>8 DEF Follows
  <2>13. FoldInv(t)'
    BY <2>10, <2>11, <2>12 DEF FoldInv
  <2> QED
    BY <1>3, <1>10, <1>18, <2>13 DEF Quiet
<1>20. CASE (FoldRows(t) /\ AfterTheFold(t)) \/ FoldFails(t)
  <2>1. FoldInv(t)'
    BY <1>19, <1>20 DEF FoldFails
  <2> QED
    BY <1>3, <1>10, <1>20, <2>1 DEF Quiet
<1>21. CASE FoldWrite(t)
  <2> DEFINE w == turn[t].window
             n == turn[t].upto
             s == turn[t].sum
             m == Max(w)
  <2>1. /\ FoldInv(t)' /\ UNCHANGED <<messages, visible, overtaken>>
    BY <1>19, <1>21 DEF FoldWrite, Folds
  <2>2. w \subseteq Complete /\ Follows(w, n, Complete, overtaken)
        /\ Covers(s, n, Complete, visible, l)
    BY <1>1, <1>21 DEF FoldWrite, FoldInv
  <2>3. Complete' = Complete
    BY <2>1 DEF Complete
  <2>4. PICK text \in {Transcript(w), {}} :
          LET sum == Newest(s \cup text, SummaryMax) IN
          /\ conv' = [conv EXCEPT !.sum = sum, !.upto = m]
          /\ cut' = cut \cup ((s \cup w) \ sum)
    BY <1>21 DEF FoldWrite, Folds
  <2> DEFINE x == Newest(s \cup text, SummaryMax)
  <2>5. x \subseteq s \cup w
    BY <2>4 DEF Newest, Transcript
  <2>6. conv'.sum = x /\ conv'.upto = m /\ cut' = cut \cup ((s \cup w) \ x)
    BY <1>1, <2>4 DEF RowType
  <2>7. Len(messages) \in Nat /\ D = 1 .. Len(messages)
    BY <1>1, Positions
  <2>8. n \in Nat /\ w \in SUBSET (1 .. Len(messages))
    BY <1>1, <2>7, <1>40 DEF HeldType
  <2> HIDE DEF w, n, s, x
  <2>9. m \in w /\ \A k \in w : k <= m
    BY <2>2, <2>7, <2>8, LargestOf DEF Follows
  <2> HIDE DEF m
  <2>10. \A i \in Complete : i \in Nat
    BY <1>40
  <2>11. n < m /\ m \in Nat /\ m \in visible
    BY <1>40, <2>2, <2>9, <2>8, <2>10 DEF Follows
  <2>12. x \subseteq {i \in Complete : i <= m}
    <3>1. \A i \in s : i \in Complete /\ i <= n
      BY <2>2 DEF Covers
    <3>2. \A i \in w : i \in Complete /\ i <= m
      BY <2>2, <2>9
    <3>3. \A i \in s : i <= m
      BY <2>8, <2>10, <2>11, <3>1
    <3> QED
      BY <2>5, <3>1, <3>2, <3>3
  <2>13. ASSUME NEW i \in Complete, i <= m PROVE i \in x \cup (cut' \cup overtaken)
    <3>1. CASE i <= n
      <4>1. i \in s \cup l
        BY <2>2, <3>1 DEF Covers
      <4> QED
        BY <2>6, <4>1
    <3>2. CASE n < i
      <4>1. i \in w \cup overtaken
        BY <2>2, <2>9, <2>13, <3>2 DEF Follows
      <4> QED
        BY <2>6, <4>1
    <3> QED
      BY <2>8, <2>10, <3>1, <3>2
  <2>14. MarkInv'
    BY <2>1, <2>3, <2>6, <2>11, <2>12, <2>13 DEF MarkInv, Covers
  <2> QED
    BY <1>3, <2>1, <2>14
<1>22. CASE Tell(t)
  <2>1. FoldInv(t)'
    BY <1>8, <1>9, <1>22 DEF Tell
  <2> QED
    BY <1>3, <1>6, <1>22, <2>1 DEF Tell
<1>23. CASE SaveAssistant(t) \/ Finally(t)
  <2> DEFINE n == Len(messages) + 1
  <2>1. \E pc \in {"committing", "sealing"} : turn'[t] = [turn[t] EXCEPT !.pc = pc, !.seq = n]
    BY <1>1, <1>23, Held DEF SaveAssistant, Finally
  <2> HIDE DEF n
  <2>2. /\ turn'[t].pc \in {"committing", "sealing"} /\ turn'[t].sum = turn[t].sum
        /\ turn'[t].upto = turn[t].upto /\ turn'[t].window = turn[t].window
    BY <1>1, <2>1 DEF HeldType
  <2>3. FoldInv(t)'
    BY <1>1, <1>2, <2>2, FoldFrame
  <2> QED
    BY <1>3, <1>6, <1>23, <2>3 DEF SaveAssistant, Finally
<1>24. CASE Saved(t) \/ Sealed(t)
  <2>1. FoldInv(t)'
    BY <1>8, <1>9, <1>24 DEF Saved, AfterTheReply, Sealed
  <2> QED
    BY <1>3, <1>6, <1>24, <2>1 DEF Saved, Sealed
<1>25. CASE Raise(t) \/ SaveFails(t)
  <2>1. FoldInv(t)'
    BY <1>8, <1>9, <1>25 DEF Raise, Abandons, SaveFails
  <2> QED
    BY <1>3, <1>10, <1>25, <2>1 DEF Quiet
<1>26. CASE Disconnect(t)
  <2>1. \/ Finish(t, "early") \/ Finish(t, "left")
        \/ turn'[t] = [turn[t] EXCEPT !.gone = TRUE] /\ turn[t].pc \in Saving
        \/ turn'[t] = [turn[t] EXCEPT !.pc = "closing", !.gone = TRUE]
    BY <1>1, <1>26, Held DEF Disconnect
  <2>2. \/ Finish(t, "early") \/ Finish(t, "left")
        \/ /\ turn'[t].pc \in Saving /\ turn'[t].sum = turn[t].sum
           /\ turn'[t].upto = turn[t].upto /\ turn'[t].window = turn[t].window
    BY <1>1, <2>1 DEF HeldType, Saving
  <2>3. FoldInv(t)'
    BY <1>1, <1>2, <1>8, <2>2, FoldFrame DEF Saving
  <2> QED
    BY <1>3, <1>10, <1>26, <2>3 DEF Quiet
<1>27. CASE Prepare(t)
  <2> DEFINE w == load_conversation_memory(turn[t].sum, turn[t].upto)
             k == Len(messages) + 1
             n == turn[t].upto
             s == turn[t].sum
  <2>1. w \subseteq Complete /\ \A i \in w : s # {} => i > n
    BY DEF load_conversation_memory, Newest
  <2>2. turn'[t] = [turn[t] EXCEPT !.pc = "storing", !.seq = k, !.window = w]
    BY <1>1, <1>27, Held DEF Prepare
  <2> HIDE DEF w, k
  <2>3. /\ turn'[t].pc = "storing" /\ turn'[t].sum = s
        /\ turn'[t].upto = n /\ turn'[t].window = w
    BY <1>1, <2>2 DEF HeldType
  <2>4. Covers(s, n, Complete, visible, l)
    BY <1>1 DEF FoldInv
  <2>5. n \in Nat
    BY <1>1, <1>40 DEF HeldType
  <2> HIDE DEF n, s
  <2>6. s \cap w = {}
    <3>1. \A i \in s : i \in Nat /\ i <= n
      BY <1>40, <2>4 DEF Covers
    <3> QED
      BY <2>1, <2>5, <3>1
  <2>7. Covers(s, n, Complete', visible', l')
    <3> HIDE DEF l
    <3> QED
      BY <1>4, <2>4, CoversGrows
  <2>8. w \subseteq Complete'
    BY <1>4, <2>1
  <2>9. FoldInv(t)'
    BY <2>3, <2>6, <2>7, <2>8 DEF FoldInv
  <2> QED
    BY <1>3, <1>6, <1>27, <2>9 DEF Prepare
<1> QED
  BY <1>11, <1>12, <1>13, <1>14, <1>15, <1>16, <1>17, <1>18, <1>20, <1>21, <1>22, <1>23, <1>24,
     <1>25, <1>26, <1>27 DEF Step, Decides

-----------------------------------------------------------------------------
(* Models and egress *)

\* A turn keeps the model it chose when it started, from the catalog of its process.
LEMMA ChoiceStep ==
    ASSUME IInv, NEW t \in Turns, Start(t) \/ Step(t) \/ Raise(t) \/ SaveFails(t) \/ Disconnect(t)
    PROVE  ChosenModelIsOffered' /\ (~ Start(t) => t \in Open /\ overlapped' = overlapped)
<1> DEFINE D == DOMAIN messages
<1>1. TypeOK /\ turn[t] \in HeldType(D) /\ ChosenModelIsOffered
  BY TypeIs DEF IInv
<1>2. \A u \in Turns : u # t => turn'[u] = turn[u]
  BY ControlStep
<1> USE DEF At
<1>3. CASE Start(t)
  <2> DEFINE c == IF Wants[t] # None THEN Wants[t] ELSE StoredChoice(conv.model)
             h == [NoTurn EXCEPT !.pc = "loading", !.cls = conv.cls, !.sum = conv.sum,
                                 !.upto = conv.upto, !.choice = c]
  <2>1. h.choice = c
    BY DEF NoTurn
  <2>2. (Holds(t, h) /\ check_choice(Wants[t])) \/ Finish(t, "rejected")
    BY <1>3 DEF Start
  <2>3. check_choice(Wants[t]) => c \in offered \cup {None}
    BY DEF check_choice, StoredChoice
  <2> HIDE DEF h, c
  <2>4. turn'[t].pc = "ended" \/ turn'[t].choice \in offered \cup {None}
    BY <1>1, <2>1, <2>2, <2>3, Held, Over
  <2>5. offered' = offered
    BY <1>3 DEF Start
  <2> QED
    BY <1>1, <1>2, <1>3, <2>4, <2>5 DEF ChosenModelIsOffered, Open
<1>4. CASE ~ Start(t)
  <2>1. t \in Open /\ overlapped' = overlapped /\ offered' = offered
    BY <1>4 DEF Open, InTry, MayRaise, Saving, Step, Prepare, Prepared, Meta, Route, ChatDirect, StreamDirect,
           ChatNoRetrieval, StreamNoRetrieval, Retrieve, RememberRead, RememberWrite,
           ChatAbstains, StreamAbstains, Ask, StreamStarted, StreamCompleted, StreamFailed,
           ChatAnswered, ChatFailed, SaveAssistant, Saved, Tell, FoldRead, FoldRows, FoldWrite,
           Folds, FoldFails, Finally, Sealed, Raise, SaveFails, Disconnect, Replies
  <2>2. turn'[t].pc = "ended" \/ turn'[t].choice \in {turn[t].choice, None}
    <3>1. ASSUME NEW how, Finish(t, how) PROVE turn'[t].pc = "ended"
      BY <1>1, <3>1, Over
    <3>2. ASSUME NEW step, Moves(t, step) PROVE turn'[t].choice = turn[t].choice
      BY <1>1, <3>2, MovedOn
    <3>3. CASE Decides(t)
      <4>1. PICK status, cls, event, folds : Replies(t, status, cls, event, folds)
        BY <3>3, DecidesHow
      <4> QED
        BY <1>1, <4>1, DecidedHolds DEF Decided
    <3>11. AfterTheFold(t) => turn'[t].pc = "ended" \/ turn'[t].choice = None
      BY <1>1, <3>1, FoldOver
    <3>4. CASE \E level \in Levels : Retrieve(t, level)
      <4>1. PICK level \in Levels : turn'[t] = [turn[t] EXCEPT !.pc = "remembering", !.found = level]
        BY <1>1, <3>4, Held DEF Retrieve
      <4> QED
        BY <1>1, <4>1 DEF HeldType
    <3>5. CASE RememberRead(t)
      <4>1. turn'[t] = [turn[t] EXCEPT !.pc = "marking", !.seen = conv.cls] \/ Moves(t, "answering")
        BY <1>1, <3>5, Held DEF RememberRead
      <4> QED
        BY <1>1, <3>2, <4>1 DEF HeldType
    <3>6. CASE StreamStarted(t) \/ FoldRead(t)
      <4>1. \/ turn'[t] = [turn[t] EXCEPT !.started = TRUE]
            \/ turn'[t] = [turn[t] EXCEPT !.pc = "rows", !.sum = conv.sum, !.upto = conv.upto]
        BY <1>1, <3>6, Held DEF StreamStarted, FoldRead
      <4> QED
        BY <1>1, <4>1 DEF HeldType
    <3>7. CASE FoldRows(t)
      <4> DEFINE w == Unfolded(t) \ Newest(Unfolded(t), Trigger)
      <4>1. turn'[t] = [turn[t] EXCEPT !.pc = "summing", !.window = w] \/ AfterTheFold(t)
        BY <1>1, <3>7, Held DEF FoldRows
      <4> HIDE DEF w
      <4>2. turn'[t].choice = turn[t].choice \/ AfterTheFold(t)
        BY <1>1, <4>1 DEF HeldType
      <4> QED
        BY <3>11, <4>2
    <3>8. CASE Prepare(t) \/ SaveAssistant(t) \/ Finally(t)
      <4> DEFINE w == load_conversation_memory(turn[t].sum, turn[t].upto)
                 n == Len(messages) + 1
      <4>1. \/ turn'[t] = [turn[t] EXCEPT !.pc = "storing", !.seq = n, !.window = w]
            \/ turn'[t] = [turn[t] EXCEPT !.pc = "committing", !.seq = n]
            \/ turn'[t] = [turn[t] EXCEPT !.pc = "sealing", !.seq = n]
        BY <1>1, <3>8, Held DEF Prepare, SaveAssistant, Finally
      <4> HIDE DEF w, n
      <4> QED
        BY <1>1, <4>1 DEF HeldType
    <3>9. CASE Disconnect(t)
      <4>1. \/ Finish(t, "early") \/ Finish(t, "left")
            \/ turn'[t] = [turn[t] EXCEPT !.gone = TRUE]
            \/ turn'[t] = [turn[t] EXCEPT !.pc = "closing", !.gone = TRUE]
        BY <1>1, <3>9, Held DEF Disconnect
      <4> QED
        BY <1>1, <3>1, <4>1 DEF HeldType
    <3>10. CASE Prepared(t) \/ Meta(t) \/ Route(t) \/ RememberWrite(t) \/ Ask(t) \/ Saved(t)
                \/ Tell(t) \/ FoldWrite(t) \/ FoldFails(t) \/ Sealed(t) \/ Raise(t) \/ SaveFails(t)
      BY <3>1, <3>2, <3>10, <3>11
         DEF Prepared, Meta, Route, RememberWrite, Ask, Saved, AfterTheReply, Tell, FoldWrite, Folds,
             FoldFails, Sealed, Raise, Abandons, SaveFails
    <3> QED
      BY <1>4, <3>3, <3>4, <3>5, <3>6, <3>7, <3>8, <3>9, <3>10 DEF Step, Decides
  <2> QED
    BY <1>1, <1>2, <1>4, <2>1, <2>2 DEF ChosenModelIsOffered, Open
<1> QED
  BY <1>3, <1>4

\* The classifications are numbers.
LEMMA Ranks ==
    ASSUME TypeOK
    PROVE  /\ conv.cls \in Nat
           /\ \A i \in DOMAIN messages : messages[i].cls \in Nat
           /\ \A t \in Turns : /\ turn[t].cls \in Nat /\ turn[t].found \in Nat
                               /\ turn[t].seen \in Nat /\ turn[t].reply.cls \in Nat
<1>1. Levels \subseteq Nat
  BY NumbersAssumption
<1>2. conv.cls \in Levels
  BY TypeIs DEF RowType
<1>3. \A i \in DOMAIN messages : messages[i].cls \in Levels
  <2>1. messages \in Seq(MessageType)
    BY TypeIs
  <2>2. \A i \in DOMAIN messages : messages[i] \in MessageType
    BY <2>1
  <2> QED
    BY <2>2 DEF MessageType
<1>4. ASSUME NEW t \in Turns
      PROVE  /\ turn[t].cls \in Levels /\ turn[t].found \in Levels
             /\ turn[t].seen \in Levels /\ turn[t].reply.cls \in Levels
  BY TypeIs DEF HeldType, ReplyType
<1> QED
  BY <1>1, <1>2, <1>3, <1>4

\* While turns do not overlap, every step of a turn keeps the row as sensitive as what
\* later turns may carry.
LEMMA AloneStep ==
    ASSUME IInv, NEW t \in Turns, Start(t) \/ Step(t) \/ Raise(t) \/ SaveFails(t) \/ Disconnect(t)
    PROVE  AloneInv'
<1> SUFFICES ASSUME ~ overlapped'
             PROVE  /\ \A u, v \in Open' : u = v
                    /\ \A i \in Complete' : messages'[i].cls <= conv'.cls
                    /\ \A u \in Turns : EgressInv(u)'
  BY DEF AloneInv
<1> DEFINE D == DOMAIN messages
<1>1. /\ TypeOK /\ turn[t] \in HeldType(D) /\ conv \in RowType(D) /\ ControlInv(t)
      /\ overlapped \in BOOLEAN /\ FoldInv(t) /\ MarkInv /\ InsertInv(t)
  BY TypeIs DEF IInv
<1>2. \A u \in Turns : u # t => turn'[u] = turn[u]
  BY ControlStep
<1>3. ~ overlapped /\ ((Start(t) /\ Open = {}) \/ t \in Open)
  <2>1. CASE Start(t)
    BY <1>1, <2>1 DEF Start
  <2>2. CASE ~ Start(t)
    BY <1>1, <2>2, ChoiceStep
  <2> QED
    BY <2>1, <2>2
<1>4. /\ \A u, v \in Open : u = v
      /\ \A i \in Complete : messages[i].cls <= conv.cls
      /\ EgressInv(t)
  BY <1>3 DEF IInv, AloneInv
<1>5. \A u \in Turns : u # t => turn'[u].pc \in {"new", "ended"}
  BY <1>2, <1>3, <1>4 DEF Open
<1>6. \A u, v \in Open' : u = v
  BY <1>5 DEF Open
<1>7. \A u \in Turns : u # t => EgressInv(u)'
  BY <1>5 DEF EgressInv, Working
<1>8. /\ conv.cls \in Nat /\ turn[t].cls \in Nat /\ turn[t].found \in Nat
      /\ turn[t].seen \in Nat /\ turn[t].reply.cls \in Nat
      /\ \A i \in D : messages[i].cls \in Nat
  BY <1>1, Ranks
<1>9. /\ Complete \subseteq D /\ turn[t].window \subseteq Complete /\ turn[t].sum \subseteq Complete
      /\ History(t) \subseteq Complete /\ conv.sum \subseteq Complete
  BY <1>1, Positions DEF FoldInv, Covers, History, MarkInv
<1>10. \A i \in Complete : messages'[i] = messages[i]
  BY <1>9, OnlyGrows DEF Grown
<1>11. ASSUME Complete' = Complete, conv'.cls = conv.cls, EgressInv(t)'
       PROVE  /\ \A i \in Complete' : messages'[i].cls <= conv'.cls
              /\ \A u \in Turns : EgressInv(u)'
  BY <1>4, <1>7, <1>10, <1>11
<1>12. ASSUME Quiet(t), EgressInv(t)'
       PROVE  /\ \A i \in Complete' : messages'[i].cls <= conv'.cls
              /\ \A u \in Turns : EgressInv(u)'
  <2>1. conv' = conv /\ UNCHANGED <<messages, visible>>
    BY <1>1, <1>12, QuietType DEF log
  <2> QED
    BY <1>11, <1>12, <2>1 DEF Complete
<1> USE DEF At, Working
<1>13. ASSUME turn'[t].pc \notin Working \cup {"saving", "committing"} PROVE EgressInv(t)'
  BY <1>13 DEF EgressInv
<1>14. ASSUME NEW how, Finish(t, how) PROVE EgressInv(t)'
  BY <1>1, <1>13, <1>14, Over
<1>35. ASSUME AfterTheFold(t) PROVE EgressInv(t)'
  <2>1. turn'[t].pc \in {"ended", "telling"}
    BY <1>1, <1>35, FoldOver, Over
  <2> QED
    BY <1>13, <2>1
<1>15. ASSUME conv'.cls \in Nat, conv.cls <= conv'.cls,
              turn'[t].sum = turn[t].sum, turn'[t].window = turn[t].window,
              turn'[t].cls = turn[t].cls, turn[t].pc \in Working,
              turn'[t].pc \in Working \ {"loading"},
              turn'[t].pc = "marking" => turn'[t].seen = conv'.cls,
              turn'[t].pc \in {"answering", "asking"} => turn'[t].found <= conv'.cls
       PROVE  EgressInv(t)'
  <2>1. History(t)' = History(t)
    BY <1>15 DEF History
  <2>2. \A i \in History(t) : messages'[i].cls <= turn'[t].cls
    BY <1>4, <1>9, <1>10, <1>15 DEF EgressInv
  <2>3. turn'[t].cls <= conv'.cls
    BY <1>4, <1>8, <1>15 DEF EgressInv
  <2> QED
    BY <1>15, <2>1, <2>2, <2>3 DEF EgressInv
<1>16. CASE Start(t)
  <2> DEFINE c == IF Wants[t] # None THEN Wants[t] ELSE StoredChoice(conv.model)
             h == [NoTurn EXCEPT !.pc = "loading", !.cls = conv.cls, !.sum = conv.sum,
                                 !.upto = conv.upto, !.choice = c]
  <2>1. h.pc = "loading" /\ h.sum = conv.sum /\ h.cls = conv.cls /\ h.window = {}
    BY DEF NoTurn
  <2>2. Holds(t, h) \/ Finish(t, "rejected")
    BY <1>16 DEF Start
  <2>3. conv' = conv
    BY <1>16 DEF Start
  <2> HIDE DEF h
  <2>4. CASE Holds(t, h)
    <3>1. turn'[t] = h
      BY <1>1, <2>4, Held
    <3>2. History(t)' = conv.sum
      BY <2>1, <3>1 DEF History
    <3>3. \A i \in conv.sum : messages'[i].cls <= turn'[t].cls
      BY <1>4, <1>9, <1>10, <2>1, <2>3, <3>1
    <3>4. EgressInv(t)'
      BY <1>8, <2>1, <2>3, <3>1, <3>2, <3>3 DEF EgressInv
    <3> QED
      BY <1>6, <1>12, <1>16, <3>4 DEF Quiet
  <2> QED
    BY <1>6, <1>12, <1>14, <1>16, <2>2, <2>4 DEF Quiet
<1>36. ASSUME NEW m \in MessageType, Inserts(m), conv' = conv, EgressInv(t)'
       PROVE  /\ \A i \in Complete' : messages'[i].cls <= conv'.cls
              /\ \A u \in Turns : EgressInv(u)'
  BY <1>1, <1>11, <1>36, Inserted
<1>17. CASE Prepare(t)
  <2> DEFINE w == load_conversation_memory(turn[t].sum, turn[t].upto)
             n == Len(messages) + 1
             m == [turn |-> t, role |-> "user", status |-> "complete", cls |-> 0]
  <2>1. w \subseteq Complete
    BY DEF load_conversation_memory, Newest
  <2>2. turn'[t] = [turn[t] EXCEPT !.pc = "storing", !.seq = n, !.window = w]
    BY <1>1, <1>17, Held DEF Prepare
  <2> HIDE DEF w, n
  <2>3. /\ turn'[t].pc = "storing" /\ turn'[t].sum = turn[t].sum
        /\ turn'[t].cls = turn[t].cls /\ turn'[t].window = w
    BY <1>1, <2>2 DEF HeldType
  <2>5. m \in MessageType /\ Inserts(m) /\ conv' = conv
    BY <1>17, NumbersAssumption DEF Prepare, add_message, Inserts, MessageType, Statuses
  <2> HIDE DEF m
  <2>8. turn[t].cls = conv.cls
    BY <1>4, <1>17 DEF Prepare, EgressInv
  <2>9. \A i \in turn[t].sum \cup w : messages'[i].cls <= turn'[t].cls
    BY <1>4, <1>9, <1>10, <2>1, <2>3, <2>8
  <2>10. History(t)' = turn[t].sum \cup w
    BY <2>3 DEF History
  <2>11. EgressInv(t)'
    BY <1>8, <2>3, <2>5, <2>8, <2>9, <2>10 DEF EgressInv
  <2> QED
    BY <1>6, <1>36, <2>5, <2>11
<1>37. ASSUME Commit(t), turn[t].pc \in Inserting, conv'.cls = conv.cls, EgressInv(t)',
              messages[turn[t].seq].status = "complete" => messages[turn[t].seq].cls <= conv.cls
       PROVE  /\ \A i \in Complete' : messages'[i].cls <= conv'.cls
              /\ \A u \in Turns : EgressInv(u)'
  <2> DEFINE n == turn[t].seq
  <2>1. n \in D
    BY <1>1, <1>37 DEF InsertInv
  <2>2. /\ messages' = messages
        /\ Complete' = IF messages[n].status = "complete" THEN Complete \cup {n} ELSE Complete
    BY <1>1, <1>37, <2>1, Committed
  <2> HIDE DEF n
  <2>3. \A i \in Complete' : messages'[i].cls <= conv'.cls
    BY <1>4, <1>37, <2>2 DEF n
  <2> QED
    BY <1>7, <1>37, <2>3
<1>38. CASE Prepared(t)
  <2> DEFINE n == turn[t].seq
             pc == IF t \in Streams THEN "meta" ELSE "routing"
  <2>1. turn[t].pc = "storing" /\ Commit(t) /\ Moves(t, pc)
    BY <1>38 DEF Prepared
  <2>2. messages[n] = [turn |-> t, role |-> "user", status |-> "complete", cls |-> 0]
    BY <1>1, <2>1 DEF InsertInv
  <2>3. messages[n].cls <= conv.cls
    BY <1>8, <2>2
  <2>4. conv'.cls = conv.cls
    BY <1>1, <1>38 DEF Prepared, RowType
  <2>5. pc \in {"meta", "routing"}
    OBVIOUS
  <2> HIDE DEF pc, n
  <2>6. /\ turn'[t].pc = pc /\ turn'[t].sum = turn[t].sum /\ turn'[t].window = turn[t].window
        /\ turn'[t].cls = turn[t].cls
    BY <1>1, <2>1, MovedOn
  <2>7. EgressInv(t)'
    BY <1>8, <1>15, <2>1, <2>4, <2>5, <2>6
  <2> QED
    BY <1>6, <1>37, <2>1, <2>3, <2>4, <2>7 DEF Inserting, n
<1>18. CASE Meta(t) \/ Route(t) \/ Ask(t)
  <2>1. PICK step \in Working \ {"loading", "marking", "answering"} :
          Moves(t, step) /\ (step = "asking" => turn[t].pc = "answering")
    BY <1>18 DEF Meta, Route, Ask
  <2>2. conv' = conv /\ turn[t].pc \in Working
    BY <1>18 DEF Meta, Route, Ask
  <2>3. turn[t].pc = "answering" => turn[t].found <= conv.cls
    BY <1>4 DEF EgressInv
  <2>4. /\ turn'[t].pc = step /\ turn'[t].sum = turn[t].sum /\ turn'[t].window = turn[t].window
        /\ turn'[t].cls = turn[t].cls /\ turn'[t].found = turn[t].found
    BY <1>1, <2>1, MovedOn
  <2>5. EgressInv(t)'
    BY <1>8, <1>15, <2>1, <2>2, <2>3, <2>4
  <2> QED
    BY <1>6, <1>12, <1>18, <2>5 DEF Quiet
<1>19. CASE Decides(t)
  <2>1. PICK status \in Statuses, cls \in {0, turn[t].found}, event \in {"done", "error"},
             folds \in BOOLEAN :
             /\ Replies(t, status, cls, event, folds)
             /\ cls # 0 => turn[t].pc = "asking"
    BY <1>19, DecidesHow
  <2>6. Decided(t, status, cls, event)
    BY <1>1, <2>1, DecidedHolds
  <2>2. turn'[t].pc = "saving" /\ turn'[t].reply.cls = cls
    BY <2>6 DEF Decided
  <2>3. cls <= conv.cls
    BY <1>4, <1>8, <2>1 DEF EgressInv
  <2>4. conv' = conv
    BY <2>1 DEF Replies
  <2>5. EgressInv(t)'
    BY <2>2, <2>3, <2>4 DEF EgressInv
  <2> QED
    BY <1>6, <1>12, <1>19, <2>5 DEF Decides, Quiet
<1>20. CASE \E level \in Levels : Retrieve(t, level)
  <2>1. PICK level \in Levels : Retrieve(t, level)
    BY <1>20
  <2>2. turn'[t] = [turn[t] EXCEPT !.pc = "remembering", !.found = level]
    BY <1>1, <2>1, Held DEF Retrieve
  <2>3. /\ turn'[t].pc = "remembering" /\ turn'[t].sum = turn[t].sum
        /\ turn'[t].cls = turn[t].cls /\ turn'[t].window = turn[t].window
    BY <1>1, <2>2 DEF HeldType
  <2>4. conv' = conv /\ turn[t].pc \in Working
    BY <2>1 DEF Retrieve
  <2>5. EgressInv(t)'
    BY <1>8, <1>15, <2>3, <2>4
  <2> QED
    BY <1>6, <1>12, <1>20, <2>5 DEF Quiet
<1>21. CASE RememberRead(t)
  <2>1. conv' = conv /\ turn[t].pc = "remembering"
    BY <1>21 DEF RememberRead
  <2>2. CASE NothingNew(t)
    <3>1. /\ turn'[t].pc = "answering" /\ turn'[t].sum = turn[t].sum
          /\ turn'[t].window = turn[t].window
          /\ turn'[t].cls = turn[t].cls /\ turn'[t].found = turn[t].found
      BY <1>1, <1>21, <2>2, MovedOn DEF RememberRead
    <3>2. turn[t].found = 0 \/ MostSensitive(turn[t].cls, turn[t].found) = turn[t].cls
      BY <2>2 DEF NothingNew
    <3>3. MostSensitive(turn[t].cls, turn[t].found) >= turn[t].found
      BY <1>8, MaxOfTwo
    <3>4. turn[t].cls <= conv.cls
      BY <1>4, <2>1 DEF EgressInv
    <3>5. turn[t].found <= conv.cls
      BY <1>8, <3>2, <3>3, <3>4
    <3>6. EgressInv(t)'
      BY <1>8, <1>15, <2>1, <3>1, <3>5
    <3> QED
      BY <1>6, <1>12, <1>21, <3>6 DEF Quiet
  <2>3. CASE ~ NothingNew(t)
    <3>1. turn'[t] = [turn[t] EXCEPT !.pc = "marking", !.seen = conv.cls]
      BY <1>1, <1>21, <2>3, Held DEF RememberRead
    <3>2. /\ turn'[t].pc = "marking" /\ turn'[t].sum = turn[t].sum
          /\ turn'[t].window = turn[t].window
          /\ turn'[t].cls = turn[t].cls /\ turn'[t].seen = conv.cls
      BY <1>1, <3>1 DEF HeldType
    <3>3. EgressInv(t)'
      BY <1>8, <1>15, <2>1, <3>2
    <3> QED
      BY <1>6, <1>12, <1>21, <3>3 DEF Quiet
  <2> QED
    BY <2>2, <2>3
<1>22. CASE RememberWrite(t)
  <2>1. Complete' = Complete /\ turn[t].pc = "marking" /\ turn[t].seen = conv.cls
    BY <1>4, <1>22 DEF RememberWrite, EgressInv, log, Complete
  <2>2. conv'.cls = IF turn[t].found > turn[t].seen THEN turn[t].found ELSE conv.cls
    BY <1>1, <1>22 DEF RememberWrite, RowType
  <2>3. conv'.cls \in Nat /\ conv.cls <= conv'.cls /\ turn[t].found <= conv'.cls
    BY <1>8, <2>1, <2>2
  <2>4. /\ turn'[t].pc = "answering" /\ turn'[t].sum = turn[t].sum
        /\ turn'[t].window = turn[t].window
        /\ turn'[t].cls = turn[t].cls /\ turn'[t].found = turn[t].found
    BY <1>1, <1>22, MovedOn DEF RememberWrite
  <2>5. EgressInv(t)'
    BY <1>15, <2>1, <2>3, <2>4
  <2>6. \A i \in Complete' : messages'[i].cls <= conv'.cls
    BY <1>4, <1>8, <1>9, <1>10, <2>1, <2>3
  <2> QED
    BY <1>6, <1>7, <2>5, <2>6
<1>23. CASE StreamStarted(t)
  <2>1. turn'[t] = [turn[t] EXCEPT !.started = TRUE]
    BY <1>1, <1>23, Held DEF StreamStarted
  <2>2. /\ turn'[t].pc = "asking" /\ turn'[t].sum = turn[t].sum
        /\ turn'[t].window = turn[t].window
        /\ turn'[t].cls = turn[t].cls /\ turn'[t].found = turn[t].found
    BY <1>1, <1>23, <2>1 DEF HeldType, StreamStarted
  <2>3. conv' = conv /\ turn[t].pc = "asking"
    BY <1>23 DEF StreamStarted
  <2>4. turn[t].found <= conv.cls
    BY <1>4, <2>3 DEF EgressInv
  <2>5. EgressInv(t)'
    BY <1>8, <1>15, <2>2, <2>3, <2>4
  <2> QED
    BY <1>6, <1>12, <1>23, <2>5 DEF Quiet
<1>24. ASSUME NEW step, Moves(t, step), step \notin Working \cup {"saving", "committing"}
       PROVE  EgressInv(t)'
  BY <1>1, <1>13, <1>24, MovedOn
<1>25. CASE FoldRead(t) \/ FoldRows(t)
  <2> DEFINE w == Unfolded(t) \ Newest(Unfolded(t), Trigger)
  <2>1. \/ turn'[t] = [turn[t] EXCEPT !.pc = "rows", !.sum = conv.sum, !.upto = conv.upto]
        \/ turn'[t] = [turn[t] EXCEPT !.pc = "summing", !.window = w]
        \/ AfterTheFold(t)
    BY <1>1, <1>25, Held DEF FoldRead, FoldRows
  <2> HIDE DEF w
  <2>2. turn'[t].pc \in {"rows", "summing"} \/ AfterTheFold(t)
    BY <1>1, <2>1 DEF HeldType
  <2>3. EgressInv(t)'
    BY <1>13, <1>35, <2>2
  <2> QED
    BY <1>6, <1>12, <1>25, <2>3 DEF Quiet
<1>26. CASE FoldFails(t) \/ Raise(t) \/ SaveFails(t)
  <2>1. EgressInv(t)'
    BY <1>14, <1>24, <1>26, <1>35 DEF FoldFails, Raise, Abandons, SaveFails
  <2> QED
    BY <1>6, <1>12, <1>26, <2>1 DEF Quiet
<1>27. CASE Tell(t)
  <2>1. EgressInv(t)'
    BY <1>14, <1>24, <1>27 DEF Tell
  <2>2. Complete' = Complete /\ conv' = conv
    BY <1>27 DEF Tell, log, Complete
  <2> QED
    BY <1>6, <1>11, <2>1, <2>2
<1>28. CASE FoldWrite(t)
  <2>1. EgressInv(t)'
    BY <1>28, <1>35 DEF FoldWrite, Folds
  <2>2. conv'.cls = conv.cls
    BY <1>1, <1>28 DEF FoldWrite, Folds, RowType
  <2>3. Complete' = Complete
    BY <1>28 DEF FoldWrite, Folds, Complete
  <2> QED
    BY <1>6, <1>11, <2>1, <2>2, <2>3
<1>30. CASE SaveAssistant(t)
  <2> DEFINE m == [turn |-> t, role |-> "assistant", status |-> turn[t].reply.status,
                   cls |-> turn[t].reply.cls]
             n == Len(messages) + 1
  <2>1. turn'[t] = [turn[t] EXCEPT !.pc = "committing", !.seq = n]
    BY <1>1, <1>30, Held DEF SaveAssistant
  <2>2. m \in MessageType
    BY <1>1, <1>30 DEF SaveAssistant, ControlInv, Replying, MessageType, HeldType, ReplyType
  <2>3. Inserts(m) /\ conv' = conv /\ turn[t].pc = "saving"
    BY <1>30 DEF SaveAssistant, add_message, Inserts
  <2> HIDE DEF m, n
  <2>4. turn'[t].pc = "committing" /\ turn'[t].reply = turn[t].reply
    BY <1>1, <2>1 DEF HeldType
  <2>5. EgressInv(t)'
    BY <1>4, <2>3, <2>4 DEF EgressInv
  <2> QED
    BY <1>6, <1>36, <2>2, <2>3, <2>5
<1>39. CASE Saved(t)
  <2> DEFINE n == turn[t].seq
  <2>1. turn[t].pc = "committing" /\ Commit(t) /\ conv' = conv
    BY <1>39 DEF Saved
  <2>2. messages[n] = [turn |-> t, role |-> "assistant", status |-> turn[t].reply.status,
                       cls |-> turn[t].reply.cls]
    BY <1>1, <2>1 DEF InsertInv
  <2>3. messages[n].status = turn[t].reply.status /\ messages[n].cls = turn[t].reply.cls
    BY <2>2
  <2>4. messages[n].status = "complete" => messages[n].cls <= conv.cls
    BY <1>4, <2>1, <2>3 DEF EgressInv
  <2>5. EgressInv(t)'
    BY <1>14, <1>24, <1>39 DEF Saved, AfterTheReply
  <2> QED
    BY <1>6, <1>37, <2>1, <2>4, <2>5 DEF Inserting
<1>31. CASE Finally(t)
  <2> DEFINE m == [turn |-> t, role |-> "assistant", status |-> "partial", cls |-> turn[t].found]
             n == Len(messages) + 1
  <2>1. turn'[t] = [turn[t] EXCEPT !.pc = "sealing", !.seq = n]
    BY <1>1, <1>31, Held DEF Finally
  <2>2. m \in MessageType
    BY <1>1 DEF MessageType, HeldType, Statuses
  <2>3. Inserts(m) /\ conv' = conv
    BY <1>31 DEF Finally, add_message, Inserts
  <2> HIDE DEF m, n
  <2>4. turn'[t].pc = "sealing"
    BY <1>1, <2>1 DEF HeldType
  <2>5. EgressInv(t)'
    BY <1>13, <2>4
  <2> QED
    BY <1>6, <1>36, <2>2, <2>3, <2>5
<1>29. CASE Sealed(t)
  <2>1. turn[t].pc = "sealing" /\ Commit(t) /\ conv' = conv
    BY <1>29 DEF Sealed
  <2>2. messages[turn[t].seq].status = "partial"
    BY <1>1, <2>1 DEF InsertInv
  <2>3. EgressInv(t)'
    BY <1>14, <1>29 DEF Sealed
  <2> QED
    BY <1>6, <1>37, <2>1, <2>2, <2>3 DEF Inserting
<1>32. CASE Disconnect(t)
  <2>1. \/ Finish(t, "early") \/ Finish(t, "left")
        \/ turn'[t] = [turn[t] EXCEPT !.gone = TRUE] /\ turn[t].pc \in Saving
        \/ turn'[t] = [turn[t] EXCEPT !.pc = "closing", !.gone = TRUE]
    BY <1>1, <1>32, Held DEF Disconnect
  <2>2. \/ Finish(t, "early") \/ Finish(t, "left") \/ turn'[t].pc \in {"closing", "sealing"}
        \/ /\ turn'[t].pc \in {"saving", "committing"} /\ turn'[t].pc = turn[t].pc
           /\ turn'[t].reply = turn[t].reply
    BY <1>1, <2>1 DEF HeldType, Saving
  <2>3. conv' = conv
    BY <1>32 DEF Disconnect
  <2>4. EgressInv(t)'
    BY <1>4, <1>13, <1>14, <2>2, <2>3 DEF EgressInv
  <2> QED
    BY <1>6, <1>12, <1>32, <2>4 DEF Quiet
<1> QED
  BY <1>16, <1>17, <1>18, <1>19, <1>20, <1>21, <1>22, <1>23, <1>25, <1>26, <1>27, <1>28, <1>30,
     <1>29, <1>31, <1>32, <1>38, <1>39 DEF Step, Decides

-----------------------------------------------------------------------------
(* Theorems *)

\* A redeployment ends every turn and leaves the row and the messages alone.
LEMMA RedeployStep ==
    ASSUME IInv, Redeploy
    PROVE  /\ \A t \in Turns : ControlInv(t)' /\ InsertInv(t)' /\ AnswerInv(t)' /\ FoldInv(t)'
           /\ MarkInv' /\ ChosenModelIsOffered' /\ AloneInv'
<1>1. /\ TypeOK /\ messages' = messages /\ visible' = visible /\ cut' = cut /\ overtaken' = overtaken
      /\ told' = told /\ conv' = conv /\ overlapped' = overlapped /\ MarkInv /\ AloneInv
  BY DEF Redeploy, log, IInv
<1>2. Complete' = Complete /\ \A t : AnswersOf(t)' = AnswersOf(t)
  BY <1>1 DEF Complete, AnswersOf
<1>3. Covers({}, 0, Complete, visible, cut \cup overtaken)
  <2>1. \A i \in Complete : i \in Nat /\ i > 0
    BY <1>1, Positions
  <2> QED
    BY <2>1, CoversNothing
<1>4. ASSUME NEW t \in Turns
      PROVE  /\ turn'[t].pc \in {"new", "ended"}
             /\ ControlInv(t)' /\ InsertInv(t)' /\ AnswerInv(t)' /\ FoldInv(t)' /\ EgressInv(t)'
  <2>1. ControlInv(t) /\ InsertInv(t) /\ AnswerInv(t) /\ FoldInv(t)
    BY DEF IInv
  <2>2. CASE t \in Open
    <3>1. turn'[t] = [NoTurn EXCEPT !.pc = "ended", !.end = "killed"]
      BY <2>2 DEF Redeploy
    <3>2. /\ turn'[t].pc = "ended" /\ turn'[t].end = "killed" /\ turn'[t].finished = FALSE
          /\ turn'[t].sum = {} /\ turn'[t].upto = 0 /\ turn'[t].window = {}
      BY <3>1 DEF NoTurn
    <3>3. ControlInv(t)'
      BY <3>2 DEF ControlInv, Replying, Replied
    <3>4. AnswerInv(t)'
      BY <1>1, <1>2, <2>1, <3>2 DEF AnswerInv, Replied
    <3>5. FoldInv(t)'
      BY <1>1, <1>2, <1>3, <3>2 DEF FoldInv, Working
    <3>6. EgressInv(t)'
      BY <3>2 DEF EgressInv, Working
    <3>7. InsertInv(t)'
      BY <3>2 DEF InsertInv, Inserting
    <3> QED
      BY <3>2, <3>3, <3>4, <3>5, <3>6, <3>7
  <2>3. CASE t \notin Open
    <3>1. turn'[t] = turn[t] /\ turn[t].pc \in {"new", "ended"}
      BY <2>3 DEF Redeploy, Open
    <3>2. ControlInv(t)'
      BY <2>1, <3>1 DEF ControlInv
    <3>3. AnswerInv(t)'
      BY <1>1, <1>2, <2>1, <3>1 DEF AnswerInv
    <3>4. FoldInv(t)'
      BY <1>1, <1>2, <2>1, <3>1 DEF FoldInv
    <3>5. EgressInv(t)'
      BY <3>1 DEF EgressInv, Working
    <3>6. InsertInv(t)'
      BY <3>1 DEF InsertInv, Inserting
    <3> QED
      BY <3>1, <3>2, <3>3, <3>4, <3>5, <3>6
  <2> QED
    BY <2>2, <2>3
<1>5. ChosenModelIsOffered' /\ \A t, u \in Open' : t = u
  BY <1>4 DEF ChosenModelIsOffered, Open
<1>6. MarkInv'
  BY <1>1, <1>2 DEF MarkInv
<1>7. AloneInv'
  BY <1>1, <1>2, <1>4, <1>5 DEF AloneInv
<1> QED
  BY <1>4, <1>5, <1>6, <1>7

\* A step that changes neither the turns nor the messages, and of the row only the model.
LEMMA RowStep ==
    ASSUME IInv, turn' = turn, log' = log, told' = told, offered' = offered,
           overlapped' = overlapped, conv'.cls = conv.cls, conv'.sum = conv.sum,
           conv'.upto = conv.upto
    PROVE  /\ \A t \in Turns : ControlInv(t)' /\ InsertInv(t)' /\ AnswerInv(t)' /\ FoldInv(t)'
           /\ MarkInv' /\ ChosenModelIsOffered' /\ AloneInv'
<1>0. messages' = messages /\ visible' = visible /\ cut' = cut /\ overtaken' = overtaken
  BY DEF log
<1>1. Complete' = Complete /\ Open' = Open /\ \A t : AnswersOf(t)' = AnswersOf(t)
  BY <1>0 DEF Complete, Open, AnswersOf
<1>2. ASSUME NEW t \in Turns PROVE ControlInv(t)' /\ InsertInv(t)' /\ AnswerInv(t)' /\ FoldInv(t)'
  <2>1. ControlInv(t) /\ InsertInv(t) /\ AnswerInv(t) /\ FoldInv(t)
    BY DEF IInv
  <2>2. ControlInv(t)'
    BY <2>1 DEF ControlInv
  <2>3. AnswerInv(t)'
    BY <1>0, <1>1, <2>1 DEF AnswerInv
  <2>4. FoldInv(t)'
    BY <1>0, <1>1, <2>1 DEF FoldInv
  <2>5. InsertInv(t)'
    BY <1>0, <2>1 DEF InsertInv
  <2> QED
    BY <2>2, <2>3, <2>4, <2>5
<1>3. MarkInv' /\ ChosenModelIsOffered'
  BY <1>0, <1>1 DEF IInv, MarkInv, ChosenModelIsOffered
<1>4. \A t \in Turns : EgressInv(t) => EgressInv(t)'
  BY <1>0 DEF EgressInv, History
<1>5. AloneInv'
  BY <1>0, <1>1, <1>4 DEF IInv, AloneInv
<1> QED
  BY <1>2, <1>3, <1>5

\* The invariant holds at the start and is kept, for any number of turns, however they
\* overlap, break off and are redeployed.
THEOREM Invariance == Spec => []IInv
<1>1. Init => IInv
  <2> SUFFICES ASSUME Init PROVE IInv
    OBVIOUS
  <2>1. /\ messages = << >> /\ DOMAIN messages = {} /\ messages \in Seq(MessageType)
        /\ visible = {} /\ cut = {} /\ overtaken = {}
        /\ conv.sum = {} /\ conv.upto = 0 /\ conv \in RowType({})
        /\ told \in [Turns -> {""}] /\ offered = Models /\ overlapped = FALSE
    <3>1. messages = << >>
      BY DEF Init
    <3>4. DOMAIN messages = {} /\ messages \in Seq(MessageType)
      BY <3>1
    <3>2. conv.sum = {} /\ conv.upto = 0 /\ conv \in RowType({})
      BY NumbersAssumption DEF Init, RowType
    <3>3. /\ told \in [Turns -> {""}] /\ offered = Models /\ overlapped = FALSE
          /\ visible = {} /\ cut = {} /\ overtaken = {}
      BY DEF Init
    <3> QED
      BY <3>1, <3>2, <3>3, <3>4
  <2>2. turn = [t \in Turns |-> NoTurn] /\ NoTurn \in HeldType({})
    BY NumbersAssumption
       DEF Init, NoTurn, NoReply, HeldType, ReplyType, Steps, TurnEnds
  <2>3. Complete = {} /\ \A t : AnswersOf(t) = {}
    BY <2>1 DEF Complete, AnswersOf
  <2>4. \A t \in Turns : /\ turn[t].pc = "new" /\ turn[t].end = "" /\ turn[t].finished = FALSE
                         /\ turn[t].sum = {} /\ turn[t].upto = 0 /\ turn[t].window = {}
                         /\ told[t] = ""
    BY <2>1, <2>2 DEF NoTurn
  <2>5. TypeOK
    BY <2>1, <2>2, TypeIs
  <2>9. Covers({}, 0, {}, {}, {})
    BY CoversNothing
  <2>6. ASSUME NEW t \in Turns
        PROVE  ControlInv(t) /\ InsertInv(t) /\ AnswerInv(t) /\ FoldInv(t) /\ EgressInv(t)
    <3>1. ControlInv(t) /\ AnswerInv(t)
      BY <2>3, <2>4 DEF ControlInv, AnswerInv, Replying, Replied
    <3>2. InsertInv(t) /\ EgressInv(t)
      BY <2>4 DEF InsertInv, EgressInv, Inserting, Working
    <3>3. cut \cup overtaken = {}
      BY <2>1
    <3>4. FoldInv(t)
      BY <2>1, <2>3, <2>4, <2>9, <3>3 DEF FoldInv
    <3> QED
      BY <3>1, <3>2, <3>4
  <2>7. Open = {}
    BY <2>4 DEF Open
  <2>8. MarkInv /\ ChosenModelIsOffered /\ AloneInv
    <3>1. cut \cup overtaken = {}
      BY <2>1
    <3>2. MarkInv
      BY <2>1, <2>3, <2>9, <3>1 DEF MarkInv
    <3> QED
      BY <2>1, <2>3, <2>6, <2>7, <3>2 DEF ChosenModelIsOffered, AloneInv
  <2> QED
    BY <2>1, <2>5, <2>6, <2>8 DEF IInv
<1>2. IInv /\ [Next]_vars => IInv'
  <2> SUFFICES ASSUME IInv, [Next]_vars PROVE IInv'
    OBVIOUS
  <2>1. TypeOK' /\ (overlapped \in BOOLEAN)'
    BY TypeStep
  <2>2. ASSUME NEW t \in Turns,
               Start(t) \/ Step(t) \/ Raise(t) \/ SaveFails(t) \/ Disconnect(t)
        PROVE  IInv'
    <3>1. ControlInv(t)' /\ \A u \in Turns : u # t => turn'[u] = turn[u]
      BY <2>2, ControlStep
    <3>2. \A u \in Turns : ControlInv(u)'
      BY <3>1, ZenonT(40) DEF IInv, ControlInv
    <3>3. \A u \in Turns : AnswerInv(u)'
      BY <2>2, AnswerStep
    <3>6. \A u \in Turns : InsertInv(u)'
      BY <2>2, InsertStep
    <3>4. (\A u \in Turns : FoldInv(u)') /\ MarkInv'
      BY <2>2, FoldStep
    <3>5. ChosenModelIsOffered' /\ AloneInv'
      BY <2>2, ChoiceStep, AloneStep
    <3> QED
      BY <2>1, <3>2, <3>3, <3>4, <3>5, <3>6 DEF IInv
  <2>3. CASE Redeploy
    BY <2>1, <2>3, RedeployStep DEF IInv
  <2>4. ASSUME NEW u \in Users, NEW m \in Models, SwitchModel(u, m) PROVE IInv'
    <3>1. conv'.cls = conv.cls /\ conv'.sum = conv.sum /\ conv'.upto = conv.upto
      BY <2>4, TypeIs DEF SwitchModel, RowType, IInv
    <3> QED
      BY <2>1, <2>4, <3>1, RowStep DEF SwitchModel, IInv
  <2>5. CASE UNCHANGED vars
    BY <2>1, <2>5, RowStep DEF vars, IInv
  <2> QED
    BY <2>2, <2>3, <2>4, <2>5 DEF Next
<1> QED
  BY <1>1, <1>2, PTL DEF Spec

\* One reply per turn, and the one its client was told of: chat_stream's finished flag
\* and finally block do their job under every interleaving, disconnect and failure.
THEOREM TrueReplies == Spec => []RepliesAreTrue
<1>1. IInv => RepliesAreTrue
  <2> SUFFICES ASSUME IInv PROVE RepliesAreTrue
    OBVIOUS
  <2>1. TypeOK /\ \A t \in Turns : AnswerInv(t)
    BY DEF IInv
  <2>2. ASSUME NEW t \in Turns PROVE Cardinality(AnswersOf(t)) <= 1
    <3>1. \A i, j \in AnswersOf(t) : i = j
      BY <2>1 DEF AnswerInv
    <3>2. CASE AnswersOf(t) = {}
      BY <3>2, FS_EmptySet
    <3>3. CASE AnswersOf(t) # {}
      <4>1. PICK i : AnswersOf(t) = {i}
        BY <3>1, <3>3
      <4>2. Cardinality(AnswersOf(t)) = 1
        BY <4>1, FS_Singleton
      <4> QED
        BY <4>2
    <3> QED
      BY <3>2, <3>3
  <2>3. OneReply
    BY <2>1, <2>2 DEF OneReply, AnswerInv
  <2>4. ToldWhatIsStored
    BY <2>1 DEF ToldWhatIsStored, AnswerInv
  <2> QED
    BY <2>1, <2>3, <2>4 DEF RepliesAreTrue
<1> QED
  BY <1>1, Invariance, PTL

\* _maybe_summarize and update_summary: however folds overlap and messages are committed
\* late, the summary stands for complete messages up to its mark only, and leaves out none
\* but those a fold cut away and those committed after a message with a higher seq.
THEOREM SummaryFollows == Spec => []SummaryFollowsMark
<1>1. IInv => SummaryFollowsMark
  <2> SUFFICES ASSUME IInv PROVE SummaryFollowsMark
    OBVIOUS
  <2>1. Covers(conv.sum, conv.upto, Complete, visible, cut \cup overtaken)
    BY DEF IInv, MarkInv
  <2> QED
    BY <2>1 DEF Covers, SummaryFollowsMark
<1> QED
  BY <1>1, Invariance, PTL

\* load_conversation_memory: the summary and the window a model gets are disjoint,
\* whatever is folded while they are read.
THEOREM NothingSentTwice == Spec => []NoTurnSentTwice
<1>1. IInv => NoTurnSentTwice
  BY DEF IInv, FoldInv, NoTurnSentTwice, At, Working
<1> QED
  BY <1>1, Invariance, PTL

\* A turn runs on a model of the deployed catalog, and while turns do not overlap,
\* what it sends off the box contains no answer that may not leave it.
THEOREM AllowedCalls == Spec => []CallsAreAllowed
<1>1. IInv => CallsAreAllowed
  <2> SUFFICES ASSUME IInv PROVE CallsAreAllowed
    OBVIOUS
  <2>1. ASSUME ~ overlapped, NEW t \in Turns, LeavesTheBox(t), NEW i \in History(t)
        PROVE  AllowsEgress(messages[i].cls)
    <3>1. TypeOK /\ FoldInv(t) /\ EgressInv(t)
      BY <2>1 DEF IInv, AloneInv
    <3>2. i \in DOMAIN messages
      BY <2>1, <3>1, Positions DEF History, FoldInv, Covers
    <3>3. /\ messages[i].cls \in Nat /\ turn[t].cls \in Nat /\ turn[t].found \in Nat
          /\ EgressMax \in Nat
      BY <3>1, <3>2, Ranks, NumbersAssumption
    <3>4. messages[i].cls <= turn[t].cls
      BY <2>1, <3>1 DEF LeavesTheBox, At, EgressInv, Working
    <3>5. /\ MostSensitive(turn[t].cls, turn[t].found) <= EgressMax
          /\ MostSensitive(turn[t].cls, turn[t].found) >= turn[t].cls
          /\ MostSensitive(turn[t].cls, turn[t].found) \in {turn[t].cls, turn[t].found}
      BY <2>1, <3>3, MaxOfTwo DEF LeavesTheBox, EgressAllowed, AllowsEgress
    <3> QED
      BY <3>3, <3>4, <3>5 DEF AllowsEgress
  <2> QED
    BY <2>1 DEF IInv, CallsAreAllowed, RestrictionInherited
<1> QED
  BY <1>1, Invariance, PTL

=============================================================================
