---------------------------- MODULE Conversation ----------------------------
(***************************************************************************)
(* The turns of one conversation (api/chat.py, conversations.py,           *)
(* memory.py): prepare, route, retrieve, remember the classification, ask  *)
(* a model, store the reply, fold old messages into the summary.  Turns    *)
(* overlap; a transaction that reads and later writes is one step per      *)
(* statement, because READ COMMITTED lets another turn commit in between,  *)
(* and so is one that stores a message: the message has its seq when it is *)
(* inserted and is seen by others when it is committed.  A streaming       *)
(* client may leave at any await, any await may raise, a save may fail and *)
(* the process may be redeployed.                                          *)
(*                                                                         *)
(* A classification is its rank plus one and 0 is "none", so that          *)
(* most_sensitive is the maximum.  A message is known by its seq.          *)
(***************************************************************************)
EXTENDS Integers, Sequences, FiniteSets, FiniteSetsExt

CONSTANTS
    Turns, Streams,        \* requests, and those of them to /chat/stream
    Users, Asker,          \* [Turns -> Users]
    Models, Wants,         \* catalog models; [Turns -> Models \cup {None}]: body.model
    Levels,                \* classifications a retrieval may find, 0 for nothing
    EgressMax,             \* egress_max_classification
    MaxMessages, Budget,   \* history_max_messages, history_token_budget
    Trigger,               \* SUMMARY_TRIGGER_MESSAGES
    TranscriptMax,         \* what update_summary shows the model of a transcript
    SummaryMax,            \* the messages that what it keeps of a summary stands for
    MaxOpen,               \* bound on the turns open at one time
    None

ASSUME TurnsAssumption ==
    /\ Streams \subseteq Turns
    /\ Asker \in [Turns -> Users]
    /\ Wants \in [Turns -> Models \cup {None}]
    /\ None \notin Models \cup Users
ASSUME NumbersAssumption ==
    /\ Levels \subseteq Nat /\ 0 \in Levels
    /\ {EgressMax, MaxMessages, Budget, Trigger, TranscriptMax, SummaryMax, MaxOpen} \subseteq Nat

VARIABLES
    conv,        \* the conversations row: owner, cls, model, sum, upto
    messages,    \* the messages inserted, in seq order
    visible,     \* those of them that are committed
    turn,        \* what each request holds
    told,        \* the event or the answer that ended each request
    offered,     \* the models of the deployed catalog
    overlapped,  \* history: two turns were once open together
    overtaken,   \* history: messages committed after one with a higher seq
    cut          \* history: messages that a fold moved the mark past and left out

log == <<messages, visible, overtaken, cut>>
vars == <<conv, log, turn, told, offered, overlapped>>

Statuses == {"complete", "partial", "error"}
NoReply == [status |-> "", cls |-> 0, event |-> ""]
NoTurn == [pc |-> "new", cls |-> 0, sum |-> {}, upto |-> 0, window |-> {}, choice |-> None,
           seq |-> 0, found |-> 0, seen |-> 0, started |-> FALSE, reply |-> NoReply, folds |-> FALSE,
           finished |-> FALSE, gone |-> FALSE, end |-> ""]

Init ==
    /\ conv = [owner |-> None, cls |-> 0, model |-> None, sum |-> {}, upto |-> 0]
    /\ messages = << >>
    /\ visible = {} /\ overtaken = {} /\ cut = {}
    /\ turn = [t \in Turns |-> NoTurn]
    /\ told = [t \in Turns |-> ""]
    /\ offered = Models
    /\ overlapped = FALSE

MostSensitive(a, b) == Max({a, b})
AllowsEgress(cls) == cls <= EgressMax

Complete == {i \in visible : messages[i].status = "complete"}
Newest(S, n) == {i \in S : Cardinality({j \in S : j > i}) < n}
Open == {t \in Turns : turn[t].pc \notin {"new", "ended"}}

At(t, step) == turn[t].pc = step
Holds(t, held) == turn' = [turn EXCEPT ![t] = held]
Moves(t, step) == Holds(t, [turn[t] EXCEPT !.pc = step])
\* The request is over, and what it held is gone.
Finish(t, how) == Holds(t, [NoTurn EXCEPT !.pc = "ended", !.end = how])

\* A message is inserted and flushed: it has its seq.
add_message(t, role, status, cls) ==
    /\ messages' = Append(messages, [turn |-> t, role |-> role, status |-> status, cls |-> cls])
    /\ UNCHANGED <<visible, overtaken, cut>>

\* The transaction of the message that t inserted is committed.
Commit(t) ==
    LET i == turn[t].seq IN
    /\ visible' = visible \cup {i}
    /\ overtaken' = overtaken \cup {k \in {i} : \E j \in visible : j > k}
    /\ UNCHANGED <<messages, cut>>

-----------------------------------------------------------------------------
(* Preparing a turn *)

\* Mutant: the stored preference is used whatever the catalog offers now.
StoredBlindly(stored) == stored

StoredChoice(stored) == IF stored \in offered THEN stored ELSE None

check_choice(m) == m \in offered \cup {None}
get_owned(t) == conv.owner = Asker[t]

\* _start and the first statement of _prepare: the row is read.  Only the first
\* turn creates the conversation, and nobody else knows its id until then.
Start(t) ==
    /\ At(t, "new")
    /\ Cardinality(Open) < MaxOpen
    /\ conv.owner # None \/ Open = {}
    /\ IF check_choice(Wants[t]) /\ (conv.owner = None \/ get_owned(t))
       THEN Holds(t, [NoTurn EXCEPT !.pc = "loading", !.cls = conv.cls,
                        !.sum = conv.sum, !.upto = conv.upto,
                        !.choice = IF Wants[t] # None THEN Wants[t]
                                   ELSE StoredChoice(conv.model)])
       ELSE Finish(t, "rejected")
    /\ overlapped' = (overlapped \/ Open # {})
    /\ UNCHANGED <<conv, log, told, offered>>

\* estimate_tokens: an answer costs twice a question.
Cost(i) == IF messages[i].role = "user" THEN 1 ELSE 2

\* Mutant: the window starts at the beginning of the conversation.
WindowFromTheStart(sum, upto) ==
    LET rows == Newest(Complete, MaxMessages) IN
    {i \in rows : MapThenSumSet(Cost, {j \in rows : j >= i}) <= Budget}

\* load_conversation_memory: the newest complete messages after the summary, as
\* many as the two limits admit.
load_conversation_memory(sum, upto) ==
    LET rows == Newest({i \in Complete : sum # {} => i > upto}, MaxMessages) IN
    {i \in rows : MapThenSumSet(Cost, {j \in rows : j >= i}) <= Budget}

\* The row, once _prepare has updated it, is locked until its transaction ends.
RowLocked == \E u \in Turns : At(u, "storing")

\* The rest of _prepare: the row is updated, the history is loaded and the user
\* message is inserted ...
Prepare(t) ==
    /\ At(t, "loading") /\ ~RowLocked
    /\ Holds(t, [turn[t] EXCEPT !.pc = "storing", !.seq = Len(messages) + 1,
                   !.window = load_conversation_memory(turn[t].sum, turn[t].upto)])
    /\ add_message(t, "user", "complete", 0)
    /\ UNCHANGED <<conv, told, offered, overlapped>>

\* ... and all of it is committed.
Prepared(t) ==
    /\ At(t, "storing")
    /\ Commit(t)
    /\ conv' = [conv EXCEPT !.owner = Asker[t],
                            !.model = IF Wants[t] # None THEN Wants[t] ELSE @]
    /\ Moves(t, IF t \in Streams THEN "meta" ELSE "routing")
    /\ UNCHANGED <<told, offered, overlapped>>

\* The generator yields its first event, outside its try block.
Meta(t) ==
    /\ At(t, "meta")
    /\ Moves(t, "routing")
    /\ UNCHANGED <<conv, log, told, offered, overlapped>>

\* PATCH /conversations: the next turn uses the model.
SwitchModel(u, m) ==
    /\ check_choice(m) /\ m # None /\ ~RowLocked
    /\ conv.owner = u
    /\ conv' = [conv EXCEPT !.model = m]
    /\ UNCHANGED <<log, turn, told, offered, overlapped>>

-----------------------------------------------------------------------------
(* The agent decides the route; the knowledge path retrieves *)

\* The reply the handler is about to store, the event or response that follows,
\* and whether the handler folds afterwards.  Nothing else is read from here on.
Replies(t, status, cls, event, folds) ==
    /\ Holds(t, [NoTurn EXCEPT !.pc = "saving", !.finished = t \in Streams, !.folds = folds,
                   !.reply = [status |-> status, cls |-> cls, event |-> event]])
    /\ UNCHANGED <<conv, log, told, offered, overlapped>>

\* The route is knowledge, also when the graph is unavailable.
Route(t) ==
    /\ At(t, "routing")
    /\ Moves(t, "retrieving")
    /\ UNCHANGED <<conv, log, told, offered, overlapped>>

\* Small talk, a refusal or a tool result is the reply.
ChatDirect(t) == At(t, "routing") /\ t \notin Streams /\ Replies(t, "complete", 0, "done", FALSE)
StreamDirect(t) == At(t, "routing") /\ t \in Streams /\ Replies(t, "complete", 0, "done", FALSE)

ChatNoRetrieval(t) == At(t, "retrieving") /\ t \notin Streams /\ Replies(t, "error", 0, "error", FALSE)
StreamNoRetrieval(t) == At(t, "retrieving") /\ t \in Streams /\ Replies(t, "error", 0, "error", FALSE)

Retrieve(t, level) ==
    /\ At(t, "retrieving")
    /\ Holds(t, [turn[t] EXCEPT !.pc = "remembering", !.found = level])
    /\ UNCHANGED <<conv, log, told, offered, overlapped>>

NothingNew(t) == turn[t].found = 0 \/ MostSensitive(turn[t].cls, turn[t].found) = turn[t].cls

\* Mutant: a turn with nothing to record waits until it has something.
RememberWaits(t) ==
    /\ At(t, "remembering") /\ ~NothingNew(t)
    /\ Holds(t, [turn[t] EXCEPT !.pc = "marking", !.seen = conv.cls])
    /\ UNCHANGED <<conv, log, told, offered, overlapped>>

\* _remember_context: nothing to record, or read the row ...
RememberRead(t) ==
    /\ At(t, "remembering")
    /\ IF NothingNew(t)
       THEN Moves(t, "answering")
       ELSE Holds(t, [turn[t] EXCEPT !.pc = "marking", !.seen = conv.cls])
    /\ UNCHANGED <<conv, log, told, offered, overlapped>>

\* Mutant: nothing is recorded.
ForgetContext(t) ==
    /\ At(t, "marking")
    /\ Moves(t, "answering")
    /\ UNCHANGED <<conv, log, told, offered, overlapped>>

\* ... and write it, when the value read changes; no lock is held in between.
RememberWrite(t) ==
    /\ At(t, "marking")
    /\ turn[t].found > turn[t].seen => ~RowLocked
    /\ conv' = IF turn[t].found > turn[t].seen THEN [conv EXCEPT !.cls = turn[t].found] ELSE conv
    /\ Moves(t, "answering")
    /\ UNCHANGED <<log, told, offered, overlapped>>

-----------------------------------------------------------------------------
(* The answer *)

\* Nothing was retrieved: a fixed abstention, without a model call.
ChatAbstains(t) ==
    At(t, "answering") /\ turn[t].found = 0 /\ t \notin Streams /\ Replies(t, "complete", 0, "done", TRUE)
StreamAbstains(t) ==
    At(t, "answering") /\ turn[t].found = 0 /\ t \in Streams /\ Replies(t, "complete", 0, "done", FALSE)

EgressAllowed(t) == AllowsEgress(MostSensitive(turn[t].cls, turn[t].found))

\* The question, the passages and the history go to the gateway.
Ask(t) ==
    /\ At(t, "answering") /\ turn[t].found # 0
    /\ Moves(t, "asking")
    /\ UNCHANGED <<conv, log, told, offered, overlapped>>

\* The first event of the provider; more deltas change nothing.
StreamStarted(t) ==
    /\ At(t, "asking") /\ t \in Streams /\ ~turn[t].started
    /\ Holds(t, [turn[t] EXCEPT !.started = TRUE])
    /\ UNCHANGED <<conv, log, told, offered, overlapped>>

\* The answer quotes what was retrieved, or the model abstained.
StreamCompleted(t) ==
    /\ At(t, "asking") /\ t \in Streams /\ turn[t].started
    /\ \E cls \in {0, turn[t].found} : Replies(t, "complete", cls, "done", TRUE)

\* Mutant: a stream that broke off is stored as an answer.
FailedAsComplete(t) ==
    /\ At(t, "asking") /\ t \in Streams
    /\ Replies(t, IF turn[t].started THEN "complete" ELSE "error", turn[t].found, "error", FALSE)

\* Mutant: stored with a status the column does not have.
FailedAsFailed(t) ==
    /\ At(t, "asking") /\ t \in Streams
    /\ Replies(t, "failed", turn[t].found, "error", FALSE)

StreamFailed(t) ==
    /\ At(t, "asking") /\ t \in Streams
    /\ Replies(t, IF turn[t].started THEN "partial" ELSE "error", turn[t].found, "error", FALSE)

\* answer_from_knowledge returned an answer, or a GatewayError.
ChatAnswered(t) ==
    /\ At(t, "asking") /\ t \notin Streams
    /\ \E cls \in {0, turn[t].found} : Replies(t, "complete", cls, "done", TRUE)
ChatFailed(t) == At(t, "asking") /\ t \notin Streams /\ Replies(t, "error", 0, "error", FALSE)

-----------------------------------------------------------------------------
(* Storing it, telling the client, folding *)

AfterTheReply(t) ==
    IF turn[t].gone THEN Finish(t, "left")
    ELSE IF turn[t].folds /\ t \notin Streams THEN Moves(t, "folding")
    ELSE Moves(t, "telling")

\* Shielded from cancellation: a client that leaves meanwhile changes nothing.  The
\* reply is inserted ...
SaveAssistant(t) ==
    /\ At(t, "saving")
    /\ add_message(t, "assistant", turn[t].reply.status, turn[t].reply.cls)
    /\ Holds(t, [turn[t] EXCEPT !.pc = "committing", !.seq = Len(messages) + 1])
    /\ UNCHANGED <<conv, told, offered, overlapped>>

\* ... and committed.
Saved(t) ==
    /\ At(t, "committing")
    /\ Commit(t)
    /\ AfterTheReply(t)
    /\ UNCHANGED <<conv, told, offered, overlapped>>

\* The done or error event, or the response.
Tell(t) ==
    /\ At(t, "telling")
    /\ told' = [told EXCEPT ![t] = turn[t].reply.event]
    /\ IF turn[t].folds /\ t \in Streams THEN Moves(t, "folding") ELSE Finish(t, "answered")
    /\ UNCHANGED <<conv, log, offered, overlapped>>

AfterTheFold(t) ==
    IF t \in Streams THEN Finish(t, "answered")
    ELSE Holds(t, [NoTurn EXCEPT !.pc = "telling", !.reply = turn[t].reply])

\* _maybe_summarize reads the row ...
FoldRead(t) ==
    /\ At(t, "folding")
    /\ Holds(t, [turn[t] EXCEPT !.pc = "rows", !.sum = conv.sum, !.upto = conv.upto])
    /\ UNCHANGED <<conv, log, told, offered, overlapped>>

Unfolded(t) == {i \in Complete : i > turn[t].upto}

\* ... update_summary reads the messages and keeps the newest out of it ...
FoldRows(t) ==
    LET rows == Unfolded(t) IN
    /\ At(t, "rows")
    /\ IF Cardinality(rows) <= Trigger
       THEN AfterTheFold(t)
       ELSE Holds(t, [turn[t] EXCEPT !.pc = "summing", !.window = rows \ Newest(rows, Trigger)])
    /\ UNCHANGED <<conv, log, told, offered, overlapped>>

\* The transcript is cut: a message is in it that begins before the limit.
Transcript(S) ==
    {i \in S : MapThenSumSet(Cost, {j \in S : j < i}) < TranscriptMax}

\* The new summary goes under what the fold read of the old one, or the model
\* answered nothing, and only its end is kept; the mark moves to the end of what was
\* folded in any case.
Folds(t, upto) ==
    /\ \E text \in {Transcript(turn[t].window), {}} :
         LET sum == Newest(turn[t].sum \cup text, SummaryMax) IN
         /\ conv' = [conv EXCEPT !.sum = sum, !.upto = upto]
         /\ cut' = cut \cup ((turn[t].sum \cup turn[t].window) \ sum)
    /\ AfterTheFold(t)
    /\ UNCHANGED <<messages, visible, overtaken, told, offered, overlapped>>

\* Mutant: the mark moves past the messages that were kept out of the fold.
FoldMarksAll(t) ==
    At(t, "summing") /\ ~RowLocked /\ Folds(t, Max(Complete))

\* ... and writes the summary and its mark when the model has answered.
FoldWrite(t) ==
    At(t, "summing") /\ ~RowLocked /\ Folds(t, Max(turn[t].window))

\* The model was unavailable: the previous summary stays.
FoldFails(t) ==
    /\ At(t, "summing")
    /\ AfterTheFold(t)
    /\ UNCHANGED <<conv, log, told, offered, overlapped>>

-----------------------------------------------------------------------------
(* Failures *)

\* The finally block of the generator stores what was produced so far ...
Finally(t) ==
    /\ At(t, "closing")
    /\ add_message(t, "assistant", "partial", turn[t].found)
    /\ Holds(t, [turn[t] EXCEPT !.pc = "sealing", !.seq = Len(messages) + 1])
    /\ UNCHANGED <<conv, told, offered, overlapped>>

\* ... and commits it.
Sealed(t) ==
    /\ At(t, "sealing")
    /\ Commit(t)
    /\ Finish(t, IF turn[t].gone THEN "left" ELSE "raised")
    /\ UNCHANGED <<conv, told, offered, overlapped>>

\* The request has stored its question; a stream is inside its try block.
InTry(t) ==
    t \in Streams /\ turn[t].pc \notin {"new", "loading", "storing", "meta", "ended"}

MayRaise == {"loading", "storing", "routing", "retrieving", "marking", "asking", "telling",
             "folding", "rows", "summing"}
Abandons(t) ==
    Finish(t, IF turn[t].pc \in {"loading", "storing"} THEN "unprepared" ELSE "raised")

\* Mutant: the finally block always stores a partial answer.
RaiseAndStore(t) ==
    /\ turn[t].pc \in MayRaise
    /\ IF InTry(t) THEN Moves(t, "closing") ELSE Abandons(t)
    /\ UNCHANGED <<conv, log, told, offered, overlapped>>

\* An await raises what nobody expects: a statement, the graph, the model.
Raise(t) ==
    /\ turn[t].pc \in MayRaise
    /\ IF InTry(t) /\ ~turn[t].finished THEN Moves(t, "closing") ELSE Abandons(t)
    /\ UNCHANGED <<conv, log, told, offered, overlapped>>

Saving == {"saving", "committing", "closing", "sealing"}

\* The reply cannot be stored; finished is set, so nobody tries again.
SaveFails(t) ==
    /\ turn[t].pc \in Saving
    /\ Finish(t, "unsaved")
    /\ UNCHANGED <<conv, log, told, offered, overlapped>>

\* The client closes the stream: the generator is cancelled at its await.
Disconnect(t) ==
    /\ t \in Streams /\ t \in Open /\ turn[t].pc \notin {"loading", "storing"} /\ ~turn[t].gone
    /\ IF At(t, "meta") THEN Finish(t, "early")
       ELSE IF turn[t].pc \in Saving THEN Holds(t, [turn[t] EXCEPT !.gone = TRUE])
       ELSE IF turn[t].finished THEN Finish(t, "left")
       ELSE Holds(t, [turn[t] EXCEPT !.pc = "closing", !.gone = TRUE])
    /\ UNCHANGED <<conv, log, told, offered, overlapped>>

\* The process stops, and another one starts with the catalog of the new release.
Redeploy ==
    /\ turn' = [t \in Turns |-> IF t \in Open THEN [NoTurn EXCEPT !.pc = "ended", !.end = "killed"]
                                              ELSE turn[t]]
    /\ offered' \in SUBSET Models
    /\ UNCHANGED <<conv, log, told, overlapped>>

Step(t) ==
    \/ Prepare(t) \/ Prepared(t) \/ Meta(t) \/ Route(t) \/ ChatDirect(t) \/ StreamDirect(t)
    \/ ChatNoRetrieval(t) \/ StreamNoRetrieval(t) \/ \E level \in Levels : Retrieve(t, level)
    \/ RememberRead(t) \/ RememberWrite(t) \/ ChatAbstains(t) \/ StreamAbstains(t) \/ Ask(t)
    \/ StreamStarted(t) \/ StreamCompleted(t) \/ StreamFailed(t) \/ ChatAnswered(t) \/ ChatFailed(t)
    \/ SaveAssistant(t) \/ Saved(t) \/ Tell(t) \/ FoldRead(t) \/ FoldRows(t) \/ FoldWrite(t) \/ FoldFails(t)
    \/ Finally(t) \/ Sealed(t)

Next ==
    \/ \E t \in Turns : Start(t) \/ Step(t) \/ Raise(t) \/ SaveFails(t) \/ Disconnect(t)
    \/ \E u \in Users, m \in Models : SwitchModel(u, m)
    \/ Redeploy

\* Every await of a turn returns: statements and provider calls have timeouts.
\* Nobody has to start a turn, nothing has to fail, no client has to leave.
Fairness == \A t \in Turns : WF_vars(Step(t))

Spec == Init /\ [][Next]_vars /\ Fairness

-----------------------------------------------------------------------------
(* What a conversation may rely on *)

Steps == {"new", "loading", "storing", "meta", "routing", "retrieving", "remembering",
          "marking", "answering", "asking", "saving", "committing", "telling", "folding",
          "rows", "summing", "closing", "sealing", "ended"}
TurnEnds == {"", "answered", "rejected", "unprepared", "early", "left", "raised", "unsaved",
             "killed"}

\* The row, the messages and what the requests hold keep their types.
TypeOK ==
    /\ conv \in [owner : Users \cup {None}, cls : Levels, model : Models \cup {None},
                 sum : SUBSET (DOMAIN messages), upto : {0} \cup DOMAIN messages]
    /\ messages \in Seq([turn : Turns, role : {"user", "assistant"}, status : Statuses,
                         cls : Levels])
    /\ visible \subseteq DOMAIN messages /\ overtaken \subseteq DOMAIN messages
    /\ cut \subseteq DOMAIN messages
    /\ turn \in [Turns -> [pc : Steps, cls : Levels, sum : SUBSET (DOMAIN messages),
                   upto : {0} \cup DOMAIN messages, window : SUBSET (DOMAIN messages),
                   choice : Models \cup {None}, seq : {0} \cup DOMAIN messages, found : Levels, seen : Levels,
                   started : BOOLEAN, reply : [status : Statuses \cup {""}, cls : Levels,
                                              event : {"", "done", "error"}],
                   folds : BOOLEAN, finished : BOOLEAN, gone : BOOLEAN, end : TurnEnds]]
    /\ told \in [Turns -> {"", "done", "error"}]
    /\ offered \subseteq Models

AnswersOf(t) == {i \in visible : messages[i].turn = t /\ messages[i].role = "assistant"}

\* However a turn ends, at most one assistant message is stored for it, and one
\* is stored when it ran to its end, and when a stream that had begun was left
\* by its client or broken by an exception: the finished flag and the finally
\* block of chat_stream.
OneReply ==
    \A t \in Turns :
      /\ Cardinality(AnswersOf(t)) <= 1
      /\ turn[t].end \in {"answered", "left"} => AnswersOf(t) # {}
      /\ t \in Streams /\ turn[t].end = "raised" => AnswersOf(t) # {}

\* The client is told "done" exactly about an answer stored as complete, and
\* only a finished answer is: what a client saw break off, or was told had
\* failed, is not replayed to the models of later turns.
ToldWhatIsStored ==
    \A t \in Turns : \A i \in AnswersOf(t) :
      /\ told[t] = "done" => messages[i].status = "complete"
      /\ told[t] = "error" => messages[i].status # "complete"

\* "A rolling summary of everything older": the summary stands for complete messages
\* up to its mark only, so nothing partial, nothing uncommitted and nothing newer; and
\* it stands for all of them except those a fold left out (the transcript was cut at
\* its limit, the summary was cut to its end, the model answered nothing) and those
\* committed after a message with a higher seq, which a fold may have counted as read.
\* Whichever of two overlapping folds is written last, no other message is dropped
\* between the summary and the window.
SummaryFollowsMark ==
    /\ conv.sum \subseteq {i \in Complete : i <= conv.upto}
    /\ \A i \in Complete : i <= conv.upto => i \in conv.sum \cup cut \cup overtaken

\* "The window starts after the last summarised message, so no turn is sent
\* twice", also when a fold commits while the turn loads its history.
NoTurnSentTwice == \A t \in Turns : At(t, "asking") => turn[t].sum \cap turn[t].window = {}

History(t) == turn[t].sum \cup turn[t].window
LeavesTheBox(t) == At(t, "asking") /\ EgressAllowed(t)

\* A turn whose question may leave the box carries no answer of an earlier turn
\* that may not, as long as the turns of the conversation did not overlap.
RestrictionInherited ==
    overlapped \/ \A t \in Turns : LeavesTheBox(t) =>
                    \A i \in History(t) : AllowsEgress(messages[i].cls)

\* "The rule is one-way: a conversation that has used confidential context stays
\* on-box": the recorded classification is never lowered, whatever its turns do.
RestrictionIsOneWay == [][conv'.cls >= conv.cls]_conv

\* A turn never runs on a model the deployed catalog does not offer, although
\* the conversation may have stored it under an earlier catalog.
ChosenModelIsOffered == \A t \in Open : turn[t].choice \in offered \cup {None}

\* Every turn that was started ends, however its calls fail.
TurnsEnd == \A t \in Turns : ~At(t, "new") ~> At(t, "ended")

\* The reply of a turn: one is stored, and it is the one the client was told of.
RepliesAreTrue ==
    /\ TypeOK
    /\ OneReply
    /\ ToldWhatIsStored

\* A call of a turn: to a model on offer, and off the box only with a history that
\* may leave it.
CallsAreAllowed ==
    /\ ChosenModelIsOffered
    /\ RestrictionInherited
=============================================================================
