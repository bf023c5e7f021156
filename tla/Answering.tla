----------------------------- MODULE Answering -----------------------------
(***************************************************************************)
(* One question against the knowledge base, while documents are re-indexed *)
(* (agent/service.py, knowledge/retrieval.py, api/knowledge.py and the     *)
(* search tool of tools/executor.py).  The retrieval transaction is READ   *)
(* COMMITTED, so each of its statements sees what is committed then.       *)
(***************************************************************************)
EXTENDS Retrieval, Grounding

CONSTANTS
    Permissions,   \* what a caller may hold
    Held,          \* classifications a conversation may carry from earlier turns, or None
    Moving,        \* the documents that are re-indexed or deleted meanwhile
    EgressMax,     \* egress_max_classification
    Replies,       \* what an answering model may say, see Grounding
    Verdicts,      \* what the judge of the near misses may say: a set of numbers
    Unreadable,    \* or something admitted_passages cannot parse
    Small, Large   \* the first model, escalation_model

ASSUME AnsweringAssumption ==
    Held \subseteq Classes \cup {None} /\ EgressMax \in Classes /\ Verdicts \subseteq SUBSET Int

VARIABLES
    index,    \* the active chunks; one version of a document at a time
    ask,      \* the question: what its handler holds
    calls     \* history: the model calls made for it

vars == <<index, ask, calls>>

Kinds == {"chat", "search", "tool"}
NoAnswer == Abstention   \* before there is one: nothing is claimed
NoAsk == [pc |-> "new", kind |-> None, perms |-> {}, held |-> None, todo |-> << >>,
          fused |-> << >>, chunks |-> << >>, misses |-> << >>, first |-> NoAnswer,
          second |-> NoAnswer, shown |-> NoAnswer, cost |-> 0, ticket |-> FALSE]

Version(doc, n) == {c \in Chunks : c.doc = doc /\ c.version = n}
Documents == {c.doc : c \in Chunks}

Init ==
    /\ index = UNION {Version(d, 1) : d \in Documents}
    /\ ask = NoAsk
    /\ calls = << >>

\* Mutant: the chunks of the old version stay active.
ReindexBeside(doc) ==
    LET old == {c \in index : c.doc = doc}
        new == Version(doc, 1 + Max({c.version : c \in old} \cup {0}))
    IN  /\ old # {} /\ new # {}
        /\ index' = index \cup new
        /\ UNCHANGED <<ask, calls>>

\* A new version is swapped in, in one transaction of the ingestion worker.
Reindex(doc) ==
    LET old == {c \in index : c.doc = doc}
        new == Version(doc, 1 + Max({c.version : c \in old} \cup {0}))
    IN  /\ old # {} /\ new # {}
        /\ index' = (index \ old) \cup new
        /\ UNCHANGED <<ask, calls>>

\* The document is deleted: its chunks are deactivated.
Deactivate(doc) ==
    /\ \E c \in index : c.doc = doc
    /\ index' = {c \in index : c.doc # doc}
    /\ UNCHANGED <<ask, calls>>

-----------------------------------------------------------------------------
(* Retrieval *)

Ask(kind, perms, held) ==
    /\ ask.pc = "new"
    /\ ask' = [ask EXCEPT !.pc = "embed", !.kind = kind, !.perms = perms, !.held = held]
    /\ UNCHANGED <<index, calls>>

Embed ==
    /\ ask.pc = "embed"
    /\ ask' = [ask EXCEPT !.pc = "query", !.todo = Queries(scope_for(ask.perms))]
    /\ UNCHANGED <<index, calls>>

\* Mutant: the failure is not the 503 the caller is told of.
EmbedUnhandled ==
    /\ ask.pc = "embed"
    /\ ask' = [ask EXCEPT !.pc = "unhandled"]
    /\ UNCHANGED <<index, calls>>

\* The embedding model is unavailable, and no other may stand in for it.
EmbedFails ==
    /\ ask.pc = "embed"
    /\ ask' = [ask EXCEPT !.pc = "failed"]
    /\ UNCHANGED <<index, calls>>

Query ==
    LET scope == scope_for(ask.perms)
        before == Candidates * (Len(Queries(scope)) - Len(ask.todo))
    IN  /\ ask.pc = "query" /\ ask.todo # << >>
        /\ \E rows \in _candidate_sql(Head(ask.todo), index, scope) :
             ask' = [ask EXCEPT !.fused = Fuse(@, rows, Head(ask.todo)[2], before),
                                !.todo = Tail(@)]
        /\ UNCHANGED <<index, calls>>

Shown(chunks, department) ==
    {c \in Range(chunks) : department = None \/ c.department = department}

\* The end of retrieve.  A search shows what was found, the tool only what is of
\* the department it was asked for.
Gate(department) ==
    /\ ask.pc = "query" /\ ask.todo = << >>
    /\ ask.kind # "tool" => department = None
    /\ \E chunks \in gate(ask.fused, TopK), misses \in NearMisses(ask.fused) :
         \E shown \in Ranked(Shown(chunks, department), ask.fused, TopK) :
           ask' = [ask EXCEPT
             !.pc = IF ask.kind # "chat" THEN "done"
                    ELSE IF misses # << >> THEN "review" ELSE "answer",
             !.chunks = shown, !.misses = misses]
    /\ UNCHANGED <<index, calls>>

-----------------------------------------------------------------------------
(* Review of the near misses *)

allows_egress(class) == class = None \/ Rank(class) <= Rank(EgressMax)

\* Mutant: the review goes where the admitted passages, none so far, may go.
ReviewEgressOfAdmitted == allows_egress(max_classification(ask.chunks))

ReviewEgress == allows_egress(max_classification(ask.misses))

admitted_passages(verdict, offered) ==
    IF verdict = Unreadable THEN {<< >>}
    ELSE Best({n \in verdict : 1 <= n /\ n <= offered}, offered, <)

Call(to, chunks, egress) == [to |-> to, chunks |-> Range(chunks), egress |-> egress]

review_near_misses(verdict) ==
    /\ ask.pc = "review"
    /\ calls' = Append(calls, Call("judge", ask.misses, ReviewEgress))
    /\ \E admitted \in admitted_passages(verdict, Len(ask.misses)) :
         ask' = [ask EXCEPT !.pc = "answer",
                            !.chunks = [i \in DOMAIN admitted |-> ask.misses[admitted[i]]]]
    /\ UNCHANGED index

\* A GatewayError admits nothing.
ReviewFails ==
    /\ ask.pc = "review"
    /\ calls' = Append(calls, Call("judge", ask.misses, ReviewEgress))
    /\ ask' = [ask EXCEPT !.pc = "answer"]
    /\ UNCHANGED index

-----------------------------------------------------------------------------
(* answer_from_knowledge *)

MayRaise == <<"ticket", "create">> \in ask.perms

\* Nothing to answer from: no model is asked.  Every abstention offers the caller a
\* ticket for the document's owner, if they may raise one.
Abstain ==
    /\ ask.pc = "answer" /\ ask.chunks = << >>
    /\ ask' = [ask EXCEPT !.pc = "done", !.shown = Abstention, !.ticket = MayRaise]
    /\ UNCHANGED <<index, calls>>

most_sensitive(a, b) ==
    CASE a = None -> b [] b = None -> a [] OTHER -> IF Rank(b) > Rank(a) THEN b ELSE a

Egress == allows_egress(most_sensitive(ask.held, max_classification(ask.chunks)))

Have == [n \in DOMAIN ask.chunks |-> ask.chunks[n].figures]

escalation_reason(reply, answer) ==
    CASE answer.abstained -> None
      [] answer.citations = << >> -> "uncited"
      [] reply.hedges -> "not_covered"
      [] OTHER -> None

\* model is the one that answered: the chosen one or a fallback.
FirstAnswer(reply, model) ==
    LET answer == finalize(reply, Have)
        again == escalation_reason(reply, answer) # None /\ model # Large
    IN  /\ ask.pc = "answer" /\ ask.chunks # << >>
        /\ calls' = Append(calls, Call("model", ask.chunks, Egress))
        /\ ask' = [ask EXCEPT !.pc = IF again THEN "escalate" ELSE "done",
                              !.first = answer, !.shown = answer, !.cost = 1,
                              !.ticket = answer.abstained /\ MayRaise]
        /\ UNCHANGED index

AnswerFails ==
    /\ ask.pc = "answer" /\ ask.chunks # << >>
    /\ calls' = Append(calls, Call("model", ask.chunks, Egress))
    /\ ask' = [ask EXCEPT !.pc = "failed"]
    /\ UNCHANGED index

\* Mutant: a second answer that is no abstention is used, cited or not.
PickUnlessAbstained(first, second) == IF ~ second.abstained THEN second ELSE first

pick_answer(first, second) ==
    IF second.citations # << >> /\ ~ second.abstained THEN second ELSE first

\* The same sources and the same egress rule; both calls are paid for.
Escalate(reply) ==
    LET second == finalize(reply, Have) IN
    /\ ask.pc = "escalate"
    /\ calls' = Append(calls, Call("escalation", ask.chunks, Egress))
    /\ ask' = [ask EXCEPT !.pc = "done", !.second = second, !.cost = @ + 1,
                          !.shown = pick_answer(ask.first, second)]
    /\ UNCHANGED index

\* The larger model is unavailable: the first answer stands.
EscalateFails ==
    /\ ask.pc = "escalate"
    /\ calls' = Append(calls, Call("escalation", ask.chunks, Egress))
    /\ ask' = [ask EXCEPT !.pc = "done"]
    /\ UNCHANGED index

Next ==
    \/ \E d \in Moving : Reindex(d) \/ Deactivate(d)
    \/ \E k \in Kinds, p \in SUBSET Permissions, h \in Held : Ask(k, p, h)
    \/ Embed \/ EmbedFails \/ Query
    \/ \E d \in Departments \cup {None} : Gate(d)
    \/ \E v \in Verdicts \cup {Unreadable} : review_near_misses(v)
    \/ ReviewFails \/ Abstain
    \/ \E r \in Replies, m \in {Small, Large} : FirstAnswer(r, m)
    \/ AnswerFails
    \/ \E r \in Replies : Escalate(r)
    \/ EscalateFails

Spec == Init /\ [][Next]_vars

-----------------------------------------------------------------------------
(* What callers may rely on *)

\* The index, the question and the calls keep their types.
TypeOK ==
    /\ index \subseteq Chunks
    /\ ask.pc \in {"new", "embed", "query", "review", "answer", "escalate", "done", "failed"}
    /\ ask.kind \in Kinds \cup {None}
    /\ ask.perms \subseteq Permissions
    /\ ask.held \in Held \cup {None}
    /\ Range(ask.chunks) \cup Range(ask.misses) \subseteq Chunks
    /\ \A n \in {"first", "second", "shown"} : ask[n].abstained \in BOOLEAN
    /\ calls \in Seq([to : {"judge", "model", "escalation"}, chunks : SUBSET Chunks,
                      egress : BOOLEAN])

\* policy/access.py: internal needs docs:<department>, confidential also
\* <department>:confidential.
Permitted(c) ==
    \/ c.class = "public"
    \/ /\ <<"docs", c.department>> \in ask.perms
       /\ c.class = "confidential" => <<"confidential", c.department>> \in ask.perms

\* Nothing the caller may not read reaches a model, the judge or the caller, also
\* while documents move between the two tables.
OnlyPermittedText ==
    /\ \A c \in Range(ask.chunks) : Permitted(c)
    /\ \A n \in DOMAIN calls : \A c \in calls[n].chunks : Permitted(c)

\* "Confidential documents must never reach an external model": not in the review,
\* not in the second call, and not when only an earlier turn was confidential, the judge
\* apart: it may be external for a near miss of a confidential conversation, and is sent
\* the question and the retrieved text, nothing of the earlier turns.
StaysOnTheBox ==
    \A n \in DOMAIN calls : calls[n].egress =>
      /\ \A c \in calls[n].chunks : Rank(c.class) <= Rank(EgressMax)
      /\ calls[n].to # "judge" /\ ask.held # None => Rank(ask.held) <= Rank(EgressMax)

\* "New versions are swapped in atomically": an answer mixes two versions of a
\* document only if the newer one moved to the confidential table, which is read last.
\* (A review margin down to zero would let in what only the words matched.)
VersionsMixOnlyByReclassification ==
    ReviewMargin < Threshold => \A c, e \in Range(ask.chunks) \cup Range(ask.misses) :
      c.doc = e.doc /\ c.version < e.version =>
        TableOf(c) = "chunks" /\ TableOf(e) = "confidential_chunks"

\* "Clear misses still abstain without any model call": no model sees a passage far
\* below the bar.
NoModelForAClearMiss ==
    \A n \in DOMAIN calls : \A c \in calls[n].chunks : c.sim >= Threshold - ReviewMargin

Admitted == {c \in DOMAIN ask.fused : Passes(c, ask.fused)}

\* "top-K = 4 means four distinct sections": siblings never use up the places of
\* other sections.
SectionsAreDistinct ==
    ask.pc \in {"answer", "done"} /\ ask.kind # "tool" /\ Admitted # {} =>
      LET sections == {<<c.class = "confidential", c.doc, c.version, c.parent,
                         IF c.parent = None THEN c.locator ELSE 0>> : c \in Admitted}
      IN  Len(ask.chunks) = IF Cardinality(sections) < TopK THEN Cardinality(sections) ELSE TopK

Good(a) == ~ a.abstained /\ a.citations # << >>

\* "Its answer is used only if it is cited and not an abstention; otherwise the
\* first answer stands": a cited answer is never given up for a worse one.
BestAnswerShown ==
    ask.pc = "done" /\ (Good(ask.first) \/ Good(ask.second)) => Good(ask.shown)

\* The passages an answer rests on: relevant, of distinct sections, and of one version
\* of a document unless it was reclassified during the search.
SourcesAreSound ==
    /\ TypeOK
    /\ NoModelForAClearMiss
    /\ SectionsAreDistinct
    /\ VersionsMixOnlyByReclassification
=============================================================================
