# A TLA+ development of OpsAssist

OpsAssist is an internal assistant: employees ask in plain language, it answers from the
documents they may read and carries out a few operational actions. The design rule is "the
model proposes, the backend decides": permissions, approvals, isolation and the audit trail
are code and database, never prompts. This directory holds TLA+ models of that code, the TLC
configurations that check them on small instances, and TLAPS proofs of the results that
matter most. Paths below are relative to `src/opsassist/` in the repository.

## 1. Inventory

| Part | State it keeps | Operations | Talks to | What is hard | What makes it correct |
|---|---|---|---|---|---|
| Tool executor `tools/executor.py`, `tools/registry.py` | `pending_actions`, `vpn_profiles`, `tickets` | `run_tool`, `approve_pending`, `reject_pending`, `resolve_employee` | audit log in the same transaction; users table | concurrent decisions, expiry, revocation while waiting, rollback half way | an action runs at most once, by two people, accountably |
| Audit log `policy/audit.py` | `audit_log`, an advisory lock | `append`, `verify_chain` | every tool and approval transaction | concurrent appends, lock order | the chain never forks; one row per decision |
| Authentication `auth.py` | `users` (read only) | `get_principal` | every request | principal read before the transaction that uses it | permissions come from the database |
| LLM gateway `gateway/gateway.py` | none of its own | `chat`, `embed`, `stream_chat` | breakers, providers, usage recorder | overlapping coroutines, cancellation anywhere, deadlines, mid-stream failure | routes and egress rules are followed, no spliced answers, every attempt booked |
| Circuit breaker `gateway/resilience.py` | failures, opening time, probe mark per model | `allow`, `record_success`, `record_failure` | shared by all calls | reports of calls admitted in an earlier state; probes that never report | consistent fields; opens, probes, recovers |
| Agent threads `agent/graph.py`, `agent/checkpointer.py`, `api/actions.py` | LangGraph checkpoints, one thread per conversation | classification of a message, tool node with `interrupt()`, approve, reject, resume | executor, conversations | node re-execution, two pauses in one thread, lost resumes, overrules that undo each other | one execution per question, truthful answers, nothing created unasked |
| Chat turn `api/chat.py`, `conversations.py` | `conversations`, `messages` | `/chat`, `/chat/stream`, model switch | agent, retrieval, gateway | overlapping turns, clients that leave, awaits that raise | one true assistant message per turn; the egress restriction is one-way |
| Memory `memory.py` | rolling summary and its mark, `user_memories` | `load_conversation_memory`, `update_summary`, put, delete | gateway | two turns folding the same messages | nothing sent twice or skipped |
| Answer service `agent/service.py`, `agent/intent.py` | none | review of near misses, first answer, escalation, abstention | retrieval, gateway, executor | what each model call may be shown; an escalation that fails or is worse | only permitted text, confidential text stays on the box, the better answer wins |
| Retrieval and access `knowledge/retrieval.py`, `policy/access.py` | none | `retrieve`, `can_read`, `scope_for` | two chunk tables, row-level security | four statements that see four moments; one rule written three times | nothing outside the reader's scope, distinct sections |
| Grounded answers `rag.py` | none | `normalize_markers`, `repoint_citations`, `finalize` | | edge cases of a text algorithm | citations are the markers shown; figures have a source |
| Ingestion and worker `knowledge/ingest.py`, `worker.py` | `documents`, two chunk tables, `ingestion_jobs` | `ingest_file`, `deactivate`, `ingest_document`, `enqueue_ingestion` | gateway, Dramatiq | check before embedding, redelivery, crashes, deletions without a lock | one active version and its chunks, switched at once; true job rows |
| Uploads `knowledge/upload.py`, `api/documents.py` | files, sidecars, document keys | upload | ingestion | keys computed without a lock, two writes | stored under the class and key it was admitted with |
| Parsing and chunking `knowledge/parsing.py`, `knowledge/chunking.py` | none | blocks, tables, units, chunks | ingestion | boundaries of sections, pages and sizes | no sentence lost, every row labelled, every chunk citable |
| Tickets `api/tickets.py` | `tickets` | create, read, list | executor | idempotency window, two identical requests at once | no duplicate inside the window |
| Rate limiter `ratelimit.py` | buckets in Redis | `check` | Redis | skewed clocks, expiry, outage | never more than burst plus rate × time |
| Catalog `gateway/catalog.py`, `gateway/factory.py` | the model table | validation, `resolve`, `without_provider`, `check_choice` | gateway | removal of a provider | routes stay valid, no mock in production |
| Providers `providers/` | none | chat, stream, embed per vendor | vendors' HTTP APIs | broken streams, unordered rows, alternating turns | endings, errors and vectors are what the vendor sent |
| Configuration, startup, seeding, sessions, middleware, metrics, UI | settings, pools | wiring and I/O | everything | | |

How they interact. A chat turn (`Conversation`) classifies the message (`Routing`), then
either runs the answer service (`Answering`, over `Retrieval` and `Grounding`) or the tool node
(`AgentThread`, over the ledger that `Approvals` implements). Every model call goes through the
gateway (`Gateway`, `CircuitBreaker`) to an adapter (`Adapters`) chosen from the catalog
(`Catalog`). Documents reach the index through `Ingestion`, cut by `Chunking` and `Tables`.
The rate limiter stands in front of the API (`TokenBucket`, composed with `Tickets`).

`PROJECT.json` lists every part with its status, and every hazard with the line where it
bites and the property that would catch it (or why none does).

## 2. Modules

| Module | Models | Role |
|---|---|---|
| `Approvals` | executor, audit log, principal loading | the core: requests as processes, transactions, locks |
| `ActionLedger` | what the approval protocol promises | abstract specification; `Approvals` implements it |
| `ApprovalsProofs`, `GatewayProofs`, `AgentThreadProofs`, `ConversationProofs`, `IngestionProofs`, `AnsweringProofs`, `TicketsProofs`, `AlgorithmsProofs` | | the TLAPS proofs about the modules they are named after |
| `CircuitBreaker` | `gateway/resilience.py` | operators on the breaker's three fields |
| `Gateway` | `gateway/gateway.py` over `CircuitBreaker` | overlapping gateway calls |
| `AgentThread` | tool node, approve and reject endpoints, resume | composed with `ActionLedger`, so with what `Approvals` was shown to implement |
| `Conversation` | `api/chat.py`, `conversations.py`, `memory.py` | overlapping turns of one conversation |
| `Ingestion` | `knowledge/upload.py`, `api/documents.py`, `worker.py`, `knowledge/ingest.py` | uploads, jobs, workers, deletion |
| `DocumentIndex` | what the index promises its readers | abstract specification; `Ingestion` implements it |
| `TokenBucket` | the Lua script of `ratelimit.py` | operators on a bucket |
| `Tickets` | rate limit middleware, `api/tickets.py`, the ticket handlers | composed with `TokenBucket` |
| `Retrieval` | `policy/access.py`, `knowledge/retrieval.py` | scope, queries, fusion, gate |
| `Grounding` | `rag.py` | markers, figures, citations |
| `Answering` | `agent/service.py`, search endpoint and tool | one question, over `Retrieval` and `Grounding`, while documents change |
| `Chunking`, `Tables` | `knowledge/parsing.py`, `knowledge/chunking.py` | pure functions |
| `Catalog` | `gateway/catalog.py`, `gateway/factory.py` | pure functions |
| `Routing`, `ToolArguments` | `classify` of `agent/graph.py`, `agent/intent.py`; arguments of a VPN profile | pure functions |
| `Adapters` | `providers/*.py` | pure functions |
| `Selection` | | the one comprehension over lists that several of them use |
| `Algorithms` | | hands inputs to the pure functions; what is said of them |
| `MC*` | | constants for TLC |

Operators whose comment begins with "Mutant" change the code the way a plausible mistake
would. No specification uses them: each takes the place of the definition it follows to show
that a property notices.

### Approvals

Every HTTP request is a process that goes `new` → `open` → `auditing` → `committing` → `done`.

* `Arrive` is `get_principal`: the user's row is read once, in a session of its own.
* The `Decide` actions are the operations, one per outcome of the code: `Propose`,
  `RunOtherTool`, `RefuseTool` for `run_tool`; `RefuseApproval`, `ExpireAction`, `DropAction`,
  `FailAction`, `ExecuteAction` for `approve_pending`; `RejectAction`, `RefuseReject` for
  `reject_pending`. Guards follow the order of the early returns (an expired action is closed
  before anyone looks at who asks). Writes are buffered in `tx`, as in an open READ COMMITTED
  transaction; `LockRow` is `SELECT ... FOR UPDATE`.
* `LockAudit` is the first half of `audit.append` (advisory lock, last hash); `Commit` makes the
  buffered rows and the audit row visible together; `Abort` is every other end: an exception, a
  cancelled request, a crash. `vpnSeq` keeps its value across `Abort`, as a sequence does.
* `Tick` and `Revoke` are the clock and an administrator; no code path writes the users table.

Abstractions: arguments are model values that `resolve_employee` finds or does not (what it
finds is `ToolArguments`); a sha256 is the tuple it was computed over, and the hash of an audit
row is the whole history, so that equal hashes mean equal histories; the tools that need no
approval are one call with three outcomes. The database's unique index on
`vpn_profiles.pending_action_id` is left out: the row lock alone is shown to prevent a second
execution. The `verify_chain` check is the property `AuditChainIntact`.

### CircuitBreaker and Gateway

A gateway call is a coroutine, and gives way only where the code awaits or yields:
`invoking` (the provider works), `streaming` (between two events), `recording` (the usage row),
`sleeping` (backoff), `completed` (`StreamCompleted` is with the consumer). What lies between
two such points is one action. `Advance` is the loop over targets: it lists the targets
`_admit` refuses as skipped and gives the first admitted one its attempt 1, after the
look at the deadline in `Begin`. `Fail` is a `ProviderError` with `_update_breaker`; `Retry`,
`FallBack` and `RecordedEnd` are what follows the usage row. `Cancel` is `CancelledError` or
`GeneratorExit` at a point where the code catches it. The usage row is written under a
shield, so a cancellation that arrives meanwhile takes effect at the next suspension point.
`sent` and `heard` are history variables. The `ProviderUnavailable` and
`ProviderRateLimited` errors are one value `transient`: the code treats them alike except for the
length of the backoff, which is any member of `Delays`. Token counts, costs and latencies are
left out.

### AgentThread

The ledger's steps stand for the transactions of `Approvals`. LangGraph is external and
modelled from how the code uses it: a thread checkpoints the node it has not finished; new
input starts the graph again; `Command(resume=...)` runs the unfinished node again from its
start. `Ask` is a chat turn the router sends to `create_vpn_profile`, `OtherTurn` any other,
`Approve`, `Reject` and `CloseUnexecuted` are the decisions of `api/actions.py`, `Resume`,
`ResumeNothing` and `Tell` are `_resume_conversation`, and `Lose` is the swallowed exception or a
request that dies on the way; the thread then stays paused until the next turn, as it does when
the action was closed without being executed. Turns of one conversation are taken one at a time here; what
overlapping turns do to a conversation is in `Conversation`.

### Conversation

A turn moves from await to await: `Start`, `Prepare` and `Prepared` (`_prepare`: the conversation
row is read, the window of messages after the mark is loaded and the user message is inserted, and
all is committed), `Meta` (first event), `Route`,
`Retrieve`, `RememberRead` and `RememberWrite` (`_remember_context`, which reads and writes in two
statements), `Ask` and what the model does, `SaveAssistant` and `Saved`, `Tell` (the last event or the
response), `FoldRead`, `FoldRows`, `FoldWrite` (`update_summary` around its model call), and the
`finally` block of the stream (`Finally`, `Sealed`). A message has its `seq` when it is inserted and
is seen by others when its transaction commits (`visible`), so of two overlapping turns the
lower seq may become visible last (`overtaken`). The row, once updated, is locked until the commit
(`RowLocked`). `Disconnect` is the client leaving a stream, `Raise`
an await that raises, `SaveFails` a failed commit of the reply, `Redeploy` a restart with
another catalog, `SwitchModel` the model endpoint. The recorded classification, the summary (as
the set of the messages it stands for) and its mark are the row; a classification is its rank
plus one, 0 being none. A fold gives the model the messages that begin within the first `TranscriptMax`
of the transcript (6000 characters in the code), puts what it answers, perhaps nothing, under the summary
it read, keeps the end of it, which stands for the newest `SummaryMax` messages (2000 characters), and moves
the mark to the last message it was to fold in any case; `cut` remembers the messages this left
out. `overlapped` remembers that two turns were open together.

### Ingestion and DocumentIndex

An upload passes `UploadDocument` (admission, class, claims, next key), `WriteFile`,
`WriteSidecar`, `CommitJob`, `Send`; the command line enters at `Discover`. A worker takes a
message (`Take`), reads the file and makes the unchanged check (`Check`), embeds, takes the
advisory lock and checks again (`Lock`), swaps the version in (`Swap`), writes the job row
(`Record`) and acknowledges (`Ack`). `Fail`, `NoMetadata` and `UpdateFails` are exceptions: the handler
commits the row of the failure (`RecordFailure`) and raises again (`Raise`), for Dramatiq's retry predicate
and the dead-letter queue; `Die` kills the worker at any point, between the two as well, and
the message is delivered again. `stale` remembers the jobs whose row an attempt that died, or that could
not write it, has left behind. `DeactivateRead` and `DeactivateWrite` are `deactivate`, which
locks nothing. A process that dies while it enqueues simply takes no further step.
`DocumentIndex` says what a search may see: one version or none, replaced in one step, each
publication recorded. The mapping shows the version whose chunks are active.

### Tickets and TokenBucket

A request meets the bucket of its identity (`Limit`, one atomic script; `FailOpen` when Redis
is away), then `Lookup` and `Insert` (the two statements of the ticket handler, separated by
the unique idempotency key) or nothing more (`Serve`). The list of tickets is a query that changes
nothing and is left out. Each API process has a clock of its own, at
most `MaxSkew` apart; Redis expires idle buckets (`Expire`). Tokens are integers: `Rate` units a
tick, `Cost` units a request.

### Answering, Retrieval, Grounding

One question goes through embedding, the candidate queries of its scope one statement at a
time, fusion and gate, the review of near misses by a judge, the first answer, escalation, choice
or abstention with an offer of a ticket. Between any two statements `Reindex` and `Deactivate`
change what is active. Similarities and text ranks are attributes of a chunk; a fused score is
an exact integer, because `Scale` is a multiple of every `RRF_K + rank`. `ORDER BY` leaves open which of two
equal rows comes first, and so does the model: a query returns one of the orders `Best` allows. The
candidates are a dictionary from chunk to score, and `seen` is the place in which it was
entered, by which Python's stable sort decides between equal scores. A reply is what `rag.py` looks for in it:
per sentence its figures and markers, and whether it words an abstention. Row-level
security is applied beside the filter of each query, as PostgreSQL does.

### The pure functions

`Algorithms` hands every input of bounded sets to one function at a time, and its invariants
compare the result with an independent definition: the headings over a line, the multiset
of sentences, the header nearest to a row, the figures a source states. Texts are
sequences of numbered lines, tables are positions of cells, patterns are attributes of a message,
a response body is a sequence of kinds of lines with an ending. Adjacent repetitions of one marker,
which `_repoint_sentence` collapses in the text, stay in the sequence of a sentence's markers: no
property tells them apart.

## 3. Runs

Each run asks one question. The bounds are in the `.cfg` files.

| Run | Question | Bounds and why they suffice |
|---|---|---|
| `ApprovalsRace` | Can overlapping requests on one action make it run twice, run for one person, run after it lapsed, leave status, profile and audit row in disagreement, or fork the chain? Do the transactions implement the ledger? | 3 requests (two decide, one proposes or competes), 1 action, 3 users (requester, approver-and-requester, approver), TTL 0 and one clock tick so that expiry falls before, between and after; the requester may lose the permission or the account at any time |
| `ApprovalsLive` | Can the row lock and the audit lock make requests wait for ever? | 3 requests, 3 actions, a handler that fails, no symmetry |
| `GatewayRace` | Do two overlapping calls corrupt a breaker, leave it refusing, or let a client hear two attempts? | 2 calls, 2 models, threshold 2, 2 attempts, cooldown 1, clock 3: the breaker opens, half-opens, is probed and closes again |
| `GatewayBooks` | Does a call obey its route, egress and attempt limit, book every attempt, report what happened, and end? | every error class, 3 models (one egressing, one disabled), two routes, a recorder that may fail |
| `ThreadSafe` | Is what a conversation is told true, unique and in place, and does no thread stay paused after its answer was handed to it? | 2 conversations, 3 questions (two in one conversation), 3 actions, 1 other turn |
| `ThreadOnce` | Does a question lead to one profile at most? **Violated** | 1 question, 2 actions |
| `Conversation` | One stored reply per turn, true to what the client was told; what is older than the mark is in the summary, or a fold cut it, or it was committed late; nothing is sent twice; models on offer; turns end | 2 turns, one of them a stream, a fold after every message beyond the first, a transcript of a question and an answer at most and a summary of two messages, so that both cuts happen, classes none, internal and confidential, a stored model that a redeployment withdraws |
| `ConversationEgress` | Is the recorded restriction one-way? **Violated** | 2 overlapping turns, no fold |
| `Ingestion` | Do readers see one version or the other; do job rows tell the truth; does every message settle? | 2 jobs that are uploads or discoveries, 2 keys, 1 retry, 2 faults or deaths, 1 deletion, an upload refused for each reason; two faults leave `failed` over a message that is delivered again, `dead` needs a third and is left to the proof |
| `Tickets` | Is the rate bounded in every interval; does a repeated ticket wait for the window of the first? | 3 identical requests, 3 users, burst of 1 request and a refill every 2 ticks, skew 1, window 2, clock 4: a bucket is emptied, refilled and forgotten, a window ends |
| `Answering` | Does a model see only what the reader may read and what may leave the box; is the better answer shown? | 9 chunks of 5 documents in 2 departments, one reclassified by its second version, every set of 5 permissions, 5 replies, 4 verdicts and an unreadable one |
| `Algorithms` | Do the pure functions agree with their definitions? | the input sets of `MCAlgorithms`: documents of up to six lines of every shape in two modes, replies of up to two sentences over two or three sources, pages of five lines, every message and router reply, catalogs and deployments, bodies of up to three lines with every ending, embedding rows in any order |

The properties named `...AreSound`, `...AreTrue`, `...AreHonest` and the like are conjunctions
of named parts, each with its own comment and its own mutants:

| Property | Parts |
|---|---|
| `BreakersAreSound` | types; the fields of a breaker agree; only a probe that reported nothing leaves it refusing |
| `ThreadsAreSound` | types; `PausesHaveCauses`: a thread waits only for an action that is open, that was closed without being executed, or whose decision is on its way or was lost |
| `RepliesAreTrue` | types; `OneReply`; `ToldWhatIsStored` |
| `CallsAreAllowed` | `ChosenModelIsOffered`; `RestrictionInherited` (for turns that do not overlap; overlapping ones are `ConversationEgress`) |
| `IndexIsSound` | types; `OneActiveVersion`; `NoRepeatedVersion` |
| `JobsAreTrue` | `JobsTellTheTruth`; `SuccessMeansIndexed` |
| `TicketsAreSound` | types; `RepeatsWaitForTheWindow` |
| `SourcesAreSound` | types; `NoModelForAClearMiss`; `SectionsAreDistinct`; `VersionsMixOnlyByReclassification` |
| `DocumentsKeepTheirShape` | `LinesKeepTheirHeadings`; `EverySentenceIsIndexed`; `ContextIsOneCitableSection`; `RowsKeepTheirLabels` |
| `CitationsAreHonest` | `CitationsMatchTheText`; `FiguresAreAttributed` |
| `SkillsAreGuarded` | `NothingCreatedUnasked`; `InstructionsAreNotReads`; `SubjectIsTheOneNamed` |
| `CatalogIsSound` | `ChoicesResolve`; `NoMockInProduction` |
| `AdaptersAreFaithful` | `OllamaEndsHonestly`; `VectorsMatchInputs`; `TurnsAlternate` |

Symmetry is used over requests, calls and actions, which are interchangeable, and never in a liveness
run. The thread runs ignore the audit trail in the state (`VIEW`): no guard or property
there reads it. Deadlock is checked for the approvals, the gateway and the threads, where
`Quiet` and `Idle` are the service with nothing to do; a conversation can always be given
another model, so `TurnsEnd` takes its place there; it is not checked where the requests of the
instance are simply used up (`Ingestion`, `Tickets`, `Answering`, `Algorithms`).

Fairness. `ApprovalsLive` assumes that an open request keeps executing its statements and that
PostgreSQL grants a lock that stays free (`WF` of `Decide`, `LockAudit` and `Commit` per request);
nothing is assumed of arrivals, aborts, the clock or administrators. `GatewayBooks` assumes
the clock runs and each await of a call returns: `asyncio.timeout` bounds the provider,
the idle timeout and the deadline bound the stream, the recorder answers or fails.
`Conversation` assumes that a turn goes on (`WF` of `Step` per turn): each of its awaits is a
transaction or a gateway call, which ends by `CallsEnd`; failures and disconnects are allowed and
never assumed. `Ingestion` assumes that workers run (`WF` of `Work` per job) and that faults are
finitely many, which the bound on them states.

Every property has mutants of the code under which TLC finds it violated: a missing `FOR
UPDATE`, a missing advisory lock, a dropped permission or self-approval check, a fallback or a retry after the
first token, an unrecorded cancellation, a resume without the `executed` guard, a reply saved as
complete after an error, a mark moved past the messages kept out of the fold, a swap that leaves the old
version active, a recheck left out under the lock, a refill without its cap, a scope without the
department permission, rows of an embedding taken as they came, and so on.

### What the violated runs show

* **`ThreadOnce`.** `tool_node` calls `run_tool` before `interrupt()`. Resuming runs the node from its
  start, so the approval of an action proposes it again; approved as well, it gives a second
  profile for a question asked once. The decision record D-26 says "execute exactly once".
* **`ConversationEgress`.** `_remember_context` reads the conversation row and writes the higher
  class without locking it. Of two overlapping turns the one that writes last wins, and the record
  can fall from confidential to internal. D-15 says the rule is one-way.

### Divergences the models contain without a run

The models do what the code does in these cases, and a property names the case as an exception
or does not speak of it:

* `reject_pending` returns its denials before `audit.append` (`tools/executor.py:570`), although the
  header says every outcome, denials included, is appended (`:15`).
* A client that leaves after `StreamCompleted` adds a `cancelled` usage row to an attempt
  booked as `success` (`gateway/gateway.py:375`; `db/models.py:134` promises one row per attempt), and
  `_admit` never records a skipped target (`:503`), although the same comment counts skips.
* A half-open probe that ends in a bad request, an unknown model, a cancellation or the deadline
  reports nothing; its mark stays and the model is refused until the process restarts
  (`gateway/resilience.py:75`).
* A decision resumes the conversation's thread, not the action's pause: with two proposals in
  one conversation the first decision answers the second pause (`api/actions.py:104`).
* A thread whose action was closed without being executed (expired, failed, the requester lost the
  permission), or whose resume was lost, stays paused until the next turn replaces the pause
  (`api/actions.py:128`, `:105`).
* "A rolling summary of everything older" (`memory.py:8`) leaves messages out for good: the transcript is
  cut at 6000 characters (`:206`) and the summary at its last 2000 (`:219`), also when the model answered
  nothing, while the mark moves to the last message folded (`:220`). A message has its `seq` when it is
  inserted and is seen when it is committed, so a fold of an overlapping turn can move the mark past one
  it could not read.
* A worker that dies between the row of a failure and the raise (`worker.py:100`, `:104`) leaves the row at
  `dead` or `failed` while the message is delivered again, until the next attempt writes the row.
* The judge of near misses may leave the box in a confidential conversation: it is sent the question and the
  passages and nothing of the earlier turns (`agent/service.py:149`), so `StaysOnTheBox` measures it by the
  passages alone.
* Two overlapping uploads get the same key and file; one of the documents is lost while
  both jobs succeed (`knowledge/upload.py:136`). Where the class is in a sidecar, the file of one
  may be indexed under the class of the other (`api/documents.py:103`).
* `deactivate` beside an ingestion can leave the new version active and its chunks cleared
  (`knowledge/ingest.py:227`).
* A job whose message was never sent stays queued (`worker.py:124`).
* After the idempotency window the lookup finds the oldest ticket again, so every further
  repeat creates another ticket (`tools/executor.py:161`, against D-29).
* The OpenAI-compatible adapter ends well when the body closes without `[DONE]` or carries an
  error line (`providers/openai_compat.py:112`).
* The mock provider is removed by its name only (`gateway/factory.py:89`); a table line whose text
  occurs twice on a page may get the wrong label (`knowledge/parsing.py:243`); an id in the name
  field is not moved when the id field holds the text "null" (`tools/registry.py:78`).

## 4. Proofs

Each proof module holds for every value of the constants: any number of users, requests, turns,
calls, jobs, any limits, any routes.

| Module | Theorem | States |
|---|---|---|
| `ApprovalsProofs` | `Invariance` | `Spec => []IndInv` |
| | `TypeCorrect`, `ExecuteOnce`, `Accountable`, `DutiesSeparated`, `ChainNeverForks`, `AuditedOnce` | the invariants of the module |
| | `Finality`, `NoLateExecution` | the two action properties |
| | `Refinement` | `Spec => Ledger!Spec`: each commit is one step of the ledger, everything else stutters |
| `GatewayProofs` | `Invariance` | `Spec => []IInv` |
| | `SoundBreakers`, `OneVoice`, `RouteIsFollowed`, `BooksBalance`, `HonestResults` | `BreakersAreSound`, `NoSplice`, `FollowsRoute`, `EveryAttemptAccounted`, `HonestResult` |
| `AgentThreadProofs` | `Invariance`, `SoundThreads`, `TruthIsTold` | `IInv`, `ThreadsAreSound`, `ToldTruthfully` |
| `ConversationProofs` | `Invariance` | `Spec => []IInv` |
| | `TrueReplies`, `SummaryFollows`, `NothingSentTwice`, `AllowedCalls` | `RepliesAreTrue`, `SummaryFollowsMark`, `NoTurnSentTwice`, `CallsAreAllowed` |
| `IngestionProofs` | `Invariance` | `Spec => []IInv` |
| | `SoundIndex`, `TrueJobs`, `OnlyDeletionHides`, `ClassesAreGranted` | `IndexIsSound`, `JobsAreTrue`, `MissingOnlyByDeletion`, `IndexedAsUploaded` |
| | `Refinement` | `Spec => Index!Spec`: `Swap` publishes, `DeactivateWrite` withdraws, everything else stutters |
| `AnsweringProofs` | `Invariance` | `Spec => []IInv` |
| | `RulesAgree` | the filter of a query, the row-level security of its table and `can_read` are the same rule |
| | `Permission`, `Egresses`, `Sources`, `Answers` | `OnlyPermittedText`, `StaysOnTheBox`, `SourcesAreSound`, `BestAnswerShown` |
| `TicketsProofs` | `Invariance`, `RepeatsWait`, `RateIsBounded` | `IInv`, `TicketsAreSound`, `RateBounded` |
| `AlgorithmsProofs` | `SkillsGuarded`, `CatalogSound`, `AdaptersFaithful`, `CitationsHonest`, `DocumentsShaped` | `SkillsAreGuarded`, `CatalogIsSound`, `AdaptersAreFaithful`, `CitationsAreHonest`, `DocumentsKeepTheirShape` |

The assumptions are those the modules state, by name, about their constants; TLC evaluates them on
every run. Most only say that a bound is a number and that `None` is none of the values. The others
restrict what is configured: `GrantsAssumption`, `EditsAssumption` and `WorkloadAssumption` type the
users table and the requests, `BreakerAssumption` and `GatewayAssumption` ask for a threshold and an
attempt limit of at least one and for routes without repetitions, `WantedAssumption` and
`OffersAssumption` type questions and uploads, `RetrievalAssumption` and `AnsweringAssumption` type
the chunks (finitely many, one per id), the margins, the classes and the verdicts, and `IdleAssumption` says that Redis forgets a
bucket no sooner than it would have been refilled under the worst clock skew. Those of `Algorithms` and
`ToolArguments` type the inputs of the pure functions: a search by name finds employees, finitely many
(`ArgumentsAssumption`, `EmployeesAssumption`, `AbsentIsNoId`), a sentence states finitely many figures
(`TextsAssumption`), a catalog file has passed its schema (`CatalogsAssumption`), a body is made of the known kinds
of lines, rows carry an index, and the messages of a prompt are told apart by their place (`BodiesAssumption`,
`EmbeddingsAssumption`, `PromptsAssumption`), the pages of a document are its lines in their order and no text of a
page is the mark for "no labels" (`DocumentsAssumption`, `PagesAssumption`). None bounds the length of anything.

`DecisionsAreFinal` (theorem `Finality`) is proved and not run: `ImplementsLedger` covers it on the
instance.

### Why each inductive invariant is what it is

None of the properties is inductive by itself. What is added:

**Approvals.** That a commit does not execute an action twice depends on what the transaction saw
when it decided. `IndInv` therefore adds

* `PeopleInv`: principals in flight never carry more than was granted;
* `RowInv`: a row is absent or was properly proposed, its hash fits its arguments;
* `LockInv`: whoever holds a lock has not ended its transaction;
* `TxInv`: an open transaction has one of four shapes: it touches no action (`Bystands`),
  inserts one no other transaction names (`Opens`), or closes (`Closes`) or executes (`Executes`) one
  whose row it has locked and whose status is still `pending`; and one that is about to
  commit an audit entry holds the advisory lock and knows the last hash.

Two transactions never buffer the same action (lemma `Disjoint`: both would hold its lock), so the
commit of one leaves the shape of the others intact; a commit finds the row as it was decided on.
Each `Decide` action is first reduced to one description of its effect (`DecideStep`), so that
the invariant is proved once for all ten; then each part has its own step lemma, and the
tables are treated in `ChainGrows`, `AuditGrows` and `AccountGrows`.

**Gateway.** The place of a call in its route says which attempt was sent last (`PlaceInv`), and
every attempt fits the one before it (`Fits`), which gives the route, the attempt limit and the egress rule.
For the books, all attempts but the present one are booked, and the present one unless it is still
under way; for the result, the list of attempts ends with its success or holds none. For the
breakers, `Holds` says to whom a probe's mark belongs: a call that is on its way to report, or one that
ended in one of the ways that report nothing. A failure of a call admitted
earlier may clear the mark of another call's probe: the invariant allows for it, as the code does.

**AgentThread.** A proposed action belongs to a question that was asked, and a thread waits only
for what `HasCause` names (`PauseInv`): executing or rejecting an open action puts its request on the way in
the same step, and only the resume, which ends the pause, or `Lose` takes it off again. A request that has decided carries what the ledger says of its action,
and nobody has been told of it yet; the ledger never changes a decision, so what is told later is
still true.

**Conversation.** The control state of a turn is tied to the answers stored for it (`ControlInv`,
`AnswerInv`): the `finished` flag is set exactly when the reply was handed to the commit, so the `finally`
block never adds a second one. A turn that has inserted a message and not yet committed it holds its
seq (`InsertInv`). A fold carries a summary that covers the messages up to the mark it read, but for
those cut or overtaken, and its window is all that follows, but for the overtaken (`FoldInv`); a message
that becomes visible below a visible one is overtaken from then on. It writes the summary together with the mark of
its window, so whichever fold writes last leaves a pair that fits (`MarkInv`). As long as no two turns
overlapped, the conversation's record is at least as sensitive as its complete messages and the
context of the turn under way (`AloneInv`).

**Ingestion.** A request keeps the file name it was given, and what is in the file came from an upload that was given the
same name (`UpInv`, `FileInv`); the row of a job follows its message (`QueueInv`, `HeldInv`), but while a worker stands between
its two writes and while the job is `stale`; what a
worker read under the advisory lock is still so when it swaps (`LockInv`), since a deletion
needs the row; and only the last version of a document may be active (`RowsInv`). In the refinement, the mapping
shows the version whose chunks are active.

**Tickets.** The level of a bucket, its tokens less the refill due at the time of its stamp, never rises, and
falls by `Cost` with each request let through; that bounds what was spent since any earlier
request, and an expired bucket was full anyway (`LevelInv`). For the tickets, the idempotency key makes
the first ticket of a text unique, and a suffixed one is created only by a request that saw the
first one outside its window (`TicketsInv`).

**Answering.** A candidate was found by a query whose filter it passes, and by `RulesAgree` the caller
may read it (`FusedInv`). Each candidate has a place of its own in the dictionary, so of the chunks of a
section exactly one comes first: choosing it is a bijection between the chosen chunks and the
sections (lemma `OneASection`), which gives the number of places (`PlacesInv`). What the search
has measured is never newer than what the index holds, and of one version in each table, because the
vector query of a table is executed once and that of the confidential table last (`VersionsInv`).
Words alone give a candidate no similarity; such a candidate may come from
a later moment than the vector query of its table. It can become a near miss only if
`gate_review_margin` reaches down to zero, which is why the clause on versions
supposes `ReviewMargin < Threshold`. Every call was lawful when it was made (`CallsInv`), and
what it is measured by does not change afterwards. The first answer is shown until there is a
second (`ShownInv`).

**The pure functions.** Every state of `Algorithms` is one input with its result, so there is nothing to
strengthen: the work is in the lemmas about the operators. A fold of the community modules is a `CHOOSE`
over functions on sets of indices. The library's induction theorems cannot be used, because they take an
operator as a parameter; instead the claim is the set `P` of the lengths it holds for, and
`AlongPrefixes` shows that it holds for all. For each fold one lemma (`SelectSteps`, `MarkSteps`,
`TurnSteps`, `OllamaSteps` ...) gives a function `g` over the prefixes with `g[0]` the base and
`g[n]` one step from `g[n - 1]`, by way of a function on the subsets of an interval whose existence is
`SubsetRecursion`; the rest is induction along `g`. The loop of `_repoint_sentence` is a recursive
function over sets of missing figures: it exists (`LoopExists`) because each round leaves fewer of them
(`SmallerRest`), and the sources it takes state all of them (`ReplacementsCover`), the best
source being one that states a figure (`BestStates`).

A document takes the same lemmas from its lines to its citations:

* *Tables.* What `_find_tables` returns lies on the page in order and without overlap (`TablesFound`), so a page without
  repeated text gives the dictionary one entry for each line of a table (`RowLabels`); the loop that
  writes the page then keeps, shows or leaves out each line in its turn (`LabelsKept`).
* *Blocks.* While lines are fed, the finished blocks and the one being collected hold the lines read so
  far, once and in order, and the builder's path is the headings open at the next line (`Shaped`,
  `Headed`): a heading closes exactly those of its level or below, also after a page break.
* *Units.* Cutting a paragraph at sentences gives pieces that cover it, each beginning with the line
  the one before it ends with, or being the paragraph itself.
* *Groups.* Packing lays the units one after the other into groups (`Tiles`), each of one section, each
  within the limit or of one unit; chunks tile their parents as parents tile the units.
* *Chunks.* Each chunk therefore has a place among the units, inside one parent (`Placement`). A line is in two units at
  most, neighbours, so in two chunks at most (`EverySentenceIsIndexed`), and the parent names the section and
  the paragraphs of exactly the units it holds (`ContextIsOneCitableSection`).

### Only model-checked

* The liveness properties `RequestsComplete`, `CallsEnd`, `TurnsEnd` and `MessagesSettle`: fairness and
  `ENABLED` are outside the prover's reach.
* What the two runs that expect a violation show: a counterexample is TLC's to find.

Every invariant and every action property a passing run checks is also a theorem.

## 5. Plan

1. A run of the gateway with more overlapping calls and a history of who probes, for the failure
   that clears another call's probe (`gateway/resilience.py:85`).

## 6. Not modelled

* The vendors' HTTP clients, PDF and DOCX extraction, token encoding:
  libraries, whose results are inputs of the models. The mock provider's canned answers.
* Redaction, prompts, wording and the patterns that recognise a message: text without state.
* User preferences (`memory.py`, an allowlisted key-value table; two first writes of one key
  race at `memory.py:74`, and the unique key makes one of them fail).
* The connection pool of `db/session.py`: SQLAlchemy's, with a timeout of its own.
* Logging, metrics, health checks, read-only endpoints, the user interface, seeding.
* The evaluation scripts: they score answers offline and change nothing in the system.
