----------------------------- MODULE Ingestion -----------------------------
(***************************************************************************)
(* Documents on their way into the index: uploads (api/documents.py,       *)
(* knowledge/upload.py) and the operator's command line store a job and    *)
(* send a message, workers (worker.py) take messages, retry and give up,   *)
(* ingest_file (knowledge/ingest.py) swaps a new version into the index    *)
(* and deactivate removes a document.                                      *)
(*                                                                         *)
(* One department, so a document key is its number.  Dramatiq and Redis    *)
(* are external: a message is delivered again, with the same retry count,  *)
(* when the worker that holds it dies.  Each transaction is one step, or   *)
(* one step per statement where it reads and later writes.  A process that *)
(* dies while it enqueues a job just takes no further step.                *)
(***************************************************************************)
EXTENDS Integers, Sequences, FiniteSets, FiniteSetsExt

CONSTANTS
    Jobs,          \* jobs enqueued by uploads or the command line; the job of an
                   \* upload also stands for the body of the uploaded file
    Offers,        \* what an upload may say: see Offer
    MaxKey,        \* bound on the document keys in use
    MaxRetries,    \* MAX_RETRIES
    MaxFaults,     \* bound on the failures and deaths of workers
    MaxDeletions,  \* bound on calls of deactivate
    None

Keys == 1 .. MaxKey
Classes == {"public", "internal", "confidential"}
Offer == [writes : SUBSET STRING, perms : SUBSET STRING, asked : Classes \cup {None},
          suffix : STRING, size : {"ok", "large", "empty"}, secret : BOOLEAN,
          claims : [department : STRING \cup {None}, class : STRING \cup {None}]]

ASSUME OffersAssumption == Offers \subseteq Offer
ASSUME NumbersAssumption == {MaxKey, MaxRetries, MaxFaults, MaxDeletions} \subseteq Nat
ASSUME NamesAssumption ==
    None \notin Jobs /\ None \notin Classes /\ None \notin Offers /\ None \notin Jobs \X Classes

VARIABLES
    up,        \* the requests that enqueue a job: pc, offer, path
    files,     \* the shared volume: path -> body, class
    jobs,      \* ingestion_jobs: status, attempts, version
    message,   \* the broker: where the message of a job is, and its retries
    work,      \* the worker that runs a job: pc, and what it holds
    documents, \* key -> rows in version order
    deletion,  \* the call of deactivate under way: key, version read
    deletions, \* calls of deactivate so far
    faults,    \* failures and deaths so far
    stale      \* history: jobs whose worker died, or whose row could not be
               \* written, since the row was last written

vars == <<up, files, jobs, message, work, documents, deletion, deletions, faults, stale>>

Paths == Keys \X {"md", "txt", "pdf"}
NoFile == [body |-> None, class |-> None]
NoUp == [pc |-> "new", offer |-> None, path |-> None]
NoJob == [status |-> "none", attempts |-> 0, version |-> 0]
NoWork == [pc |-> "idle", doc |-> NoFile, active |-> 0, outcome |-> "", version |-> 0]
NoDeletion == [key |-> None, version |-> 0]

Init ==
    /\ up = [j \in Jobs |-> NoUp]
    /\ files = [p \in Paths |-> NoFile]
    /\ jobs = [j \in Jobs |-> NoJob]
    /\ message = [j \in Jobs |-> [at |-> "none", retries |-> 0]]
    /\ work = [j \in Jobs |-> NoWork]
    /\ documents = [k \in Keys |-> << >>]
    /\ deletion = NoDeletion
    /\ deletions = 0
    /\ faults = 0
    /\ stale = {}

-----------------------------------------------------------------------------
(* Jobs *)

\* Mutant: any uploader may choose any class.
ChosenFreely(o) == IF o.asked = None THEN "internal" ELSE o.asked

\* The class the document is stored with, or a refusal.
choose_classification(o) ==
    IF o.asked \in {None, "internal"} THEN "internal"
    ELSE IF o.asked = "confidential" /\ "it:confidential" \in o.perms THEN "confidential"
    ELSE IF o.asked = "public" /\ "kb:publish:public" \in o.perms THEN "public"
    ELSE None

safe_suffix(o) == o.suffix \in {"md", "txt", "pdf"}

\* A PDF is not decoded, so neither its text nor its claims are looked at.
check_claims(o) ==
    o.suffix # "pdf" =>
      /\ ~o.secret
      /\ o.claims.department \in {None} \cup o.writes
      /\ o.claims.class \in {None, choose_classification(o)}

Admitted(o) ==
    /\ Cardinality(o.writes) = 1
    /\ safe_suffix(o)
    /\ choose_classification(o) # None
    /\ o.size = "ok"
    /\ check_claims(o)

\* next_doc_key counts the documents that have been indexed.
next_doc_key == Max({0} \cup {k \in Keys : documents[k] # << >>}) + 1

\* upload_document up to the name of the file; a refusal is audited.
UploadDocument(u, o) ==
    /\ up[u].pc = "new"
    /\ IF Admitted(o)
       THEN /\ next_doc_key \in Keys
            /\ up' = [up EXCEPT ![u] = [pc |-> "named", offer |-> o,
                                        path |-> <<next_doc_key, o.suffix>>]]
       ELSE up' = [up EXCEPT ![u].pc = "denied"]
    /\ UNCHANGED <<files, jobs, message, work, documents, deletion, deletions, faults, stale>>

\* Markdown carries its metadata; any other file has it in a second file.
WriteFile(u) ==
    LET p == up[u].path
        c == choose_classification(up[u].offer)
    IN  /\ up[u].pc = "named"
        /\ files' = [files EXCEPT ![p] = [body |-> u, class |-> IF p[2] = "md" THEN c ELSE @.class]]
        /\ up' = [up EXCEPT ![u].pc = IF p[2] = "md" THEN "stored" ELSE "half"]
        /\ UNCHANGED <<jobs, message, work, documents, deletion, deletions, faults, stale>>

WriteSidecar(u) ==
    /\ up[u].pc = "half"
    /\ files' = [files EXCEPT ![up[u].path].class = choose_classification(up[u].offer)]
    /\ up' = [up EXCEPT ![u].pc = "stored"]
    /\ UNCHANGED <<jobs, message, work, documents, deletion, deletions, faults, stale>>

\* The command line enqueues a file that is there.
Discover(j, p) ==
    /\ up[j].pc = "new"
    /\ files[p] # NoFile
    /\ up' = [up EXCEPT ![j] = [pc |-> "stored", offer |-> None, path |-> p]]
    /\ UNCHANGED <<files, jobs, message, work, documents, deletion, deletions, faults, stale>>

\* enqueue_ingestion commits the job, and then sends the message.
CommitJob(j) ==
    /\ up[j].pc = "stored"
    /\ jobs' = [jobs EXCEPT ![j].status = "queued"]
    /\ up' = [up EXCEPT ![j].pc = "committed"]
    /\ UNCHANGED <<files, message, work, documents, deletion, deletions, faults, stale>>

\* The audit entry and the response follow, and change nothing here.
Send(j) ==
    /\ up[j].pc = "committed"
    /\ message' = [message EXCEPT ![j].at = "queue"]
    /\ up' = [up EXCEPT ![j].pc = "sent"]
    /\ UNCHANGED <<files, jobs, work, documents, deletion, deletions, faults, stale>>

-----------------------------------------------------------------------------
(* Workers *)

Key(j) == up[j].path[1]
At(j, step) == work[j].pc = step
Active(k) == {v \in DOMAIN documents[k] : documents[k][v].status = "active"}
\* Mutant: a document key that has an active version is up to date.
SameDocument(row, doc) == TRUE

\* The content hash covers the text and the metadata.
Same(row, doc) == row.body = doc.body /\ row.class = doc.class

\* The message is taken, the job row says so.
Take(j) ==
    /\ message[j].at = "queue"
    /\ message' = [message EXCEPT ![j].at = "held"]
    /\ jobs' = [jobs EXCEPT ![j].status = "running", ![j].attempts = message[j].retries + 1]
    /\ work' = [work EXCEPT ![j] = [NoWork EXCEPT !.pc = "begun"]]
    /\ stale' = stale \ {j}
    /\ UNCHANGED <<up, files, documents, deletion, deletions, faults>>

Returns(j, outcome, v) ==
    work' = [work EXCEPT ![j].pc = "returned", ![j].outcome = outcome, ![j].version = v]

\* ingest_file parses the file and compares it with the active version ...
Check(j) ==
    LET doc == files[up[j].path] IN
    /\ At(j, "begun")
    /\ doc.class # None
    /\ \/ \E v \in Active(Key(j)) :
            Same(documents[Key(j)][v], doc) /\ Returns(j, "unchanged", v)
       \/ /\ \A v \in Active(Key(j)) : ~Same(documents[Key(j)][v], doc)
          /\ work' = [work EXCEPT ![j].pc = "embedding", ![j].doc = doc]
    /\ UNCHANGED <<up, files, jobs, message, documents, deletion, deletions, faults, stale>>

\* Mutant: the advisory lock belongs to the session and outlives the transaction.
UnlockedByNobody(k) ==
    \A j \in Jobs : ~((At(j, "locked") \/ jobs[j].status = "succeeded") /\ Key(j) = k)

Unlocked(k) == \A j \in Jobs : ~(At(j, "locked") /\ Key(j) = k)

\* Mutant: the comparison made before embedding is trusted.
LockWithoutRecheck(j) ==
    /\ At(j, "embedding")
    /\ Unlocked(Key(j))
    /\ work' = [work EXCEPT ![j].pc = "locked", ![j].active = Max({0} \cup Active(Key(j)))]
    /\ UNCHANGED <<up, files, jobs, message, documents, deletion, deletions, faults, stale>>

\* ... embeds it outside of any transaction, takes the advisory lock, locks the active row and compares again ...
Lock(j) ==
    LET doc == work[j].doc IN
    /\ At(j, "embedding")
    /\ Unlocked(Key(j))
    /\ \/ \E v \in Active(Key(j)) :
            Same(documents[Key(j)][v], doc) /\ Returns(j, "unchanged", v)
       \/ /\ \A v \in Active(Key(j)) : ~Same(documents[Key(j)][v], doc)
          /\ work' = [work EXCEPT ![j].pc = "locked", ![j].active = Max({0} \cup Active(Key(j)))]
    /\ UNCHANGED <<up, files, jobs, message, documents, deletion, deletions, faults, stale>>

\* Mutant: the chunks of the old version stay in the index.
Superseded(rows, active) ==
    [v \in DOMAIN rows |-> [rows[v] EXCEPT !.status = IF v = active THEN "superseded" ELSE @]]

\* A version gets its new status; no chunk of the document stays active.
Retire(rows, version, status) ==
    [v \in DOMAIN rows |-> [rows[v] EXCEPT !.status = IF v = version THEN status ELSE @,
                                           !.live = FALSE]]

Supersede(rows, active) == Retire(rows, active, "superseded")

NewRow(j) == [body |-> work[j].doc.body, class |-> work[j].doc.class,
              status |-> "active", live |-> TRUE]

\* Mutant: the chunks of the document are cleared after the new ones are added.
SwapThenClear(j) ==
    LET k == Key(j) IN
    /\ At(j, "locked")
    /\ documents' = [documents EXCEPT ![k] = Append(Supersede(@, work[j].active),
                                                   [NewRow(j) EXCEPT !.live = FALSE])]
    /\ Returns(j, "succeeded", Len(documents[k]) + 1)
    /\ UNCHANGED <<up, files, jobs, message, deletion, deletions, faults, stale>>

\* ... and commits the new version, its chunks in the table of its class.
Swap(j) ==
    LET k == Key(j) IN
    /\ At(j, "locked")
    /\ documents' = [documents EXCEPT ![k] = Append(Supersede(@, work[j].active), NewRow(j))]
    /\ Returns(j, "succeeded", Len(documents[k]) + 1)
    /\ UNCHANGED <<up, files, jobs, message, deletion, deletions, faults, stale>>

\* The job row tells the outcome ...
Record(j) ==
    /\ At(j, "returned")
    /\ jobs' = [jobs EXCEPT ![j].status = work[j].outcome,
                            ![j].version = work[j].version]
    /\ work' = [work EXCEPT ![j].pc = "recorded"]
    /\ stale' = stale \ {j}
    /\ UNCHANGED <<up, files, message, documents, deletion, deletions, faults>>

\* ... and the message is acknowledged.
Ack(j) ==
    /\ At(j, "recorded")
    /\ message' = [message EXCEPT ![j].at = "acked"]
    /\ work' = [work EXCEPT ![j] = NoWork]
    /\ UNCHANGED <<up, files, jobs, documents, deletion, deletions, faults, stale>>

-----------------------------------------------------------------------------
(* Failures *)

\* Mutant: the number of retries is not looked at.
RetriesForever(j, permanent) == ~permanent

should_retry(j, permanent) == message[j].retries < MaxRetries /\ ~permanent

Fault == faults < MaxFaults /\ faults' = faults + 1

\* What the broker does with the message of an attempt that raised.
Raised(j, permanent) ==
    message' = [message EXCEPT ![j] =
                  IF should_retry(j, permanent) THEN [at |-> "queue", retries |-> @.retries + 1]
                                                ELSE [@ EXCEPT !.at = "dead"]]

\* Mutant: the row of a job that is tried again already says dead.
StatusUnlessRetried(j, permanent) == IF permanent THEN "failed" ELSE "dead"

FailureStatus(j, permanent) ==
    IF permanent THEN "failed"
    ELSE IF message[j].retries >= MaxRetries THEN "dead" ELSE "queued"

\* The handler of ingest_document commits the job row ...
RecordFailure(j, permanent) ==
    /\ jobs' = [jobs EXCEPT ![j].status = FailureStatus(j, permanent)]
    /\ work' = [work EXCEPT ![j] = [NoWork EXCEPT !.pc = "raising",
                                                  !.outcome = FailureStatus(j, permanent)]]
    /\ stale' = stale \ {j}
    /\ UNCHANGED <<up, files, message, documents, deletion, deletions>>

\* ... and raises again, for the broker to decide.
Raise(j) ==
    /\ At(j, "raising")
    /\ Raised(j, work[j].outcome = "failed")
    /\ work' = [work EXCEPT ![j] = NoWork]
    /\ UNCHANGED <<up, files, jobs, documents, deletion, deletions, faults, stale>>

\* ingest_file raised: a file that cannot be parsed or indexed (permanent), the
\* embedding provider, a statement.
Fail(j, permanent) ==
    /\ Fault
    /\ work[j].pc \in (IF permanent THEN {"begun"} ELSE {"begun", "embedding", "locked"})
    /\ RecordFailure(j, permanent)

\* The file has no metadata (yet).
NoMetadata(j) ==
    /\ At(j, "begun")
    /\ files[up[j].path].class = None
    /\ RecordFailure(j, TRUE)
    /\ UNCHANGED faults

\* The job row cannot be written: before the attempt, after it, or for a failure.
UpdateFails(j) ==
    /\ Fault
    /\ message[j].at = "queue" \/ work[j].pc \in {"begun", "embedding", "locked", "returned"}
    /\ Raised(j, FALSE)
    /\ work' = [work EXCEPT ![j] = NoWork]
    /\ stale' = stale \cup {j}
    /\ UNCHANGED <<up, files, jobs, documents, deletion, deletions>>

\* The worker dies: its transaction is rolled back, the message delivered again.
Die(j) ==
    /\ work[j].pc # "idle"
    /\ Fault
    /\ message' = [message EXCEPT ![j].at = "queue"]
    /\ work' = [work EXCEPT ![j] = NoWork]
    /\ stale' = stale \cup {j}
    /\ UNCHANGED <<up, files, jobs, documents, deletion, deletions>>

-----------------------------------------------------------------------------
(* Deletion *)

\* deactivate reads the active row, without a lock ...
DeactivateRead(k) ==
    /\ deletion = NoDeletion
    /\ deletions < MaxDeletions
    /\ \E v \in Active(k) : deletion' = [key |-> k, version |-> v]
    /\ deletions' = deletions + 1
    /\ UNCHANGED <<up, files, jobs, message, work, documents, faults, stale>>

\* ... marks it and clears the chunks of the document that are active by then;
\* the update waits for an ingestion that holds the row.
DeactivateWrite ==
    LET k == deletion.key
        v == deletion.version
    IN  /\ deletion # NoDeletion
        /\ \A j \in Jobs : ~(At(j, "locked") /\ Key(j) = k /\ work[j].active = v)
        /\ documents' = [documents EXCEPT ![k] = Retire(@, v, "deleted")]
        /\ deletion' = NoDeletion
        /\ UNCHANGED <<up, files, jobs, message, work, deletions, faults, stale>>

Work(j) == Take(j) \/ Check(j) \/ NoMetadata(j) \/ Lock(j) \/ Swap(j) \/ Record(j) \/ Ack(j)
           \/ Raise(j)

Next ==
    \/ \E j \in Jobs :
         \/ \E o \in Offers : UploadDocument(j, o)
         \/ \E p \in Paths : Discover(j, p)
         \/ WriteFile(j) \/ WriteSidecar(j)
         \/ CommitJob(j) \/ Send(j)
         \/ Work(j) \/ UpdateFails(j) \/ Die(j)
         \/ \E permanent \in BOOLEAN : Fail(j, permanent)
    \/ \E k \in Keys : DeactivateRead(k)
    \/ DeactivateWrite

\* A worker that holds a message goes on with it; embeddings and statements have
\* timeouts.  Nothing has to fail, and nobody has to upload or to delete.
Spec == Init /\ [][Next]_vars /\ \A j \in Jobs : WF_vars(Work(j))

-----------------------------------------------------------------------------
(* What the index may rely on *)

RowType == [body : Jobs, class : Classes, status : {"active", "superseded", "deleted"},
            live : BOOLEAN]
Ends == {"succeeded", "unchanged"}

\* Requests, files, jobs, messages, workers and documents keep their types.
TypeOK ==
    /\ up \in [Jobs -> [pc : {"new", "denied", "named", "half", "stored", "committed", "sent"},
                        offer : Offers \cup {None}, path : Paths \cup {None}]]
    /\ files \in [Paths -> [body : Jobs \cup {None}, class : Classes \cup {None}]]
    /\ jobs \in [Jobs -> [status : {"none", "queued", "running", "failed", "dead"} \cup Ends,
                          attempts : 0 .. MaxRetries + 1, version : Nat]]
    /\ message \in [Jobs -> [at : {"none", "queue", "held", "acked", "dead"},
                             retries : 0 .. MaxRetries]]
    /\ work \in [Jobs -> [pc : {"idle", "begun", "embedding", "locked", "returned",
                                "recorded", "raising"},
                          doc : [body : Jobs \cup {None}, class : Classes \cup {None}],
                          active : Nat, outcome : Ends \cup {"", "queued", "failed", "dead"},
                          version : Nat]]
    /\ documents \in [Keys -> Seq(RowType)]
    /\ deletion \in [key : Keys \cup {None}, version : Nat]
    /\ deletions \in 0 .. MaxDeletions /\ faults \in 0 .. MaxFaults
    /\ stale \subseteq Jobs

\* "A document key has at most one active version, and only that version's
\* chunks are active", whatever ingestions and deletions of it overlap.
OneActiveVersion ==
    \A k \in Keys :
      /\ Cardinality(Active(k)) <= 1
      /\ \A v \in DOMAIN documents[k] : documents[k][v].live => v \in Active(k)

\* "Unchanged content is a no-op, so re-running ingestion is idempotent": no
\* version repeats the one it superseded, although messages are delivered twice
\* and two workers may both have found the document changed before embedding it.
NoRepeatedVersion ==
    \A k \in Keys : \A v \in DOMAIN documents[k] :
      v > 1 /\ documents[k][v - 1].status = "superseded" =>
        ~Same(documents[k][v - 1], documents[k][v])

\* The class is the one the upload asked for, and its uploader was entitled to it.
Entitled(o, class) ==
    /\ class = (IF o.asked = None THEN "internal" ELSE o.asked)
    /\ class = "confidential" => "it:confidential" \in o.perms
    /\ class = "public" => "kb:publish:public" \in o.perms

\* A version is stored under the key its upload was given and under the class that
\* upload asked for and was entitled to.  A file whose class is in a second file may
\* get the class of another upload, but only of one that was given the same name.
IndexedAsUploaded ==
    \A k \in Keys : \A v \in DOMAIN documents[k] :
      LET row == documents[k][v]
          path == up[row.body].path
      IN  /\ path[1] = k
          /\ \E w \in Jobs :
               /\ up[w].offer # None /\ up[w].path = path
               /\ w = row.body \/ path[2] # "md"
               /\ Entitled(up[w].offer, row.class)

\* The active version is missing from searches only when a deletion cleared it
\* after marking the older version it had read.
MissingOnlyByDeletion ==
    \A k \in Keys : \A v \in Active(k) :
      ~documents[k][v].live => \E w \in 1 .. v - 1 : documents[k][w].status = "deleted"

\* The worker has written the row and not yet settled the message.
Settling(j) == work[j].pc \in {"recorded", "raising"}

\* The row says where the message is.
RowFollowsMessage(j) ==
    /\ jobs[j].status = "none" => message[j].at = "none"
    /\ jobs[j].status = "queued" => message[j].at \in {"none", "queue"}
    /\ jobs[j].status = "running" => message[j].at = "held"
    /\ jobs[j].status \in Ends => message[j].at = "acked"
    /\ jobs[j].status \in {"failed", "dead"} => message[j].at = "dead"

\* A job that reports an outcome names a version of its document that exists, an
\* acknowledged message has its outcome in the row, and "dead" is said after the last
\* attempt only.  The row says where the message is, but while a worker is between its
\* write of the row and the broker, and after a worker died or could not write the row,
\* until the next attempt writes it: then "dead" may stand over a message that is
\* delivered again, and "running" or "queued" over one that is gone.
JobsTellTheTruth ==
    \A j \in Jobs :
      /\ jobs[j].version # 0 => jobs[j].version \in DOMAIN documents[Key(j)]
      /\ message[j].at = "acked" => jobs[j].status \in Ends
      /\ jobs[j].status = "dead" => jobs[j].attempts = MaxRetries + 1
      /\ j \notin stale /\ ~Settling(j) => RowFollowsMessage(j)

LiveRows(k) == {v \in DOMAIN documents[k] : documents[k][v].live}
VersionOf(row) == <<row.body, row.class>>

Shown == [k \in Keys |-> IF LiveRows(k) = {} THEN None
                         ELSE VersionOf(documents[k][Max(LiveRows(k))])]
Recorded == [k \in Keys |-> [v \in DOMAIN documents[k] |-> VersionOf(documents[k][v])]]

Index == INSTANCE DocumentIndex WITH
    Versions <- Jobs \X Classes, shown <- Shown, record <- Recorded

\* "Readers see either the old or the new set, never both": every step of the
\* uploads, the workers and the deletions is a step of the index, or none.
ImplementsIndex == Index!Spec

\* A message that was sent is acknowledged or ends in the dead-letter queue,
\* however its attempts fail and its workers die.
MessagesSettle ==
    \A j \in Jobs : message[j].at = "queue" ~> message[j].at \in {"acked", "dead"}

\* "Store a document in the uploader's own department and queue it for indexing":
\* when the job of an upload reports success, the version it names holds what was
\* uploaded, unless another upload was given the same file name, which happens to
\* uploads that overlap before either of them is indexed.
SuccessMeansIndexed ==
    \A u \in Jobs : up[u].offer # None /\ jobs[u].status \in Ends =>
      \/ documents[Key(u)][jobs[u].version].body = u
      \/ \E w \in Jobs \ {u} : up[w].offer # None /\ up[w].path = up[u].path

\* However uploads, redelivered messages and deletions overlap: one active version at
\* most, and none that repeats its predecessor.
IndexIsSound ==
    /\ TypeOK
    /\ OneActiveVersion
    /\ NoRepeatedVersion

\* What a job's row says is true of the queue, of the index and of the upload.
JobsAreTrue ==
    /\ JobsTellTheTruth
    /\ SuccessMeansIndexed
=============================================================================
