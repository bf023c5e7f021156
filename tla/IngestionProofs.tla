-------------------------- MODULE IngestionProofs --------------------------
(***************************************************************************)
(* For any number of jobs, workers that fail and die, messages delivered   *)
(* again and deletions: the index shows one version of a document, a job's *)
(* row is true, and every step is a step of DocumentIndex.                 *)
(***************************************************************************)
EXTENDS Ingestion, FiniteSetTheorems, TLAPS

-----------------------------------------------------------------------------
(* The inductive invariant *)

\* Upload b was admitted and given the file p.
Uploaded(b, p) == b \in Jobs /\ up[b].offer \in Offers /\ Admitted(up[b].offer) /\ up[b].path = p

\* The class comes from an upload that was given the file: from the one that wrote the
\* body, where the file carries its own metadata.
Classified(p, body, class) ==
    \E w \in Jobs : Uploaded(w, p) /\ (w = body \/ p[2] # "md") /\ Entitled(up[w].offer, class)

\* A file that can be parsed.
Parsable(p, doc) ==
    /\ doc.body \in Jobs /\ doc.class \in Classes
    /\ Uploaded(doc.body, p) /\ Classified(p, doc.body, doc.class)

\* A request that has a file name keeps it, and once written the file is there.
UpInv(j) ==
    /\ up[j].offer # None => Uploaded(j, up[j].path)
    /\ up[j].pc \in {"new", "denied"} => up[j].offer = None
    /\ up[j].pc \in {"named", "half"} => Uploaded(j, up[j].path)
    /\ up[j].pc = "half" => up[j].path[2] # "md"
    /\ up[j].pc \notin {"new", "denied"} => up[j].path \in Paths
    /\ up[j].pc \in {"half", "stored", "committed", "sent"} => files[up[j].path].body \in Jobs

FileInv(p) ==
    /\ files[p].body # None => Uploaded(files[p].body, p)
    /\ files[p].class # None => Parsable(p, files[p])

\* The row of a job follows its message, once the worker has settled it; what an attempt
\* that raises has written agrees with what the broker will decide.
QueueInv(j) ==
    /\ up[j].pc = "sent" <=> message[j].at # "none"
    /\ up[j].pc = "committed" => jobs[j].status = "queued"
    /\ message[j].at = "none" => jobs[j].version = 0 /\ jobs[j].status \in {"none", "queued"}
    /\ message[j].at = "acked" => jobs[j].status \in Ends
    /\ jobs[j].status = "dead" => jobs[j].attempts = MaxRetries + 1
    /\ work[j].pc # "idle" =>
         message[j].at = "held" /\ jobs[j].attempts = message[j].retries + 1
    /\ work[j].pc = "recorded" => jobs[j].status \in Ends
    /\ work[j].pc = "raising" =>
         /\ jobs[j].status = work[j].outcome /\ work[j].outcome \in {"queued", "failed", "dead"}
         /\ work[j].outcome = "queued" <=> should_retry(j, work[j].outcome = "failed")
    /\ j \notin stale /\ ~ Settling(j) => RowFollowsMessage(j)

\* Version n of the document of job j holds what was uploaded to the file of the job.
Names(j, n) ==
    n \in DOMAIN documents[Key(j)] /\ Uploaded(documents[Key(j)][n].body, up[j].path)

\* What a worker and a job's row hold of the document.
HeldInv(j) ==
    /\ work[j].pc \in {"embedding", "locked"} => Parsable(up[j].path, work[j].doc)
    /\ work[j].pc = "returned" => work[j].outcome \in Ends /\ Names(j, work[j].version)
    /\ jobs[j].version # 0 \/ jobs[j].status \in Ends => Names(j, jobs[j].version)

\* One worker at most is in the critical section of a document, and what it has read
\* of the document there is still so.
LockInv(j) ==
    work[j].pc = "locked" =>
      /\ \A i \in Jobs : work[i].pc = "locked" /\ Key(i) = Key(j) => i = j
      /\ Active(Key(j)) = IF work[j].active = 0 THEN {} ELSE {work[j].active}
      /\ \A v \in Active(Key(j)) : ~Same(documents[Key(j)][v], work[j].doc)

\* Only the last version may be active, only the active one live.
RowsInv(k) ==
    LET rows == documents[k] IN
    /\ \A v \in DOMAIN rows : rows[v].status = "active" => v = Len(rows)
    /\ \A v \in DOMAIN rows : rows[v].live => rows[v].status = "active"
    /\ rows # << >> => rows[Len(rows)].status # "superseded"
    /\ \A v \in DOMAIN rows : v > 1 /\ rows[v - 1].status = "superseded" =>
                                ~Same(rows[v - 1], rows[v])
    /\ \A v \in DOMAIN rows : rows[v].status = "active" /\ ~rows[v].live =>
         \E w \in 1 .. v - 1 : rows[w].status = "deleted"

\* A version is where its upload was told to go.
OriginInv(k) ==
    \A v \in DOMAIN documents[k] :
      LET row == documents[k][v] IN
      /\ Uploaded(row.body, up[row.body].path) /\ up[row.body].path[1] = k
      /\ Classified(up[row.body].path, row.body, row.class)

\* The row a deletion has read exists.
DeletionInv ==
    deletion # NoDeletion =>
      deletion.key \in Keys /\ deletion.version \in DOMAIN documents[deletion.key]

IInv ==
    /\ TypeOK
    /\ \A j \in Jobs : UpInv(j)
    /\ \A p \in Paths : FileInv(p)
    /\ \A j \in Jobs : QueueInv(j)
    /\ \A j \in Jobs : HeldInv(j)
    /\ \A j \in Jobs : LockInv(j)
    /\ \A k \in Keys : RowsInv(k)
    /\ \A k \in Keys : OriginInv(k)
    /\ DeletionInv

-----------------------------------------------------------------------------
(* Types *)

UpType == [pc : {"new", "denied", "named", "half", "stored", "committed", "sent"},
           offer : Offers \cup {None}, path : Paths \cup {None}]
FileType == [body : Jobs \cup {None}, class : Classes \cup {None}]
JobType == [status : {"none", "queued", "running", "failed", "dead"} \cup Ends,
            attempts : 0 .. MaxRetries + 1, version : Nat]
MessageType == [at : {"none", "queue", "held", "acked", "dead"}, retries : 0 .. MaxRetries]
WorkType == [pc : {"idle", "begun", "embedding", "locked", "returned", "recorded", "raising"},
             doc : FileType, active : Nat, outcome : Ends \cup {"", "queued", "failed", "dead"},
             version : Nat]

\* The type invariant in the terms of this module.
LEMMA TypeIs ==
    TypeOK <=> /\ up \in [Jobs -> UpType] /\ files \in [Paths -> FileType]
               /\ jobs \in [Jobs -> JobType] /\ message \in [Jobs -> MessageType]
               /\ work \in [Jobs -> WorkType] /\ documents \in [Keys -> Seq(RowType)]
               /\ deletion \in [key : Keys \cup {None}, version : Nat]
               /\ deletions \in 0 .. MaxDeletions /\ faults \in 0 .. MaxFaults
               /\ stale \subseteq Jobs
BY DEF TypeOK, UpType, FileType, JobType, MessageType, WorkType

\* A job whose message was sent has a file name, so its key is a document key.
LEMMA KeyIs ==
    ASSUME IInv, NEW j \in Jobs, message[j].at # "none" \/ work[j].pc # "idle"
    PROVE  /\ up[j].pc = "sent" /\ up[j].path \in Paths /\ Key(j) \in Keys
           /\ files[up[j].path] \in FileType /\ files[up[j].path].body \in Jobs
<1>1. UpInv(j) /\ QueueInv(j) /\ files \in [Paths -> FileType]
  BY TypeIs DEF IInv
<1>2. up[j].pc = "sent"
  BY <1>1 DEF QueueInv
<1>3. up[j].path \in Paths /\ files[up[j].path].body \in Jobs
  BY <1>1, <1>2 DEF UpInv
<1> QED
  BY <1>1, <1>2, <1>3 DEF Key, Paths

\* What is active is active in some row; the last row is the only candidate.
LEMMA ActiveIs ==
    ASSUME IInv, NEW k \in Keys
    PROVE  /\ documents[k] \in Seq(RowType) /\ Len(documents[k]) \in Nat
           /\ DOMAIN documents[k] = 1 .. Len(documents[k])
           /\ \A v \in DOMAIN documents[k] : documents[k][v] \in RowType
           /\ \A v \in Active(k) : v = Len(documents[k]) /\ v \in DOMAIN documents[k]
           /\ Max({0} \cup Active(k)) = IF Active(k) = {} THEN 0 ELSE Len(documents[k])
           /\ Active(k) = {} \/ Active(k) = {Len(documents[k])}
<1> DEFINE n == Len(documents[k])
<1>1. documents[k] \in Seq(RowType)
  BY TypeIs DEF IInv
<1>2. n \in Nat /\ DOMAIN documents[k] = 1 .. n
  BY <1>1
<1>3. \A v \in DOMAIN documents[k] : documents[k][v] \in RowType
  BY <1>1
<1>4. RowsInv(k)
  BY DEF IInv
<1>5. \A v \in Active(k) : v = n /\ v \in DOMAIN documents[k]
  BY <1>4 DEF RowsInv, Active
<1> HIDE DEF n
<1>6. Active(k) = {} \/ Active(k) = {n}
  BY <1>5
<1>7. Max({0} \cup Active(k)) = IF Active(k) = {} THEN 0 ELSE n
  <2>1. CASE Active(k) = {}
    <3>1. {0} \cup Active(k) = {0}
      BY <2>1
    <3>2. \A x \in {0} : (\A y \in {0} : x >= y) /\ x = 0
      OBVIOUS
    <3> QED
      BY <2>1, <3>1, <3>2 DEF Max
  <2>2. CASE Active(k) = {n}
    <3>1. {0} \cup Active(k) = {0, n} /\ Active(k) # {} /\ n >= 1
      BY <1>2, <1>5, <2>2
    <3>2. n \in {0, n} /\ \A y \in {0, n} : n >= y
      BY <1>2, <3>1
    <3>3. \A x \in {0, n} : (\A y \in {0, n} : x >= y) => x = n
      BY <1>2, <3>1
    <3> QED
      BY <3>1, <3>2, <3>3 DEF Max
  <2> QED
    BY <1>6, <2>1, <2>2
<1> QED
  BY <1>1, <1>2, <1>3, <1>5, <1>6, <1>7 DEF n

\* choose_classification grants what was asked for, or nothing.
LEMMA Granted ==
    ASSUME NEW o \in Offers, Admitted(o)
    PROVE  /\ choose_classification(o) \in Classes
           /\ Entitled(o, choose_classification(o))
           /\ o.suffix \in {"md", "txt", "pdf"}
<1>1. o.asked \in Classes \cup {None} /\ None \notin Classes
  BY OffersAssumption, NamesAssumption DEF Offer
<1>2. choose_classification(o) # None /\ o.suffix \in {"md", "txt", "pdf"}
  BY DEF Admitted, safe_suffix
<1> QED
  BY <1>1, <1>2 DEF choose_classification, Entitled, Classes

\* Retire changes the status of one version, and nothing stays live.
LEMMA Retired ==
    ASSUME NEW rows \in Seq(RowType), NEW v, NEW status \in {"superseded", "deleted"}
    PROVE  /\ Retire(rows, v, status) \in Seq(RowType)
           /\ Len(Retire(rows, v, status)) = Len(rows)
           /\ DOMAIN Retire(rows, v, status) = DOMAIN rows
<1> DEFINE new == Retire(rows, v, status)
<1>1. \A w \in DOMAIN rows : rows[w] \in RowType
  OBVIOUS
<1>2. \A w \in DOMAIN rows : new[w] \in RowType
  BY <1>1 DEF RowType, Retire
<1>3. Len(rows) \in Nat /\ DOMAIN new = DOMAIN rows /\ DOMAIN rows = 1 .. Len(rows)
  BY DEF Retire
<1> HIDE DEF new
<1>4. new \in [1 .. Len(rows) -> RowType]
  <2>1. DOMAIN rows = 1 .. Len(rows)
    OBVIOUS
  <2>2. new = [w \in 1 .. Len(rows) |-> new[w]]
    BY <2>1 DEF new, Retire
  <2> QED
    BY <1>2, <2>1, <2>2
<1>5. new \in Seq(RowType) /\ Len(new) = Len(rows)
  BY <1>3, <1>4
<1> QED
  BY <1>3, <1>5 DEF new

\* The rows that may be out of date are those of jobs.
LEMMA StaleStep ==
    ASSUME stale \subseteq Jobs, [Next]_vars
    PROVE  stale' \subseteq Jobs
<1>1. ASSUME NEW j \in Jobs, NEW o \in Offers, UploadDocument(j, o) PROVE stale' = stale
  BY <1>1 DEF UploadDocument
<1>2. ASSUME NEW j \in Jobs,
             \/ \E p \in Paths : Discover(j, p)
             \/ WriteFile(j) \/ WriteSidecar(j) \/ CommitJob(j) \/ Send(j)
      PROVE  stale' = stale
  BY <1>2 DEF Discover, WriteFile, WriteSidecar, CommitJob, Send
<1>3. ASSUME NEW j \in Jobs, Work(j) PROVE stale' \in {stale, stale \ {j}}
  BY <1>3 DEF Work, Take, Check, NoMetadata, RecordFailure, Lock, Swap, Record, Ack, Raise
<1>4. ASSUME NEW j \in Jobs, UpdateFails(j) \/ Die(j) \/ \E permanent \in BOOLEAN : Fail(j, permanent)
      PROVE  stale' \in {stale \cup {j}, stale \ {j}}
  BY <1>4 DEF UpdateFails, Die, Fail, RecordFailure
<1>5. ASSUME (\E k \in Keys : DeactivateRead(k)) \/ DeactivateWrite \/ UNCHANGED vars
      PROVE  stale' = stale
  BY <1>5 DEF DeactivateRead, DeactivateWrite, vars
<1> QED
  BY <1>1, <1>2, <1>3, <1>4, <1>5 DEF Next

\* Every step keeps the types.
LEMMA TypeStep == IInv /\ [Next]_vars => TypeOK'
<1> SUFFICES ASSUME IInv, [Next]_vars PROVE TypeOK'
  OBVIOUS
<1> USE DEF At
<1>1. /\ TypeOK
      /\ up \in [Jobs -> UpType] /\ files \in [Paths -> FileType]
      /\ jobs \in [Jobs -> JobType] /\ message \in [Jobs -> MessageType]
      /\ work \in [Jobs -> WorkType] /\ documents \in [Keys -> Seq(RowType)]
      /\ deletion \in [key : Keys \cup {None}, version : Nat]
      /\ deletions \in 0 .. MaxDeletions /\ faults \in 0 .. MaxFaults
      /\ {MaxKey, MaxRetries, MaxFaults, MaxDeletions} \subseteq Nat
      /\ stale' \subseteq Jobs
  BY TypeIs, StaleStep, NumbersAssumption DEF IInv
<1>2. NoWork \in WorkType /\ [NoWork EXCEPT !.pc = "begun"] \in WorkType /\ NoFile \in FileType
  BY DEF NoWork, NoFile, WorkType, FileType
<1>0. ASSUME NEW j \in Jobs, NEW pc \in {"denied", "half", "stored", "committed", "sent"},
             up' = [up EXCEPT ![j].pc = pc]
      PROVE  up' \in [Jobs -> UpType]
  BY <1>0, <1>1, ZenonT(40) DEF UpType
<1>3. ASSUME up' \in [Jobs -> UpType], files' \in [Paths -> FileType],
             jobs' \in [Jobs -> JobType], UNCHANGED <<work, documents, deletion, deletions, faults>>,
             message' \in [Jobs -> MessageType]
      PROVE  TypeOK'
  BY <1>1, <1>3 DEF TypeOK, UpType, FileType, JobType, MessageType, WorkType
<1>4. ASSUME UNCHANGED <<up, files, deletion, deletions>>, jobs' \in [Jobs -> JobType],
             message' \in [Jobs -> MessageType], work' \in [Jobs -> WorkType],
             faults' \in 0 .. MaxFaults, documents' \in [Keys -> Seq(RowType)]
      PROVE  TypeOK'
  BY <1>1, <1>4 DEF TypeOK, UpType, FileType, JobType, MessageType, WorkType
<1>5. ASSUME NEW j \in Jobs, NEW o \in Offers, UploadDocument(j, o) PROVE TypeOK'
  <2>1. CASE Admitted(o)
    <3>1. o.suffix \in {"md", "txt", "pdf"}
      BY <2>1, Granted
    <3>2. <<next_doc_key, o.suffix>> \in Paths
      BY <1>5, <2>1, <3>1 DEF UploadDocument, Paths
    <3> HIDE DEF next_doc_key
    <3>3. [pc |-> "named", offer |-> o, path |-> <<next_doc_key, o.suffix>>] \in UpType
      BY <3>2 DEF UpType
    <3>4. up' = [up EXCEPT ![j] = [pc |-> "named", offer |-> o, path |-> <<next_doc_key, o.suffix>>]]
      BY <1>5, <2>1 DEF UploadDocument
    <3>5. up' \in [Jobs -> UpType]
      BY <1>1, <3>3, <3>4
    <3> QED
      BY <1>1, <1>3, <1>5, <3>5 DEF UploadDocument
  <2>2. CASE ~ Admitted(o)
    <3>1. up' \in [Jobs -> UpType]
      BY <1>0, <1>5, <2>2, Zenon DEF UploadDocument
    <3> QED
      BY <1>1, <1>3, <1>5, <3>1 DEF UploadDocument
  <2> QED
    BY <2>1, <2>2
<1>6. ASSUME NEW j \in Jobs, WriteFile(j) \/ WriteSidecar(j) PROVE TypeOK'
  <2> DEFINE p == up[j].path
             c == choose_classification(up[j].offer)
  <2>1. p \in Paths /\ c \in Classes
    <3>1. UpInv(j)
      BY DEF IInv
    <3>2. Uploaded(j, p) /\ p \in Paths
      BY <1>6, <3>1 DEF WriteFile, WriteSidecar, UpInv
    <3> QED
      BY <3>2, Granted DEF Uploaded
  <2> HIDE DEF p, c
  <2>2. up' \in [Jobs -> UpType]
    <3>1. PICK pc \in {"half", "stored"} : up' = [up EXCEPT ![j].pc = pc]
      BY <1>6 DEF WriteFile, WriteSidecar
    <3> QED
      BY <1>0, <3>1
  <2>3. files' \in [Paths -> FileType]
    <3>1. files[p] \in FileType
      BY <1>1, <2>1
    <3>2. CASE WriteFile(j)
      <4>1. files' = [files EXCEPT ![p] =
                        [body |-> j, class |-> IF p[2] = "md" THEN c ELSE files[p].class]]
        BY <1>1, <2>1, <3>2 DEF WriteFile, p, c
      <4>2. [body |-> j, class |-> IF p[2] = "md" THEN c ELSE files[p].class] \in FileType
        BY <2>1, <3>1 DEF FileType
      <4> QED
        BY <1>1, <2>1, <4>1, <4>2
    <3>3. CASE WriteSidecar(j)
      <4>1. files' = [files EXCEPT ![p].class = c]
        BY <3>3 DEF WriteSidecar, p, c
      <4> QED
        BY <1>1, <2>1, <4>1, ZenonT(40) DEF FileType
    <3> QED
      BY <1>6, <3>2, <3>3
  <2> QED
    BY <1>1, <1>3, <1>6, <2>2, <2>3 DEF WriteFile, WriteSidecar
<1>7. ASSUME NEW j \in Jobs, NEW p \in Paths, Discover(j, p) PROVE TypeOK'
  <2>1. up' \in [Jobs -> UpType]
    BY <1>1, <1>7 DEF Discover, UpType
  <2> QED
    BY <1>1, <1>3, <1>7, <2>1 DEF Discover
<1>8. ASSUME NEW j \in Jobs, CommitJob(j) \/ Send(j) PROVE TypeOK'
  <2>1. up' \in [Jobs -> UpType]
    <3>1. PICK pc \in {"committed", "sent"} : up' = [up EXCEPT ![j].pc = pc]
      BY <1>8 DEF CommitJob, Send
    <3> QED
      BY <1>0, <3>1
  <2>2. jobs' \in [Jobs -> JobType]
    <3>1. jobs' = jobs \/ jobs' = [jobs EXCEPT ![j].status = "queued"]
      BY <1>8 DEF CommitJob, Send
    <3> QED
      BY <1>1, <3>1, ZenonT(40) DEF JobType
  <2>3. message' \in [Jobs -> MessageType]
    <3>1. message' = message \/ message' = [message EXCEPT ![j].at = "queue"]
      BY <1>8 DEF CommitJob, Send
    <3> QED
      BY <1>1, <3>1, ZenonT(40) DEF MessageType
  <2> QED
    BY <1>1, <1>3, <1>8, <2>1, <2>2, <2>3 DEF CommitJob, Send
<1>9. ASSUME NEW j \in Jobs, Take(j) PROVE TypeOK'
  <2>1. message[j].retries \in 0 .. MaxRetries
    BY <1>1 DEF MessageType
  <2>2. message[j].retries + 1 \in 0 .. MaxRetries + 1
    BY <1>1, <2>1
  <2>3. jobs' \in [Jobs -> JobType]
    BY <1>1, <1>9, <2>2, ZenonT(40) DEF Take, JobType
  <2>4. message' \in [Jobs -> MessageType] /\ work' \in [Jobs -> WorkType]
    BY <1>1, <1>2, <1>9 DEF Take, MessageType
  <2> QED
    BY <1>1, <1>4, <1>9, <2>3, <2>4 DEF Take
<1>10. ASSUME NEW j \in Jobs, NEW outcome \in Ends, NEW v \in Nat, Returns(j, outcome, v)
       PROVE  work' \in [Jobs -> WorkType]
  <2>1. [work[j] EXCEPT !.pc = "returned", !.outcome = outcome, !.version = v] \in WorkType
    BY <1>1, ZenonT(40) DEF WorkType
  <2>2. work' = [work EXCEPT ![j] = [work[j] EXCEPT !.pc = "returned", !.outcome = outcome,
                                                    !.version = v]]
    BY <1>1, <1>10 DEF Returns, WorkType
  <2> QED
    BY <1>1, <2>1, <2>2
<1>11. ASSUME NEW j \in Jobs, Check(j) \/ Lock(j) PROVE TypeOK'
  <2>1. Key(j) \in Keys /\ files[up[j].path] \in FileType
    BY <1>11, KeyIs DEF Check, Lock
  <2>2. \A v \in Active(Key(j)) : v \in Nat
    BY <2>1, ActiveIs
  <2>3. Max({0} \cup Active(Key(j))) \in Nat
    BY <2>1, ActiveIs, SMTT(30)
  <2>4. \A doc \in FileType : [work EXCEPT ![j].pc = "embedding", ![j].doc = doc] \in [Jobs -> WorkType]
    BY <1>1, ZenonT(40) DEF WorkType
  <2>5. \A n \in Nat : [work EXCEPT ![j].pc = "locked", ![j].active = n] \in [Jobs -> WorkType]
    BY <1>1, ZenonT(40) DEF WorkType
  <2>6. work' \in [Jobs -> WorkType]
    BY <1>10, <1>11, <2>1, <2>2, <2>3, <2>4, <2>5 DEF Check, Lock, Ends
  <2> QED
    BY <1>1, <1>4, <1>11, <2>6 DEF Check, Lock
<1>12. ASSUME NEW j \in Jobs, Swap(j) PROVE TypeOK'
  <2> DEFINE k == Key(j)
  <2>1. k \in Keys
    BY <1>12, KeyIs DEF Swap
  <2>2. Parsable(up[j].path, work[j].doc)
    BY <1>12 DEF Swap, IInv, HeldInv
  <2>3. NewRow(j) \in RowType
    BY <2>2 DEF NewRow, Parsable, RowType
  <2>4. documents[k] \in Seq(RowType) /\ Len(documents[k]) \in Nat
    BY <2>1, ActiveIs
  <2>5. Supersede(documents[k], work[j].active) \in Seq(RowType)
    BY <2>4, Retired DEF Supersede
  <2> HIDE DEF k
  <2>6. documents' = [documents EXCEPT ![k] = Append(Supersede(documents[k], work[j].active), NewRow(j))]
    BY <1>1, <1>12, <2>1 DEF Swap, k
  <2>7. Append(Supersede(documents[k], work[j].active), NewRow(j)) \in Seq(RowType)
    BY <2>3, <2>5
  <2>8. documents' \in [Keys -> Seq(RowType)]
    BY <1>1, <2>1, <2>6, <2>7
  <2>9. work' \in [Jobs -> WorkType]
    BY <1>10, <1>12, <2>4 DEF Swap, Ends, k
  <2> QED
    BY <1>1, <1>4, <1>12, <2>8, <2>9 DEF Swap
<1>13. ASSUME NEW j \in Jobs, Record(j) PROVE TypeOK'
  <2>1. work[j].outcome \in Ends /\ work[j].version \in Nat
    BY <1>1, <1>13 DEF Record, IInv, HeldInv, WorkType
  <2>2. jobs' \in [Jobs -> JobType]
    BY <1>1, <1>13, <2>1 DEF Record, JobType
  <2>3. work' \in [Jobs -> WorkType]
    BY <1>1, <1>13, ZenonT(40) DEF Record, WorkType
  <2> QED
    BY <1>1, <1>4, <1>13, <2>2, <2>3 DEF Record
<1>14. ASSUME NEW j \in Jobs, Ack(j) PROVE TypeOK'
  <2>1. message' \in [Jobs -> MessageType] /\ work' \in [Jobs -> WorkType]
    BY <1>1, <1>2, <1>14 DEF Ack, MessageType
  <2> QED
    BY <1>1, <1>4, <1>14, <2>1 DEF Ack
<1>15. ASSUME NEW j \in Jobs, NEW permanent \in BOOLEAN, Raised(j, permanent)
       PROVE  message' \in [Jobs -> MessageType]
  <2>1. message[j] \in MessageType /\ message[j].retries \in 0 .. MaxRetries
    BY <1>1 DEF MessageType
  <2>2. should_retry(j, permanent) => message[j].retries + 1 \in 0 .. MaxRetries
    BY <1>1, <2>1 DEF should_retry
  <2>3. [message[j] EXCEPT !.at = "dead"] \in MessageType
    BY <2>1 DEF MessageType
  <2>4. should_retry(j, permanent) =>
          [at |-> "queue", retries |-> message[j].retries + 1] \in MessageType
    BY <2>2 DEF MessageType
  <2>5. message' = [message EXCEPT ![j] =
                      IF should_retry(j, permanent)
                      THEN [at |-> "queue", retries |-> message[j].retries + 1]
                      ELSE [message[j] EXCEPT !.at = "dead"]]
    BY <1>1, <1>15 DEF Raised
  <2> QED
    BY <1>1, <2>3, <2>4, <2>5
<1>16. ASSUME NEW j \in Jobs, NEW permanent \in BOOLEAN, RecordFailure(j, permanent),
              faults' \in 0 .. MaxFaults
       PROVE  TypeOK'
  <2>1. FailureStatus(j, permanent) \in {"failed", "dead", "queued"}
    BY DEF FailureStatus
  <2>2. jobs' \in [Jobs -> JobType]
    BY <1>1, <1>16, <2>1, ZenonT(40) DEF RecordFailure, JobType
  <2>3. ASSUME NEW status \in {"failed", "dead", "queued"}
        PROVE  [NoWork EXCEPT !.pc = "raising", !.outcome = status] \in WorkType
    BY DEF NoWork, NoFile, WorkType, FileType
  <2>4. work' \in [Jobs -> WorkType]
    BY <1>1, <1>16, <2>1, <2>3 DEF RecordFailure
  <2> QED
    BY <1>1, <1>4, <1>16, <2>2, <2>4 DEF RecordFailure
<1>25. ASSUME NEW j \in Jobs, Raise(j) PROVE TypeOK'
  <2>1. message' \in [Jobs -> MessageType] /\ work' \in [Jobs -> WorkType]
    BY <1>1, <1>2, <1>15, <1>25 DEF Raise
  <2> QED
    BY <1>1, <1>4, <1>25, <2>1 DEF Raise
<1>17. Fault => faults' \in 0 .. MaxFaults
  BY <1>1 DEF Fault
<1>18. ASSUME NEW j \in Jobs, NEW permanent \in BOOLEAN, Fail(j, permanent) PROVE TypeOK'
  BY <1>16, <1>17, <1>18 DEF Fail
<1>19. ASSUME NEW j \in Jobs, NoMetadata(j) PROVE TypeOK'
  BY <1>1, <1>16, <1>19 DEF NoMetadata
<1>20. ASSUME NEW j \in Jobs, UpdateFails(j) PROVE TypeOK'
  <2>1. message' \in [Jobs -> MessageType] /\ work' \in [Jobs -> WorkType]
    BY <1>1, <1>2, <1>15, <1>20 DEF UpdateFails
  <2> QED
    BY <1>1, <1>4, <1>17, <1>20, <2>1 DEF UpdateFails
<1>21. ASSUME NEW j \in Jobs, Die(j) PROVE TypeOK'
  <2>1. message' \in [Jobs -> MessageType] /\ work' \in [Jobs -> WorkType]
    BY <1>1, <1>2, <1>21 DEF Die, MessageType
  <2> QED
    BY <1>1, <1>4, <1>17, <1>21, <2>1 DEF Die
<1>22. ASSUME NEW k \in Keys, DeactivateRead(k) PROVE TypeOK'
  <2>1. PICK v \in Active(k) : deletion' = [key |-> k, version |-> v]
    BY <1>22 DEF DeactivateRead
  <2>2. v \in Nat
    BY <2>1, ActiveIs
  <2>3. deletions' \in 0 .. MaxDeletions
    BY <1>1, <1>22 DEF DeactivateRead
  <2> QED
    BY <1>1, <1>22, <2>1, <2>2, <2>3
       DEF DeactivateRead, TypeOK, UpType, FileType, JobType, MessageType, WorkType
<1>23. ASSUME DeactivateWrite PROVE TypeOK'
  <2> DEFINE k == deletion.key
             v == deletion.version
             new == Retire(documents[k], v, "deleted")
  <2>1. k \in Keys
    BY <1>23 DEF DeactivateWrite, IInv, DeletionInv
  <2>2. new \in Seq(RowType)
    BY <1>1, <2>1, Retired
  <2>3. documents' = [documents EXCEPT ![k] = new]
    BY <1>1, <1>23, <2>1 DEF DeactivateWrite
  <2> HIDE DEF k, v, new
  <2>4. documents' \in [Keys -> Seq(RowType)]
    BY <1>1, <2>1, <2>2, <2>3
  <2>5. deletion' \in [key : Keys \cup {None}, version : Nat]
    BY <1>23 DEF DeactivateWrite, NoDeletion
  <2> QED
    BY <1>1, <1>23, <2>4, <2>5
       DEF DeactivateWrite, TypeOK, UpType, FileType, JobType, MessageType, WorkType
<1>24. CASE UNCHANGED vars
  BY <1>1, <1>24 DEF vars, TypeOK
<1> QED
  BY <1>5, <1>6, <1>7, <1>8, <1>9, <1>11, <1>12, <1>13, <1>14, <1>18, <1>19, <1>20, <1>21, <1>22,
     <1>23, <1>24, <1>25 DEF Next, Work

-----------------------------------------------------------------------------
(* Uploads and their files *)

\* The steps of a request that enqueues a job; every other step leaves requests
\* and files alone.
Request(j) ==
    \/ \E o \in Offers : UploadDocument(j, o)
    \/ \E p \in Paths : Discover(j, p)
    \/ WriteFile(j) \/ WriteSidecar(j) \/ CommitJob(j) \/ Send(j)

\* The steps of a worker and of the broker.
Delivery(j) ==
    Work(j) \/ UpdateFails(j) \/ Die(j) \/ \E permanent \in BOOLEAN : Fail(j, permanent)

\* A step is one of a request, of a worker or of a deletion, or none.
LEMMA Kinds ==
    ASSUME [Next]_vars
    PROVE  \/ \E j \in Jobs : Request(j) \/ Delivery(j)
           \/ (\E k \in Keys : DeactivateRead(k)) \/ DeactivateWrite
           \/ UNCHANGED vars
BY DEF Next, Request, Delivery

LEMMA DeliveryFrame ==
    ASSUME NEW j \in Jobs, Delivery(j)
    PROVE  UNCHANGED <<up, files, deletion, deletions>>
BY DEF Delivery, Work, UpdateFails, Die, Fail, Take, Check, NoMetadata, Lock, Swap, Record, Ack,
       RecordFailure, Raise

LEMMA RequestFrame ==
    ASSUME NEW j \in Jobs, Request(j)
    PROVE  UNCHANGED <<work, documents, deletion, deletions, faults, stale>>
BY DEF Request, UploadDocument, Discover, WriteFile, WriteSidecar, CommitJob, Send

LEMMA OtherFrame ==
    ASSUME (\E k \in Keys : DeactivateRead(k)) \/ DeactivateWrite \/ UNCHANGED vars
    PROVE  UNCHANGED <<up, files, jobs, message, work, faults, stale>>
BY DEF DeactivateRead, DeactivateWrite, vars

\* A request that has begun keeps its offer and its file name.
LEMMA Kept ==
    ASSUME IInv, [Next]_vars, NEW i \in Jobs, up[i].pc # "new"
    PROVE  up'[i].pc # "new" /\ up'[i].offer = up[i].offer /\ up'[i].path = up[i].path
<1>1. up \in [Jobs -> UpType]
  BY TypeIs DEF IInv
<1>2. ASSUME NEW j \in Jobs, Request(j)
      PROVE  up'[i].pc # "new" /\ up'[i].offer = up[i].offer /\ up'[i].path = up[i].path
  <2>1. CASE \/ \E o \in Offers : UploadDocument(j, o)
             \/ \E p \in Paths : Discover(j, p)
    <3>1. up[j].pc = "new" /\ \E x : up' = [up EXCEPT ![j] = x] \/ up' = [up EXCEPT ![j].pc = x]
      BY <2>1 DEF UploadDocument, Discover
    <3>2. i # j
      BY <3>1
    <3> QED
      BY <1>1, <3>1, <3>2
  <2>2. CASE WriteFile(j) \/ WriteSidecar(j) \/ CommitJob(j) \/ Send(j)
    <3>1. PICK pc \in {"half", "stored", "committed", "sent"} : up' = [up EXCEPT ![j].pc = pc]
      BY <2>2 DEF WriteFile, WriteSidecar, CommitJob, Send
    <3> QED
      BY <1>1, <3>1 DEF UpType
  <2> QED
    BY <1>2, <2>1, <2>2 DEF Request
<1> QED
  BY <1>2, Kinds, DeliveryFrame, OtherFrame

\* So what was uploaded, and under which class, lasts.
LEMMA Lasts ==
    ASSUME IInv, [Next]_vars
    PROVE  /\ \A b, p : Uploaded(b, p) => Uploaded(b, p)'
           /\ \A p, b, c : Classified(p, b, c) => Classified(p, b, c)'
<1>1. ASSUME NEW b, NEW p, Uploaded(b, p)
      PROVE  b \in Jobs /\ up[b].pc # "new" /\ up'[b].offer = up[b].offer /\ up'[b].path = p
  <2>1. b \in Jobs /\ UpInv(b)
    BY <1>1 DEF Uploaded, IInv
  <2>2. up[b].pc # "new"
    BY <1>1, <2>1, NamesAssumption DEF UpInv, Uploaded
  <2> QED
    BY <1>1, <2>1, <2>2, Kept DEF Uploaded
<1>2. ASSUME NEW b, NEW p, Uploaded(b, p) PROVE Uploaded(b, p)'
  BY <1>1, <1>2 DEF Uploaded
<1>3. ASSUME NEW p, NEW b, NEW c, Classified(p, b, c) PROVE Classified(p, b, c)'
  <2>1. PICK w \in Jobs : Uploaded(w, p) /\ (w = b \/ p[2] # "md") /\ Entitled(up[w].offer, c)
    BY <1>3 DEF Classified
  <2>2. Uploaded(w, p)' /\ up'[w].offer = up[w].offer
    BY <1>1, <1>2, <2>1
  <2> QED
    BY <2>1, <2>2 DEF Classified
<1> QED
  BY <1>2, <1>3

\* A file that is there was written by an upload that was given its name.
LEMMA FileIs ==
    ASSUME IInv, NEW p \in Paths, files[p] # NoFile
    PROVE  files[p].body \in Jobs
<1>1. FileInv(p) /\ files[p] \in FileType
  BY TypeIs DEF IInv
<1>2. files[p].body # None \/ files[p].class # None
  BY <1>1 DEF FileType, NoFile
<1> QED
  BY <1>1, <1>2, NamesAssumption DEF FileInv, Uploaded, Parsable

\* What WriteFile and WriteSidecar write.
LEMMA Written ==
    ASSUME IInv, NEW j \in Jobs, WriteFile(j) \/ WriteSidecar(j)
    PROVE  LET p == up[j].path
               c == choose_classification(up[j].offer)
           IN  /\ p \in Paths /\ Uploaded(j, p) /\ c \in Classes /\ Entitled(up[j].offer, c)
               /\ \A q \in Paths \ {p} : files'[q] = files[q]
               /\ WriteFile(j) => /\ files'[p].body = j
                                  /\ files'[p].class = IF p[2] = "md" THEN c ELSE files[p].class
               /\ WriteSidecar(j) => /\ files'[p].body = files[p].body /\ files[p].body \in Jobs
                                     /\ files'[p].class = c /\ p[2] # "md"
<1> DEFINE p == up[j].path
           c == choose_classification(up[j].offer)
<1>1. UpInv(j) /\ files \in [Paths -> FileType]
  BY TypeIs DEF IInv
<1>2. Uploaded(j, p) /\ p \in Paths
  BY <1>1 DEF WriteFile, WriteSidecar, UpInv
<1>3. c \in Classes /\ Entitled(up[j].offer, c)
  BY <1>2, Granted DEF Uploaded
<1>4. CASE WriteFile(j)
  <2>1. up[j].pc = "named"
    BY <1>4 DEF WriteFile
  <2>2. ~ WriteSidecar(j)
    BY <2>1 DEF WriteSidecar
  <2>3. files' = [files EXCEPT ![p] =
                    [body |-> j, class |-> IF p[2] = "md" THEN c ELSE files[p].class]]
    BY <1>1, <1>2, <1>4 DEF WriteFile
  <2> HIDE DEF p, c
  <2>4. /\ files'[p].body = j
        /\ files'[p].class = IF p[2] = "md" THEN c ELSE files[p].class
        /\ \A q \in Paths \ {p} : files'[q] = files[q]
    BY <1>1, <1>2, <2>3
  <2> QED
    BY <1>2, <1>3, <2>2, <2>4 DEF p, c
<1>5. CASE WriteSidecar(j)
  <2>1. up[j].pc = "half" /\ files' = [files EXCEPT ![p].class = c]
    BY <1>5 DEF WriteSidecar
  <2>2. ~ WriteFile(j)
    BY <2>1 DEF WriteFile
  <2>3. p[2] # "md" /\ files[p].body \in Jobs
    BY <1>1, <2>1 DEF UpInv
  <2> HIDE DEF p, c
  <2>4. /\ files'[p].body = files[p].body /\ files'[p].class = c
        /\ \A q \in Paths \ {p} : files'[q] = files[q]
    BY <1>1, <1>2, <2>1 DEF FileType
  <2> QED
    BY <1>2, <1>3, <2>2, <2>3, <2>4 DEF p, c
<1> QED
  BY <1>4, <1>5

\* A request that does not move keeps its part of the invariant.
LEMMA UpFrame ==
    ASSUME NEW i \in Jobs, UpInv(i), up'[i] = up[i],
           \A p \in Paths : files[p].body \in Jobs => files'[p].body \in Jobs
    PROVE  UpInv(i)'
BY DEF UpInv, Uploaded

LEMMA UpStep == ASSUME IInv, [Next]_vars, NEW i \in Jobs PROVE UpInv(i)'
<1>1. UpInv(i) /\ up \in [Jobs -> UpType] /\ up[i] \in UpType
  BY TypeIs DEF IInv
<1>2. ASSUME NEW j \in Jobs, NEW o \in Offers, UploadDocument(j, o) PROVE UpInv(i)'
  <2>1. files' = files
    BY <1>2 DEF UploadDocument
  <2>2. CASE i # j
    <3>1. up'[i] = up[i]
      BY <1>1, <1>2, <2>2 DEF UploadDocument
    <3> QED
      BY <1>1, <2>1, <3>1, UpFrame
  <2>3. CASE i = j /\ Admitted(o)
    <3>1. o.suffix \in {"md", "txt", "pdf"} /\ next_doc_key \in Keys
      BY <1>2, <2>3, Granted DEF UploadDocument
    <3>2. <<next_doc_key, o.suffix>> \in Paths
      BY <3>1 DEF Paths
    <3> HIDE DEF next_doc_key
    <3>3. up' = [up EXCEPT ![j] = [pc |-> "named", offer |-> o, path |-> <<next_doc_key, o.suffix>>]]
      BY <1>2, <2>3 DEF UploadDocument
    <3>4. up'[i].pc = "named" /\ up'[i].offer = o /\ up'[i].path = <<next_doc_key, o.suffix>>
      BY <1>1, <2>3, <3>3
    <3> QED
      BY <2>3, <3>2, <3>4 DEF UpInv, Uploaded
  <2>4. CASE i = j /\ ~ Admitted(o)
    <3>1. up[i].pc = "new" /\ up[i].offer = None
      BY <1>1, <1>2, <2>4 DEF UploadDocument, UpInv
    <3>2. up' = [up EXCEPT ![j].pc = "denied"]
      BY <1>2, <2>4 DEF UploadDocument
    <3>3. up'[i].pc = "denied" /\ up'[i].offer = None
      BY <1>1, <2>4, <3>1, <3>2 DEF UpType
    <3> QED
      BY <3>3 DEF UpInv
  <2> QED
    BY <2>2, <2>3, <2>4
<1>3. ASSUME NEW j \in Jobs, NEW p \in Paths, Discover(j, p) PROVE UpInv(i)'
  <2>1. files' = files /\ files[p] # NoFile
    BY <1>3 DEF Discover
  <2>2. CASE i # j
    <3>1. up'[i] = up[i]
      BY <1>1, <1>3, <2>2 DEF Discover
    <3> QED
      BY <1>1, <2>1, <3>1, UpFrame
  <2>3. CASE i = j
    <3>1. up'[i].pc = "stored" /\ up'[i].offer = None /\ up'[i].path = p
      BY <1>1, <1>3, <2>3 DEF Discover
    <3>2. files[p].body \in Jobs
      BY <2>1, FileIs
    <3> QED
      BY <2>1, <3>1, <3>2 DEF UpInv
  <2> QED
    BY <2>2, <2>3
<1>4. ASSUME NEW j \in Jobs, NEW pc \in {"half", "stored", "committed", "sent"},
             up' = [up EXCEPT ![j].pc = pc], up[j].pc \notin {"new", "denied"},
             pc = "half" => up[j].path[2] # "md" /\ Uploaded(j, up[j].path),
             \A p \in Paths : files[p].body \in Jobs => files'[p].body \in Jobs,
             files'[up[j].path].body \in Jobs
      PROVE  UpInv(i)'
  <2>1. CASE i # j
    <3>1. up'[i] = up[i]
      BY <1>1, <1>4, <2>1
    <3> QED
      BY <1>1, <1>4, <3>1, UpFrame
  <2>2. CASE i = j
    <3>1. up'[i].pc = pc /\ up'[i].offer = up[i].offer /\ up'[i].path = up[i].path
      BY <1>1, <1>4, <2>2 DEF UpType
    <3> QED
      BY <1>1, <1>4, <2>2, <3>1 DEF UpInv, Uploaded
  <2> QED
    BY <2>1, <2>2
<1>5. ASSUME NEW j \in Jobs, WriteFile(j) \/ WriteSidecar(j) PROVE UpInv(i)'
  <2>1. PICK pc \in {"half", "stored"} :
          up' = [up EXCEPT ![j].pc = pc] /\ (pc = "half" => up[j].path[2] # "md")
    BY <1>5 DEF WriteFile, WriteSidecar
  <2>2. up[j].pc \notin {"new", "denied"}
    BY <1>5 DEF WriteFile, WriteSidecar
  <2>3. /\ up[j].path \in Paths /\ Uploaded(j, up[j].path) /\ files'[up[j].path].body \in Jobs
        /\ \A q \in Paths \ {up[j].path} : files'[q] = files[q]
    BY <1>5, Written
  <2>4. \A q \in Paths : files[q].body \in Jobs => files'[q].body \in Jobs
    BY <2>3
  <2> QED
    BY <1>4, <2>1, <2>2, <2>3, <2>4
<1>6. ASSUME NEW j \in Jobs, CommitJob(j) \/ Send(j) PROVE UpInv(i)'
  <2>1. PICK pc \in {"committed", "sent"} : up' = [up EXCEPT ![j].pc = pc] /\ files' = files
    BY <1>6 DEF CommitJob, Send
  <2>2. up[j].pc \in {"stored", "committed"}
    BY <1>6 DEF CommitJob, Send
  <2>3. UpInv(j)
    BY DEF IInv
  <2>4. files[up[j].path].body \in Jobs
    BY <2>2, <2>3 DEF UpInv
  <2> QED
    BY <1>4, <2>1, <2>2, <2>4
<1>7. CASE UNCHANGED <<up, files>>
  BY <1>1, <1>7, UpFrame
<1> QED
  BY <1>2, <1>3, <1>5, <1>6, <1>7, Kinds, DeliveryFrame, OtherFrame DEF Request

LEMMA FileStep == ASSUME IInv, [Next]_vars, NEW q \in Paths PROVE FileInv(q)'
<1>1. FileInv(q)
  BY DEF IInv
<1>2. /\ \A b, p : Uploaded(b, p) => Uploaded(b, p)'
      /\ \A p, b, c : Classified(p, b, c) => Classified(p, b, c)'
  BY Lasts
<1>3. CASE files'[q] = files[q]
  <2>0. PICK b, c : b = files[q].body /\ c = files[q].class
    OBVIOUS
  <2>1. files'[q].body = b /\ files'[q].class = c
    BY <1>3, <2>0
  <2>2. /\ b # None => Uploaded(b, q)
        /\ c # None => b \in Jobs /\ c \in Classes /\ Uploaded(b, q) /\ Classified(q, b, c)
    BY <1>1, <2>0 DEF FileInv, Parsable
  <2>3. /\ b # None => Uploaded(b, q)'
        /\ c # None => b \in Jobs /\ c \in Classes /\ Uploaded(b, q)' /\ Classified(q, b, c)'
    BY <1>2, <2>2
  <2> QED
    BY <2>1, <2>3 DEF FileInv, Parsable
<1>4. ASSUME NEW j \in Jobs, WriteFile(j) \/ WriteSidecar(j), q = up[j].path PROVE FileInv(q)'
  <2>0. PICK c : c = choose_classification(up[j].offer)
    OBVIOUS
  <2>1. Uploaded(j, q) /\ c \in Classes /\ Entitled(up[j].offer, c)
    BY <1>4, <2>0, Written
  <2>2. Classified(q, j, c) /\ (q[2] # "md" => \A b : Classified(q, b, c))
    BY <2>1 DEF Classified
  <2>3. CASE WriteFile(j)
    <3>1. files'[q].body = j /\ files'[q].class = IF q[2] = "md" THEN c ELSE files[q].class
      BY <1>4, <2>0, <2>3, Written
    <3>2. q[2] # "md" /\ files[q].class # None =>
            files[q].class \in Classes /\ Classified(q, j, files[q].class)
      BY <1>1 DEF FileInv, Parsable, Classified
    <3>3. PICK d : d = files'[q].class
      OBVIOUS
    <3>4. d # None => d \in Classes /\ Classified(q, j, d)
      BY <2>1, <2>2, <3>1, <3>2, <3>3
    <3>5. Uploaded(j, q)' /\ (d # None => d \in Classes /\ Classified(q, j, d)')
      BY <1>2, <2>1, <3>4
    <3> QED
      BY <3>1, <3>3, <3>5 DEF FileInv, Parsable
  <2>4. CASE WriteSidecar(j)
    <3>0. PICK b : b = files[q].body
      OBVIOUS
    <3>1. files'[q].body = b /\ files'[q].class = c /\ q[2] # "md" /\ b \in Jobs
      BY <1>4, <2>0, <2>4, <3>0, Written
    <3>2. Uploaded(b, q)
      BY <1>1, <3>0, <3>1, NamesAssumption DEF FileInv
    <3>3. Uploaded(b, q)' /\ Classified(q, b, c)'
      BY <1>2, <2>2, <3>1, <3>2
    <3> QED
      BY <2>1, <3>1, <3>3 DEF FileInv, Parsable
  <2> QED
    BY <1>4, <2>3, <2>4
<1>5. ASSUME NEW j \in Jobs, WriteFile(j) \/ WriteSidecar(j) PROVE FileInv(q)'
  BY <1>3, <1>4, <1>5, Written
<1>6. ASSUME NEW j \in Jobs, Request(j), ~ WriteFile(j), ~ WriteSidecar(j) PROVE files' = files
  BY <1>6 DEF Request, UploadDocument, Discover, CommitJob, Send
<1> QED
  BY <1>3, <1>5, <1>6, Kinds, DeliveryFrame, OtherFrame

-----------------------------------------------------------------------------
(* Jobs and their messages *)

\* A worker moves its own job only.
LEMMA Elsewhere ==
    ASSUME IInv, NEW j \in Jobs, Delivery(j), NEW i \in Jobs, i # j
    PROVE  /\ message'[i] = message[i] /\ jobs'[i] = jobs[i] /\ work'[i] = work[i]
           /\ i \in stale' <=> i \in stale
<1>1. jobs \in [Jobs -> JobType] /\ message \in [Jobs -> MessageType] /\ work \in [Jobs -> WorkType]
  BY TypeIs DEF IInv
<1>2. CASE Take(j)
  BY <1>1, <1>2 DEF Take
<1>3. CASE Check(j) \/ Lock(j) \/ Swap(j)
  BY <1>1, <1>3 DEF Check, Lock, Swap, Returns
<1>4. CASE Record(j) \/ Ack(j)
  BY <1>1, <1>4 DEF Record, Ack
<1>7. CASE Raise(j)
  BY <1>1, <1>7 DEF Raise, Raised
<1>5. CASE NoMetadata(j) \/ \E permanent \in BOOLEAN : Fail(j, permanent)
  BY <1>1, <1>5 DEF NoMetadata, Fail, RecordFailure
<1>6. CASE UpdateFails(j) \/ Die(j)
  BY <1>1, <1>6 DEF UpdateFails, Die, Raised
<1> QED
  BY <1>2, <1>3, <1>4, <1>5, <1>6, <1>7 DEF Delivery, Work

\* What an attempt that raised does to its message.
LEMMA RaisedIs ==
    ASSUME IInv, NEW j \in Jobs, NEW permanent \in BOOLEAN, Raised(j, permanent)
    PROVE  /\ should_retry(j, permanent) =>
                message'[j].at = "queue" /\ message'[j].retries = message[j].retries + 1
           /\ ~ should_retry(j, permanent) => message'[j].at = "dead"
<1>1. message \in [Jobs -> MessageType] /\ message[j] \in MessageType
  BY TypeIs DEF IInv
<1> HIDE DEF should_retry
<1>2. CASE should_retry(j, permanent)
  BY <1>1, <1>2 DEF Raised
<1>3. CASE ~ should_retry(j, permanent)
  BY <1>1, <1>3 DEF Raised, MessageType
<1> QED
  BY <1>2, <1>3

\* A failure that could be recorded: the row says what the broker will decide.
LEMMA FailureIs ==
    ASSUME IInv, NEW j \in Jobs, NEW permanent \in BOOLEAN, RecordFailure(j, permanent),
           work[j].pc # "idle"
    PROVE  /\ work'[j].pc = "raising" /\ work'[j].outcome = jobs'[j].status
           /\ jobs'[j].status \in {"failed", "dead", "queued"}
           /\ jobs'[j].status = "queued" <=> should_retry(j, jobs'[j].status = "failed")
           /\ jobs'[j].attempts = jobs[j].attempts /\ jobs'[j].version = jobs[j].version
           /\ jobs'[j].status = "dead" => jobs[j].attempts = MaxRetries + 1
           /\ documents' = documents /\ message' = message
<1>1. /\ jobs \in [Jobs -> JobType] /\ work \in [Jobs -> WorkType]
      /\ message[j] \in MessageType /\ MaxRetries \in Nat
  BY TypeIs, NumbersAssumption DEF IInv
<1>2. /\ jobs'[j].status = FailureStatus(j, permanent)
      /\ jobs'[j].attempts = jobs[j].attempts /\ jobs'[j].version = jobs[j].version
  BY <1>1 DEF RecordFailure, JobType
<1>3. /\ work'[j].pc = "raising" /\ work'[j].outcome = FailureStatus(j, permanent)
      /\ documents' = documents /\ message' = message
  BY <1>1 DEF RecordFailure, NoWork
<1>4. jobs[j].attempts = message[j].retries + 1 /\ message[j].retries \in 0 .. MaxRetries
  BY <1>1 DEF IInv, QueueInv, MessageType
<1>5. /\ FailureStatus(j, permanent) \in {"failed", "dead", "queued"}
      /\ FailureStatus(j, permanent) = "dead" => message[j].retries = MaxRetries
      /\ FailureStatus(j, permanent) = "queued" <=>
           should_retry(j, FailureStatus(j, permanent) = "failed")
  BY <1>1, <1>4 DEF FailureStatus, should_retry
<1> HIDE DEF FailureStatus, should_retry
<1> QED
  BY <1>2, <1>3, <1>4, <1>5

\* What a worker holds when ingest_file returns.
LEMMA ReturnsIs ==
    ASSUME IInv, NEW j \in Jobs, NEW outcome, NEW v, Returns(j, outcome, v)
    PROVE  work'[j].pc = "returned" /\ work'[j].outcome = outcome /\ work'[j].version = v
<1>1. work \in [Jobs -> WorkType] /\ work[j] \in WorkType
  BY TypeIs DEF IInv
<1>2. work'[j] = [work[j] EXCEPT !.pc = "returned", !.outcome = outcome, !.version = v]
  BY <1>1 DEF Returns, WorkType
<1> QED
  BY <1>1, <1>2 DEF WorkType

\* What the first comparison may find.
LEMMA CheckIs ==
    ASSUME IInv, NEW j \in Jobs, Check(j)
    PROVE  /\ Key(j) \in Keys /\ UNCHANGED <<up, files, jobs, message, documents, deletion>>
           /\ work[j].pc = "begun" /\ files[up[j].path].class # None
           /\ \/ \E v \in Active(Key(j)) :
                   /\ Same(documents[Key(j)][v], files[up[j].path])
                   /\ work'[j].pc = "returned" /\ work'[j].outcome = "unchanged"
                   /\ work'[j].version = v
              \/ work'[j].pc = "embedding" /\ work'[j].doc = files[up[j].path]
<1>1. work \in [Jobs -> WorkType]
  BY TypeIs DEF IInv
<1>2. work[j].pc = "begun" /\ files[up[j].path].class # None
  BY DEF Check, At
<1>3. Key(j) \in Keys
  BY <1>2, KeyIs
<1>4. ASSUME work' = [work EXCEPT ![j].pc = "embedding", ![j].doc = files[up[j].path]]
      PROVE  work'[j].pc = "embedding" /\ work'[j].doc = files[up[j].path]
  BY <1>1, <1>4 DEF WorkType
<1> QED
  BY <1>2, <1>3, <1>4, ReturnsIs DEF Check

\* What the second one may find, under the lock.
LEMMA LockIs ==
    ASSUME IInv, NEW j \in Jobs, Lock(j)
    PROVE  /\ Key(j) \in Keys /\ UNCHANGED <<up, files, jobs, message, documents, deletion>>
           /\ work[j].pc = "embedding" /\ Unlocked(Key(j))
           /\ \/ \E v \in Active(Key(j)) :
                   /\ Same(documents[Key(j)][v], work[j].doc)
                   /\ work'[j].pc = "returned" /\ work'[j].outcome = "unchanged"
                   /\ work'[j].version = v
              \/ /\ \A v \in Active(Key(j)) : ~ Same(documents[Key(j)][v], work[j].doc)
                 /\ work'[j].pc = "locked" /\ work'[j].doc = work[j].doc
                 /\ work'[j].active = Max({0} \cup Active(Key(j)))
<1>1. work \in [Jobs -> WorkType]
  BY TypeIs DEF IInv
<1>2. work[j].pc = "embedding"
  BY DEF Lock, At
<1>3. Key(j) \in Keys
  BY <1>2, KeyIs
<1>4. ASSUME NEW n, work' = [work EXCEPT ![j].pc = "locked", ![j].active = n]
      PROVE  work'[j].pc = "locked" /\ work'[j].doc = work[j].doc /\ work'[j].active = n
  BY <1>1, <1>4 DEF WorkType
<1> QED
  BY <1>2, <1>3, <1>4, ReturnsIs DEF Lock

\* What Swap makes of the rows of the document.
LEMMA SwapIs ==
    ASSUME IInv, NEW j \in Jobs, Swap(j)
    PROVE  LET k == Key(j)
               old == documents[k]
               new == documents'[k]
               n == Len(old) + 1
           IN  /\ k \in Keys /\ UNCHANGED <<up, files, jobs, message, deletion>>
               /\ work[j].pc = "locked" /\ Parsable(up[j].path, work[j].doc)
               /\ work'[j].pc = "returned" /\ work'[j].outcome = "succeeded" /\ work'[j].version = n
               /\ \A q \in Keys \ {k} : documents'[q] = documents[q]
               /\ old \in Seq(RowType) /\ DOMAIN old = 1 .. Len(old) /\ Len(old) \in Nat
               /\ new = Append(Retire(old, work[j].active, "superseded"), NewRow(j))
               /\ Len(new) = n /\ DOMAIN new = 1 .. n
               /\ new[n] = NewRow(j)
               /\ \A w \in 1 .. Len(old) :
                    new[w] = [body |-> old[w].body, class |-> old[w].class, live |-> FALSE,
                              status |-> IF w = work[j].active THEN "superseded"
                                         ELSE old[w].status]
<1> DEFINE k == Key(j)
           rows == Retire(documents[k], work[j].active, "superseded")
<1>1. work \in [Jobs -> WorkType] /\ documents \in [Keys -> Seq(RowType)]
  BY TypeIs DEF IInv
<1>2. work[j].pc = "locked"
  BY DEF Swap, At
<1>3. k \in Keys
  BY <1>2, KeyIs
<1>4. Parsable(up[j].path, work[j].doc)
  BY <1>2 DEF IInv, HeldInv
<1>5. work'[j].pc = "returned" /\ work'[j].outcome = "succeeded"
      /\ work'[j].version = Len(documents[k]) + 1
  BY ReturnsIs DEF Swap
<1>6. /\ documents[k] \in Seq(RowType) /\ DOMAIN documents[k] = 1 .. Len(documents[k])
      /\ Len(documents[k]) \in Nat
  BY <1>3, ActiveIs
<1>7. rows \in Seq(RowType) /\ Len(rows) = Len(documents[k])
  BY <1>6, Retired
<1>8. ASSUME NEW w \in 1 .. Len(documents[k])
       PROVE  rows[w] = [body |-> documents[k][w].body, class |-> documents[k][w].class,
                         live |-> FALSE, status |-> IF w = work[j].active THEN "superseded"
                                                    ELSE documents[k][w].status]
  <2>1. documents[k][w] \in RowType /\ w \in DOMAIN documents[k]
    BY <1>6
  <2> QED
    BY <2>1 DEF Retire, RowType
<1>9. NewRow(j) \in RowType
  BY <1>4 DEF NewRow, Parsable, RowType
<1>10. documents' = [documents EXCEPT ![k] = Append(rows, NewRow(j))]
  BY <1>1, <1>3 DEF Swap, Supersede
<1>11. UNCHANGED <<up, files, jobs, message, deletion>>
  BY DEF Swap
<1> HIDE DEF rows, k
<1>12. /\ documents'[k] = Append(rows, NewRow(j))
       /\ \A q \in Keys \ {k} : documents'[q] = documents[q]
  BY <1>1, <1>3, <1>10
<1>13. /\ Len(Append(rows, NewRow(j))) = Len(rows) + 1
       /\ DOMAIN Append(rows, NewRow(j)) = 1 .. Len(rows) + 1
       /\ Append(rows, NewRow(j))[Len(rows) + 1] = NewRow(j)
       /\ \A w \in 1 .. Len(rows) : Append(rows, NewRow(j))[w] = rows[w]
  BY <1>7, <1>9
<1> QED
  BY <1>2, <1>3, <1>4, <1>5, <1>6, <1>7, <1>8, <1>11, <1>12, <1>13 DEF rows, k

\* What DeactivateWrite makes of them.
LEMMA WithdrawIs ==
    ASSUME IInv, DeactivateWrite
    PROVE  LET k == deletion.key
               old == documents[k]
               new == documents'[k]
           IN  /\ k \in Keys /\ UNCHANGED <<up, files, jobs, message, work>>
               /\ deletion' = NoDeletion /\ deletion.version \in DOMAIN old
               /\ \A j \in Jobs :
                    ~ (work[j].pc = "locked" /\ Key(j) = k /\ work[j].active = deletion.version)
               /\ \A q \in Keys \ {k} : documents'[q] = documents[q]
               /\ old \in Seq(RowType) /\ DOMAIN old = 1 .. Len(old) /\ Len(old) \in Nat
               /\ new = Retire(old, deletion.version, "deleted")
               /\ Len(new) = Len(old) /\ DOMAIN new = DOMAIN old
               /\ \A w \in 1 .. Len(old) :
                    new[w] = [body |-> old[w].body, class |-> old[w].class, live |-> FALSE,
                              status |-> IF w = deletion.version THEN "deleted"
                                         ELSE old[w].status]
<1>1. documents \in [Keys -> Seq(RowType)]
  BY TypeIs DEF IInv
<1>2. deletion.key \in Keys /\ deletion.version \in DOMAIN documents[deletion.key]
  BY DEF IInv, DeletionInv, DeactivateWrite
<1>3. PICK k : k = deletion.key
  OBVIOUS
<1>4. k \in Keys /\ documents' = [documents EXCEPT ![k] = Retire(documents[k], deletion.version, "deleted")]
  BY <1>1, <1>2, <1>3 DEF DeactivateWrite
<1>5. /\ documents'[k] = Retire(documents[k], deletion.version, "deleted")
      /\ \A q \in Keys \ {k} : documents'[q] = documents[q]
  BY <1>1, <1>4
<1>6. /\ documents[k] \in Seq(RowType) /\ DOMAIN documents[k] = 1 .. Len(documents[k])
      /\ Len(documents[k]) \in Nat
  BY <1>4, ActiveIs
<1>7. /\ Len(Retire(documents[k], deletion.version, "deleted")) = Len(documents[k])
      /\ DOMAIN Retire(documents[k], deletion.version, "deleted") = DOMAIN documents[k]
  BY <1>6, Retired
<1>8. ASSUME NEW w \in 1 .. Len(documents[k])
      PROVE  Retire(documents[k], deletion.version, "deleted")[w] =
               [body |-> documents[k][w].body, class |-> documents[k][w].class,
                live |-> FALSE, status |-> IF w = deletion.version THEN "deleted"
                                           ELSE documents[k][w].status]
  <2>1. documents[k][w] \in RowType /\ w \in DOMAIN documents[k]
    BY <1>6
  <2> QED
    BY <2>1 DEF Retire, RowType
<1>9. /\ UNCHANGED <<up, files, jobs, message, work>> /\ deletion' = NoDeletion
      /\ \A j \in Jobs :
           ~ (work[j].pc = "locked" /\ Key(j) = deletion.key /\ work[j].active = deletion.version)
  BY DEF DeactivateWrite, At
<1> QED
  BY <1>2, <1>3, <1>4, <1>5, <1>6, <1>7, <1>8, <1>9

LEMMA QueueStep == ASSUME IInv, [Next]_vars, NEW i \in Jobs PROVE QueueInv(i)'
<1>1. /\ jobs \in [Jobs -> JobType] /\ message \in [Jobs -> MessageType]
      /\ work \in [Jobs -> WorkType] /\ up \in [Jobs -> UpType]
      /\ jobs[i] \in JobType /\ message[i] \in MessageType /\ work[i] \in WorkType
      /\ up[i] \in UpType /\ QueueInv(i) /\ HeldInv(i)
  BY TypeIs DEF IInv
<1> USE DEF At
<1>2. ASSUME up'[i].pc = "sent" <=> up[i].pc = "sent",
             up'[i].pc = "committed" => up[i].pc = "committed", message'[i] = message[i],
             jobs'[i] = jobs[i], work'[i] = work[i], i \in stale' <=> i \in stale
      PROVE  QueueInv(i)'
  BY <1>1, <1>2 DEF QueueInv, RowFollowsMessage, Settling, should_retry
<1>3. ASSUME NEW j \in Jobs, Request(j) PROVE QueueInv(i)'
  <2>1. work' = work /\ stale' = stale
    BY <1>3, RequestFrame
  <2>2. CASE \E o \in Offers : UploadDocument(j, o)
    <3>1. up[j].pc = "new" /\ message' = message /\ jobs' = jobs
      BY <2>2 DEF UploadDocument
    <3>2. up'[j].pc \notin {"sent", "committed"} /\ (i # j => up'[i] = up[i])
      BY <1>1, <2>2 DEF UploadDocument, UpType
    <3> QED
      BY <1>2, <2>1, <3>1, <3>2
  <2>3. CASE \E p \in Paths : Discover(j, p)
    <3>1. up[j].pc = "new" /\ message' = message /\ jobs' = jobs
      BY <2>3 DEF Discover
    <3>2. up'[j].pc \notin {"sent", "committed"} /\ (i # j => up'[i] = up[i])
      BY <1>1, <2>3 DEF Discover
    <3> QED
      BY <1>2, <2>1, <3>1, <3>2
  <2>4. CASE WriteFile(j) \/ WriteSidecar(j)
    <3>1. up[j].pc # "sent" /\ message' = message /\ jobs' = jobs
      BY <2>4 DEF WriteFile, WriteSidecar
    <3>2. PICK pc \in {"half", "stored"} : up' = [up EXCEPT ![j].pc = pc]
      BY <2>4 DEF WriteFile, WriteSidecar
    <3>3. up'[j].pc \notin {"sent", "committed"} /\ (i # j => up'[i] = up[i])
      BY <1>1, <3>2 DEF UpType
    <3> QED
      BY <1>2, <2>1, <3>1, <3>3
  <2>5. CASE CommitJob(j)
    <3>1. up[j].pc = "stored" /\ message' = message
      BY <2>5 DEF CommitJob
    <3>2. up'[j].pc # "sent" /\ (i # j => up'[i] = up[i])
      BY <1>1, <2>5 DEF CommitJob, UpType
    <3>3. i # j => jobs'[i] = jobs[i]
      BY <1>1, <2>5 DEF CommitJob
    <3>4. CASE i = j
      <4>1. jobs'[i].status = "queued" /\ jobs'[i].version = jobs[i].version
        BY <1>1, <2>5, <3>4 DEF CommitJob, JobType
      <4>2. message[i].at = "none"
        BY <1>1, <3>1, <3>4 DEF QueueInv
      <4>3. message'[i] = message[i] /\ work'[i] = work[i] /\ up'[i].pc # "sent"
        BY <2>1, <3>1, <3>2, <3>4
      <4>4. work[i].pc = "idle"
        BY <1>1, <4>2 DEF QueueInv
      <4> QED
        BY <1>1, <4>1, <4>2, <4>3, <4>4 DEF QueueInv, RowFollowsMessage, Ends
    <3> QED
      BY <1>2, <2>1, <3>1, <3>2, <3>3, <3>4
  <2>6. CASE Send(j)
    <3>1. up[j].pc = "committed" /\ jobs' = jobs
      BY <2>6 DEF Send
    <3>2. up'[j].pc = "sent" /\ (i # j => up'[i] = up[i])
      BY <1>1, <2>6 DEF Send, UpType
    <3>3. message'[j].at = "queue" /\ (i # j => message'[i] = message[i])
      BY <1>1, <2>6 DEF Send, MessageType
    <3>4. CASE i = j
      <4>1. message[i].at = "none" /\ work[i].pc = "idle" /\ jobs[i].status = "queued"
        BY <1>1, <3>1, <3>4 DEF QueueInv
      <4>2. work'[i] = work[i] /\ jobs'[i] = jobs[i]
        BY <2>1, <3>1
      <4> QED
        BY <3>2, <3>3, <3>4, <4>1, <4>2 DEF QueueInv, RowFollowsMessage, Ends
    <3> QED
      BY <1>2, <2>1, <3>1, <3>2, <3>3, <3>4
  <2> QED
    BY <1>3, <2>2, <2>3, <2>4, <2>5, <2>6 DEF Request
<1>4. ASSUME Delivery(i) PROVE QueueInv(i)'
  <2>1. up' = up
    BY <1>4, DeliveryFrame
  <2>2. CASE Take(i)
    <3>1. message[i].at = "queue" /\ up[i].pc = "sent"
      BY <1>1, <2>2 DEF Take, QueueInv
    <3>2. message'[i].at = "held" /\ message'[i].retries = message[i].retries
      BY <1>1, <2>2 DEF Take, MessageType
    <3>3. jobs'[i].status = "running" /\ jobs'[i].attempts = message[i].retries + 1
      BY <1>1, <2>2 DEF Take, JobType
    <3>4. work'[i].pc = "begun"
      BY <1>1, <2>2 DEF Take, NoWork
    <3> QED
      BY <2>1, <3>1, <3>2, <3>3, <3>4 DEF QueueInv, RowFollowsMessage, Ends
  <2>3. CASE Check(i) \/ Lock(i) \/ Swap(i)
    <3>1. /\ work[i].pc \in {"begun", "embedding", "locked"} /\ message' = message /\ jobs' = jobs
          /\ stale' = stale
      BY <2>3 DEF Check, Lock, Swap
    <3>2. work'[i].pc \in {"embedding", "locked", "returned"}
      BY <2>3, CheckIs, LockIs, SwapIs
    <3> QED
      BY <1>1, <2>1, <3>1, <3>2 DEF QueueInv, RowFollowsMessage, Settling
  <2>4. CASE Record(i)
    <3>1. work[i].pc = "returned" /\ message' = message
      BY <2>4 DEF Record
    <3>2. work[i].outcome \in Ends
      BY <1>1, <3>1 DEF HeldInv
    <3>3. jobs'[i].status = work[i].outcome /\ jobs'[i].attempts = jobs[i].attempts
      BY <1>1, <2>4 DEF Record, JobType
    <3>4. work'[i].pc = "recorded"
      BY <1>1, <2>4 DEF Record, WorkType
    <3> QED
      BY <1>1, <2>1, <3>1, <3>2, <3>3, <3>4 DEF QueueInv, Settling, Ends
  <2>5. CASE Ack(i)
    <3>1. work[i].pc = "recorded" /\ jobs' = jobs
      BY <2>5 DEF Ack
    <3>2. message'[i].at = "acked"
      BY <1>1, <2>5 DEF Ack, MessageType
    <3>3. work'[i].pc = "idle"
      BY <1>1, <2>5 DEF Ack, NoWork
    <3> QED
      BY <1>1, <2>1, <3>1, <3>2, <3>3 DEF QueueInv, RowFollowsMessage, Ends
  <2>6. ASSUME NEW permanent \in BOOLEAN, RecordFailure(i, permanent), work[i].pc # "idle"
        PROVE  QueueInv(i)'
    <3>1. up[i].pc = "sent" /\ message[i].at = "held" /\ jobs[i].attempts = message[i].retries + 1
      BY <1>1, <2>6 DEF QueueInv
    <3>2. /\ work'[i].pc = "raising" /\ work'[i].outcome = jobs'[i].status
          /\ jobs'[i].status \in {"failed", "dead", "queued"}
          /\ jobs'[i].status = "queued" <=> should_retry(i, jobs'[i].status = "failed")
          /\ jobs'[i].attempts = jobs[i].attempts
          /\ jobs'[i].status = "dead" => jobs[i].attempts = MaxRetries + 1
          /\ message' = message
      BY <2>6, FailureIs
    <3> QED
      BY <2>1, <3>1, <3>2 DEF QueueInv, Settling, should_retry
  <2>10. CASE Raise(i)
    <3>1. work[i].pc = "raising" /\ jobs' = jobs
      BY <2>10 DEF Raise
    <3>2. /\ jobs[i].status = work[i].outcome /\ work[i].outcome \in {"queued", "failed", "dead"}
          /\ work[i].outcome = "queued" <=> should_retry(i, work[i].outcome = "failed")
      BY <1>1, <3>1 DEF QueueInv
    <3>3. message'[i].at = IF work[i].outcome = "queued" THEN "queue" ELSE "dead"
      BY <2>10, <3>2, RaisedIs DEF Raise
    <3>4. work'[i].pc = "idle"
      BY <1>1, <2>10 DEF Raise, NoWork
    <3>5. up[i].pc = "sent"
      BY <1>1, <3>1 DEF QueueInv
    <3>6. jobs[i].status = "dead" => jobs[i].attempts = MaxRetries + 1
      BY <1>1 DEF QueueInv
    <3> QED
      BY <2>1, <3>1, <3>2, <3>3, <3>4, <3>5, <3>6 DEF QueueInv, RowFollowsMessage, Ends
  <2>7. CASE NoMetadata(i) \/ \E permanent \in BOOLEAN : Fail(i, permanent)
    BY <2>6, <2>7 DEF NoMetadata, Fail
  <2>8. CASE UpdateFails(i)
    <3>1. message[i].at \in {"queue", "held"} /\ jobs' = jobs
      BY <1>1, <2>8 DEF UpdateFails, QueueInv
    <3>2. message'[i].at \in {"queue", "dead"}
      BY <2>8, RaisedIs DEF UpdateFails
    <3>3. work'[i].pc = "idle" /\ i \in stale'
      BY <1>1, <2>8 DEF UpdateFails, NoWork
    <3> QED
      BY <1>1, <2>1, <3>1, <3>2, <3>3 DEF QueueInv
  <2>9. CASE Die(i)
    <3>1. message[i].at = "held" /\ jobs' = jobs
      BY <1>1, <2>9 DEF Die, QueueInv
    <3>2. message'[i].at = "queue"
      BY <1>1, <2>9 DEF Die, MessageType
    <3>3. work'[i].pc = "idle" /\ i \in stale'
      BY <1>1, <2>9 DEF Die, NoWork
    <3> QED
      BY <1>1, <2>1, <3>1, <3>2, <3>3 DEF QueueInv
  <2> QED
    BY <1>4, <2>2, <2>3, <2>4, <2>5, <2>7, <2>8, <2>9, <2>10 DEF Delivery, Work
<1>5. ASSUME NEW j \in Jobs, Delivery(j) PROVE QueueInv(i)'
  <2>1. CASE i # j
    <3>1. /\ message'[i] = message[i] /\ jobs'[i] = jobs[i] /\ work'[i] = work[i]
          /\ i \in stale' <=> i \in stale
      BY <1>5, <2>1, Elsewhere
    <3>2. up' = up
      BY <1>5, DeliveryFrame
    <3> QED
      BY <1>2, <3>1, <3>2
  <2> QED
    BY <1>4, <1>5, <2>1
<1>6. CASE UNCHANGED <<up, files, jobs, message, work, faults, stale>>
  BY <1>2, <1>6
<1> QED
  BY <1>3, <1>5, <1>6, Kinds, OtherFrame

-----------------------------------------------------------------------------
(* Versions *)

\* Only Swap adds a version.
LEMMA OnlySwap ==
    ASSUME NEW j \in Jobs, Delivery(j), ~ Swap(j)
    PROVE  documents' = documents
BY DEF Delivery, Work, UpdateFails, Die, Fail, Take, Check, NoMetadata, Lock, Record, Ack,
       RecordFailure, Raise

\* Versions stay on record, with their body and their class.
LEMMA OnRecord ==
    ASSUME IInv, [Next]_vars, NEW k \in Keys
    PROVE  \A v \in DOMAIN documents[k] :
             /\ v \in DOMAIN documents'[k]
             /\ documents'[k][v].body = documents[k][v].body
             /\ documents'[k][v].class = documents[k][v].class
<1>1. CASE documents'[k] = documents[k]
  BY <1>1
<1>2. ASSUME NEW j \in Jobs, Delivery(j), ~ Swap(j) PROVE documents' = documents
  BY <1>2, OnlySwap
<1>3. ASSUME NEW j \in Jobs, Swap(j), k = Key(j)
      PROVE  \A v \in DOMAIN documents[k] :
               /\ v \in DOMAIN documents'[k]
               /\ documents'[k][v].body = documents[k][v].body
               /\ documents'[k][v].class = documents[k][v].class
  <2>1. /\ DOMAIN documents[k] = 1 .. Len(documents[k]) /\ Len(documents[k]) \in Nat
        /\ DOMAIN documents'[k] = 1 .. Len(documents[k]) + 1
        /\ \A w \in 1 .. Len(documents[k]) :
             documents'[k][w] = [body |-> documents[k][w].body, class |-> documents[k][w].class,
                                 live |-> FALSE, status |-> IF w = work[j].active THEN "superseded"
                                                            ELSE documents[k][w].status]
    BY <1>3, SwapIs
  <2> TAKE v \in DOMAIN documents[k]
  <2>2. v \in DOMAIN documents'[k]
    BY <2>1
  <2>3. documents'[k][v] = [body |-> documents[k][v].body, class |-> documents[k][v].class,
                            live |-> FALSE, status |-> IF v = work[j].active THEN "superseded"
                                                       ELSE documents[k][v].status]
    BY <2>1, Zenon
  <2> QED
    BY <2>2, <2>3
<1>4. ASSUME NEW j \in Jobs, Swap(j), k # Key(j) PROVE documents'[k] = documents[k]
  BY <1>4, SwapIs
<1>5. CASE DeactivateWrite /\ k = deletion.key
  <2>1. /\ DOMAIN documents'[k] = DOMAIN documents[k] /\ DOMAIN documents[k] = 1 .. Len(documents[k])
        /\ \A w \in 1 .. Len(documents[k]) :
             documents'[k][w] = [body |-> documents[k][w].body, class |-> documents[k][w].class,
                                 live |-> FALSE, status |-> IF w = deletion.version THEN "deleted"
                                                            ELSE documents[k][w].status]
    BY <1>5, WithdrawIs
  <2> TAKE v \in DOMAIN documents[k]
  <2>2. v \in DOMAIN documents'[k]
    BY <2>1
  <2>3. documents'[k][v] = [body |-> documents[k][v].body, class |-> documents[k][v].class,
                            live |-> FALSE, status |-> IF v = deletion.version THEN "deleted"
                                                       ELSE documents[k][v].status]
    BY <2>1, Zenon
  <2> QED
    BY <2>2, <2>3
<1>6. CASE DeactivateWrite /\ k # deletion.key
  BY <1>1, <1>6, WithdrawIs
<1>7. CASE (\E q \in Keys : DeactivateRead(q)) \/ UNCHANGED vars
  BY <1>1, <1>7 DEF DeactivateRead, vars
<1> QED
  BY <1>1, <1>2, <1>3, <1>4, <1>5, <1>6, <1>7, Kinds, RequestFrame

\* So a version that was named stays named.
LEMMA NamesLast ==
    ASSUME IInv, [Next]_vars, NEW i \in Jobs, message[i].at # "none", NEW n, Names(i, n)
    PROVE  Names(i, n)'
<1>1. up[i].pc = "sent" /\ Key(i) \in Keys
  BY KeyIs
<1>2. up'[i].path = up[i].path
  BY <1>1, Kept
<1>3. PICK k, b, p : k = Key(i) /\ b = documents[k][n].body /\ p = up[i].path
  OBVIOUS
<1>4. n \in DOMAIN documents'[k] /\ documents'[k][n].body = b /\ Uploaded(b, p)
  BY <1>1, <1>3, OnRecord DEF Names
<1>5. Uploaded(b, p)'
  BY <1>4, Lasts
<1>6. Key(i)' = k
  BY <1>2, <1>3 DEF Key
<1> QED
  BY <1>2, <1>3, <1>4, <1>5, <1>6 DEF Names

\* The active version that equals a document of the file of the job.
LEMMA SameIsNamed ==
    ASSUME IInv, NEW i \in Jobs, NEW v \in Active(Key(i)), NEW doc, Parsable(up[i].path, doc),
           Same(documents[Key(i)][v], doc)
    PROVE  Names(i, v)
BY DEF Names, Active, Same, Parsable

\* The file, when it has metadata, and what a worker has parsed of it last.
LEMMA ParsableLasts ==
    ASSUME IInv, [Next]_vars, NEW i \in Jobs, up[i].pc # "new", NEW doc, Parsable(up[i].path, doc)
    PROVE  Parsable(up[i].path, doc)'
<1>1. PICK p : p = up[i].path
  OBVIOUS
<1>2. Uploaded(doc.body, p)' /\ Classified(p, doc.body, doc.class)'
  BY <1>1, Lasts DEF Parsable
<1>3. up'[i].path = p
  BY <1>1, Kept
<1> QED
  BY <1>2, <1>3 DEF Parsable

LEMMA HeldStep == ASSUME IInv, [Next]_vars, NEW i \in Jobs PROVE HeldInv(i)'
<1>1. /\ jobs \in [Jobs -> JobType] /\ message \in [Jobs -> MessageType]
      /\ work \in [Jobs -> WorkType]
      /\ jobs[i] \in JobType /\ work[i] \in WorkType /\ HeldInv(i) /\ QueueInv(i)
  BY TypeIs DEF IInv
<1> USE DEF At
<1>2. jobs[i].version # 0 \/ jobs[i].status \in Ends => message[i].at # "none"
  BY <1>1 DEF QueueInv, Ends
<1>3. work[i].pc # "idle" => message[i].at # "none"
  BY <1>1 DEF QueueInv
<1>4. ASSUME jobs'[i].version = jobs[i].version, jobs'[i].status \in Ends => jobs[i].status \in Ends
      PROVE  (jobs[i].version # 0 \/ jobs[i].status \in Ends => Names(i, jobs[i].version))'
  <2>1. PICK n : n = jobs[i].version
    OBVIOUS
  <2>2. jobs'[i].version # 0 \/ jobs'[i].status \in Ends => Names(i, n)'
    BY <1>1, <1>2, <1>4, <2>1, NamesLast DEF HeldInv
  <2>3. jobs'[i].version = n
    BY <1>4, <2>1
  <2> QED
    BY <2>2, <2>3 DEF Names
<1>5. ASSUME NEW doc, work'[i].doc = doc, Parsable(up[i].path, doc), message[i].at # "none",
             work'[i].pc \in {"embedding", "locked"}, jobs' = jobs
      PROVE  HeldInv(i)'
  <2>1. Parsable(up[i].path, doc)'
    BY <1>5, KeyIs, ParsableLasts
  <2>2. Parsable(up[i].path, work[i].doc)'
    BY <1>5, <2>1 DEF Parsable
  <2> QED
    BY <1>4, <1>5, <2>2 DEF HeldInv
<1>6. ASSUME NEW n, work'[i].version = n, Names(i, n), message[i].at # "none",
             work'[i].pc = "returned", work'[i].outcome \in Ends, jobs' = jobs
      PROVE  HeldInv(i)'
  <2>1. Names(i, n)'
    BY <1>6, NamesLast
  <2>2. Names(i, work[i].version)'
    BY <1>6, <2>1 DEF Names
  <2> QED
    BY <1>4, <1>6, <2>2 DEF HeldInv
<1>7. ASSUME work'[i] = work[i], jobs'[i].version = jobs[i].version,
             jobs'[i].status \in Ends => jobs[i].status \in Ends
      PROVE  HeldInv(i)'
  <2>1. PICK doc, n : doc = work[i].doc /\ n = work[i].version
    OBVIOUS
  <2>2. work[i].pc \in {"embedding", "locked"} => Parsable(up[i].path, doc)'
    BY <1>1, <1>3, <2>1, KeyIs, ParsableLasts DEF HeldInv
  <2>3. work[i].pc = "returned" => work[i].outcome \in Ends /\ Names(i, n)'
    BY <1>1, <1>3, <2>1, NamesLast DEF HeldInv
  <2>4. work'[i].doc = doc /\ work'[i].version = n
    BY <1>7, <2>1
  <2>5. (work[i].pc \in {"embedding", "locked"} => Parsable(up[i].path, work[i].doc))'
    BY <1>7, <2>2, <2>4 DEF Parsable
  <2>6. (work[i].pc = "returned" => work[i].outcome \in Ends /\ Names(i, work[i].version))'
    BY <1>7, <2>3, <2>4 DEF Names
  <2> QED
    BY <1>4, <1>7, <2>5, <2>6 DEF HeldInv
<1>8. ASSUME work'[i].pc \in {"idle", "begun", "raising"}, jobs'[i].version = jobs[i].version,
             jobs'[i].status \in Ends => jobs[i].status \in Ends
      PROVE  HeldInv(i)'
  BY <1>4, <1>8 DEF HeldInv
<1>9. ASSUME NEW j \in Jobs, Request(j) PROVE HeldInv(i)'
  <2>1. work' = work
    BY <1>9, RequestFrame
  <2>2. CASE CommitJob(j)
    <3>1. jobs'[i].version = jobs[i].version /\ (jobs'[i].status \in Ends => jobs[i].status \in Ends)
      BY <1>1, <2>2 DEF CommitJob, JobType, Ends
    <3> QED
      BY <1>7, <2>1, <3>1
  <2>3. CASE ~ CommitJob(j)
    <3>1. jobs' = jobs
      BY <1>9, <2>3 DEF Request, UploadDocument, Discover, WriteFile, WriteSidecar, Send
    <3> QED
      BY <1>7, <2>1, <3>1
  <2> QED
    BY <2>2, <2>3
<1>10. ASSUME Delivery(i) PROVE HeldInv(i)'
  <2>1. CASE Take(i)
    <3>1. jobs'[i].status = "running" /\ jobs'[i].version = jobs[i].version
      BY <1>1, <2>1 DEF Take, JobType
    <3>2. work'[i].pc = "begun"
      BY <1>1, <2>1 DEF Take, NoWork
    <3> QED
      BY <1>8, <3>1, <3>2 DEF Ends
  <2>2. CASE Check(i)
    <3>1. PICK doc : doc = files[up[i].path]
      OBVIOUS
    <3>2. jobs' = jobs /\ work[i].pc = "begun" /\ up[i].path \in Paths
      BY <2>2, CheckIs, KeyIs
    <3>3. Parsable(up[i].path, doc)
      BY <2>2, <3>1, <3>2, CheckIs DEF IInv, FileInv
    <3>4. CASE work'[i].pc = "embedding" /\ work'[i].doc = doc
      BY <1>3, <1>5, <3>2, <3>3, <3>4
    <3>5. ASSUME NEW v \in Active(Key(i)), Same(documents[Key(i)][v], doc), work'[i].pc = "returned",
                 work'[i].outcome = "unchanged", work'[i].version = v
          PROVE  HeldInv(i)'
      <4>1. Names(i, v)
        BY <3>3, <3>5, SameIsNamed
      <4> QED
        BY <1>3, <1>6, <3>2, <3>5, <4>1 DEF Ends
    <3> QED
      BY <2>2, <3>1, <3>4, <3>5, CheckIs
  <2>3. CASE Lock(i)
    <3>1. PICK doc : doc = work[i].doc
      OBVIOUS
    <3>2. jobs' = jobs /\ work[i].pc = "embedding"
      BY <2>3, LockIs
    <3>3. Parsable(up[i].path, doc)
      BY <1>1, <3>1, <3>2 DEF HeldInv
    <3>4. CASE work'[i].pc = "locked" /\ work'[i].doc = doc
      BY <1>3, <1>5, <3>2, <3>3, <3>4
    <3>5. ASSUME NEW v \in Active(Key(i)), Same(documents[Key(i)][v], doc), work'[i].pc = "returned",
                 work'[i].outcome = "unchanged", work'[i].version = v
          PROVE  HeldInv(i)'
      <4>1. Names(i, v)
        BY <3>3, <3>5, SameIsNamed
      <4> QED
        BY <1>3, <1>6, <3>2, <3>5, <4>1 DEF Ends
    <3> QED
      BY <2>3, <3>1, <3>4, <3>5, LockIs
  <2>4. CASE Swap(i)
    <3>1. PICK n, k, b, p : n = Len(documents[Key(i)]) + 1 /\ k = Key(i)
                            /\ b = work[i].doc.body /\ p = up[i].path
      OBVIOUS
    <3>2. /\ k \in Keys /\ jobs' = jobs /\ up' = up /\ work[i].pc = "locked"
          /\ work'[i].pc = "returned"
          /\ work'[i].outcome = "succeeded" /\ work'[i].version = n
          /\ DOMAIN documents'[k] = 1 .. n /\ n \in Nat \ {0} /\ documents'[k][n] = NewRow(i)
      BY <2>4, <3>1, SwapIs
    <3>3. Uploaded(b, p)
      BY <2>4, <3>1, SwapIs DEF Parsable
    <3>4. Uploaded(b, p)'
      BY <3>3, Lasts
    <3>5. n \in DOMAIN documents'[k] /\ documents'[k][n].body = b
      BY <3>1, <3>2 DEF NewRow
    <3>6. Key(i)' = k /\ up'[i].path = p
      BY <3>1, <3>2 DEF Key
    <3>7. Names(i, work[i].version)'
      BY <3>2, <3>4, <3>5, <3>6 DEF Names
    <3> QED
      BY <1>4, <3>2, <3>7 DEF HeldInv, Ends
  <2>5. CASE Record(i)
    <3>1. PICK n : n = work[i].version
      OBVIOUS
    <3>2. work[i].pc = "returned" /\ Names(i, n)
      BY <1>1, <2>5, <3>1 DEF Record, HeldInv
    <3>3. Names(i, n)'
      BY <1>3, <3>2, NamesLast
    <3>4. jobs'[i].version = n
      BY <1>1, <2>5, <3>1 DEF Record, JobType
    <3>5. work'[i].pc = "recorded"
      BY <1>1, <2>5 DEF Record, WorkType
    <3>6. Names(i, jobs[i].version)'
      BY <3>3, <3>4 DEF Names
    <3> QED
      BY <3>5, <3>6 DEF HeldInv
  <2>6. ASSUME NEW permanent \in BOOLEAN, RecordFailure(i, permanent), work[i].pc # "idle"
        PROVE  HeldInv(i)'
    BY <1>8, <2>6, FailureIs DEF Ends
  <2>7. CASE NoMetadata(i) \/ \E permanent \in BOOLEAN : Fail(i, permanent)
    BY <2>6, <2>7 DEF NoMetadata, Fail
  <2>8. CASE Ack(i) \/ UpdateFails(i) \/ Die(i) \/ Raise(i)
    <3>1. jobs' = jobs /\ work' = [work EXCEPT ![i] = NoWork]
      BY <2>8 DEF Ack, UpdateFails, Die, Raise
    <3>2. work'[i].pc = "idle"
      BY <1>1, <3>1 DEF NoWork
    <3> QED
      BY <1>8, <3>1, <3>2
  <2> QED
    BY <1>10, <2>1, <2>2, <2>3, <2>4, <2>5, <2>7, <2>8 DEF Delivery, Work
<1>11. ASSUME NEW j \in Jobs, Delivery(j) PROVE HeldInv(i)'
  BY <1>7, <1>10, <1>11, Elsewhere
<1>12. CASE UNCHANGED <<up, files, jobs, message, work, faults, stale>>
  BY <1>7, <1>12
<1> QED
  BY <1>9, <1>11, <1>12, Kinds, OtherFrame

\* Only Lock enters the critical section of a document.
LEMMA OnlyLock ==
    ASSUME IInv, NEW j \in Jobs, Delivery(j), work'[j].pc = "locked"
    PROVE  Lock(j)
<1>1. jobs \in [Jobs -> JobType] /\ work \in [Jobs -> WorkType]
  BY TypeIs DEF IInv
<1>2. CASE Take(j)
  BY <1>1, <1>2 DEF Take, NoWork
<1>3. CASE Check(j) \/ Swap(j)
  BY <1>3, CheckIs, SwapIs
<1>4. CASE Record(j)
  BY <1>1, <1>4 DEF Record, WorkType
<1>6. CASE NoMetadata(j) \/ \E permanent \in BOOLEAN : Fail(j, permanent)
  <2>1. PICK permanent \in BOOLEAN : RecordFailure(j, permanent) /\ work[j].pc # "idle"
    BY <1>6 DEF NoMetadata, Fail, At
  <2> QED
    BY <2>1, FailureIs
<1>5. CASE Ack(j) \/ UpdateFails(j) \/ Die(j) \/ Raise(j)
  <2>1. work' = [work EXCEPT ![j] = NoWork]
    BY <1>5 DEF Ack, UpdateFails, Die, Raise
  <2> QED
    BY <1>1, <2>1 DEF NoWork
<1> QED
  BY <1>2, <1>3, <1>4, <1>5, <1>6 DEF Delivery, Work

LEMMA LockStep == ASSUME IInv, [Next]_vars, NEW i \in Jobs PROVE LockInv(i)'
<1>1. LockInv(i)
  BY DEF IInv
<1>2. ASSUME NEW k, k = Key(i), Key(i)' = k, work[i].pc = "locked", work'[i] = work[i],
             documents'[k] = documents[k],
             \A j \in Jobs : (work[j].pc = "locked")' /\ Key(j)' = k =>
                               work[j].pc = "locked" /\ Key(j) = k
      PROVE  LockInv(i)'
  <2>1. Active(k)' = Active(k)
    BY <1>2 DEF Active
  <2>2. /\ \A j \in Jobs : work[j].pc = "locked" /\ Key(j) = k => j = i
        /\ Active(k) = IF work[i].active = 0 THEN {} ELSE {work[i].active}
        /\ \A v \in Active(k) : ~ Same(documents[k][v], work[i].doc)
    BY <1>1, <1>2 DEF LockInv
  <2>3. \A v \in Active(k) : ~ Same(documents'[k][v], work'[i].doc)
    BY <1>2, <2>2
  <2>4. /\ \A j \in Jobs : (work[j].pc = "locked")' /\ Key(j)' = k => j = i
        /\ Active(k)' = IF work'[i].active = 0 THEN {} ELSE {work'[i].active}
        /\ \A v \in Active(k)' : ~ Same(documents[k][v], work[i].doc)'
    BY <1>2, <2>1, <2>2, <2>3 DEF Same
  <2> QED
    BY <1>2, <2>4 DEF LockInv, Active
<1>3. ASSUME work'[i].pc # "locked" PROVE LockInv(i)'
  BY <1>3 DEF LockInv
<1>4. ASSUME NEW j \in Jobs, Request(j), work[i].pc = "locked" PROVE LockInv(i)'
  <2>1. work' = work /\ documents' = documents
    BY <1>4, RequestFrame
  <2>2. \A h \in Jobs : work[h].pc = "locked" => Key(h)' = Key(h)
    BY KeyIs, Kept DEF Key
  <2> QED
    BY <1>2, <1>4, <2>1, <2>2
<1>5. ASSUME NEW j \in Jobs, Delivery(j), j # i, work[i].pc = "locked" PROVE LockInv(i)'
  <2>1. work'[i] = work[i] /\ up' = up
    BY <1>5, Elsewhere, DeliveryFrame
  <2>2. PICK k : k = Key(i)
    OBVIOUS
  <2>3. \A h \in Jobs : Key(h)' = Key(h)
    BY <2>1 DEF Key
  <2>4. \A h \in Jobs \ {j} : work'[h] = work[h]
    BY <1>5, Elsewhere
  <2>5. work'[j].pc = "locked" => Key(j) # k
    <3>1. work'[j].pc = "locked" => Unlocked(Key(j))
      BY <1>5, OnlyLock, LockIs
    <3> QED
      BY <1>5, <2>2, <3>1 DEF Unlocked, At
  <2>6. documents'[k] = documents[k]
    <3>1. CASE Swap(j)
      <4>1. Key(j) # k
        BY <1>1, <1>5, <2>2, <3>1, SwapIs DEF LockInv
      <4>2. k \in Keys
        BY <1>5, <2>2, KeyIs
      <4> QED
        BY <3>1, <4>1, <4>2, SwapIs
    <3> QED
      BY <1>5, <3>1, OnlySwap
  <2>7. \A h \in Jobs : (work[h].pc = "locked")' /\ Key(h)' = k =>
                          work[h].pc = "locked" /\ Key(h) = k
    BY <2>3, <2>4, <2>5
  <2> QED
    BY <1>2, <1>5, <2>1, <2>2, <2>3, <2>6, <2>7
<1>6. ASSUME Lock(i), work'[i].pc = "locked" PROVE LockInv(i)'
  <2>1. PICK k : k = Key(i)
    OBVIOUS
  <2>2. /\ k \in Keys /\ Unlocked(k) /\ up' = up /\ documents' = documents
        /\ \A v \in Active(k) : ~ Same(documents[k][v], work[i].doc)
        /\ work'[i].doc = work[i].doc /\ work'[i].active = Max({0} \cup Active(k))
    BY <1>6, <2>1, LockIs
  <2>3. /\ Active(k) = {} \/ Active(k) = {Len(documents[k])}
        /\ Max({0} \cup Active(k)) = IF Active(k) = {} THEN 0 ELSE Len(documents[k])
        /\ \A v \in Active(k) : v \in 1 .. Len(documents[k])
    BY <2>2, ActiveIs
  <2>4. Active(k) = IF work'[i].active = 0 THEN {} ELSE {work'[i].active}
    BY <2>2, <2>3
  <2>5. \A h \in Jobs : Key(h)' = Key(h)
    BY <2>2 DEF Key
  <2>6. \A h \in Jobs \ {i} : work'[h] = work[h]
    BY <1>6, Elsewhere DEF Delivery, Work
  <2>7. \A h \in Jobs : (work[h].pc = "locked")' /\ Key(h)' = k => h = i
    BY <2>2, <2>5, <2>6 DEF Unlocked, At
  <2>8. Active(k)' = Active(k)
    BY <2>2 DEF Active
  <2>9. \A v \in Active(k)' : ~ Same(documents[k][v], work[i].doc)'
    BY <2>2, <2>8 DEF Same
  <2> QED
    BY <2>1, <2>4, <2>5, <2>7, <2>8, <2>9 DEF LockInv, Active
<1>7. CASE DeactivateWrite /\ work[i].pc = "locked"
  <2>1. PICK k, d : k = Key(i) /\ d = deletion.version
    OBVIOUS
  <2>2. k \in Keys
    BY <1>7, <2>1, KeyIs
  <2>3. up' = up /\ work' = work
    BY <1>7, WithdrawIs
  <2>4. \A h \in Jobs : Key(h)' = Key(h)
    BY <2>3 DEF Key
  <2>5. CASE deletion.key # k
    <3>1. documents'[k] = documents[k]
      BY <1>7, <2>2, <2>5, WithdrawIs
    <3> QED
      BY <1>2, <1>7, <2>1, <2>3, <2>4, <3>1
  <2>6. CASE deletion.key = k
    <3>1. /\ work[i].active # d /\ DOMAIN documents'[k] = DOMAIN documents[k]
          /\ DOMAIN documents[k] = 1 .. Len(documents[k])
          /\ \A w \in 1 .. Len(documents[k]) :
               documents'[k][w] = [body |-> documents[k][w].body, class |-> documents[k][w].class,
                                   live |-> FALSE, status |-> IF w = d THEN "deleted"
                                                              ELSE documents[k][w].status]
      BY <1>7, <2>1, <2>6, WithdrawIs
    <3>2. /\ \A j \in Jobs : work[j].pc = "locked" /\ Key(j) = k => j = i
          /\ Active(k) = IF work[i].active = 0 THEN {} ELSE {work[i].active}
          /\ \A v \in Active(k) : ~ Same(documents[k][v], work[i].doc)
      BY <1>1, <1>7, <2>1 DEF LockInv
    <3>3. d \notin Active(k)
      BY <3>1, <3>2
    <3>4. \A w \in DOMAIN documents[k] :
            documents'[k][w].status = IF w = d THEN "deleted" ELSE documents[k][w].status
      <4> TAKE w \in DOMAIN documents[k]
      <4>1. documents'[k][w] = [body |-> documents[k][w].body, class |-> documents[k][w].class,
                                live |-> FALSE, status |-> IF w = d THEN "deleted"
                                                           ELSE documents[k][w].status]
        BY <3>1, Zenon
      <4> QED
        BY <4>1
    <3>5. Active(k)' = Active(k)
      BY <3>1, <3>3, <3>4 DEF Active
    <3>6. \A v \in Active(k) : ~ Same(documents[k][v], work[i].doc)'
      <4>1. \A v \in DOMAIN documents[k] : /\ documents'[k][v].body = documents[k][v].body
                                           /\ documents'[k][v].class = documents[k][v].class
        BY <2>2, OnRecord
      <4> QED
        BY <2>3, <3>2, <4>1 DEF Same, Active
    <3>7. /\ \A j \in Jobs : (work[j].pc = "locked")' /\ Key(j)' = k => j = i
          /\ Active(k)' = IF work'[i].active = 0 THEN {} ELSE {work'[i].active}
          /\ \A v \in Active(k)' : ~ Same(documents[k][v], work[i].doc)'
      BY <2>3, <2>4, <3>2, <3>5, <3>6
    <3>8. Key(i)' = k
      BY <2>1, <2>4
    <3> QED
      BY <3>7, <3>8 DEF LockInv, Active
  <2> QED
    BY <2>5, <2>6
<1>8. CASE (\E k \in Keys : DeactivateRead(k)) \/ UNCHANGED vars
  <2>1. up' = up /\ work' = work /\ documents' = documents
    BY <1>8 DEF DeactivateRead, vars
  <2>2. \A h \in Jobs : Key(h)' = Key(h)
    BY <2>1 DEF Key
  <2> QED
    BY <1>2, <1>3, <2>1, <2>2
<1>9. ASSUME NEW j \in Jobs, Request(j) PROVE LockInv(i)'
  BY <1>3, <1>4, <1>9, RequestFrame
<1>10. ASSUME NEW j \in Jobs, Delivery(j) PROVE LockInv(i)'
  <2>1. CASE j = i
    BY <1>3, <1>6, <1>10, <2>1, OnlyLock
  <2>2. CASE j # i
    BY <1>3, <1>5, <1>10, <2>2, Elsewhere
  <2> QED
    BY <2>1, <2>2
<1>11. CASE DeactivateWrite
  BY <1>3, <1>7, <1>11, WithdrawIs
<1> QED
  BY <1>8, <1>9, <1>10, <1>11, Kinds

LEMMA RowsStep == ASSUME IInv, [Next]_vars, NEW k \in Keys PROVE RowsInv(k)'
<1> DEFINE old == documents[k]
           new == documents'[k]
           m == Len(old)
<1>1. RowsInv(k)
  BY DEF IInv
<1>2. CASE new = old
  BY <1>1, <1>2 DEF RowsInv, Same
<1>3. /\ old \in Seq(RowType) /\ m \in Nat /\ DOMAIN old = 1 .. m
      /\ \A w \in 1 .. m : old[w] \in RowType
  BY ActiveIs
<1>4. /\ \A v \in 1 .. m : old[v].status = "active" => v = m
      /\ \A v \in 1 .. m : old[v].live => old[v].status = "active"
      /\ m > 0 => old[m].status # "superseded"
      /\ \A v \in 1 .. m : v > 1 /\ old[v - 1].status = "superseded" => ~ Same(old[v - 1], old[v])
  <2>1. m > 0 => old # << >>
    OBVIOUS
  <2> QED
    BY <1>1, <1>3, <2>1 DEF RowsInv
<1>5. \A v \in 1 .. m : new[v].body = old[v].body /\ new[v].class = old[v].class
  BY <1>3, OnRecord
<1>6. ASSUME NEW j \in Jobs, Swap(j), k = Key(j) PROVE RowsInv(k)'
  <2> DEFINE n == m + 1
             a == work[j].active
  <2>1. /\ work[j].pc = "locked" /\ DOMAIN new = 1 .. n /\ Len(new) = n /\ new[n] = NewRow(j)
        /\ \A w \in 1 .. m :
             new[w] = [body |-> old[w].body, class |-> old[w].class, live |-> FALSE,
                       status |-> IF w = a THEN "superseded" ELSE old[w].status]
    BY <1>6, SwapIs
  <2>2. /\ Active(k) = IF a = 0 THEN {} ELSE {a}
        /\ \A v \in Active(k) : ~ Same(old[v], work[j].doc)
    BY <1>6, <2>1 DEF IInv, LockInv
  <2>3. \A v \in Active(k) : v = m /\ v \in 1 .. m
    BY <1>3, ActiveIs
  <2>4. \A w \in 1 .. m : old[w].status = "active" => w = a
    BY <1>3, <2>2 DEF Active
  <2>5. /\ new[n].status = "active" /\ new[n].live
        /\ new[n].body = work[j].doc.body /\ new[n].class = work[j].doc.class
    BY <2>1 DEF NewRow
  <2>6. \A w \in 1 .. m : /\ new[w].status = IF w = a THEN "superseded" ELSE old[w].status
                          /\ ~ new[w].live
    <3> TAKE w \in 1 .. m
    <3>1. new[w] = [body |-> old[w].body, class |-> old[w].class, live |-> FALSE,
                    status |-> IF w = a THEN "superseded" ELSE old[w].status]
      BY <2>1, Zenon
    <3> QED
      BY <3>1
  <2>7. a \in 1 .. m => a = m /\ ~ Same(old[m], work[j].doc)
    BY <2>2, <2>3
  <2>8. Len(new) = n /\ DOMAIN new = 1 .. n /\ n \in Nat /\ m = n - 1
    BY <1>3, <2>1
  <2> HIDE DEF old, new, m, n, a
  <2>9. \A w \in 1 .. m : new[w].status # "active"
    BY <2>4, <2>6
  <2>10. \A v \in 1 .. n : new[v].status = "active" => v = n
    BY <1>3, <2>8, <2>9
  <2>11. \A v \in 1 .. n : new[v].live => new[v].status = "active"
    <3> TAKE v \in 1 .. n
    <3>1. v = n \/ v \in 1 .. m
      BY <1>3, <2>8
    <3> QED
      BY <2>5, <2>6, <3>1
  <2>12. \A v \in 1 .. n : v > 1 /\ new[v - 1].status = "superseded" => ~ Same(new[v - 1], new[v])
    <3> SUFFICES ASSUME NEW v \in 1 .. n, v > 1, new[v - 1].status = "superseded"
                 PROVE  ~ Same(new[v - 1], new[v])
      OBVIOUS
    <3>1. v - 1 \in 1 .. m
      BY <1>3, <2>8
    <3>2. CASE v = n
      <4>1. v - 1 = m
        BY <2>8, <3>2
      <4>2. a = m
        BY <1>3, <1>4, <2>6, <3>1, <4>1
      <4>3. ~ Same(old[m], work[j].doc)
        BY <2>7, <3>1, <4>1, <4>2
      <4> QED
        BY <1>5, <2>5, <3>1, <3>2, <4>1, <4>3 DEF Same
    <3>3. CASE v \in 1 .. m
      <4>1. v - 1 # a
        BY <1>3, <2>7, <3>1, <3>3
      <4>2. old[v - 1].status = "superseded"
        BY <2>6, <3>1, <4>1
      <4>3. ~ Same(old[v - 1], old[v])
        BY <1>4, <3>3, <4>2
      <4> QED
        BY <1>5, <3>1, <3>3, <4>3 DEF Same
    <3> QED
      BY <1>3, <2>8, <3>2, <3>3
  <2>13. \A v \in 1 .. n : new[v].status = "active" => new[v].live
    BY <2>5, <2>10
  <2> QED
    BY <2>5, <2>8, <2>10, <2>11, <2>12, <2>13 DEF RowsInv, new, Same
<1>7. CASE DeactivateWrite /\ k = deletion.key
  <2> DEFINE d == deletion.version
  <2>1. /\ d \in 1 .. m /\ DOMAIN new = 1 .. m /\ Len(new) = m
        /\ \A w \in 1 .. m :
             new[w] = [body |-> old[w].body, class |-> old[w].class, live |-> FALSE,
                       status |-> IF w = d THEN "deleted" ELSE old[w].status]
    BY <1>3, <1>7, WithdrawIs
  <2>2. \A w \in 1 .. m : /\ new[w].status = IF w = d THEN "deleted" ELSE old[w].status
                          /\ ~ new[w].live
    <3> TAKE w \in 1 .. m
    <3>1. new[w] = [body |-> old[w].body, class |-> old[w].class, live |-> FALSE,
                    status |-> IF w = d THEN "deleted" ELSE old[w].status]
      BY <2>1, Zenon
    <3> QED
      BY <3>1
  <2>3. DOMAIN new = 1 .. m /\ Len(new) = m /\ m > 0
    BY <1>3, <2>1
  <2> HIDE DEF old, new, m, d
  <2>4. \A v \in 1 .. m : new[v].status = "active" => v = m /\ v # d
    BY <1>4, <2>2
  <2>5. new[m].status # "superseded"
    BY <1>3, <1>4, <2>2, <2>3
  <2>6. \A v \in 1 .. m : v > 1 /\ new[v - 1].status = "superseded" => ~ Same(new[v - 1], new[v])
    <3> SUFFICES ASSUME NEW v \in 1 .. m, v > 1, new[v - 1].status = "superseded"
                 PROVE  ~ Same(new[v - 1], new[v])
      OBVIOUS
    <3>1. v - 1 \in 1 .. m
      BY <1>3
    <3>2. old[v - 1].status = "superseded"
      BY <2>2, <3>1
    <3>3. ~ Same(old[v - 1], old[v])
      BY <1>4, <3>2
    <3> QED
      BY <1>5, <3>1, <3>3 DEF Same
  <2>7. \A v \in 1 .. m : new[v].status = "active" => \E w \in 1 .. v - 1 : new[w].status = "deleted"
    <3> SUFFICES ASSUME NEW v \in 1 .. m, new[v].status = "active"
                 PROVE  \E w \in 1 .. v - 1 : new[w].status = "deleted"
      OBVIOUS
    <3>1. d \in 1 .. v - 1
      BY <1>3, <2>1, <2>4
    <3>2. new[d].status = "deleted"
      BY <2>1, <2>2
    <3> QED
      BY <3>1, <3>2
  <2> QED
    BY <2>2, <2>3, <2>4, <2>5, <2>6, <2>7 DEF RowsInv, new, Same
<1>8. ASSUME NEW j \in Jobs, Swap(j), k # Key(j) PROVE new = old
  BY <1>8, SwapIs
<1>9. CASE DeactivateWrite /\ k # deletion.key
  BY <1>2, <1>9, WithdrawIs
<1>10. CASE (\E q \in Keys : DeactivateRead(q)) \/ UNCHANGED vars
  BY <1>2, <1>10 DEF DeactivateRead, vars
<1> HIDE DEF old, new
<1>11. ASSUME NEW j \in Jobs, Request(j) \/ Delivery(j) PROVE RowsInv(k)'
  <2>1. CASE ~ Swap(j)
    BY <1>2, <1>11, <2>1, RequestFrame, OnlySwap DEF old, new
  <2> QED
    BY <1>2, <1>6, <1>8, <2>1
<1> QED
  BY <1>7, <1>9, <1>10, <1>11, Kinds

LEMMA OriginStep == ASSUME IInv, [Next]_vars, NEW k \in Keys PROVE OriginInv(k)'
<1>1. OriginInv(k)
  BY DEF IInv
<1>2. /\ \A b, p : Uploaded(b, p) => Uploaded(b, p)'
      /\ \A p, b, c : Classified(p, b, c) => Classified(p, b, c)'
  BY Lasts
<1>3. ASSUME NEW v, NEW b, NEW c, NEW p, Uploaded(b, p), Classified(p, b, c), p[1] = k,
             documents'[k][v].body = b, documents'[k][v].class = c
      PROVE  (LET row == documents[k][v] IN
              /\ Uploaded(row.body, up[row.body].path) /\ up[row.body].path[1] = k
              /\ Classified(up[row.body].path, row.body, row.class))'
  <2>1. Uploaded(b, p)' /\ Classified(p, b, c)'
    BY <1>2, <1>3
  <2>2. up'[b].path = p
    BY <2>1 DEF Uploaded
  <2> QED
    BY <1>3, <2>1, <2>2 DEF Uploaded, Classified
<1>4. ASSUME NEW v \in DOMAIN documents[k]
      PROVE  (LET row == documents[k][v] IN
              /\ Uploaded(row.body, up[row.body].path) /\ up[row.body].path[1] = k
              /\ Classified(up[row.body].path, row.body, row.class))'
  <2>1. PICK b, c, p : b = documents[k][v].body /\ c = documents[k][v].class /\ p = up[b].path
    OBVIOUS
  <2>2. Uploaded(b, p) /\ Classified(p, b, c) /\ p[1] = k
    BY <1>1, <2>1 DEF OriginInv
  <2>3. documents'[k][v].body = b /\ documents'[k][v].class = c
    BY <2>1, OnRecord
  <2> QED
    BY <1>3, <2>2, <2>3
<1>5. ASSUME NEW j \in Jobs, Swap(j), k = Key(j) PROVE OriginInv(k)'
  <2>1. PICK n, b, c, p : /\ n = Len(documents[k]) + 1 /\ b = work[j].doc.body
                          /\ c = work[j].doc.class /\ p = up[j].path
    OBVIOUS
  <2>2. /\ Parsable(up[j].path, work[j].doc) /\ DOMAIN documents[k] = 1 .. Len(documents[k])
        /\ Len(documents[k]) \in Nat
        /\ DOMAIN documents'[k] = 1 .. n /\ documents'[k][n] = NewRow(j)
    BY <1>5, <2>1, SwapIs
  <2>3. Uploaded(b, p) /\ Classified(p, b, c) /\ p[1] = k
    BY <1>5, <2>1, <2>2 DEF Parsable, Key
  <2>4. documents'[k][n].body = b /\ documents'[k][n].class = c
    BY <2>1, <2>2 DEF NewRow
  <2>5. ASSUME NEW v \in DOMAIN documents'[k] PROVE v = n \/ v \in DOMAIN documents[k]
    BY <2>1, <2>2
  <2>6. (LET row == documents[k][n] IN
          /\ Uploaded(row.body, up[row.body].path) /\ up[row.body].path[1] = k
          /\ Classified(up[row.body].path, row.body, row.class))'
    BY <1>3, <2>3, <2>4
  <2> QED
    BY <1>4, <2>5, <2>6 DEF OriginInv
<1>6. ASSUME DOMAIN documents'[k] = DOMAIN documents[k] PROVE OriginInv(k)'
  BY <1>4, <1>6 DEF OriginInv
<1>7. ASSUME NEW j \in Jobs, Swap(j), k # Key(j) PROVE documents'[k] = documents[k]
  BY <1>7, SwapIs
<1>8. CASE DeactivateWrite
  BY <1>6, <1>8, WithdrawIs
<1>9. CASE (\E q \in Keys : DeactivateRead(q)) \/ UNCHANGED vars
  BY <1>6, <1>9 DEF DeactivateRead, vars
<1>10. ASSUME NEW j \in Jobs, Request(j) \/ Delivery(j) PROVE OriginInv(k)'
  <2>1. CASE ~ Swap(j)
    BY <1>6, <1>10, <2>1, RequestFrame, OnlySwap
  <2> QED
    BY <1>5, <1>6, <1>7, <2>1
<1> QED
  BY <1>8, <1>9, <1>10, Kinds

LEMMA DeletionStep == ASSUME IInv, [Next]_vars PROVE DeletionInv'
<1>1. DeletionInv
  BY DEF IInv
<1>2. CASE deletion' = deletion
  BY <1>1, <1>2, OnRecord DEF DeletionInv
<1>3. CASE \E k \in Keys : DeactivateRead(k)
  <2>1. PICK k \in Keys : DeactivateRead(k)
    BY <1>3
  <2>2. PICK v \in Active(k) : deletion' = [key |-> k, version |-> v] /\ documents' = documents
    BY <2>1 DEF DeactivateRead
  <2> QED
    BY <2>2 DEF DeletionInv, Active
<1>4. CASE DeactivateWrite
  BY <1>4 DEF DeactivateWrite, DeletionInv
<1>5. CASE UNCHANGED vars
  BY <1>2, <1>5 DEF vars
<1> QED
  BY <1>2, <1>3, <1>4, <1>5, Kinds, RequestFrame, DeliveryFrame

-----------------------------------------------------------------------------
(* The theorems *)

LEMMA Initially == Init => IInv
<1> SUFFICES ASSUME Init PROVE IInv
  OBVIOUS
<1>1. TypeOK
  <2>1. /\ up \in [Jobs -> UpType] /\ files \in [Paths -> FileType]
        /\ jobs \in [Jobs -> JobType] /\ message \in [Jobs -> MessageType]
        /\ work \in [Jobs -> WorkType]
    <3>1. NoUp \in UpType /\ NoFile \in FileType
      BY DEF NoUp, NoFile, UpType, FileType
    <3>2. NoJob \in JobType /\ [at |-> "none", retries |-> 0] \in MessageType
      BY NumbersAssumption DEF NoJob, JobType, MessageType
    <3>3. NoWork \in WorkType
      BY <3>1 DEF NoWork, WorkType
    <3> QED
      BY <3>1, <3>2, <3>3 DEF Init
  <2>2. << >> \in Seq(RowType)
    OBVIOUS
  <2>3. /\ documents \in [Keys -> Seq(RowType)]
        /\ deletion \in [key : Keys \cup {None}, version : Nat]
        /\ deletions \in 0 .. MaxDeletions /\ faults \in 0 .. MaxFaults
        /\ stale \subseteq Jobs
    BY <2>2, NumbersAssumption DEF Init, NoDeletion
  <2> QED
    BY <2>1, <2>3, TypeIs
<1>2. \A j \in Jobs : UpInv(j)
  BY DEF Init, NoUp, UpInv
<1>3. \A p \in Paths : FileInv(p)
  BY DEF Init, NoFile, FileInv
<1>4. \A j \in Jobs : QueueInv(j)
  BY DEF Init, NoUp, NoJob, NoWork, QueueInv, RowFollowsMessage, Ends
<1>5. \A j \in Jobs : HeldInv(j) /\ LockInv(j)
  BY DEF Init, NoJob, NoWork, HeldInv, LockInv, Ends
<1>6. \A k \in Keys : documents[k] = << >> /\ DOMAIN documents[k] = {}
  BY DEF Init
<1>7. \A k \in Keys : RowsInv(k) /\ OriginInv(k)
  BY <1>6 DEF RowsInv, OriginInv
<1>8. DeletionInv
  BY DEF Init, DeletionInv
<1> QED
  BY <1>1, <1>2, <1>3, <1>4, <1>5, <1>7, <1>8 DEF IInv

\* Every step of the uploads, the workers and the deletions keeps the invariant.
THEOREM Invariance == Spec => []IInv
<1>1. IInv /\ [Next]_vars => IInv'
  <2> SUFFICES ASSUME IInv, [Next]_vars PROVE IInv'
    OBVIOUS
  <2>1. \A j \in Jobs : UpInv(j)' /\ QueueInv(j)' /\ HeldInv(j)' /\ LockInv(j)'
    BY UpStep, QueueStep, HeldStep, LockStep
  <2>2. \A p \in Paths : FileInv(p)'
    BY FileStep
  <2>3. \A k \in Keys : RowsInv(k)' /\ OriginInv(k)'
    BY RowsStep, OriginStep
  <2> QED
    BY <2>1, <2>2, <2>3, TypeStep, DeletionStep DEF IInv
<1> QED
  BY <1>1, Initially, PTL DEF Spec

\* However ingestions, redeliveries and deletions of a document overlap, it has one active
\* version at most, chunks of that version only are found, and no version repeats the one
\* it superseded.
THEOREM SoundIndex == Spec => []IndexIsSound
<1>1. IInv => IndexIsSound
  <2> SUFFICES ASSUME IInv PROVE IndexIsSound
    OBVIOUS
  <2>1. ASSUME NEW k \in Keys PROVE Cardinality(Active(k)) <= 1
    <3>1. Active(k) = {} \/ Active(k) = {Len(documents[k])}
      BY ActiveIs
    <3>2. Cardinality({}) = 0 /\ Cardinality({Len(documents[k])}) = 1
      BY FS_EmptySet, FS_Singleton
    <3>3. Cardinality(Active(k)) = 0 \/ Cardinality(Active(k)) = 1
      BY <3>1, <3>2, Zenon
    <3> QED
      BY <3>3
  <2>2. ASSUME NEW k \in Keys, NEW v \in DOMAIN documents[k], documents[k][v].live
        PROVE  v \in Active(k)
    BY <2>2 DEF IInv, RowsInv, Active
  <2>3. NoRepeatedVersion
    BY DEF IInv, RowsInv, NoRepeatedVersion
  <2> QED
    BY <2>1, <2>2, <2>3 DEF IndexIsSound, OneActiveVersion, IInv
<1> QED
  BY <1>1, Invariance, PTL

\* A job that reports success names a version that exists and holds what was uploaded
\* under its file name; a row says where its message is, but while a worker is between
\* the two and after one died or could not write the row.
THEOREM TrueJobs == Spec => []JobsAreTrue
<1>1. IInv => JobsAreTrue
  <2> SUFFICES ASSUME IInv PROVE JobsAreTrue
    OBVIOUS
  <2>1. ASSUME NEW j \in Jobs
        PROVE  /\ jobs[j].version # 0 => jobs[j].version \in DOMAIN documents[Key(j)]
               /\ message[j].at = "acked" => jobs[j].status \in Ends
               /\ jobs[j].status = "dead" => jobs[j].attempts = MaxRetries + 1
               /\ j \notin stale /\ ~ Settling(j) => RowFollowsMessage(j)
    <3>1. QueueInv(j) /\ HeldInv(j) /\ message[j] \in MessageType
      BY TypeIs DEF IInv
    <3>2. message[j].at \in {"none", "queue", "held", "acked", "dead"}
      BY <3>1 DEF MessageType
    <3>3. jobs[j].version # 0 => jobs[j].version \in DOMAIN documents[Key(j)]
      BY <3>1 DEF HeldInv, Names
    <3> QED
      BY <3>1, <3>2, <3>3 DEF QueueInv, Ends
  <2>2. ASSUME NEW u \in Jobs, up[u].offer # None, jobs[u].status \in Ends
        PROVE  \/ documents[Key(u)][jobs[u].version].body = u
               \/ \E w \in Jobs \ {u} : up[w].offer # None /\ up[w].path = up[u].path
    <3>1. Names(u, jobs[u].version)
      BY <2>2 DEF IInv, HeldInv
    <3>2. PICK b : b = documents[Key(u)][jobs[u].version].body
      OBVIOUS
    <3>3. b \in Jobs /\ up[b].offer \in Offers /\ up[b].path = up[u].path
      BY <3>1, <3>2 DEF Names, Uploaded
    <3> QED
      BY <3>2, <3>3, NamesAssumption
  <2> QED
    BY <2>1, <2>2 DEF JobsAreTrue, JobsTellTheTruth, SuccessMeansIndexed
<1> QED
  BY <1>1, Invariance, PTL

\* The active version is missing from searches only where a deletion that had read an
\* older version cleared the chunks of the newer one.
THEOREM OnlyDeletionHides == Spec => []MissingOnlyByDeletion
<1>1. IInv => MissingOnlyByDeletion
  BY DEF IInv, RowsInv, MissingOnlyByDeletion, Active
<1> QED
  BY <1>1, Invariance, PTL

\* Every version is under the key its upload was given, and under a class that an upload
\* of that name asked for and was entitled to.
THEOREM ClassesAreGranted == Spec => []IndexedAsUploaded
<1>1. IInv => IndexedAsUploaded
  <2> SUFFICES ASSUME IInv, NEW k \in Keys, NEW v \in DOMAIN documents[k]
               PROVE  LET row == documents[k][v]
                          path == up[row.body].path
                      IN  /\ path[1] = k
                          /\ \E w \in Jobs :
                               /\ up[w].offer # None /\ up[w].path = path
                               /\ w = row.body \/ path[2] # "md"
                               /\ Entitled(up[w].offer, row.class)
    BY DEF IndexedAsUploaded
  <2>1. PICK b, p, c : b = documents[k][v].body /\ p = up[b].path /\ c = documents[k][v].class
    OBVIOUS
  <2>2. p[1] = k /\ Classified(p, b, c)
    BY <2>1 DEF IInv, OriginInv
  <2>3. PICK w \in Jobs : Uploaded(w, p) /\ (w = b \/ p[2] # "md") /\ Entitled(up[w].offer, c)
    BY <2>2 DEF Classified
  <2>4. up[w].offer # None /\ up[w].path = p
    BY <2>3, NamesAssumption DEF Uploaded
  <2> QED
    BY <2>1, <2>2, <2>3, <2>4
<1> QED
  BY <1>1, Invariance, PTL

-----------------------------------------------------------------------------
(* The refinement *)

LEMMA MaxOfOne == \A n \in Nat : Max({n}) = n
<1> TAKE n \in Nat
<1>1. \A x \in {n} : (\A y \in {n} : x >= y) /\ x = n
  OBVIOUS
<1> QED
  BY <1>1 DEF Max

\* What a document shows, when it has one live version at most.
LEMMA ShownIs ==
    ASSUME NEW k \in Keys
    PROVE  /\ LiveRows(k) = {} => Shown[k] = None
           /\ \A n \in Nat : LiveRows(k) = {n} => Shown[k] = VersionOf(documents[k][n])
BY MaxOfOne DEF Shown

\* A step that changes no rows is no step of the index.
LEMMA Stutters == documents' = documents => UNCHANGED <<Shown, Recorded>>
BY DEF Shown, Recorded, LiveRows

\* Swap publishes the version it commits.
LEMMA SwapPublishes ==
    ASSUME IInv, [Next]_vars, NEW j \in Jobs, Swap(j)
    PROVE  Index!Next
<1>1. PICK k, m, n : k = Key(j) /\ m = Len(documents[k]) /\ n = m + 1
  OBVIOUS
<1> DEFINE old == documents[k]
           new == documents'[k]
           v == VersionOf(NewRow(j))
<1>2. /\ k \in Keys /\ Parsable(up[j].path, work[j].doc) /\ work[j].pc = "locked"
      /\ \A q \in Keys \ {k} : documents'[q] = documents[q]
      /\ DOMAIN old = 1 .. m /\ m \in Nat /\ DOMAIN new = 1 .. n /\ new[n] = NewRow(j)
      /\ \A w \in 1 .. m :
           new[w] = [body |-> old[w].body, class |-> old[w].class, live |-> FALSE,
                     status |-> IF w = work[j].active THEN "superseded" ELSE old[w].status]
  BY <1>1, SwapIs
<1>3. v \in Jobs \X Classes /\ v = <<work[j].doc.body, work[j].doc.class>>
  BY <1>2 DEF VersionOf, NewRow, Parsable
<1>4. LiveRows(k)' = {n}
  <2>1. \A w \in 1 .. m : ~ new[w].live
    <3> TAKE w \in 1 .. m
    <3>1. new[w] = [body |-> old[w].body, class |-> old[w].class, live |-> FALSE,
                    status |-> IF w = work[j].active THEN "superseded" ELSE old[w].status]
      BY <1>2, Zenon
    <3> QED
      BY <3>1
  <2>2. new[n].live
    BY <1>2 DEF NewRow
  <2>3. \A w \in 1 .. n : new[w].live <=> w = n
    BY <1>1, <1>2, <2>1, <2>2
  <2>4. n \in 1 .. n
    BY <1>1, <1>2
  <2> QED
    BY <1>2, <2>3, <2>4 DEF LiveRows
<1>5. Shown'[k] = v
  <2>1. n \in Nat
    BY <1>1, <1>2
  <2>2. Shown'[k] = VersionOf(documents[k][n])'
    <3>1. Shown'[k] = IF LiveRows(k)' = {} THEN None
                      ELSE VersionOf(documents'[k][Max(LiveRows(k)')])
      BY <1>2 DEF Shown, VersionOf
    <3>2. Max(LiveRows(k)') = n /\ LiveRows(k)' # {}
      BY <1>4, <2>1, MaxOfOne
    <3> QED
      BY <3>1, <3>2 DEF VersionOf
  <2> QED
    BY <1>2, <2>2 DEF VersionOf
<1>6. Shown[k] # v
  <2>1. /\ Active(k) = {} \/ Active(k) = {m}
        /\ \A w \in DOMAIN old : old[w].live => w \in Active(k)
    BY <1>1, <1>2, ActiveIs, SMTT(30) DEF IInv, RowsInv, Active
  <2>2. \A w \in Active(k) : ~ Same(old[w], work[j].doc)
    BY <1>1, <1>2 DEF IInv, LockInv
  <2>3. LiveRows(k) = {} \/ LiveRows(k) = {m}
    BY <2>1 DEF LiveRows
  <2>4. CASE LiveRows(k) = {}
    BY <1>2, <1>3, <2>4, ShownIs, NamesAssumption
  <2>5. CASE LiveRows(k) = {m}
    <3>1. ~ Same(old[m], work[j].doc)
      BY <2>1, <2>2, <2>5 DEF LiveRows
    <3>2. Shown[k] = VersionOf(old[m])
      BY <1>2, <2>5, ShownIs
    <3> QED
      BY <1>3, <3>1, <3>2 DEF VersionOf, Same
  <2> QED
    BY <2>3, <2>4, <2>5
<1>7. Recorded'[k] = Append(Recorded[k], v)
  <2>1. Recorded[k] = [w \in 1 .. m |-> VersionOf(old[w])]
    BY <1>2 DEF Recorded
  <2>2. Recorded'[k] = [w \in 1 .. n |-> VersionOf(new[w])]
    BY <1>2 DEF Recorded, VersionOf
  <2>3. \A w \in 1 .. m : VersionOf(new[w]) = VersionOf(old[w])
    BY <1>2, OnRecord DEF VersionOf
  <2>4. VersionOf(new[n]) = v
    BY <1>2
  <2> DEFINE e(w) == VersionOf(old[w])
             f(w) == VersionOf(new[w])
  <2>5. \A w \in 1 .. m : f(w) = e(w)
    BY <2>3
  <2>6. f(n) = v
    BY <2>4
  <2>7. Recorded[k] = [w \in 1 .. m |-> e(w)] /\ Recorded'[k] = [w \in 1 .. n |-> f(w)]
    BY <2>1, <2>2
  <2> HIDE DEF e, f, v
  <2> QED
    BY <1>1, <1>2, <2>5, <2>6, <2>7
<1>8. \A q \in Keys \ {k} : Shown'[q] = Shown[q] /\ Recorded'[q] = Recorded[q]
  BY <1>2 DEF Shown, Recorded, LiveRows
<1> HIDE DEF v
<1>9. Shown' = [Shown EXCEPT ![k] = v] /\ Recorded' = [Recorded EXCEPT ![k] = Append(@, v)]
  <2>1. /\ Shown = [q \in Keys |-> Shown[q]] /\ Shown' = [q \in Keys |-> Shown'[q]]
        /\ Recorded = [q \in Keys |-> Recorded[q]] /\ Recorded' = [q \in Keys |-> Recorded'[q]]
    BY DEF Shown, Recorded
  <2> QED
    BY <1>2, <1>5, <1>7, <1>8, <2>1
<1>10. Index!Publish(k, v)
  BY <1>6, <1>9 DEF Index!Publish
<1> QED
  BY <1>2, <1>3, <1>10 DEF Index!Next

\* DeactivateWrite withdraws the document; what it had on record stays there.
LEMMA DeletionWithdraws ==
    ASSUME IInv, [Next]_vars, DeactivateWrite
    PROVE  Index!Next
<1>1. PICK k, d : k = deletion.key /\ d = deletion.version
  OBVIOUS
<1>2. /\ k \in Keys /\ \A q \in Keys \ {k} : documents'[q] = documents[q]
      /\ DOMAIN documents'[k] = DOMAIN documents[k] /\ DOMAIN documents[k] = 1 .. Len(documents[k])
      /\ \A w \in 1 .. Len(documents[k]) :
           documents'[k][w] = [body |-> documents[k][w].body, class |-> documents[k][w].class,
                               live |-> FALSE, status |-> IF w = d THEN "deleted"
                                                          ELSE documents[k][w].status]
  BY <1>1, WithdrawIs
<1>3. \A w \in DOMAIN documents'[k] : ~ documents'[k][w].live
  <2> TAKE w \in DOMAIN documents'[k]
  <2>1. documents'[k][w] = [body |-> documents[k][w].body, class |-> documents[k][w].class,
                            live |-> FALSE, status |-> IF w = d THEN "deleted"
                                                       ELSE documents[k][w].status]
    BY <1>2, Zenon
  <2> QED
    BY <2>1
<1>4. LiveRows(k)' = {}
  BY <1>3 DEF LiveRows
<1>5. Shown'[k] = None
  BY <1>2, <1>4 DEF Shown
<1>6. Recorded'[k] = Recorded[k]
  <2>1. \A w \in DOMAIN documents[k] : VersionOf(documents'[k][w]) = VersionOf(documents[k][w])
    BY <1>2, OnRecord DEF VersionOf
  <2>2. /\ Recorded[k] = [w \in DOMAIN documents[k] |-> VersionOf(documents[k][w])]
        /\ Recorded'[k] = [w \in DOMAIN documents[k] |-> VersionOf(documents'[k][w])]
    BY <1>2 DEF Recorded, VersionOf
  <2> QED
    BY <2>1, <2>2
<1>7. \A q \in Keys \ {k} : Shown'[q] = Shown[q] /\ Recorded'[q] = Recorded[q]
  BY <1>2 DEF Shown, Recorded, LiveRows
<1>8. Shown' = [Shown EXCEPT ![k] = None] /\ Recorded' = Recorded
  <2>1. /\ Shown = [q \in Keys |-> Shown[q]] /\ Shown' = [q \in Keys |-> Shown'[q]]
        /\ Recorded = [q \in Keys |-> Recorded[q]] /\ Recorded' = [q \in Keys |-> Recorded'[q]]
    BY DEF Shown, Recorded
  <2> QED
    BY <1>2, <1>5, <1>6, <1>7, <2>1
<1>9. Index!Withdraw(k)
  BY <1>8 DEF Index!Withdraw
<1> QED
  BY <1>2, <1>9 DEF Index!Next

\* Uploads, files, messages, attempts, locks and versions behave like an index whose
\* readers see one version of a document or none.
THEOREM Refinement == Spec => ImplementsIndex
<1>1. Init => Index!Init
  <2> SUFFICES ASSUME Init PROVE Index!Init
    OBVIOUS
  <2>1. \A k \in Keys : documents[k] = << >> /\ DOMAIN documents[k] = {} /\ LiveRows(k) = {}
    BY DEF Init, LiveRows
  <2>2. Shown = [k \in Keys |-> None]
    BY <2>1 DEF Shown
  <2>3. Recorded = [k \in Keys |-> << >>]
    BY <2>1 DEF Recorded
  <2> QED
    BY <2>2, <2>3 DEF Index!Init
<1>2. IInv /\ [Next]_vars => [Index!Next]_<<Shown, Recorded>>
  <2> SUFFICES ASSUME IInv, [Next]_vars
               PROVE  Index!Next \/ UNCHANGED <<Shown, Recorded>>
    OBVIOUS
  <2>1. CASE documents' = documents
    BY <2>1, Stutters
  <2>2. CASE DeactivateWrite
    BY <2>2, DeletionWithdraws
  <2>3. ASSUME NEW j \in Jobs, Request(j) \/ Delivery(j)
        PROVE  Index!Next \/ UNCHANGED <<Shown, Recorded>>
    BY <2>1, <2>3, SwapPublishes, RequestFrame, OnlySwap
  <2>4. CASE (\E k \in Keys : DeactivateRead(k)) \/ UNCHANGED vars
    BY <2>1, <2>4 DEF DeactivateRead, vars
  <2> QED
    BY <2>2, <2>3, <2>4, Kinds
<1> QED
  BY <1>1, <1>2, Invariance, PTL DEF Spec, ImplementsIndex, Index!Spec

=============================================================================
