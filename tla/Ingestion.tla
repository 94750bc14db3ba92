------------------------------- MODULE Ingestion -------------------------------
(***************************************************************************)
(* Upload and ingestion of documents (app/routers/documents.py, called by  *)
(* the workspace upload route; app/services/ingestion, classification and  *)
(* run_job_sync) in one tax session.                                       *)
(*                                                                         *)
(* A pipeline task runs beside the requests.  Its first UPDATE takes       *)
(* SQLite's writer lock, and nothing is committed before classify_document *)
(* commits, after the AI provider answered: until then only the task sees  *)
(* its own writes, so an action of the model is one transaction or a part  *)
(* of one between two reads of the shared state.  Whoever waits for the    *)
(* lock longer than the busy timeout gets an exception.  OCR is a          *)
(* synchronous call on the event loop: while it runs, nothing else does.   *)
(***************************************************************************)
EXTENDS Naturals, FiniteSets

CONSTANTS
    Files,        \* file contents, told apart by their hash
    MaxDocs,      \* bound: documents uploaded
    Nobody,       \* no task holds the writer lock
    MaxKeyLosses, \* bound: times the field key goes away
    MaxCrashes    \* bound: process restarts

ASSUME IngestionAssumption ==
    /\ MaxDocs \in Nat \ {0} /\ MaxKeyLosses \in Nat /\ MaxCrashes \in Nat
    /\ Nobody \notin Nat /\ Files # {}

VARIABLES
    docs,    \* the committed documents rows, in the order of created_at
    jobs,    \* the committed status of the ingestion job of each document
    items,   \* committed classification results with items, by document
    tasks,   \* the background task of each document
    writer,  \* the task whose transaction holds the writer lock
    keyed,   \* the user has a key in the process cache
    losses, crashes

vars == <<docs, jobs, items, tasks, writer, keyed, losses, crashes>>

Docs == 1..MaxDocs
Absent == "absent"
Recoverable == {"failed", "classification_failed", "processing_failed"}
Outcomes == {"classified", "needs_review", "classification_failed"}
DocStatuses == {Absent, "uploaded", "duplicate_detected", "text_extracted",
                "items_detected", "reviewed"} \union Outcomes
JobStatuses == {Absent, "queued", "running", "succeeded", "failed"}
InTransaction == {"ocr", "extract", "classify", "provider"}
TaskPCs == {"none", "scheduled", "finish"} \union InTransaction

\* One type invariant: the rows have their shape, and a task holds the writer
\* lock exactly while its first transaction is open.
TypeOK ==
    /\ docs \in [Docs -> [file : Files, status : DocStatuses]]
    /\ jobs \in [Docs -> JobStatuses]
    /\ items \in [Docs -> Nat]
    /\ tasks \in [Docs -> [pc : TaskPCs, tries : 0..2, out : Outcomes]]
    /\ \A d \in Docs : tasks[d].pc \in InTransaction <=> writer = d
    /\ keyed \in BOOLEAN /\ losses \in 0..MaxKeyLosses /\ crashes \in 0..MaxCrashes

NoTask == [pc |-> "none", tries |-> 0, out |-> "needs_review"]

Init ==
    /\ docs = [d \in Docs |-> [file |-> CHOOSE f \in Files : TRUE, status |-> Absent]]
    /\ jobs = [d \in Docs |-> Absent]
    /\ items = [d \in Docs |-> 0]
    /\ tasks = [d \in Docs |-> NoTask]
    /\ writer = Nobody
    /\ keyed = TRUE /\ losses = 0 /\ crashes = 0

Stored(d) == docs[d].status # Absent
Copies(f) == {d \in Docs : Stored(d) /\ docs[d].file = f}
Free == writer = Nobody
\* The event loop is inside a call of pdfplumber or tesseract.
Blocked == \E d \in Docs : tasks[d].pc = "ocr"
SetStatus(d, s) == docs' = [docs EXCEPT ![d].status = s]
SetJob(d, s) == jobs' = [jobs EXCEPT ![d] = s]
EndTask(d) == tasks' = [tasks EXCEPT ![d] = NoTask]

(***************************************************************************)
(* The upload request.  It updates the session row first (module           *)
(* UnlockSession), so it runs under the writer lock from then on: one step.*)
(***************************************************************************)
Accepted(f) ==
    \A d \in Copies(f) : (\A e \in Copies(f) : d <= e) => docs[d].status \in Recoverable

Upload(d, f) ==
    /\ Free /\ keyed
    /\ ~Stored(d) /\ \A e \in Docs : e < d => Stored(e)
    /\ Accepted(f)
    /\ docs' = [docs EXCEPT ![d] = [file |-> f, status |-> "uploaded"]]
    /\ SetJob(d, "queued")
    /\ tasks' = [tasks EXCEPT ![d].pc = "scheduled"]
    /\ UNCHANGED <<items, writer, keyed, losses, crashes>>

\* The review routes write a document's status whatever it is doing.
Exclude(d) ==
    /\ Free /\ keyed /\ Stored(d)
    /\ SetStatus(d, "reviewed")
    /\ UNCHANGED <<jobs, items, tasks, writer, keyed, losses, crashes>>

(***************************************************************************)
(* The pipeline task                                                       *)
(***************************************************************************)
\* Mutation: the copy that was uploaded first decides, if it did not fail.
DuplicateOfOldest(d) ==
    \E o \in Copies(docs[d].file) \ {d} :
        (\A e \in Copies(docs[d].file) : o <= e) /\ docs[o].status \notin Recoverable

\* _check_hash_duplicate: any other copy, whatever became of it.
Duplicate(d) == Copies(docs[d].file) # {d}

\* run_job_sync and process_upload up to the hash check.
Start(d) ==
    /\ tasks[d].pc = "scheduled" /\ Free
    /\ IF Duplicate(d)
       THEN /\ SetStatus(d, "duplicate_detected") /\ SetJob(d, "succeeded")
            /\ EndTask(d) /\ UNCHANGED writer
       ELSE /\ writer' = d
            /\ tasks' = [tasks EXCEPT ![d].pc = "ocr"]
            /\ UNCHANGED <<docs, jobs>>
    /\ UNCHANGED <<items, keyed, losses, crashes>>

\* "database is locked" at the first UPDATE, outside run_job_sync's try.
StartTimeout(d) ==
    /\ tasks[d].pc = "scheduled" /\ ~Free
    /\ EndTask(d)
    /\ UNCHANGED <<docs, jobs, items, writer, keyed, losses, crashes>>

\* What the open transaction wrote is committed and the task ends.
CommitAndEnd(d, docStatus, jobStatus) ==
    /\ SetStatus(d, docStatus) /\ SetJob(d, jobStatus)
    /\ writer' = Nobody
    /\ EndTask(d)

\* extract_text returns: both OCR providers turn every exception into blank pages.
Ocr(d) ==
    /\ tasks[d].pc = "ocr"
    /\ tasks' = [tasks EXCEPT ![d].pc = "extract"]
    /\ UNCHANGED <<docs, jobs, items, writer, keyed, losses, crashes>>

\* The field key, and the text.  Without a key run_job_sync commits what is there.
Extract(d) ==
    /\ tasks[d].pc = "extract"
    /\ \/ ~keyed /\ CommitAndEnd(d, "text_extracted", "failed")
       \/ keyed /\ CommitAndEnd(d, "needs_review", "succeeded")  \* no text
       \/ /\ keyed
          /\ tasks' = [tasks EXCEPT ![d].pc = "classify"]
          /\ UNCHANGED <<docs, jobs, writer>>
    /\ UNCHANGED <<items, keyed, losses, crashes>>

\* classify_document commits its record; _run_classification goes on from there.
CommitClassification(d, n, out) ==
    /\ SetStatus(d, "items_detected") /\ SetJob(d, "running")
    /\ items' = [items EXCEPT ![d] = @ + n]
    /\ writer' = Nobody
    /\ tasks' = [tasks EXCEPT ![d] = [pc |-> "finish", tries |-> 0, out |-> out]]

Classify(d) ==
    /\ tasks[d].pc = "classify"
    /\ \/ ~keyed /\ CommitClassification(d, 0, "classification_failed")
       \/ /\ keyed
          /\ tasks' = [tasks EXCEPT ![d].pc = "provider", ![d].tries = 1]
          /\ UNCHANGED <<docs, jobs, items, writer>>
    /\ UNCHANGED <<keyed, losses, crashes>>

\* The provider answers with items, with none, not configured, or fails.
ProviderAnswer(d) ==
    /\ tasks[d].pc = "provider"
    /\ \/ CommitClassification(d, 1, "classified")
       \/ CommitClassification(d, 0, "needs_review")
       \/ CommitClassification(d, 0, "classification_failed")
    /\ UNCHANGED <<keyed, losses, crashes>>

\* A transient error is tried once more.
ProviderRetry(d) ==
    /\ tasks[d].pc = "provider" /\ tasks[d].tries < 2
    /\ tasks' = [tasks EXCEPT ![d].tries = @ + 1]
    /\ UNCHANGED <<docs, jobs, items, writer, keyed, losses, crashes>>

\* Mutation: there is no asyncio timeout wrapping the pipeline.
NoProviderTimeout(d) == FALSE

\* wait_for cancels the call; run_job_sync commits what was written so far.
ProviderTimeout(d) ==
    /\ tasks[d].pc = "provider"
    /\ CommitAndEnd(d, "items_detected", "failed")
    /\ UNCHANGED <<items, keyed, losses, crashes>>

\* wait_for cancels a statement that is in flight, which after a long OCR is the
\* next one: SQLAlchemy drops the connection, its transaction is rolled back, and
\* the session refuses the statements that would record the failure.
Cancelled(d) ==
    /\ tasks[d].pc \in {"extract", "classify", "provider", "finish"}
    /\ writer' = IF writer = d THEN Nobody ELSE writer
    /\ EndTask(d)
    /\ UNCHANGED <<docs, jobs, items, keyed, losses, crashes>>

\* Mutation: the job is done before the document is.
FinishJobFirst(d) ==
    /\ tasks[d].pc = "finish" /\ Free
    /\ IF jobs[d] = "running" THEN SetJob(d, "succeeded") /\ UNCHANGED <<docs, tasks>>
       ELSE SetStatus(d, tasks[d].out) /\ EndTask(d) /\ UNCHANGED jobs
    /\ UNCHANGED <<items, writer, keyed, losses, crashes>>

\* The document's and the job's status follow in a transaction of their own.
Finish(d) ==
    /\ tasks[d].pc = "finish" /\ Free
    /\ SetStatus(d, tasks[d].out)
    /\ SetJob(d, IF tasks[d].out = "classification_failed" THEN "failed" ELSE "succeeded")
    /\ EndTask(d)
    /\ UNCHANGED <<items, writer, keyed, losses, crashes>>

\* Mutation: the handler rolls back first and its status is written.
FinishTimeoutRecorded(d) ==
    /\ tasks[d].pc = "finish" /\ ~Free
    /\ SetStatus(d, "classification_failed") /\ SetJob(d, "failed")
    /\ EndTask(d)
    /\ UNCHANGED <<items, writer, keyed, losses, crashes>>

\* "database is locked" in a flush: no later statement of the session runs,
\* so neither handler can record the failure.
FinishTimeout(d) ==
    /\ tasks[d].pc = "finish" /\ ~Free
    /\ EndTask(d)
    /\ UNCHANGED <<docs, jobs, items, writer, keyed, losses, crashes>>

(***************************************************************************)
(* The key (module UnlockSession) and the process                          *)
(***************************************************************************)
\* A key expires in the cache; no transaction is needed for that.
KeyLost ==
    /\ keyed /\ losses < MaxKeyLosses
    /\ keyed' = FALSE /\ losses' = losses + 1
    /\ UNCHANGED <<docs, jobs, items, tasks, writer, crashes>>

Unlock ==
    /\ ~keyed /\ Free
    /\ keyed' = TRUE
    /\ UNCHANGED <<docs, jobs, items, tasks, writer, losses, crashes>>

\* Mutation: jobs that are not finished are started again.
RestartResumes ==
    /\ crashes < MaxCrashes
    /\ crashes' = crashes + 1
    /\ tasks' = [d \in Docs |-> IF jobs[d] \in {"queued", "running"} THEN [NoTask EXCEPT !.pc = "scheduled"] ELSE NoTask]
    /\ writer' = Nobody /\ keyed' = FALSE
    /\ UNCHANGED <<docs, jobs, items, losses>>

\* Nothing looks for unfinished jobs when the process starts again.
Restart ==
    /\ crashes < MaxCrashes
    /\ crashes' = crashes + 1
    /\ tasks' = [d \in Docs |-> NoTask]
    /\ writer' = Nobody /\ keyed' = FALSE
    /\ UNCHANGED <<docs, jobs, items, losses>>

TaskStep(d) ==
    /\ ~Blocked
    /\ \/ Start(d) \/ StartTimeout(d) \/ Extract(d) \/ Classify(d)
       \/ ProviderTimeout(d) \/ Finish(d) \/ FinishTimeout(d)

\* The user, and what reaches a task from outside.
Outside ==
    /\ ~Blocked
    /\ \/ \E d \in Docs, f \in Files : Upload(d, f)
       \/ \E d \in Docs : Exclude(d) \/ ProviderAnswer(d) \/ ProviderRetry(d) \/ Cancelled(d)
       \/ Unlock

Next ==
    \/ Outside
    \/ \E d \in Docs : TaskStep(d) \/ Ocr(d)
    \/ KeyLost \/ Restart

Spec == Init /\ [][Next]_vars

\* The event loop runs started tasks when nothing blocks it.  Neither OCR nor the
\* provider need ever answer.
FairSpec == Spec /\ \A d \in Docs : WF_vars(TaskStep(d))

(***************************************************************************)
(* Properties                                                              *)
(***************************************************************************)
\* However often a file is uploaded, recovered or raced, at most one of its
\* copies yields tax items: no deduction is counted twice.
NoDoubleCounting ==
    \A d, e \in Docs : docs[d].file = docs[e].file /\ items[d] > 0 /\ items[e] > 0 => d = e

\* A job that reports success leaves a document a reviewer can act on: items,
\* a manual review, the copy it duplicates, or the user's own decision.
SuccessIsAccountedFor ==
    \A d \in Docs : jobs[d] = "succeeded" =>
        \/ docs[d].status \in {"needs_review", "duplicate_detected", "reviewed"}
        \/ docs[d].status = "classified" /\ items[d] > 0

\* Items and the verdict on them are committed in two transactions, but a job
\* that reports failure never leaves items behind for the review.
FailureLeavesNoItems ==
    \A d \in Docs : jobs[d] = "failed" => items[d] = 0

\* What others see of a document is the simple life of DocumentLifecycle, although
\* tasks, timeouts, lost keys and restarts cut the pipeline anywhere: no job is
\* taken up twice or leaves a verdict behind, and no half of one is ever seen.
Lifecycle == INSTANCE DocumentLifecycle WITH
    status <- [d \in Docs |-> docs[d].status], job <- jobs, items <- items
ImplementsDocumentLifecycle == Lifecycle!Spec

\* If every OCR call returns, every task ends, also when the provider never
\* answers and however the writer lock is passed around.  The condition is
\* needed: wait_for cannot interrupt OCR, and nothing else limits it.
EveryTaskEnds == []<>~Blocked => \A d \in Docs : tasks[d].pc # "none" ~> tasks[d].pc = "none"
=============================================================================
