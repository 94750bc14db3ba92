---------------------------- MODULE IngestionProofs ----------------------------
(***************************************************************************)
(* Proofs about Ingestion, for any files and any number of documents.      *)
(*                                                                         *)
(* NoDoubleCounting is not inductive: what makes it true is that a task    *)
(* that passed the hash check works on the oldest copy of its file.        *)
(***************************************************************************)
EXTENDS Ingestion, TLAPS

-----------------------------------------------------------------------------
(* Type correctness *)

Rows == [file : Files, status : DocStatuses]
Task == [pc : TaskPCs, tries : 0..2, out : Outcomes]

LEMMA NoTaskType == NoTask \in Task
  BY DEF NoTask, Task, TaskPCs, Outcomes

LEMMA RowType ==
  ASSUME TypeOK, NEW d \in Docs, NEW s \in DocStatuses, SetStatus(d, s)
  PROVE  /\ docs' \in [Docs -> Rows]
         /\ \A e \in Docs : docs'[e].file = docs[e].file
         /\ docs'[d].status = s
         /\ \A e \in Docs : e # d => docs'[e] = docs[e]
<1>1. docs \in [Docs -> Rows]
  BY DEF TypeOK, Rows
<1>2. [docs[d] EXCEPT !.status = s] \in Rows /\ [docs[d] EXCEPT !.status = s].file = docs[d].file
      /\ [docs[d] EXCEPT !.status = s].status = s
  BY <1>1 DEF Rows
<1> QED
  BY <1>1, <1>2 DEF SetStatus

LEMMA InitType == Init => TypeOK
  BY NoTaskType, IngestionAssumption
     DEF Init, TypeOK, Task, DocStatuses, JobStatuses, Absent, NoTask, InTransaction, Docs

\* A step that changes the task of d only, and the lock with it.
LEMMA TaskType ==
  ASSUME TypeOK, NEW d \in Docs, NEW t \in Task, tasks' = [tasks EXCEPT ![d] = t],
         \/ writer' = writer /\ (t.pc \in InTransaction <=> writer = d)
         \/ writer = d /\ writer' = Nobody /\ t.pc \notin InTransaction
         \/ writer = Nobody /\ writer' = d /\ t.pc \in InTransaction
  PROVE  /\ tasks' \in [Docs -> Task]
         /\ \A e \in Docs : tasks'[e].pc \in InTransaction <=> writer' = e
<1>1. tasks \in [Docs -> Task] /\ \A e \in Docs : tasks[e].pc \in InTransaction <=> writer = e
  BY DEF TypeOK, Task
<1>2. Nobody \notin Docs
  BY IngestionAssumption DEF Docs
<1> QED
  BY <1>1, <1>2

LEMMA TypeStep == TypeOK /\ [Next]_vars => TypeOK'
<1> SUFFICES ASSUME TypeOK, [Next]_vars PROVE TypeOK'
  OBVIOUS
<1> USE NoTaskType
<1>0. /\ docs \in [Docs -> Rows] /\ tasks \in [Docs -> Task] /\ jobs \in [Docs -> JobStatuses]
      /\ items \in [Docs -> Nat] /\ Nobody \notin Docs
      /\ \A e \in Docs : tasks[e].pc \in InTransaction <=> writer = e
      /\ NoTask.pc = "none" /\ "none" \notin InTransaction
  BY IngestionAssumption DEF TypeOK, Rows, Task, Docs, NoTask, InTransaction
<1>1. ASSUME NEW d \in Docs, NEW f \in Files, Upload(d, f) PROVE TypeOK'
  <2>1. docs' \in [Docs -> Rows]
    <3>1. [file |-> f, status |-> "uploaded"] \in Rows
      BY DEF Rows, DocStatuses
    <3> QED
      BY <1>0, <1>1, <3>1 DEF Upload
  <2> DEFINE t == [tasks[d] EXCEPT !.pc = "scheduled"]
  <2>2. t \in Task /\ t.pc = "scheduled" /\ "scheduled" \notin InTransaction
    BY <1>0 DEF Task, TaskPCs, InTransaction
  <2>3. tasks' = [tasks EXCEPT ![d] = t] /\ writer' = writer /\ writer # d
    BY <1>0, <1>1 DEF Upload, Free
  <2>4. tasks' \in [Docs -> Task] /\ \A e \in Docs : tasks'[e].pc \in InTransaction <=> writer' = e
    <3> HIDE DEF t
    <3> QED
      BY <2>2, <2>3, TaskType
  <2> QED
    BY <1>0, <1>1, <2>1, <2>4 DEF Upload, TypeOK, SetJob, JobStatuses, Rows, Task
<1>2. ASSUME NEW d \in Docs, Exclude(d) PROVE TypeOK'
  <2>1. docs' \in [Docs -> Rows]
    BY <1>2, RowType DEF Exclude, DocStatuses
  <2> QED
    BY <1>2, <2>1 DEF Exclude, TypeOK, Rows
<1>3. ASSUME NEW d \in Docs, Start(d) PROVE TypeOK'
  <2>1. CASE Duplicate(d)
    <3>1. docs' \in [Docs -> Rows]
      BY <1>3, <2>1, RowType DEF Start, DocStatuses
    <3>2. tasks' \in [Docs -> Task] /\ \A e \in Docs : tasks'[e].pc \in InTransaction <=> writer' = e
      BY <1>0, <1>3, <2>1, TaskType DEF Start, EndTask, Free
    <3> QED
      BY <1>0, <1>3, <2>1, <3>1, <3>2 DEF Start, TypeOK, SetJob, JobStatuses, Rows, Task
  <2>2. CASE ~Duplicate(d)
    <3> DEFINE t == [tasks[d] EXCEPT !.pc = "ocr"]
    <3>1. t \in Task /\ t.pc \in InTransaction
      BY <1>0 DEF Task, TaskPCs, InTransaction
    <3>2. tasks' = [tasks EXCEPT ![d] = t] /\ writer = Nobody /\ writer' = d
      BY <1>0, <1>3, <2>2 DEF Start, Free
    <3>3. tasks' \in [Docs -> Task] /\ \A e \in Docs : tasks'[e].pc \in InTransaction <=> writer' = e
      <4> HIDE DEF t
      <4> QED
        BY <3>1, <3>2, TaskType
    <3> QED
      BY <1>3, <2>2, <3>3 DEF Start, TypeOK, Task
  <2> QED
    BY <2>1, <2>2
<1>4. ASSUME NEW d \in Docs, StartTimeout(d) \/ FinishTimeout(d) PROVE TypeOK'
  <2>1. writer # d
    BY <1>0, <1>4 DEF StartTimeout, FinishTimeout, InTransaction
  <2>2. tasks' \in [Docs -> Task] /\ \A e \in Docs : tasks'[e].pc \in InTransaction <=> writer' = e
    BY <1>0, <1>4, <2>1, TaskType DEF StartTimeout, FinishTimeout, EndTask
  <2> QED
    BY <1>4, <2>2 DEF StartTimeout, FinishTimeout, TypeOK, Task
<1>5. ASSUME NEW d \in Docs, NEW s \in DocStatuses, NEW j \in JobStatuses, tasks[d].pc \in InTransaction,
             CommitAndEnd(d, s, j), UNCHANGED <<items, keyed, losses, crashes>>
      PROVE  TypeOK'
  <2>1. docs' \in [Docs -> Rows]
    BY <1>5, RowType DEF CommitAndEnd
  <2>2. tasks' \in [Docs -> Task] /\ \A e \in Docs : tasks'[e].pc \in InTransaction <=> writer' = e
    BY <1>0, <1>5, TaskType DEF CommitAndEnd, EndTask
  <2> QED
    BY <1>0, <1>5, <2>1, <2>2 DEF CommitAndEnd, TypeOK, SetJob, Rows, Task
<1>6. ASSUME NEW d \in Docs, NEW p \in InTransaction, NEW n \in 0..2, tasks[d].pc \in InTransaction,
             tasks' = [tasks EXCEPT ![d] = [tasks[d] EXCEPT !.pc = p, !.tries = n]],
             UNCHANGED <<docs, jobs, items, writer, keyed, losses, crashes>>
      PROVE  TypeOK'
  <2> DEFINE t == [tasks[d] EXCEPT !.pc = p, !.tries = n]
  <2>1. t \in Task /\ t.pc = p
    BY <1>0 DEF Task, TaskPCs
  <2>2. tasks' \in [Docs -> Task] /\ \A e \in Docs : tasks'[e].pc \in InTransaction <=> writer' = e
    <3>1. tasks' = [tasks EXCEPT ![d] = t] /\ writer' = writer /\ writer = d
      BY <1>0, <1>6
    <3> HIDE DEF t
    <3> QED
      BY <2>1, <3>1, TaskType
  <2> QED
    BY <1>6, <2>2 DEF TypeOK, Task
<1>7. ASSUME NEW d \in Docs, NEW n \in Nat, NEW out \in Outcomes, tasks[d].pc \in InTransaction,
             CommitClassification(d, n, out), UNCHANGED <<keyed, losses, crashes>>
      PROVE  TypeOK'
  <2>1. docs' \in [Docs -> Rows]
    BY <1>7, RowType DEF CommitClassification, DocStatuses
  <2> DEFINE t == [pc |-> "finish", tries |-> 0, out |-> out]
  <2>2. t \in Task /\ t.pc \notin InTransaction
    BY DEF Task, TaskPCs, InTransaction
  <2>3. tasks' \in [Docs -> Task] /\ \A e \in Docs : tasks'[e].pc \in InTransaction <=> writer' = e
    <3>1. tasks' = [tasks EXCEPT ![d] = t] /\ writer = d /\ writer' = Nobody
      BY <1>0, <1>7 DEF CommitClassification
    <3> HIDE DEF t
    <3> QED
      BY <2>2, <3>1, TaskType
  <2>4. items' \in [Docs -> Nat] /\ jobs' \in [Docs -> JobStatuses]
    BY <1>0, <1>7 DEF CommitClassification, SetJob, JobStatuses
  <2> QED
    BY <1>7, <2>1, <2>3, <2>4 DEF CommitClassification, TypeOK, Rows, Task
<1>8. ASSUME NEW d \in Docs, Extract(d) PROVE TypeOK'
  <2>1. tasks[d].pc \in InTransaction
    BY <1>8 DEF Extract, InTransaction
  <2>2. CASE CommitAndEnd(d, "text_extracted", "failed") \/ CommitAndEnd(d, "needs_review", "succeeded")
    BY <1>5, <1>8, <2>1, <2>2 DEF Extract, DocStatuses, JobStatuses, Outcomes
  <2>3. CASE tasks' = [tasks EXCEPT ![d].pc = "classify"] /\ UNCHANGED <<docs, jobs, writer>>
    <3>1. tasks[d] \in Task /\ tasks[d].tries \in 0..2
      BY <1>0 DEF Task
    <3>a. [tasks[d] EXCEPT !.pc = "classify"] = [tasks[d] EXCEPT !.pc = "classify", !.tries = tasks[d].tries]
      BY <3>1 DEF Task
    <3>2. tasks' = [tasks EXCEPT ![d] = [tasks[d] EXCEPT !.pc = "classify", !.tries = tasks[d].tries]]
      BY <2>3, <3>a
    <3> QED
      BY <1>6, <1>8, <2>1, <2>3, <3>1, <3>2 DEF Extract, InTransaction
  <2> QED
    BY <1>8, <2>2, <2>3 DEF Extract
<1>9. ASSUME NEW d \in Docs, Classify(d) PROVE TypeOK'
  <2>1. tasks[d].pc \in InTransaction
    BY <1>9 DEF Classify, InTransaction
  <2>2. CASE CommitClassification(d, 0, "classification_failed")
    BY <1>7, <1>9, <2>1, <2>2 DEF Classify, Outcomes
  <2>3. CASE /\ tasks' = [tasks EXCEPT ![d].pc = "provider", ![d].tries = 1]
             /\ UNCHANGED <<docs, jobs, items, writer>>
    <3>1. tasks' = [tasks EXCEPT ![d] = [tasks[d] EXCEPT !.pc = "provider", !.tries = 1]]
      BY <1>0, <2>3 DEF Task
    <3>2. UNCHANGED <<docs, jobs, items, writer, keyed, losses, crashes>> /\ 1 \in 0..2
      BY <1>9, <2>3 DEF Classify
    <3>3. "provider" \in InTransaction
      BY DEF InTransaction
    <3> QED
      BY <1>6, <2>1, <3>1, <3>2, <3>3
  <2> QED
    BY <1>9, <2>2, <2>3 DEF Classify
<1>10. ASSUME NEW d \in Docs, ProviderAnswer(d) PROVE TypeOK'
  BY <1>7, <1>10 DEF ProviderAnswer, InTransaction, Outcomes
<1>11. ASSUME NEW d \in Docs, ProviderRetry(d) PROVE TypeOK'
  <2>1. tasks[d] \in Task /\ tasks[d].tries + 1 \in 0..2 /\ tasks[d].pc = "provider"
    BY <1>0, <1>11 DEF ProviderRetry, Task
  <2>2. tasks' = [tasks EXCEPT ![d] = [tasks[d] EXCEPT !.pc = "provider", !.tries = tasks[d].tries + 1]]
    BY <1>0, <1>11, <2>1 DEF ProviderRetry, Task
  <2> QED
    BY <1>6, <1>11, <2>1, <2>2 DEF ProviderRetry, InTransaction
<1>12. ASSUME NEW d \in Docs, ProviderTimeout(d) PROVE TypeOK'
  BY <1>5, <1>12 DEF ProviderTimeout, InTransaction, DocStatuses, JobStatuses
<1>13. ASSUME NEW d \in Docs, Finish(d) PROVE TypeOK'
  <2>1. tasks[d].out \in DocStatuses /\ writer # d
    BY <1>0, <1>13 DEF Finish, Free, Task, DocStatuses
  <2>2. docs' \in [Docs -> Rows]
    BY <1>13, <2>1, RowType DEF Finish
  <2>3. tasks' \in [Docs -> Task] /\ \A e \in Docs : tasks'[e].pc \in InTransaction <=> writer' = e
    BY <1>0, <1>13, <2>1, TaskType DEF Finish, EndTask
  <2>4. jobs' \in [Docs -> JobStatuses]
    BY <1>0, <1>13 DEF Finish, SetJob, JobStatuses
  <2> QED
    BY <1>13, <2>2, <2>3, <2>4 DEF Finish, TypeOK, Rows, Task
<1>17. ASSUME NEW d \in Docs, Ocr(d) PROVE TypeOK'
  <2>1. tasks[d] \in Task /\ tasks[d].tries \in 0..2 /\ tasks[d].pc = "ocr"
    BY <1>0, <1>17 DEF Ocr, Task
  <2>2. [tasks[d] EXCEPT !.pc = "extract"] = [tasks[d] EXCEPT !.pc = "extract", !.tries = tasks[d].tries]
    BY <2>1 DEF Task
  <2>3. tasks' = [tasks EXCEPT ![d] = [tasks[d] EXCEPT !.pc = "extract", !.tries = tasks[d].tries]]
    BY <1>17, <2>2 DEF Ocr
  <2> QED
    BY <1>6, <1>17, <2>1, <2>3 DEF Ocr, InTransaction
<1>18. ASSUME NEW d \in Docs, Cancelled(d) PROVE TypeOK'
  <2>1. tasks' \in [Docs -> Task] /\ \A e \in Docs : tasks'[e].pc \in InTransaction <=> writer' = e
    BY <1>0, <1>18, TaskType DEF Cancelled, EndTask
  <2>2. writer' \in {writer, Nobody}
    BY <1>18 DEF Cancelled
  <2> QED
    BY <1>18, <2>1, <2>2 DEF Cancelled, TypeOK, Task
<1>14. CASE KeyLost \/ Unlock
  <2>1. losses' \in 0..MaxKeyLosses
    <3>1. losses \in 0..MaxKeyLosses /\ MaxKeyLosses \in Nat
      BY IngestionAssumption DEF TypeOK
    <3>2. losses' = losses \/ (losses < MaxKeyLosses /\ losses' = losses + 1)
      BY <1>14 DEF KeyLost, Unlock
    <3> QED
      BY <3>1, <3>2
  <2>2. keyed' \in BOOLEAN
    BY <1>14 DEF KeyLost, Unlock
  <2> QED
    BY <1>14, <2>1, <2>2 DEF KeyLost, Unlock, TypeOK
<1>15. CASE Restart
  <2>1. crashes' \in 0..MaxCrashes
    BY <1>15, IngestionAssumption DEF Restart, TypeOK
  <2>2. tasks' \in [Docs -> Task] /\ \A e \in Docs : tasks'[e].pc \in InTransaction <=> writer' = e
    BY <1>0, <1>15 DEF Restart
  <2> QED
    BY <1>15, <2>1, <2>2 DEF Restart, TypeOK, Task
<1>16. CASE UNCHANGED vars
  BY <1>16 DEF vars, TypeOK
<1> QED
  BY <1>1, <1>2, <1>3, <1>4, <1>8, <1>9, <1>10, <1>11, <1>12, <1>13, <1>14, <1>15, <1>16,
     <1>17, <1>18 DEF Next, Outside, TaskStep

\* Rows and tasks keep their shape, and exactly the task whose first
\* transaction is open holds the writer lock.
THEOREM TypeCorrect == Spec => []TypeOK
<1> QED
  BY InitType, TypeStep, PTL DEF Spec
-----------------------------------------------------------------------------
(* One copy of a file yields items, and the verdict fits them *)

\* Documents are created in order.
Prefix == \A d, e \in Docs : Stored(d) /\ e < d => Stored(e)

\* Whoever passed the hash check works on the oldest copy of its file.
First(d) == Stored(d) /\ \A e \in Docs : Stored(e) /\ docs[e].file = docs[d].file => d <= e
Oldest(d) == (tasks[d].pc \in InTransaction \union {"finish"} \/ items[d] > 0) => First(d)

\* A task that has not had its answer has no items, and its job no verdict;
\* afterwards the outcome it is about to write fits the items.
Fits(d) ==
    /\ tasks[d].pc \in InTransaction \union {"scheduled"} => items[d] = 0
    /\ tasks[d].pc = "finish" => (items[d] > 0 <=> tasks[d].out = "classified")
    /\ tasks[d].pc # "none" => Stored(d) /\ jobs[d] \notin {"succeeded", "failed"}
    /\ jobs[d] = "failed" => items[d] = 0
    /\ jobs[d] = "succeeded" =>
          \/ docs[d].status \in {"needs_review", "duplicate_detected", "reviewed"}
          \/ docs[d].status = "classified" /\ items[d] > 0

IInv == TypeOK /\ Prefix /\ \A d \in Docs : Oldest(d) /\ Fits(d)

LEMMA IInvInit == Init => IInv
  BY InitType DEF Init, IInv, Prefix, Oldest, Fits, Stored, InTransaction, NoTask, Absent

\* A step that changes one stored document, its job, its items and its task.
LEMMA Local ==
  ASSUME IInv, TypeOK', NEW d \in Docs,
         \A e \in Docs : docs'[e].file = docs[e].file /\ (Stored(e)' <=> Stored(e)),
         \A e \in Docs : e # d => docs'[e] = docs[e] /\ jobs'[e] = jobs[e] /\ items'[e] = items[e] /\ tasks'[e] = tasks[e],
         tasks'[d].pc \in InTransaction \union {"finish"} \/ items'[d] > 0 => First(d),
         Fits(d)'
  PROVE  IInv'
<1>1. Prefix'
  BY DEF IInv, Prefix
<1>2. ASSUME NEW e \in Docs PROVE First(e)' <=> First(e)
  BY <1>2 DEF First
<1>3. ASSUME NEW e \in Docs, e # d PROVE Oldest(e)' /\ Fits(e)'
  <2>1. Oldest(e) /\ Fits(e)
    BY <1>3 DEF IInv
  <2>2. Oldest(e)'
    BY <1>2, <1>3, <2>1 DEF Oldest
  <2>3. Fits(e)'
    BY <1>3, <2>1 DEF Fits
  <2> QED
    BY <2>2, <2>3
<1>4. Oldest(d)'
  BY <1>2 DEF Oldest
<1> QED
  BY <1>1, <1>3, <1>4 DEF IInv

\* A status other than absent keeps the files and what is stored.
LEMMA SameCopies ==
  ASSUME TypeOK, NEW d \in Docs, Stored(d), NEW s \in DocStatuses \ {Absent}, SetStatus(d, s)
  PROVE  \A e \in Docs : docs'[e].file = docs[e].file /\ (Stored(e)' <=> Stored(e))
  BY RowType DEF Stored

LEMMA IInvStep == IInv /\ [Next]_vars => IInv'
<1> SUFFICES ASSUME IInv, [Next]_vars PROVE IInv'
  OBVIOUS
<1>0. /\ TypeOK /\ TypeOK' /\ jobs \in [Docs -> JobStatuses] /\ items \in [Docs -> Nat]
      /\ tasks \in [Docs -> Task] /\ docs \in [Docs -> Rows]
      /\ \A d \in Docs : Oldest(d) /\ Fits(d)
      /\ NoTask.pc = "none"
  BY TypeStep DEF IInv, TypeOK, Task, Rows, NoTask
<1>1. ASSUME NEW d \in Docs, NEW f \in Files, Upload(d, f) PROVE IInv'
  <2>1. /\ docs'[d] = [file |-> f, status |-> "uploaded"] /\ jobs'[d] = "queued"
        /\ tasks'[d].pc = "scheduled" /\ items' = items
    BY <1>0, <1>1 DEF Upload, SetJob, Task
  <2>2. \A e \in Docs : e # d => docs'[e] = docs[e] /\ jobs'[e] = jobs[e] /\ tasks'[e] = tasks[e]
    BY <1>0, <1>1 DEF Upload, SetJob
  <2>3. ~Stored(d) /\ Stored(d)' /\ \A e \in Docs : e # d => (Stored(e)' <=> Stored(e))
    BY <1>1, <2>1, <2>2 DEF Upload, Stored, Absent
  <2>4. \A e \in Docs : Stored(e) => e < d
    BY <1>1, <2>3 DEF IInv, Prefix, Docs
  <2>5. Prefix'
    BY <1>1, <2>3, <2>4 DEF IInv, Prefix, Upload, Docs
  <2>6. ASSUME NEW e \in Docs, e # d PROVE Oldest(e)' /\ Fits(e)'
    <3>1. First(e) => First(e)'
      BY <2>1, <2>2, <2>3, <2>4, <2>6 DEF First, Docs
    <3>2. Oldest(e)'
      BY <1>0, <2>1, <2>2, <2>6, <3>1 DEF Oldest
    <3>3. Fits(e)'
      BY <1>0, <2>1, <2>2, <2>3, <2>6 DEF Fits
    <3> QED
      BY <3>2, <3>3
  <2>7. items[d] = 0
    BY <1>0, <2>3 DEF Oldest, First
  <2>8. Oldest(d)'
    BY <2>1, <2>7 DEF Oldest, InTransaction
  <2>9. Fits(d)'
    BY <2>1, <2>3, <2>7 DEF Fits, InTransaction
  <2> QED
    BY <1>0, <2>5, <2>6, <2>8, <2>9 DEF IInv
<1>2. ASSUME NEW d \in Docs, Exclude(d) PROVE IInv'
  <2>1. Stored(d) /\ SetStatus(d, "reviewed") /\ "reviewed" \in DocStatuses \ {Absent}
    BY <1>2 DEF Exclude, DocStatuses, Absent
  <2>2. /\ \A e \in Docs : docs'[e].file = docs[e].file /\ (Stored(e)' <=> Stored(e))
        /\ \A e \in Docs : e # d => docs'[e] = docs[e]
        /\ docs'[d].status = "reviewed"
    BY <1>0, <2>1, SameCopies, RowType
  <2>3. Fits(d)'
    BY <1>0, <1>2, <2>1, <2>2 DEF Exclude, Fits
  <2>4. tasks'[d].pc \in InTransaction \union {"finish"} \/ items'[d] > 0 => First(d)
    BY <1>0, <1>2 DEF Exclude, Oldest
  <2> QED
    BY <1>0, <1>2, <2>2, <2>3, <2>4, Local DEF Exclude
<1>3. ASSUME NEW d \in Docs, Start(d) PROVE IInv'
  <2>0. Stored(d) /\ items' = items /\ items[d] = 0 /\ jobs[d] \notin {"succeeded", "failed"}
    BY <1>0, <1>3 DEF Start, Fits
  <2>1. CASE Duplicate(d)
    <3>1. SetStatus(d, "duplicate_detected") /\ "duplicate_detected" \in DocStatuses \ {Absent}
      BY <1>3, <2>1 DEF Start, DocStatuses, Absent
    <3>2. /\ \A e \in Docs : docs'[e].file = docs[e].file /\ (Stored(e)' <=> Stored(e))
          /\ \A e \in Docs : e # d => docs'[e] = docs[e]
          /\ docs'[d].status = "duplicate_detected"
      BY <1>0, <2>0, <3>1, SameCopies, RowType
    <3>3. /\ jobs'[d] = "succeeded" /\ tasks'[d] = NoTask
          /\ \A e \in Docs : e # d => jobs'[e] = jobs[e] /\ tasks'[e] = tasks[e]
      BY <1>0, <1>3, <2>1 DEF Start, SetJob, EndTask
    <3>4. Fits(d)'
      BY <1>0, <2>0, <3>2, <3>3 DEF Fits, InTransaction
    <3>5. ~(tasks'[d].pc \in InTransaction \union {"finish"} \/ items'[d] > 0)
      BY <1>0, <2>0, <3>3 DEF InTransaction
    <3> QED
      BY <1>0, <2>0, <3>2, <3>3, <3>4, <3>5, Local
  <2>2. CASE ~Duplicate(d)
    <3>1. /\ docs' = docs /\ jobs' = jobs /\ tasks'[d].pc = "ocr"
          /\ \A e \in Docs : e # d => tasks'[e] = tasks[e]
      BY <1>0, <1>3, <2>2 DEF Start, Task
    <3>2. First(d)
      BY <2>0, <2>2 DEF First, Duplicate, Copies, Docs
    <3>3. Fits(d)'
      BY <2>0, <3>1 DEF Fits, Stored, InTransaction
    <3>4. \A e \in Docs : Stored(e)' <=> Stored(e)
      BY <3>1 DEF Stored
    <3> QED
      BY <1>0, <2>0, <3>1, <3>2, <3>3, <3>4, Local
  <2> QED
    BY <2>1, <2>2
<1>4. ASSUME NEW d \in Docs, StartTimeout(d) \/ FinishTimeout(d) \/ Cancelled(d) PROVE IInv'
  <2>1. /\ docs' = docs /\ jobs' = jobs /\ items' = items /\ tasks'[d] = NoTask
        /\ \A e \in Docs : e # d => tasks'[e] = tasks[e]
    BY <1>0, <1>4 DEF StartTimeout, FinishTimeout, Cancelled, EndTask
  <2>2. Fits(d)'
    BY <1>0, <2>1 DEF Fits, InTransaction
  <2>3. items'[d] > 0 => First(d)
    BY <1>0, <2>1 DEF Oldest
  <2>4. \A e \in Docs : Stored(e)' <=> Stored(e)
    BY <2>1 DEF Stored
  <2>5. tasks'[d].pc \in InTransaction \union {"finish"} \/ items'[d] > 0 => First(d)
    BY <1>0, <2>1, <2>3 DEF InTransaction
  <2> QED
    BY <1>0, <2>1, <2>2, <2>4, <2>5, Local
<1>5. ASSUME NEW d \in Docs, NEW s \in DocStatuses \ {Absent}, NEW j \in JobStatuses, tasks[d].pc \in InTransaction,
             CommitAndEnd(d, s, j), items' = items, j = "succeeded" => s = "needs_review"
      PROVE  IInv'
  <2>0. Stored(d) /\ items[d] = 0 /\ jobs[d] \notin {"succeeded", "failed"}
    BY <1>0, <1>5 DEF Fits, InTransaction
  <2>1. /\ \A e \in Docs : docs'[e].file = docs[e].file /\ (Stored(e)' <=> Stored(e))
        /\ \A e \in Docs : e # d => docs'[e] = docs[e]
        /\ docs'[d].status = s
    BY <1>0, <1>5, <2>0, SameCopies, RowType DEF CommitAndEnd
  <2>2. /\ jobs'[d] = j /\ tasks'[d] = NoTask
        /\ \A e \in Docs : e # d => jobs'[e] = jobs[e] /\ tasks'[e] = tasks[e]
    BY <1>0, <1>5 DEF CommitAndEnd, SetJob, EndTask
  <2>3. Fits(d)'
    BY <1>0, <1>5, <2>0, <2>1, <2>2 DEF Fits, InTransaction
  <2>4. ~(tasks'[d].pc \in InTransaction \union {"finish"} \/ items'[d] > 0)
    BY <1>0, <1>5, <2>0, <2>2 DEF InTransaction
  <2> QED
    BY <1>0, <1>5, <2>1, <2>2, <2>3, <2>4, Local
<1>6. ASSUME NEW d \in Docs, tasks[d].pc \in InTransaction, tasks'[d].pc \in InTransaction,
             \A e \in Docs : e # d => tasks'[e] = tasks[e], UNCHANGED <<docs, jobs, items>>
      PROVE  IInv'
  <2>1. Fits(d)'
    BY <1>0, <1>6 DEF Fits, Stored, InTransaction
  <2>2. First(d)
    BY <1>0, <1>6 DEF Oldest
  <2>3. \A e \in Docs : Stored(e)' <=> Stored(e)
    BY <1>6 DEF Stored
  <2> QED
    BY <1>0, <1>6, <2>1, <2>2, <2>3, Local
<1>7. ASSUME NEW d \in Docs, NEW n \in Nat, NEW out \in Outcomes, tasks[d].pc \in InTransaction,
             CommitClassification(d, n, out), n > 0 <=> out = "classified"
      PROVE  IInv'
  <2>0. Stored(d) /\ First(d) /\ items[d] = 0
    BY <1>0, <1>7 DEF Oldest, Fits, InTransaction
  <2>1. SetStatus(d, "items_detected") /\ "items_detected" \in DocStatuses \ {Absent}
    BY <1>7 DEF CommitClassification, DocStatuses, Absent
  <2>2. /\ \A e \in Docs : docs'[e].file = docs[e].file /\ (Stored(e)' <=> Stored(e))
        /\ \A e \in Docs : e # d => docs'[e] = docs[e]
    BY <1>0, <2>0, <2>1, SameCopies, RowType
  <2>3. /\ jobs'[d] = "running" /\ items'[d] = n /\ tasks'[d].pc = "finish" /\ tasks'[d].out = out
        /\ \A e \in Docs : e # d => jobs'[e] = jobs[e] /\ items'[e] = items[e] /\ tasks'[e] = tasks[e]
    BY <1>0, <1>7, <2>0 DEF CommitClassification, SetJob
  <2>4. Fits(d)'
    BY <1>7, <2>0, <2>2, <2>3 DEF Fits, InTransaction
  <2> QED
    BY <1>0, <2>0, <2>2, <2>3, <2>4, Local
<1>8. ASSUME NEW d \in Docs, Extract(d) PROVE IInv'
  <2>1. tasks[d].pc \in InTransaction /\ items' = items
    BY <1>8 DEF Extract, InTransaction
  <2>2. CASE CommitAndEnd(d, "text_extracted", "failed") \/ CommitAndEnd(d, "needs_review", "succeeded")
    BY <1>5, <2>1, <2>2 DEF DocStatuses, JobStatuses, Outcomes, Absent
  <2>3. CASE tasks' = [tasks EXCEPT ![d].pc = "classify"] /\ UNCHANGED <<docs, jobs, writer>>
    <3>1. tasks'[d].pc \in InTransaction /\ \A e \in Docs : e # d => tasks'[e] = tasks[e]
      BY <1>0, <2>3 DEF Task, InTransaction
    <3> QED
      BY <1>6, <2>1, <2>3, <3>1
  <2> QED
    BY <1>8, <2>2, <2>3 DEF Extract
<1>9. ASSUME NEW d \in Docs, Classify(d) PROVE IInv'
  <2>1. tasks[d].pc \in InTransaction
    BY <1>9 DEF Classify, InTransaction
  <2>2. CASE CommitClassification(d, 0, "classification_failed")
    BY <1>7, <2>1, <2>2 DEF Outcomes
  <2>3. CASE /\ tasks' = [tasks EXCEPT ![d].pc = "provider", ![d].tries = 1]
             /\ UNCHANGED <<docs, jobs, items, writer>>
    <3>1. tasks'[d].pc \in InTransaction /\ \A e \in Docs : e # d => tasks'[e] = tasks[e]
      BY <1>0, <2>3 DEF Task, InTransaction
    <3> QED
      BY <1>6, <2>1, <2>3, <3>1
  <2> QED
    BY <1>9, <2>2, <2>3 DEF Classify
<1>10. ASSUME NEW d \in Docs, ProviderAnswer(d) PROVE IInv'
  BY <1>7, <1>10 DEF ProviderAnswer, InTransaction, Outcomes
<1>11. ASSUME NEW d \in Docs, ProviderRetry(d) PROVE IInv'
  <2>1. /\ tasks[d].pc = "provider" /\ tasks'[d].pc = "provider"
        /\ \A e \in Docs : e # d => tasks'[e] = tasks[e]
    BY <1>0, <1>11 DEF ProviderRetry, Task
  <2> QED
    BY <1>6, <1>11, <2>1 DEF ProviderRetry, InTransaction
<1>16. ASSUME NEW d \in Docs, Ocr(d) PROVE IInv'
  <2>1. /\ tasks[d].pc = "ocr" /\ tasks'[d].pc = "extract"
        /\ \A e \in Docs : e # d => tasks'[e] = tasks[e]
    BY <1>0, <1>16 DEF Ocr, Task
  <2> QED
    BY <1>6, <1>16, <2>1 DEF Ocr, InTransaction
<1>12. ASSUME NEW d \in Docs, ProviderTimeout(d) PROVE IInv'
  BY <1>5, <1>12 DEF ProviderTimeout, InTransaction, DocStatuses, JobStatuses, Absent
<1>13. ASSUME NEW d \in Docs, Finish(d) PROVE IInv'
  <2>0. /\ Stored(d) /\ First(d) /\ items' = items /\ items[d] \in Nat
        /\ items[d] > 0 <=> tasks[d].out = "classified"
    BY <1>0, <1>13 DEF Finish, Oldest, Fits
  <2>1. tasks[d].out \in Outcomes /\ tasks[d].out \in DocStatuses \ {Absent}
    BY <1>0 DEF Task, DocStatuses, Outcomes, Absent
  <2>2. /\ \A e \in Docs : docs'[e].file = docs[e].file /\ (Stored(e)' <=> Stored(e))
        /\ \A e \in Docs : e # d => docs'[e] = docs[e]
        /\ docs'[d].status = tasks[d].out
    BY <1>0, <1>13, <2>0, <2>1, SameCopies, RowType DEF Finish
  <2>3. /\ jobs'[d] = IF tasks[d].out = "classification_failed" THEN "failed" ELSE "succeeded"
        /\ tasks'[d] = NoTask
        /\ \A e \in Docs : e # d => jobs'[e] = jobs[e] /\ tasks'[e] = tasks[e]
    BY <1>0, <1>13 DEF Finish, SetJob, EndTask
  <2>4. Fits(d)'
    BY <1>0, <2>0, <2>1, <2>2, <2>3 DEF Fits, InTransaction, Outcomes
  <2> QED
    BY <1>0, <2>0, <2>2, <2>3, <2>4, Local
<1>14. CASE KeyLost \/ Unlock \/ UNCHANGED vars
  <2>1. docs' = docs /\ jobs' = jobs /\ items' = items /\ tasks' = tasks
    BY <1>14 DEF KeyLost, Unlock, vars
  <2> QED
    BY <1>0, <2>1 DEF IInv, Prefix, Oldest, First, Fits, Stored
<1>15. CASE Restart
  <2>1. docs' = docs /\ jobs' = jobs /\ items' = items /\ \A d \in Docs : tasks'[d].pc = "none"
    BY <1>0, <1>15 DEF Restart
  <2> QED
    BY <1>0, <2>1 DEF IInv, Prefix, Oldest, First, Fits, Stored, InTransaction
<1> QED
  BY <1>1, <1>2, <1>3, <1>4, <1>8, <1>9, <1>10, <1>11, <1>12, <1>13, <1>14, <1>15, <1>16
     DEF Next, Outside, TaskStep

LEMMA Inductive == Spec => []IInv
<1> QED
  BY IInvInit, IInvStep, PTL DEF Spec

\* At most one copy of a file ever yields tax items.
THEOREM NoDoubleCountingAlways == Spec => []NoDoubleCounting
<1>1. IInv => NoDoubleCounting
  BY DEF IInv, Oldest, First, NoDoubleCounting, Docs
<1> QED
  BY <1>1, Inductive, PTL

\* A job that reports success leaves a document the reviewer can act on.
THEOREM SuccessIsAccountedForAlways == Spec => []SuccessIsAccountedFor
<1>1. IInv => SuccessIsAccountedFor
  BY DEF IInv, Fits, SuccessIsAccountedFor
<1> QED
  BY <1>1, Inductive, PTL

\* A job that reports failure leaves no items behind.
THEOREM FailureLeavesNoItemsAlways == Spec => []FailureLeavesNoItems
<1>1. IInv => FailureLeavesNoItems
  BY DEF IInv, Fits, FailureLeavesNoItems
<1> QED
  BY <1>1, Inductive, PTL

-----------------------------------------------------------------------------
(* The life of a document.  A commit is a step of it, everything else a     *)
(* stutter; what a commit may assume of the job is where its task is.       *)

\* As long as a task has committed nothing its job is queued, and between its
\* two commits it is running: nobody else writes a job.
Stage(d) ==
    /\ tasks[d].pc \in InTransaction \union {"scheduled"} => jobs[d] = "queued"
    /\ tasks[d].pc = "finish" => jobs[d] = "running"

StageInv == \A d \in Docs : Stage(d)

LEMMA StageInit == Init => StageInv
  BY DEF Init, StageInv, Stage, NoTask, InTransaction

LEMMA StageStep == IInv /\ StageInv /\ [Next]_vars => StageInv'
<1> SUFFICES ASSUME IInv, StageInv, [Next]_vars PROVE StageInv'
  OBVIOUS
<1>0. /\ tasks \in [Docs -> Task] /\ jobs \in [Docs -> JobStatuses] /\ NoTask.pc = "none"
      /\ "none" \notin InTransaction /\ "finish" \notin InTransaction /\ "scheduled" \notin InTransaction
  BY DEF IInv, TypeOK, Task, NoTask, InTransaction
<1>1. ASSUME NEW d \in Docs, Stage(d)',
             \A e \in Docs : e # d => jobs'[e] = jobs[e] /\ tasks'[e] = tasks[e]
      PROVE  StageInv'
  BY <1>1 DEF StageInv, Stage
<1>2. ASSUME NEW d \in Docs, EndTask(d), \A e \in Docs : e # d => jobs'[e] = jobs[e] PROVE StageInv'
  BY <1>0, <1>1, <1>2 DEF EndTask, Stage
<1>3. ASSUME NEW d \in Docs, NEW f \in Files, Upload(d, f) PROVE StageInv'
  BY <1>0, <1>1, <1>3 DEF Upload, SetJob, Stage, Task
<1>4. ASSUME NEW d \in Docs, Start(d) PROVE StageInv'
  <2>1. CASE Duplicate(d)
    BY <1>0, <1>2, <1>4, <2>1 DEF Start, SetJob
  <2>2. CASE ~Duplicate(d)
    BY <1>0, <1>1, <1>4, <2>2 DEF Start, StageInv, Stage, Task
  <2> QED
    BY <2>1, <2>2
<1>5. ASSUME NEW d \in Docs, StartTimeout(d) \/ FinishTimeout(d) \/ Cancelled(d) \/ Finish(d) PROVE StageInv'
  BY <1>0, <1>2, <1>5 DEF StartTimeout, FinishTimeout, Cancelled, Finish, SetJob
<1>6. ASSUME NEW d \in Docs, NEW s, NEW j, CommitAndEnd(d, s, j) PROVE StageInv'
  BY <1>0, <1>2, <1>6 DEF CommitAndEnd, SetJob
<1>7. ASSUME NEW d \in Docs, NEW n, NEW out, CommitClassification(d, n, out) PROVE StageInv'
  BY <1>0, <1>1, <1>7 DEF CommitClassification, SetJob, Stage
<1>8. ASSUME NEW d \in Docs, tasks[d].pc \in InTransaction, tasks'[d].pc \in InTransaction,
             \A e \in Docs : e # d => tasks'[e] = tasks[e], UNCHANGED jobs
      PROVE  StageInv'
  BY <1>0, <1>1, <1>8 DEF StageInv, Stage
<1>9. ASSUME NEW d \in Docs, Extract(d) PROVE StageInv'
  <2>1. CASE tasks' = [tasks EXCEPT ![d].pc = "classify"] /\ UNCHANGED <<docs, jobs, writer>>
    BY <1>0, <1>8, <1>9, <2>1 DEF Extract, InTransaction, Task
  <2> QED
    BY <1>6, <1>9, <2>1 DEF Extract
<1>10. ASSUME NEW d \in Docs, Classify(d) PROVE StageInv'
  <2>1. CASE /\ tasks' = [tasks EXCEPT ![d].pc = "provider", ![d].tries = 1]
             /\ UNCHANGED <<docs, jobs, items, writer>>
    BY <1>0, <1>8, <1>10, <2>1 DEF Classify, InTransaction, Task
  <2> QED
    BY <1>7, <1>10, <2>1 DEF Classify
<1>11. ASSUME NEW d \in Docs, ProviderAnswer(d) \/ ProviderTimeout(d) PROVE StageInv'
  BY <1>6, <1>7, <1>11 DEF ProviderAnswer, ProviderTimeout
<1>12. ASSUME NEW d \in Docs, ProviderRetry(d) \/ Ocr(d) PROVE StageInv'
  BY <1>0, <1>8, <1>12 DEF ProviderRetry, Ocr, InTransaction, Task
<1>13. CASE Restart
  BY <1>0, <1>13 DEF Restart, StageInv, Stage
<1>14. CASE UNCHANGED <<jobs, tasks>>
  BY <1>14 DEF StageInv, Stage
<1> QED
  BY <1>3, <1>4, <1>5, <1>9, <1>10, <1>11, <1>12, <1>13, <1>14
     DEF Next, Outside, TaskStep, Exclude, KeyLost, Unlock, vars

LEMMA LifecycleStep == ASSUME IInv, IInv', StageInv, [Next]_vars PROVE [Lifecycle!Next]_(Lifecycle!vars)
<1> DEFINE st == [d \in Docs |-> docs[d].status]
<1>0. /\ tasks \in [Docs -> Task] /\ jobs \in [Docs -> JobStatuses] /\ docs \in [Docs -> Rows]
      /\ items \in [Docs -> Nat] /\ st \in [Docs -> DocStatuses]
      /\ \A d \in Docs : Fits(d) /\ Stage(d)
  BY DEF IInv, StageInv, TypeOK, Task, Rows
<1>1. CASE UNCHANGED <<docs, jobs, items>>
  BY <1>1 DEF Lifecycle!vars
<1>2. ASSUME NEW d \in Docs, NEW s \in DocStatuses, SetStatus(d, s) PROVE st' = [st EXCEPT ![d] = s]
  BY <1>0, <1>2 DEF SetStatus, Rows
<1>3. ASSUME NEW d \in Docs, NEW s \in DocStatuses, NEW j, SetStatus(d, s), SetJob(d, j)
      PROVE  Lifecycle!Become(d, s, j)
  BY <1>2, <1>3 DEF Lifecycle!Become, SetJob
<1>4. ASSUME NEW d \in Docs, NEW f \in Files, Upload(d, f) PROVE Lifecycle!Arrive(d)
  <2>1. st' = [st EXCEPT ![d] = "uploaded"] /\ st[d] = "absent"
    BY <1>0, <1>4 DEF Upload, Stored, Absent, Rows
  <2> QED
    BY <1>4, <2>1 DEF Upload, SetJob, Lifecycle!Arrive, Lifecycle!Become
<1>5. ASSUME NEW d \in Docs, Exclude(d) PROVE Lifecycle!Overrule(d)
  <2>1. st' = [st EXCEPT ![d] = "reviewed"] /\ st[d] # "absent"
    BY <1>2, <1>5 DEF Exclude, Stored, Absent, DocStatuses
  <2> QED
    BY <1>5, <2>1 DEF Exclude, Lifecycle!Overrule
<1>6. ASSUME NEW d \in Docs, Start(d), Duplicate(d) PROVE Lifecycle!Conclude(d)
  <2>1. Lifecycle!Become(d, "duplicate_detected", "succeeded") /\ items' = items /\ jobs[d] = "queued"
    BY <1>0, <1>3, <1>6 DEF Start, Stage, DocStatuses
  <2> QED
    BY <2>1 DEF Lifecycle!Conclude
<1>7. ASSUME NEW d \in Docs, NEW s \in DocStatuses, NEW j, CommitAndEnd(d, s, j), items' = items,
             tasks[d].pc \in InTransaction,
             <<s, j>> \in {<<"needs_review", "succeeded">>, <<"text_extracted", "failed">>, <<"items_detected", "failed">>}
      PROVE  Lifecycle!Conclude(d)
  <2>1. Lifecycle!Become(d, s, j) /\ jobs[d] = "queued"
    BY <1>0, <1>3, <1>7 DEF CommitAndEnd, Stage
  <2> QED
    BY <1>7, <2>1 DEF Lifecycle!Conclude
<1>8. ASSUME NEW d \in Docs, NEW n \in 0..1, NEW out, CommitClassification(d, n, out), tasks[d].pc \in InTransaction
      PROVE  Lifecycle!Classify(d, n)
  <2>1. Lifecycle!Become(d, "items_detected", "running")
    BY <1>3, <1>8 DEF CommitClassification, DocStatuses
  <2>2. jobs[d] = "queued" /\ items[d] = 0
    BY <1>0, <1>8 DEF Stage, Fits
  <2>3. items' = [items EXCEPT ![d] = n]
    BY <1>0, <1>8, <2>2 DEF CommitClassification
  <2> QED
    BY <2>1, <2>2, <2>3 DEF Lifecycle!Classify
<1>9. ASSUME NEW d \in Docs, Finish(d) PROVE Lifecycle!Judge(d)
  <2> DEFINE o == tasks[d].out
  <2> DEFINE j == IF o = "classification_failed" THEN "failed" ELSE "succeeded"
  <2>1. o \in Outcomes /\ o \in DocStatuses
    BY <1>0 DEF Task, DocStatuses
  <2>2. SetStatus(d, o) /\ SetJob(d, j)
    BY <1>9 DEF Finish
  <2>3. jobs[d] = "running" /\ items' = items /\ items[d] \in Nat /\ (items[d] > 0 <=> o = "classified")
    BY <1>0, <1>9 DEF Finish, Stage, Fits
  <2>4. /\ o = "classification_failed" => j = "failed"
        /\ o # "classification_failed" => j = "succeeded"
    OBVIOUS
  <2> HIDE DEF o, j
  <2>5. o \in {"classified", "needs_review", "classification_failed"}
    BY <2>1 DEF Outcomes
  <2>6. CASE o = "classified"
    <3>1. SetStatus(d, "classified") /\ SetJob(d, "succeeded")
      BY <2>2, <2>4, <2>6 DEF SetStatus, SetJob
    <3>2. Lifecycle!Become(d, "classified", "succeeded")
      BY <1>3, <3>1 DEF DocStatuses, Outcomes
    <3> QED
      BY <2>3, <2>6, <3>2 DEF Lifecycle!Judge
  <2>7. CASE o = "needs_review"
    <3>1. SetStatus(d, "needs_review") /\ SetJob(d, "succeeded")
      BY <2>2, <2>4, <2>7 DEF SetStatus, SetJob
    <3>2. Lifecycle!Become(d, "needs_review", "succeeded")
      BY <1>3, <3>1 DEF DocStatuses, Outcomes
    <3> QED
      BY <2>3, <2>7, <3>2 DEF Lifecycle!Judge
  <2>8. CASE o = "classification_failed"
    <3>1. SetStatus(d, "classification_failed") /\ SetJob(d, "failed")
      BY <2>2, <2>4, <2>8 DEF SetStatus, SetJob
    <3>2. Lifecycle!Become(d, "classification_failed", "failed")
      BY <1>3, <3>1 DEF DocStatuses, Outcomes
    <3> QED
      BY <2>3, <2>8, <3>2 DEF Lifecycle!Judge
  <2> QED
    BY <2>5, <2>6, <2>7, <2>8
<1>10. ASSUME NEW d \in Docs, Extract(d) PROVE Lifecycle!Conclude(d) \/ UNCHANGED <<docs, jobs, items>>
  BY <1>7, <1>10 DEF Extract, InTransaction, DocStatuses, Outcomes
<1>11. ASSUME NEW d \in Docs, Classify(d) PROVE Lifecycle!Classify(d, 0) \/ UNCHANGED <<docs, jobs, items>>
  BY <1>8, <1>11 DEF Classify, InTransaction
<1>12. ASSUME NEW d \in Docs, ProviderAnswer(d) PROVE Lifecycle!Classify(d, 0) \/ Lifecycle!Classify(d, 1)
  BY <1>8, <1>12 DEF ProviderAnswer, InTransaction
<1>13. ASSUME NEW d \in Docs, ProviderTimeout(d) PROVE Lifecycle!Conclude(d)
  BY <1>7, <1>13 DEF ProviderTimeout, InTransaction, DocStatuses
<1>14. ASSUME NEW d \in Docs, Start(d), ~Duplicate(d) PROVE UNCHANGED <<docs, jobs, items>>
  BY <1>14 DEF Start
<1>15. ASSUME NEW d \in Docs, StartTimeout(d) \/ FinishTimeout(d) \/ ProviderRetry(d) \/ Ocr(d) \/ Cancelled(d)
       PROVE  UNCHANGED <<docs, jobs, items>>
  BY <1>15 DEF StartTimeout, FinishTimeout, ProviderRetry, Ocr, Cancelled
<1>16. CASE KeyLost \/ Unlock \/ Restart \/ UNCHANGED vars
  BY <1>1, <1>16 DEF KeyLost, Unlock, Restart, vars
<1>17. CASE \E d \in Docs, f \in Files : Upload(d, f)
  BY <1>4, <1>17 DEF Lifecycle!Next
<1>18. CASE \E d \in Docs : Exclude(d) \/ TaskStep(d) \/ Ocr(d) \/ ProviderAnswer(d) \/ ProviderRetry(d) \/ Cancelled(d)
  <2>1. PICK d \in Docs : Exclude(d) \/ TaskStep(d) \/ Ocr(d) \/ ProviderAnswer(d) \/ ProviderRetry(d) \/ Cancelled(d)
    BY <1>18
  <2>2. \/ Lifecycle!Overrule(d) \/ Lifecycle!Conclude(d) \/ Lifecycle!Judge(d)
        \/ Lifecycle!Classify(d, 0) \/ Lifecycle!Classify(d, 1)
        \/ UNCHANGED <<docs, jobs, items>>
    BY <1>5, <1>6, <1>9, <1>10, <1>11, <1>12, <1>13, <1>14, <1>15, <2>1 DEF TaskStep
  <2> QED
    BY <1>1, <2>2 DEF Lifecycle!Next
<1> QED
  BY <1>16, <1>17, <1>18 DEF Next, Outside

\* For any files and documents and any number of lost keys and restarts, the
\* pipeline implements the life of a document as others see it.
THEOREM LifecycleImplemented == Spec => ImplementsDocumentLifecycle
<1>1. Init => Lifecycle!Init
  BY DEF Init, Lifecycle!Init, Absent
<1> QED
  BY <1>1, Inductive, IInvStep, StageInit, StageStep, LifecycleStep, PTL
     DEF Spec, ImplementsDocumentLifecycle, Lifecycle!Spec
=============================================================================
