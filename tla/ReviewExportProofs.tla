-------------------------- MODULE ReviewExportProofs --------------------------
(***************************************************************************)
(* Proofs about ReviewExport, for any items, documents and packs and any   *)
(* number of restarts.                                                     *)
(***************************************************************************)
EXTENDS ReviewExport, TLAPS

-----------------------------------------------------------------------------
(* Type correctness *)

LEMMA InitType == Init => TypeOK
<1> SUFFICES ASSUME Init PROVE TypeOK
  OBVIOUS
<1>1. items \in [Items -> [status : {"absent"} \union Statuses, flag : BOOLEAN, doc : Docs]]
  BY DEF Init
<1>2. exports \in [Exports -> ExportStates]
  BY DEF Init, ExportStates
<1> QED
  BY <1>1, <1>2, ReviewAssumption DEF Init, TypeOK, DocStatuses

LEMMA ItemType ==
  ASSUME TypeOK, NEW i \in Items, NEW s \in Statuses
  PROVE  /\ \A b \in BOOLEAN, d \in Docs :
               [items EXCEPT ![i] = [status |-> s, flag |-> b, doc |-> d]]
                  \in [Items -> [status : {"absent"} \union Statuses, flag : BOOLEAN, doc : Docs]]
         /\ \A b \in BOOLEAN :
               [items EXCEPT ![i].status = s, ![i].flag = b]
                  \in [Items -> [status : {"absent"} \union Statuses, flag : BOOLEAN, doc : Docs]]
  BY DEF TypeOK

LEMMA FlagType == \A s : Flag(s) \in BOOLEAN
  BY DEF Flag

LEMMA RowType ==
  ASSUME NEW row \in ExportStates,
         NEW p \in {"new", "generating", "written", "ended"}, NEW j \in {"absent", "running", "succeeded", "failed"},
         NEW c \in {"absent", "ready", "deleted"}, NEW k \in {"none", "reviewed", "unreviewed"}, NEW f \in BOOLEAN
  PROVE  /\ [row EXCEPT !.pc = p] \in ExportStates
         /\ [row EXCEPT !.pc = p, !.job = j] \in ExportStates
         /\ [row EXCEPT !.pc = p, !.job = j, !.record = c] \in ExportStates
         /\ [row EXCEPT !.pc = p, !.file = f, !.pack = k] \in ExportStates
         /\ [row EXCEPT !.file = f] \in ExportStates
         /\ [row EXCEPT !.record = c] \in ExportStates
  BY DEF ExportStates

LEMMA TypeStep == TypeOK /\ [Next]_vars => TypeOK'
<1> SUFFICES ASSUME TypeOK, [Next]_vars PROVE TypeOK'
  OBVIOUS
<1>1. ASSUME NEW d \in Docs, PipelineBegin(d) PROVE TypeOK'
  BY <1>1, ReviewAssumption DEF PipelineBegin, Free, TypeOK, DocStatuses
<1>2. ASSUME NEW d \in Docs, PipelineWithoutItems(d) PROVE TypeOK'
  BY <1>2, ReviewAssumption DEF PipelineWithoutItems, TypeOK, DocStatuses
<1>3. ASSUME NEW d \in Docs, ManualReviewAction(d) PROVE TypeOK'
  BY <1>3 DEF ManualReviewAction, TypeOK, DocStatuses, MANUAL_REVIEW_DOCUMENT_STATUSES
<1>4. ASSUME NEW d \in Docs, NEW i \in Items, PipelineItem(d, i) PROVE TypeOK'
  <2>1. "needs_review" \in Statuses /\ removing = {}
    BY <1>4, ReviewAssumption DEF PipelineItem, Statuses, Undecided, TypeOK
  <2>2. PICK b \in BOOLEAN : items' = [items EXCEPT ![i] = [status |-> "needs_review", flag |-> b, doc |-> d]]
    BY <1>4 DEF PipelineItem
  <2>3. items' \in [Items -> [status : {"absent"} \union Statuses, flag : BOOLEAN, doc : Docs]]
    BY <2>1, <2>2, ItemType
  <2>4. docs' \in [Docs -> DocStatuses]
    BY <1>4 DEF PipelineItem, TypeOK, DocStatuses
  <2> QED
    BY <1>4, <2>1, <2>3, <2>4 DEF PipelineItem, TypeOK
<1>5. ASSUME NEW d \in Docs, NEW i \in Items, NEW s \in Statuses, ManualItem(d, i, s) PROVE TypeOK'
  <2>1. docs' \in [Docs -> DocStatuses]
    BY <1>5 DEF ManualItem, TypeOK, DocStatuses
  <2> QED
    BY <1>5, <2>1, ItemType, FlagType DEF ManualItem, TypeOK
<1>6. ASSUME NEW i \in Items, NEW s \in Statuses, SetReviewStatus(i, s) PROVE TypeOK'
  <2>1. items' \in [Items -> [status : {"absent"} \union Statuses, flag : BOOLEAN, doc : Docs]]
    <3>1. PICK b \in BOOLEAN : b = Flag(s)
      BY FlagType
    <3>2. items' = [items EXCEPT ![i].status = s, ![i].flag = b]
      BY <1>6, <3>1 DEF SetReviewStatus
    <3> QED
      BY <3>2, ItemType
  <2> QED
    BY <1>6, <2>1 DEF SetReviewStatus, TypeOK
<1>7. ASSUME NEW e \in Exports, Generate(e) \/ GenerateRefused(e) \/ WritePack(e) \/ CommitPack(e) \/ CommitPackTimeout(e)
      PROVE TypeOK'
  <2>1. exports[e] \in ExportStates
    BY DEF TypeOK
  <2>2. PICK row \in ExportStates : exports' = [exports EXCEPT ![e] = row]
    BY <1>7, <2>1, RowType DEF Generate, GenerateRefused, WritePack, CommitPack, CommitPackTimeout, Row
  <2>3. exports' \in [Exports -> ExportStates]
    BY <2>2 DEF TypeOK
  <2> QED
    BY <1>7, <2>3 DEF Generate, GenerateRefused, WritePack, CommitPack, CommitPackTimeout, TypeOK
<1>8. ASSUME NEW E \in SUBSET Exports, NEW by \in {"delete", "cleanup"}, Unlink(E, by) PROVE TypeOK'
  <2>1. exports' \in [Exports -> ExportStates]
    BY <1>8, RowType DEF Unlink, TypeOK
  <2> QED
    BY <1>8, <2>1 DEF Unlink, TypeOK
<1>9. CASE CommitRemoval
  <2>1. exports' \in [Exports -> ExportStates]
    BY <1>9, RowType DEF CommitRemoval, TypeOK
  <2> QED
    BY <1>9, <2>1 DEF CommitRemoval, TypeOK
<1>10. CASE Restart
  <2>1. exports' \in [Exports -> ExportStates]
    BY <1>10, RowType DEF Restart, TypeOK
  <2> QED
    BY <1>10, <2>1, ReviewAssumption DEF Restart, TypeOK
<1>11. CASE UNCHANGED vars
  BY <1>11 DEF vars, TypeOK
<1>12. ASSUME NEW e \in Exports, Delete(e) PROVE TypeOK'
  BY <1>12, <1>8 DEF Delete
<1>13. CASE Cleanup
  BY <1>13, <1>8 DEF Cleanup, Ready
<1> QED
  BY <1>1, <1>2, <1>3, <1>4, <1>5, <1>6, <1>7, <1>9, <1>10, <1>11, <1>12, <1>13 DEF Next

\* Rows keep their shape and files are removed only inside a transaction.
THEOREM TypeCorrect == Spec => []TypeOK
<1> QED
  BY InitType, TypeStep, PTL DEF Spec

-----------------------------------------------------------------------------
(* Job, record and file of a pack *)

\* A request that has not ended has no record yet, and a written file; files
\* leave the disk only for listed packs, and only in an open transaction.
PackInv(e) ==
    /\ exports[e].pc # "ended" => exports[e].record = "absent" /\ exports[e].job # "succeeded"
    /\ exports[e].pc = "written" => exports[e].file
    /\ e \in removing => exports[e].record = "ready" /\ ~exports[e].file
    /\ exports[e].record = "deleted" => ~exports[e].file
    /\ exports[e].record = "ready" /\ e \notin removing /\ crashes = 0 => exports[e].file
    /\ exports[e].job = "succeeded" <=> exports[e].record # "absent"

PacksInv == \A e \in Exports : PackInv(e)

LEMMA PacksInit == Init => PacksInv
  BY DEF Init, PacksInv, PackInv

LEMMA PacksStep == TypeOK /\ PacksInv /\ [Next]_vars => PacksInv'
<1> SUFFICES ASSUME TypeOK, PacksInv, [Next]_vars PROVE PacksInv'
  OBVIOUS
<1>1. CASE UNCHANGED <<exports, removing, crashes>>
  BY <1>1 DEF PacksInv, PackInv
<1>2. ASSUME NEW e \in Exports, Generate(e) \/ GenerateRefused(e) \/ WritePack(e) \/ CommitPack(e) \/ CommitPackTimeout(e)
      PROVE PacksInv'
  <2> SUFFICES ASSUME NEW x \in Exports PROVE PackInv(x)'
    BY DEF PacksInv
  <2>1. UNCHANGED <<removing, crashes>>
    BY <1>2 DEF Generate, GenerateRefused, WritePack, CommitPack, CommitPackTimeout
  <2>2. CASE x # e
    <3>1. exports'[x] = exports[x]
      BY <1>2, <2>2 DEF Generate, GenerateRefused, WritePack, CommitPack, CommitPackTimeout, Row, TypeOK
    <3> QED
      BY <2>1, <3>1 DEF PacksInv, PackInv
  <2>3. CASE x = e
    <3> USE DEF Row, Free, TypeOK, ExportStates, PacksInv, PackInv
    <3>1. CASE Generate(e)
      BY <2>1, <2>3, <3>1 DEF Generate
    <3>2. CASE GenerateRefused(e)
      BY <2>1, <2>3, <3>2 DEF GenerateRefused
    <3>3. CASE WritePack(e)
      BY <2>1, <2>3, <3>3 DEF WritePack
    <3>4. CASE CommitPack(e)
      BY <2>1, <2>3, <3>4 DEF CommitPack
    <3>5. CASE CommitPackTimeout(e)
      BY <2>1, <2>3, <3>5 DEF CommitPackTimeout
    <3> QED
      BY <1>2, <3>1, <3>2, <3>3, <3>4, <3>5
  <2> QED
    BY <2>2, <2>3
<1>3. ASSUME NEW E \in SUBSET Ready, NEW by \in {"delete", "cleanup"}, Unlink(E, by) PROVE PacksInv'
  <2> SUFFICES ASSUME NEW x \in Exports PROVE PackInv(x)'
    BY DEF PacksInv
  <2>1. removing' = E /\ UNCHANGED crashes /\ removing = {}
    BY <1>3 DEF Unlink, Free, TypeOK
  <2>2. CASE x \in E
    <3>1. exports[x].record = "ready"
      BY <2>2 DEF Ready
    <3> QED
      BY <1>3, <2>1, <2>2, <3>1 DEF Unlink, TypeOK, ExportStates, PacksInv, PackInv
  <2>3. CASE x \notin E
    BY <1>3, <2>1, <2>3 DEF Unlink, TypeOK, PacksInv, PackInv
  <2> QED
    BY <2>2, <2>3
<1>4. CASE CommitRemoval
  BY <1>4 DEF CommitRemoval, TypeOK, ExportStates, PacksInv, PackInv
<1>5. CASE Restart
  <2>1. crashes' # 0
    BY <1>5, ReviewAssumption DEF Restart, TypeOK
  <2> QED
    BY <1>5, <2>1 DEF Restart, TypeOK, ExportStates, PacksInv, PackInv
<1>6. ASSUME NEW e \in Exports, Delete(e) PROVE PacksInv'
  BY <1>6, <1>3 DEF Delete
<1>7. CASE Cleanup
  BY <1>7, <1>3 DEF Cleanup
<1> QED
  BY <1>1, <1>2, <1>4, <1>5, <1>6, <1>7
     DEF Next, vars, PipelineBegin, PipelineWithoutItems, ManualReviewAction, PipelineItem, ManualItem,
         SetReviewStatus

LEMMA PacksAlways == Spec => []PacksInv
  BY InitType, TypeStep, PacksInit, PacksStep, PTL DEF Spec

\* A pack reported deleted has left the disk, after any crash.
THEOREM DeletedPackIsGoneAlways == Spec => []DeletedPackIsGone
<1>1. PacksInv => DeletedPackIsGone
  BY DEF PacksInv, PackInv, DeletedPackIsGone
<1> QED
  BY <1>1, PacksAlways, PTL

\* Without a crash, a listed pack that nobody is removing has its file.
THEOREM ListedPackHasFileAlways == Spec => []ListedPackHasFile
<1>1. PacksInv => ListedPackHasFile
  BY DEF PacksInv, PackInv, ListedPackHasFile
<1> QED
  BY <1>1, PacksAlways, PTL

\* An export job reports success exactly when its pack is on record.
THEOREM SuccessHasPackAlways == Spec => []SuccessHasPack
<1>1. PacksInv => SuccessHasPack
  BY DEF PacksInv, PackInv, SuccessHasPack
<1> QED
  BY <1>1, PacksAlways, PTL

-----------------------------------------------------------------------------
(* The two verdicts *)

\* Whoever decides an item takes its flag off.
FlagsInv == \A i \in Items : items[i].status \in Decided => ~items[i].flag

LEMMA FlagsInit == Init => FlagsInv
  BY DEF Init, FlagsInv

LEMMA FlagsStep == TypeOK /\ FlagsInv /\ [Next]_vars => FlagsInv'
<1> SUFFICES ASSUME TypeOK, FlagsInv, [Next]_vars PROVE FlagsInv'
  OBVIOUS
<1> USE DEF FlagsInv, TypeOK
<1>1. CASE UNCHANGED items
  BY <1>1
<1>2. ASSUME NEW d \in Docs, NEW i \in Items, PipelineItem(d, i) PROVE FlagsInv'
  BY <1>2 DEF PipelineItem, Decided
<1>3. ASSUME NEW d \in Docs, NEW i \in Items, NEW s \in Statuses, ManualItem(d, i, s) PROVE FlagsInv'
  BY <1>3 DEF ManualItem, Flag, Decided, Undecided
<1>4. ASSUME NEW i \in Items, NEW s \in Statuses, SetReviewStatus(i, s) PROVE FlagsInv'
  BY <1>4 DEF SetReviewStatus, Flag, Decided, Undecided
<1> QED
  BY <1>1, <1>2, <1>3, <1>4
     DEF Next, vars, PipelineBegin, PipelineWithoutItems, ManualReviewAction, Generate, GenerateRefused, WritePack,
         CommitPack, CommitPackTimeout, Delete, Cleanup, Unlink, CommitRemoval, Restart

\* Whenever the summary lets an export go ahead, the compliance review has
\* nothing left to review.
THEOREM ReadyIsCompliantAlways == Spec => []ReadyIsCompliant
<1>1. FlagsInv => ReadyIsCompliant
  BY DEF FlagsInv, ReadyIsCompliant, ReadyForExport, AllDecided, ComplianceReady, Stored
<1> QED
  BY <1>1, InitType, TypeStep, FlagsInit, FlagsStep, PTL DEF Spec
=============================================================================
