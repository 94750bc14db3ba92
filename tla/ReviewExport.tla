----------------------------- MODULE ReviewExport -----------------------------
(***************************************************************************)
(* Review of items and documents, and the encrypted review packs           *)
(* (app/routers/workspaces.py, app/services/export) of one workspace.      *)
(*                                                                         *)
(* A review route runs under the database's writer lock from its first     *)
(* write (module UnlockSession), so it is one step.  Generating a pack is  *)
(* not: it commits its job, reads the items again outside of a             *)
(* transaction, writes the file and commits the record.  Deleting unlinks  *)
(* the file before it commits.                                             *)
(***************************************************************************)
EXTENDS Naturals

CONSTANTS
    Items,       \* tax items
    Docs,        \* documents
    Exports,     \* review packs
    MaxCrashes   \* bound: process restarts

ASSUME ReviewAssumption ==
    /\ MaxCrashes \in Nat
    /\ {"nobody", "delete", "cleanup"} \intersect Docs = {}

VARIABLES
    items,     \* committed tax_items: review_status, needs_review, document
    docs,      \* committed status of the documents
    exports,   \* pc of the generate request, its job, record, file and pack
    removing,  \* the packs whose files are unlinked by the open transaction
    writer,    \* who holds the writer lock: a pipeline, a delete, a cleanup
    crashes    \* restarts so far

vars == <<items, docs, exports, removing, writer, crashes>>

Undecided == {"draft", "needs_review", "tax_agent_review"}
Decided == {"confirmed", "excluded"}
Statuses == Undecided \union Decided
\* failed and extraction_failed are in the code's set; no code sets them.
MANUAL_REVIEW_DOCUMENT_STATUSES == {"needs_review", "classification_failed"}
DocStatuses == {"absent", "uploaded", "classified", "reviewed"} \union MANUAL_REVIEW_DOCUMENT_STATUSES
ExportStates ==
    [pc : {"new", "generating", "written", "ended"}, job : {"absent", "running", "succeeded", "failed"},
     record : {"absent", "ready", "deleted"}, file : BOOLEAN, pack : {"none", "reviewed", "unreviewed"}]

\* One type invariant: rows have their shape; files are only being removed
\* inside the transaction of a delete or a cleanup.
TypeOK ==
    /\ items \in [Items -> [status : {"absent"} \union Statuses, flag : BOOLEAN, doc : Docs]]
    /\ docs \in [Docs -> DocStatuses]
    /\ exports \in [Exports -> ExportStates]
    /\ removing \in SUBSET Exports /\ writer \in {"nobody", "delete", "cleanup"} \union Docs
    /\ removing # {} => writer \in {"delete", "cleanup"}
    /\ crashes \in 0..MaxCrashes

Init ==
    /\ \E d \in Docs : items = [i \in Items |-> [status |-> "absent", flag |-> FALSE, doc |-> d]]
    /\ docs = [d \in Docs |-> "absent"]
    /\ exports = [e \in Exports |-> [pc |-> "new", job |-> "absent", record |-> "absent",
                                     file |-> FALSE, pack |-> "none"]]
    /\ removing = {} /\ writer = "nobody"
    /\ crashes = 0

Stored == {i \in Items : items[i].status # "absent"}
ItemsOf(d) == {i \in Stored : items[i].doc = d}
Free == writer = "nobody"
Flag(s) == s \in Undecided

(***************************************************************************)
(* Ingestion, as the review sees it (module Ingestion)                     *)
(***************************************************************************)
PipelineBegin(d) ==
    /\ Free /\ docs[d] = "absent"
    /\ writer' = d
    /\ docs' = [docs EXCEPT ![d] = "uploaded"]
    /\ UNCHANGED <<items, exports, removing, crashes>>

\* classify_document sets needs_review from the answer and leaves review_status
\* to the column's default.  Its audit event is about the call, with the ids of
\* its items joined, and reports no status.
PipelineItem(d, i) ==
    /\ writer = d /\ i \notin Stored
    /\ \E flag \in BOOLEAN : items' = [items EXCEPT ![i] = [status |-> "needs_review", flag |-> flag, doc |-> d]]
    /\ docs' = [docs EXCEPT ![d] = "classified"]
    /\ writer' = "nobody"
    /\ UNCHANGED <<exports, removing, crashes>>

\* No items: the document needs a manual review, or stays what it was.
PipelineWithoutItems(d) ==
    /\ writer = d
    /\ \E s \in {"uploaded"} \union MANUAL_REVIEW_DOCUMENT_STATUSES : docs' = [docs EXCEPT ![d] = s]
    /\ writer' = "nobody"
    /\ UNCHANGED <<items, exports, removing, crashes>>

(***************************************************************************)
(* Review                                                                  *)
(***************************************************************************)
\* A request whose key expired since it was let in answers 423 and yet commits
\* the same change: _require_field_key_for_write commits events of its own.
SetReviewStatus(i, s) ==
    /\ Free /\ i \in Stored
    /\ items' = [items EXCEPT ![i].status = s, ![i].flag = Flag(s)]
    /\ UNCHANGED <<docs, exports, removing, writer, crashes>>

\* Mutation: the flag is left to the column's default.
ManualItemFlagged(d, i, s) ==
    /\ Free /\ docs[d] # "absent" /\ i \notin Stored
    /\ items' = [items EXCEPT ![i] = [status |-> s, flag |-> TRUE, doc |-> d]]
    /\ docs' = IF docs[d] \in MANUAL_REVIEW_DOCUMENT_STATUSES THEN [docs EXCEPT ![d] = "reviewed"] ELSE docs
    /\ UNCHANGED <<exports, removing, writer, crashes>>

ManualItem(d, i, s) ==
    /\ Free /\ docs[d] # "absent" /\ i \notin Stored
    /\ items' = [items EXCEPT ![i] = [status |-> s, flag |-> Flag(s), doc |-> d]]
    /\ docs' = IF docs[d] \in MANUAL_REVIEW_DOCUMENT_STATUSES THEN [docs EXCEPT ![d] = "reviewed"] ELSE docs
    /\ UNCHANGED <<exports, removing, writer, crashes>>

\* exclude_document, or tax_agent_review.
ManualReviewAction(d) ==
    /\ Free /\ docs[d] # "absent"
    /\ \E s \in {"reviewed", "needs_review"} : docs' = [docs EXCEPT ![d] = s]
    /\ UNCHANGED <<items, exports, removing, writer, crashes>>

(***************************************************************************)
(* Generating a review pack                                                *)
(***************************************************************************)
AllDecided == Stored # {} /\ \A i \in Stored : items[i].status \in Decided
ReadyForExport ==
    /\ AllDecided
    /\ \A d \in Docs : docs[d] \in MANUAL_REVIEW_DOCUMENT_STATUSES => ItemsOf(d) # {}

\* run_compliance_review has a verdict of its own, shown on the issues page: it
\* counts the needs_review flags (a tax-agent trigger needs the flag too) and
\* has no look at review_status or at documents.
ComplianceReady == \A i \in Stored : ~items[i].flag

Row(e, row) == exports' = [exports EXCEPT ![e] = row]

\* Mutation: the job is reported done when it is created.
GenerateDoneEarly(e) ==
    /\ Free /\ exports[e].pc = "new" /\ ReadyForExport
    /\ Row(e, [exports[e] EXCEPT !.pc = "generating", !.job = "succeeded"])
    /\ UNCHANGED <<items, docs, removing, writer, crashes>>

\* The summary is computed and the job committed, all under the writer lock.
Generate(e) ==
    /\ Free /\ exports[e].pc = "new" /\ ReadyForExport
    /\ Row(e, [exports[e] EXCEPT !.pc = "generating", !.job = "running"])
    /\ UNCHANGED <<items, docs, removing, writer, crashes>>

\* include_source_documents: ValueError, the job fails.
GenerateRefused(e) ==
    /\ Free /\ exports[e].pc = "generating"
    /\ Row(e, [exports[e] EXCEPT !.pc = "ended", !.job = "failed"])
    /\ UNCHANGED <<items, docs, removing, writer, crashes>>

\* The items are read again; no await follows until the file is written.
WritePack(e) ==
    /\ exports[e].pc = "generating"
    /\ Row(e, [exports[e] EXCEPT !.pc = "written", !.file = TRUE,
                                 !.pack = IF AllDecided THEN "reviewed" ELSE "unreviewed"])
    /\ UNCHANGED <<items, docs, removing, writer, crashes>>

\* Mutation: the record is committed before the file is written.
CommitPackFirst(e) ==
    /\ Free /\ exports[e].pc \in {"generating", "written"}
    /\ Row(e, [exports[e] EXCEPT !.job = "succeeded", !.record = "ready"])
    /\ UNCHANGED <<items, docs, removing, writer, crashes>>

\* Record, audit event and the job's success are one transaction.
CommitPack(e) ==
    /\ Free /\ exports[e].pc = "written"
    /\ Row(e, [exports[e] EXCEPT !.pc = "ended", !.job = "succeeded", !.record = "ready"])
    /\ UNCHANGED <<items, docs, removing, writer, crashes>>

\* "database is locked" in the flush of the record: the handler's own update
\* is refused by the session, so the job is not marked either.
CommitPackTimeout(e) ==
    /\ ~Free /\ exports[e].pc = "written"
    /\ Row(e, [exports[e] EXCEPT !.pc = "ended"])
    /\ UNCHANGED <<items, docs, removing, writer, crashes>>

(***************************************************************************)
(* Removing packs                                                          *)
(***************************************************************************)
Ready == {e \in Exports : exports[e].record = "ready"}

\* Mutation: the file goes only after the commit.
UnlinkLater(E, by) ==
    /\ Free /\ writer' = by /\ removing' = E
    /\ UNCHANGED <<items, docs, exports, crashes>>

\* The files are unlinked in the transaction, before it commits.
Unlink(E, by) ==
    /\ Free /\ writer' = by /\ removing' = E
    /\ exports' = [e \in Exports |-> IF e \in E THEN [exports[e] EXCEPT !.file = FALSE] ELSE exports[e]]
    /\ UNCHANGED <<items, docs, crashes>>

Delete(e) == e \in Ready /\ Unlink({e}, "delete")

\* Mutation: a cleanup forgets which records are active.
CleanupAll == \E E \in SUBSET Exports : Unlink(E, "cleanup")

\* older_than_days picks the old ones, and include_ready_exports them all; a
\* record marked deleted has no path any more, so its turn changes nothing.
Cleanup == \E E \in SUBSET Ready : Unlink(E, "cleanup")

CommitRemoval ==
    /\ writer \in {"delete", "cleanup"}
    /\ exports' = [e \in Exports |-> IF e \in removing THEN [exports[e] EXCEPT !.record = "deleted"] ELSE exports[e]]
    /\ removing' = {} /\ writer' = "nobody"
    /\ UNCHANGED <<items, docs, crashes>>

\* Open transactions are rolled back; requests end; the files stay as they are.
Restart ==
    /\ crashes < MaxCrashes
    /\ crashes' = crashes + 1
    /\ exports' = [e \in Exports |-> IF exports[e].pc \in {"generating", "written"}
                                     THEN [exports[e] EXCEPT !.pc = "ended"] ELSE exports[e]]
    /\ removing' = {} /\ writer' = "nobody"
    /\ UNCHANGED <<items, docs>>

Next ==
    \/ \E d \in Docs : PipelineBegin(d) \/ PipelineWithoutItems(d) \/ ManualReviewAction(d)
    \/ \E d \in Docs, i \in Items : PipelineItem(d, i) \/ \E s \in Statuses : ManualItem(d, i, s)
    \/ \E i \in Items, s \in Statuses \ {"draft"} : SetReviewStatus(i, s)
    \/ \E e \in Exports :
          \/ Generate(e) \/ GenerateRefused(e) \/ WritePack(e)
          \/ CommitPack(e) \/ CommitPackTimeout(e) \/ Delete(e)
    \/ Cleanup \/ CommitRemoval \/ Restart

Spec == Init /\ [][Next]_vars

(***************************************************************************)
(* Properties                                                              *)
(***************************************************************************)
\* A pack that is reported deleted has left the disk, also after a crash in
\* the middle of a delete or a cleanup.
DeletedPackIsGone == \A e \in Exports : exports[e].record = "deleted" => ~exports[e].file

\* A pack in the history can be downloaded, unless its removal was cut short:
\* no crash, timeout or overlapping cleanup takes the file of a listed pack.
ListedPackHasFile ==
    \A e \in Exports : exports[e].record = "ready" /\ e \notin removing /\ crashes = 0 => exports[e].file

\* An export job reports success exactly when its pack is on record, whatever
\* was refused, locked out, cleaned up or crashed between its commits.
SuccessHasPack == \A e \in Exports : exports[e].job = "succeeded" <=> exports[e].record # "absent"

\* docs/PHASE_6: "generation blocked if review-summary.ready_for_export=false", so
\* a pack has decided items only.  It fails: the items are read again after the
\* job was committed, which ended the transaction of the check.
PacksAreReviewed == \A e \in Exports : exports[e].pack # "unreviewed"

\* The two verdicts never contradict each other the harmful way: whenever the
\* summary lets an export go ahead the compliance review has no item left to
\* review.  (The converse fails: a confident answer is stored with the flag
\* off and the status needs_review.)
ReadyIsCompliant == ReadyForExport => ComplianceReady
=============================================================================
