-------------------------- MODULE DocumentLifecycle --------------------------
(***************************************************************************)
(* What can be seen of a document by whoever polls it or reviews it        *)
(* (app/routers/documents.py, app/routers/workspaces.py): its status, its  *)
(* job and its items.  A job leaves the queue once and ends once; items    *)
(* appear with the classification and never again; the verdict on document *)
(* and job comes in one step and fits the items.  A job may stay where it  *)
(* is for ever, and the user may overrule a document's status at any time. *)
(***************************************************************************)
EXTENDS Naturals

CONSTANT Docs

VARIABLES status, job, items

vars == <<status, job, items>>

Init ==
    /\ status = [d \in Docs |-> "absent"]
    /\ job = [d \in Docs |-> "absent"]
    /\ items = [d \in Docs |-> 0]

Become(d, s, j) ==
    /\ status' = [status EXCEPT ![d] = s]
    /\ job' = [job EXCEPT ![d] = j]

Arrive(d) ==
    /\ status[d] = "absent"
    /\ Become(d, "uploaded", "queued")
    /\ UNCHANGED items

Overrule(d) ==
    /\ status[d] # "absent"
    /\ status' = [status EXCEPT ![d] = "reviewed"]
    /\ UNCHANGED <<job, items>>

\* Without a classification: a copy, no text, no key, or no answer in time.
Conclude(d) ==
    /\ job[d] = "queued"
    /\ \/ Become(d, "duplicate_detected", "succeeded")
       \/ Become(d, "needs_review", "succeeded")
       \/ Become(d, "text_extracted", "failed")
       \/ Become(d, "items_detected", "failed")
    /\ UNCHANGED items

Classify(d, n) ==
    /\ job[d] = "queued" /\ items[d] = 0
    /\ Become(d, "items_detected", "running")
    /\ items' = [items EXCEPT ![d] = n]

Judge(d) ==
    /\ job[d] = "running"
    /\ \/ items[d] > 0 /\ Become(d, "classified", "succeeded")
       \/ items[d] = 0 /\ Become(d, "needs_review", "succeeded")
       \/ items[d] = 0 /\ Become(d, "classification_failed", "failed")
    /\ UNCHANGED items

Next == \E d \in Docs :
    \/ Arrive(d) \/ Overrule(d) \/ Conclude(d) \/ Judge(d)
    \/ \E n \in 0..1 : Classify(d, n)

Spec == Init /\ [][Next]_vars
=============================================================================
