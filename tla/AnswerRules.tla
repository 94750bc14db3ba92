------------------------------ MODULE AnswerRules ------------------------------
(***************************************************************************)
(* From the bytes of a file to items a user may rely on: what the pipeline *)
(* reads (module OcrText), what a provider answers (ai/providers), what    *)
(* the review rules make of it (services/classification), what the user    *)
(* decides (routers/workspaces.py) and what the issues page then reports   *)
(* (services/compliance_review).                                           *)
(*                                                                         *)
(* One document; the tasks, locks and timeouts around it are the subject   *)
(* of module Ingestion.  Confidences are in percent.                       *)
(***************************************************************************)
EXTENDS OcrText

CONSTANTS
    Files,         \* uploads: their declared type, content and pages
    MaxDecisions,  \* how often the user decides about items
    None, Unreadable   \* a field that is absent, or no number

CONFIDENCE_REVIEW_THRESHOLD == 70
Keywords == {"salary", "tools", "wfh", "bas", "donation", "union"}
Vocabulary == Keywords \union {"maybe", "other"}

\* A page has words and pixels; what is absent is no value of its field.
ASSUME FilesAssumption ==
    /\ \A f \in Files : f.pages \in Seq([words : SUBSET Vocabulary, grey : [Greys -> Nat], raises : BOOLEAN])
    /\ None \notin Files /\ None # "user"
    /\ \A words \in SUBSET Vocabulary : words # None
ASSUME DecisionsAssumption == MaxDecisions \in Nat

VARIABLES
    provider,   \* settings.ai_provider, and whether its credentials are good
    file,       \* the bytes the task holds, None before and after it
    text,       \* the stored text, None until it is read
    answers,    \* history: what the provider said, before the review rules
    status,     \* Document.status
    items,      \* the tax items of the document, in order of creation
    decisions   \* how many decisions the user has made

vars == <<provider, file, text, answers, status, items, decisions>>

Categories == {"salary_wages", "tools_equipment", "work_from_home", "out_of_scope", "donation",
               "union_fee", "foreign_income", "needs_review"}
\* The offline provider needs no credentials.
Providers ==
    [name : {"anthropic", "openai", "deepseek"}, credentials : BOOLEAN] \union {[name |-> "mock", credentials |-> TRUE]}
DocStatuses == {"uploaded", "text_extracted", "items_detected", "classified", "needs_review",
                "classification_failed", "reviewed"}
MANUAL_REVIEW_DOCUMENT_STATUSES == {"needs_review", "failed", "classification_failed", "extraction_failed"}

ReviewStatuses == {"needs_review", "confirmed", "excluded", "tax_agent_review"}

\* Mutation: what is handed to a tax agent counts as settled.
NeedsReviewHere(s) == s \in {"draft", "needs_review"}

NeedsReview(s) == s \in {"draft", "needs_review", "tax_agent_review"}

ItemRecords ==
    [category : Categories, confidence : Nat, amount : BOOLEAN, needs_review : BOOLEAN,
     review_status : ReviewStatuses, reviewed_by : {None, "user"}]

(***************************************************************************)
(* Providers                                                               *)
(***************************************************************************)
Result(category, confidence, flagged) ==
    [category |-> category, confidence |-> confidence, amount |-> FALSE, needs_review |-> flagged]

\* mock.py: one result per keyword; uncertain words flag what is not flagged.
MockResults ==
    [salary   |-> Result("salary_wages", 95, FALSE),
     tools    |-> Result("tools_equipment", 70, TRUE),
     wfh      |-> Result("work_from_home", 65, TRUE),
     bas      |-> Result("out_of_scope", 85, TRUE),
     donation |-> Result("donation", 80, FALSE),
     union    |-> Result("union_fee", 90, FALSE)]

apply_trigger(r, words) ==
    IF "maybe" \in words /\ r.confidence >= CONFIDENCE_REVIEW_THRESHOLD THEN [r EXCEPT !.needs_review = TRUE] ELSE r

MockResult(keyword, words) == IF keyword \in words THEN <<apply_trigger(MockResults[keyword], words)>> ELSE <<>>

mock_classify(words) ==
    LET found == MockResult("salary", words) \o MockResult("tools", words) \o MockResult("wfh", words)
                     \o MockResult("bas", words) \o MockResult("donation", words) \o MockResult("union", words)
    IN  IF found = <<>> THEN <<Result("needs_review", 50, TRUE)>> ELSE found

\* External: what a cloud service sends.  DeepSeek and OpenAI are asked for a
\* schema, Anthropic is not: a field may be absent or no number, and a confidence
\* in per cent where a share is asked for (95, kept as 9500) is clamped by nobody.
\* Of a category the rules tell apart only its absence and whether it is one for a
\* tax agent.
Replies == [category : {"work_from_home", "foreign_income", None}, amount : BOOLEAN,
            confidence : {None, Unreadable, 65, 70, 9500},
            review_status : {None, "auto_classified", "needs_user_review"}]

\* The object may stand alone, in a fence or in prose; there may be none.
Raws == [form : {"object", "fenced", "embedded", "prose"}, reply : Replies]
parse_json_response(raw) == IF raw.form = "prose" THEN None ELSE raw.reply

build_classification_result(reply) ==
    [category |-> IF reply.category = None THEN "needs_review" ELSE reply.category,
     confidence |-> IF reply.confidence = None THEN 50 ELSE reply.confidence,
     amount |-> reply.amount,
     needs_review |-> reply.review_status \notin {"auto_classified", "user_confirmed", "ready_for_export"}]

\* Without an object the answer is a result of its own.
Unparsed == Result("needs_review", 10, TRUE)

\* Mutation: only a flagged answer is looked at.
review_rules_of_flagged(r) == r

\* An item of low confidence is flagged whatever the provider says.
apply_review_rules(r) ==
    IF r.confidence < CONFIDENCE_REVIEW_THRESHOLD THEN [r EXCEPT !.needs_review = TRUE] ELSE r

\* review_status is left to the default of its column.
Stored(r) ==
    [category |-> r.category, confidence |-> r.confidence, amount |-> r.amount,
     needs_review |-> r.needs_review, review_status |-> "needs_review", reviewed_by |-> None]

\* One type invariant: the record has its shape, and nothing is stored about a
\* text that has not been read.
TypeOK ==
    /\ provider \in Providers
    /\ file = None \/ file \in Files
    /\ text = None \/ text \subseteq Vocabulary
    /\ status \in DocStatuses
    /\ \A i \in DOMAIN items : items[i] \in ItemRecords
    /\ decisions \in 0 .. MaxDecisions
    /\ text = None <=> status \in {"uploaded", "text_extracted"}
    /\ text = None => answers = <<>>

Init ==
    /\ provider \in Providers
    /\ file \in Files
    /\ text = None
    /\ answers = <<>>
    /\ status = "uploaded"
    /\ items = <<>>
    /\ decisions = 0

(***************************************************************************)
(* The pipeline                                                            *)
(***************************************************************************)

\* A blank text ends the task: somebody has to look at the document.  So does a
\* workspace locked meanwhile, and then nothing of the text is kept.
Extract ==
    /\ status = "uploaded" /\ file # None
    /\ \/ text' = extract_text(file) /\ text' # {} /\ status' = "items_detected" /\ file' = file
       \/ text' = extract_text(file) /\ text' = {} /\ status' = "needs_review" /\ file' = None
       \/ text' = None /\ status' = "text_extracted" /\ file' = None
    /\ UNCHANGED <<provider, answers, items, decisions>>

\* Every reply is one of: no provider to ask, a failed call, or results.
Unconfigured == provider.name # "mock" /\ ~provider.credentials
Answer(results) ==
    /\ answers' = results
    /\ items' = [i \in DOMAIN results |-> Stored(apply_review_rules(results[i]))]

StatusAfter(outcome) ==
    CASE outcome \in {"not_configured", "no_items"} -> "needs_review"
      [] outcome = "failed" -> "classification_failed"
      [] OTHER -> "classified"

\* The verdict follows the items in a transaction of its own, which may be refused
\* or cancelled (module Ingestion): then the document stays as it was.
Verdict(outcome) == status' \in {StatusAfter(outcome), status}

\* The workspace was locked after the text was read: the provider is not asked.
KeyMissing ==
    /\ Verdict("failed")
    /\ UNCHANGED <<answers, items>>

NotConfigured ==
    /\ Unconfigured
    /\ Verdict("not_configured")
    /\ UNCHANGED <<answers, items>>

\* A refused connection, or a field the result cannot be built from.
ProviderFails ==
    /\ provider.name # "mock" /\ provider.credentials
    /\ Verdict("failed")
    /\ UNCHANGED <<answers, items>>

ProviderAnswers ==
    /\ ~Unconfigured
    /\ \/ provider.name = "mock" /\ Answer(mock_classify(text))
       \/ /\ provider.name # "mock"
          /\ \E raw \in Raws :
                LET parsed == parse_json_response(raw)
                IN  IF parsed = None THEN Answer(<<Unparsed>>)
                    ELSE parsed.confidence # Unreadable /\ Answer(<<build_classification_result(parsed)>>)
    /\ Verdict(IF items' = <<>> THEN "no_items" ELSE "classified")

Classify ==
    /\ status = "items_detected" /\ file # None
    /\ KeyMissing \/ NotConfigured \/ ProviderFails \/ ProviderAnswers
    /\ file' = None
    /\ UNCHANGED <<provider, text, decisions>>

\* The call is cancelled in its first transaction, by wait_for or with the process:
\* what it wrote is committed, or rolled back when a statement was in flight.
Interrupted ==
    /\ file # None /\ file' = None
    /\ \/ UNCHANGED <<text, status>>
       \/ text' = None /\ status' = "uploaded"
    /\ UNCHANGED <<provider, answers, items, decisions>>

(***************************************************************************)
(* The user                                                                *)
(***************************************************************************)
Decide == file = None /\ decisions < MaxDecisions /\ decisions' = decisions + 1

set_workspace_item_review_status(i, s) ==
    /\ Decide
    /\ items' = [items EXCEPT ![i].review_status = s, ![i].needs_review = NeedsReview(s), ![i].reviewed_by = "user"]
    /\ UNCHANGED <<provider, file, text, answers, status>>

create_workspace_manual_item(category, amount, s) ==
    /\ Decide
    /\ items' = Append(items, [category |-> category, confidence |-> 0, amount |-> amount,
                               needs_review |-> NeedsReview(s), review_status |-> s, reviewed_by |-> "user"])
    /\ status' = IF status \in MANUAL_REVIEW_DOCUMENT_STATUSES THEN "reviewed" ELSE status
    /\ UNCHANGED <<provider, file, text, answers>>

Next ==
    \/ Extract
    \/ Classify
    \/ Interrupted
    \/ \E i \in DOMAIN items, s \in ReviewStatuses : set_workspace_item_review_status(i, s)
    \/ \E c \in {"donation", "foreign_income"}, a \in BOOLEAN, s \in ReviewStatuses : create_workspace_manual_item(c, a, s)

Spec == Init /\ [][Next]_vars

(***************************************************************************)
(* The issues page                                                         *)
(***************************************************************************)
TAX_AGENT_CATEGORIES == {"mixed_use", "capital_asset", "rental_property", "investment_loss", "foreign_income",
                         "crypto", "business_income", "other"}
requires_tax_agent(item) == item.category \in TAX_AGENT_CATEGORIES /\ item.needs_review

Flagged == {i \in DOMAIN items : items[i].needs_review}
review_status ==
    CASE Flagged = {} /\ ~\E i \in DOMAIN items : requires_tax_agent(items[i]) -> "completed"
      [] Flagged # {} -> "in_progress"
      [] OTHER -> "blocked"

(***************************************************************************)
(* Properties                                                              *)
(***************************************************************************)
Undecided(i) == items[i].reviewed_by = None

\* What the pipeline reads from a file is blank exactly when there is nothing to
\* read in it: the preprocessing of scans blanks no page that shows something,
\* and the dispatch sends every content its declared type allows to a reader.
ReadableIsRead == [][status = "uploaded" /\ text' # None => (text' # {} <=> Readable(file))]_vars

\* The threshold of a scanned page is Otsu's: no other level separates its
\* shades better, although the loop never sees the page, only running sums.
OtsuIsOptimal ==
    file # None /\ file.content = "image" =>
        \A p \in DOMAIN file.pages :
            LET h == Enhanced(file.pages[p].grey)
            IN  Shows(h) => IsOtsu(h, otsu_threshold(h))

\* An item nobody has looked at is approved only when the provider said so with
\* at least 70 per cent, and the offline provider saw no uncertain word.
NothingApprovedUnseen ==
    \A i \in DOMAIN items :
        Undecided(i) /\ ~items[i].needs_review =>
            /\ answers[i].confidence >= CONFIDENCE_REVIEW_THRESHOLD /\ ~answers[i].needs_review
            /\ provider.name = "mock" => "maybe" \notin text

\* The issues page calls the review completed only when every item was decided
\* by the user or approved as above, and none of the user's is parked for a
\* tax agent.
CompletedIsSupported ==
    review_status = "completed" => \A i \in DOMAIN items :
        \/ Undecided(i) /\ answers[i].confidence >= CONFIDENCE_REVIEW_THRESHOLD /\ ~answers[i].needs_review
        \/ items[i].reviewed_by = "user" /\ items[i].review_status \in {"confirmed", "excluded"}
=============================================================================
