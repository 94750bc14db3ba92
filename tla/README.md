# Verification of tax-return-ai

tax-return-ai is a local-first web application. A user unlocks it with a master password,
uploads tax documents, has them read (OCR) and classified by an AI provider in the background,
reviews the resulting tax items and exports an encrypted review pack. The backend is FastAPI
with SQLAlchemy's asyncio sessions on SQLite, in one process: requests and background tasks
interleave at every `await`, the database commits in small transactions, and the field key
lives in a process-wide cache that no transaction covers.

This directory holds TLA+ models of the parts where that matters, TLC configurations that
check them on small instances, and TLAPS proofs for all instances. Paths below are relative
to `src/`.

## How the program runs, and what all models share

- **One event loop.** Between two `await`s nothing else runs. An action of a model is the code
  between two points where another request or task can see or change shared state.
- **One writer lock.** SQLite has one writer at a time. A session takes the lock at its first
  flushed write and holds it to its commit or rollback; reads take nothing. A writer that waits
  longer than the busy timeout gets "database is locked".
- **Sensitive routes are serialised by that lock.** `get_current_unlocked_user` touches the
  session row before the handler runs, so a handler that commits does everything under the
  lock: it is one step in `Ingestion` and `ReviewExport`. `UnlockSession` models the guard in
  detail. On PostgreSQL this order does not exist; the models are of the default SQLite.
- **A failed flush poisons the session.** SQLAlchemy refuses every later statement until a
  rollback, so the error handlers that try to record a failure after a refused flush
  (pipeline.py:371, workspaces.py:785) record nothing. This is why `FinishTimeout` and
  `CommitPackTimeout` leave the rows as they are.
- **`get_db` (app/db/deps.py) rolls back** what a handler has not committed.

## Inventory

| Component | State | Operations | What is hard | Correct when |
| --- | --- | --- | --- | --- |
| Auth and unlock (`services/auth`, `services/security`, `db/auth_deps.py`, `routers/auth.py`) | `users.unlock_epoch` and password; `auth_sessions`; `unlock_capabilities`; `_SESSION_KEYS` | setup, unlock, recover-reset, session, lock, logout, the guard | three copies of "unlocked", changed at different times; rollback undoes rows but not the cache; two timeouts | nobody with a replaced password or closed session is let in; keys of revoked capabilities are gone; every request ends |
| Job queue (`repositories/job_repo.py`, `services/job`) | `jobs` rows with status, lease, attempts, capability | create, claim, heartbeat, execute, update, retry | read-then-write claims, late heartbeats, locks between two reads, dead workers | no job is lost, one put back is claimed again, an encrypted job runs only while unlocked; at most one worker per job, which is not ensured |
| Ingestion (`routers/documents.py`, `services/ingestion`, `services/classification`) | `documents`, `jobs`, `tax_items`, background tasks, the writer lock | upload, the pipeline's stages, manual exclusion | items and verdict committed apart, timeouts, provider silence, restarts, duplicate copies | one copy of a file counts, verdicts match items, every task ends |
| Review and packs (`routers/workspaces.py`, `services/export`) | `tax_items.review_status` and `needs_review`, `export_packages`, files on disk | review, manual item, manual action, generate, delete, cleanup, download | readiness checked in one transaction and used in another; file system changed inside transactions | packs hold decided items only; job, record and file agree; every decision is audited |
| Compliance review (`services/compliance_review`) | none (derived) | issues page | a second readiness verdict over another field | the two verdicts do not contradict each other |
| Workspace bridge (`db/workspace_scope.py`, setup) | `users`, `tax_workspaces`, `tax_sessions` | setup, list (seeds), create, get-or-create, adopt | check-then-insert without a unique constraint | one bridge session per workspace, one workspace per year, one user |
| Browser tabs (`frontend/.../WorkspaceApp.tsx`) | the screen of each tab, `taxai_auth_event` in localStorage, the cookie | first check, poll, storage events, forms, lock buttons, reload | late answers, events overtaken by calls, lost calls, a tab that is told nothing | no tab opens on a failed attempt; expiry and lock reach every tab |
| Sensitive texts (`services/security/field_encryption.py`, key handling of `services/auth`, item and page routes, two scripts) | a plain and an encrypted column per text; the data key, wrapped by password and recovery key | ingest, list, review, manual entry, pack, backfill, cleanup, bootstrap, reset, lock | two columns written and read by different code at different times; reads that write | everything opens after any history of keys; nothing replaced is shown or packed |
| OCR and answers (`ocr`, `ai/providers`, `_apply_review_rules`) | none of their own: stored text, items, document status | extract, classify, review, manual entry | content that does not fit its type, thresholds from running sums, absent fields, four providers | what can be read is read; nothing is approved unseen |
| Rate limiter (`middleware/rate_limit.py`) | timestamps per pattern and client | one per request | window boundary, first match, rounding, cleaning only on request | never more than the limit in a window; who keeps asking is served |
| Audit trail, storage, other middleware, legacy routers, scripts | see `PROJECT.json` | | reads, file input and output, or unmounted code | |

Interactions: the guard stands before every workspace route; an upload creates a job row and a
background task; the task takes the user's key from the cache through `get_user_active_key`;
OCR and provider give it text and answers, and classification writes the items the review works on,
their texts sealed with that key; the exports read what the review and the
pipeline have committed; an export also creates a job row, bound to the capability of its
request. The tabs of a browser share one cookie and tell each other about it through localStorage.
`PROJECT.json` lists all components and, under `hazards`, every place where this can
go wrong with the property that watches it.

## Modules

### UnlockSession, with MCUnlockSession and UnlockSessionProofs

`sess` and `cap` are the committed rows by token, `keyExp` the key cache, `user` the epoch and
the password generation, `req` the requests in flight, `writer` the lock. A request goes from
`idle` over `read` (it has its rows, which the identity map will not refresh) and `written` (it
holds the lock and has changed the cache) back to `idle`. `StartX` reads, `WriteX` is the first
flush with the cache changes that follow it before the commit, `CommitX` the commit; `Abort`
is a failed commit, `LockTimeout` the busy timeout. A route that commits in the middle, as generating
a pack does (workspaces.py:770), goes on without the lock as a `tail`, which takes it again
(`ResumeAccess`) and does not ask the guard a second time. The fields `pw` remember which password was
verified; they are history only.

| Run | Question | Bounds |
| --- | --- | --- |
| `unlock_credentials` | Can a reset, lock, logout or expiry between two steps of a request let a replaced password in, revive a row or bring a key back? | 3 tokens, 2 requests of which one may reset, 2 passwords, clock to 2: setup's session, an unlock and a reset overlap in every order |
| `unlock_lifetime` | Does the sliding idle timeout stretch a session past its absolute timeout? Is every request answered? | 2 tokens, 2 requests, clock to 3: one slide, then the absolute timeout between check and grant |

Fairness: weak fairness of `Progress(r)` (the event loop runs the requests it has; SQLite's
busy timeout or a commit ends every wait) and of `Tick`. No arrival is fair.

Proved for any tokens, requests and timeouts: `TypeOK`; and, when recovery resets do not overlap
(`OneResetter`), `GrantSound`, `RevokedKeyGone`, `RevocationIsFinal` and `GrantWithinLifetime`. The
safety properties are not inductive: a request carries an epoch it read earlier, and a key is
removed before the revocation is committed. `IInv` says what ties them together: both rows of a
token appear together and carry the epoch of the verified password (`RowsMatch`, `EpochsMatch`); the
lock has one holder and tokens in flight are not shared (`RequestsMatch`); a live capability of a
request in the guard belongs to the current epoch (`GuardFresh`); whoever will commit a revocation
has already cleared the key (`KeysCleared`). `GrantWithinLifetime` also needs `KeysWithinLifetime`:
no cached key outlives the absolute timeout of its session, also while the key is cached and the
session's row is not yet committed.

What was learnt beyond the runs:
- docs/PHASE_15:16 says capabilities are "refreshed on valid sensitive access". The review summary,
  issues, pack history, security status and audit routes answer without a commit
  (`FinishUncommitted`), which rolls the slide back: the property "when the route answers, the
  stored expiry is the slid one" fails with one token and one request.
- With two overlapping resets (a double click) the second stores its password under the epoch of
  the first, because service.py:313 increments a value read before the lock, against
  docs/PHASE_15:34 "On recovery reset, `users.unlock_epoch` increments": "every password has an epoch
  of its own" fails with two requests that may both reset. With a third request even `GrantSound`
  fails, for a session opened between the two. Hence `OneResetter`: the runs and the proofs cover one
  reset at a time, which the code does not ensure.
- docs/PHASE_13 says the cached key is removed on expiry. An idle session that is not presented
  again keeps its key until the absolute timeout, and `get_user_active_key` hands it out.
- After a restart `/auth/session` answers UNLOCKED while sensitive routes answer 423.
- A wrong password's `unlock_failed` event is always rolled back with the 401.

### JobQueue, with MCJobQueue and JobQueueProofs

Every primitive reads a row in one action and writes it by id in the next, as SQLAlchemy does; a write
that meets a held lock is one of the bounded `failures`, like a worker, a lock or a process that dies.
A job of a workspace route carries the capability and the session's expiry of its request
(`Create`); one of `POST /api/jobs` needs no key (`CreatePlain`). The capability row and the key
cache change under the workers through `Touch` (a request prolongs the capability), `Unlock`,
`LockWrite` (key gone) and `LockCommit` (row revoked). The worker loop itself is not part of the
repository; its order is that of tests/test_worker_job_flow.py.

| Run | Question | Bounds |
| --- | --- | --- |
| `job_key_gate` | Can a worker go ahead with an encrypted job of a locked workspace, is a job ever left running without a worker, is a job that was put back claimed again? | 1 job, 2 workers, 2 capabilities, 1 failure, clock to 3 with leases and capabilities of 1 and sessions of 2: all of them expire and are renewed late |

Fairness: the worker loops and the clock run; nobody has to create, lock or crash. Leases are
only renewed while they can still expire within the clock's bound.

Proved: `TypeOK`; `CheckedWhileUnlocked`, from `KeysAreLive` (a cached key belongs to a live
capability nobody is locking, because the lock drops the key before it commits);
`RunningJobHasWorker`, inductive with the type invariant: the last worker to leave a job always
writes another status. After a failure it does not hold, and since `claim_next` never looks at
the lease of a running job, such a job stays running.

What was learnt beyond the runs: worker.py:5 says that the lease model "enables future multi-worker
deployment". It would need more: "at most one worker works on a job" fails with one job and two
workers, which both read the oldest job before either updates it (job_repo.py:104); both claims
succeed, and either may finish or put back the job of the other (job_repo.py:66). Nothing in the
repository runs two workers yet. `job_key_gate` has two, so what it checks holds in spite of that.
Further, docs/PHASE_12:42 says that jobs with `encryption_key_missing`
"should be retried after user unlock". They are, for ever: the job carries the token hash of the
session that created it, an unlock makes another session and capability, and nothing rebinds the
job (worker.py:79). The property "if the workspace stays unlocked, a blocked job finishes" fails
with one job, one worker and two capabilities.

### DocumentLifecycle, Ingestion, with MCIngestion and IngestionProofs

`docs`, `jobs` and `items` are committed rows, `tasks` the background tasks. The first UPDATE of
a task takes the writer lock, and nothing is committed before `classify_document` commits after
the provider's answer: `Start`, `Ocr`, `Extract`, `Classify`, `ProviderAnswer` are parts of one
transaction that only its own task sees. `Finish` is the second one. OCR is a synchronous call: while
one runs (`Blocked`), nothing else does, and no timeout reaches it. It has no error path, because
both providers turn every exception into blank pages (pdfplumber.py:60, tesseract.py:264).
`wait_for` cancels whatever the pipeline awaits: the provider (`ProviderTimeout`, after which the
session still works and commits what was written) or a statement in flight (`Cancelled`, which rolls
the transaction back), also the wait for the lock of the second transaction. `Exclude` is the review
route that changes a document under the pipeline. `DocumentLifecycle` is what whoever polls or
reviews a document can see of that: its status, its job and its items, without tasks, lock, key and
process. A job leaves the queue once and ends once, items come with the classification, the verdict
on document and job comes in one step and fits the items.

| Run | Question | Bounds |
| --- | --- | --- |
| `ingest_items` | Do two copies of a file ever both count; do job and document verdicts match the items, although they are committed apart; does the pipeline implement `DocumentLifecycle`; does every task end? | 2 files, 4 documents, 1 key loss, 1 restart: duplicates, a recovery upload and another file run side by side |

Fairness: weak fairness of `TaskStep(d)` (the loop runs started tasks unless OCR blocks it;
`wait_for` cancels after 300 s and SQLite times out). `Ocr`, `ProviderAnswer` and `ProviderRetry` are
not fair: OCR and provider may never answer. `EveryTaskEnds` assumes in its statement that OCR returns
and nothing about the provider. `StartTimeout` and `FinishTimeout` are possible whenever somebody else holds the
lock; the model has no clock and does not claim how often they happen.

Proved for any files and documents: `TypeOK`, `NoDoubleCounting`, `SuccessIsAccountedFor`,
`FailureLeavesNoItems`. The invariant adds that documents are stored in order (`Prefix`), that
only the oldest copy of a file is ever worked on (`Oldest`), and what each stage of a task says
about its rows (`Fits`). With that and `StageInv` (the job of a task that has committed nothing is
queued, and between its two commits it is running) every commit is a step of `DocumentLifecycle` and
everything else a stutter, so the pipeline implements it (`ImplementsDocumentLifecycle`). A restart
that took unfinished jobs up again, the mutation of that property, would not. The check for copies
is also why the recovery upload cannot be processed: the one in the pipeline (pipeline.py:142) is
stricter than the one in the route (documents.py:144).

What was learnt beyond the runs: documents.py:144 says "Allow recovery upload when the existing copy
failed to process", but the recovery upload ends as a duplicate: "a document is only a duplicate of
one that did not fail" fails with one file and two documents. A lost key or a cancelled provider
call fails the job but leaves the document at `text_extracted` or `items_detected`, which is neither
recoverable nor listed for manual review: pipeline.py:6 says "failed (if any step errors)", and "the
document of a failed job is recoverable" fails with one file, two documents and one key loss. What
is said of the timeout contradicts itself: config.py:44 calls it the "max pipeline run time",
documents.py:349 says "There is no asyncio timeout wrapping this function. Long-running pipelines
(e.g. large PDF OCR) could theoretically run indefinitely", and twenty lines further down
(documents.py:369) `wait_for` wraps it. The docstring is wrong about the provider, whose call is cut
off, and right about OCR, which also keeps every request waiting: without its condition on OCR
`EveryTaskEnds` fails. A task that cannot get the lock for its very first update dies and its job
stays queued (services/job/__init__.py:160 is outside the `try`); until the provider has answered a
poll sees a queued job, although documents.py:98 offers polling for progress; a restart forgets all
tasks.

### ReviewExport, with MCReviewExport and ReviewExportProofs

`items` holds status, flag and document of a tax item, `exports` the request, job, record and file
of each pack, `removing` the files the open transaction has unlinked. Review routes are single
steps. Generating is not: `Generate` commits the job (readiness was true), `WritePack` reads the
items again and writes the file, `CommitPack` commits record and success. `Unlink` happens before
`CommitRemoval`. The loop of the cleanup over records already marked deleted changes nothing,
because deleting also clears their path. The audit trail is not part of the state. The cleanup is
that of the route; scripts/cleanup_exports.py is not modelled, because it imports a `SessionLocal`
that does not exist.

| Run | Question | Bounds |
| --- | --- | --- |
| `review_packs` | Do job, record and file of a pack agree through deletes, cleanups, lock timeouts and a restart, and do the two readiness verdicts agree? | 1 item, 2 documents, 2 packs, 1 restart, symmetric |
| `overtaken_pack` (violation) | Does a pack hold decided items only? | 1 item, 1 pack |

Proved for any items, documents and packs: `TypeOK`, `DeletedPackIsGone`, `ListedPackHasFile`,
`SuccessHasPack` (from `PacksInv`: an open request has no record, a written one has its file, and
files leave the disk only for listed packs in an open transaction) and `ReadyIsCompliant` (from
`FlagsInv`: whoever decides an item takes its flag off).

What was learnt beyond the runs: docs/PHASE_6:59 says "generation blocked if
review-summary.ready_for_export=false". It is, but the answer is old when it is used: a review that
is committed between `Generate` and `WritePack` (workspaces.py:770, encrypted_pack.py:133) gives a
pack with an undecided item (`overtaken_pack`). docs/PHASE_5:52 says that "each status transition
writes `review_status_updated`". One does not: when the key of a review request expires after the
guard let it in, the handler assigns the status (workspaces.py:431) before it asks for the key, and
the 423 path commits its own audit events and the status with them. Further: a confident answer is
stored with `needs_review = false` and `review_status = needs_review`, so the issues page can say
ready while the summary blocks (the harmful direction is excluded by `ReadyIsCompliant`); a pack
file whose record was refused, or whose request died, has no record and no cleanup finds it
(cleanup.py:29 says it would); a crash between unlink and commit leaves a listed pack without a
file, which is why `ListedPackHasFile` is stated without crashes; documents stuck in
`text_extracted` or `items_detected` do not block an export.

### WorkspaceRegistry, WorkspaceBridge, with MCWorkspaceBridge and RequestProofs

`users`, `workspaces` and `bridges` are committed rows, `req` the requests, `writer` the lock. Each
request looks (`SetupLook`, `ListLook`, `CreateLook`, `OpenLook`), inserts (`Insert`, a flush) and
commits (`Commit`), or ends without (`Rollback`: a conflict, an error, a refused lock, a route that
only reads). `OpenLook` stands for every workspace route. Rows carry the request that inserted
them, so that two equal rows stay two. No unique constraint stands behind any check; what orders
them is `Touch`, the flush of `last_seen_at` in the guard. `WorkspaceRegistry` is what the routes
promise without requests and lock: whoever finds a row missing makes it, as if looking and making
were one step, and only for a user and a workspace that exist. That setup succeeds only once is not
part of the promise (see below).

| Run | Question | Bounds |
| --- | --- | --- |
| `workspace_rows` | Can requests that overlap give a workspace two bridge sessions, or a user two workspaces of a year; are the rows they leave those of requests that look and insert at once (`ChecksAreAtomic`)? | 5 requests: two setups that overlap and three more, 2 years of which one is seeded, symmetric |

Proved for any requests and years: `TypeOK`, `OneBridge`, `OneWorkspacePerYear`. Neither is
inductive: `RowsInv` adds that whoever has looked behind the guard holds the lock (`Holders`), whose
rows are whose (`Owners`), and that an empty answer of a check still holds when its request inserts
(`Checked`). With `Origins` (rows were made by requests that have ended, whoever opens a workspace
opens one that exists, and a setup or create that found a row writes nothing) every commit is a step of
`WorkspaceRegistry`, and so the bridge implements it. This is an argument about SQLite: with
`TouchWithoutLock`, the mutation whose guard only reads, `OneBridge` and the refinement fail, and
that is what a database without a single writer would do.

What was learnt beyond the runs: setup has no session to touch, so it looks before it has the lock.
Two setups that both look before either commits both succeed (TLC finds it with two requests,
although service.py:177 says "Local user is already configured"). `get_active_user` then takes
whichever row comes first: the other one's password and recovery key open nothing.

### WorkspaceTabs, with MCWorkspaceTabs and WorkspaceTabsProofs

`view` is the `authState` of each tab, `key` the localStorage entry, `events` the storage events on
their way, `cookie` the session the browser presents, `sessions` what `/api/auth/session` would
answer for each, `calls` the calls under way. A call is sent, answered (`Serve`, or `Lose`: a
network failure or a 500) and handled (`Handle`) in three steps, and its handler runs whatever the
tab shows by then. `Locks`, `Expires`, `Enters` and `LosesList` say what the handlers make of an
answer, `Written` what they tell the other tabs. `Age` is time: a session expires, or its
capability lapses. The setup form is left out; so is the development button that simulates an
expiry. An answer no handler reacts to is dropped at once.

| Run | Question | Bounds |
| --- | --- | --- |
| `tabs_expiry` | Can a tab open on a failed attempt; does an expired session empty every tab; does a tab that comes to the shell of a locked session leave it? | 2 tabs of which the user works in one (the other polls and listens), sessions and reloads together 2, 2 calls at a time, 1 event per tab |

Fairness: every tab handles its events and its timer fires (strongly fair, because the bound on
calls, and not the browser, holds a poll back), and every call is answered or given up. No click
is fair, and neither is `Lose` of a call that has been answered.

Proved for any tabs, calls, events and sessions: `TypeOK` and `ShellHasSession`. A tab comes to the
shell by an event or by an answer, so the invariant (`UnderWayHasSession`) says of both, while they
are under way, that a session stands behind them. `ExpiryReachesTabs` and `RefusedLoadLocks` are
checked only.

What was learnt beyond the runs: the lock that a closing page sends is not behind
`NEXT_PUBLIC_LOCK_ON_BROWSER_CLOSE`, as docs/PHASE_13:54 says, so reloading one open tab locks the
session of all tabs. The others do not notice: docs/PHASE_13:49 promises "periodic session
validation" "to detect expiry/lock", but the poll asks only whether the session is authenticated
(WorkspaceApp.tsx:257, auth.py:203), and "after a lock every tab leaves the shell" fails with two
tabs and one session. Every poll slides `last_seen_at`
(auth.py:195 commits the touch), so a session does not idle out while a tab shows the shell; what
lapses is the capability, and that is the lock the poll does not see. A storage event replaces
the screen that shows a new recovery key, which is shown only once.

### FieldEncryption, with MCFieldEncryption and FieldEncryptionProofs

`col` holds the plain and the encrypted column of four kinds of text (text of a page, raw input of
a classification, description and review reason of an item), `user` the password and the data key
as it is wrapped by password and recovery key, `key` the data key in the cache. An account is new,
or one of Phase 10, without wrapped keys and with rows that are plain or sealed with a key derived
from its password. Writers are `StorePage`, `ProviderNotConfigured`, `ProviderFailed`, `Classified`,
the review note, the manual item, `Backfill` and the two transactions of the cleanup of provider
errors; so are the listings, because they decrypt into the rows they have loaded and the commit
of their session (for the audit event) writes what was assigned (`WriteBack`). Routes run under the
writer lock from their guard on, so each is a step; the cleanup script is not behind a guard and
selects in one step and writes in another. `latest` remembers what was written last.

| Run | Question | Bounds |
| --- | --- | --- |
| `field_encryption` | Does the key in memory open every envelope; does a route or a pack ever show a text that has been replaced; can the security status that allows the plain columns to go be taken back? | 1 document, 2 items, 2 texts of which one looks like a provider error, 2 passwords: old and new account, resets before and after the first unlock, one cleanup at a time |
| `field_plaintext` (violation) | Are sensitive texts only written as envelopes? | 1 item, 1 text, 1 password |

Proved for any documents, items, texts and passwords: `TypeOK`, `KeyOpensEverything`,
`NothingOlderIsShown`, `PackNeverStale`, `RetirementHolds`. The invariant adds what the wrapped
keys of an account have in common (one data key, the derived one as long as it is not wrapped),
that every envelope is sealed with it, and that of two columns that are both filled neither is
older than the other: whoever writes one clears or rewrites its neighbour. The cleanup script is
the exception, whose note stays under an old envelope; hence `SystemNote` in the properties.

What was learnt beyond the runs: docs/PHASE_11:5 says "Sensitive fields are written as encrypted
payloads only"; `field_plaintext` shows that listing the items of a workspace writes them in the
clear (workspaces.py:387). What an export contains depends on that: packs take the plain columns,
so a text nobody has listed is missing from them. The backfill asks for "Unlock first, then rerun", but
it is a process of its own whose cache is always empty. `can_disable_plaintext_fallback`
(workspaces.py:948) does not count review reasons, which the scripts still write in the clear. Not
modelled are the notes of an item and the raw output of a classification, whose two columns are
written like those above, and two texts that have no encrypted column at all: the parsed output of
a classification (classification/__init__.py:175) and the snippet of a document (line 210), the
first 500 characters of its text, are stored in the clear whatever happens.

### OcrText and AnswerRules, with MCAnswerRules and AnswerRulesProofs

`OcrText` has no variables: it is the dispatch on the declared type, pdfplumber and tesseract with
pages that raise, and the two algorithms that prepare a scan, the contrast stretch between
percentiles and Otsu's threshold, over a grey histogram with `Levels` shades. `AnswerRules` follows
one document from `file` over `text` and the provider's `answers` to `items` and its `status`, and on
through the user's decisions to the verdict of the issues page. The offline provider is modelled
keyword by keyword; for the cloud providers a reply is any combination of the fields that decide
something, in an object, a fence, prose around it or no object at all; of a category only
its absence and whether it is one for a tax agent matter, and a confidence may be a percentage,
which nothing clamps. Tasks, locks and timeouts around this are the subject of `Ingestion`; here they
may end the pipeline at each of its commits: the key is gone before the text is stored or before the
provider is asked (`KeyMissing`), the call is cut off (`Interrupted`), or the items are committed and
the verdict on them is not (`Verdict`).

| Run | Question | Bounds |
| --- | --- | --- |
| `answer_rules` | Is a page that shows something ever blanked, is the threshold the best one, is anything approved that neither a confident answer nor the user settled? | 5 grey levels with 0, 1 or 3 pixels each, percentiles 20 and 80; every declared type with every content, 2 pages of which one may raise; any two keywords; 2 decisions |

Five levels instead of 256 and 20 per cent instead of 2 keep what the algorithms tell apart: empty
ends of the histogram, one shade, levels that meet, a lower level at 0, ties between
thresholds. `IsOtsu` judges the threshold by the definition (least scatter within the classes),
computed from the page and not from running sums.

Proved for any number of levels, any percentiles, any files and any number of decisions: `TypeOK`,
`ReadableIsRead`, `OtsuIsOptimal`, `NothingApprovedUnseen` and `CompletedIsSupported`. The proofs
have four layers:

- Induction. The library's induction theorems take an operator and cannot be used; a set of numbers
  has a least one (`LeastNumber`, from well-foundedness), and that is enough for induction over the
  levels and over finite sets (`SetInduction`). Sums over finite sets, a recursive function in
  the community modules, are shown to exist and to be additive that way.
- The threshold. `OtsuInv` says what the loop over thresholds knows before each level: the running
  weight and sum are those of the levels below, and the best gap is the largest so far. The scatter
  within the classes and the gap between them add up to the scatter of the page, so that the largest gap
  has the least scatter (`OtsuIsBest`).
- The pages. The levels between which the contrast is stretched both have pixels, so a page with two
  shades keeps two, and the threshold separates them; hence a page reads as blank exactly when it shows
  nothing, and so do the dispatch and the readers (`ReadIffReadable`).
- The items. The invariant `IInv` adds to the type that there are no items while a task holds the
  file, and that an item nobody decided is still what the review rules made of the answer with its
  number; the offline provider's answers are unflagged only for a certain keyword without an
  uncertain word.

What was learnt beyond the runs:
- docs/decisions/003:55 says "High-risk or low-confidence items require review". The provider's
  `risk_level` decides nothing; only confidence and the flag do.
- The retry for transient failures in the pipeline is never reached with the shipped providers,
  which wrap every exception in `AIProviderError`; neither is the outcome without items, because
  each of them returns at least one.
- dispatch.py:9 promises tesseract as the fallback for scanned PDFs, but the image library opens
  no PDF: the fallback only helps an image that was declared as one. A binary file declared as text
  is decoded as text and classified.
- Anthropic is not asked for a schema and its confidence is not clamped, so it may exceed 1, which
  counts as confident.
- The "blocked" verdict of the issues page cannot be reached: its triggers need the flag that
  makes the verdict "in_progress". Failed documents do not count there.
- With little dark text (below the lower percentile) on paper of two shades the stretch
  maps text and darker paper to black; the page is not blank, but its words are gone. The model's
  external OCR reads any page of two colours and does not see this.

### RateLimiter, with MCRateLimiter and RequestProofs

`bucket` is the middleware's dictionary; a stamp is a place in a bucket, and `age` says how many ticks
ago it was set. `served` (who reached a route within the window) and `promise` (how long a refused
client was told to wait) are history. A request is one step (`dispatch`): choose the first pattern
that matches, clean the bucket, refuse or stamp. `Tick` is time, `Restart` loses the dictionary.
The clock does not step back. Its definitions carry `Limiter` in their names where the workspace
bridge has the same ones, because `RequestProofs` extends both modules.

| Run | Question | Bounds |
| --- | --- | --- |
| `rate_limiter` | Does any window hold more than its limit; is anybody refused below it; how much too short is the wait a client is told; is one that never waits still served? | 2 clients, limits of 1 and 2, a window of 4 ticks, seconds of 2 ticks, 2 stamps a bucket: full and half-empty buckets, stamps at the boundary, waits that are cut off |

Fairness: the clock runs, and every client of `Asks` keeps asking, which is the case that could
lock it out.

Proved for any limits, window and length of a second: `LimiterTypeOK`, `WindowHolds` and
`RefusedOnlyAtLimit` (from `KeyInv`: the fresh stamps of a bucket are exactly what was served within
the window, unless the process restarted, and then the history starts anew as well) and
`ToldToTheSecond` (the oldest stamp that counts is gone one second after the seconds told are over;
the answer tells nobody of that second, so this bounds the error and is no promise to the client).

What was learnt beyond the runs: main.py:65 says that logging is added "before rate limit so every
request gets a request_id". Middleware added later runs first, so identifiers are checked, then the
limit, then logging: a 429 or a 400 has no request id, no security headers and no log line. The "10
uploads per minute" of main.py:72 matches only the retired `/api/documents/upload`, which answers
410; uploads of a workspace count towards the general limit. `retry_after_seconds` is cut to whole
seconds, so a client that waits exactly as long is up to a second early and can be refused again
("one that waits as told is let through" fails on the instance of `rate_limiter`). Limits are kept
per process.

## Only model-checked, assumed, not modelled

- Liveness (`EveryRequestEnds`, `RetriedJobIsClaimed`, `EveryTaskEnds`, `ExpiryReachesTabs`,
  `RefusedLoadLocks`, `NobodyLockedOut`) is checked by TLC on the instances above and not proved:
  liveness under fairness is outside what the proof system handles.
- Everything else the passing runs check is a theorem, listed under `theorems` in `PROJECT.json`:
  every invariant, the action properties, and the two refinements (`DocumentLifecycle`,
  `WorkspaceRegistry`). What TLC adds are the mutants, the liveness properties,
  and the instances without the assumptions the proofs need. The type
  invariants are proved and not checked again in the runs; each comes with its component's proofs.
- The proofs assume only the named `ASSUME`s of the modules and, for four theorems, `OneResetter`.
  The `ASSUME`s say that bounds are numbers, that sentinels are not members, and of the files of
  `AnswerRules` that a page has words of the vocabulary and a count of pixels for each level
  (`FilesAssumption`).
- Induction over data with the library's theorems is out of reach, because they take an operator as
  a parameter; `AnswerRulesProofs` shows what can be done with least numbers instead.
- Algorithms of cryptography are abstracted to which key opens what, texts to members of small sets,
  pages to their words and grey histogram, packs to what they were made from; wording and prompts
  are left out. Time is a small counter; 5 s and 300 s are not related.
- Symmetry is used only where no property is a liveness property, for the tokens other
  than setup's, the items, documents and packs, and the requests of `WorkspaceBridge`, none of
  which the code orders; a refinement is a property of steps and keeps the symmetry of its rows.
- Runs marked as violations state what a document, a comment or an answer of the program says and
  the code does not do; each is a finding in `PROJECT.json`. The other properties that "What was
  learnt" reports as failing are not definitions of the modules: each was checked with TLC on the
  instance named there and is not part of the runs.
- Components marked `not_modelled` in `PROJECT.json` are stateless (other middleware), plain file
  input and output (storage), called by nothing (deduplication helpers), or unmounted: main.py
  mounts only `routers/legacy.py`, which answers 410, so the routers and the export service behind
  it are never reached. Of `partly` modelled components, what is left out is named there; it is
  reads, wording, and the download route, which only stamps `downloaded_at`.

## Plan

Order: what guards everything first, then what runs beside the requests, then what the user
gets, then the edges. Done: 1. `UnlockSession`, 2. `JobQueue`, 3. `Ingestion` with
`DocumentLifecycle`, 4. `ReviewExport`, 5. `WorkspaceBridge` with `WorkspaceRegistry`,
6. `WorkspaceTabs`, 7. `FieldEncryption`, 8. `OcrText` and `AnswerRules`, 9. `RateLimiter`.

Next:
- `WriterLock`: an abstract lock with busy timeout that `UnlockSession` and `Ingestion` both
  implement; a composition in which a pipeline's provider call and a sensitive route compete.
- An abstract access control that `UnlockSession` implements: who may read, as a function of the
  unlocks that were granted and not yet revoked.
- The setup form of the tabs, and the download of a pack: workspaces.py:823 stamps
  `downloaded_at`, audits, commits and only then reads the file, so that a delete in between leaves
  a recorded download that fails.
