---------------------------- MODULE FieldEncryption ----------------------------
(***************************************************************************)
(* The sensitive texts of the database and the key that seals them         *)
(* (services/security/field_encryption.py, the key handling of             *)
(* services/auth/service.py, the item and page routes of                   *)
(* routers/workspaces.py, and the two maintenance scripts).                *)
(*                                                                         *)
(* Each of these texts has two columns, a plain one from before Phase 11   *)
(* and an encrypted one: the text of a page, the raw input of a            *)
(* classification, the description and the review reason of an item.  Left *)
(* out are notes and raw outputs, written like these, and the parsed       *)
(* output and the snippet, which have a plain column only.                 *)
(*                                                                         *)
(* The routes run under the writer lock from their guard on (module        *)
(* UnlockSession), so each is one step; what they assign to a row they     *)
(* have loaded is written by their commit, whether it was meant as a write *)
(* or as preparation of the answer.                                        *)
(***************************************************************************)
EXTENDS FiniteSets

CONSTANTS
    Docs,        \* documents: a page with text, a classification record
    Items,       \* tax items: a description and a review reason
    Texts,       \* what users, OCR and providers write
    ErrorTexts,  \* the texts that contain a pattern of the cleanup script
    Passwords,
    SystemNote,  \* what the cleanup script writes
    None

ASSUME FieldAssumption ==
    /\ ErrorTexts \subseteq Texts /\ Passwords # {}
    /\ None \notin Texts /\ SystemNote \notin Texts /\ SystemNote # None
    /\ Docs \intersect Items = {}

VARIABLES
    user,      \* the password, and the data key wrapped by it and by the recovery key
    key,       \* the data key in the process cache, if the workspace is unlocked
    stored,    \* documents that have been ingested, items that exist
    col,       \* the plain and the encrypted column of each sensitive text
    matched,   \* the rows the cleanup script has selected, None when it is not running
    latest     \* history: what the user or the pipeline wrote last

vars == <<user, key, stored, col, matched, latest>>

Cells == (Docs \X {"text", "raw_input"}) \union (Items \X {"description", "review_reason"})
Contents == Texts \union {SystemNote}
Plains == Contents \union {None}

\* A data key is random, or for an account of Phase 10 derived from its password.
DataKeys == [from : {"random"} \union Passwords]
Wraps == [kek : Passwords \union {"recovery"}, dek : DataKeys]
Envelopes == [cipher : Contents, key : DataKeys]
Columns == [plain : Plains, enc : Envelopes \union {None}]

ASSUME NoneAssumption == None \notin DataKeys \union Wraps \union Envelopes

\* One type invariant: the rows have their shape, and nothing is written about
\* a row that is not there.
TypeOK ==
    /\ user \in [password : Passwords, byPassword : Wraps \union {None}, byRecovery : Wraps \union {None}]
    /\ key \in DataKeys \union {None}
    /\ stored \in SUBSET (Docs \union Items)
    /\ col \in [Cells -> Columns]
    /\ matched \in (SUBSET Items) \union {None}
    /\ latest \in [Cells -> Texts \union {None}]
    /\ \A c \in Cells : c[1] \notin stored => col[c] = [plain |-> None, enc |-> None] /\ latest[c] = None

(***************************************************************************)
(* Sealing and opening                                                     *)
(***************************************************************************)
derive_field_encryption_key(p) == [from |-> p]
wrap_dek(dek, kek) == [kek |-> kek, dek |-> dek]
Unwraps(wrapped, kek) == wrapped # None /\ wrapped.kek = kek

\* An absent text stays absent.
encrypt_text(t, k) == IF t = None THEN None ELSE [cipher |-> t, key |-> k]

\* decrypt_text raises on an envelope of another key.
Opens(e, k) == e # None => e.key = k
decrypt_text(e) == e.cipher

Sealed(t, k) == [plain |-> None, enc |-> encrypt_text(t, k)]
Clear(t) == [plain |-> t, enc |-> None]

\* What a route shows for a cell, and what a review pack takes from it.
Shown(c) == IF col[c].enc # None THEN decrypt_text(col[c].enc) ELSE col[c].plain
PackText(c) == col[c].plain

\* f, with the values of g where g has one.
Over(f, g) == [c \in DOMAIN f |-> IF c \in DOMAIN g THEN g[c] ELSE f[c]]

\* A new account, or one of Phase 10 whose rows may still be plain.
Init ==
    /\ matched = None /\ key = None
    /\ \/ /\ \E p \in Passwords :
               user = [password |-> p, byPassword |-> wrap_dek([from |-> "random"], p),
                       byRecovery |-> wrap_dek([from |-> "random"], "recovery")]
          /\ stored = {}
          /\ col = [c \in Cells |-> Clear(None)]
       \/ /\ \E p \in Passwords : user = [password |-> p, byPassword |-> None, byRecovery |-> None]
          /\ stored \in SUBSET (Docs \union Items)
          /\ \E old \in [Cells -> Texts \union {None}], s \in BOOLEAN :
               /\ \A c \in Cells : c[1] \notin stored => old[c] = None
               /\ col = [c \in Cells |->
                    IF s THEN Sealed(old[c], derive_field_encryption_key(user.password)) ELSE Clear(old[c])]
    /\ latest = [c \in Cells |-> Shown(c)]

(***************************************************************************)
(* The account                                                             *)
(***************************************************************************)
\* Mutation: bootstrapping draws a new key instead of deriving the old one.
BootstrapRandom(p) == [from |-> "random"]

\* verify_unlock of an account without a wrapped key.
BootstrapKey(p) == derive_field_encryption_key(p)

Unlock ==
    /\ \/ /\ Unwraps(user.byPassword, user.password)
          /\ key' = user.byPassword.dek /\ UNCHANGED user
       \/ /\ user.byPassword = None
          /\ key' = BootstrapKey(user.password)
          /\ user' = [user EXCEPT !.byPassword = wrap_dek(BootstrapKey(user.password), user.password)]
    /\ UNCHANGED <<stored, col, matched, latest>>

\* recovery_reset_password
Reset(p) ==
    /\ Unwraps(user.byRecovery, "recovery")
    /\ user' = [user EXCEPT !.password = p, !.byPassword = wrap_dek(user.byRecovery.dek, p)]
    /\ key' = user.byRecovery.dek
    /\ UNCHANGED <<stored, col, matched, latest>>

\* Lock, logout, expiry, restart.
Lock == /\ key # None /\ key' = None
        /\ UNCHANGED <<user, stored, col, matched, latest>>

(***************************************************************************)
(* The pipeline.  Its transaction ends with classify_document's commit.    *)
(***************************************************************************)
Cell(row, field, v) == [c \in {<<row, field>>} |-> v]
Pair(row, f, v, g, w) == [c \in {<<row, f>>, <<row, g>>} |-> IF c[2] = f THEN v ELSE w]

\* Mutation: the description is written in plain text, as before Phase 11.
ItemTextsInClear(i, t, n) == Pair(i, "description", Clear(t), "review_reason", Sealed(n, key))

ItemTexts(i, t, n) == Pair(i, "description", Sealed(t, key), "review_reason", Sealed(n, key))
ItemSays(i, t, n) == Pair(i, "description", t, "review_reason", n)

Pipeline(d, t, input, said) ==
    /\ key # None /\ d \notin stored
    /\ stored' = stored \union {d}
    /\ col' = Over(col, Pair(d, "text", Sealed(t, key), "raw_input", input))
    /\ latest' = Over(latest, Pair(d, "text", t, "raw_input", said))
    /\ UNCHANGED <<user, key, matched>>

\* The key goes away between OCR and classification, or there is no text.
StorePage(d, t) == Pipeline(d, t, Clear(None), None)
ProviderNotConfigured(d, t) == Pipeline(d, t, Sealed(t, key), t)
\* The record of any other failure keeps its input in plain text.
ProviderFailed(d, t) == Pipeline(d, t, Clear(t), t)

Classified(d, t, i, desc, reason) ==
    /\ key # None /\ d \notin stored /\ i \notin stored
    /\ stored' = stored \union {d, i}
    /\ col' = Over(Over(col, Pair(d, "text", Sealed(t, key), "raw_input", Sealed(t, key))),
                   ItemTexts(i, desc, reason))
    /\ latest' = Over(Over(latest, Pair(d, "text", t, "raw_input", t)), ItemSays(i, desc, reason))
    /\ UNCHANGED <<user, key, matched>>

(***************************************************************************)
(* The routes.  Those that only read assign the decrypted texts to the     *)
(* loaded rows, and their commit writes them.                              *)
(***************************************************************************)
WriteBack(C) ==
    /\ \A c \in C : Opens(col[c].enc, key)
    /\ (\E c \in C : col[c].enc # None) => key # None
    /\ col' = [c \in Cells |->
         IF c \in C /\ col[c].enc # None THEN [col[c] EXCEPT !.plain = decrypt_text(col[c].enc)] ELSE col[c]]
    /\ UNCHANGED <<user, key, stored, matched, latest>>

\* The items of the session, or those of one review status.
list_workspace_items(I) == I \subseteq stored /\ WriteBack(I \X {"description", "review_reason"})
list_workspace_document_pages(d) == d \in stored /\ WriteBack({<<d, "text">>})

\* Mutation: the old plain text of the note is left where it is.
NoteKeepingPlain(i, n) == [plain |-> col[<<i, "review_reason">>].plain, enc |-> encrypt_text(n, key)]

\* Mutation: without a note the envelope is not cleared.
NoteKeepingEnvelope(i, n) ==
    [plain |-> None,
     enc |-> IF n = None THEN col[<<i, "review_reason">>].enc ELSE encrypt_text(n, key)]

\* The note of set_workspace_item_review_status: both columns are cleared first.
Note(i, n) == Sealed(n, key)

set_workspace_item_review_status(i, n) ==
    /\ i \in stored /\ key # None
    /\ col' = Over(col, Cell(i, "review_reason", Note(i, n)))
    /\ latest' = Over(latest, Cell(i, "review_reason", n))
    /\ UNCHANGED <<user, key, stored, matched>>

create_workspace_manual_item(i, t, n) ==
    /\ i \notin stored /\ key # None
    /\ col' = Over(col, ItemTexts(i, t, n))
    /\ latest' = Over(latest, ItemSays(i, t, n))
    /\ stored' = stored \union {i}
    /\ UNCHANGED <<user, key, matched>>

(***************************************************************************)
(* The scripts                                                             *)
(***************************************************************************)
\* cleanup_provider_error_items: selects in one transaction, writes in the next.
matches_provider_error(i) ==
    \E f \in {"description", "review_reason"} : col[<<i, f>>].plain \in ErrorTexts

CleanupSelect ==
    /\ matched = None
    /\ matched' = {i \in Items \intersect stored : matches_provider_error(i)}
    /\ UNCHANGED <<user, key, stored, col, latest>>

CleanupWrite ==
    /\ matched # None
    /\ col' = [c \in Cells |-> IF c[1] \in matched /\ c[2] = "review_reason"
                               THEN [col[c] EXCEPT !.plain = SystemNote] ELSE col[c]]
    /\ matched' = None
    /\ UNCHANGED <<user, key, stored, latest>>

PlaintextOnly(c) == col[c].plain # None /\ col[c].enc = None

\* backfill_sensitive_fields, called with the key of this process and alone:
\* the script is a process of its own and never has a key.
Backfill ==
    /\ key # None /\ matched = None
    /\ col' = [c \in Cells |-> IF PlaintextOnly(c) THEN [col[c] EXCEPT !.enc = encrypt_text(col[c].plain, key)]
                               ELSE col[c]]
    /\ UNCHANGED <<user, key, stored, matched, latest>>

Next ==
    \/ Unlock \/ Lock \/ \E p \in Passwords : Reset(p)
    \/ \E d \in Docs, t \in Texts :
         \/ StorePage(d, t) \/ ProviderNotConfigured(d, t) \/ ProviderFailed(d, t)
         \/ \E i \in Items, n \in Texts \union {None} : Classified(d, t, i, t, n)
    \/ \E I \in SUBSET Items : list_workspace_items(I)
    \/ \E d \in Docs : list_workspace_document_pages(d)
    \/ \E i \in Items, n \in Texts \union {None} :
         \/ set_workspace_item_review_status(i, n)
         \/ \E t \in Texts : create_workspace_manual_item(i, t, n)
    \/ CleanupSelect \/ CleanupWrite \/ Backfill

Spec == Init /\ [][Next]_vars

(***************************************************************************)
(* What is checked                                                         *)
(***************************************************************************)
\* Whoever is unlocked can read everything that was ever sealed: a reset by
\* recovery key and the bootstrap of an old account hand out the same data key
\* (service.py:255-271, 300-311).
KeyOpensEverything == key # None => \A c \in Cells : Opens(col[c].enc, key)

\* A route shows what the user or the pipeline wrote last, whichever column it is
\* in and whatever reads, backfills and cleanups came between; only the cleanup
\* script's own note may stand for it (workspaces.py:148-156, 440-445).
NothingOlderIsShown == \A c \in Cells : Shown(c) \in {latest[c], SystemNote}

\* A review pack takes the plain columns (encrypted_pack.py:100, 154, 172-175).  They
\* may lack a text nobody has listed, but never hold one that has been replaced.
PackNeverStale == \A c \in Cells : PackText(c) \in {None, latest[c], SystemNote}

\* can_disable_plaintext_fallback of the security status; it counts no notes.
CanDisable == \A c \in Cells : c[2] # "review_reason" => ~PlaintextOnly(c)

\* Once the security status says that the plain columns can go, only a
\* classification that failed makes it take that back (workspaces.py:948-962).
RetirementHolds ==
    [][CanDisable => CanDisable' \/ \E d \in Docs : PlaintextOnly(<<d, "raw_input">>)']_vars

\* "Sensitive fields are written as encrypted payloads only" (docs/PHASE_11:5): no
\* step puts a text into a plain column that had none.
EncryptedOnlyWrites ==
    [][\A c \in Cells : col'[c].plain # None => col[c].plain # None]_vars

=============================================================================
