------------------------ MODULE FieldEncryptionProofs ------------------------
(***************************************************************************)
(* Proofs about FieldEncryption, for any documents, items, texts and       *)
(* passwords.                                                              *)
(***************************************************************************)
EXTENDS FieldEncryption, TLAPS

\* The one data key of the account: the wrapped one, or the one an unlock derives.
TheKey == IF user.byPassword # None THEN user.byPassword.dek ELSE [from |-> user.password]

\* Both wraps hold it, the password's wrap opens with the password, and only it is cached.
KeyRing ==
    /\ user.byPassword # None => user.byPassword.kek = user.password
    /\ user.byRecovery # None => user.byPassword # None /\ user.byRecovery.dek = TheKey
    /\ key # None => key = TheKey /\ user.byPassword # None

\* The columns v of a cell whose last text was t, sealed with k.
Agrees(v, t, k) ==
    /\ v \in Columns /\ t \in Texts \union {None}
    /\ v.plain \in {None, t, SystemNote}
    /\ IF v.enc # None THEN v.enc.cipher \in {t, SystemNote} /\ v.enc.key = k
                       ELSE v.plain \in {t, SystemNote}

Absent(c) == col[c] = Clear(None) /\ latest[c] = None

\* The inductive invariant: TypeOK in parts, with what the columns have to do
\* with the last text and with the key.
RowsInv ==
    /\ stored \in SUBSET (Docs \union Items)
    /\ col \in [Cells -> Columns] /\ latest \in [Cells -> Texts \union {None}]
    /\ \A c \in Cells : Agrees(col[c], latest[c], TheKey) /\ (c[1] \notin stored => Absent(c))
AccountInv ==
    /\ user \in [password : Passwords, byPassword : Wraps \union {None}, byRecovery : Wraps \union {None}]
    /\ key \in DataKeys \union {None}
    /\ KeyRing
MatchedInv ==
    /\ matched \in (SUBSET Items) \union {None}
    /\ matched # None => matched \subseteq stored
IInv == AccountInv /\ RowsInv /\ MatchedInv

-----------------------------------------------------------------------------
(* Sealing, and writing some cells of a function *)

LEMMA KeyType == ASSUME AccountInv PROVE TheKey \in DataKeys
  BY DEF AccountInv, TheKey, Wraps, DataKeys

LEMMA SealedAgrees ==
  ASSUME NEW t \in Texts \union {None}, NEW k \in DataKeys
  PROVE  Agrees(Sealed(t, k), t, k)
<1>1. CASE t = None
  BY <1>1 DEF Sealed, encrypt_text, Agrees, Columns, Plains
<1>2. CASE t # None
  <2>1. [cipher |-> t, key |-> k] \in Envelopes
    BY <1>2 DEF Envelopes, Contents
  <2>2. [cipher |-> t, key |-> k] # None
    BY <2>1, NoneAssumption
  <2> QED
    BY <1>2, <2>1, <2>2 DEF Sealed, encrypt_text, Agrees, Columns, Plains
<1> QED
  BY <1>1, <1>2

LEMMA ClearAgrees ==
  ASSUME NEW t \in Texts \union {None}, NEW k \in DataKeys
  PROVE  Agrees(Clear(t), t, k)
  BY DEF Clear, Agrees, Columns, Plains, Contents

LEMMA CellRows == ASSUME NEW c \in Cells PROVE c = <<c[1], c[2]>> /\ c[1] \in Docs \union Items
  BY DEF Cells

LEMMA OverPair ==
  ASSUME NEW f, DOMAIN f = Cells, NEW row, NEW x, NEW y, NEW v, NEW w, x # y
  PROVE  Over(f, Pair(row, x, v, y, w))
           = [c \in Cells |-> IF c = <<row, x>> THEN v ELSE IF c = <<row, y>> THEN w ELSE f[c]]
<1> DEFINE p == Pair(row, x, v, y, w)
<1>1. DOMAIN p = {<<row, x>>, <<row, y>>} /\ p[<<row, x>>] = v /\ p[<<row, y>>] = w
  BY DEF Pair
<1> HIDE DEF p
<1>2. Over(f, p) = [c \in Cells |-> IF c \in DOMAIN p THEN p[c] ELSE f[c]]
  BY DEF Over
<1>3. \A c \in Cells : (IF c \in DOMAIN p THEN p[c] ELSE f[c])
                         = IF c = <<row, x>> THEN v ELSE IF c = <<row, y>> THEN w ELSE f[c]
  BY <1>1
<1> QED
  BY <1>2, <1>3 DEF p

LEMMA OverCell ==
  ASSUME NEW f, DOMAIN f = Cells, NEW row, NEW x, NEW v
  PROVE  Over(f, Cell(row, x, v)) = [c \in Cells |-> IF c = <<row, x>> THEN v ELSE f[c]]
<1> DEFINE p == Cell(row, x, v)
<1>1. DOMAIN p = {<<row, x>>} /\ p[<<row, x>>] = v
  BY DEF Cell
<1> HIDE DEF p
<1>2. Over(f, p) = [c \in Cells |-> IF c \in DOMAIN p THEN p[c] ELSE f[c]]
  BY DEF Over
<1>3. \A c \in Cells : (IF c \in DOMAIN p THEN p[c] ELSE f[c]) = IF c = <<row, x>> THEN v ELSE f[c]
  BY <1>1
<1> QED
  BY <1>2, <1>3 DEF p

-----------------------------------------------------------------------------
(* The invariant *)

LEMMA InitInv == Init => IInv
<1> SUFFICES ASSUME Init PROVE IInv
  OBVIOUS
<1>1. AccountInv
  <2>1. CASE \E p \in Passwords :
               user = [password |-> p, byPassword |-> wrap_dek([from |-> "random"], p),
                       byRecovery |-> wrap_dek([from |-> "random"], "recovery")]
    <3> PICK p \in Passwords :
               user = [password |-> p, byPassword |-> wrap_dek([from |-> "random"], p),
                       byRecovery |-> wrap_dek([from |-> "random"], "recovery")]
      BY <2>1
    <3>1. [from |-> "random"] \in DataKeys
      BY DEF DataKeys
    <3>2. wrap_dek([from |-> "random"], p) \in Wraps /\ wrap_dek([from |-> "random"], "recovery") \in Wraps
      BY <3>1 DEF Wraps, wrap_dek
    <3>3. wrap_dek([from |-> "random"], p) # None
      BY <3>2, NoneAssumption
    <3> QED
      BY <3>2, <3>3 DEF Init, AccountInv, KeyRing, TheKey, wrap_dek
  <2>2. CASE \E p \in Passwords : user = [password |-> p, byPassword |-> None, byRecovery |-> None]
    BY <2>2 DEF Init, AccountInv, KeyRing
  <2> QED
    BY <2>1, <2>2 DEF Init
<1>2. \A c \in Cells : latest[c] = Shown(c)
  BY DEF Init
<1>3. RowsInv
  <2>1. CASE stored = {} /\ col = [c \in Cells |-> Clear(None)]
    <3>1. \A c \in Cells : col[c] = Clear(None) /\ latest[c] = None
      BY <2>1, <1>2 DEF Shown, Clear
    <3>2. \A c \in Cells : Agrees(col[c], latest[c], TheKey)
      BY <3>1, <1>1, KeyType, ClearAgrees
    <3>3. col = [c \in Cells |-> col[c]] /\ latest = [c \in Cells |-> latest[c]]
      BY <2>1 DEF Init
    <3> QED
      BY <2>1, <3>1, <3>2, <3>3 DEF RowsInv, Agrees, Absent
  <2>2. ASSUME NEW old \in [Cells -> Texts \union {None}], NEW s \in BOOLEAN,
               stored \in SUBSET (Docs \union Items),
               user.byPassword = None,
               \A c \in Cells : c[1] \notin stored => old[c] = None,
               col = [c \in Cells |->
                    IF s THEN Sealed(old[c], derive_field_encryption_key(user.password)) ELSE Clear(old[c])]
        PROVE RowsInv
    <3>1. TheKey \in DataKeys /\ TheKey = derive_field_encryption_key(user.password)
      BY <2>2, <1>1, KeyType DEF TheKey, derive_field_encryption_key
    <3>2. ASSUME NEW c \in Cells
          PROVE  /\ Agrees(col[c], latest[c], TheKey) /\ latest[c] = old[c]
                 /\ old[c] = None => col[c] = Clear(None)
      <4>1. CASE s
        <5>1. col[c] = Sealed(old[c], TheKey) /\ Agrees(col[c], old[c], TheKey)
          BY <4>1, <2>2, <3>1, SealedAgrees
        <5>2. latest[c] = old[c] /\ (old[c] = None => col[c] = Clear(None))
          BY <5>1, <1>2, FieldAssumption, NoneAssumption DEF Shown, Sealed, encrypt_text, decrypt_text, Clear, Agrees, Columns, Envelopes
        <5> QED
          BY <5>1, <5>2
      <4>2. CASE ~s
        <5>1. col[c] = Clear(old[c])
          BY <4>2, <2>2
        <5> QED
          BY <5>1, <1>2, <3>1, ClearAgrees DEF Shown, Clear
      <4> QED
        BY <4>1, <4>2
    <3>3. col = [c \in Cells |-> col[c]] /\ latest = [c \in Cells |-> latest[c]]
      BY <2>2 DEF Init
    <3> QED
      BY <2>2, <3>2, <3>3 DEF RowsInv, Agrees, Absent
  <2> QED
    BY <2>1, <2>2 DEF Init
<1> QED
  BY <1>1, <1>3 DEF IInv, Init, MatchedInv

\* The rows after a step that leaves the account alone.
LEMMA RowsStep ==
  ASSUME IInv, UNCHANGED user, NEW R \in SUBSET (Docs \union Items), stored' = stored \union R,
         col' \in [Cells -> Columns], latest' \in [Cells -> Texts \union {None}],
         \A c \in Cells : \/ col'[c] = col[c] /\ latest'[c] = latest[c]
                          \/ Agrees(col'[c], latest'[c], TheKey) /\ c[1] \in stored'
  PROVE  RowsInv'
<1>1. TheKey' = TheKey
  BY DEF TheKey
<1> QED
  BY <1>1 DEF IInv, RowsInv, Absent, Clear

LEMMA AccountStep == ASSUME AccountInv, UNCHANGED <<user, key>> PROVE AccountInv'
  BY DEF AccountInv, KeyRing, TheKey

LEMMA UnlockInv == IInv /\ (Unlock \/ Lock \/ \E p \in Passwords : Reset(p)) => IInv'
<1> SUFFICES ASSUME IInv, Unlock \/ Lock \/ \E p \in Passwords : Reset(p) PROVE IInv'
  OBVIOUS
<1> USE DEF IInv
<1>1. AccountInv' /\ TheKey' = TheKey
  <2>1. CASE Lock
    BY <2>1 DEF Lock, AccountInv, KeyRing, TheKey
  <2>2. CASE Unlock /\ user.byPassword # None
    BY <2>2 DEF Unlock, AccountInv, KeyRing, TheKey, Unwraps, Wraps
  <2>3. CASE Unlock /\ user.byPassword = None
    <3> DEFINE dek == derive_field_encryption_key(user.password)
               w == wrap_dek(dek, user.password)
    <3>1. dek \in DataKeys /\ w \in Wraps /\ w # None
      BY NoneAssumption DEF AccountInv, derive_field_encryption_key, wrap_dek, DataKeys, Wraps
    <3>2. user' = [user EXCEPT !.byPassword = w] /\ key' = dek
      BY <2>3 DEF Unlock, BootstrapKey, Unwraps
    <3>3. user'.byPassword = w /\ user'.password = user.password /\ user'.byRecovery = user.byRecovery
      BY <3>2 DEF AccountInv
    <3>4. user.byRecovery = None
      BY <2>3 DEF AccountInv, KeyRing
    <3>5. w.dek = dek /\ w.kek = user.password /\ TheKey = dek
      BY <2>3 DEF wrap_dek, TheKey, derive_field_encryption_key
    <3>6. user' \in [password : Passwords, byPassword : Wraps \union {None}, byRecovery : Wraps \union {None}]
      BY <3>1, <3>2 DEF AccountInv
    <3> HIDE DEF dek, w
    <3> QED
      BY <3>1, <3>2, <3>3, <3>4, <3>5, <3>6 DEF AccountInv, KeyRing, TheKey
  <2>4. ASSUME NEW p \in Passwords, Reset(p) PROVE AccountInv' /\ TheKey' = TheKey
    <3> DEFINE dek == user.byRecovery.dek
               w == wrap_dek(dek, p)
    <3>1. user.byRecovery # None /\ user.byRecovery \in Wraps /\ dek = TheKey
      BY <2>4 DEF Reset, Unwraps, AccountInv, KeyRing
    <3>2. dek \in DataKeys /\ w \in Wraps /\ w # None
      BY <3>1, NoneAssumption DEF Wraps, wrap_dek
    <3>3. user' = [user EXCEPT !.password = p, !.byPassword = w] /\ key' = dek
      BY <2>4 DEF Reset
    <3>4. user'.byPassword = w /\ user'.password = p /\ user'.byRecovery = user.byRecovery
      BY <3>3 DEF AccountInv
    <3>5. w.dek = dek /\ w.kek = p
      BY DEF wrap_dek
    <3>6. user' \in [password : Passwords, byPassword : Wraps \union {None}, byRecovery : Wraps \union {None}]
      BY <3>2, <3>3 DEF AccountInv
    <3> HIDE DEF dek, w
    <3> QED
      BY <3>1, <3>2, <3>3, <3>4, <3>5, <3>6 DEF AccountInv, KeyRing, TheKey
  <2> QED
    BY <2>1, <2>2, <2>3, <2>4
<1>2. UNCHANGED <<stored, col, matched, latest>>
  BY DEF Unlock, Lock, Reset
<1>3. RowsInv'
  BY <1>1, <1>2 DEF RowsInv, Absent, Clear
<1>4. MatchedInv'
  BY <1>2 DEF MatchedInv
<1> QED
  BY <1>1, <1>3, <1>4

\* Columns f and last texts g become f2 and g2 where cells x and y of a row are
\* written: v and w, which say t and u.
Writes(f, g, row, x, v, t, y, w, u, f2, g2) ==
    /\ f \in [Cells -> Columns] /\ g \in [Cells -> Texts \union {None}] /\ x # y
    /\ f2 = Over(f, Pair(row, x, v, y, w)) /\ g2 = Over(g, Pair(row, x, t, y, u))

LEMMA PairAgrees ==
  ASSUME NEW f, NEW g, NEW row, NEW x, NEW y, NEW v, NEW w, NEW t, NEW u, NEW f2, NEW g2, NEW k,
         Writes(f, g, row, x, v, t, y, w, u, f2, g2), Agrees(v, t, k), Agrees(w, u, k)
  PROVE  /\ f2 \in [Cells -> Columns] /\ g2 \in [Cells -> Texts \union {None}]
         /\ \A c \in Cells : \/ f2[c] = f[c] /\ g2[c] = g[c]
                             \/ Agrees(f2[c], g2[c], k) /\ c[1] = row
<1> USE DEF Writes
<1>1. v \in Columns /\ w \in Columns /\ t \in Texts \union {None} /\ u \in Texts \union {None}
  BY DEF Agrees
<1>2. f2 = [c \in Cells |-> IF c = <<row, x>> THEN v ELSE IF c = <<row, y>> THEN w ELSE f[c]]
  BY OverPair
<1>3. g2 = [c \in Cells |-> IF c = <<row, x>> THEN t ELSE IF c = <<row, y>> THEN u ELSE g[c]]
  BY OverPair
<1>4. f2 \in [Cells -> Columns] /\ g2 \in [Cells -> Texts \union {None}]
  BY <1>1, <1>2, <1>3
<1>5. ASSUME NEW c \in Cells
      PROVE  \/ f2[c] = f[c] /\ g2[c] = g[c]
             \/ Agrees(f2[c], g2[c], k) /\ c[1] = row
  <2>1. CASE c = <<row, x>>
    <3>1. f2[c] = v /\ g2[c] = t /\ c[1] = row
      BY <2>1, <1>2, <1>3
    <3> QED
      BY <3>1
  <2>2. CASE c = <<row, y>>
    <3>1. f2[c] = w /\ g2[c] = u /\ c[1] = row
      BY <2>2, <1>2, <1>3
    <3> QED
      BY <3>1
  <2>3. CASE c # <<row, x>> /\ c # <<row, y>>
    BY <2>3, <1>2, <1>3
  <2> QED
    BY <2>1, <2>2, <2>3
<1> QED
  BY <1>4, <1>5

LEMMA PipelineInv ==
  ASSUME IInv, NEW d \in Docs, NEW t \in Texts, NEW input, NEW said \in Texts \union {None},
         Agrees(input, said, TheKey), Pipeline(d, t, input, said)
  PROVE  IInv'
<1>1. AccountInv' /\ MatchedInv' /\ key = TheKey
  BY AccountStep DEF Pipeline, IInv, MatchedInv, AccountInv, KeyRing
<1>2. Agrees(Sealed(t, key), t, TheKey)
  BY <1>1, KeyType, SealedAgrees DEF IInv
<1>3. /\ col' \in [Cells -> Columns] /\ latest' \in [Cells -> Texts \union {None}]
      /\ \A c \in Cells : \/ col'[c] = col[c] /\ latest'[c] = latest[c]
                          \/ Agrees(col'[c], latest'[c], TheKey) /\ c[1] = d
  <2>1. col \in [Cells -> Columns] /\ latest \in [Cells -> Texts \union {None}] /\ "text" # "raw_input"
    BY DEF IInv, RowsInv
  <2>2. Writes(col, latest, d, "text", Sealed(t, key), t, "raw_input", input, said, col', latest')
    BY <2>1 DEF Pipeline, Writes
  <2> QED
    BY <1>2, <2>1, <2>2, PairAgrees
<1>4. UNCHANGED user /\ {d} \in SUBSET (Docs \union Items) /\ stored' = stored \union {d}
  BY DEF Pipeline
<1>5. RowsInv'
  BY <1>3, <1>4, RowsStep
<1> QED
  BY <1>1, <1>5 DEF IInv

LEMMA ClassifiedInv ==
  ASSUME IInv, NEW d \in Docs, NEW t \in Texts, NEW i \in Items, NEW desc \in Texts,
         NEW n \in Texts \union {None}, Classified(d, t, i, desc, n)
  PROVE  IInv'
<1> DEFINE f == Over(col, Pair(d, "text", Sealed(t, key), "raw_input", Sealed(t, key)))
           g == Over(latest, Pair(d, "text", t, "raw_input", t))
<1>1. AccountInv' /\ MatchedInv' /\ key = TheKey
  BY AccountStep DEF Classified, IInv, MatchedInv, AccountInv, KeyRing
<1>2. /\ Agrees(Sealed(t, key), t, TheKey) /\ Agrees(Sealed(desc, key), desc, TheKey)
      /\ Agrees(Sealed(n, key), n, TheKey)
  BY <1>1, KeyType, SealedAgrees DEF IInv
<1>3. /\ f \in [Cells -> Columns] /\ g \in [Cells -> Texts \union {None}]
      /\ \A c \in Cells : \/ f[c] = col[c] /\ g[c] = latest[c]
                          \/ Agrees(f[c], g[c], TheKey) /\ c[1] = d
  <2>1. col \in [Cells -> Columns] /\ latest \in [Cells -> Texts \union {None}] /\ "text" # "raw_input"
    BY DEF IInv, RowsInv
  <2>2. Writes(col, latest, d, "text", Sealed(t, key), t, "raw_input", Sealed(t, key), t, f, g)
    BY <2>1 DEF Writes
  <2> HIDE DEF f, g
  <2> QED
    BY <1>2, <2>2, PairAgrees
<1>4. /\ col' \in [Cells -> Columns] /\ latest' \in [Cells -> Texts \union {None}]
      /\ \A c \in Cells : \/ col'[c] = f[c] /\ latest'[c] = g[c]
                          \/ Agrees(col'[c], latest'[c], TheKey) /\ c[1] = i
  <2> HIDE DEF f, g
  <2>1. Writes(f, g, i, "description", Sealed(desc, key), desc, "review_reason", Sealed(n, key), n, col', latest')
    BY <1>3 DEF Classified, ItemTexts, ItemSays, Writes, f, g
  <2> QED
    BY <1>2, <2>1, PairAgrees
<1>5. UNCHANGED user /\ {d, i} \in SUBSET (Docs \union Items) /\ stored' = stored \union {d, i}
  BY DEF Classified
<1> HIDE DEF f, g
<1>6. \A c \in Cells : \/ col'[c] = col[c] /\ latest'[c] = latest[c]
                       \/ Agrees(col'[c], latest'[c], TheKey) /\ c[1] \in stored'
  <2> SUFFICES ASSUME NEW c \in Cells
               PROVE  \/ col'[c] = col[c] /\ latest'[c] = latest[c]
                      \/ Agrees(col'[c], latest'[c], TheKey) /\ c[1] \in stored'
    OBVIOUS
  <2>1. CASE Agrees(col'[c], latest'[c], TheKey) /\ c[1] = i
    BY <2>1, <1>5
  <2>2. CASE col'[c] = f[c] /\ latest'[c] = g[c]
    BY <2>2, <1>3, <1>5
  <2> QED
    BY <2>1, <2>2, <1>4
<1>7. RowsInv'
  BY <1>4, <1>5, <1>6, RowsStep
<1> QED
  BY <1>1, <1>7 DEF IInv

\* A step that rewrites the columns of stored rows and says nothing new.
LEMMA RewriteInv ==
  ASSUME IInv, UNCHANGED <<user, key, stored, latest>>, MatchedInv',
         col' = [c \in Cells |-> col'[c]],
         \A c \in Cells : Agrees(col'[c], latest[c], TheKey) /\ (c[1] \notin stored => col'[c] = col[c])
  PROVE  IInv'
<1>1. AccountInv' /\ {} \in SUBSET (Docs \union Items) /\ stored' = stored \union {}
  BY AccountStep DEF IInv
<1>2. col' \in [Cells -> Columns] /\ latest' \in [Cells -> Texts \union {None}]
  BY DEF IInv, RowsInv, Agrees
<1>3. \A c \in Cells : \/ col'[c] = col[c] /\ latest'[c] = latest[c]
                       \/ Agrees(col'[c], latest'[c], TheKey) /\ c[1] \in stored'
  OBVIOUS
<1>4. RowsInv'
  BY <1>1, <1>2, <1>3, RowsStep
<1> QED
  BY <1>1, <1>4 DEF IInv

\* What the rows of the invariant say of one cell.
LEMMA OneCell ==
  ASSUME IInv, NEW c \in Cells
  PROVE  /\ Agrees(col[c], latest[c], TheKey) /\ col[c] \in Columns
         /\ c[1] \notin stored => col[c].plain = None /\ col[c].enc = None
         /\ col[c].enc # None => col[c].enc \in Envelopes
<1>1. Agrees(col[c], latest[c], TheKey) /\ (c[1] \notin stored => Absent(c))
  BY DEF IInv, RowsInv
<1>2. Clear(None).plain = None /\ Clear(None).enc = None
  BY DEF Clear
<1>3. c[1] \notin stored => col[c].plain = None /\ col[c].enc = None
  BY <1>1, <1>2 DEF Absent
<1> QED
  BY <1>1, <1>3 DEF Agrees, Columns

\* A cell that reading has opened, and one that the backfill has sealed.
LEMMA OpenedAgrees ==
  ASSUME NEW v, NEW t, NEW k, Agrees(v, t, k), v.enc # None,
         NEW w \in Columns, w.plain = v.enc.cipher, w.enc = v.enc
  PROVE  Agrees(w, t, k)
  BY DEF Agrees

LEMMA BackfilledAgrees ==
  ASSUME NEW v, NEW t, NEW k, Agrees(v, t, k), v.enc = None,
         NEW w \in Columns, w.plain = v.plain, w.enc = [cipher |-> v.plain, key |-> k], w.enc # None
  PROVE  Agrees(w, t, k)
  BY DEF Agrees

LEMMA WriteBackInv == ASSUME IInv, NEW C \in SUBSET Cells, WriteBack(C) PROVE IInv'
<1>1. UNCHANGED <<user, key, stored, latest>> /\ MatchedInv'
  BY DEF WriteBack, IInv, MatchedInv
<1>2. ASSUME NEW c \in Cells
      PROVE  Agrees(col'[c], latest[c], TheKey) /\ (c[1] \notin stored => col'[c] = col[c])
  <2>1. CASE c \in C /\ col[c].enc # None
    <3>1. col'[c] = [col[c] EXCEPT !.plain = col[c].enc.cipher]
      BY <2>1 DEF WriteBack, decrypt_text
    <3>2. col'[c].plain = col[c].enc.cipher /\ col'[c].enc = col[c].enc /\ col'[c] \in Columns
      BY <2>1, <3>1, OneCell DEF Columns, Envelopes, Plains
    <3>3. c[1] \in stored
      BY <2>1, OneCell
    <3>4. Agrees(col'[c], latest[c], TheKey)
      BY <2>1, <3>2, OneCell, OpenedAgrees
    <3> QED
      BY <3>3, <3>4
  <2>2. CASE ~(c \in C /\ col[c].enc # None)
    <3>1. col'[c] = col[c]
      BY <2>2 DEF WriteBack
    <3> QED
      BY <3>1, OneCell
  <2> QED
    BY <2>1, <2>2
<1>3. col' = [c \in Cells |-> col'[c]]
  BY DEF WriteBack
<1> QED
  BY <1>1, <1>2, <1>3, RewriteInv

LEMMA CleanupInv == ASSUME IInv, CleanupSelect \/ CleanupWrite PROVE IInv'
<1>1. CASE CleanupSelect
  <2>1. UNCHANGED <<user, key, stored, col, latest>> /\ MatchedInv'
    BY <1>1 DEF CleanupSelect, MatchedInv
  <2>2. TheKey' = TheKey
    BY <2>1 DEF TheKey
  <2> QED
    BY <2>1, <2>2, AccountStep DEF IInv, RowsInv, Absent, Clear
<1>2. CASE CleanupWrite
  <2>1. UNCHANGED <<user, key, stored, latest>> /\ MatchedInv' /\ matched \in SUBSET stored
    BY <1>2 DEF CleanupWrite, IInv, MatchedInv
  <2>2. ASSUME NEW c \in Cells
        PROVE  Agrees(col'[c], latest[c], TheKey) /\ (c[1] \notin stored => col'[c] = col[c])
    <3>1. CASE c[1] \in matched /\ c[2] = "review_reason"
      <4>1. col'[c] = [col[c] EXCEPT !.plain = SystemNote]
        BY <1>2, <3>1 DEF CleanupWrite
      <4>2. col'[c].plain = SystemNote /\ col'[c].enc = col[c].enc /\ col'[c] \in Columns
        BY <4>1, OneCell DEF Columns, Plains, Contents
      <4> QED
        BY <2>1, <3>1, <4>2, OneCell DEF Agrees
    <3>2. CASE ~(c[1] \in matched /\ c[2] = "review_reason")
      <4>1. col'[c] = col[c]
        BY <1>2, <3>2 DEF CleanupWrite
      <4> QED
        BY <4>1, OneCell
    <3> QED
      BY <3>1, <3>2
  <2>3. col' = [c \in Cells |-> col'[c]]
    BY <1>2 DEF CleanupWrite
  <2> QED
    BY <2>1, <2>2, <2>3, RewriteInv
<1> QED
  BY <1>1, <1>2

LEMMA BackfillInv == ASSUME IInv, Backfill PROVE IInv'
<1>1. UNCHANGED <<user, key, stored, latest>> /\ MatchedInv' /\ key \in DataKeys /\ key = TheKey
  BY DEF Backfill, IInv, MatchedInv, AccountInv, KeyRing
<1>2. ASSUME NEW c \in Cells
      PROVE  Agrees(col'[c], latest[c], TheKey) /\ (c[1] \notin stored => col'[c] = col[c])
  <2>1. CASE PlaintextOnly(c)
    <3>1. col'[c] = [col[c] EXCEPT !.enc = [cipher |-> col[c].plain, key |-> key]]
      BY <2>1 DEF Backfill, encrypt_text, PlaintextOnly
    <3>2. [cipher |-> col[c].plain, key |-> key] \in Envelopes
      BY <1>1, <2>1, OneCell DEF PlaintextOnly, Envelopes, Columns, Plains
    <3>3. /\ col'[c].plain = col[c].plain /\ col'[c].enc = [cipher |-> col[c].plain, key |-> key]
          /\ col'[c] \in Columns /\ col'[c].enc # None
      BY <3>1, <3>2, OneCell, NoneAssumption DEF Columns
    <3>4. c[1] \in stored
      BY <2>1, OneCell DEF PlaintextOnly
    <3>5. Agrees(col'[c], latest[c], TheKey)
      BY <1>1, <2>1, <3>3, OneCell, BackfilledAgrees DEF PlaintextOnly
    <3> QED
      BY <3>4, <3>5
  <2>2. CASE ~PlaintextOnly(c)
    <3>1. col'[c] = col[c]
      BY <2>2 DEF Backfill
    <3> QED
      BY <3>1, OneCell
  <2> QED
    BY <2>1, <2>2
<1>3. col' = [c \in Cells |-> col'[c]]
  BY DEF Backfill
<1> QED
  BY <1>1, <1>2, <1>3, RewriteInv DEF IInv

LEMMA NoteInv ==
  ASSUME IInv, NEW i \in Items, NEW n \in Texts \union {None}, set_workspace_item_review_status(i, n)
  PROVE  IInv'
<1>1. AccountInv' /\ MatchedInv' /\ key = TheKey /\ UNCHANGED <<user, stored>>
  BY AccountStep DEF set_workspace_item_review_status, IInv, MatchedInv, AccountInv, KeyRing
<1>2. Agrees(Sealed(n, key), n, TheKey) /\ Sealed(n, key) \in Columns
  BY <1>1, KeyType, SealedAgrees DEF IInv, Agrees
<1>3. /\ col' \in [Cells -> Columns]
      /\ \A c \in Cells : col'[c] = IF c = <<i, "review_reason">> THEN Sealed(n, key) ELSE col[c]
  <2>1. col \in [Cells -> Columns] /\ col' = Over(col, Cell(i, "review_reason", Sealed(n, key)))
    BY DEF IInv, RowsInv, set_workspace_item_review_status, Note
  <2> QED
    BY <1>2, <2>1, OverCell
<1>4. /\ latest' \in [Cells -> Texts \union {None}]
      /\ \A c \in Cells : latest'[c] = IF c = <<i, "review_reason">> THEN n ELSE latest[c]
  <2> DEFINE Said == Texts \union {None}
  <2>1. latest \in [Cells -> Said] /\ n \in Said /\ latest' = Over(latest, Cell(i, "review_reason", n))
    BY DEF IInv, RowsInv, set_workspace_item_review_status
  <2> HIDE DEF Said
  <2>2. /\ latest' \in [Cells -> Said]
        /\ \A c \in Cells : latest'[c] = IF c = <<i, "review_reason">> THEN n ELSE latest[c]
    BY <2>1, OverCell
  <2> QED
    BY <2>2 DEF Said
<1>5. ASSUME NEW c \in Cells
      PROVE  \/ col'[c] = col[c] /\ latest'[c] = latest[c]
             \/ Agrees(col'[c], latest'[c], TheKey) /\ c[1] \in stored'
  <2>1. CASE c = <<i, "review_reason">>
    <3>1. col'[c] = Sealed(n, key) /\ latest'[c] = n /\ c[1] = i
      BY <2>1, <1>3, <1>4
    <3> QED
      BY <3>1, <1>1, <1>2 DEF set_workspace_item_review_status
  <2> QED
    BY <2>1, <1>3, <1>4
<1>6. {} \in SUBSET (Docs \union Items) /\ stored' = stored \union {}
  BY <1>1
<1>7. RowsInv'
  BY <1>1, <1>3, <1>4, <1>5, <1>6, RowsStep
<1> QED
  BY <1>1, <1>7 DEF IInv

LEMMA ManualItemInv ==
  ASSUME IInv, NEW i \in Items, NEW t \in Texts, NEW n \in Texts \union {None},
         create_workspace_manual_item(i, t, n)
  PROVE  IInv'
<1>1. AccountInv' /\ MatchedInv' /\ key = TheKey
  BY AccountStep DEF create_workspace_manual_item, IInv, MatchedInv, AccountInv, KeyRing
<1>2. Agrees(Sealed(t, key), t, TheKey) /\ Agrees(Sealed(n, key), n, TheKey)
  BY <1>1, KeyType, SealedAgrees DEF IInv
<1>3. /\ col' \in [Cells -> Columns] /\ latest' \in [Cells -> Texts \union {None}]
      /\ \A c \in Cells : \/ col'[c] = col[c] /\ latest'[c] = latest[c]
                          \/ Agrees(col'[c], latest'[c], TheKey) /\ c[1] = i
  <2>1. col \in [Cells -> Columns] /\ latest \in [Cells -> Texts \union {None}] /\ "description" # "review_reason"
    BY DEF IInv, RowsInv
  <2>2. Writes(col, latest, i, "description", Sealed(t, key), t, "review_reason", Sealed(n, key), n, col', latest')
    BY <2>1 DEF create_workspace_manual_item, ItemTexts, ItemSays, Writes
  <2> QED
    BY <1>2, <2>1, <2>2, PairAgrees
<1>4. UNCHANGED user /\ {i} \in SUBSET (Docs \union Items) /\ stored' = stored \union {i}
  BY DEF create_workspace_manual_item
<1>5. RowsInv'
  BY <1>3, <1>4, RowsStep
<1> QED
  BY <1>1, <1>5 DEF IInv
LEMMA NextInv == IInv /\ [Next]_vars => IInv'
<1> SUFFICES ASSUME IInv, [Next]_vars PROVE IInv'
  OBVIOUS
<1>1. CASE Unlock \/ Lock \/ \E p \in Passwords : Reset(p)
  BY <1>1, UnlockInv
<1>2. ASSUME NEW d \in Docs, NEW t \in Texts,
             StorePage(d, t) \/ ProviderNotConfigured(d, t) \/ ProviderFailed(d, t)
      PROVE  IInv'
  <2>1. TheKey \in DataKeys /\ (key # None => key = TheKey) /\ None \in Texts \union {None} /\ t \in Texts \union {None}
    BY KeyType DEF IInv, AccountInv, KeyRing
  <2>2. CASE StorePage(d, t)
    BY <2>1, <2>2, ClearAgrees, PipelineInv DEF StorePage
  <2>3. CASE ProviderNotConfigured(d, t)
    <3>1. Agrees(Sealed(t, key), t, TheKey)
      BY <2>1, <2>3, SealedAgrees DEF ProviderNotConfigured, Pipeline
    <3> QED
      BY <2>1, <2>3, <3>1, PipelineInv DEF ProviderNotConfigured
  <2>4. CASE ProviderFailed(d, t)
    BY <2>1, <2>4, ClearAgrees, PipelineInv DEF ProviderFailed
  <2> QED
    BY <1>2, <2>2, <2>3, <2>4
<1>3. ASSUME NEW d \in Docs, NEW t \in Texts, NEW i \in Items, NEW n \in Texts \union {None},
             Classified(d, t, i, t, n)
      PROVE  IInv'
  BY <1>3, ClassifiedInv
<1>4. ASSUME NEW I \in SUBSET Items, list_workspace_items(I) PROVE IInv'
  <2>1. (I \X {"description", "review_reason"}) \in SUBSET Cells
    BY DEF Cells
  <2> QED
    BY <1>4, <2>1, WriteBackInv DEF list_workspace_items
<1>5. ASSUME NEW d \in Docs, list_workspace_document_pages(d) PROVE IInv'
  <2>1. {<<d, "text">>} \in SUBSET Cells
    BY DEF Cells
  <2> QED
    BY <1>5, <2>1, WriteBackInv DEF list_workspace_document_pages
<1>6. ASSUME NEW i \in Items, NEW n \in Texts \union {None}, set_workspace_item_review_status(i, n)
      PROVE  IInv'
  BY <1>6, NoteInv
<1>7. ASSUME NEW i \in Items, NEW n \in Texts \union {None}, NEW t \in Texts, create_workspace_manual_item(i, t, n)
      PROVE  IInv'
  BY <1>7, ManualItemInv
<1>8. CASE CleanupSelect \/ CleanupWrite
  BY <1>8, CleanupInv
<1>9. CASE Backfill
  BY <1>9, BackfillInv
<1>10. CASE UNCHANGED vars
  <2>1. TheKey' = TheKey
    BY <1>10 DEF vars, TheKey
  <2> QED
    BY <1>10, <2>1, AccountStep DEF vars, IInv, RowsInv, Absent, Clear, MatchedInv
<1> QED
  BY <1>1, <1>2, <1>3, <1>4, <1>5, <1>6, <1>7, <1>8, <1>9, <1>10 DEF Next

LEMMA Inductive == Spec => []IInv
<1>1. Init => IInv
  BY InitInv
<1>2. IInv /\ [Next]_vars => IInv'
  BY NextInv
<1> QED
  BY <1>1, <1>2, PTL DEF Spec

\* The rows and the account keep their shape; a row that is not there has no text
\* (models/record.py, models/user.py).
THEOREM TypeCorrect == Spec => []TypeOK
<1>1. IInv => TypeOK
  BY DEF IInv, AccountInv, RowsInv, MatchedInv, Absent, Clear, TypeOK
<1> QED
  BY <1>1, Inductive, PTL

\* Whoever is unlocked can read all that was ever sealed, through resets of the
\* password and the bootstrap of an old account (service.py:255-271, 300-311).
THEOREM EverythingOpens == Spec => []KeyOpensEverything
<1>1. IInv => KeyOpensEverything
  BY DEF IInv, AccountInv, KeyRing, RowsInv, Agrees, KeyOpensEverything, Opens
<1> QED
  BY <1>1, Inductive, PTL

\* A route never shows a text that has been replaced (workspaces.py:148-156).
THEOREM ShownIsLatest == Spec => []NothingOlderIsShown
<1>1. IInv => NothingOlderIsShown
  BY DEF IInv, RowsInv, Agrees, NothingOlderIsShown, Shown, decrypt_text
<1> QED
  BY <1>1, Inductive, PTL

\* Nor does a review pack (encrypted_pack.py:154, 172-175).
THEOREM PackIsLatest == Spec => []PackNeverStale
<1>1. IInv => PackNeverStale
  BY DEF IInv, RowsInv, Agrees, PackNeverStale, PackText
<1> QED
  BY <1>1, Inductive, PTL

-----------------------------------------------------------------------------
(* What the security status says *)

\* A cell that may be in plain text only after a step may have been so before, or
\* is a note, or the input of a failed classification.
LEMMA StillEncrypted ==
  ASSUME IInv, Next, NEW c \in Cells, c[2] # "review_reason", ~PlaintextOnly(c)
  PROVE  ~PlaintextOnly(c)' \/ \E d \in Docs : PlaintextOnly(<<d, "raw_input">>)'
<1>1. CASE c[2] = "raw_input"
  <2>1. c[1] \in Docs /\ c = <<c[1], "raw_input">>
    BY <1>1 DEF Cells
  <2> QED
    BY <2>1 DEF PlaintextOnly
<1>2. CASE c[2] # "raw_input"
  <2> SUFFICES col'[c] = col[c] \/ ~PlaintextOnly(c)'
    BY DEF PlaintextOnly
  <2>1. ASSUME NEW t, col'[c] = Sealed(t, key) PROVE ~PlaintextOnly(c)'
    BY <2>1 DEF PlaintextOnly, Sealed
  <2>2. DOMAIN col = Cells
    BY DEF IInv, RowsInv
  <2>3. CASE Unlock \/ Lock \/ CleanupSelect \/ \E p \in Passwords : Reset(p)
    <3>1. UNCHANGED col
      BY <2>3 DEF Unlock, Lock, CleanupSelect, Reset
    <3> QED
      BY <3>1
  <2>4. ASSUME NEW d \in Docs, NEW t \in Texts,
               StorePage(d, t) \/ ProviderNotConfigured(d, t) \/ ProviderFailed(d, t)
        PROVE  col'[c] = col[c] \/ ~PlaintextOnly(c)'
    <3>1. PICK input, said : Pipeline(d, t, input, said)
      BY <2>4 DEF StorePage, ProviderNotConfigured, ProviderFailed
    <3>2. col' = Over(col, Pair(d, "text", Sealed(t, key), "raw_input", input))
      BY <3>1 DEF Pipeline
    <3>3. col' = [x \in Cells |-> IF x = <<d, "text">> THEN Sealed(t, key)
                                  ELSE IF x = <<d, "raw_input">> THEN input ELSE col[x]]
      BY <2>2, <3>2, OverPair
    <3> QED
      BY <1>2, <2>1, <3>3
  <2>5. ASSUME NEW d \in Docs, NEW t \in Texts, NEW i \in Items, NEW n, Classified(d, t, i, t, n)
        PROVE  col'[c] = col[c] \/ ~PlaintextOnly(c)'
    <3> DEFINE f == Over(col, Pair(d, "text", Sealed(t, key), "raw_input", Sealed(t, key)))
    <3>1. f = [x \in Cells |-> IF x = <<d, "text">> THEN Sealed(t, key)
                               ELSE IF x = <<d, "raw_input">> THEN Sealed(t, key) ELSE col[x]]
      BY <2>2, OverPair
    <3>2. col' = Over(f, Pair(i, "description", Sealed(t, key), "review_reason", Sealed(n, key)))
      BY <2>5 DEF Classified, ItemTexts
    <3> HIDE DEF f
    <3>3. col' = [x \in Cells |-> IF x = <<i, "description">> THEN Sealed(t, key)
                                  ELSE IF x = <<i, "review_reason">> THEN Sealed(n, key) ELSE f[x]]
      BY <3>1, <3>2, OverPair
    <3> QED
      BY <2>1, <3>1, <3>3
  <2>6. ASSUME NEW C, WriteBack(C) PROVE col'[c] = col[c] \/ ~PlaintextOnly(c)'
    <3>1. CASE col[c].enc # None /\ c \in C
      <4>1. col'[c] = [col[c] EXCEPT !.plain = decrypt_text(col[c].enc)] /\ col[c] \in Columns
        BY <2>6, <3>1, OneCell DEF WriteBack
      <4>2. col'[c].enc = col[c].enc
        BY <4>1 DEF Columns
      <4> QED
        BY <3>1, <4>2 DEF PlaintextOnly
    <3> QED
      BY <2>6, <3>1 DEF WriteBack
  <2>7. ASSUME NEW i, NEW n, set_workspace_item_review_status(i, n) PROVE col'[c] = col[c]
    <3>1. col' = Over(col, Cell(i, "review_reason", Note(i, n)))
      BY <2>7 DEF set_workspace_item_review_status
    <3>2. col' = [x \in Cells |-> IF x = <<i, "review_reason">> THEN Note(i, n) ELSE col[x]]
      BY <2>2, <3>1, OverCell
    <3> QED
      BY <3>2
  <2>8. ASSUME NEW i, NEW t, NEW n, create_workspace_manual_item(i, t, n)
        PROVE  col'[c] = col[c] \/ ~PlaintextOnly(c)'
    <3>1. col' = Over(col, Pair(i, "description", Sealed(t, key), "review_reason", Sealed(n, key)))
      BY <2>8 DEF create_workspace_manual_item, ItemTexts
    <3>2. col' = [x \in Cells |-> IF x = <<i, "description">> THEN Sealed(t, key)
                                  ELSE IF x = <<i, "review_reason">> THEN Sealed(n, key) ELSE col[x]]
      BY <2>2, <3>1, OverPair
    <3> QED
      BY <2>1, <3>2
  <2>9. CASE CleanupWrite
    BY <2>9 DEF CleanupWrite
  <2>10. CASE Backfill
    BY <2>10 DEF Backfill
  <2> QED
    BY <2>3, <2>4, <2>5, <2>6, <2>7, <2>8, <2>9, <2>10
       DEF Next, list_workspace_items, list_workspace_document_pages
<1> QED
  BY <1>1, <1>2

\* Once the plain columns can go they can go for good, failed classifications
\* aside (workspaces.py:948-962).
THEOREM RetirementIsFinal == Spec => RetirementHolds
<1>1. IInv /\ [Next]_vars => (CanDisable => CanDisable' \/ \E d \in Docs : PlaintextOnly(<<d, "raw_input">>)')
  BY StillEncrypted DEF CanDisable, vars, PlaintextOnly
<1> QED
  BY <1>1, Inductive, PTL DEF Spec, RetirementHolds
=============================================================================
