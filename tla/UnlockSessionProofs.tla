------------------------- MODULE UnlockSessionProofs -------------------------
(***************************************************************************)
(* Proofs about UnlockSession, for any number of tokens and requests and   *)
(* any timeouts.                                                           *)
(***************************************************************************)
EXTENDS UnlockSession, TLAPS

USE DEF NoKey

-----------------------------------------------------------------------------
(* Type correctness *)

LEMMA QuietType == Quiet \in Requests
  BY TokensAssumption DEF Quiet, Request, Requests, Ops

LEMMA NewSessionType ==
  ASSUME NEW e \in Nat, NEW p \in Nat, NEW at \in Nat
  PROVE  NewSession(e, p, at) \in Sessions
  BY DEF NewSession, Sessions, RowStatus

LEMMA NewCapabilityType ==
  ASSUME NEW e \in Nat, NEW at \in Nat
  PROVE  NewCapability(e, at) \in Capabilities
  BY TimeAssumption DEF NewCapability, Capabilities, RowStatus

LEMMA RevokeAllType ==
  /\ sess \in [Tokens -> Sessions] => RevokeAll(sess) \in [Tokens -> Sessions]
  /\ cap \in [Tokens -> Capabilities] => RevokeAll(cap) \in [Tokens -> Capabilities]
  BY DEF RevokeAll, Revoked, Sessions, Capabilities, RowStatus

LEMMA InitType == Init => TypeOK
<1> SUFFICES ASSUME Init PROVE TypeOK
  OBVIOUS
<1>1. sess \in [Tokens -> Sessions]
  BY DEF Init, Sessions, RowStatus, NewSession, AbsentSession
<1>2. cap \in [Tokens -> Capabilities]
  BY TimeAssumption DEF Init, Capabilities, RowStatus, NewCapability, AbsentCapability
<1>3. keyExp \in [Tokens -> Nat]
  BY TimeAssumption DEF Init
<1>4. req \in [Reqs -> Requests]
  BY QuietType DEF Init
<1> QED
  BY <1>1, <1>2, <1>3, <1>4 DEF Init, TypeOK

LEMMA ReadType ==
  ASSUME TypeOK, NEW r \in Reqs, NEW op \in Ops, NEW t \in Tokens, Read(r, op, t, now)
  PROVE  req' \in [Reqs -> Requests]
  BY DEF TypeOK, Read, Requests

LEMMA DoneType ==
  ASSUME TypeOK, NEW r \in Reqs, Done(r)
  PROVE  req' \in [Reqs -> Requests]
  BY QuietType DEF TypeOK, Done

LEMMA FlushedType ==
  ASSUME TypeOK, NEW r \in Reqs, Flushed(r)
  PROVE  req' \in [Reqs -> Requests] /\ writer' \in Reqs \union {NoReq}
  BY DEF TypeOK, Flushed, Requests

LEMMA GrantType ==
  ASSUME TypeOK, NEW r \in Reqs, GrantAccess(r)
  PROVE  req' \in [Reqs -> Requests]
<1>1. now + CapTTL \in Nat
  BY TimeAssumption DEF TypeOK
<1>2. req[r] \in Requests /\ [req[r] EXCEPT !.pc = "written", !.till = now + CapTTL] \in Requests
  BY <1>1 DEF TypeOK, Requests
<1> QED
  BY <1>2 DEF TypeOK, GrantAccess

LEMMA TouchType ==
  ASSUME TypeOK, NEW t \in Tokens, NEW at \in Nat, TouchSession(t, at)
  PROVE  sess' \in [Tokens -> Sessions]
<1>1. [sess[t] EXCEPT !.lastSeen = at] \in Sessions
  BY DEF TypeOK, Sessions
<1> QED
  BY <1>1 DEF TypeOK, TouchSession

LEMMA RequestFields ==
  ASSUME TypeOK, NEW r \in Reqs
  PROVE  /\ req[r].token \in Tokens /\ req[r].epoch \in Nat /\ req[r].pw \in Nat
         /\ req[r].at \in Nat /\ req[r].till \in Nat
  BY DEF TypeOK, Requests

LEMMA RevokedType ==
  ASSUME TypeOK, NEW t \in Tokens
  PROVE  /\ [sess EXCEPT ![t] = Revoked(sess[t])] \in [Tokens -> Sessions]
         /\ [cap EXCEPT ![t] = Revoked(cap[t])] \in [Tokens -> Capabilities]
<1>1. sess \in [Tokens -> Sessions] /\ cap \in [Tokens -> Capabilities]
  BY DEF TypeOK
<1>2. Revoked(sess[t]) \in Sessions
  <2>1. sess[t] \in Sessions
    BY <1>1
  <2> QED
    BY <2>1 DEF Revoked, Sessions, RowStatus
<1>3. Revoked(cap[t]) \in Capabilities
  <2>1. cap[t] \in Capabilities
    BY <1>1
  <2> QED
    BY <2>1 DEF Revoked, Capabilities, RowStatus
<1> QED
  BY <1>1, <1>2, <1>3

LEMMA TypeStep == TypeOK /\ [Next]_vars => TypeOK'
<1> SUFFICES ASSUME TypeOK, [Next]_vars PROVE TypeOK'
  OBVIOUS
<1>1. ASSUME NEW r \in Reqs, StartUnlock(r) PROVE TypeOK'
  BY <1>1, ReadType DEF StartUnlock, TypeOK, Ops
<1>2. ASSUME NEW r \in Reqs, WriteUnlock(r) PROVE TypeOK'
  <2>1. keyExp' \in [Tokens -> Nat]
    BY <1>2, RequestFields, TimeAssumption DEF WriteUnlock, TypeOK
  <2> QED
    BY <1>2, <2>1, FlushedType DEF WriteUnlock, TypeOK
<1>3. ASSUME NEW r \in Reqs, CommitUnlock(r) PROVE TypeOK'
  BY <1>3, DoneType, NewSessionType, NewCapabilityType DEF CommitUnlock, TypeOK, Requests
<1>4. ASSUME NEW r \in Reqs, StartReset(r) PROVE TypeOK'
  BY <1>4, ReadType DEF StartReset, TypeOK, Ops
<1>5. ASSUME NEW r \in Reqs, WriteReset(r) PROVE TypeOK'
  BY <1>5, FlushedType, TimeAssumption DEF WriteReset, TypeOK
<1>6. ASSUME NEW r \in Reqs, CommitReset(r) PROVE TypeOK'
  BY <1>6, DoneType, NewSessionType, NewCapabilityType, RevokeAllType DEF CommitReset, TypeOK, Requests, EpochAfterReset
<1>7. ASSUME NEW r \in Reqs, StartAccess(r) PROVE TypeOK'
  BY <1>7, ReadType DEF StartAccess, TypeOK, Ops
<1>8. ASSUME NEW r \in Reqs, RejectAccess(r) PROVE TypeOK'
  BY <1>8 DEF RejectAccess, TypeOK, ClearKey
<1>9. ASSUME NEW r \in Reqs, GrantAccess(r) PROVE TypeOK'
  BY <1>9, GrantType DEF GrantAccess, TypeOK
<1>10. ASSUME NEW r \in Reqs, RefuseAccess(r) PROVE TypeOK'
  BY <1>10, DoneType DEF RefuseAccess, TypeOK, ClearKey
<1>11. ASSUME NEW r \in Reqs, CommitAccess(r) PROVE TypeOK'
  <2>1. [cap[req[r].token] EXCEPT !.expires = req[r].till] \in Capabilities
    BY RequestFields DEF TypeOK, Capabilities
  <2>2. Request("tail", "read", req[r].token) \in Requests
    BY RequestFields DEF Request, Requests, Ops
  <2>3. req' \in [Reqs -> Requests]
    BY <1>11, <2>2, DoneType DEF CommitAccess, TypeOK
  <2> QED
    BY <1>11, <2>1, <2>3, TouchType, RequestFields DEF CommitAccess, TypeOK
<1>12. ASSUME NEW r \in Reqs, FinishUncommitted(r) PROVE TypeOK'
  BY <1>12, DoneType DEF FinishUncommitted, TypeOK
<1>13. ASSUME NEW r \in Reqs, StartStatus(r) PROVE TypeOK'
  BY <1>13, ReadType DEF StartStatus, TypeOK, ClearKey, Ops
<1>14. ASSUME NEW r \in Reqs, CommitStatus(r) PROVE TypeOK'
  BY <1>14, DoneType, TouchType, RequestFields DEF CommitStatus, TypeOK
<1>15. ASSUME NEW r \in Reqs, CommitExpiry(r) PROVE TypeOK'
  BY <1>15, DoneType, RequestFields, RevokedType DEF CommitExpiry, TypeOK, RevokeRows
<1>16. ASSUME NEW r \in Reqs, CommitLogout(r) PROVE TypeOK'
  BY <1>16, DoneType, RequestFields, RevokedType DEF CommitLogout, TypeOK, RevokeRows
<1>17. ASSUME NEW r \in Reqs, CommitLock(r) PROVE TypeOK'
  BY <1>17, DoneType, RequestFields, RevokedType DEF CommitLock, TypeOK
<1>18. ASSUME NEW r \in Reqs, Abort(r) PROVE TypeOK'
  BY <1>18, DoneType DEF Abort, TypeOK
<1>19. ASSUME NEW r \in Reqs, LockTimeout(r) PROVE TypeOK'
  BY <1>19, DoneType DEF LockTimeout, TypeOK
<1>20. ASSUME NEW r \in Reqs, NEW op \in {"logout", "lock"}, WriteLockOrLogout(r, op) PROVE TypeOK'
  <2>1. \A t \in Tokens : Request(op, "written", t) \in Requests
    BY DEF Request, Requests, Ops
  <2> QED
    BY <1>20, <2>1 DEF WriteLockOrLogout, TypeOK, ClearKey
<1>21. CASE Restart
  BY <1>21, QuietType DEF Restart, TypeOK
<1>22. CASE BackgroundKeyLookup
  BY <1>22 DEF BackgroundKeyLookup, TypeOK
<1>23. CASE Tick
  BY <1>23 DEF Tick, TypeOK
<1>24. CASE UNCHANGED vars
  BY <1>24 DEF vars, TypeOK
<1>25. ASSUME NEW r \in Reqs, ResumeAccess(r) PROVE TypeOK'
  <2>1. [req[r] EXCEPT !.pc = "written"] \in Requests
    BY DEF TypeOK, Requests
  <2> QED
    BY <1>25, <2>1 DEF ResumeAccess, TypeOK
<1> QED
  BY <1>1, <1>2, <1>3, <1>4, <1>5, <1>6, <1>7, <1>8, <1>9, <1>10, <1>11, <1>12, <1>13, <1>14, <1>15, <1>16, <1>17, <1>18, <1>19, <1>20, <1>21, <1>22, <1>23, <1>24, <1>25 DEF Next, Arrive, Progress

\* The rows, the key cache and the requests keep their shape.
THEOREM TypeCorrect == Spec => []TypeOK
<1>1. Init => TypeOK
  BY InitType
<1>2. TypeOK /\ [Next]_vars => TypeOK'
  BY TypeStep
<1> QED
  BY <1>1, <1>2, PTL DEF Spec

-----------------------------------------------------------------------------
(* The inductive invariant *)

\* A slot that is about to commit a new token.
Opening(r) == req[r].pc # "idle" /\ req[r].op \in {"unlock", "reset"}

\* Both rows of a token appear together, carry one epoch, the password of that
\* epoch, and a revoked session has no live capability.
RowsMatch ==
    \A t \in Tokens :
        /\ sess[t].status = "absent" <=> cap[t].status = "absent"
        /\ sess[t].status = "revoked" => cap[t].status = "revoked"
        /\ sess[t].status # "absent" =>
              cap[t].epoch = sess[t].epoch /\ sess[t].pw = sess[t].epoch

\* One reset at a time: the epoch counts the passwords, in the user row and in
\* what every request has read of it.
EpochsMatch ==
    /\ user.epoch = user.pw
    /\ \A r \in Reqs : req[r].pw = req[r].epoch

\* Requests in flight hold tokens of their own or tokens with rows; the lock
\* has one holder; a reset computes from the epoch that is still current.
RequestsMatch ==
    \A r \in Reqs :
        /\ req[r].pc = "written" <=> writer = r
        /\ Opening(r) => sess[req[r].token].status = "absent"
        /\ req[r].pc # "idle" /\ ~Opening(r) => sess[req[r].token].status # "absent"
        /\ \A s \in Reqs : Opening(r) /\ Opening(s) /\ r # s => req[r].token # req[s].token
        /\ req[r].pc # "idle" /\ req[r].op = "reset" =>
              r \in Resetters /\ req[r].epoch = user.epoch

\* What the guard read stays true until it acts, or the capability is gone.
GuardFresh ==
    \A r \in Reqs : req[r].pc # "idle" /\ req[r].op = "access" =>
        LET t == req[r].token IN
        /\ cap[t].status = "live" => sess[t].epoch = user.epoch
        /\ req[r].pc = "written" => cap[t].status = "live"

\* Keys of tokens that are being revoked are already out of the cache.
KeysCleared ==
    \A r \in Reqs :
        /\ req[r].pc # "idle" /\ req[r].op \in {"expire", "logout", "lock"} =>
              keyExp[req[r].token] = NoKey
        /\ req[r].pc = "written" /\ req[r].op = "reset" =>
              \A t \in Tokens \ {req[r].token} : keyExp[t] = NoKey

\* Recovery resets come one at a time.
OneResetter == \A r, s \in Resetters : r = s

IInv == RowsMatch /\ EpochsMatch /\ RequestsMatch /\ GuardFresh /\ KeysCleared /\ RevokedKeyGone

LEMMA InvInit == Init => IInv
<1> SUFFICES ASSUME Init PROVE IInv
  OBVIOUS
<1>1. \A t \in Tokens : sess[t].status \in {"absent", "live"} /\ cap[t].status = sess[t].status
  BY DEF Init, NewSession, NewCapability, AbsentSession, AbsentCapability
<1>2. RowsMatch
  BY <1>1 DEF Init, RowsMatch, NewSession, NewCapability, AbsentSession, AbsentCapability
<1>3. \A r \in Reqs : req[r].pc = "idle" /\ req[r].pw = req[r].epoch
  BY DEF Init, Quiet, Request
<1>4. EpochsMatch
  BY <1>3 DEF Init, EpochsMatch
<1>5. RequestsMatch /\ GuardFresh /\ KeysCleared
  BY <1>3, ReqsAssumption DEF Init, RequestsMatch, Opening, GuardFresh, KeysCleared
<1>6. RevokedKeyGone
  BY <1>1 DEF RevokedKeyGone
<1> QED
  BY <1>2, <1>4, <1>5, <1>6 DEF IInv

LEMMA QuietIs == Quiet.pc = "idle" /\ Quiet.op = "none" /\ Quiet.pw = Quiet.epoch
  BY DEF Quiet, Request

\* Only a commit changes the rows.
LEMMA RowChanges ==
  ASSUME [Next]_vars
  PROVE  \/ UNCHANGED <<sess, cap>>
         \/ \E r \in Reqs : \/ CommitUnlock(r) \/ CommitReset(r) \/ CommitAccess(r) \/ CommitStatus(r)
                            \/ CommitExpiry(r) \/ CommitLogout(r) \/ CommitLock(r)
  BY DEF Next, vars, Arrive, Progress, StartUnlock, WriteUnlock, StartReset, WriteReset, StartAccess,
         RejectAccess, GrantAccess, RefuseAccess, ResumeAccess, FinishUncommitted, StartStatus, WriteLockOrLogout,
         Abort, LockTimeout, Restart, BackgroundKeyLookup, Tick

LEMMA RowsStep == TypeOK /\ IInv /\ [Next]_vars => RowsMatch'
<1> SUFFICES ASSUME TypeOK, IInv, [Next]_vars PROVE RowsMatch'
  OBVIOUS
<1> USE RequestFields DEF IInv, RowsMatch, TypeOK, Sessions, Capabilities
<1>1. CASE UNCHANGED <<sess, cap>>
  BY <1>1
<1>2. ASSUME NEW r \in Reqs, CommitUnlock(r) PROVE RowsMatch'
  BY <1>2 DEF CommitUnlock, NewSession, NewCapability, EpochsMatch
<1>3. ASSUME NEW r \in Reqs, CommitReset(r) PROVE RowsMatch'
  <2> DEFINE new == req[r].token
  <2>1. sess[new].status = "absent" /\ EpochAfterReset(r) = user.pw + 1
    BY <1>3 DEF CommitReset, Holding, EpochsMatch, RequestsMatch, Opening, EpochAfterReset
  <2>2. ASSUME NEW t \in Tokens, t # new
        PROVE  /\ sess'[t] = IF sess[t].status = "live" THEN Revoked(sess[t]) ELSE sess[t]
               /\ cap'[t] = IF cap[t].status = "live" THEN Revoked(cap[t]) ELSE cap[t]
    BY <1>3, <2>2 DEF CommitReset, RevokeAll
  <2>3. ASSUME NEW t \in Tokens
        PROVE  /\ Revoked(sess[t]) = [status |-> "revoked", opened |-> sess[t].opened, lastSeen |-> sess[t].lastSeen,
                                      epoch |-> sess[t].epoch, pw |-> sess[t].pw]
               /\ Revoked(cap[t]) = [status |-> "revoked", expires |-> cap[t].expires, epoch |-> cap[t].epoch]
    BY DEF Revoked
  <2>4. sess'[new] = NewSession(user.pw + 1, user.pw + 1, req[r].at) /\ cap'[new] = NewCapability(user.pw + 1, req[r].at)
    BY <1>3, <2>1, RevokeAllType DEF CommitReset
  <2>5. ASSUME NEW t \in Tokens, t # new
        PROVE  /\ sess'[t].status = "absent" <=> cap'[t].status = "absent"
               /\ sess'[t].status = "revoked" => cap'[t].status = "revoked"
               /\ sess'[t].status # "absent" =>
                     cap'[t].epoch = sess'[t].epoch /\ sess'[t].pw = sess'[t].epoch
    BY <2>2, <2>3, <2>5 DEF RowStatus
  <2> QED
    BY <2>4, <2>5 DEF NewSession, NewCapability
<1>4. ASSUME NEW r \in Reqs, CommitAccess(r) PROVE RowsMatch'
  BY <1>4 DEF CommitAccess, TouchSession
<1>5. ASSUME NEW r \in Reqs, CommitStatus(r) PROVE RowsMatch'
  BY <1>5 DEF CommitStatus, TouchSession
<1>6. ASSUME NEW r \in Reqs, CommitExpiry(r) \/ CommitLogout(r) PROVE RowsMatch'
  <2>1. req[r].pc # "idle" /\ ~Opening(r) /\ RevokeRows(req[r].token)
    BY <1>6 DEF CommitExpiry, CommitLogout, Holding, Waiting, Opening
  <2>2. sess[req[r].token].status # "absent"
    BY <2>1 DEF RequestsMatch
  <2> QED
    BY <2>1, <2>2 DEF RevokeRows, Revoked
<1>7. ASSUME NEW r \in Reqs, CommitLock(r) PROVE RowsMatch'
  BY <1>7 DEF CommitLock, Revoked, Holding, RequestsMatch, Opening
<1> QED
  BY <1>1, <1>2, <1>3, <1>4, <1>5, <1>6, <1>7, RowChanges

LEMMA EpochsStep == TypeOK /\ IInv /\ [Next]_vars => EpochsMatch'
<1> SUFFICES ASSUME TypeOK, IInv, [Next]_vars PROVE EpochsMatch'
  OBVIOUS
<1> USE DEF IInv, EpochsMatch
<1>1. ASSUME NEW r \in Reqs, StartUnlock(r) PROVE EpochsMatch'
  BY <1>1, RequestFields, QuietIs DEF StartUnlock, IsIdle, Fresh, Read, TypeOK, Requests, RequestsMatch
<1>2. ASSUME NEW r \in Reqs, WriteUnlock(r) PROVE EpochsMatch'
  BY <1>2, RequestFields, QuietIs DEF WriteUnlock, Waiting, Flushed, TypeOK, Requests, RequestsMatch
<1>3. ASSUME NEW r \in Reqs, CommitUnlock(r) PROVE EpochsMatch'
  BY <1>3, RequestFields, QuietIs DEF CommitUnlock, Holding, Done, NewSession, NewCapability, TypeOK, Requests, RequestsMatch
<1>4. ASSUME NEW r \in Reqs, StartReset(r) PROVE EpochsMatch'
  BY <1>4, RequestFields, QuietIs DEF StartReset, IsIdle, Fresh, Read, TypeOK, Requests, RequestsMatch
<1>5. ASSUME NEW r \in Reqs, WriteReset(r) PROVE EpochsMatch'
  BY <1>5, RequestFields, QuietIs DEF WriteReset, Waiting, Flushed, TypeOK, Requests, RequestsMatch
<1>6. ASSUME NEW r \in Reqs, CommitReset(r) PROVE EpochsMatch'
  BY <1>6, RequestFields, QuietIs DEF CommitReset, Holding, Done, NewSession, NewCapability, RevokeAll, Revoked, EpochAfterReset, TypeOK, Requests, RequestsMatch
<1>7. ASSUME NEW r \in Reqs, StartAccess(r) PROVE EpochsMatch'
  BY <1>7, RequestFields, QuietIs DEF StartAccess, IsIdle, Known, Resolves, Read, TypeOK, Requests, RequestsMatch
<1>8. ASSUME NEW r \in Reqs, RejectAccess(r) PROVE EpochsMatch'
  BY <1>8, RequestFields, QuietIs DEF RejectAccess, Known, ClearKey, TypeOK, Requests, RequestsMatch
<1>9. ASSUME NEW r \in Reqs, GrantAccess(r) PROVE EpochsMatch'
  BY <1>9, RequestFields, QuietIs DEF GrantAccess, Waiting, CapabilityActive, TypeOK, Requests, RequestsMatch
<1>10. ASSUME NEW r \in Reqs, RefuseAccess(r) PROVE EpochsMatch'
  BY <1>10, RequestFields, QuietIs DEF RefuseAccess, Waiting, ClearKey, Done, TypeOK, Requests, RequestsMatch
<1>11. ASSUME NEW r \in Reqs, CommitAccess(r) PROVE EpochsMatch'
  BY <1>11, RequestFields, QuietIs DEF CommitAccess, Holding, TouchSession, Done, Request, TypeOK, Requests, RequestsMatch
<1>12. ASSUME NEW r \in Reqs, FinishUncommitted(r) PROVE EpochsMatch'
  BY <1>12, RequestFields, QuietIs DEF FinishUncommitted, Holding, Done, TypeOK, Requests, RequestsMatch
<1>13. ASSUME NEW r \in Reqs, StartStatus(r) PROVE EpochsMatch'
  BY <1>13, RequestFields, QuietIs DEF StartStatus, IsIdle, Known, Read, ClearKey, TypeOK, Requests, RequestsMatch
<1>14. ASSUME NEW r \in Reqs, CommitStatus(r) PROVE EpochsMatch'
  BY <1>14, RequestFields, QuietIs DEF CommitStatus, Waiting, TouchSession, Done, TypeOK, Requests, RequestsMatch
<1>15. ASSUME NEW r \in Reqs, CommitExpiry(r) PROVE EpochsMatch'
  BY <1>15, RequestFields, QuietIs DEF CommitExpiry, Waiting, RevokeRows, Revoked, Done, TypeOK, Requests, RequestsMatch
<1>16. ASSUME NEW r \in Reqs, CommitLogout(r) PROVE EpochsMatch'
  BY <1>16, RequestFields, QuietIs DEF CommitLogout, Holding, RevokeRows, Revoked, Done, TypeOK, Requests, RequestsMatch
<1>17. ASSUME NEW r \in Reqs, CommitLock(r) PROVE EpochsMatch'
  BY <1>17, RequestFields, QuietIs DEF CommitLock, Holding, Revoked, Done, TypeOK, Requests, RequestsMatch
<1>18. ASSUME NEW r \in Reqs, Abort(r) PROVE EpochsMatch'
  BY <1>18, RequestFields, QuietIs DEF Abort, Done, TypeOK, Requests, RequestsMatch
<1>19. ASSUME NEW r \in Reqs, LockTimeout(r) PROVE EpochsMatch'
  BY <1>19, RequestFields, QuietIs DEF LockTimeout, Done, TypeOK, Requests, RequestsMatch
<1>20. ASSUME NEW r \in Reqs, NEW op \in {"logout", "lock"}, WriteLockOrLogout(r, op) PROVE EpochsMatch'
  BY <1>20, RequestFields, QuietIs DEF WriteLockOrLogout, IsIdle, Known, ClearKey, Request, TypeOK, Requests, RequestsMatch
<1>21. CASE Restart
  BY <1>21, RequestFields, QuietIs DEF Restart, TypeOK, Requests, RequestsMatch
<1>22. CASE BackgroundKeyLookup
  BY <1>22, RequestFields, QuietIs DEF BackgroundKeyLookup, TypeOK, Requests, RequestsMatch
<1>23. CASE Tick
  BY <1>23, RequestFields, QuietIs DEF Tick, TypeOK, Requests, RequestsMatch
<1>24. CASE UNCHANGED vars
  BY <1>24 DEF vars, TypeOK, Requests, RequestsMatch
<1>25. ASSUME NEW r \in Reqs, ResumeAccess(r) PROVE EpochsMatch'
  BY <1>25, RequestFields, QuietIs DEF ResumeAccess, Waiting, TypeOK, Requests, RequestsMatch
<1> QED
  BY <1>1, <1>2, <1>3, <1>4, <1>5, <1>6, <1>7, <1>8, <1>9, <1>10, <1>11, <1>12, <1>13, <1>14, <1>15, <1>16, <1>17, <1>18, <1>19, <1>20, <1>21, <1>22, <1>23, <1>24, <1>25 DEF Next, Arrive, Progress

LEMMA RequestsStep == OneResetter /\ TypeOK /\ IInv /\ [Next]_vars => RequestsMatch'
<1> SUFFICES ASSUME OneResetter, TypeOK, IInv, [Next]_vars PROVE RequestsMatch'
  OBVIOUS
<1> USE DEF IInv, RequestsMatch
<1>1. ASSUME NEW r \in Reqs, StartUnlock(r) PROVE RequestsMatch'
  BY <1>1, RequestFields, QuietIs, ReqsAssumption DEF StartUnlock, IsIdle, Fresh, Read, TypeOK, Requests, Sessions, Opening, RowsMatch
<1>2. ASSUME NEW r \in Reqs, WriteUnlock(r) PROVE RequestsMatch'
  BY <1>2, RequestFields, QuietIs, ReqsAssumption DEF WriteUnlock, Waiting, Flushed, TypeOK, Requests, Sessions, Opening, RowsMatch
<1>3. ASSUME NEW r \in Reqs, CommitUnlock(r) PROVE RequestsMatch'
  BY <1>3, RequestFields, QuietIs, ReqsAssumption DEF CommitUnlock, Holding, Done, NewSession, NewCapability, TypeOK, Requests, Sessions, Opening, RowsMatch
<1>4. ASSUME NEW r \in Reqs, StartReset(r) PROVE RequestsMatch'
  BY <1>4, RequestFields, QuietIs, ReqsAssumption DEF StartReset, IsIdle, Fresh, Read, TypeOK, Requests, Sessions, Opening, RowsMatch
<1>5. ASSUME NEW r \in Reqs, WriteReset(r) PROVE RequestsMatch'
  BY <1>5, RequestFields, QuietIs, ReqsAssumption DEF WriteReset, Waiting, Flushed, TypeOK, Requests, Sessions, Opening, RowsMatch
<1>6. ASSUME NEW r \in Reqs, CommitReset(r) PROVE RequestsMatch'
  <2>1. /\ req[r].pc = "written" /\ req[r].op = "reset" /\ writer = r /\ Opening(r)
        /\ writer' = NoReq /\ req' = [req EXCEPT ![r] = Quiet]
    BY <1>6 DEF CommitReset, Holding, Done, Opening
  <2>2. ASSUME NEW t \in Tokens
        PROVE  sess'[t].status = "absent" <=> sess[t].status = "absent" /\ t # req[r].token
    <3>1. CASE t = req[r].token
      BY <1>6, <3>1, RevokeAllType DEF CommitReset, NewSession, TypeOK
    <3>2. CASE t # req[r].token
      <4>1. sess'[t] = RevokeAll(sess)[t]
        BY <1>6, <3>2, RevokeAllType DEF CommitReset, TypeOK
      <4>2. Revoked(sess[t]).status = "revoked"
        BY DEF Revoked, TypeOK, Sessions
      <4> QED
        BY <3>2, <4>1, <4>2 DEF RevokeAll
    <3> QED
      BY <3>1, <3>2
  <2>3. ASSUME NEW q \in Reqs, q # r
        PROVE  req'[q] = req[q] /\ req[q].pc # "written" /\ ~(req[q].pc # "idle" /\ req[q].op = "reset")
    BY <2>1, <2>3 DEF OneResetter, TypeOK
  <2> QED
    BY <2>1, <2>2, <2>3, RequestFields, QuietIs, ReqsAssumption DEF Opening, TypeOK
<1>7. ASSUME NEW r \in Reqs, StartAccess(r) PROVE RequestsMatch'
  BY <1>7, RequestFields, QuietIs, ReqsAssumption DEF StartAccess, IsIdle, Known, Resolves, Read, TypeOK, Requests, Sessions, Opening, RowsMatch
<1>8. ASSUME NEW r \in Reqs, RejectAccess(r) PROVE RequestsMatch'
  BY <1>8, RequestFields, QuietIs, ReqsAssumption DEF RejectAccess, Known, ClearKey, TypeOK, Requests, Sessions, Opening, RowsMatch
<1>9. ASSUME NEW r \in Reqs, GrantAccess(r) PROVE RequestsMatch'
  BY <1>9, RequestFields, QuietIs, ReqsAssumption DEF GrantAccess, Waiting, CapabilityActive, TypeOK, Requests, Sessions, Opening, RowsMatch
<1>10. ASSUME NEW r \in Reqs, RefuseAccess(r) PROVE RequestsMatch'
  BY <1>10, RequestFields, QuietIs, ReqsAssumption DEF RefuseAccess, Waiting, ClearKey, Done, TypeOK, Requests, Sessions, Opening, RowsMatch
<1>11. ASSUME NEW r \in Reqs, CommitAccess(r) PROVE RequestsMatch'
  <2>1. /\ \A t \in Tokens : sess'[t].status = sess[t].status
        /\ user' = user
        /\ \A s \in Reqs : s # r => req'[s] = req[s]
    BY <1>11, QuietIs DEF CommitAccess, TouchSession, Done, TypeOK, Sessions
  <2>2. /\ req[r].op = "access" /\ writer = r /\ writer' = NoReq /\ NoReq \notin Reqs
        /\ sess[req[r].token].status # "absent"
    BY <1>11, ReqsAssumption DEF CommitAccess, Holding, Opening
  <2>3. \/ req'[r].pc = "idle"
        \/ req'[r].pc = "read" /\ req'[r].op = "tail" /\ req'[r].token = req[r].token
    BY <1>11, QuietIs DEF CommitAccess, Done, Request, TypeOK
  <2> QED
    BY <2>1, <2>2, <2>3, RequestFields DEF Opening
<1>12. ASSUME NEW r \in Reqs, FinishUncommitted(r) PROVE RequestsMatch'
  BY <1>12, RequestFields, QuietIs, ReqsAssumption DEF FinishUncommitted, Holding, Done, TypeOK, Requests, Sessions, Opening, RowsMatch
<1>13. ASSUME NEW r \in Reqs, StartStatus(r) PROVE RequestsMatch'
  <2>1. PICK t \in Tokens, op \in {"status", "expire"} : IsIdle(r) /\ Known(t) /\ Read(r, op, t, now)
    BY <1>13 DEF StartStatus
  <2>2. UNCHANGED <<user, sess, writer>>
    BY <1>13 DEF StartStatus
  <2> QED
    BY <2>1, <2>2, RequestFields, ReqsAssumption DEF IsIdle, Known, Read, TypeOK, Requests, Opening
<1>14. ASSUME NEW r \in Reqs, CommitStatus(r) PROVE RequestsMatch'
  BY <1>14, RequestFields, QuietIs, ReqsAssumption DEF CommitStatus, Waiting, TouchSession, Done, TypeOK, Requests, Sessions, Opening, RowsMatch
<1>15. ASSUME NEW r \in Reqs, CommitExpiry(r) PROVE RequestsMatch'
  BY <1>15, RequestFields, QuietIs, ReqsAssumption DEF CommitExpiry, Waiting, RevokeRows, Revoked, Done, TypeOK, Requests, Sessions, Opening, RowsMatch
<1>16. ASSUME NEW r \in Reqs, CommitLogout(r) PROVE RequestsMatch'
  BY <1>16, RequestFields, QuietIs, ReqsAssumption DEF CommitLogout, Holding, RevokeRows, Revoked, Done, TypeOK, Requests, Sessions, Opening, RowsMatch
<1>17. ASSUME NEW r \in Reqs, CommitLock(r) PROVE RequestsMatch'
  BY <1>17, RequestFields, QuietIs, ReqsAssumption DEF CommitLock, Holding, Revoked, Done, TypeOK, Requests, Sessions, Opening, RowsMatch
<1>18. ASSUME NEW r \in Reqs, Abort(r) PROVE RequestsMatch'
  BY <1>18, RequestFields, QuietIs, ReqsAssumption DEF Abort, Done, TypeOK, Requests, Sessions, Opening, RowsMatch
<1>19. ASSUME NEW r \in Reqs, LockTimeout(r) PROVE RequestsMatch'
  BY <1>19, RequestFields, QuietIs, ReqsAssumption DEF LockTimeout, Done, TypeOK, Requests, Sessions, Opening, RowsMatch
<1>20. ASSUME NEW r \in Reqs, NEW op \in {"logout", "lock"}, WriteLockOrLogout(r, op) PROVE RequestsMatch'
  BY <1>20, RequestFields, QuietIs, ReqsAssumption DEF WriteLockOrLogout, IsIdle, Known, ClearKey, Request, TypeOK, Requests, Sessions, Opening, RowsMatch
<1>21. CASE Restart
  BY <1>21, RequestFields, QuietIs, ReqsAssumption DEF Restart, TypeOK, Requests, Sessions, Opening, RowsMatch
<1>22. CASE BackgroundKeyLookup
  BY <1>22, RequestFields, QuietIs, ReqsAssumption DEF BackgroundKeyLookup, TypeOK, Requests, Sessions, Opening, RowsMatch
<1>23. CASE Tick
  BY <1>23, RequestFields, QuietIs, ReqsAssumption DEF Tick, TypeOK, Requests, Sessions, Opening, RowsMatch
<1>24. CASE UNCHANGED vars
  BY <1>24 DEF vars, TypeOK, Requests, Sessions, Opening, RowsMatch
<1>25. ASSUME NEW r \in Reqs, ResumeAccess(r) PROVE RequestsMatch'
  BY <1>25, RequestFields, QuietIs, ReqsAssumption DEF ResumeAccess, Waiting, TypeOK, Requests, Sessions, Opening, RowsMatch
<1> QED
  BY <1>1, <1>2, <1>3, <1>4, <1>5, <1>6, <1>7, <1>8, <1>9, <1>10, <1>11, <1>12, <1>13, <1>14, <1>15, <1>16, <1>17, <1>18, <1>19, <1>20, <1>21, <1>22, <1>23, <1>24, <1>25 DEF Next, Arrive, Progress

LEMMA GuardStep == TypeOK /\ IInv /\ [Next]_vars => GuardFresh'
<1> SUFFICES ASSUME TypeOK, IInv, [Next]_vars PROVE GuardFresh'
  OBVIOUS
<1> USE DEF IInv, GuardFresh
<1>1. ASSUME NEW r \in Reqs, StartUnlock(r) PROVE GuardFresh'
  BY <1>1, RequestFields, QuietIs, ReqsAssumption DEF StartUnlock, IsIdle, Fresh, Read, TypeOK, Requests, Sessions, Capabilities, Opening, RowsMatch, RequestsMatch
<1>2. ASSUME NEW r \in Reqs, WriteUnlock(r) PROVE GuardFresh'
  BY <1>2, RequestFields, QuietIs, ReqsAssumption DEF WriteUnlock, Waiting, Flushed, TypeOK, Requests, Sessions, Capabilities, Opening, RowsMatch, RequestsMatch
<1>3. ASSUME NEW r \in Reqs, CommitUnlock(r) PROVE GuardFresh'
  BY <1>3, RequestFields, QuietIs, ReqsAssumption DEF CommitUnlock, Holding, Done, NewSession, NewCapability, TypeOK, Requests, Sessions, Capabilities, Opening, RowsMatch, RequestsMatch
<1>4. ASSUME NEW r \in Reqs, StartReset(r) PROVE GuardFresh'
  BY <1>4, RequestFields, QuietIs, ReqsAssumption DEF StartReset, IsIdle, Fresh, Read, TypeOK, Requests, Sessions, Capabilities, Opening, RowsMatch, RequestsMatch
<1>5. ASSUME NEW r \in Reqs, WriteReset(r) PROVE GuardFresh'
  BY <1>5, RequestFields, QuietIs, ReqsAssumption DEF WriteReset, Waiting, Flushed, TypeOK, Requests, Sessions, Capabilities, Opening, RowsMatch, RequestsMatch
<1>6. ASSUME NEW r \in Reqs, CommitReset(r) PROVE GuardFresh'
  BY <1>6, RequestFields, QuietIs, ReqsAssumption DEF CommitReset, Holding, Done, NewSession, NewCapability, RevokeAll, Revoked, EpochAfterReset, TypeOK, Requests, Sessions, Capabilities, Opening, RowsMatch, RequestsMatch
<1>7. ASSUME NEW r \in Reqs, StartAccess(r) PROVE GuardFresh'
  BY <1>7, RequestFields, QuietIs, ReqsAssumption DEF StartAccess, IsIdle, Known, Resolves, Read, TypeOK, Requests, Sessions, Capabilities, Opening, RowsMatch, RequestsMatch
<1>8. ASSUME NEW r \in Reqs, RejectAccess(r) PROVE GuardFresh'
  BY <1>8, RequestFields, QuietIs, ReqsAssumption DEF RejectAccess, Known, ClearKey, TypeOK, Requests, Sessions, Capabilities, Opening, RowsMatch, RequestsMatch
<1>9. ASSUME NEW r \in Reqs, GrantAccess(r) PROVE GuardFresh'
  BY <1>9, RequestFields, QuietIs, ReqsAssumption DEF GrantAccess, Waiting, CapabilityActive, TypeOK, Requests, Sessions, Capabilities, Opening, RowsMatch, RequestsMatch
<1>10. ASSUME NEW r \in Reqs, RefuseAccess(r) PROVE GuardFresh'
  BY <1>10, RequestFields, QuietIs, ReqsAssumption DEF RefuseAccess, Waiting, ClearKey, Done, TypeOK, Requests, Sessions, Capabilities, Opening, RowsMatch, RequestsMatch
<1>11. ASSUME NEW r \in Reqs, CommitAccess(r) PROVE GuardFresh'
  BY <1>11, RequestFields, QuietIs, ReqsAssumption DEF CommitAccess, Holding, TouchSession, Done, Request, TypeOK, Requests, Sessions, Capabilities, Opening, RowsMatch, RequestsMatch
<1>12. ASSUME NEW r \in Reqs, FinishUncommitted(r) PROVE GuardFresh'
  BY <1>12, RequestFields, QuietIs, ReqsAssumption DEF FinishUncommitted, Holding, Done, TypeOK, Requests, Sessions, Capabilities, Opening, RowsMatch, RequestsMatch
<1>13. ASSUME NEW r \in Reqs, StartStatus(r) PROVE GuardFresh'
  BY <1>13, RequestFields, QuietIs, ReqsAssumption DEF StartStatus, IsIdle, Known, Read, ClearKey, TypeOK, Requests, Sessions, Capabilities, Opening, RowsMatch, RequestsMatch
<1>14. ASSUME NEW r \in Reqs, CommitStatus(r) PROVE GuardFresh'
  BY <1>14, RequestFields, QuietIs, ReqsAssumption DEF CommitStatus, Waiting, TouchSession, Done, TypeOK, Requests, Sessions, Capabilities, Opening, RowsMatch, RequestsMatch
<1>15. ASSUME NEW r \in Reqs, CommitExpiry(r) PROVE GuardFresh'
  BY <1>15, RequestFields, QuietIs, ReqsAssumption DEF CommitExpiry, Waiting, RevokeRows, Revoked, Done, TypeOK, Requests, Sessions, Capabilities, Opening, RowsMatch, RequestsMatch
<1>16. ASSUME NEW r \in Reqs, CommitLogout(r) PROVE GuardFresh'
  BY <1>16, RequestFields, QuietIs, ReqsAssumption DEF CommitLogout, Holding, RevokeRows, Revoked, Done, TypeOK, Requests, Sessions, Capabilities, Opening, RowsMatch, RequestsMatch
<1>17. ASSUME NEW r \in Reqs, CommitLock(r) PROVE GuardFresh'
  BY <1>17, RequestFields, QuietIs, ReqsAssumption DEF CommitLock, Holding, Revoked, Done, TypeOK, Requests, Sessions, Capabilities, Opening, RowsMatch, RequestsMatch
<1>18. ASSUME NEW r \in Reqs, Abort(r) PROVE GuardFresh'
  BY <1>18, RequestFields, QuietIs, ReqsAssumption DEF Abort, Done, TypeOK, Requests, Sessions, Capabilities, Opening, RowsMatch, RequestsMatch
<1>19. ASSUME NEW r \in Reqs, LockTimeout(r) PROVE GuardFresh'
  BY <1>19, RequestFields, QuietIs, ReqsAssumption DEF LockTimeout, Done, TypeOK, Requests, Sessions, Capabilities, Opening, RowsMatch, RequestsMatch
<1>20. ASSUME NEW r \in Reqs, NEW op \in {"logout", "lock"}, WriteLockOrLogout(r, op) PROVE GuardFresh'
  BY <1>20, RequestFields, QuietIs, ReqsAssumption DEF WriteLockOrLogout, IsIdle, Known, ClearKey, Request, TypeOK, Requests, Sessions, Capabilities, Opening, RowsMatch, RequestsMatch
<1>21. CASE Restart
  BY <1>21, RequestFields, QuietIs, ReqsAssumption DEF Restart, TypeOK, Requests, Sessions, Capabilities, Opening, RowsMatch, RequestsMatch
<1>22. CASE BackgroundKeyLookup
  BY <1>22, RequestFields, QuietIs, ReqsAssumption DEF BackgroundKeyLookup, TypeOK, Requests, Sessions, Capabilities, Opening, RowsMatch, RequestsMatch
<1>23. CASE Tick
  BY <1>23, RequestFields, QuietIs, ReqsAssumption DEF Tick, TypeOK, Requests, Sessions, Capabilities, Opening, RowsMatch, RequestsMatch
<1>24. CASE UNCHANGED vars
  BY <1>24 DEF vars, TypeOK, Requests, Sessions, Capabilities, Opening, RowsMatch, RequestsMatch
<1>25. ASSUME NEW r \in Reqs, ResumeAccess(r) PROVE GuardFresh'
  BY <1>25, RequestFields, QuietIs, ReqsAssumption DEF ResumeAccess, Waiting, TypeOK, Requests, Sessions, Capabilities, Opening, RowsMatch, RequestsMatch
<1> QED
  BY <1>1, <1>2, <1>3, <1>4, <1>5, <1>6, <1>7, <1>8, <1>9, <1>10, <1>11, <1>12, <1>13, <1>14, <1>15, <1>16, <1>17, <1>18, <1>19, <1>20, <1>21, <1>22, <1>23, <1>24, <1>25 DEF Next, Arrive, Progress

LEMMA KeysStep == TypeOK /\ IInv /\ [Next]_vars => KeysCleared'
<1> SUFFICES ASSUME TypeOK, IInv, [Next]_vars PROVE KeysCleared'
  OBVIOUS
<1> USE DEF IInv, KeysCleared
<1>1. ASSUME NEW r \in Reqs, StartUnlock(r) PROVE KeysCleared'
  BY <1>1, RequestFields, QuietIs, ReqsAssumption DEF StartUnlock, IsIdle, Fresh, Read, TypeOK, Requests, Opening, RequestsMatch, RowsMatch
<1>2. ASSUME NEW r \in Reqs, WriteUnlock(r) PROVE KeysCleared'
  BY <1>2, RequestFields, QuietIs, ReqsAssumption DEF WriteUnlock, Waiting, Flushed, TypeOK, Requests, Opening, RequestsMatch, RowsMatch
<1>3. ASSUME NEW r \in Reqs, CommitUnlock(r) PROVE KeysCleared'
  BY <1>3, RequestFields, QuietIs, ReqsAssumption DEF CommitUnlock, Holding, Done, NewSession, NewCapability, TypeOK, Requests, Opening, RequestsMatch, RowsMatch
<1>4. ASSUME NEW r \in Reqs, StartReset(r) PROVE KeysCleared'
  BY <1>4, RequestFields, QuietIs, ReqsAssumption DEF StartReset, IsIdle, Fresh, Read, TypeOK, Requests, Opening, RequestsMatch, RowsMatch
<1>5. ASSUME NEW r \in Reqs, WriteReset(r) PROVE KeysCleared'
  BY <1>5, RequestFields, QuietIs, ReqsAssumption DEF WriteReset, Waiting, Flushed, TypeOK, Requests, Opening, RequestsMatch, RowsMatch
<1>6. ASSUME NEW r \in Reqs, CommitReset(r) PROVE KeysCleared'
  BY <1>6, RequestFields, QuietIs, ReqsAssumption DEF CommitReset, Holding, Done, NewSession, NewCapability, RevokeAll, Revoked, EpochAfterReset, TypeOK, Requests, Opening, RequestsMatch, RowsMatch
<1>7. ASSUME NEW r \in Reqs, StartAccess(r) PROVE KeysCleared'
  BY <1>7, RequestFields, QuietIs, ReqsAssumption DEF StartAccess, IsIdle, Known, Resolves, Read, TypeOK, Requests, Opening, RequestsMatch, RowsMatch
<1>8. ASSUME NEW r \in Reqs, RejectAccess(r) PROVE KeysCleared'
  BY <1>8, RequestFields, QuietIs, ReqsAssumption DEF RejectAccess, Known, ClearKey, TypeOK, Requests, Opening, RequestsMatch, RowsMatch
<1>9. ASSUME NEW r \in Reqs, GrantAccess(r) PROVE KeysCleared'
  BY <1>9, RequestFields, QuietIs, ReqsAssumption DEF GrantAccess, Waiting, CapabilityActive, TypeOK, Requests, Opening, RequestsMatch, RowsMatch
<1>10. ASSUME NEW r \in Reqs, RefuseAccess(r) PROVE KeysCleared'
  BY <1>10, RequestFields, QuietIs, ReqsAssumption DEF RefuseAccess, Waiting, ClearKey, Done, TypeOK, Requests, Opening, RequestsMatch, RowsMatch
<1>11. ASSUME NEW r \in Reqs, CommitAccess(r) PROVE KeysCleared'
  BY <1>11, RequestFields, QuietIs, ReqsAssumption DEF CommitAccess, Holding, TouchSession, Done, Request, TypeOK, Requests, Opening, RequestsMatch, RowsMatch
<1>12. ASSUME NEW r \in Reqs, FinishUncommitted(r) PROVE KeysCleared'
  BY <1>12, RequestFields, QuietIs, ReqsAssumption DEF FinishUncommitted, Holding, Done, TypeOK, Requests, Opening, RequestsMatch, RowsMatch
<1>13. ASSUME NEW r \in Reqs, StartStatus(r) PROVE KeysCleared'
  BY <1>13, RequestFields, QuietIs, ReqsAssumption DEF StartStatus, IsIdle, Known, Read, ClearKey, TypeOK, Requests, Opening, RequestsMatch, RowsMatch
<1>14. ASSUME NEW r \in Reqs, CommitStatus(r) PROVE KeysCleared'
  BY <1>14, RequestFields, QuietIs, ReqsAssumption DEF CommitStatus, Waiting, TouchSession, Done, TypeOK, Requests, Opening, RequestsMatch, RowsMatch
<1>15. ASSUME NEW r \in Reqs, CommitExpiry(r) PROVE KeysCleared'
  BY <1>15, RequestFields, QuietIs, ReqsAssumption DEF CommitExpiry, Waiting, RevokeRows, Revoked, Done, TypeOK, Requests, Opening, RequestsMatch, RowsMatch
<1>16. ASSUME NEW r \in Reqs, CommitLogout(r) PROVE KeysCleared'
  BY <1>16, RequestFields, QuietIs, ReqsAssumption DEF CommitLogout, Holding, RevokeRows, Revoked, Done, TypeOK, Requests, Opening, RequestsMatch, RowsMatch
<1>17. ASSUME NEW r \in Reqs, CommitLock(r) PROVE KeysCleared'
  BY <1>17, RequestFields, QuietIs, ReqsAssumption DEF CommitLock, Holding, Revoked, Done, TypeOK, Requests, Opening, RequestsMatch, RowsMatch
<1>18. ASSUME NEW r \in Reqs, Abort(r) PROVE KeysCleared'
  BY <1>18, RequestFields, QuietIs, ReqsAssumption DEF Abort, Done, TypeOK, Requests, Opening, RequestsMatch, RowsMatch
<1>19. ASSUME NEW r \in Reqs, LockTimeout(r) PROVE KeysCleared'
  BY <1>19, RequestFields, QuietIs, ReqsAssumption DEF LockTimeout, Done, TypeOK, Requests, Opening, RequestsMatch, RowsMatch
<1>20. ASSUME NEW r \in Reqs, NEW op \in {"logout", "lock"}, WriteLockOrLogout(r, op) PROVE KeysCleared'
  BY <1>20, RequestFields, QuietIs, ReqsAssumption DEF WriteLockOrLogout, IsIdle, Known, ClearKey, Request, TypeOK, Requests, Opening, RequestsMatch, RowsMatch
<1>21. CASE Restart
  BY <1>21, RequestFields, QuietIs, ReqsAssumption DEF Restart, TypeOK, Requests, Opening, RequestsMatch, RowsMatch
<1>22. CASE BackgroundKeyLookup
  BY <1>22, RequestFields, QuietIs, ReqsAssumption DEF BackgroundKeyLookup, TypeOK, Requests, Opening, RequestsMatch, RowsMatch
<1>23. CASE Tick
  BY <1>23, RequestFields, QuietIs, ReqsAssumption DEF Tick, TypeOK, Requests, Opening, RequestsMatch, RowsMatch
<1>24. CASE UNCHANGED vars
  BY <1>24 DEF vars, TypeOK, Requests, Opening, RequestsMatch, RowsMatch
<1>25. ASSUME NEW r \in Reqs, ResumeAccess(r) PROVE KeysCleared'
  BY <1>25, RequestFields, QuietIs, ReqsAssumption DEF ResumeAccess, Waiting, TypeOK, Requests, Opening, RequestsMatch, RowsMatch
<1> QED
  BY <1>1, <1>2, <1>3, <1>4, <1>5, <1>6, <1>7, <1>8, <1>9, <1>10, <1>11, <1>12, <1>13, <1>14, <1>15, <1>16, <1>17, <1>18, <1>19, <1>20, <1>21, <1>22, <1>23, <1>24, <1>25 DEF Next, Arrive, Progress

LEMMA RevokedStep == TypeOK /\ IInv /\ [Next]_vars => RevokedKeyGone'
<1> SUFFICES ASSUME TypeOK, IInv, [Next]_vars PROVE RevokedKeyGone'
  OBVIOUS
<1> USE DEF IInv, RevokedKeyGone
<1>1. ASSUME NEW r \in Reqs, StartUnlock(r) PROVE RevokedKeyGone'
  BY <1>1, RequestFields, QuietIs, ReqsAssumption DEF StartUnlock, IsIdle, Fresh, Read, TypeOK, Requests, Capabilities, Opening, KeysCleared, RequestsMatch, RowsMatch
<1>2. ASSUME NEW r \in Reqs, WriteUnlock(r) PROVE RevokedKeyGone'
  BY <1>2, RequestFields, QuietIs, ReqsAssumption DEF WriteUnlock, Waiting, Flushed, TypeOK, Requests, Capabilities, Opening, KeysCleared, RequestsMatch, RowsMatch
<1>3. ASSUME NEW r \in Reqs, CommitUnlock(r) PROVE RevokedKeyGone'
  BY <1>3, RequestFields, QuietIs, ReqsAssumption DEF CommitUnlock, Holding, Done, NewSession, NewCapability, TypeOK, Requests, Capabilities, Opening, KeysCleared, RequestsMatch, RowsMatch
<1>4. ASSUME NEW r \in Reqs, StartReset(r) PROVE RevokedKeyGone'
  BY <1>4, RequestFields, QuietIs, ReqsAssumption DEF StartReset, IsIdle, Fresh, Read, TypeOK, Requests, Capabilities, Opening, KeysCleared, RequestsMatch, RowsMatch
<1>5. ASSUME NEW r \in Reqs, WriteReset(r) PROVE RevokedKeyGone'
  BY <1>5, RequestFields, QuietIs, ReqsAssumption DEF WriteReset, Waiting, Flushed, TypeOK, Requests, Capabilities, Opening, KeysCleared, RequestsMatch, RowsMatch
<1>6. ASSUME NEW r \in Reqs, CommitReset(r) PROVE RevokedKeyGone'
  BY <1>6, RequestFields, QuietIs, ReqsAssumption DEF CommitReset, Holding, Done, NewSession, NewCapability, RevokeAll, Revoked, EpochAfterReset, TypeOK, Requests, Capabilities, Opening, KeysCleared, RequestsMatch, RowsMatch
<1>7. ASSUME NEW r \in Reqs, StartAccess(r) PROVE RevokedKeyGone'
  BY <1>7, RequestFields, QuietIs, ReqsAssumption DEF StartAccess, IsIdle, Known, Resolves, Read, TypeOK, Requests, Capabilities, Opening, KeysCleared, RequestsMatch, RowsMatch
<1>8. ASSUME NEW r \in Reqs, RejectAccess(r) PROVE RevokedKeyGone'
  BY <1>8, RequestFields, QuietIs, ReqsAssumption DEF RejectAccess, Known, ClearKey, TypeOK, Requests, Capabilities, Opening, KeysCleared, RequestsMatch, RowsMatch
<1>9. ASSUME NEW r \in Reqs, GrantAccess(r) PROVE RevokedKeyGone'
  BY <1>9, RequestFields, QuietIs, ReqsAssumption DEF GrantAccess, Waiting, CapabilityActive, TypeOK, Requests, Capabilities, Opening, KeysCleared, RequestsMatch, RowsMatch
<1>10. ASSUME NEW r \in Reqs, RefuseAccess(r) PROVE RevokedKeyGone'
  BY <1>10, RequestFields, QuietIs, ReqsAssumption DEF RefuseAccess, Waiting, ClearKey, Done, TypeOK, Requests, Capabilities, Opening, KeysCleared, RequestsMatch, RowsMatch
<1>11. ASSUME NEW r \in Reqs, CommitAccess(r) PROVE RevokedKeyGone'
  BY <1>11, RequestFields, QuietIs, ReqsAssumption DEF CommitAccess, Holding, TouchSession, Done, Request, TypeOK, Requests, Capabilities, Opening, KeysCleared, RequestsMatch, RowsMatch
<1>12. ASSUME NEW r \in Reqs, FinishUncommitted(r) PROVE RevokedKeyGone'
  BY <1>12, RequestFields, QuietIs, ReqsAssumption DEF FinishUncommitted, Holding, Done, TypeOK, Requests, Capabilities, Opening, KeysCleared, RequestsMatch, RowsMatch
<1>13. ASSUME NEW r \in Reqs, StartStatus(r) PROVE RevokedKeyGone'
  BY <1>13, RequestFields, QuietIs, ReqsAssumption DEF StartStatus, IsIdle, Known, Read, ClearKey, TypeOK, Requests, Capabilities, Opening, KeysCleared, RequestsMatch, RowsMatch
<1>14. ASSUME NEW r \in Reqs, CommitStatus(r) PROVE RevokedKeyGone'
  BY <1>14, RequestFields, QuietIs, ReqsAssumption DEF CommitStatus, Waiting, TouchSession, Done, TypeOK, Requests, Capabilities, Opening, KeysCleared, RequestsMatch, RowsMatch
<1>15. ASSUME NEW r \in Reqs, CommitExpiry(r) PROVE RevokedKeyGone'
  BY <1>15, RequestFields, QuietIs, ReqsAssumption DEF CommitExpiry, Waiting, RevokeRows, Revoked, Done, TypeOK, Requests, Capabilities, Opening, KeysCleared, RequestsMatch, RowsMatch
<1>16. ASSUME NEW r \in Reqs, CommitLogout(r) PROVE RevokedKeyGone'
  BY <1>16, RequestFields, QuietIs, ReqsAssumption DEF CommitLogout, Holding, RevokeRows, Revoked, Done, TypeOK, Requests, Capabilities, Opening, KeysCleared, RequestsMatch, RowsMatch
<1>17. ASSUME NEW r \in Reqs, CommitLock(r) PROVE RevokedKeyGone'
  BY <1>17, RequestFields, QuietIs, ReqsAssumption DEF CommitLock, Holding, Revoked, Done, TypeOK, Requests, Capabilities, Opening, KeysCleared, RequestsMatch, RowsMatch
<1>18. ASSUME NEW r \in Reqs, Abort(r) PROVE RevokedKeyGone'
  BY <1>18, RequestFields, QuietIs, ReqsAssumption DEF Abort, Done, TypeOK, Requests, Capabilities, Opening, KeysCleared, RequestsMatch, RowsMatch
<1>19. ASSUME NEW r \in Reqs, LockTimeout(r) PROVE RevokedKeyGone'
  BY <1>19, RequestFields, QuietIs, ReqsAssumption DEF LockTimeout, Done, TypeOK, Requests, Capabilities, Opening, KeysCleared, RequestsMatch, RowsMatch
<1>20. ASSUME NEW r \in Reqs, NEW op \in {"logout", "lock"}, WriteLockOrLogout(r, op) PROVE RevokedKeyGone'
  BY <1>20, RequestFields, QuietIs, ReqsAssumption DEF WriteLockOrLogout, IsIdle, Known, ClearKey, Request, TypeOK, Requests, Capabilities, Opening, KeysCleared, RequestsMatch, RowsMatch
<1>21. CASE Restart
  BY <1>21, RequestFields, QuietIs, ReqsAssumption DEF Restart, TypeOK, Requests, Capabilities, Opening, KeysCleared, RequestsMatch, RowsMatch
<1>22. CASE BackgroundKeyLookup
  BY <1>22, RequestFields, QuietIs, ReqsAssumption DEF BackgroundKeyLookup, TypeOK, Requests, Capabilities, Opening, KeysCleared, RequestsMatch, RowsMatch
<1>23. CASE Tick
  BY <1>23, RequestFields, QuietIs, ReqsAssumption DEF Tick, TypeOK, Requests, Capabilities, Opening, KeysCleared, RequestsMatch, RowsMatch
<1>24. CASE UNCHANGED vars
  BY <1>24 DEF vars, TypeOK, Requests, Capabilities, Opening, KeysCleared, RequestsMatch, RowsMatch
<1>25. ASSUME NEW r \in Reqs, ResumeAccess(r) PROVE RevokedKeyGone'
  BY <1>25, RequestFields, QuietIs, ReqsAssumption DEF ResumeAccess, Waiting, TypeOK, Requests, Capabilities, Opening, KeysCleared, RequestsMatch, RowsMatch
<1> QED
  BY <1>1, <1>2, <1>3, <1>4, <1>5, <1>6, <1>7, <1>8, <1>9, <1>10, <1>11, <1>12, <1>13, <1>14, <1>15, <1>16, <1>17, <1>18, <1>19, <1>20, <1>21, <1>22, <1>23, <1>24, <1>25 DEF Next, Arrive, Progress

LEMMA InvStep == OneResetter /\ TypeOK /\ IInv /\ [Next]_vars => IInv'
  BY RowsStep, EpochsStep, RequestsStep, GuardStep, KeysStep, RevokedStep DEF IInv

-----------------------------------------------------------------------------
(* Safety *)

LEMMA InvGrant == TypeOK /\ IInv => GrantSound
<1> SUFFICES ASSUME TypeOK, IInv, NEW r \in Reqs, Granted(r)
             PROVE  LET t == req[r].token IN
                    /\ sess[t].status = "live" /\ cap[t].status = "live"
                    /\ sess[t].epoch = user.epoch /\ sess[t].pw = user.pw
  BY DEF GrantSound
<1>1. req[r].token \in Tokens /\ req[r].pc = "written" /\ req[r].op = "access"
  BY RequestFields DEF Granted
<1>2. cap[req[r].token].status = "live" /\ sess[req[r].token].epoch = user.epoch
  BY <1>1 DEF IInv, GuardFresh
<1>3. sess[req[r].token].status = "live"
  BY <1>1, <1>2 DEF IInv, RowsMatch, TypeOK, Sessions, RowStatus
<1> QED
  BY <1>1, <1>2, <1>3 DEF IInv, RowsMatch, EpochsMatch

LEMMA InvAlways == OneResetter => (Spec => [](TypeOK /\ IInv))
<1> SUFFICES ASSUME OneResetter PROVE Spec => [](TypeOK /\ IInv)
  OBVIOUS
<1>1. Init => TypeOK /\ IInv
  BY InitType, InvInit
<1>2. TypeOK /\ IInv /\ [Next]_vars => TypeOK' /\ IInv'
  BY TypeStep, InvStep
<1> QED
  BY <1>1, <1>2, PTL DEF Spec

\* No interleaving of unlocks, resets, locks and restarts lets a sensitive
\* route run on a session that is closed, locked, of an older epoch or opened
\* with a password that has been replaced, provided resets do not overlap.
THEOREM GrantSoundAlways == OneResetter => (Spec => []GrantSound)
<1> SUFFICES ASSUME OneResetter PROVE Spec => []GrantSound
  OBVIOUS
<1> QED
  BY InvAlways, InvGrant, PTL

\* A revoked capability's key is never in the cache again, provided resets do
\* not overlap.
THEOREM RevokedKeyGoneAlways == OneResetter => (Spec => []RevokedKeyGone)
<1> SUFFICES ASSUME OneResetter PROVE Spec => []RevokedKeyGone
  OBVIOUS
<1>1. TypeOK /\ IInv => RevokedKeyGone
  BY DEF IInv
<1> QED
  BY <1>1, InvAlways, PTL

-----------------------------------------------------------------------------
(* Lifetimes and revocations *)

\* No key outlives the session it was cached for: the one that is cached before
\* its session is committed carries the time that session will be opened at.
KeysWithinLifetime ==
    /\ \A t \in Tokens : sess[t].status # "absent" => keyExp[t] <= sess[t].opened + AbsoluteTimeout
    /\ \A r \in Reqs : req[r].pc = "written" /\ Opening(r) => keyExp[req[r].token] <= req[r].at + AbsoluteTimeout

LEMMA LifetimeInit == Init => KeysWithinLifetime
<1> SUFFICES ASSUME Init PROVE KeysWithinLifetime
  OBVIOUS
<1>1. \A r \in Reqs : req[r].pc = "idle"
  BY DEF Init, Quiet, Request
<1>2. \A t \in Tokens : sess[t].status # "absent" => keyExp[t] = 1 + AbsoluteTimeout /\ sess[t].opened = 1
  BY DEF Init, NewSession, AbsentSession
<1> QED
  BY <1>1, <1>2, TimeAssumption DEF KeysWithinLifetime

LEMMA LifetimeStep == TypeOK /\ IInv /\ KeysWithinLifetime /\ [Next]_vars => KeysWithinLifetime'
<1> SUFFICES ASSUME TypeOK, IInv, KeysWithinLifetime, [Next]_vars PROVE KeysWithinLifetime'
  OBVIOUS
<1> USE RequestFields, QuietIs, TimeAssumption
    DEF KeysWithinLifetime, IInv, RequestsMatch, Opening, TypeOK, Requests, Sessions
<1>1. ASSUME NEW r \in Reqs, StartUnlock(r) PROVE KeysWithinLifetime'
  BY <1>1 DEF StartUnlock, IsIdle, Fresh, Read
<1>2. ASSUME NEW r \in Reqs, WriteUnlock(r) PROVE KeysWithinLifetime'
  BY <1>2 DEF WriteUnlock, Waiting, Flushed
<1>3. ASSUME NEW r \in Reqs, CommitUnlock(r) PROVE KeysWithinLifetime'
  BY <1>3 DEF CommitUnlock, Holding, Done, NewSession
<1>4. ASSUME NEW r \in Reqs, StartReset(r) PROVE KeysWithinLifetime'
  BY <1>4 DEF StartReset, IsIdle, Fresh, Read
<1>5. ASSUME NEW r \in Reqs, WriteReset(r) PROVE KeysWithinLifetime'
  BY <1>5 DEF WriteReset, Waiting, Flushed
<1>6. ASSUME NEW r \in Reqs, CommitReset(r) PROVE KeysWithinLifetime'
  <2>1. \A s \in Reqs : req'[s].pc # "written"
    BY <1>6, ReqsAssumption DEF CommitReset, Holding, Done
  <2>2. sess'[req[r].token].opened = req[r].at
    BY <1>6, RevokeAllType DEF CommitReset, NewSession
  <2>3. ASSUME NEW t \in Tokens, t # req[r].token
        PROVE  (sess'[t].status # "absent" => sess[t].status # "absent") /\ sess'[t].opened = sess[t].opened
    <3>1. sess'[t] = IF sess[t].status = "live" THEN Revoked(sess[t]) ELSE sess[t]
      BY <1>6, <2>3 DEF CommitReset, RevokeAll
    <3>2. Revoked(sess[t]).opened = sess[t].opened
      BY DEF Revoked
    <3> QED
      BY <3>1, <3>2
  <2> QED
    BY <1>6, <2>1, <2>2, <2>3 DEF CommitReset, Holding
<1>7. ASSUME NEW r \in Reqs, StartAccess(r) PROVE KeysWithinLifetime'
  BY <1>7 DEF StartAccess, IsIdle, Known, Read
<1>8. ASSUME NEW r \in Reqs, RejectAccess(r) PROVE KeysWithinLifetime'
  BY <1>8 DEF RejectAccess, ClearKey
<1>9. ASSUME NEW r \in Reqs, GrantAccess(r) PROVE KeysWithinLifetime'
  BY <1>9 DEF GrantAccess, Waiting
<1>10. ASSUME NEW r \in Reqs, RefuseAccess(r) PROVE KeysWithinLifetime'
  BY <1>10 DEF RefuseAccess, ClearKey, Done
<1>11. ASSUME NEW r \in Reqs, CommitAccess(r) PROVE KeysWithinLifetime'
  BY <1>11 DEF CommitAccess, Holding, TouchSession, Done, Request
<1>12. ASSUME NEW r \in Reqs, FinishUncommitted(r) PROVE KeysWithinLifetime'
  BY <1>12 DEF FinishUncommitted, Done
<1>13. ASSUME NEW r \in Reqs, StartStatus(r) PROVE KeysWithinLifetime'
  <2>1. PICK t \in Tokens, op \in {"status", "expire"} : Read(r, op, t, now) /\ (ClearKey(t) \/ UNCHANGED keyExp)
    BY <1>13 DEF StartStatus
  <2>2. \A s \in Reqs : req'[s].pc = "written" => req'[s] = req[s]
    BY <2>1 DEF Read
  <2>3. \A u \in Tokens : keyExp'[u] \in {keyExp[u], NoKey}
    BY <2>1 DEF ClearKey
  <2> QED
    BY <1>13, <2>2, <2>3 DEF StartStatus
<1>14. ASSUME NEW r \in Reqs, CommitStatus(r) PROVE KeysWithinLifetime'
  BY <1>14 DEF CommitStatus, Waiting, TouchSession, Done
<1>15. ASSUME NEW r \in Reqs, CommitExpiry(r) PROVE KeysWithinLifetime'
  BY <1>15 DEF CommitExpiry, Waiting, RevokeRows, Revoked, Done
<1>16. ASSUME NEW r \in Reqs, CommitLogout(r) PROVE KeysWithinLifetime'
  BY <1>16 DEF CommitLogout, Holding, RevokeRows, Revoked, Done
<1>17. ASSUME NEW r \in Reqs, CommitLock(r) PROVE KeysWithinLifetime'
  BY <1>17 DEF CommitLock, Done
<1>18. ASSUME NEW r \in Reqs, Abort(r) PROVE KeysWithinLifetime'
  BY <1>18 DEF Abort, Done
<1>19. ASSUME NEW r \in Reqs, LockTimeout(r) PROVE KeysWithinLifetime'
  BY <1>19 DEF LockTimeout, Done
<1>20. ASSUME NEW r \in Reqs, NEW op \in {"logout", "lock"}, WriteLockOrLogout(r, op) PROVE KeysWithinLifetime'
  BY <1>20 DEF WriteLockOrLogout, ClearKey, Request
<1>21. CASE Restart
  BY <1>21 DEF Restart
<1>22. CASE BackgroundKeyLookup
  BY <1>22 DEF BackgroundKeyLookup
<1>23. CASE Tick
  BY <1>23 DEF Tick
<1>24. CASE UNCHANGED vars
  BY <1>24 DEF vars
<1>25. ASSUME NEW r \in Reqs, ResumeAccess(r) PROVE KeysWithinLifetime'
  BY <1>25 DEF ResumeAccess, Waiting
<1> QED
  BY <1>1, <1>2, <1>3, <1>4, <1>5, <1>6, <1>7, <1>8, <1>9, <1>10, <1>11, <1>12, <1>13, <1>14, <1>15, <1>16, <1>17, <1>18, <1>19, <1>20, <1>21, <1>22, <1>23, <1>24, <1>25 DEF Next, Arrive, Progress

\* Nothing is admitted past the absolute timeout of its session, provided resets
\* do not overlap: the guard asks for a key, and no key lives longer.
THEOREM GrantWithinLifetimeAlways == OneResetter => (Spec => GrantWithinLifetime)
<1> SUFFICES ASSUME OneResetter PROVE Spec => GrantWithinLifetime
  OBVIOUS
<1>1. TypeOK /\ IInv /\ KeysWithinLifetime /\ [Next]_vars =>
        [\A r \in Reqs : Granted(r)' /\ ~Granted(r) =>
            now < sess[req[r].token].opened + AbsoluteTimeout]_vars
  <2> SUFFICES ASSUME TypeOK, IInv, KeysWithinLifetime, [Next]_vars, NEW r \in Reqs, Granted(r)', ~Granted(r)
               PROVE  now < sess[req[r].token].opened + AbsoluteTimeout
    OBVIOUS
  <2>1. GrantAccess(r)
    <3> USE DEF Granted
    <3>1. req' # req
      OBVIOUS
    <3>2. req'[r].op = "access" /\ req'[r].pc = "written"
      OBVIOUS
    <3>3. ASSUME NEW s \in Reqs, NEW op \in Ops, NEW t \in Tokens, Read(s, op, t, now) PROVE FALSE
      BY <3>2, <3>3 DEF Read, TypeOK
    <3>4. ASSUME NEW s \in Reqs, Done(s) PROVE FALSE
      BY <3>2, <3>4, QuietIs DEF Done, TypeOK
    <3>5. ASSUME NEW s \in Reqs, WriteUnlock(s) \/ WriteReset(s) PROVE FALSE
      <4>1. req[s].op \in {"unlock", "reset"} /\ Flushed(s)
        BY <3>5 DEF WriteUnlock, WriteReset, Waiting
      <4>2. r # s => req'[r] = req[r]
        BY <4>1 DEF Flushed, TypeOK
      <4>3. req'[s].op = req[s].op
        BY <4>1 DEF Flushed, TypeOK, Requests
      <4> QED
        BY <3>2, <4>1, <4>2, <4>3
    <3>6. ASSUME NEW s \in Reqs, NEW op \in {"logout", "lock"}, WriteLockOrLogout(s, op) PROVE FALSE
      BY <3>2, <3>6 DEF WriteLockOrLogout, Request, TypeOK, Requests
    <3>7. ASSUME NEW s \in Reqs, GrantAccess(s) PROVE s = r
      BY <3>2, <3>7 DEF GrantAccess, TypeOK
    <3>8. ASSUME NEW s \in Reqs, StartUnlock(s) \/ StartReset(s) \/ StartAccess(s) \/ StartStatus(s) PROVE FALSE
      BY <3>3, <3>8 DEF StartUnlock, StartReset, StartAccess, StartStatus, Ops
    <3>9. ASSUME NEW s \in Reqs, ResumeAccess(s) PROVE FALSE
      BY <3>2, <3>9 DEF ResumeAccess, Waiting, TypeOK, Requests
    <3>10. ASSUME NEW s \in Reqs, CommitAccess(s) PROVE FALSE
      BY <3>2, <3>4, <3>10 DEF CommitAccess, Request, TypeOK, Requests
    <3>11. ~Restart
      BY <3>2, QuietIs DEF Restart
    <3> QED
      BY <3>1, <3>4, <3>5, <3>6, <3>7, <3>8, <3>9, <3>10, <3>11
      DEF Next, Arrive, Progress, vars, CommitUnlock, CommitReset, RejectAccess, RefuseAccess,
          FinishUncommitted, CommitStatus, CommitExpiry, CommitLogout, CommitLock, Abort, LockTimeout,
          BackgroundKeyLookup, Tick
  <2>2. sess[req[r].token].status # "absent" /\ keyExp[req[r].token] > now
    BY <2>1 DEF GrantAccess, Waiting, KeyUsable, IInv, RequestsMatch, Opening
  <2> QED
    BY <2>2, RequestFields, TimeAssumption DEF KeysWithinLifetime, TypeOK, Sessions
<1>2. Init => KeysWithinLifetime
  BY LifetimeInit
<1>3. TypeOK /\ IInv /\ KeysWithinLifetime /\ [Next]_vars => KeysWithinLifetime'
  BY LifetimeStep
<1> QED
  BY <1>1, <1>2, <1>3, InvAlways, PTL DEF Spec, GrantWithinLifetime

\* A revoked session or capability stays revoked, provided resets do not overlap:
\* what is written back of a row is never its status, and new rows have new tokens.
THEOREM RevocationIsFinalAlways == OneResetter => (Spec => RevocationIsFinal)
<1> SUFFICES ASSUME OneResetter PROVE Spec => RevocationIsFinal
  OBVIOUS
<1> DEFINE Final == \A t \in Tokens :
        /\ sess[t].status = "revoked" => sess'[t].status = "revoked"
        /\ cap[t].status = "revoked" => cap'[t].status = "revoked"
<1>1. TypeOK /\ IInv /\ [Next]_vars => [Final]_vars
  <2> SUFFICES ASSUME TypeOK, IInv, [Next]_vars PROVE Final
    OBVIOUS
  <2> USE RequestFields DEF TypeOK, Sessions, Capabilities
  <2>1. CASE UNCHANGED <<sess, cap>>
    BY <2>1
  <2>2. ASSUME NEW r \in Reqs, CommitUnlock(r) PROVE Final
    <3>1. sess[req[r].token].status = "absent" /\ cap[req[r].token].status = "absent"
      BY <2>2 DEF CommitUnlock, Holding, IInv, RequestsMatch, RowsMatch, Opening
    <3> QED
      BY <2>2, <3>1 DEF CommitUnlock
  <2>3. ASSUME NEW r \in Reqs, CommitReset(r) PROVE Final
    <3>1. sess[req[r].token].status = "absent" /\ cap[req[r].token].status = "absent"
      BY <2>3 DEF CommitReset, Holding, IInv, RequestsMatch, RowsMatch, Opening
    <3> QED
      BY <2>3, <3>1 DEF CommitReset, RevokeAll
  <2>4. ASSUME NEW r \in Reqs, CommitAccess(r) \/ CommitStatus(r) PROVE Final
    <3>1. TouchSession(req[r].token, req[r].at)
      BY <2>4 DEF CommitAccess, CommitStatus
    <3>2. \A t \in Tokens : sess'[t].status = sess[t].status
      BY <3>1 DEF TouchSession
    <3>3. \A t \in Tokens : cap'[t].status = cap[t].status
      BY <2>4 DEF CommitAccess, CommitStatus
    <3> QED
      BY <3>2, <3>3
  <2>5. ASSUME NEW r \in Reqs, CommitExpiry(r) \/ CommitLogout(r) \/ CommitLock(r) PROVE Final
    BY <2>5 DEF CommitExpiry, CommitLogout, CommitLock, RevokeRows, Revoked
  <2> QED
    BY <2>1, <2>2, <2>3, <2>4, <2>5, RowChanges
<1> QED
  BY <1>1, InvAlways, PTL DEF Spec, RevocationIsFinal
=============================================================================
