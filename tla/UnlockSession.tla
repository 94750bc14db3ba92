---------------------------- MODULE UnlockSession ----------------------------
(***************************************************************************)
(* The unlock lifecycle of the local user: password unlock, recovery       *)
(* reset, session resolution, lock, logout and the guard every sensitive   *)
(* route passes (app/services/auth/service.py, app/services/security/*,    *)
(* app/db/auth_deps.py, app/routers/auth.py).                              *)
(*                                                                         *)
(* "Unlocked" is kept in three places that no transaction covers together: *)
(* the auth_sessions row, the unlock_capabilities row (both in the         *)
(* database) and the in-process key cache.  A request first reads rows     *)
(* without a lock, then takes SQLite's single writer lock at its first     *)
(* flush, changes the key cache while it holds that lock, and commits or   *)
(* rolls back.  The requests interleave at every one of these points       *)
(* (each is an await of the event loop), which is what the model explores. *)
(*                                                                         *)
(* The module starts right after POST /auth/setup has committed.           *)
(***************************************************************************)
EXTENDS Naturals

CONSTANTS
    Tokens,          \* session tokens (identified with their hashes)
    SetupToken,      \* the token POST /auth/setup returned
    Reqs,            \* HTTP requests that may be in flight together
    Resetters,       \* the requests among them that may be recovery resets
    NoReq,           \* nobody holds the writer lock
    IdleTimeout,     \* settings.effective_session_idle_timeout_seconds
    AbsoluteTimeout, \* settings.effective_session_absolute_timeout_seconds
    CapTTL,          \* _capability_ttl_seconds()
    MaxTime,         \* bound: the clock stops here
    MaxPasswords     \* bound: password generations

ASSUME TokensAssumption == SetupToken \in Tokens
ASSUME ReqsAssumption == Resetters \subseteq Reqs /\ NoReq \notin Reqs
ASSUME TimeAssumption ==
    /\ IdleTimeout \in Nat \ {0} /\ AbsoluteTimeout \in Nat \ {0}
    /\ CapTTL \in Nat \ {0} /\ MaxTime \in Nat /\ MaxPasswords \in Nat

VARIABLES
    now,      \* the clock
    user,     \* the users row: unlock_epoch, and which password it stores
    sess,     \* committed auth_sessions rows, by token
    cap,      \* committed unlock_capabilities rows, by token
    keyExp,   \* _SESSION_KEYS: expiry of the cached key of a token, or NoKey
    writer,   \* the request that holds SQLite's writer lock
    req       \* the requests in flight

vars == <<now, user, sess, cap, keyExp, writer, req>>

NoKey == 0

RowStatus == {"absent", "live", "revoked"}
Sessions == [status : RowStatus, opened : Nat, lastSeen : Nat, epoch : Nat, pw : Nat]
Capabilities == [status : RowStatus, expires : Nat, epoch : Nat]
Ops == {"none", "unlock", "reset", "access", "tail", "status", "expire", "logout", "lock"}
Requests == [op : Ops, pc : {"idle", "read", "written"}, token : Tokens,
             epoch : Nat, pw : Nat, at : Nat, till : Nat]

\* One type invariant: the rows, the cache and the requests have their shape.
TypeOK ==
    /\ now \in Nat
    /\ user \in [epoch : Nat, pw : Nat]
    /\ sess \in [Tokens -> Sessions]
    /\ cap \in [Tokens -> Capabilities]
    /\ keyExp \in [Tokens -> Nat]
    /\ writer \in Reqs \union {NoReq}
    /\ req \in [Reqs -> Requests]

AbsentSession == [status |-> "absent", opened |-> 0, lastSeen |-> 0, epoch |-> 0, pw |-> 0]
AbsentCapability == [status |-> "absent", expires |-> 0, epoch |-> 0]
\* A request without row contents: a quiet slot, a lock or logout, or the tail
\* of a route after its first commit.
Request(op, pc, t) ==
    [op |-> op, pc |-> pc, token |-> t, epoch |-> 0, pw |-> 0, at |-> 0, till |-> 0]
Quiet == Request("none", "idle", SetupToken)

\* create_session: the row is stamped with the epoch of the User object the
\* request loaded; SQLAlchemy's identity map returns that object again, so a
\* reset committed since the load is not seen.  pw remembers which password
\* was verified (a history field, no column).
NewSession(epoch, pw, at) ==
    [status |-> "live", opened |-> at, lastSeen |-> at, epoch |-> epoch, pw |-> pw]

\* issue_unlock_capability for a token that has no row yet.
NewCapability(epoch, at) == [status |-> "live", expires |-> at + CapTTL, epoch |-> epoch]

Revoked(row) == [row EXCEPT !.status = "revoked"]

Init ==
    /\ now = 1
    /\ user = [epoch |-> 1, pw |-> 1]
    /\ sess = [t \in Tokens |-> IF t = SetupToken THEN NewSession(1, 1, 1) ELSE AbsentSession]
    /\ cap = [t \in Tokens |-> IF t = SetupToken THEN NewCapability(1, 1) ELSE AbsentCapability]
    /\ keyExp = [t \in Tokens |-> IF t = SetupToken THEN 1 + AbsoluteTimeout ELSE NoKey]
    /\ writer = NoReq
    /\ req = [r \in Reqs |-> Quiet]

(***************************************************************************)
(* Requests                                                                *)
(***************************************************************************)
IsIdle(r) == req[r].pc = "idle"
Waiting(r, op) == req[r].pc = "read" /\ req[r].op = op /\ writer = NoReq
Holding(r, op) == req[r].pc = "written" /\ req[r].op = op

\* The request read its rows; the next flush needs the writer lock.
Read(r, op, t, at) ==
    req' = [req EXCEPT ![r] = [op |-> op, pc |-> "read", token |-> t,
                               epoch |-> user.epoch, pw |-> user.pw,
                               at |-> at, till |-> 0]]

\* The first flush: the writer lock is taken and the rows are stamped.
Flushed(r) ==
    /\ req' = [req EXCEPT ![r].pc = "written", ![r].at = now]
    /\ writer' = r

\* The request ends: committed, rolled back or answered.
Done(r) == req' = [req EXCEPT ![r] = Quiet]

\* secrets.token_urlsafe: a token nobody has or is about to be given (drawn
\* with the read; the code draws it just before the flush).
Fresh(t) ==
    /\ sess[t].status = "absent" /\ keyExp[t] = NoKey
    /\ \A r \in Reqs : IsIdle(r) \/ req[r].token # t

(***************************************************************************)
(* POST /auth/unlock: verify_unlock, then the router's commit.  A wrong    *)
(* password is answered 401 after a rollback and leaves nothing behind.    *)
(***************************************************************************)
StartUnlock(r) ==
    /\ IsIdle(r)
    /\ \E t \in Tokens : Fresh(t) /\ Read(r, "unlock", t, now)
    /\ UNCHANGED <<now, user, sess, cap, keyExp, writer>>

\* create_session flushes (writer lock), then the key is cached, long before
\* the commit.
WriteUnlock(r) ==
    /\ Waiting(r, "unlock")
    /\ Flushed(r)
    /\ keyExp' = [keyExp EXCEPT ![req[r].token] = now + AbsoluteTimeout]
    /\ UNCHANGED <<now, user, sess, cap>>

\* Mutation: the rows are stamped with the epoch as it is when they are written.
CommitUnlockFreshEpoch(r) ==
    /\ Holding(r, "unlock")
    /\ sess' = [sess EXCEPT ![req[r].token] = NewSession(user.epoch, req[r].pw, req[r].at)]
    /\ cap' = [cap EXCEPT ![req[r].token] = NewCapability(user.epoch, req[r].at)]
    /\ writer' = NoReq
    /\ Done(r)
    /\ UNCHANGED <<now, user, keyExp>>

CommitUnlock(r) ==
    /\ Holding(r, "unlock")
    /\ sess' = [sess EXCEPT ![req[r].token] = NewSession(req[r].epoch, req[r].pw, req[r].at)]
    /\ cap' = [cap EXCEPT ![req[r].token] = NewCapability(req[r].epoch, req[r].at)]
    /\ writer' = NoReq
    /\ Done(r)
    /\ UNCHANGED <<now, user, keyExp>>

(***************************************************************************)
(* POST /auth/recover-reset: recovery_reset_password, then the commit.     *)
(***************************************************************************)
StartReset(r) ==
    /\ r \in Resetters /\ IsIdle(r)
    /\ user.pw < MaxPasswords
    /\ \E t \in Tokens : Fresh(t) /\ Read(r, "reset", t, now)
    /\ UNCHANGED <<now, user, sess, cap, keyExp, writer>>

\* Mutation: clear_user_keys is forgotten.
WriteResetKeysKept(r) ==
    /\ Waiting(r, "reset")
    /\ Flushed(r)
    /\ keyExp' = [keyExp EXCEPT ![req[r].token] = now + AbsoluteTimeout]
    /\ UNCHANGED <<now, user, sess, cap>>

\* The user row is flushed by the query for open sessions; clear_user_keys and
\* cache_session_key follow, all before the commit.
WriteReset(r) ==
    /\ Waiting(r, "reset")
    /\ Flushed(r)
    /\ keyExp' = [t \in Tokens |-> IF t = req[r].token THEN now + AbsoluteTimeout ELSE NoKey]
    /\ UNCHANGED <<now, user, sess, cap>>

\* revoke_capabilities_for_user and the loop over open sessions.
RevokeAll(rows) == [t \in Tokens |-> IF rows[t].status = "live" THEN Revoked(rows[t]) ELSE rows[t]]

\* user.unlock_epoch + 1 was computed from the row as it was first read.
EpochAfterReset(r) == req[r].epoch + 1

CommitReset(r) ==
    /\ Holding(r, "reset")
    /\ user' = [epoch |-> EpochAfterReset(r), pw |-> user.pw + 1]
    /\ sess' = [RevokeAll(sess) EXCEPT ![req[r].token] =
                    NewSession(EpochAfterReset(r), user.pw + 1, req[r].at)]
    /\ cap' = [RevokeAll(cap) EXCEPT ![req[r].token] = NewCapability(EpochAfterReset(r), req[r].at)]
    /\ writer' = NoReq
    /\ Done(r)
    /\ UNCHANGED <<now, keyExp>>

(***************************************************************************)
(* resolve_session                                                         *)
(***************************************************************************)
Expired(t) ==
    \/ now >= sess[t].lastSeen + IdleTimeout
    \/ now >= sess[t].opened + AbsoluteTimeout

\* The stored revocation, the timeouts and the epoch snapshot.
Resolves(t) ==
    /\ sess[t].status = "live"
    /\ ~Expired(t)
    /\ sess[t].epoch = user.epoch

Known(t) == sess[t].status # "absent"

ClearKey(t) == keyExp' = [keyExp EXCEPT ![t] = NoKey]

(***************************************************************************)
(* The guard of a sensitive route: get_current_unlocked_user.              *)
(***************************************************************************)
StartAccess(r) ==
    /\ IsIdle(r)
    /\ \E t \in Tokens : Known(t) /\ Resolves(t) /\ Read(r, "access", t, now)
    /\ UNCHANGED <<now, user, sess, cap, keyExp, writer>>

\* 401: the revocations resolve_session flushed are rolled back when the
\* request's database session closes, the removal from the key cache is not.
RejectAccess(r) ==
    /\ IsIdle(r)
    /\ \E t \in Tokens : Known(t) /\ ~Resolves(t) /\ ClearKey(t)
    /\ UNCHANGED <<now, user, sess, cap, writer, req>>

\* validate_unlock_capability, against the epoch seen at the read.
CapabilityActive(t, epoch) ==
    /\ cap[t].status = "live"
    /\ cap[t].expires > now
    /\ cap[t].epoch = epoch

\* Mutation: the expiry of the cached key is ignored.
KeyCached(t) == keyExp[t] # NoKey

\* get_session_key: a cached key past its expiry does not count.
KeyUsable(t) == keyExp[t] > now

\* last_seen_at is flushed (writer lock) and the capability is read and
\* touched under it; the route's own work runs in state "written".
GrantAccess(r) ==
    /\ Waiting(r, "access")
    /\ CapabilityActive(req[r].token, req[r].epoch) /\ KeyUsable(req[r].token)
    /\ writer' = r
    /\ req' = [req EXCEPT ![r].pc = "written", ![r].till = now + CapTTL]
    /\ UNCHANGED <<now, user, sess, cap, keyExp>>

\* 423 and a rollback; get_session_key pops the key when it has expired.
RefuseAccess(r) ==
    /\ Waiting(r, "access")
    /\ ~(CapabilityActive(req[r].token, req[r].epoch) /\ KeyUsable(req[r].token))
    /\ IF CapabilityActive(req[r].token, req[r].epoch) THEN ClearKey(req[r].token) ELSE UNCHANGED keyExp
    /\ Done(r)
    /\ UNCHANGED <<now, user, sess, cap, writer>>

\* Mutation: the row is written back as it was read.
TouchWholeRow(t, at) == sess' = [sess EXCEPT ![t].lastSeen = at, ![t].status = "live"]

\* Only the touched columns are written back.
TouchSession(t, at) == sess' = [sess EXCEPT ![t].lastSeen = at]

\* A route that commits: the slides of last_seen_at and expires_at persist.  It
\* answers, or goes on without the lock (generate_workspace_review_pack commits
\* its export job before it builds the pack).
CommitAccess(r) ==
    /\ Holding(r, "access")
    /\ TouchSession(req[r].token, req[r].at)
    /\ cap' = [cap EXCEPT ![req[r].token].expires = req[r].till]
    /\ writer' = NoReq
    /\ \/ Done(r)
       \/ req' = [req EXCEPT ![r] = Request("tail", "read", req[r].token)]
    /\ UNCHANGED <<now, user, keyExp>>

\* What follows the first commit takes the writer lock again, unguarded.
ResumeAccess(r) ==
    /\ Waiting(r, "tail")
    /\ writer' = r
    /\ req' = [req EXCEPT ![r].pc = "written"]
    /\ UNCHANGED <<now, user, sess, cap, keyExp>>

\* A route that answers without a commit (review summary, issues, review-pack
\* list, security status, audit events): both slides are rolled back.  The
\* second commit of a route has none of the rows of this module in it.
FinishUncommitted(r) ==
    /\ Holding(r, "access") \/ Holding(r, "tail")
    /\ writer' = NoReq
    /\ Done(r)
    /\ UNCHANGED <<now, user, sess, cap, keyExp>>

(***************************************************************************)
(* GET /auth/session: resolve_session and a commit, whatever it found.     *)
(* The capability is then only read: its slide is flushed, not committed.  *)
(***************************************************************************)
StartStatus(r) ==
    /\ IsIdle(r)
    /\ \E t \in Tokens :
          /\ Known(t)
          /\ \/ Resolves(t) /\ Read(r, "status", t, now) /\ UNCHANGED keyExp
             \/ ~Resolves(t) /\ Read(r, "expire", t, now) /\ ClearKey(t)
    /\ UNCHANGED <<now, user, sess, cap, writer>>

CommitStatus(r) ==
    /\ Waiting(r, "status")
    /\ TouchSession(req[r].token, req[r].at)
    /\ Done(r)
    /\ UNCHANGED <<now, user, cap, keyExp, writer>>

RevokeRows(t) ==
    /\ sess' = [sess EXCEPT ![t] = Revoked(sess[t])]
    /\ cap' = [cap EXCEPT ![t] = Revoked(cap[t])]

CommitExpiry(r) ==
    /\ Waiting(r, "expire")
    /\ RevokeRows(req[r].token)
    /\ Done(r)
    /\ UNCHANGED <<now, user, keyExp, writer>>

(***************************************************************************)
(* POST /auth/lock and POST /auth/logout: the rows are flushed, the key is *)
(* dropped, then the router commits.                                       *)
(***************************************************************************)
WriteLockOrLogout(r, op) ==
    /\ IsIdle(r) /\ writer = NoReq
    /\ \E t \in Tokens :
          /\ Known(t)
          /\ req' = [req EXCEPT ![r] = Request(op, "written", t)]
          /\ ClearKey(t)
    /\ writer' = r
    /\ UNCHANGED <<now, user, sess, cap>>

CommitLogout(r) ==
    /\ Holding(r, "logout")
    /\ RevokeRows(req[r].token)
    /\ writer' = NoReq
    /\ Done(r)
    /\ UNCHANGED <<now, user, keyExp>>

\* The session stays valid: the user is authenticated but locked (423).
CommitLock(r) ==
    /\ Holding(r, "lock")
    /\ cap' = [cap EXCEPT ![req[r].token] = Revoked(cap[req[r].token])]
    /\ writer' = NoReq
    /\ Done(r)
    /\ UNCHANGED <<now, user, sess, keyExp>>

(***************************************************************************)
(* Failures and the environment                                            *)
(***************************************************************************)
\* The commit fails or the handler raises: rows roll back, the cache does not.
Abort(r) ==
    /\ req[r].pc = "written"
    /\ writer' = NoReq
    /\ Done(r)
    /\ UNCHANGED <<now, user, sess, cap, keyExp>>

\* Mutation: a request waits for the writer lock without a timeout.
LockWithoutTimeout(r) == FALSE

\* sqlite3's busy timeout: "database is locked", the request fails.
LockTimeout(r) ==
    /\ req[r].pc = "read" /\ writer # NoReq
    /\ Done(r)
    /\ UNCHANGED <<now, user, sess, cap, keyExp, writer>>

\* The process restarts: the cache and all requests are gone, rows stay.
Restart ==
    /\ keyExp' = [t \in Tokens |-> NoKey]
    /\ writer' = NoReq
    /\ req' = [r \in Reqs |-> Quiet]
    /\ UNCHANGED <<now, user, sess, cap>>

\* get_user_active_key, called by background processing, drops what expired.
BackgroundKeyLookup ==
    /\ \E t \in Tokens : keyExp[t] # NoKey /\ ~KeyUsable(t)
    /\ keyExp' = [t \in Tokens |-> IF KeyUsable(t) THEN keyExp[t] ELSE NoKey]
    /\ UNCHANGED <<now, user, sess, cap, writer, req>>

Tick ==
    /\ now < MaxTime
    /\ now' = now + 1
    /\ UNCHANGED <<user, sess, cap, keyExp, writer, req>>

\* What the event loop and the database owe a request once it started.
Progress(r) ==
    \/ WriteUnlock(r) \/ CommitUnlock(r)
    \/ WriteReset(r) \/ CommitReset(r)
    \/ GrantAccess(r) \/ RefuseAccess(r) \/ CommitAccess(r)
    \/ ResumeAccess(r) \/ FinishUncommitted(r)
    \/ CommitStatus(r) \/ CommitExpiry(r) \/ CommitLogout(r) \/ CommitLock(r)
    \/ Abort(r) \/ LockTimeout(r)

\* What clients may ask for at any time.
Arrive(r) ==
    \/ StartUnlock(r) \/ StartReset(r)
    \/ StartAccess(r) \/ RejectAccess(r) \/ StartStatus(r)
    \/ WriteLockOrLogout(r, "logout") \/ WriteLockOrLogout(r, "lock")

Next ==
    \/ \E r \in Reqs : Arrive(r) \/ Progress(r)
    \/ Restart \/ BackgroundKeyLookup \/ Tick

Spec == Init /\ [][Next]_vars

\* The event loop keeps running the tasks it has, and time passes.
Fairness ==
    /\ \A r \in Reqs : WF_vars(Progress(r))
    /\ WF_vars(Tick)

FairSpec == Spec /\ Fairness

(***************************************************************************)
(* Properties                                                              *)
(***************************************************************************)
Granted(r) == req[r].op = "access" /\ req[r].pc = "written"

\* While a sensitive route runs, up to its first commit, the session that
\* admitted it is neither logged out, locked nor of an older epoch, and it was
\* opened with the password the user row holds now: no interleaving of a reset,
\* a lock and an unlock lets a replaced password in (PHASE_15, "Sensitive
\* Operation Enforcement").
GrantSound ==
    \A r \in Reqs : Granted(r) =>
        LET t == req[r].token IN
        /\ sess[t].status = "live" /\ cap[t].status = "live"
        /\ sess[t].epoch = user.epoch
        /\ sess[t].pw = user.pw

\* Once the lock, logout, expiry or reset of a token is committed, its key is
\* out of the cache and no request that was in flight puts it back.
RevokedKeyGone == \A t \in Tokens : cap[t].status = "revoked" => keyExp[t] = NoKey

\* However often the idle timeout slides, nothing is admitted past the
\* absolute timeout of the session, although that timeout was checked one
\* await before the grant.
GrantWithinLifetime ==
    [][\A r \in Reqs : Granted(r)' /\ ~Granted(r) =>
            now < sess[req[r].token].opened + AbsoluteTimeout]_vars

\* A revocation is final: no write-back of a row read earlier revives it.
RevocationIsFinal ==
    [][\A t \in Tokens :
        /\ sess[t].status = "revoked" => sess'[t].status = "revoked"
        /\ cap[t].status = "revoked" => cap'[t].status = "revoked"]_vars

\* Every request is answered, however the writer lock is passed around.
EveryRequestEnds == \A r \in Reqs : (req[r].pc # "idle") ~> (req[r].pc = "idle")
=============================================================================
