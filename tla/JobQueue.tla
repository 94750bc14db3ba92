------------------------------- MODULE JobQueue -------------------------------
(***************************************************************************)
(* The database-backed job queue and its worker primitives                 *)
(* (app/repositories/job_repo.py, app/services/job).  The loop that calls  *)
(* claim_next_job, execute_job, heartbeat_job and update_job_status is not *)
(* part of the repository yet; it is taken from tests/test_worker_job_flow *)
(* (claim, commit, execute, commit) and is external.                       *)
(*                                                                         *)
(* Every primitive reads a row and writes it one await later.  A job       *)
(* carries the capability of the request that created it and the absolute  *)
(* expiry of its session; the capability row and the key cache change      *)
(* under the worker's feet when the user works, locks, unlocks or restarts *)
(* the process, and when they expire.                                      *)
(***************************************************************************)
EXTENDS Naturals

CONSTANTS
    Jobs,           \* job ids, numbered in the order of created_at
    Workers,        \* worker ids
    Nobody,         \* lease_owner is NULL
    Caps,           \* unlock capabilities (session token hashes)
    LeaseTime,      \* lease_seconds
    CapTTL,         \* _capability_ttl_seconds
    SessionTTL,     \* session_absolute_timeout
    MaxFailures,    \* bound: failures of workers, restarts, locks that fail
    MaxTime,        \* bound: the clock stops here
    MaxAttempts     \* bound: attempt_count saturates here

ASSUME JobsAssumption == Jobs \subseteq Nat /\ Jobs # {}
ASSUME QueueAssumption ==
    /\ LeaseTime \in Nat \ {0} /\ CapTTL \in Nat \ {0} /\ SessionTTL \in Nat \ {0}
    /\ MaxTime \in Nat /\ MaxAttempts \in Nat /\ MaxFailures \in Nat

VARIABLES
    now,       \* the clock
    jobs,      \* the committed jobs rows
    workers,   \* what each worker is doing and what it read
    caps,      \* committed unlock_capabilities rows, with the session's expiry
    keys,      \* the capabilities whose key is in the process cache
    locking,   \* the capability being locked: its key is gone, its row not yet
    abandoned, \* history: the jobs whose last worker failed
    failures   \* failures so far

vars == <<now, jobs, workers, caps, keys, locking, abandoned, failures>>

NoLease == 0
Statuses == {"absent", "queued", "running", "retrying", "succeeded", "failed"}
JobRows == [status : Statuses, encrypted : BOOLEAN, owner : Workers \union {Nobody}, lease : Nat,
            attempts : Nat, cap : Caps, until : Nat]
Working == {"claimed", "keycheck", "blocking", "checked"}
WorkerStates == [pc : {"idle", "claiming"} \union Working, job : Jobs,
                 attempts : Nat, at : Nat, beat : Nat]
Capabilities == [status : {"absent", "live", "revoked"}, expires : Nat, until : Nat]

\* One type invariant: rows, workers and capabilities have their shape.
TypeOK ==
    /\ now \in Nat
    /\ jobs \in [Jobs -> JobRows]
    /\ workers \in [Workers -> WorkerStates]
    /\ caps \in [Caps -> Capabilities]
    /\ keys \subseteq Caps
    /\ locking \in SUBSET Caps /\ abandoned \in SUBSET Jobs
    /\ failures \in 0..MaxFailures

IdleWorker == [pc |-> "idle", job |-> CHOOSE j \in Jobs : TRUE,
               attempts |-> 0, at |-> 0, beat |-> NoLease]
Fresh == [status |-> "live", expires |-> now + CapTTL, until |-> now + SessionTTL]

\* The user has unlocked once; no job exists.
Init ==
    /\ now = 1
    /\ \E c \in Caps :
          /\ jobs = [j \in Jobs |-> [status |-> "absent", encrypted |-> FALSE, owner |-> Nobody,
                                     lease |-> NoLease, attempts |-> 0, cap |-> c, until |-> 0]]
          /\ caps = [x \in Caps |-> IF x = c THEN [status |-> "live", expires |-> 1 + CapTTL, until |-> 1 + SessionTTL]
                                    ELSE [status |-> "absent", expires |-> 0, until |-> 0]]
          /\ keys = {c}
    /\ workers = [w \in Workers |-> IdleWorker]
    /\ locking = {} /\ abandoned = {}
    /\ failures = 0

(***************************************************************************)
(* Requests of the user                                                    *)
(***************************************************************************)
\* What the guard asks of a request (module UnlockSession has it step by step).
LetIn(c) ==
    /\ c \in keys /\ caps[c].status = "live"
    /\ caps[c].expires > now /\ caps[c].until > now

\* Every request that is let in prolongs its capability.
Touch(c) ==
    /\ LetIn(c)
    /\ caps' = [caps EXCEPT ![c].expires = now + CapTTL]
    /\ UNCHANGED <<now, jobs, workers, keys, locking, abandoned, failures>>

\* created_at is the order in which rows are inserted.
NextId(j) == jobs[j].status = "absent" /\ \A k \in Jobs : k < j => jobs[k].status # "absent"

\* A workspace route queues its job with the request's capability and the expiry
\* of its session.
Create(j) ==
    /\ NextId(j)
    /\ \E c \in Caps :
          /\ LetIn(c)
          /\ jobs' = [jobs EXCEPT ![j].status = "queued", ![j].encrypted = TRUE,
                                  ![j].cap = c, ![j].until = caps[c].until]
          /\ caps' = [caps EXCEPT ![c].expires = now + CapTTL]
    /\ UNCHANGED <<now, workers, keys, locking, abandoned, failures>>

\* POST /api/jobs is not guarded, and its job needs no key.
CreatePlain(j) ==
    /\ NextId(j)
    /\ jobs' = [jobs EXCEPT ![j].status = "queued"]
    /\ UNCHANGED <<now, workers, caps, keys, locking, abandoned, failures>>

(***************************************************************************)
(* claim_next                                                              *)
(***************************************************************************)
\* Mutation: only an empty lease is free.
ClaimableWithoutLease(j) == jobs[j].status \in {"queued", "retrying"} /\ jobs[j].lease = NoLease

Claimable(j) ==
    /\ jobs[j].status \in {"queued", "retrying"}
    /\ jobs[j].lease = NoLease \/ jobs[j].lease <= now

\* The oldest claimable job is read, without a lock.
ClaimRead(w) ==
    /\ workers[w].pc = "idle"
    /\ \E j \in Jobs :
          /\ Claimable(j)
          /\ \A k \in Jobs : Claimable(k) => j <= k
          /\ workers' = [workers EXCEPT ![w] = [pc |-> "claiming", job |-> j,
                 attempts |-> jobs[j].attempts, at |-> now, beat |-> NoLease]]
    /\ UNCHANGED <<now, jobs, caps, keys, locking, abandoned, failures>>

NextAttempt(n) == IF n < MaxAttempts THEN n + 1 ELSE n

\* The row is written by its id: nothing compares it with what was read.
ClaimWrite(w) ==
    /\ workers[w].pc = "claiming"
    /\ jobs' = [jobs EXCEPT ![workers[w].job] =
          [@ EXCEPT !.status = "running", !.owner = w, !.lease = workers[w].at + LeaseTime,
                    !.attempts = NextAttempt(workers[w].attempts)]]
    /\ workers' = [workers EXCEPT ![w].pc = "claimed"]
    /\ abandoned' = abandoned \ {workers[w].job}
    /\ UNCHANGED <<now, caps, keys, locking, failures>>

(***************************************************************************)
(* heartbeat: the owner and status are read, the lease written later.      *)
(***************************************************************************)
BeatRead(w) ==
    /\ workers[w].pc \in {"claimed", "checked"} /\ workers[w].beat = NoLease
    /\ jobs[workers[w].job].owner = w /\ jobs[workers[w].job].status = "running"
    /\ now + LeaseTime <= MaxTime   \* bound: a lease that can still run out
    /\ workers' = [workers EXCEPT ![w].beat = now + LeaseTime]
    /\ UNCHANGED <<now, jobs, caps, keys, locking, abandoned, failures>>

BeatWrite(w) ==
    /\ workers[w].beat # NoLease
    /\ jobs' = [jobs EXCEPT ![workers[w].job].lease = workers[w].beat]
    /\ workers' = [workers EXCEPT ![w].beat = NoLease]
    /\ UNCHANGED <<now, caps, keys, locking, abandoned, failures>>

(***************************************************************************)
(* execute_job and _resolve_job_key                                        *)
(***************************************************************************)
Goto(w, pc) == workers' = [workers EXCEPT ![w].pc = pc]
Ready(w, pc) == workers[w].pc = pc /\ workers[w].beat = NoLease

\* The capability row, the expiry the job recorded and the row's own.
CapabilityValid(j) ==
    /\ caps[jobs[j].cap].status = "live"
    /\ jobs[j].until > now /\ caps[jobs[j].cap].expires > now

ReadCapability(w) ==
    /\ Ready(w, "claimed")
    /\ \/ ~jobs[workers[w].job].encrypted /\ Goto(w, "checked")
       \/ /\ jobs[workers[w].job].encrypted
          /\ Goto(w, IF CapabilityValid(workers[w].job) THEN "keycheck" ELSE "blocking")
    /\ UNCHANGED <<now, jobs, caps, keys, locking, abandoned, failures>>

\* get_session_key_by_hash: a key expires with its session.
Cached(c) == c \in keys /\ caps[c].until > now

\* The key comes last, one await after the row.
ReadKey(w) ==
    /\ Ready(w, "keycheck")
    /\ Goto(w, IF Cached(jobs[workers[w].job].cap) THEN "checked" ELSE "blocking")
    /\ UNCHANGED <<now, jobs, caps, keys, locking, abandoned, failures>>

\* The lease is given up with the status.
PutBack(w) ==
    jobs' = [jobs EXCEPT ![workers[w].job] =
          [@ EXCEPT !.status = "retrying", !.owner = Nobody, !.lease = NoLease]]

\* Mutation: the exception leaves the row as it is.
MarkBlockedOnlyRaises(w) ==
    /\ Ready(w, "blocking")
    /\ workers' = [workers EXCEPT ![w] = IdleWorker]
    /\ UNCHANGED <<now, jobs, caps, keys, locking, abandoned, failures>>

\* _mark_retryable_key_block, then EncryptionKeyUnavailableError.
MarkBlocked(w) ==
    /\ Ready(w, "blocking")
    /\ PutBack(w)
    /\ workers' = [workers EXCEPT ![w] = IdleWorker]
    /\ UNCHANGED <<now, caps, keys, locking, abandoned, failures>>

\* update_job_status: no look at the status, the owner or the lease.
Finish(w) ==
    /\ Ready(w, "checked")
    /\ \E s \in {"succeeded", "failed"} :
          jobs' = [jobs EXCEPT ![workers[w].job].status = s]
    /\ workers' = [workers EXCEPT ![w] = IdleWorker]
    /\ UNCHANGED <<now, caps, keys, locking, abandoned, failures>>

(***************************************************************************)
(* The unlock state as the queue sees it (module UnlockSession).           *)
(***************************************************************************)
Unlock(c) ==
    /\ caps[c].status = "absent"
    /\ caps' = [caps EXCEPT ![c] = Fresh]
    /\ keys' = keys \union {c}
    /\ UNCHANGED <<now, jobs, workers, locking, abandoned, failures>>

\* Mutation: the key stays cached.
LockKeepsKey(c) ==
    /\ caps[c].status = "live" /\ locking = {}
    /\ locking' = {c}
    /\ UNCHANGED <<now, jobs, workers, caps, keys, abandoned, failures>>

\* lock_session drops the key before the router commits the revocation.
LockWrite(c) ==
    /\ caps[c].status = "live" /\ locking = {}
    /\ locking' = {c}
    /\ keys' = keys \ {c}
    /\ UNCHANGED <<now, jobs, workers, caps, abandoned, failures>>

LockCommit ==
    /\ locking # {}
    /\ caps' = [c \in Caps |-> IF c \in locking THEN [caps[c] EXCEPT !.status = "revoked"] ELSE caps[c]]
    /\ locking' = {}
    /\ UNCHANGED <<now, jobs, workers, keys, abandoned, failures>>

\* The commit is refused: the row stays live, the key is gone all the same.
LockFails ==
    /\ failures < MaxFailures /\ locking # {}
    /\ failures' = failures + 1
    /\ locking' = {}
    /\ UNCHANGED <<now, jobs, workers, caps, keys, abandoned>>

(***************************************************************************)
(* Failures and time                                                       *)
(***************************************************************************)
WorkingOn(j) == {w \in Workers : workers[w].pc \in Working /\ workers[w].job = j}
Abandon(W) == abandoned' = abandoned \union {j \in Jobs : WorkingOn(j) # {} /\ WorkingOn(j) \subseteq W}

\* The worker dies, or its next write meets "database is locked" and the
\* exception leaves it: claim, heartbeat, block and finish all write, and the
\* row stays as it was committed.
WorkerFails(w) ==
    /\ failures < MaxFailures /\ workers[w].pc # "idle"
    /\ workers' = [workers EXCEPT ![w] = IdleWorker]
    /\ Abandon({w})
    /\ failures' = failures + 1
    /\ UNCHANGED <<now, jobs, caps, keys, locking>>

Restart ==
    /\ failures < MaxFailures
    /\ failures' = failures + 1
    /\ workers' = [w \in Workers |-> IdleWorker]
    /\ Abandon(Workers)
    /\ keys' = {}
    /\ locking' = {}
    /\ UNCHANGED <<now, jobs, caps>>

Tick ==
    /\ now < MaxTime
    /\ now' = now + 1
    /\ UNCHANGED <<jobs, workers, caps, keys, locking, abandoned, failures>>

WorkerStep(w) ==
    \/ ClaimRead(w) \/ ClaimWrite(w) \/ ReadCapability(w) \/ ReadKey(w)
    \/ MarkBlocked(w) \/ Finish(w) \/ BeatWrite(w)

Next ==
    \/ \E j \in Jobs : Create(j) \/ CreatePlain(j)
    \/ \E w \in Workers : WorkerStep(w) \/ BeatRead(w) \/ WorkerFails(w)
    \/ \E c \in Caps : Touch(c) \/ Unlock(c) \/ LockWrite(c)
    \/ LockCommit \/ LockFails \/ Restart \/ Tick

Spec == Init /\ [][Next]_vars

\* The worker loops run, time passes; nobody has to create, lock or fail.
FairSpec == Spec /\ (\A w \in Workers : WF_vars(WorkerStep(w))) /\ WF_vars(Tick)

(***************************************************************************)
(* Properties                                                              *)
(***************************************************************************)
\* A worker only goes ahead with an encrypted job while its capability is not
\* revoked and its session has not expired, although it read the capability row
\* one await before the key: the lock drops the key before it commits.
CheckedWhileUnlocked ==
    [][\A w \in Workers :
        workers[w].pc = "keycheck" /\ workers'[w].pc = "checked" =>
            LET c == caps[jobs[workers[w].job].cap] IN c.status = "live" /\ c.until > now]_vars

\* No claim, block, finish or late write of another worker loses a job: a
\* running job has a worker on it, or the last one that had it died or was
\* refused a write.  (Such a job stays running: claim_next never looks at the
\* lease of a running job.)
RunningJobHasWorker ==
    \A j \in Jobs \ abandoned : jobs[j].status = "running" => WorkingOn(j) # {}

\* A job put back for later is claimed again, whatever lease a late heartbeat
\* of another worker has left on it.
RetriedJobIsClaimed ==
    \A j \in Jobs : (jobs[j].status \in {"queued", "retrying"}) ~>
                    (jobs[j].status \notin {"queued", "retrying"})
=============================================================================
