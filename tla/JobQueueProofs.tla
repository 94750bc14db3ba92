---------------------------- MODULE JobQueueProofs ----------------------------
(***************************************************************************)
(* Proofs about JobQueue, for any jobs, workers, capabilities and leases.  *)
(***************************************************************************)
EXTENDS JobQueue, TLAPS

-----------------------------------------------------------------------------
(* Type correctness *)

LEMMA IdleType == IdleWorker \in WorkerStates
  BY JobsAssumption DEF IdleWorker, WorkerStates, NoLease

\* Replacing fields of a row or of a worker's state keeps the type.
LEMMA RowType ==
  ASSUME NEW row \in JobRows, NEW s \in Statuses, NEW o \in Workers \union {Nobody},
         NEW l \in Nat, NEW n \in Nat
  PROVE  /\ [row EXCEPT !.status = s] \in JobRows
         /\ [row EXCEPT !.status = s, !.owner = o, !.lease = l] \in JobRows
         /\ [row EXCEPT !.status = s, !.owner = o, !.lease = l, !.attempts = n] \in JobRows
  BY DEF JobRows

LEMMA WorkerType ==
  ASSUME NEW v \in WorkerStates, NEW p \in {"idle", "claiming"} \union Working, NEW b \in Nat
  PROVE  [v EXCEPT !.pc = p] \in WorkerStates /\ [v EXCEPT !.beat = b] \in WorkerStates
  BY DEF WorkerStates

LEMMA Fields ==
  ASSUME TypeOK, NEW w \in Workers
  PROVE  /\ workers[w] \in WorkerStates /\ workers[w].job \in Jobs /\ workers[w].attempts \in Nat
         /\ workers[w].at \in Nat /\ workers[w].beat \in Nat
         /\ jobs[workers[w].job] \in JobRows
  BY DEF TypeOK, WorkerStates

\* Letting a request in, unlocking and revoking keep the capabilities' type.
LEMMA CapType ==
  ASSUME TypeOK, NEW c \in Caps
  PROVE  /\ [caps EXCEPT ![c].expires = now + CapTTL] \in [Caps -> Capabilities]
         /\ [caps EXCEPT ![c] = Fresh] \in [Caps -> Capabilities]
         /\ [caps[c] EXCEPT !.status = "revoked"] \in Capabilities
  BY QueueAssumption DEF TypeOK, Capabilities, Fresh

LEMMA InitType == Init => TypeOK
<1> SUFFICES ASSUME Init PROVE TypeOK
  OBVIOUS
<1>1. jobs \in [Jobs -> JobRows]
  BY DEF Init, JobRows, Statuses, NoLease
<1>2. workers \in [Workers -> WorkerStates]
  BY IdleType DEF Init
<1>3. caps \in [Caps -> Capabilities]
  BY QueueAssumption DEF Init, Capabilities
<1> QED
  <2>1. now \in Nat /\ failures \in 0..MaxFailures
    BY QueueAssumption DEF Init
  <2>2. keys \subseteq Caps /\ locking \in SUBSET Caps /\ abandoned \in SUBSET Jobs
    BY DEF Init
  <2> QED
    BY <1>1, <1>2, <1>3, <2>1, <2>2 DEF TypeOK

LEMMA TypeStep == TypeOK /\ [Next]_vars => TypeOK'
<1> SUFFICES ASSUME TypeOK, [Next]_vars PROVE TypeOK'
  OBVIOUS
<1>1. ASSUME NEW j \in Jobs, Create(j) PROVE TypeOK'
  <2>1. PICK c \in Caps :
           /\ jobs' = [jobs EXCEPT ![j].status = "queued", ![j].encrypted = TRUE, ![j].cap = c, ![j].until = caps[c].until]
           /\ caps' = [caps EXCEPT ![c].expires = now + CapTTL]
    BY <1>1 DEF Create
  <2>2. [jobs[j] EXCEPT !.status = "queued", !.encrypted = TRUE, !.cap = c, !.until = caps[c].until] \in JobRows
    <3>1. jobs[j] \in JobRows /\ "queued" \in Statuses /\ caps[c].until \in Nat
      BY DEF TypeOK, Statuses, Capabilities
    <3> QED
      BY <3>1 DEF JobRows
  <2>3. jobs' = [jobs EXCEPT ![j] = [jobs[j] EXCEPT !.status = "queued", !.encrypted = TRUE, !.cap = c, !.until = caps[c].until]]
    BY <2>1 DEF TypeOK, JobRows
  <2>4. jobs' \in [Jobs -> JobRows]
    BY <2>2, <2>3 DEF TypeOK
  <2>5. caps' \in [Caps -> Capabilities]
    BY <2>1, CapType
  <2> QED
    BY <1>1, <2>4, <2>5 DEF Create, TypeOK
<1>16. ASSUME NEW j \in Jobs, CreatePlain(j) PROVE TypeOK'
  <2>1. [jobs[j] EXCEPT !.status = "queued"] \in JobRows
    BY DEF TypeOK, JobRows, Statuses
  <2>2. jobs' \in [Jobs -> JobRows]
    BY <1>16, <2>1 DEF CreatePlain, TypeOK
  <2> QED
    BY <1>16, <2>2 DEF CreatePlain, TypeOK
<1>2. ASSUME NEW w \in Workers, ClaimRead(w) PROVE TypeOK'
  <2>1. PICK j \in Jobs : workers' = [workers EXCEPT ![w] = [pc |-> "claiming", job |-> j,
                 attempts |-> jobs[j].attempts, at |-> now, beat |-> NoLease]]
    BY <1>2 DEF ClaimRead
  <2>2. [pc |-> "claiming", job |-> j, attempts |-> jobs[j].attempts, at |-> now, beat |-> NoLease] \in WorkerStates
    BY DEF TypeOK, JobRows, WorkerStates, NoLease
  <2> QED
    BY <1>2, <2>1, <2>2 DEF ClaimRead, TypeOK
<1>3. ASSUME NEW w \in Workers, ClaimWrite(w) PROVE TypeOK'
  <2>1. NextAttempt(workers[w].attempts) \in Nat /\ workers[w].at + LeaseTime \in Nat
    BY Fields, QueueAssumption DEF NextAttempt
  <2>2. jobs' \in [Jobs -> JobRows]
    BY <1>3, <2>1, Fields, RowType DEF ClaimWrite, TypeOK, Statuses
  <2>3. workers' \in [Workers -> WorkerStates]
    BY <1>3, Fields, WorkerType DEF ClaimWrite, TypeOK, Working
  <2> QED
    BY <1>3, <2>2, <2>3 DEF ClaimWrite, TypeOK
<1>4. ASSUME NEW w \in Workers, ReadCapability(w) PROVE TypeOK'
  <2>1. PICK p \in Working : workers' = [workers EXCEPT ![w].pc = p]
    BY <1>4 DEF ReadCapability, Goto, Working
  <2>2. [workers[w] EXCEPT !.pc = p] \in WorkerStates
    BY Fields, WorkerType
  <2>3. workers' \in [Workers -> WorkerStates]
    BY <2>1, <2>2 DEF TypeOK
  <2> QED
    BY <1>4, <2>3 DEF ReadCapability, TypeOK
<1>5. ASSUME NEW w \in Workers, ReadKey(w) PROVE TypeOK'
  <2>1. workers' \in [Workers -> WorkerStates]
    BY <1>5, Fields, WorkerType DEF ReadKey, Goto, TypeOK, Working
  <2> QED
    BY <1>5, <2>1 DEF ReadKey, TypeOK
<1>6. ASSUME NEW w \in Workers, MarkBlocked(w) PROVE TypeOK'
  <2> DEFINE row == jobs[workers[w].job]
  <2>1. [row EXCEPT !.status = "retrying", !.owner = Nobody, !.lease = NoLease] \in JobRows
    BY Fields, RowType DEF Statuses, NoLease
  <2>2. jobs' \in [Jobs -> JobRows]
    BY <1>6, <2>1 DEF MarkBlocked, PutBack, TypeOK
  <2> QED
    BY <1>6, <2>2, IdleType DEF MarkBlocked, TypeOK
<1>7. ASSUME NEW w \in Workers, Finish(w) PROVE TypeOK'
  <2>1. PICK s \in {"succeeded", "failed"} : jobs' = [jobs EXCEPT ![workers[w].job].status = s]
    BY <1>7 DEF Finish
  <2>2. [jobs[workers[w].job] EXCEPT !.status = s] \in JobRows
    BY Fields, RowType DEF Statuses
  <2>3. jobs' \in [Jobs -> JobRows]
    BY <2>1, <2>2 DEF TypeOK
  <2> QED
    BY <1>7, <2>3, IdleType DEF Finish, TypeOK
<1>8. ASSUME NEW w \in Workers, BeatRead(w) PROVE TypeOK'
  <2>1. [workers[w] EXCEPT !.beat = now + LeaseTime] \in WorkerStates
    BY Fields, QueueAssumption DEF TypeOK, WorkerStates
  <2>2. workers' \in [Workers -> WorkerStates]
    BY <1>8, <2>1 DEF BeatRead, TypeOK
  <2> QED
    BY <1>8, <2>2 DEF BeatRead, TypeOK
<1>9. ASSUME NEW w \in Workers, BeatWrite(w) PROVE TypeOK'
  <2>0. [jobs[workers[w].job] EXCEPT !.lease = workers[w].beat] \in JobRows
    <3>1. jobs[workers[w].job] \in JobRows /\ workers[w].beat \in Nat
      BY Fields
    <3> QED
      BY <3>1 DEF JobRows
  <2>1. jobs' \in [Jobs -> JobRows]
    BY <1>9, <2>0 DEF BeatWrite, TypeOK
  <2>2. workers' \in [Workers -> WorkerStates]
    BY <1>9, Fields, WorkerType DEF BeatWrite, TypeOK, NoLease
  <2> QED
    BY <1>9, <2>1, <2>2 DEF BeatWrite, TypeOK
<1>10. ASSUME NEW w \in Workers, WorkerFails(w) PROVE TypeOK'
  BY <1>10, IdleType, QueueAssumption DEF WorkerFails, Abandon, TypeOK
<1>11. ASSUME NEW c \in Caps, Touch(c) \/ Unlock(c) \/ LockWrite(c) PROVE TypeOK'
  BY <1>11, CapType DEF Touch, Unlock, LockWrite, TypeOK
<1>12. CASE LockCommit \/ LockFails
  <2>1. caps' \in [Caps -> Capabilities]
    BY <1>12, CapType DEF LockCommit, LockFails, TypeOK
  <2> QED
    BY <1>12, <2>1, QueueAssumption DEF LockCommit, LockFails, TypeOK
<1>13. CASE Restart
  BY <1>13, IdleType, QueueAssumption DEF Restart, Abandon, TypeOK
<1>14. CASE Tick
  BY <1>14 DEF Tick, TypeOK
<1>15. CASE UNCHANGED vars
  BY <1>15 DEF vars, TypeOK
<1> QED
  BY <1>1, <1>2, <1>3, <1>4, <1>5, <1>6, <1>7, <1>8, <1>9, <1>10, <1>11, <1>12, <1>13, <1>14, <1>15, <1>16
     DEF Next, WorkerStep

\* Rows, workers, capabilities and keys keep their shape.
THEOREM TypeCorrect == Spec => []TypeOK
<1> QED
  BY InitType, TypeStep, PTL DEF Spec

-----------------------------------------------------------------------------
(* The key gate *)

\* What the key cache promises the queue: a cached key belongs to a capability
\* that is live and that nobody is locking.
KeysAreLive ==
    /\ \A c \in locking : caps[c].status = "live"
    /\ \A c \in keys : caps[c].status = "live" /\ c \notin locking

LEMMA KeysInit == Init => KeysAreLive
  BY DEF Init, KeysAreLive

LEMMA KeysStep == TypeOK /\ KeysAreLive /\ [Next]_vars => KeysAreLive'
<1> SUFFICES ASSUME TypeOK, KeysAreLive, [Next]_vars PROVE KeysAreLive'
  OBVIOUS
<1> USE DEF KeysAreLive, TypeOK, Capabilities
<1>1. CASE UNCHANGED <<caps, keys, locking>>
  BY <1>1
<1>2. ASSUME NEW c \in Caps, Unlock(c) PROVE KeysAreLive'
  BY <1>2 DEF Unlock, Fresh
<1>3. ASSUME NEW c \in Caps, LockWrite(c) PROVE KeysAreLive'
  BY <1>3 DEF LockWrite
<1>4. CASE LockCommit \/ LockFails
  BY <1>4 DEF LockCommit, LockFails
<1>5. CASE Restart
  BY <1>5 DEF Restart
<1>6. ASSUME NEW c \in Caps, caps' = [caps EXCEPT ![c].expires = now + CapTTL], UNCHANGED <<keys, locking>>
      PROVE KeysAreLive'
  <2>1. \A x \in Caps : caps'[x].status = caps[x].status
    BY <1>6
  <2> QED
    BY <1>6, <2>1
<1>7. ASSUME NEW c \in Caps, Touch(c) PROVE KeysAreLive'
  BY <1>6, <1>7 DEF Touch
<1>8. ASSUME NEW j \in Jobs, Create(j) PROVE KeysAreLive'
  BY <1>6, <1>8 DEF Create
<1>9. \/ UNCHANGED <<caps, keys, locking>> \/ LockCommit \/ LockFails \/ Restart
      \/ \E j \in Jobs : Create(j)
      \/ \E c \in Caps : Touch(c) \/ Unlock(c) \/ LockWrite(c)
  BY DEF Next, vars, CreatePlain, WorkerStep, ClaimRead, ClaimWrite, ReadCapability, ReadKey, MarkBlocked,
         Finish, BeatRead, BeatWrite, WorkerFails, Tick
<1> QED
  BY <1>1, <1>2, <1>3, <1>4, <1>5, <1>7, <1>8, <1>9

\* A worker goes from the key check to work only by finding the key.
LEMMA CheckFindsKey ==
  ASSUME TypeOK, [Next]_vars, NEW w \in Workers, workers[w].pc = "keycheck", workers'[w].pc = "checked"
  PROVE  Cached(jobs[workers[w].job].cap)
<1> USE Fields DEF TypeOK
<1>1. ASSUME NEW v \in Workers, ReadKey(v) PROVE Cached(jobs[workers[w].job].cap)
  <2>1. v = w
    BY <1>1 DEF ReadKey, Goto
  <2>2. workers'[w].pc = IF Cached(jobs[workers[w].job].cap) THEN "checked" ELSE "blocking"
    BY <1>1, <2>1 DEF ReadKey, Goto, WorkerStates
  <2> QED
    BY <2>2
<1>2. CASE UNCHANGED workers
  BY <1>2
<1>3. ASSUME NEW v \in Workers, ClaimRead(v) \/ ClaimWrite(v) \/ ReadCapability(v)
                                \/ MarkBlocked(v) \/ Finish(v) \/ BeatRead(v) \/ BeatWrite(v) \/ WorkerFails(v)
      PROVE FALSE
  BY <1>3 DEF ClaimRead, ClaimWrite, ReadCapability, Ready, Goto, MarkBlocked, Finish, BeatRead, BeatWrite,
              WorkerFails, IdleWorker, WorkerStates
<1>4. CASE Restart
  BY <1>4 DEF Restart, IdleWorker
<1> QED
  BY <1>1, <1>2, <1>3, <1>4 DEF Next, vars, WorkerStep, Create, CreatePlain, Touch, Unlock, LockWrite, LockCommit, LockFails, Tick

\* An encrypted job is worked on only if its capability was not revoked and its
\* session had not expired at the moment the worker went ahead, whatever happened
\* since it read the row.
THEOREM CheckedWhileUnlockedAlways == Spec => CheckedWhileUnlocked
<1>1. Init => TypeOK /\ KeysAreLive
  BY InitType, KeysInit
<1>2. TypeOK /\ KeysAreLive /\ [Next]_vars => TypeOK' /\ KeysAreLive'
  BY TypeStep, KeysStep
<1>3. TypeOK /\ KeysAreLive /\ [Next]_vars =>
        [\A w \in Workers : workers[w].pc = "keycheck" /\ workers'[w].pc = "checked" =>
            LET c == caps[jobs[workers[w].job].cap] IN c.status = "live" /\ c.until > now]_vars
  BY CheckFindsKey DEF KeysAreLive, Cached
<1> QED
  BY <1>1, <1>2, <1>3, PTL DEF Spec, CheckedWhileUnlocked

-----------------------------------------------------------------------------
(* No job is lost between two workers *)

LEMMA HasWorkerInit == Init => RunningJobHasWorker
  BY DEF Init, RunningJobHasWorker

\* A worker that keeps working on the job it had keeps the job covered.
LEMMA StillCovered ==
  ASSUME TypeOK, RunningJobHasWorker, UNCHANGED abandoned,
         \A v \in Workers : workers[v].pc \in Working =>
             workers'[v].pc \in Working /\ workers'[v].job = workers[v].job,
         \A j \in Jobs : jobs'[j].status = "running" => jobs[j].status = "running"
  PROVE  RunningJobHasWorker'
<1> SUFFICES ASSUME NEW j \in Jobs \ abandoned', jobs'[j].status = "running"
             PROVE  WorkingOn(j)' # {}
  BY DEF RunningJobHasWorker
<1>1. PICK v \in Workers : workers[v].pc \in Working /\ workers[v].job = j
  BY DEF RunningJobHasWorker, WorkingOn
<1> QED
  BY <1>1 DEF WorkingOn

\* A worker that leaves its job leaves it in another status than running.
LEMMA LeavingCovers ==
  ASSUME TypeOK, RunningJobHasWorker, UNCHANGED abandoned, NEW w \in Workers,
         workers' = [workers EXCEPT ![w] = IdleWorker],
         jobs'[workers[w].job].status # "running",
         \A j \in Jobs \ {workers[w].job} : jobs'[j] = jobs[j]
  PROVE  RunningJobHasWorker'
<1> SUFFICES ASSUME NEW j \in Jobs \ abandoned', jobs'[j].status = "running"
             PROVE  WorkingOn(j)' # {}
  BY DEF RunningJobHasWorker
<1>1. j # workers[w].job /\ jobs[j].status = "running"
  BY Fields
<1>2. PICK v \in Workers : workers[v].pc \in Working /\ workers[v].job = j
  BY <1>1 DEF RunningJobHasWorker, WorkingOn
<1>3. v # w /\ workers'[v] = workers[v]
  BY <1>1, <1>2 DEF TypeOK
<1> QED
  BY <1>2, <1>3 DEF WorkingOn

\* When workers fail, the jobs nobody else works on are abandoned.
LEMMA FailureAbandons ==
  ASSUME TypeOK, RunningJobHasWorker, NEW W \in SUBSET Workers, Abandon(W), UNCHANGED jobs,
         \A v \in Workers \ W : workers'[v] = workers[v]
  PROVE  RunningJobHasWorker'
<1> SUFFICES ASSUME NEW j \in Jobs \ abandoned', jobs'[j].status = "running"
             PROVE  WorkingOn(j)' # {}
  BY DEF RunningJobHasWorker
<1>1. WorkingOn(j) # {}
  BY DEF RunningJobHasWorker, Abandon
<1>2. PICK v \in WorkingOn(j) : v \notin W
  BY <1>1 DEF Abandon
<1> QED
  BY <1>2 DEF WorkingOn

LEMMA HasWorkerStep == TypeOK /\ RunningJobHasWorker /\ [Next]_vars => RunningJobHasWorker'
<1> SUFFICES ASSUME TypeOK, RunningJobHasWorker, [Next]_vars PROVE RunningJobHasWorker'
  OBVIOUS
<1> USE Fields DEF TypeOK, WorkerStates, JobRows
<1>1. ASSUME NEW j \in Jobs, Create(j) \/ CreatePlain(j) PROVE RunningJobHasWorker'
  <2>1. jobs'[j].status = "queued" /\ \A i \in Jobs \ {j} : jobs'[i] = jobs[i]
    <3>1. CASE CreatePlain(j)
      BY <3>1 DEF CreatePlain
    <3>2. CASE Create(j)
      <4>1. PICK c \in Caps :
              jobs' = [jobs EXCEPT ![j].status = "queued", ![j].encrypted = TRUE, ![j].cap = c, ![j].until = caps[c].until]
        BY <3>2 DEF Create
      <4>2. jobs' = [jobs EXCEPT ![j] = [jobs[j] EXCEPT !.status = "queued", !.encrypted = TRUE, !.cap = c, !.until = caps[c].until]]
        BY <4>1
      <4> QED
        BY <4>2
    <3> QED
      BY <1>1, <3>1, <3>2
  <2>2. UNCHANGED <<workers, abandoned>>
    BY <1>1 DEF Create, CreatePlain
  <2> QED
    BY <2>1, <2>2, StillCovered
<1>2. ASSUME NEW w \in Workers, ClaimRead(w) PROVE RunningJobHasWorker'
  BY <1>2, StillCovered DEF ClaimRead, Working
<1>3. ASSUME NEW w \in Workers, ClaimWrite(w) PROVE RunningJobHasWorker'
  <2> SUFFICES ASSUME NEW j \in Jobs \ abandoned', jobs'[j].status = "running"
               PROVE  WorkingOn(j)' # {}
    BY DEF RunningJobHasWorker
  <2>1. workers'[w].pc \in Working /\ workers'[w].job = workers[w].job
    BY <1>3 DEF ClaimWrite, Working
  <2>2. CASE j = workers[w].job
    BY <2>1, <2>2 DEF WorkingOn
  <2>3. CASE j # workers[w].job
    <3>1. jobs[j].status = "running" /\ j \notin abandoned
      BY <1>3, <2>3 DEF ClaimWrite
    <3>2. PICK v \in Workers : workers[v].pc \in Working /\ workers[v].job = j
      BY <3>1 DEF RunningJobHasWorker, WorkingOn
    <3>3. workers'[v] = workers[v]
      BY <1>3, <3>2, <2>3 DEF ClaimWrite, Working
    <3> QED
      BY <3>2, <3>3 DEF WorkingOn
  <2> QED
    BY <2>2, <2>3
<1>4. ASSUME NEW w \in Workers, ReadCapability(w) \/ ReadKey(w) PROVE RunningJobHasWorker'
  <2>1. PICK p \in Working : workers' = [workers EXCEPT ![w].pc = p]
    BY <1>4 DEF ReadCapability, ReadKey, Goto, Working
  <2>2. UNCHANGED <<jobs, abandoned>>
    BY <1>4 DEF ReadCapability, ReadKey
  <2> QED
    BY <2>1, <2>2, StillCovered
<1>5. ASSUME NEW w \in Workers, MarkBlocked(w) \/ Finish(w) PROVE RunningJobHasWorker'
  <2>1. UNCHANGED abandoned /\ workers' = [workers EXCEPT ![w] = IdleWorker]
    BY <1>5 DEF MarkBlocked, Finish
  <2>2. jobs'[workers[w].job].status # "running"
    <3> DEFINE row == jobs[workers[w].job]
    <3>1. row \in JobRows /\ workers[w].job \in Jobs
      BY Fields
    <3>2. CASE MarkBlocked(w)
      <4>1. [row EXCEPT !.status = "retrying", !.owner = Nobody, !.lease = NoLease].status = "retrying"
        BY <3>1
      <4> QED
        BY <3>1, <3>2, <4>1 DEF MarkBlocked, PutBack
    <3>3. CASE Finish(w)
      BY <3>1, <3>3 DEF Finish
    <3> QED
      BY <1>5, <3>2, <3>3
  <2>3. \A j \in Jobs \ {workers[w].job} : jobs'[j] = jobs[j]
    BY <1>5 DEF MarkBlocked, PutBack, Finish
  <2> QED
    BY <2>1, <2>2, <2>3, LeavingCovers
<1>6. ASSUME NEW w \in Workers, BeatRead(w) \/ BeatWrite(w) PROVE RunningJobHasWorker'
  <2>2. \A v \in Workers : workers'[v].pc = workers[v].pc /\ workers'[v].job = workers[v].job
    <3>1. CASE BeatRead(w)
      BY <3>1 DEF BeatRead
    <3>2. CASE BeatWrite(w)
      BY <3>2 DEF BeatWrite
    <3> QED
      BY <1>6, <3>1, <3>2
  <2>3. \A j \in Jobs : jobs'[j].status = jobs[j].status
    BY <1>6 DEF BeatRead, BeatWrite
  <2>4. UNCHANGED abandoned
    BY <1>6 DEF BeatRead, BeatWrite
  <2> QED
    BY <2>2, <2>3, <2>4, StillCovered
<1>7. ASSUME NEW w \in Workers, WorkerFails(w) PROVE RunningJobHasWorker'
  <2>1. /\ Abandon({w}) /\ UNCHANGED jobs
        /\ \A v \in Workers \ {w} : workers'[v] = workers[v]
    BY <1>7 DEF WorkerFails
  <2> QED
    BY <2>1, FailureAbandons
<1>8. CASE Restart
  BY <1>8, FailureAbandons DEF Restart
<1>9. CASE UNCHANGED <<jobs, workers, abandoned>>
  BY <1>9, StillCovered
<1> QED
  BY <1>1, <1>2, <1>3, <1>4, <1>5, <1>6, <1>7, <1>8, <1>9
     DEF Next, WorkerStep, vars, Touch, Unlock, LockWrite, LockCommit, LockFails, Tick

\* Whatever the workers do to each other's rows, a running job has a worker on
\* it, or its last worker failed.
THEOREM RunningJobHasWorkerAlways == Spec => []RunningJobHasWorker
<1>1. Init => TypeOK /\ RunningJobHasWorker
  BY InitType, HasWorkerInit
<1>2. TypeOK /\ RunningJobHasWorker /\ [Next]_vars => TypeOK' /\ RunningJobHasWorker'
  BY TypeStep, HasWorkerStep
<1> QED
  BY <1>1, <1>2, PTL DEF Spec
=============================================================================
