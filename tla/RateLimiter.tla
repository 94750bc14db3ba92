------------------------------ MODULE RateLimiter ------------------------------
(***************************************************************************)
(* The in-memory sliding window of middleware/rate_limit.py, with the      *)
(* limits main.py gives it.                                                *)
(*                                                                         *)
(* Requests of a client whose path matches a pattern are stamped and kept  *)
(* in the bucket of pattern and client; a request that finds the bucket    *)
(* full is answered 429 with the seconds to wait.  Nothing is awaited      *)
(* between the test and the append, so a request is one step.  A stamp is  *)
(* a place in the bucket with its age in ticks: the code only asks whether *)
(* a stamp is still inside the window, so an age stops there.              *)
(***************************************************************************)
EXTENDS Integers, FiniteSets

CONSTANTS
    Clients,      \* addresses; a request without one is not limited
    Asks,         \* which client asks for which path
    MaxRequests,  \* of each pattern
    Window,       \* window_seconds, in ticks
    Second,       \* ticks of a second
    Places,       \* as many stamps as a bucket can hold
    None

Patterns == {"/api/documents/upload", "/api/sessions", "/api/"}

ASSUME LimiterAssumption ==
    /\ MaxRequests \in [Patterns -> Nat \ {0}]
    /\ Window \in Nat \ {0} /\ Second \in Nat \ {0}
    /\ \A ask \in Asks : ask[1] \in Clients
    /\ IsFiniteSet(Places) /\ None \notin Int

VARIABLES
    bucket,   \* self._requests
    age,      \* of each stamp
    served,   \* history: the requests of the last Window that reached a route
    promise   \* history: ticks until the seconds a refused client was told are over

limiterVars == <<bucket, age, served, promise>>

Keys == Patterns \X Clients
Promises == -Second .. Window

\* One type invariant: buckets and histories have their shape, and nobody is told
\* to wait for longer than the window.  A promise is followed for a second after
\* it is due.
LimiterTypeOK ==
    /\ bucket \in [Keys -> SUBSET Places]
    /\ age \in [Keys -> [Places -> 0 .. Window]]
    /\ served \in [Keys -> SUBSET Places]
    /\ promise \in [Keys -> Promises \union {None}]

LimiterInit ==
    /\ bucket = [k \in Keys |-> {}]
    /\ age = [k \in Keys |-> [t \in Places |-> Window]]
    /\ served = [k \in Keys |-> {}]
    /\ promise = [k \in Keys |-> None]

\* Health checks and what is not under /api/ are not limited; otherwise the
\* first pattern that matches decides, and only that one counts the request.
PatternOf(path) ==
    IF path \in {"/api/health", "/docs"} THEN None
    ELSE IF path \in {"/api/documents/upload", "/api/sessions"} THEN path ELSE "/api/"

\* Mutation: a stamp leaves the bucket a second early.
FreshEarly(k) == {t \in bucket[k] : age[k][t] + Second < Window}

\* The stamps that are kept when old entries are cleaned.
Fresh(k) == {t \in bucket[k] : age[k][t] < Window}
Full(k) == Cardinality(Fresh(k)) >= MaxRequests[k[1]]
Oldest(k) == CHOOSE t \in Fresh(k) : \A u \in Fresh(k) : age[k][u] <= age[k][t]

\* Mutation: the time that has passed is returned, not the time to wait.
retry_after_elapsed(k) == age[k][Oldest(k)] \div Second

\* int(): the rest of the last second is cut off.
retry_after_seconds(k) == (Window - age[k][Oldest(k)]) \div Second

\* What the client is told the first time it is refused.
Promised(k) == IF promise[k] = None THEN retry_after_seconds(k) * Second ELSE promise[k]

\* Mutation: a request that is refused is stamped all the same, here in the
\* place of the oldest.
RefuseStamped(k) ==
    /\ bucket' = [bucket EXCEPT ![k] = Fresh(k)]
    /\ promise' = [promise EXCEPT ![k] = Promised(k)]
    /\ age' = [age EXCEPT ![k][Oldest(k)] = 0]
    /\ served' = [served EXCEPT ![k] = @ \ {Oldest(k)}]

Refuse(k) ==
    /\ bucket' = [bucket EXCEPT ![k] = Fresh(k)]
    /\ promise' = [promise EXCEPT ![k] = Promised(k)]
    /\ UNCHANGED <<age, served>>

\* A place is free when its stamp has been cleaned and is out of the history.
Free(k) == Places \ (Fresh(k) \union served[k])

Accept(k) ==
    LET stamp == CHOOSE t \in Free(k) : TRUE
    IN  /\ Free(k) # {}
        /\ bucket' = [bucket EXCEPT ![k] = Fresh(k) \union {stamp}]
        /\ age' = [age EXCEPT ![k][stamp] = 0]
        /\ served' = [served EXCEPT ![k] = @ \union {stamp}]
        /\ promise' = [promise EXCEPT ![k] = None]

dispatch(client, path) ==
    /\ PatternOf(path) # None
    /\ LET k == <<PatternOf(path), client>>
       IN  \/ Full(k) /\ Refuse(k)
           \/ ~Full(k) /\ Accept(k)

Older(a) == IF a < Window THEN a + 1 ELSE a

Tick ==
    /\ age' = [k \in Keys |-> [t \in Places |-> Older(age[k][t])]]
    /\ served' = [k \in Keys |-> {t \in served[k] : age'[k][t] < Window}]
    /\ promise' = [k \in Keys |-> IF promise[k] \in {None, -Second} THEN promise[k] ELSE promise[k] - 1]
    /\ UNCHANGED bucket

\* The buckets live in the process, and so does what they promise about it.
Restart ==
    /\ bucket' = [k \in Keys |-> {}]
    /\ served' = [k \in Keys |-> {}]
    /\ age' = [k \in Keys |-> [t \in Places |-> Window]]
    /\ UNCHANGED promise

LimiterNext ==
    \/ \E ask \in Asks : dispatch(ask[1], ask[2])
    \/ Tick
    \/ Restart

LimiterSpec == LimiterInit /\ [][LimiterNext]_limiterVars

\* The clock runs and every client keeps asking.
LimiterFairSpec == LimiterSpec /\ WF_limiterVars(Tick) /\ \A ask \in Asks : WF_limiterVars(dispatch(ask[1], ask[2]))

(***************************************************************************)
(* Properties                                                              *)
(***************************************************************************)

\* In no window of time, wherever it begins, does a process let more requests of
\* a client through to the routes of a pattern than its limit, although entries
\* are only cleaned when the client asks again.
WindowHolds == \A k \in Keys : Cardinality(served[k]) <= MaxRequests[k[1]]

\* A request is refused only while as many requests of the client as the limit
\* were served in the last window: refusals do not count, nor do entries that
\* nobody has cleaned, nor what another client or another pattern was asked.
RefusedOnlyAtLimit == \A k \in Keys : Full(k) => Cardinality(served[k]) = MaxRequests[k[1]]

\* What a refused client is told falls short of the wait by less than a second,
\* however often it asks in the meantime: whoever waits one second longer than
\* told is let through.
ToldToTheSecond == \A k \in Keys : promise[k] = -Second => ~Full(k)

\* A client that keeps asking, however fast, is served again and again: being
\* refused does not prolong the wait, nor does another client or pattern.
NobodyLockedOut ==
    \A ask \in Asks : PatternOf(ask[2]) # None =>
        LET k == <<PatternOf(ask[2]), ask[1]>> IN []<>(\E t \in served[k] : age[k][t] = 0)
=============================================================================
