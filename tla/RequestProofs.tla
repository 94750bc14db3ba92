----------------------------- MODULE RequestProofs -----------------------------
(***************************************************************************)
(* What is proved about two parts of the server that every burst of        *)
(* requests meets: the rate limiter in front of the routes, and the rows   *)
(* that overlapping requests look up and insert behind them.               *)
(*                                                                         *)
(* RateLimiter, for any clients, limits, window and length of a second.    *)
(* WindowHolds needs that what was served is still in the bucket, so the   *)
(* test of the bucket's length bounds it; RefusedOnlyAtLimit needs that    *)
(* the bucket keeps nothing else that is still fresh.  ToldToTheSecond     *)
(* needs that until a second after a promise is due the bucket has room,   *)
(* or a stamp that will have left it by then.                              *)
(*                                                                         *)
(* WorkspaceBridge, for any requests and tax years.                        *)
(***************************************************************************)
EXTENDS RateLimiter, WorkspaceBridge, FiniteSetTheorems, WellFoundedInduction, TLAPS

-----------------------------------------------------------------------------
(* The rate limiter: its invariant *)

Kept(b, a) == {t \in b : a[t] < Window}
HasRoom(S, k) == Cardinality(S) < MaxRequests[k[1]]

KeyInv(b, a, s, p, k) ==
    /\ s = Kept(b, a)
    /\ Cardinality(Kept(b, a)) <= MaxRequests[k[1]]
    /\ p # None => HasRoom(Kept(b, a), k) \/ \E t \in Kept(b, a) : a[t] + p + Second >= Window

LimiterInv == LimiterTypeOK /\ \A k \in Keys : KeyInv(bucket[k], age[k], served[k], promise[k], k)

-----------------------------------------------------------------------------
(* The rate limiter: arithmetic, and buckets as finite sets *)

\* The seconds that are told and the one that is cut off cover the wait.
LEMMA RoundedUp ==
  ASSUME NEW x \in 1 .. Window
  PROVE  /\ (x \div Second) * Second \in Promises
         /\ (x \div Second) * Second + Second >= x
<1> DEFINE q == x \div Second
<1>1. q \in Nat /\ q * Second <= x /\ x < q * Second + Second
  BY LimiterAssumption, SMTT(30)
<1> HIDE DEF q
<1>2. q * Second \in Nat
  BY <1>1, LimiterAssumption, SMTT(30)
<1> QED
  BY <1>1, <1>2, LimiterAssumption DEF q, Promises

LEMMA LeastNumber ==
  ASSUME NEW T \in SUBSET Nat, T # {}
  PROVE  \E m \in T : \A n \in T : m <= n
<1> DEFINE R == {ss \in Nat \X Nat : ss[1] < ss[2]}
<1>1. IsWellFoundedOn(R, Nat)
  BY NatLessThanWellFounded DEF OpToRel
<1>2. PICK m \in T : \A n \in T : ~ (<<n, m>> \in R)
  <2> HIDE DEF R
  <2> QED
    BY <1>1, WFMin
<1>3. ASSUME NEW n \in T PROVE m <= n
  <2>1. ~ (n < m)
    BY <1>2
  <2> QED
    BY <2>1
<1> QED
  BY <1>3

LEMMA KeptFinite ==
  ASSUME NEW b \in SUBSET Places, NEW a
  PROVE  IsFiniteSet(Kept(b, a)) /\ Cardinality(Kept(b, a)) \in Nat /\ Kept(b, a) \in SUBSET Places
<1>1. Kept(b, a) \in SUBSET Places
  BY DEF Kept
<1> QED
  BY <1>1, FS_Subset, FS_CardinalityType, LimiterAssumption

LEMMA MaxType == ASSUME NEW k \in Keys PROVE MaxRequests[k[1]] \in Nat \ {0}
  BY LimiterAssumption DEF Keys

\* A full bucket has an oldest stamp.
LEMMA OldestIsKept ==
  ASSUME LimiterTypeOK, NEW k \in Keys, Full(k)
  PROVE  Oldest(k) \in Fresh(k)
<1> DEFINE T == {Window - age[k][t] : t \in Fresh(k)}
<1>1. bucket[k] \in SUBSET Places /\ age[k] \in [Places -> 0 .. Window]
  BY DEF LimiterTypeOK
<1>2. Fresh(k) # {} /\ Fresh(k) \subseteq Places
  <2>1. Cardinality({}) = 0
    BY FS_EmptySet
  <2>2. ASSUME Fresh(k) = {} PROVE FALSE
    <3>1. Cardinality(Fresh(k)) = 0
      BY <2>1, <2>2
    <3> QED
      BY <3>1, MaxType DEF Full
  <2> QED
    BY <2>2, <1>1 DEF Fresh
<1>3. T \in SUBSET Nat /\ T # {}
  BY <1>1, <1>2, LimiterAssumption
<1>4. PICK m \in T : \A n \in T : m <= n
  BY <1>3, LeastNumber
<1>5. PICK t \in Fresh(k) : m = Window - age[k][t]
  BY <1>4
<1>6. ASSUME NEW u \in Fresh(k) PROVE age[k][u] <= age[k][t]
  <2>1. Window - age[k][t] <= Window - age[k][u]
    BY <1>4, <1>5
  <2>2. age[k][t] \in Nat /\ age[k][u] \in Nat
    BY <1>1, <1>2, <1>5
  <2> QED
    BY <2>1, <2>2, LimiterAssumption
<1> QED
  BY <1>5, <1>6 DEF Oldest

-----------------------------------------------------------------------------
(* The rate limiter: every step keeps the invariant *)

LEMMA LimiterInitInv == LimiterInit => LimiterInv
<1> SUFFICES ASSUME LimiterInit PROVE LimiterInv
  OBVIOUS
<1>1. LimiterTypeOK
  BY LimiterAssumption DEF LimiterInit, LimiterTypeOK, Keys
<1>2. ASSUME NEW k \in Keys PROVE KeyInv(bucket[k], age[k], served[k], promise[k], k)
  <2>1. Kept(bucket[k], age[k]) = {} /\ served[k] = {} /\ promise[k] = None
    BY DEF LimiterInit, Kept
  <2> QED
    BY <2>1, FS_EmptySet, MaxType DEF KeyInv
<1> QED
  BY <1>1, <1>2 DEF LimiterInv

LEMMA RefuseInv ==
  ASSUME LimiterInv, NEW k \in Keys, Full(k), Refuse(k)
  PROVE  LimiterInv'
<1>1. LimiterTypeOK /\ Oldest(k) \in Fresh(k)
  BY OldestIsKept DEF LimiterInv
<1>2. bucket[k] \in SUBSET Places /\ age[k] \in [Places -> 0 .. Window] /\ promise[k] \in Promises \union {None}
  BY <1>1 DEF LimiterTypeOK
<1>3. Fresh(k) = Kept(bucket[k], age[k]) /\ Kept(Fresh(k), age[k]) = Fresh(k) /\ Fresh(k) \in SUBSET Places
  BY <1>2 DEF Fresh, Kept
<1>4. Window - age[k][Oldest(k)] \in 1 .. Window
  BY <1>1, <1>2, LimiterAssumption DEF Fresh
<1>5. Promised(k) \in Promises /\ (promise[k] = None => age[k][Oldest(k)] + Promised(k) + Second >= Window)
  <2>1. CASE promise[k] = None
    <3> DEFINE x == Window - age[k][Oldest(k)]
    <3>1. (x \div Second) * Second \in Promises /\ (x \div Second) * Second + Second >= x
      BY <1>4, RoundedUp
    <3>2. Promised(k) = (x \div Second) * Second
      BY <2>1 DEF Promised, retry_after_seconds
    <3> QED
      BY <3>1, <3>2, <1>1, <1>2, <1>3, LimiterAssumption DEF Promises
  <2>2. CASE promise[k] # None
    BY <2>2, <1>2 DEF Promised
  <2> QED
    BY <2>1, <2>2
<1>6. LimiterTypeOK'
  BY <1>1, <1>3, <1>5 DEF Refuse, LimiterTypeOK
<1>7. ASSUME NEW j \in Keys PROVE KeyInv(bucket[j], age[j], served[j], promise[j], j)'
  <2>1. KeyInv(bucket[j], age[j], served[j], promise[j], j)
    BY DEF LimiterInv
  <2>2. CASE j # k
    BY <2>1, <2>2, <1>1 DEF Refuse, LimiterTypeOK, KeyInv, Kept, HasRoom
  <2>3. CASE j = k
    <3>1. bucket'[k] = Fresh(k) /\ age'[k] = age[k] /\ served'[k] = served[k] /\ promise'[k] = Promised(k)
      BY <1>1 DEF Refuse, LimiterTypeOK
    <3>2. Kept(bucket'[k], age'[k]) = Kept(bucket[k], age[k])
      BY <3>1, <1>3
    <3>3. promise[k] # None => Promised(k) = promise[k]
      BY DEF Promised
    <3> QED
      BY <2>1, <2>3, <3>1, <3>2, <3>3, <1>1, <1>3, <1>5 DEF KeyInv
  <2> QED
    BY <2>2, <2>3
<1> QED
  BY <1>6, <1>7 DEF LimiterInv

LEMMA AcceptInv ==
  ASSUME LimiterInv, NEW k \in Keys, ~Full(k), Accept(k)
  PROVE  LimiterInv'
<1> DEFINE stamp == CHOOSE t \in Free(k) : TRUE
<1>1. LimiterTypeOK
  BY DEF LimiterInv
<1>2. stamp \in Free(k) /\ stamp \in Places /\ stamp \notin Fresh(k) /\ stamp \notin served[k]
  BY DEF Accept, Free
<1> HIDE DEF stamp
<1>3. /\ bucket' = [bucket EXCEPT ![k] = Fresh(k) \union {stamp}]
      /\ age' = [age EXCEPT ![k][stamp] = 0]
      /\ served' = [served EXCEPT ![k] = @ \union {stamp}]
      /\ promise' = [promise EXCEPT ![k] = None]
  BY DEF Accept, stamp
<1>4. bucket[k] \in SUBSET Places /\ age[k] \in [Places -> 0 .. Window]
  BY <1>1 DEF LimiterTypeOK
<1>5. Fresh(k) = Kept(bucket[k], age[k]) /\ Fresh(k) \in SUBSET Places
  BY <1>4 DEF Fresh, Kept
<1>6. LimiterTypeOK'
  BY <1>1, <1>2, <1>3, <1>5, LimiterAssumption DEF LimiterTypeOK
<1>7. ASSUME NEW j \in Keys PROVE KeyInv(bucket[j], age[j], served[j], promise[j], j)'
  <2>1. KeyInv(bucket[j], age[j], served[j], promise[j], j)
    BY DEF LimiterInv
  <2>2. CASE j # k
    BY <2>1, <2>2, <1>1, <1>3 DEF LimiterTypeOK, KeyInv, Kept, HasRoom
  <2>3. CASE j = k
    <3>1. /\ bucket'[k] = Fresh(k) \union {stamp} /\ served'[k] = served[k] \union {stamp}
          /\ promise'[k] = None
          /\ age'[k] = [age[k] EXCEPT ![stamp] = 0]
      BY <1>1, <1>3 DEF LimiterTypeOK
    <3>2. Kept(bucket'[k], age'[k]) = Fresh(k) \union {stamp}
      BY <3>1, <1>2, <1>4, <1>5, LimiterAssumption DEF Kept
    <3>3. IsFiniteSet(Fresh(k)) /\ Cardinality(Fresh(k)) \in Nat
      BY <1>4, <1>5, KeptFinite
    <3>4. Cardinality(Fresh(k) \union {stamp}) = Cardinality(Fresh(k)) + 1
      BY <3>3, <1>2, FS_AddElement
    <3>5. Cardinality(Fresh(k)) < MaxRequests[k[1]]
      BY <3>3, MaxType DEF Full
    <3>6. KeyInv(bucket'[k], age'[k], served'[k], promise'[k], k)
      <4>1. served'[k] = Kept(bucket'[k], age'[k])
        BY <2>1, <2>3, <3>1, <3>2, <1>5 DEF KeyInv
      <4>2. Cardinality(Kept(bucket'[k], age'[k])) <= MaxRequests[k[1]]
        BY <3>2, <3>3, <3>4, <3>5, MaxType
      <4> QED
        BY <4>1, <4>2, <3>1 DEF KeyInv
    <3> QED
      BY <2>3, <3>6 DEF KeyInv, Kept, HasRoom
  <2> QED
    BY <2>2, <2>3
<1> QED
  BY <1>6, <1>7 DEF LimiterInv

\* Time only takes stamps out of a bucket, and the one a promise counts on is
\* gone when it is due.
LEMMA TickInv ==
  ASSUME LimiterInv, Tick
  PROVE  LimiterInv'
<1>1. LimiterTypeOK
  BY DEF LimiterInv
<1>2. LimiterTypeOK'
  <2>1. age' \in [Keys -> [Places -> 0 .. Window]]
    BY <1>1, LimiterAssumption DEF Tick, LimiterTypeOK, Older
  <2>2. promise' \in [Keys -> Promises \union {None}]
    <3>1. ASSUME NEW k \in Keys PROVE (IF promise[k] \in {None, -Second} THEN promise[k] ELSE promise[k] - 1) \in Promises \union {None}
      <4>1. promise[k] \in Promises \union {None}
        BY <1>1 DEF LimiterTypeOK
      <4>2. promise[k] \in Promises /\ promise[k] # -Second => promise[k] - 1 \in Promises
        BY LimiterAssumption DEF Promises
      <4> QED
        BY <4>1, <4>2
    <3> QED
      BY <3>1 DEF Tick
  <2> QED
    BY <1>1, <2>1, <2>2 DEF Tick, LimiterTypeOK
<1>3. ASSUME NEW k \in Keys PROVE KeyInv(bucket[k], age[k], served[k], promise[k], k)'
  <2> DEFINE K == Kept(bucket[k], age[k])
  <2> DEFINE L == Kept(bucket'[k], age'[k])
  <2>1. KeyInv(bucket[k], age[k], served[k], promise[k], k)
    BY DEF LimiterInv
  <2>2. /\ bucket'[k] = bucket[k] /\ bucket[k] \in SUBSET Places /\ age[k] \in [Places -> 0 .. Window]
        /\ \A t \in Places : age'[k][t] = Older(age[k][t])
        /\ served'[k] = {t \in served[k] : age'[k][t] < Window}
        /\ promise[k] \in Promises \union {None}
        /\ promise'[k] = IF promise[k] \in {None, -Second} THEN promise[k] ELSE promise[k] - 1
    BY <1>1 DEF Tick, LimiterTypeOK
  <2>3. \A t \in L : t \in K /\ age'[k][t] = age[k][t] + 1
    BY <2>2, LimiterAssumption DEF Kept, Older
  <2>4. served'[k] = L
    BY <2>1, <2>2, <2>3 DEF KeyInv, Kept
  <2>5. IsFiniteSet(K) /\ Cardinality(K) \in Nat /\ Cardinality(L) \in Nat
    BY <2>2, KeptFinite
  <2>6. Cardinality(L) <= Cardinality(K) /\ (L # K => Cardinality(L) < Cardinality(K))
    <3> HIDE DEF K, L
    <3>1. L \in SUBSET K
      BY <2>3
    <3> QED
      BY <2>5, <3>1, FS_Subset
  <2>7. promise'[k] # None => HasRoom(L, k) \/ \E t \in L : age'[k][t] + promise'[k] + Second >= Window
    <3> SUFFICES ASSUME promise'[k] # None, ~HasRoom(L, k)
                 PROVE  \E t \in L : age'[k][t] + promise'[k] + Second >= Window
      OBVIOUS
    <3>1. promise[k] # None /\ promise[k] \in Promises
      BY <2>2
    <3>2. L = K /\ ~HasRoom(K, k)
      BY <2>1, <2>5, <2>6, MaxType DEF KeyInv, HasRoom
    <3>3. PICK t \in K : age[k][t] + promise[k] + Second >= Window
      BY <2>1, <3>1, <3>2 DEF KeyInv
    <3>4. t \in L /\ age[k][t] \in 0 .. Window /\ age[k][t] < Window /\ age'[k][t] = age[k][t] + 1
      BY <2>2, <2>3, <3>2, <3>3 DEF Kept
    <3>5. promise[k] # -Second /\ promise'[k] = promise[k] - 1
      BY <2>2, <3>1, <3>3, <3>4, LimiterAssumption DEF Promises
    <3> QED
      BY <3>1, <3>3, <3>4, <3>5, LimiterAssumption DEF Promises
  <2> QED
    BY <2>1, <2>4, <2>5, <2>6, <2>7, MaxType DEF KeyInv
<1> QED
  BY <1>2, <1>3 DEF LimiterInv

LEMMA RestartInv ==
  ASSUME LimiterInv, Restart
  PROVE  LimiterInv'
<1>1. LimiterTypeOK'
  BY LimiterAssumption DEF LimiterInv, Restart, LimiterTypeOK
<1>2. ASSUME NEW k \in Keys PROVE KeyInv(bucket[k], age[k], served[k], promise[k], k)'
  <2>1. Kept(bucket'[k], age'[k]) = {} /\ served'[k] = {}
    BY DEF Restart, Kept
  <2> QED
    BY <2>1, FS_EmptySet, MaxType DEF KeyInv, HasRoom
<1> QED
  BY <1>1, <1>2 DEF LimiterInv

LEMMA LimiterNextInv == LimiterInv /\ [LimiterNext]_limiterVars => LimiterInv'
<1> SUFFICES ASSUME LimiterInv, [LimiterNext]_limiterVars PROVE LimiterInv'
  OBVIOUS
<1>1. ASSUME NEW ask \in Asks, dispatch(ask[1], ask[2]) PROVE LimiterInv'
  <2> DEFINE k == <<PatternOf(ask[2]), ask[1]>>
  <2>1. k \in Keys
    BY <1>1, LimiterAssumption DEF dispatch, PatternOf, Keys, Patterns
  <2>2. (Full(k) /\ Refuse(k)) \/ (~Full(k) /\ Accept(k))
    BY <1>1 DEF dispatch
  <2> HIDE DEF k
  <2> QED
    BY <2>1, <2>2, RefuseInv, AcceptInv
<1>2. CASE Tick
  BY <1>2, TickInv
<1>3. CASE Restart
  BY <1>3, RestartInv
<1>4. CASE UNCHANGED limiterVars
  BY <1>4 DEF limiterVars, LimiterInv, LimiterTypeOK, KeyInv, Kept, HasRoom
<1> QED
  BY <1>1, <1>2, <1>3, <1>4 DEF LimiterNext

LEMMA LimiterInvariance == LimiterSpec => []LimiterInv
  BY LimiterInitInv, LimiterNextInv, PTL DEF LimiterSpec

-----------------------------------------------------------------------------
(* The rate limiter: the results *)

\* For any limits and any window buckets and histories keep their shape, and no
\* client is told to wait for longer than the window.
THEOREM LimiterTypeCorrect == LimiterSpec => []LimiterTypeOK
<1>1. LimiterInv => LimiterTypeOK
  BY DEF LimiterInv
<1> QED
  BY <1>1, LimiterInvariance, PTL

\* For any limits and any window no window of time holds more served requests of
\* a client than the limit of their pattern.
THEOREM WindowAlwaysHolds == LimiterSpec => []WindowHolds
<1>1. LimiterInv => WindowHolds
  BY DEF LimiterInv, KeyInv, WindowHolds
<1> QED
  BY <1>1, LimiterInvariance, PTL

\* For any limits and any window a request is refused only while as many as the
\* limit were served: what fills a bucket is what was served in the window.
THEOREM RefusedAtLimit == LimiterSpec => []RefusedOnlyAtLimit
<1>1. LimiterInv => RefusedOnlyAtLimit
  <2> SUFFICES ASSUME LimiterInv, NEW k \in Keys, Full(k) PROVE Cardinality(served[k]) = MaxRequests[k[1]]
    BY DEF RefusedOnlyAtLimit
  <2>1. served[k] = Fresh(k) /\ bucket[k] \in SUBSET Places /\ Cardinality(Fresh(k)) <= MaxRequests[k[1]]
    BY DEF LimiterInv, KeyInv, LimiterTypeOK, Fresh, Kept
  <2>2. Cardinality(Fresh(k)) \in Nat
    BY <2>1, KeptFinite DEF Fresh, Kept
  <2> QED
    BY <2>1, <2>2, MaxType DEF Full
<1> QED
  BY <1>1, LimiterInvariance, PTL

\* For any length of the window and of a tick, what a refused client is told falls
\* short of the wait by less than a second.
THEOREM AlwaysToldToTheSecond == LimiterSpec => []ToldToTheSecond
<1>1. LimiterInv => ToldToTheSecond
  <2> SUFFICES ASSUME LimiterInv, NEW k \in Keys, promise[k] = -Second PROVE ~Full(k)
    BY DEF ToldToTheSecond
  <2> DEFINE K == Kept(bucket[k], age[k])
  <2>1. KeyInv(bucket[k], age[k], served[k], promise[k], k) /\ Fresh(k) = K
    BY DEF LimiterInv, Fresh, Kept
  <2>2. bucket[k] \in SUBSET Places /\ age[k] \in [Places -> 0 .. Window]
    BY DEF LimiterInv, LimiterTypeOK
  <2>3. ~ \E t \in K : age[k][t] + promise[k] + Second >= Window
    BY <2>2, LimiterAssumption DEF Kept
  <2>4. HasRoom(K, k)
    BY <2>1, <2>3, LimiterAssumption DEF KeyInv
  <2>5. Cardinality(K) \in Nat
    BY <2>2, KeptFinite
  <2>6. Cardinality(Fresh(k)) < MaxRequests[k[1]]
    BY <2>1, <2>4 DEF HasRoom
  <2> QED
    BY <2>1, <2>5, <2>6, MaxType DEF Full
<1> QED
  BY <1>1, LimiterInvariance, PTL

-----------------------------------------------------------------------------
(* Workspaces and bridges: type correctness *)

LEMMA InitType == Init => TypeOK
<1> SUFFICES ASSUME Init PROVE TypeOK
  OBVIOUS
<1> DEFINE y0 == CHOOSE y \in DefaultYears : TRUE
<1>1. y0 \in Years
  BY BridgeAssumption
<1>2. \A r \in Reqs : [owner |-> r, year |-> y0, by |-> r] \in WorkspaceRows
  BY <1>1 DEF WorkspaceRows
<1> HIDE DEF y0
<1>3. req = [r \in Reqs |-> [pc |-> "new", op |-> "none", found |-> FALSE,
                             row |-> [owner |-> r, year |-> y0, by |-> r]]]
  BY DEF Init, y0
<1>4. req \in [Reqs -> Requests]
  BY <1>2, <1>3 DEF Requests
<1> QED
  BY <1>4, BridgeAssumption DEF Init, TypeOK

\* What the actions do to the record of their request.
LEMMA PcType ==
  ASSUME TypeOK, NEW r \in Reqs
  PROVE  \A p \in {"written", "ended"} : [req EXCEPT ![r].pc = p] \in [Reqs -> Requests]
<1>1. req \in [Reqs -> Requests]
  BY DEF TypeOK
<1> QED
  BY <1>1 DEF Requests

LEMMA LookType ==
  ASSUME TypeOK, NEW r \in Reqs, NEW f \in BOOLEAN
  PROVE  /\ [req EXCEPT ![r].pc = "looked", ![r].found = f] \in [Reqs -> Requests]
         /\ [req EXCEPT ![r].pc = "looked", ![r].op = "setup", ![r].found = f] \in [Reqs -> Requests]
<1>1. req \in [Reqs -> Requests]
  BY DEF TypeOK
<1>2. req[r] \in Requests
  BY <1>1
<1>3. ASSUME NEW q \in Requests PROVE [req EXCEPT ![r] = q] \in [Reqs -> Requests]
  BY <1>1
<1>4. [req[r] EXCEPT !.pc = "looked", !.found = f] \in Requests
  BY <1>2 DEF Requests
<1>5. [req[r] EXCEPT !.pc = "looked", !.op = "setup", !.found = f] \in Requests
  BY <1>2 DEF Requests
<1> QED
  BY <1>1, <1>3, <1>4, <1>5

LEMMA EnterType ==
  ASSUME TypeOK, NEW r \in Reqs, NEW op \in {"list", "create", "open"}, NEW w \in WorkspaceRows,
         Enter(r, op, w)
  PROVE  /\ req' \in [Reqs -> Requests]
         /\ req'[r].pc = "touched" /\ req'[r].op = op /\ req'[r].row = w
         /\ \A s \in Reqs : s # r => req'[s] = req[s]
<1>1. req \in [Reqs -> Requests]
  BY DEF TypeOK
<1>2. req' = [req EXCEPT ![r].pc = "touched", ![r].op = op, ![r].row = w]
  BY DEF Enter
<1> DEFINE row == [req[r] EXCEPT !.pc = "touched", !.op = op, !.row = w]
<1>3. req' \in [Reqs -> Requests]
  <2>1. req[r] \in Requests
    BY <1>1
  <2>2. row \in Requests
    BY <2>1 DEF Requests
  <2>3. req' = [req EXCEPT ![r] = row]
    BY <1>1, <1>2
  <2> HIDE DEF row
  <2> QED
    BY <1>1, <2>2, <2>3
<1>4. req'[r].pc = "touched" /\ req'[r].op = op /\ req'[r].row = w
  BY <1>1, <1>2 DEF Requests
<1>5. \A s \in Reqs : s # r => req'[s] = req[s]
  BY <1>1, <1>2
<1> QED
  BY <1>3, <1>4, <1>5

\* What a touch chooses is a workspace of an existing user.
LEMMA TouchRow ==
  ASSUME TypeOK, NEW r \in Reqs, Touch(r)
  PROVE  \E op \in {"list", "create", "open"}, w \in WorkspaceRows :
            Enter(r, op, w) /\ w.owner \in users
<1>1. CASE \E u \in users, y \in Years, op \in {"list", "create"} :
              Enter(r, op, [owner |-> u, year |-> y, by |-> r])
  <2>1. PICK u \in users, y \in Years, op \in {"list", "create"} :
              Enter(r, op, [owner |-> u, year |-> y, by |-> r])
    BY <1>1
  <2> DEFINE w == [owner |-> u, year |-> y, by |-> r]
  <2>2. w \in WorkspaceRows /\ w.owner = u
    BY DEF WorkspaceRows, TypeOK
  <2> QED
    BY <2>1, <2>2
<1>2. CASE \E w \in workspaces : w.owner \in users /\ Enter(r, "open", w)
  BY <1>2 DEF TypeOK
<1> QED
  BY <1>1, <1>2 DEF Touch

LEMMA CommittedRows ==
  ASSUME TypeOK, NEW r \in Reqs
  PROVE  /\ CreatedUsers(r) \subseteq Reqs
         /\ CreatedWorkspaces(r) \subseteq WorkspaceRows
         /\ CreatedBridges(r) \subseteq BridgeRows
<1>1. req[r].row \in WorkspaceRows
  BY DEF TypeOK, Requests
<1>2. \A y \in DefaultYears : [owner |-> req[r].row.owner, year |-> y, by |-> r] \in WorkspaceRows
  BY <1>1, BridgeAssumption DEF WorkspaceRows
<1>3. CreatedWorkspaces(r) \subseteq WorkspaceRows
  BY <1>1, <1>2 DEF CreatedWorkspaces
<1>4. [ws |-> req[r].row, by |-> r] \in BridgeRows
  BY <1>1 DEF BridgeRows
<1> QED
  BY <1>3, <1>4 DEF CreatedUsers, CreatedBridges

LEMMA StepType == TypeOK /\ [Next]_vars => TypeOK'
<1> SUFFICES ASSUME TypeOK, [Next]_vars PROVE TypeOK'
  OBVIOUS
<1>1. CASE UNCHANGED vars
  BY <1>1 DEF TypeOK, vars
<1>2. ASSUME NEW r \in Reqs, SetupLook(r) PROVE TypeOK'
  <2> DEFINE f == users # {}
  <2>1. req' = [req EXCEPT ![r].pc = "looked", ![r].op = "setup", ![r].found = f]
    BY <1>2 DEF SetupLook
  <2>2. f \in BOOLEAN
    OBVIOUS
  <2> HIDE DEF f
  <2>3. req' \in [Reqs -> Requests]
    BY <2>1, <2>2, LookType
  <2>4. \A s \in Reqs : writer' = s => req'[s].pc \in {"touched", "looked", "written"}
    BY <1>2, <2>1 DEF SetupLook, TypeOK, Requests
  <2> QED
    BY <1>2, <2>3, <2>4 DEF SetupLook, TypeOK
<1>3. ASSUME NEW r \in Reqs, Touch(r) PROVE TypeOK'
  <2>1. PICK op \in {"list", "create", "open"}, w \in WorkspaceRows : Enter(r, op, w)
    BY <1>3, TouchRow
  <2>2. req' \in [Reqs -> Requests] /\ req'[r].pc = "touched"
    BY <2>1, EnterType
  <2>3. writer' = r
    BY <1>3 DEF Touch, Lock
  <2> QED
    BY <1>3, <2>2, <2>3, BridgeAssumption DEF Touch, TypeOK
<1>4. ASSUME NEW r \in Reqs, NEW rows, req[r].pc = "touched", Found(r, rows) PROVE TypeOK'
  <2> DEFINE f == rows # {}
  <2>1. req' = [req EXCEPT ![r].pc = "looked", ![r].found = f]
    BY <1>4 DEF Found
  <2>2. f \in BOOLEAN
    OBVIOUS
  <2> HIDE DEF f
  <2>3. req' \in [Reqs -> Requests]
    BY <2>1, <2>2, LookType
  <2>4. \A s \in Reqs : writer' = s => req'[s].pc \in {"touched", "looked", "written"}
    BY <1>4, <2>1 DEF Found, TypeOK, Requests
  <2> QED
    BY <1>4, <2>3, <2>4 DEF Found, TypeOK
<1>5. ASSUME NEW r \in Reqs, Insert(r) PROVE TypeOK'
  <2>1. req' \in [Reqs -> Requests]
    BY <1>5, PcType DEF Insert
  <2>2. req'[r].pc = "written" /\ writer' = r
    BY <1>5 DEF Insert, Lock, TypeOK
  <2> QED
    BY <1>5, <2>1, <2>2, BridgeAssumption DEF Insert, TypeOK
<1>6. ASSUME NEW r \in Reqs, Commit(r) PROVE TypeOK'
  <2>1. req' \in [Reqs -> Requests]
    BY <1>6, PcType DEF Commit
  <2> QED
    BY <1>6, <2>1, CommittedRows, BridgeAssumption DEF Commit, TypeOK
<1>7. ASSUME NEW r \in Reqs, Rollback(r) PROVE TypeOK'
  <2>1. req' \in [Reqs -> Requests]
    BY <1>7, PcType DEF Rollback
  <2> QED
    BY <1>7, <2>1, BridgeAssumption DEF Rollback, TypeOK
<1> QED
  BY <1>1, <1>2, <1>3, <1>4, <1>5, <1>6, <1>7
     DEF Next, ListLook, CreateLook, OpenLook, Touched

\* Rows and requests keep their shape, and an ended request has no lock.
THEOREM TypeCorrect == Spec => []TypeOK
<1> QED
  BY InitType, StepType, PTL DEF Spec

-----------------------------------------------------------------------------
(* Workspaces and bridges: one row per key.  The invariant says why nobody *)
(* can insert between a check and its insert: whoever is behind the guard  *)
(* holds the lock.                                                         *)

Guarded(r) == req[r].op \in {"list", "create", "open"}

\* A request behind the guard, and one that has inserted, holds the lock.
Holders ==
    \A r \in Reqs : \/ req[r].pc \in {"touched", "looked"} /\ Guarded(r)
                    \/ req[r].pc = "written"
                    => writer = r

\* Users come from ended setups, workspaces belong to users, requests work
\* for the user whose session they carry, a setup for the user it creates.
Owners ==
    /\ \A u \in users : req[u].pc = "ended"
    /\ \A w \in workspaces : w.owner \in users
    /\ \A r \in Reqs : /\ req[r].pc = "new" => req[r].row.owner = r
                       /\ req[r].pc \in {"touched", "looked", "written"} =>
                            \/ Guarded(r) /\ req[r].row.owner \in users
                            \/ req[r].op = "setup" /\ req[r].row.owner = r

\* What a check did not find is still not there.
Checked ==
    \A r \in Reqs : req[r].pc \in {"looked", "written"} /\ ~req[r].found =>
        /\ req[r].op = "open" => \A b \in bridges : b.ws # req[r].row
        /\ req[r].op = "create" =>
             \A w \in workspaces : ~(w.owner = req[r].row.owner /\ w.year = req[r].row.year)
        /\ req[r].op = "list" => \A w \in workspaces : w.owner # req[r].row.owner

RowsInv == TypeOK /\ Holders /\ Owners /\ Checked /\ OneBridge /\ OneWorkspacePerYear

LEMMA InitRows == Init => RowsInv
<1> SUFFICES ASSUME Init PROVE RowsInv
  OBVIOUS
<1>1. TypeOK
  BY InitType
<1>2. \A r \in Reqs : req[r].pc = "new" /\ req[r].row.owner = r
  BY DEF Init
<1> QED
  BY <1>1, <1>2 DEF Init, RowsInv, Holders, Owners, Checked, OneBridge, OneWorkspacePerYear

\* A request that only moves on, without touching the rows.
LEMMA LookRows ==
  ASSUME RowsInv, NEW r \in Reqs, NEW rows, Guarded(r), req[r].pc = "touched", Found(r, rows),
         rows = {} => /\ req[r].op = "open" => \A b \in bridges : b.ws # req[r].row
                      /\ req[r].op = "create" =>
                           \A w \in workspaces : ~(w.owner = req[r].row.owner /\ w.year = req[r].row.year)
                      /\ req[r].op = "list" => \A w \in workspaces : w.owner # req[r].row.owner
  PROVE  Holders' /\ Owners' /\ Checked' /\ OneBridge' /\ OneWorkspacePerYear'
<1> DEFINE f == rows # {}
<1>1. /\ req' = [req EXCEPT ![r].pc = "looked", ![r].found = f]
      /\ UNCHANGED <<users, workspaces, bridges, writer>>
  BY DEF Found
<1>2. /\ req'[r].pc = "looked" /\ req'[r].op = req[r].op /\ req'[r].row = req[r].row /\ req'[r].found = f
      /\ \A s \in Reqs : s # r => req'[s] = req[s]
  BY <1>1 DEF RowsInv, TypeOK, Requests
<1>3. ~f => rows = {}
  OBVIOUS
<1> HIDE DEF f
<1>4. Holders'
  BY <1>1, <1>2 DEF RowsInv, Holders, Guarded
<1>5. Owners'
  BY <1>1, <1>2 DEF RowsInv, Owners, Guarded, TypeOK
<1>6. ASSUME NEW s \in Reqs, req'[s].pc \in {"looked", "written"}, ~req'[s].found
      PROVE  /\ req[s].op = "open" => \A b \in bridges : b.ws # req[s].row
             /\ req[s].op = "create" =>
                  \A w \in workspaces : ~(w.owner = req[s].row.owner /\ w.year = req[s].row.year)
             /\ req[s].op = "list" => \A w \in workspaces : w.owner # req[s].row.owner
  <2>1. CASE s = r
    BY <1>2, <1>3, <1>6, <2>1
  <2>2. CASE s # r
    BY <1>2, <1>6, <2>2 DEF RowsInv, Checked
  <2> QED
    BY <2>1, <2>2
<1>7. \A s \in Reqs : req'[s].op = req[s].op /\ req'[s].row = req[s].row
  BY <1>2
<1>8. workspaces' = workspaces /\ bridges' = bridges
  BY <1>1
<1>9. Checked'
  BY <1>6, <1>7, <1>8 DEF Checked
<1> QED
  BY <1>1, <1>4, <1>5, <1>9 DEF RowsInv, OneBridge, OneWorkspacePerYear

LEMMA CommitRows ==
  ASSUME RowsInv, NEW r \in Reqs, Commit(r)
  PROVE  Holders' /\ Owners' /\ Checked' /\ OneBridge' /\ OneWorkspacePerYear'
<1>1. /\ req'[r].pc = "ended" /\ req'[r].op = req[r].op /\ req'[r].row = req[r].row
      /\ \A s \in Reqs : s # r => req'[s] = req[s]
  BY DEF Commit, RowsInv, TypeOK, Requests
<1>2. writer = r /\ req[r].pc = "written"
  BY DEF Commit, RowsInv, Holders
<1>3. \A s \in Reqs : s # r => /\ req[s].pc # "written"
                               /\ req[s].pc \in {"touched", "looked"} => ~Guarded(s)
  BY <1>2 DEF RowsInv, Holders
<1>4. \/ Guarded(r) /\ req[r].row.owner \in users
      \/ req[r].op = "setup" /\ req[r].row.owner = r /\ r \notin users
  BY <1>2 DEF RowsInv, Owners
<1>5. Holders'
  BY <1>1, <1>3 DEF Holders, Guarded
<1>6. \A w \in CreatedWorkspaces(r) : w.owner = req[r].row.owner
  BY DEF CreatedWorkspaces
<1>7. Owners'
  <2>1. \A u \in users' : req'[u].pc = "ended"
    BY <1>1 DEF Commit, CreatedUsers, RowsInv, Owners, TypeOK
  <2>2. \A w \in workspaces' : w.owner \in users'
    BY <1>4, <1>6 DEF Commit, CreatedUsers, RowsInv, Owners
  <2>3. users \subseteq users'
    BY DEF Commit
  <2> QED
    BY <1>1, <1>3, <2>1, <2>2, <2>3 DEF RowsInv, Owners, Guarded
<1>8. Checked'
  <2> SUFFICES ASSUME NEW s \in Reqs, req'[s].pc \in {"looked", "written"}, ~req'[s].found
               PROVE  req'[s].op \notin {"open", "create", "list"}
    BY DEF Checked
  <2>1. s # r /\ req'[s] = req[s]
    BY <1>1
  <2> QED
    BY <1>3, <2>1 DEF Guarded
<1>9. OneBridge'
  <2>1. \A b \in bridges, c \in CreatedBridges(r) : b.ws # c.ws
    BY <1>2 DEF CreatedBridges, RowsInv, Checked
  <2>2. \A b, c \in CreatedBridges(r) : b = c
    BY DEF CreatedBridges
  <2> QED
    BY <2>1, <2>2 DEF Commit, RowsInv, OneBridge
<1>10. OneWorkspacePerYear'
  <2>1. \A v, w \in CreatedWorkspaces(r) : v.year = w.year => v = w
    BY DEF CreatedWorkspaces
  <2>2. \A v \in workspaces, w \in CreatedWorkspaces(r) : ~(v.owner = w.owner /\ v.year = w.year)
    <3>1. CASE req[r].op = "setup"
      BY <1>4, <1>6, <3>1 DEF Guarded, RowsInv, Owners
    <3>2. CASE req[r].op = "create"
      BY <1>2, <3>2 DEF CreatedWorkspaces, RowsInv, Checked
    <3>3. CASE req[r].op = "list"
      BY <1>2, <1>6, <3>3 DEF CreatedWorkspaces, RowsInv, Checked
    <3>4. CASE req[r].op = "open"
      BY <3>4 DEF CreatedWorkspaces
    <3> QED
      BY <1>4, <3>1, <3>2, <3>3, <3>4 DEF Guarded
  <2> QED
    BY <2>1, <2>2 DEF Commit, RowsInv, OneWorkspacePerYear
<1> QED
  BY <1>5, <1>7, <1>8, <1>9, <1>10

LEMMA StepRows == RowsInv /\ [Next]_vars => RowsInv'
<1> SUFFICES ASSUME RowsInv, [Next]_vars PROVE RowsInv'
  OBVIOUS
<1> DEFINE Rest == Holders' /\ Owners' /\ Checked' /\ OneBridge' /\ OneWorkspacePerYear'
<1>1. TypeOK'
  BY StepType DEF RowsInv
<1>2. CASE UNCHANGED vars
  BY <1>1, <1>2 DEF RowsInv, Holders, Owners, Checked, Guarded, OneBridge, OneWorkspacePerYear, vars
<1>3. ASSUME NEW r \in Reqs, SetupLook(r) PROVE Rest
  <2>1. /\ req'[r].pc = "looked" /\ req'[r].op = "setup" /\ req'[r].row = req[r].row
        /\ \A s \in Reqs : s # r => req'[s] = req[s]
        /\ UNCHANGED <<users, workspaces, bridges, writer>>
    BY <1>3 DEF SetupLook, RowsInv, TypeOK, Requests
  <2>2. req[r].pc = "new"
    BY <1>3 DEF SetupLook
  <2> QED
    BY <2>1, <2>2 DEF RowsInv, Holders, Owners, Checked, Guarded, OneBridge, OneWorkspacePerYear, TypeOK
<1>4. ASSUME NEW r \in Reqs, Touch(r) PROVE Rest
  <2>1. PICK op \in {"list", "create", "open"}, w \in WorkspaceRows : Enter(r, op, w) /\ w.owner \in users
    BY <1>4, TouchRow DEF RowsInv
  <2>2. /\ req'[r].pc = "touched" /\ req'[r].op = op /\ req'[r].row = w
        /\ \A s \in Reqs : s # r => req'[s] = req[s]
    BY <2>1, EnterType DEF RowsInv
  <2>3. /\ req[r].pc = "new" /\ writer \in {NoReq, r} /\ writer' = r
        /\ UNCHANGED <<users, workspaces, bridges>>
    BY <1>4 DEF Touch, Lock
  <2>4. writer # r
    BY <2>3 DEF RowsInv, TypeOK
  <2>5. Holders'
    BY <2>2, <2>3, <2>4, BridgeAssumption DEF RowsInv, Holders, Guarded
  <2>6. Owners'
    BY <2>1, <2>2, <2>3 DEF RowsInv, Owners, Guarded, TypeOK
  <2>7. Checked'
    BY <2>2, <2>3 DEF RowsInv, Checked
  <2> QED
    BY <2>3, <2>5, <2>6, <2>7 DEF RowsInv, OneBridge, OneWorkspacePerYear
<1>5. ASSUME NEW r \in Reqs, ListLook(r) \/ CreateLook(r) \/ OpenLook(r) PROVE Rest
  <2>1. CASE ListLook(r)
    <3> DEFINE rows == {w \in workspaces : w.owner = req[r].row.owner}
    <3>1. Found(r, rows) /\ req[r].pc = "touched" /\ req[r].op = "list"
      BY <2>1 DEF ListLook, Touched
    <3>2. rows = {} => \A w \in workspaces : w.owner # req[r].row.owner
      OBVIOUS
    <3> HIDE DEF rows
    <3> QED
      BY <3>1, <3>2, LookRows DEF Guarded
  <2>2. CASE CreateLook(r)
    <3> DEFINE rows == {w \in workspaces : w.owner = req[r].row.owner /\ w.year = req[r].row.year}
    <3>1. Found(r, rows) /\ req[r].pc = "touched" /\ req[r].op = "create"
      BY <2>2 DEF CreateLook, Touched
    <3>2. rows = {} => \A w \in workspaces : ~(w.owner = req[r].row.owner /\ w.year = req[r].row.year)
      OBVIOUS
    <3> HIDE DEF rows
    <3> QED
      BY <3>1, <3>2, LookRows DEF Guarded
  <2>3. CASE OpenLook(r)
    <3> DEFINE rows == {b \in bridges : b.ws = req[r].row}
    <3>1. Found(r, rows) /\ req[r].pc = "touched" /\ req[r].op = "open"
      BY <2>3 DEF OpenLook, Touched
    <3>2. rows = {} => \A b \in bridges : b.ws # req[r].row
      OBVIOUS
    <3> HIDE DEF rows
    <3> QED
      BY <3>1, <3>2, LookRows DEF Guarded
  <2> QED
    BY <1>5, <2>1, <2>2, <2>3
<1>6. ASSUME NEW r \in Reqs, Insert(r) PROVE Rest
  <2>1. /\ req'[r].pc = "written" /\ req'[r].op = req[r].op /\ req'[r].row = req[r].row
        /\ req'[r].found = req[r].found
        /\ \A s \in Reqs : s # r => req'[s] = req[s]
    BY <1>6 DEF Insert, RowsInv, TypeOK, Requests
  <2>2. /\ req[r].pc = "looked" /\ writer \in {NoReq, r} /\ writer' = r
        /\ UNCHANGED <<users, workspaces, bridges>>
    BY <1>6 DEF Insert, Lock
  <2>3. Holders'
    BY <2>1, <2>2, BridgeAssumption DEF RowsInv, Holders, Guarded
  <2>4. Owners'
    BY <2>1, <2>2 DEF RowsInv, Owners, Guarded, TypeOK
  <2>5. Checked'
    BY <2>1, <2>2 DEF RowsInv, Checked
  <2> QED
    BY <2>2, <2>3, <2>4, <2>5 DEF RowsInv, OneBridge, OneWorkspacePerYear
<1>7. ASSUME NEW r \in Reqs, Commit(r) PROVE Rest
  BY <1>7, CommitRows
<1>8. ASSUME NEW r \in Reqs, Rollback(r) PROVE Rest
  <2>1. /\ req'[r].pc = "ended"
        /\ \A s \in Reqs : s # r => req'[s] = req[s]
        /\ UNCHANGED <<users, workspaces, bridges>>
    BY <1>8 DEF Rollback, RowsInv, TypeOK, Requests
  <2>2. \A s \in Reqs : s # r => (writer = s => writer' = s)
    BY <1>8 DEF Rollback
  <2>3. Holders'
    BY <2>1, <2>2 DEF RowsInv, Holders, Guarded
  <2>4. Owners'
    BY <2>1 DEF RowsInv, Owners, Guarded, TypeOK
  <2>5. Checked'
    BY <2>1 DEF RowsInv, Checked
  <2> QED
    BY <2>1, <2>3, <2>4, <2>5 DEF RowsInv, OneBridge, OneWorkspacePerYear
<1>9. CASE Next
  BY <1>1, <1>3, <1>4, <1>5, <1>6, <1>7, <1>8, <1>9 DEF Next, RowsInv
<1> QED
  BY <1>2, <1>9

LEMMA RowsAlways == Spec => []RowsInv
<1> QED
  BY InitRows, StepRows, PTL DEF Spec

\* A workspace never has two bridge sessions.
THEOREM OneBridgeAlways == Spec => []OneBridge
<1>1. RowsInv => OneBridge
  BY DEF RowsInv
<1> QED
  BY <1>1, RowsAlways, PTL

\* A user never has two workspaces of a tax year.
THEOREM OneWorkspacePerYearAlways == Spec => []OneWorkspacePerYear
<1>1. RowsInv => OneWorkspacePerYear
  BY DEF RowsInv
<1> QED
  BY <1>1, RowsAlways, PTL

-----------------------------------------------------------------------------
(* Workspaces and bridges: the registry is implemented.  Only a commit      *)
(* changes rows; it is a step of the registry because what the check found  *)
(* still holds (RowsInv), and because of where a request's row comes from.  *)

\* Rows were made by requests that have ended; whoever opens a workspace opens
\* one that exists, and the row a request would create is marked with it.
Origins ==
    /\ \A row \in workspaces \union bridges : req[row.by].pc = "ended"
    /\ \A r \in Reqs : req[r].pc \in {"touched", "looked", "written"} =>
         /\ req[r].op = "open" => req[r].row \in workspaces
         /\ req[r].op = "create" => req[r].row.by = r
    /\ \A r \in Reqs : req[r].pc = "written" /\ req[r].found => req[r].op \in {"list", "open"}

LEMMA OriginsInit == Init => Origins
  BY DEF Init, Origins

LEMMA OriginsStep == RowsInv /\ Origins /\ [Next]_vars => Origins'
<1> SUFFICES ASSUME RowsInv, Origins, [Next]_vars PROVE Origins'
  OBVIOUS
<1>1. ASSUME NEW r \in Reqs, UNCHANGED <<workspaces, bridges>>,
             \A s \in Reqs : s # r => req'[s] = req[s],
             req[r].pc # "ended",
             req'[r].pc \in {"touched", "looked", "written"} =>
               /\ req'[r].op = "open" => req'[r].row \in workspaces
               /\ req'[r].op = "create" => req'[r].row.by = r,
             req'[r].pc = "written" /\ req'[r].found => req'[r].op \in {"list", "open"}
      PROVE  Origins'
  <2>1. \A row \in workspaces \union bridges : row.by # r /\ row.by \in Reqs
    BY <1>1 DEF Origins, RowsInv, TypeOK, WorkspaceRows, BridgeRows
  <2> QED
    BY <1>1, <2>1 DEF Origins
<1>2. CASE UNCHANGED vars
  BY <1>2 DEF Origins, vars
<1>3. ASSUME NEW r \in Reqs, SetupLook(r) PROVE Origins'
  <2>1. /\ req[r].pc = "new" /\ req'[r].pc = "looked" /\ req'[r].op = "setup" /\ UNCHANGED <<workspaces, bridges>>
        /\ \A s \in Reqs : s # r => req'[s] = req[s]
    BY <1>3 DEF SetupLook, RowsInv, TypeOK, Requests
  <2> QED
    BY <1>1, <2>1
<1>4. ASSUME NEW r \in Reqs, Touch(r) PROVE Origins'
  <2>1. PICK op \in {"list", "create", "open"}, w \in WorkspaceRows :
               /\ Enter(r, op, w)
               /\ op = "open" => w \in workspaces
               /\ op = "create" => w.by = r
    <3>1. CASE \E u \in users, y \in Years, op \in {"list", "create"} :
                  Enter(r, op, [owner |-> u, year |-> y, by |-> r])
      <4>1. PICK u \in users, y \in Years, op \in {"list", "create"} :
                  Enter(r, op, [owner |-> u, year |-> y, by |-> r])
        BY <3>1
      <4>2. [owner |-> u, year |-> y, by |-> r] \in WorkspaceRows
        BY DEF WorkspaceRows, RowsInv, TypeOK
      <4> QED
        BY <4>1, <4>2
    <3>2. CASE \E w \in workspaces : w.owner \in users /\ Enter(r, "open", w)
      BY <3>2 DEF RowsInv, TypeOK
    <3> QED
      BY <1>4, <3>1, <3>2 DEF Touch
  <2>2. /\ req'[r].pc = "touched" /\ req'[r].op = op /\ req'[r].row = w
        /\ \A s \in Reqs : s # r => req'[s] = req[s]
    BY <2>1, EnterType DEF RowsInv
  <2>3. req[r].pc = "new" /\ UNCHANGED <<workspaces, bridges>>
    BY <1>4 DEF Touch
  <2> QED
    BY <1>1, <2>1, <2>2, <2>3
<1>5. ASSUME NEW r \in Reqs, ListLook(r) \/ CreateLook(r) \/ OpenLook(r) \/ Insert(r) \/ Rollback(r) PROVE Origins'
  <2>1. /\ req[r].pc \in {"touched", "looked", "written"}
        /\ req'[r].op = req[r].op /\ req'[r].row = req[r].row
        /\ req'[r].pc = "written" /\ req'[r].found => req'[r].op \in {"list", "open"}
        /\ \A s \in Reqs : s # r => req'[s] = req[s]
        /\ UNCHANGED <<workspaces, bridges>>
    BY <1>5 DEF ListLook, CreateLook, OpenLook, Touched, Found, Insert, Rollback, RowsInv, TypeOK, Requests
  <2> QED
    BY <1>1, <2>1 DEF Origins
<1>6. ASSUME NEW r \in Reqs, Commit(r) PROVE Origins'
  <2>1. /\ req[r].pc = "written" /\ req'[r].pc = "ended"
        /\ \A s \in Reqs : s # r => req'[s] = req[s]
    BY <1>6 DEF Commit, RowsInv, TypeOK, Requests
  <2>2. \A row \in CreatedWorkspaces(r) \union CreatedBridges(r) : row.by = r
    <3>1. req[r].op = "create" => req[r].row.by = r
      BY <2>1 DEF Origins
    <3>2. \A row \in CreatedWorkspaces(r) : row.by = r
      BY <3>1 DEF CreatedWorkspaces
    <3>3. \A row \in CreatedBridges(r) : row.by = r
      BY DEF CreatedBridges
    <3> QED
      BY <3>2, <3>3
  <2>3. \A row \in workspaces \union bridges : row.by \in Reqs
    BY DEF RowsInv, TypeOK, WorkspaceRows, BridgeRows
  <2>4. \A row \in workspaces' \union bridges' : req'[row.by].pc = "ended"
    BY <1>6, <2>1, <2>2, <2>3 DEF Commit, Origins
  <2>5. workspaces \subseteq workspaces'
    BY <1>6 DEF Commit
  <2> QED
    BY <2>1, <2>4, <2>5 DEF Origins
<1> QED
  BY <1>2, <1>3, <1>4, <1>5, <1>6 DEF Next

LEMMA RegistryStep ==
  ASSUME RowsInv, Origins, [Next]_vars PROVE [Registry!Next]_(Registry!vars)
<1>1. CASE UNCHANGED <<users, workspaces, bridges>>
  BY <1>1 DEF Registry!vars
<1>2. ASSUME NEW r \in Reqs, Commit(r) PROVE [Registry!Next]_(Registry!vars)
  <2>1. req[r].pc = "written" /\ writer = r
    BY <1>2 DEF Commit, RowsInv, Holders
  <2>2. Registry!Idle(r)
    <3>1. r \notin users
      BY <2>1 DEF RowsInv, Owners
    <3>2. \A row \in workspaces \union bridges : row.by # r
      BY <2>1 DEF Origins
    <3> QED
      BY <3>1, <3>2 DEF Registry!Idle
  <2>3. \A u \in Reqs : Registry!DefaultRows(u, r) = {[owner |-> u, year |-> y, by |-> r] : y \in DefaultYears}
    BY DEF Registry!DefaultRows
  <2>4. /\ users' = users \union CreatedUsers(r)
        /\ workspaces' = workspaces \union CreatedWorkspaces(r)
        /\ bridges' = bridges \union CreatedBridges(r)
    BY <1>2 DEF Commit
  <2>5. CASE req[r].op = "setup"
    <3>1. req[r].row.owner = r /\ ~req[r].found
      BY <2>1, <2>5 DEF RowsInv, Owners, Guarded, Origins
    <3>2. CreatedUsers(r) = {r} /\ CreatedWorkspaces(r) = Registry!DefaultRows(r, r) /\ CreatedBridges(r) = {}
      BY <2>3, <2>5, <3>1 DEF CreatedUsers, CreatedWorkspaces, CreatedBridges
    <3> QED
      BY <2>2, <2>4, <3>2 DEF Registry!SetUp, Registry!Next
  <2>6. CASE Guarded(r) /\ req[r].row.owner \in users
    <3> DEFINE u == req[r].row.owner
    <3>1. CreatedUsers(r) = {}
      BY <2>6 DEF CreatedUsers, Guarded
    <3>2. CASE req[r].found
      <4>1. CreatedWorkspaces(r) = {} /\ CreatedBridges(r) = {}
        BY <3>2 DEF CreatedWorkspaces, CreatedBridges
      <4> QED
        BY <2>4, <3>1, <4>1 DEF Registry!vars
    <3>3. CASE ~req[r].found /\ req[r].op = "list"
      <4>1. CreatedWorkspaces(r) = Registry!DefaultRows(u, r) /\ CreatedBridges(r) = {}
        BY <2>3, <3>3 DEF CreatedWorkspaces, CreatedBridges, RowsInv, TypeOK, Requests, WorkspaceRows
      <4>2. \A w \in workspaces : w.owner # u
        BY <2>1, <3>3 DEF RowsInv, Checked
      <4>3. Registry!Seed(u, r)
        BY <2>2, <2>4, <3>1, <4>1, <4>2 DEF Registry!Seed
      <4> QED
        BY <2>6, <4>3 DEF Registry!Next
    <3>4. CASE ~req[r].found /\ req[r].op = "create"
      <4> DEFINE y == req[r].row.year
      <4>1. CreatedWorkspaces(r) = {req[r].row} /\ CreatedBridges(r) = {}
        BY <3>4 DEF CreatedWorkspaces, CreatedBridges
      <4>2. req[r].row = [owner |-> u, year |-> y, by |-> r] /\ y \in Years
        <5>1. req[r].row \in WorkspaceRows
          BY DEF RowsInv, TypeOK, Requests
        <5>2. req[r].row.by = r
          BY <2>1, <3>4 DEF Origins
        <5> QED
          BY <5>1, <5>2 DEF WorkspaceRows
      <4>3. \A w \in workspaces : ~(w.owner = u /\ w.year = y)
        BY <2>1, <3>4 DEF RowsInv, Checked
      <4>4. Registry!Create(u, y, r)
        BY <2>2, <2>4, <3>1, <4>1, <4>2, <4>3 DEF Registry!Create
      <4> QED
        BY <2>6, <4>2, <4>4 DEF Registry!Next
    <3>5. CASE ~req[r].found /\ req[r].op = "open"
      <4> DEFINE w == req[r].row
      <4>1. CreatedWorkspaces(r) = {} /\ CreatedBridges(r) = {[ws |-> w, by |-> r]}
        BY <3>5 DEF CreatedWorkspaces, CreatedBridges
      <4>2. w \in workspaces
        BY <2>1, <3>5 DEF Origins
      <4>3. \A b \in bridges : b.ws # w
        BY <2>1, <3>5 DEF RowsInv, Checked
      <4>4. Registry!Open(w, r)
        BY <2>2, <2>4, <3>1, <4>1, <4>3 DEF Registry!Open
      <4> QED
        BY <4>2, <4>4 DEF Registry!Next
    <3> QED
      BY <2>6, <3>2, <3>3, <3>4, <3>5 DEF Guarded, RowsInv, TypeOK, Requests
  <2> QED
    BY <2>1, <2>5, <2>6 DEF RowsInv, Owners
<1>3. CASE UNCHANGED vars
  BY <1>1, <1>3 DEF vars
<1>4. CASE Next
  <2>1. PICK r \in Reqs : \/ SetupLook(r) \/ Touch(r) \/ ListLook(r) \/ CreateLook(r) \/ OpenLook(r)
                          \/ Insert(r) \/ Commit(r) \/ Rollback(r)
    BY <1>4 DEF Next
  <2>2. CASE Commit(r)
    BY <1>2, <2>2
  <2>3. CASE ~Commit(r)
    BY <1>1, <2>1, <2>3 DEF SetupLook, Touch, ListLook, CreateLook, OpenLook, Found, Insert, Rollback
  <2> QED
    BY <2>2, <2>3
<1> QED
  BY <1>3, <1>4

\* For any requests and years the checks and inserts of overlapping requests
\* implement the registry, in which a request looks and makes its rows at once.
THEOREM RegistryImplemented == Spec => ChecksAreAtomic
<1>1. Init => Registry!Init
  BY DEF Init, Registry!Init
<1> QED
  BY <1>1, RowsAlways, InitRows, StepRows, OriginsInit, OriginsStep, RegistryStep, PTL
     DEF Spec, ChecksAreAtomic, Registry!Spec
=============================================================================
