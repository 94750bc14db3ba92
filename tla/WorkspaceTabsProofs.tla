-------------------------- MODULE WorkspaceTabsProofs --------------------------
(***************************************************************************)
(* For any number of tabs, calls, events and sessions: the state keeps its *)
(* shape and no tab shows the shell before the browser has entered.        *)
(*                                                                         *)
(* ShellHasSession is not inductive: a tab comes to the shell by an event  *)
(* or by an answer, so whatever is on its way must know of a session too.  *)
(***************************************************************************)
EXTENDS WorkspaceTabs, SequenceTheorems, TLAPS

USE TabsAssumption

Entries == {"unlock", "reset"}

\* What is under way and could open a shell carries a session, and the browser
\* never loses its cookie.
UnderWayHasSession ==
    /\ \A t \in Tabs : \A i \in 1..Len(events[t]) : events[t][i] = "unlocked" => cookie # 0
    /\ \A c \in calls :
          /\ c.kind \notin Entries /\ c.cookie # 0 => cookie # 0
          /\ Enters(c) => c.cookie # 0

Inv == TypeOK /\ ShellHasSession /\ UnderWayHasSession

(***************************************************************************)
(* Lemmas: the pieces the actions are made of                              *)
(***************************************************************************)
\* A call that is just sent is a call, whichever session it presents.
LEMMA CallType ==
    ASSUME TypeOK, NEW t \in Tabs, NEW k \in Background \union Clicks, NEW s \in 0..Len(sessions)
    PROVE  /\ Call(t, k, s) \in Calls
           /\ Call(t, k, s).cookie = s /\ Call(t, k, s).kind = k /\ Call(t, k, s).answer = "none"
           /\ ~Enters(Call(t, k, s))
<1>1. s \in 0..MaxEntries BY DEF TypeOK
<1>2. "none" \in Answers \union {"none"} OBVIOUS
<1>3. Call(t, k, s) = [tab |-> t, kind |-> k, cookie |-> s, answer |-> "none"] BY DEF Call
<1>4. Call(t, k, s) \in Calls BY <1>1, <1>2, <1>3 DEF Calls
<1> QED BY <1>3, <1>4 DEF Enters

\* What a tab loads when it comes to the shell.
LEMMA LoadsType ==
    ASSUME TypeOK, NEW t \in Tabs, NEW v, NEW s \in 0..Len(sessions), NEW c \in Loads(t, v, s)
    PROVE  c \in Calls /\ c.cookie = s /\ c.kind = "load" /\ ~Enters(c) /\ v = "UNLOCKED"
<1>1. c = Call(t, "load", s) /\ v = "UNLOCKED" BY DEF Loads
<1>2. "load" \in Background \union Clicks BY DEF Background
<1> QED BY <1>1, <1>2, CallType

\* A write adds at most its value to what the other tabs will hear.
LEMMA WriteType ==
    ASSUME TypeOK, NEW t \in Tabs, NEW value \in Statuses \union {"none"}, Write(t, value)
    PROVE  /\ key' \in Statuses \union {"none"}
           /\ events' \in [Tabs -> Seq(Statuses)]
           /\ \A u \in Tabs : Len(events'[u]) <= MaxEvents
           /\ \A u \in Tabs : \A i \in 1..Len(events'[u]) :
                 events'[u][i] = value \/ (i \in 1..Len(events[u]) /\ events'[u][i] = events[u][i])
<1>1. CASE value \in {"none", key} BY <1>1 DEF Write, TypeOK
<1>2. CASE value \notin {"none", key}
  <2>1. value \in Statuses /\ key' = value BY <1>2 DEF Write
  <2>2. \A u \in Tabs \ {t} : Len(events[u]) < MaxEvents BY <1>2 DEF Write
  <2>3. events' = [u \in Tabs |-> IF u = t THEN events[u] ELSE Append(events[u], value)]
    BY <1>2 DEF Write
  <2>4. events \in [Tabs -> Seq(Statuses)] /\ \A u \in Tabs : Len(events[u]) <= MaxEvents BY DEF TypeOK
  <2>5. ASSUME NEW u \in Tabs
        PROVE  /\ events'[u] \in Seq(Statuses) /\ Len(events'[u]) <= MaxEvents
               /\ \A i \in 1..Len(events'[u]) :
                     events'[u][i] = value \/ (i \in 1..Len(events[u]) /\ events'[u][i] = events[u][i])
    <3>1. CASE u = t BY <3>1, <2>3, <2>4
    <3>2. CASE u # t
      <4>1. events'[u] = Append(events[u], value) BY <3>2, <2>3
      <4>2. events[u] \in Seq(Statuses) /\ Len(events[u]) \in Nat BY <2>4
      <4>3. events'[u] \in Seq(Statuses) /\ Len(events'[u]) = Len(events[u]) + 1
        BY <4>1, <4>2, <2>1
      <4>4. \A i \in 1..Len(events'[u]) :
               events'[u][i] = IF i = Len(events[u]) + 1 THEN value ELSE events[u][i]
        BY <4>1, <4>2, <4>3, <2>1
      <4> QED BY <3>2, <4>2, <4>3, <4>4, <2>2
    <3> QED BY <3>1, <3>2
  <2>6. events' \in [Tabs -> Seq(Statuses)] BY <2>3, <2>5
  <2> QED BY <2>1, <2>5, <2>6
<1> QED BY <1>1, <1>2

\* An answered call is kept in the state only with its answer.
LEMMA AnsweredCalls ==
    ASSUME TypeOK, NEW c \in calls, NEW a \in Answers, NEW s \in 0..MaxEntries,
           Answered(c, a, s), NEW d \in calls'
    PROVE  \/ d \in calls
           \/ /\ d \in Calls /\ d.cookie = s /\ d.answer = a
              /\ d.kind = c.kind /\ d.tab = c.tab
<1> DEFINE r == [c EXCEPT !.answer = a, !.cookie = s]
<1>1. c \in Calls BY DEF TypeOK
<1>2. r \in Calls /\ r.cookie = s /\ r.answer = a /\ r.kind = c.kind /\ r.tab = c.tab
  BY <1>1 DEF Calls
<1>3. d \in calls \/ d = r BY DEF Answered
<1> QED BY <1>2, <1>3

(***************************************************************************)
(* The invariant                                                           *)
(***************************************************************************)
LEMMA InitInv == Init => Inv
<1> SUFFICES ASSUME Init PROVE Inv OBVIOUS
<1>1. sessions = <<>> /\ Len(sessions) = 0 /\ sessions \in Seq(Statuses) BY DEF Init
<1>2. \A c \in calls : c \in Calls /\ c.cookie = 0 /\ ~Enters(c)
  <2>1. ASSUME NEW c \in calls
        PROVE  c \in Calls /\ c.cookie = 0 /\ ~Enters(c)
    <3>1. PICK t \in Tabs : c = [tab |-> t, kind |-> "session", cookie |-> 0, answer |-> "none"]
      BY DEF Init, Call
    <3>2. "session" \in Background \union Clicks BY DEF Background
    <3>3. c \in Calls BY <3>1, <3>2 DEF Calls
    <3> QED BY <3>1, <3>3 DEF Enters
  <2> QED BY <2>1
<1>3. events \in [Tabs -> Seq(Statuses)] /\ \A t \in Tabs : events[t] = <<>> /\ Len(events[t]) = 0
  BY DEF Init
<1>4. view \in [Tabs -> Views] /\ \A t \in Tabs : ~InShell(t) BY DEF Init, Views, InShell
<1>5. TypeOK BY <1>1, <1>2, <1>3, <1>4 DEF Init, TypeOK
<1>6. ShellHasSession /\ UnderWayHasSession
  BY <1>2, <1>3, <1>4 DEF ShellHasSession, UnderWayHasSession
<1> QED BY <1>5, <1>6 DEF Inv

LEMMA HandleEventInv == ASSUME Inv, NEW t \in Tabs, HandleEvent(t) PROVE Inv'
<1> USE DEF Inv
<1> DEFINE v == EventView(Head(events[t]))
<1>1. events \in [Tabs -> Seq(Statuses)] /\ events[t] # <<>> BY DEF HandleEvent, TypeOK
<1>2. /\ Head(events[t]) = events[t][1] /\ 1 \in 1..Len(events[t]) /\ Head(events[t]) \in Statuses
      /\ Tail(events[t]) \in Seq(Statuses) /\ Len(Tail(events[t])) = Len(events[t]) - 1
      /\ \A i \in 1..Len(Tail(events[t])) : i + 1 \in 1..Len(events[t]) /\ Tail(events[t])[i] = events[t][i + 1]
  BY <1>1
<1>3. v \in Views /\ (v = "UNLOCKED" => cookie # 0)
  BY <1>2 DEF EventView, Statuses, Views, UnderWayHasSession
<1>4. cookie \in 0..Len(sessions) BY DEF TypeOK
<1>5. \A c \in calls' : c \in calls \/ (c \in Calls /\ c.cookie = cookie /\ ~Enters(c))
  BY <1>4, LoadsType DEF HandleEvent
<1>6. /\ view' = [view EXCEPT ![t] = v] /\ events' = [events EXCEPT ![t] = Tail(@)]
      /\ UNCHANGED <<sessions, cookie, key, reloads>>
  BY DEF HandleEvent
<1>7. TypeOK'
  <2>1. view' \in [Tabs -> Views] BY <1>3, <1>6 DEF TypeOK
  <2>2. events' \in [Tabs -> Seq(Statuses)] /\ \A u \in Tabs : Len(events'[u]) <= MaxEvents
    BY <1>1, <1>2, <1>6 DEF TypeOK
  <2>3. calls' \subseteq Calls /\ \A c \in calls' : c.cookie <= Len(sessions)
    BY <1>4, <1>5 DEF TypeOK
  <2> QED BY <1>6, <2>1, <2>2, <2>3 DEF TypeOK
<1>8. ShellHasSession' BY <1>3, <1>6 DEF ShellHasSession, InShell, TypeOK
<1>9. UnderWayHasSession'
  <2>1. ASSUME NEW u \in Tabs, NEW i \in 1..Len(events'[u]), events'[u][i] = "unlocked" PROVE cookie' # 0
    BY <1>1, <1>2, <1>6, <2>1 DEF UnderWayHasSession
  <2>2. ASSUME NEW c \in calls'
        PROVE  (c.kind \notin Entries /\ c.cookie # 0 => cookie' # 0) /\ (Enters(c) => c.cookie # 0)
    BY <1>5, <1>6 DEF UnderWayHasSession
  <2> QED BY <2>1, <2>2 DEF UnderWayHasSession, Enters
<1> QED BY <1>7, <1>8, <1>9

\* The actions that send calls and change the view, and leave the sessions, the
\* cookie, the key and the events as they are.
LEMMA SendInv ==
    ASSUME Inv, UNCHANGED <<sessions, cookie, key, reloads, events>>,
           view' \in [Tabs -> Views], \A t \in Tabs : InShell(t)' => InShell(t),
           \A c \in calls' : c \in calls \/ (c \in Calls /\ c.cookie = cookie /\ ~Enters(c))
    PROVE  Inv'
<1> USE DEF Inv
<1>1. cookie \in 0..Len(sessions) BY DEF TypeOK
<1>2. calls' \subseteq Calls /\ \A c \in calls' : c.cookie <= Len(sessions)
  BY <1>1 DEF TypeOK
<1>3. TypeOK' BY <1>2 DEF TypeOK
<1>4. ShellHasSession' BY DEF ShellHasSession
<1>5. \A c \in calls' : (c.kind \notin Entries /\ c.cookie # 0 => cookie # 0) /\ (Enters(c) => c.cookie # 0)
  BY DEF UnderWayHasSession
<1>6. UnderWayHasSession' BY <1>5 DEF UnderWayHasSession, Enters
<1> QED BY <1>3, <1>4, <1>6

LEMMA PollInv == ASSUME Inv, NEW t \in Tabs, Poll(t) PROVE Inv'
<1>1. "poll" \in Background \union Clicks BY DEF Background
<1>2. cookie \in 0..Len(sessions) /\ view \in [Tabs -> Views] BY DEF Inv, TypeOK
<1>3. \A c \in calls' : c \in calls \/ (c \in Calls /\ c.cookie = cookie /\ ~Enters(c))
  BY <1>1, <1>2, CallType DEF Inv, Poll
<1> QED BY <1>2, <1>3, SendInv DEF Poll, InShell

LEMMA ClickInv ==
    ASSUME Inv, NEW t \in Tabs, NEW v, NEW kind \in Clicks, Click(t, v, kind), v \in Views,
           UNCHANGED <<key, events>>, view' \in {view, [view EXCEPT ![t] = "UNLOCKING"]}
    PROVE  Inv'
<1>1. cookie \in 0..Len(sessions) /\ view \in [Tabs -> Views] BY DEF Inv, TypeOK
<1>2. \A c \in calls' : c \in calls \/ (c \in Calls /\ c.cookie = cookie /\ ~Enters(c))
  BY <1>1, CallType DEF Inv, Click
<1>3. view' \in [Tabs -> Views] /\ \A u \in Tabs : InShell(u)' => InShell(u)
  BY <1>1 DEF Views, InShell
<1> QED BY <1>2, <1>3, SendInv DEF Click

LEMMA ReturnInv == ASSUME Inv, NEW t \in Tabs, ReturnToUnlock(t) PROVE Inv'
<1>1. view \in [Tabs -> Views] BY DEF Inv, TypeOK
<1>2. view' \in [Tabs -> Views] /\ \A u \in Tabs : InShell(u)' => InShell(u)
  BY <1>1 DEF Views, InShell, ReturnToUnlock
<1> QED BY <1>2, SendInv DEF ReturnToUnlock

LEMMA ReloadInv == ASSUME Inv, NEW t \in Tabs, Reload(t) PROVE Inv'
<1> USE DEF Inv
<1>1. cookie \in 0..Len(sessions) /\ Len(sessions) \in Nat /\ reloads \in Nat BY DEF TypeOK
<1>2. "session" \in Background \union Clicks /\ "keepalive" \in Background \union Clicks
  BY DEF Background
<1>3. \A c \in calls' : c \in calls \/ (c \in Calls /\ c.cookie = cookie /\ ~Enters(c))
  BY <1>1, <1>2, CallType DEF Reload
<1>4. /\ view' = [view EXCEPT ![t] = "UNLOCKING"] /\ events' = [events EXCEPT ![t] = <<>>]
      /\ reloads' = reloads + 1 /\ Len(sessions) + reloads < MaxEntries
      /\ UNCHANGED <<sessions, cookie, key>>
  BY DEF Reload
<1>5. events' \in [Tabs -> Seq(Statuses)] /\ \A u \in Tabs : events'[u] = <<>> \/ events'[u] = events[u]
  BY <1>4 DEF TypeOK
<1>6. TypeOK'
  <2>1. view' \in [Tabs -> Views] BY <1>4 DEF TypeOK, Views
  <2>2. calls' \subseteq Calls /\ \A c \in calls' : c.cookie <= Len(sessions) BY <1>1, <1>3 DEF TypeOK
  <2>3. \A u \in Tabs : Len(events'[u]) <= MaxEvents BY <1>5 DEF TypeOK
  <2> QED BY <1>1, <1>4, <1>5, <2>1, <2>2, <2>3 DEF TypeOK
<1>7. ShellHasSession' BY <1>4 DEF ShellHasSession, InShell, TypeOK
<1>8. UnderWayHasSession'
  <2>1. ASSUME NEW u \in Tabs, NEW i \in 1..Len(events'[u]), events'[u][i] = "unlocked" PROVE cookie' # 0
    BY <1>4, <1>5, <2>1 DEF UnderWayHasSession
  <2>2. ASSUME NEW c \in calls'
        PROVE  (c.kind \notin Entries /\ c.cookie # 0 => cookie' # 0) /\ (Enters(c) => c.cookie # 0)
    BY <1>3, <1>4 DEF UnderWayHasSession
  <2> QED BY <2>1, <2>2 DEF UnderWayHasSession, Enters
<1> QED BY <1>6, <1>7, <1>8

\* The backend answers or the network fails: the screens, the key and what the
\* tabs have heard stay as they are.
LEMMA AnswerInv ==
    ASSUME Inv, NEW c \in calls, NEW a \in Answers, NEW s \in 0..Len(sessions'), Answered(c, a, s),
           UNCHANGED <<cookie, key, view, events, reloads>>,
           sessions' \in Seq(Statuses), Len(sessions') + reloads <= MaxEntries,
           Len(sessions) <= Len(sessions'),
           s = c.cookie \/ c.kind \in Entries,
           a = "unlocked" => s # 0
    PROVE  Inv'
<1> USE DEF Inv
<1>1. reloads \in Nat /\ Len(sessions) \in Nat /\ Len(sessions') \in Nat BY DEF TypeOK
<1>2. s \in 0..MaxEntries BY <1>1
<1>3. \A d \in calls' : \/ d \in calls
                        \/ d \in Calls /\ d.cookie = s /\ d.answer = a /\ d.kind = c.kind
  BY <1>2, AnsweredCalls
<1>4. TypeOK'
  <2>1. calls' \subseteq Calls BY <1>3 DEF TypeOK
  <2>2. ASSUME NEW d \in calls' PROVE d.cookie <= Len(sessions')
    <3>1. CASE d \in calls
      <4>1. d \in Calls /\ d.cookie <= Len(sessions) BY <3>1 DEF TypeOK
      <4>2. d.cookie \in Nat BY <4>1 DEF Calls
      <4> QED BY <4>1, <4>2, <1>1
    <3>2. CASE d.cookie = s BY <3>2
    <3> QED BY <1>3, <3>1, <3>2
  <2>3. cookie \in 0..Len(sessions') BY <1>1 DEF TypeOK
  <2> QED BY <1>1, <2>1, <2>2, <2>3 DEF TypeOK
<1>5. ShellHasSession' BY DEF ShellHasSession, InShell
<1>6. ASSUME NEW d \in calls'
      PROVE  (d.kind \notin Entries /\ d.cookie # 0 => cookie # 0) /\ (Enters(d) => d.cookie # 0)
  <2>1. CASE d \in calls BY <2>1 DEF UnderWayHasSession
  <2>2. CASE d.cookie = s /\ d.answer = a /\ d.kind = c.kind
    <3>1. d.kind \notin Entries /\ d.cookie # 0 => cookie # 0 BY <2>2 DEF UnderWayHasSession
    <3>2. Enters(d) => d.cookie # 0 BY <2>2 DEF Enters
    <3> QED BY <3>1, <3>2
  <2> QED BY <1>3, <2>1, <2>2
<1>7. UnderWayHasSession' BY <1>6 DEF UnderWayHasSession, Enters
<1> QED BY <1>4, <1>5, <1>7

LEMMA ServeInv == ASSUME Inv, NEW c \in calls, Serve(c) PROVE Inv'
<1> USE DEF Inv
<1>1. /\ c \in Calls /\ c.cookie \in 0..Len(sessions) /\ Len(sessions) \in Nat /\ reloads \in Nat
      /\ sessions \in Seq(Statuses) /\ Len(sessions) + reloads <= MaxEntries
  BY DEF TypeOK, Calls
<1>2. UNCHANGED <<cookie, key, view, events, reloads>> BY DEF Serve
<1>3. CASE ServeRead(c)
  <2>1. UNCHANGED sessions BY <1>3 DEF ServeRead
  <2>2. PICK a \in Answers : Answered(c, a, c.cookie) /\ (a = "unlocked" => c.cookie # 0)
    <3>1. Status(c.cookie) \in Answers /\ (c.cookie = 0 => Status(c.cookie) = "nobody")
      BY <1>1 DEF Status, Answers
    <3>2. "ok" \in Answers /\ "refused" \in Answers BY DEF Answers
    <3> QED BY <1>3, <3>1, <3>2 DEF ServeRead
  <2> QED BY <1>1, <1>2, <2>1, <2>2, AnswerInv
<1>4. CASE ServeLock(c)
  <2>1. "ok" \in Answers BY DEF Answers
  <2>2. sessions' \in Seq(Statuses) /\ Len(sessions') = Len(sessions)
    <3>1. sessions' = [s \in 1..Len(sessions) |->
                         IF s = c.cookie /\ sessions[s] = "unlocked" THEN "locked" ELSE sessions[s]]
      BY <1>1, <1>4 DEF ServeLock
    <3>2. \A s \in 1..Len(sessions) : sessions'[s] \in Statuses BY <1>1, <3>1 DEF Statuses
    <3> QED BY <1>1, <3>1, <3>2
  <2>3. Answered(c, "ok", c.cookie) BY <1>4 DEF ServeLock
  <2> QED BY <1>1, <1>2, <2>1, <2>2, <2>3, AnswerInv
<1>5. CASE ServeEntry(c)
  <2>1. c.kind \in Entries BY <1>5 DEF ServeEntry, Entries
  <2>2. CASE Answered(c, "refused", c.cookie) /\ UNCHANGED sessions
    <3>1. "refused" \in Answers BY DEF Answers
    <3> QED BY <1>1, <1>2, <2>2, <3>1, AnswerInv
  <2>3. CASE /\ Len(sessions) + reloads < MaxEntries
             /\ sessions' = Append(IF c.kind = "reset" THEN [s \in DOMAIN sessions |-> "expired"] ELSE sessions,
                                   "unlocked")
             /\ Answered(c, "unlocked", Len(sessions) + 1)
    <3> DEFINE before == IF c.kind = "reset" THEN [s \in 1..Len(sessions) |-> "expired"] ELSE sessions
    <3>1. "unlocked" \in Answers /\ "unlocked" \in Statuses BY DEF Answers, Statuses
    <3>2. before \in Seq(Statuses) /\ Len(before) = Len(sessions) BY <1>1 DEF Statuses
    <3>3. sessions' = Append(before, "unlocked") BY <1>1, <2>3
    <3>4. sessions' \in Seq(Statuses) /\ Len(sessions') = Len(sessions) + 1 BY <3>1, <3>2, <3>3
    <3> QED BY <1>1, <1>2, <2>1, <2>3, <3>1, <3>4, AnswerInv
  <2> QED BY <1>5, <2>2, <2>3 DEF ServeEntry
<1> QED BY <1>3, <1>4, <1>5 DEF Serve

LEMMA LoseInv == ASSUME Inv, NEW c \in calls, Lose(c) PROVE Inv'
<1>1. /\ c.cookie \in 0..Len(sessions) /\ Len(sessions) \in Nat
      /\ sessions \in Seq(Statuses) /\ Len(sessions) + reloads <= MaxEntries
  BY DEF Inv, TypeOK, Calls
<1>2. "failed" \in Answers BY DEF Answers
<1> QED BY <1>1, <1>2, AnswerInv DEF Lose

LEMMA AgeInv == ASSUME Inv, NEW s \in DOMAIN sessions, Age(s) PROVE Inv'
<1> USE DEF Inv
<1>1. sessions \in Seq(Statuses) BY DEF TypeOK
<1>2. PICK st \in Statuses : sessions' = [sessions EXCEPT ![s] = st] BY DEF Age, Statuses
<1>3. sessions' \in Seq(Statuses) /\ Len(sessions') = Len(sessions) BY <1>1, <1>2
<1>4. UNCHANGED <<cookie, key, view, events, calls, reloads>> BY DEF Age
<1>5. TypeOK' BY <1>3, <1>4 DEF TypeOK
<1>6. ShellHasSession' BY <1>4 DEF ShellHasSession, InShell
<1>7. UnderWayHasSession' BY <1>4 DEF UnderWayHasSession, Enters
<1> QED BY <1>5, <1>6, <1>7

LEMMA HandleInv == ASSUME Inv, NEW c \in calls, Handle(c) PROVE Inv'
<1> USE DEF Inv
<1>1. c \in Calls /\ c.cookie \in 0..Len(sessions) /\ c.tab \in Tabs BY DEF TypeOK, Calls
<1>2. /\ sessions \in Seq(Statuses) /\ view \in [Tabs -> Views] /\ cookie \in 0..Len(sessions)
      /\ Len(sessions) \in Nat /\ events \in [Tabs -> Seq(Statuses)] /\ calls \subseteq Calls
  BY DEF TypeOK
<1>3. UNCHANGED <<sessions, reloads>> BY DEF Handle
\* The cookie: an entry sets it, nothing clears it.
<1>4. /\ cookie' = IF c.kind \in Entries /\ Enters(c) THEN c.cookie ELSE cookie
      /\ cookie' \in 0..Len(sessions) /\ (cookie # 0 => cookie' # 0) /\ (Enters(c) => cookie' # 0)
  <2>1. cookie' = IF c.kind \in Entries /\ Enters(c) THEN c.cookie ELSE cookie
    BY DEF Handle, Entries
  <2>2. Enters(c) => c.cookie # 0 /\ (c.kind \notin Entries => cookie # 0) BY DEF UnderWayHasSession
  <2> QED BY <1>1, <1>2, <2>1, <2>2
<1>5. PICK listFailed \in BOOLEAN, quiet \in BOOLEAN :
        LET v == IF listFailed THEN "LOCKED" ELSE Shown(c)
        IN  /\ view' = [view EXCEPT ![c.tab] = v]
            /\ calls' = (calls \ {c}) \union Loads(c.tab, v, cookie')
            /\ Write(c.tab, CASE quiet -> "none" [] listFailed -> "locked" [] OTHER -> Written(c))
  <2>1. LosesList(c) \in BOOLEAN /\ (c.kind = "lock") \in BOOLEAN BY DEF LosesList
  <2> QED BY <2>1 DEF Handle
<1> DEFINE v == IF listFailed THEN "LOCKED" ELSE Shown(c)
           value == CASE quiet -> "none" [] listFailed -> "locked" [] OTHER -> Written(c)
<1>6. v \in Views /\ (v = "UNLOCKED" => Enters(c) \/ InShell(c.tab))
  BY <1>1, <1>2 DEF Shown, Views, InShell
<1>7. value \in Statuses \union {"none"} /\ (value = "unlocked" => Enters(c))
  <2>1. Written(c) \in Statuses \union {"none"} /\ (Written(c) = "unlocked" => Enters(c))
    BY DEF Written, Statuses
  <2> QED BY <2>1 DEF Statuses
<1>8. Write(c.tab, value) BY <1>5
<1>9. \A d \in calls' : d \in calls \/ (d \in Calls /\ d.cookie = cookie' /\ ~Enters(d))
  BY <1>1, <1>4, <1>5, LoadsType
<1>10. TypeOK'
  <2>1. view' \in [Tabs -> Views] BY <1>2, <1>5, <1>6
  <2>2. calls' \subseteq Calls /\ \A d \in calls' : d.cookie <= Len(sessions)
    BY <1>4, <1>9 DEF TypeOK
  <2>3. /\ key' \in Statuses \union {"none"} /\ events' \in [Tabs -> Seq(Statuses)]
        /\ \A u \in Tabs : Len(events'[u]) <= MaxEvents
    BY <1>1, <1>7, <1>8, WriteType
  <2> QED BY <1>3, <1>4, <2>1, <2>2, <2>3 DEF TypeOK
<1>11. ShellHasSession'
  <2>1. ASSUME NEW u \in Tabs, view'[u] = "UNLOCKED" PROVE cookie' # 0
    <3>1. CASE u = c.tab
      <4>1. v = "UNLOCKED" BY <1>2, <1>5, <2>1, <3>1
      <4> QED BY <1>1, <1>4, <1>6, <4>1 DEF ShellHasSession
    <3>2. CASE u # c.tab
      <4>1. InShell(u) BY <1>2, <1>5, <2>1, <3>2 DEF InShell
      <4> QED BY <1>4, <4>1 DEF ShellHasSession
    <3> QED BY <3>1, <3>2
  <2> QED BY <2>1 DEF ShellHasSession, InShell
<1>12. UnderWayHasSession'
  <2>1. ASSUME NEW u \in Tabs, NEW i \in 1..Len(events'[u]), events'[u][i] = "unlocked" PROVE cookie' # 0
    <3>1. \/ events'[u][i] = value
          \/ i \in 1..Len(events[u]) /\ events'[u][i] = events[u][i]
      BY <1>1, <1>7, <1>8, WriteType
    <3>2. CASE value = "unlocked" BY <1>4, <1>7, <3>2
    <3>3. CASE i \in 1..Len(events[u]) /\ events[u][i] = "unlocked"
      BY <1>4, <3>3 DEF UnderWayHasSession
    <3> QED BY <2>1, <3>1, <3>2, <3>3
  <2>2. ASSUME NEW d \in calls'
        PROVE  (d.kind \notin Entries /\ d.cookie # 0 => cookie' # 0) /\ (Enters(d) => d.cookie # 0)
    BY <1>4, <1>9 DEF UnderWayHasSession
  <2> QED BY <2>1, <2>2 DEF UnderWayHasSession, Enters
<1> QED BY <1>10, <1>11, <1>12

\* What the two theorems below rest on: every step of the browser and of the
\* backend keeps the invariant.
LEMMA NextInv == ASSUME Inv, [Next]_vars PROVE Inv'
<1>1. CASE UNCHANGED vars
  BY <1>1 DEF vars, Inv, TypeOK, ShellHasSession, InShell, UnderWayHasSession, Enters
<1>2. ASSUME NEW t \in Tabs, ClickInShell(t) PROVE Inv'
  <2>1. PICK kind \in Clicks : Click(t, "UNLOCKED", kind) BY <1>2 DEF ClickInShell, Clicks
  <2>2. "UNLOCKED" \in Views BY DEF Views
  <2> QED BY <1>2, <2>1, <2>2, ClickInv DEF ClickInShell
<1>3. ASSUME NEW t \in Tabs, SubmitPassword(t) \/ SubmitRecovery(t) PROVE Inv'
  <2>1. PICK kind \in Clicks : Click(t, "LOCKED", kind)
    BY <1>3 DEF SubmitPassword, SubmitRecovery, Clicks
  <2>2. "LOCKED" \in Views BY DEF Views
  <2>3. view' \in {view, [view EXCEPT ![t] = "UNLOCKING"]} /\ UNCHANGED <<key, events>>
    BY <1>3 DEF SubmitPassword, SubmitRecovery
  <2> QED BY <2>1, <2>2, <2>3, ClickInv
<1>4. ASSUME Next PROVE Inv'
  BY <1>2, <1>3, <1>4, HandleEventInv, PollInv, ReturnInv, ReloadInv, ServeInv, LoseInv, HandleInv, AgeInv
     DEF Next
<1> QED BY <1>1, <1>4

LEMMA Invariance == Spec => []Inv
<1> QED BY InitInv, NextInv, PTL DEF Spec

(***************************************************************************)
(* The theorems                                                            *)
(***************************************************************************)
\* The state keeps its shape and its bounds: an event is never taken for a
\* screen, a call never presents a session that was not opened.
THEOREM TypeCorrect == Spec => []TypeOK
<1> QED BY Invariance, PTL DEF Inv

\* No tab shows the shell before the browser has entered, whatever answers and
\* events overtake one another.
THEOREM ShellHasSessionAlways == Spec => []ShellHasSession
<1> QED BY Invariance, PTL DEF Inv
=============================================================================
