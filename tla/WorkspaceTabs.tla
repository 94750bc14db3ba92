---------------------------- MODULE WorkspaceTabs ----------------------------
(***************************************************************************)
(* The tabs of one browser: which screen each shows, and how it learns     *)
(* that another tab, or time, has locked, expired or unlocked the          *)
(* workspace (frontend/components/workspace/WorkspaceApp.tsx, lib/api.ts). *)
(*                                                                         *)
(* Tabs share a cookie and a localStorage key.  A call is sent, answered   *)
(* and handled in three steps, and its handler runs whatever the tab shows *)
(* by then.  A write that changes the key becomes an event in every other  *)
(* tab.  A local user exists: the setup form is left out.  The backend is  *)
(* kept to what its routes answer for a session (UnlockSession has more).  *)
(***************************************************************************)
EXTENDS Naturals, Sequences, FiniteSets

CONSTANTS
    Tabs,          \* tabs of the browser
    Active,        \* bound: the tabs the user works in
    MaxEntries,    \* bound: sessions opened and page reloads together
    MaxCalls,      \* bound: calls under way when a poll or a click adds one
    MaxEvents      \* bound: storage events a tab has not handled

ASSUME TabsAssumption ==
    /\ Active \subseteq Tabs
    /\ MaxEntries \in Nat /\ MaxCalls \in Nat /\ MaxEvents \in Nat

VARIABLES
    sessions,      \* what /api/auth/session would answer for each session opened
    cookie,        \* the session the browser presents, 0 for none
    key,           \* localStorage taxai_auth_event
    view,          \* the screen of each tab (authState)
    events,        \* storage events on their way to each tab
    calls,         \* calls under way
    reloads

vars == <<sessions, cookie, key, view, events, calls, reloads>>

Statuses == {"unlocked", "locked", "expired"}
Views == {"UNLOCKING", "LOCKED", "SESSION_EXPIRED", "UNLOCKED"}

\* load: what the shell fetches when it comes up (the list of workspaces, then
\* the data of the selected one); review: what a click in the shell asks for.
Background == {"session", "poll", "load", "keepalive"}
Clicks == {"review", "lock", "unlock", "reset"}
\* refused: 400, 401 or 423; failed: no answer, or a 500.
Answers == Statuses \union {"ok", "nobody", "refused", "failed"}
Calls == [tab : Tabs, kind : Background \union Clicks, cookie : 0..MaxEntries,
          answer : Answers \union {"none"}]

TypeOK ==
    /\ sessions \in Seq(Statuses) /\ Len(sessions) + reloads <= MaxEntries
    /\ cookie \in 0..Len(sessions)
    /\ key \in Statuses \union {"none"}
    /\ view \in [Tabs -> Views]
    /\ events \in [Tabs -> Seq(Statuses)] /\ \A t \in Tabs : Len(events[t]) <= MaxEvents
    /\ calls \subseteq Calls /\ \A c \in calls : c.cookie <= Len(sessions)
    /\ reloads \in Nat

Call(t, k, s) == [tab |-> t, kind |-> k, cookie |-> s, answer |-> "none"]
CallsOf(t, kinds) == {c \in calls : c.tab = t /\ c.kind \in kinds}
InShell(t) == view[t] = "UNLOCKED"

Init ==
    /\ sessions = <<>> /\ cookie = 0
    /\ key = "none"
    /\ view = [t \in Tabs |-> "UNLOCKING"]
    /\ events = [t \in Tabs |-> <<>>]
    /\ calls = {Call(t, "session", 0) : t \in Tabs}
    /\ reloads = 0

(***************************************************************************)
(* Screens and storage                                                     *)
(***************************************************************************)
\* The effects that run when a tab comes to the shell.  Setting the state it
\* already has does nothing in React.
Loads(t, v, s) == IF v = "UNLOCKED" /\ ~InShell(t) THEN {Call(t, "load", s)} ELSE {}

\* setItem: the other tabs hear of it if the value changed.
Write(t, value) ==
    IF value \in {"none", key} THEN UNCHANGED <<key, events>>
    ELSE /\ \A u \in Tabs \ {t} : Len(events[u]) < MaxEvents
         /\ key' = value
         /\ events' = [u \in Tabs |-> IF u = t THEN events[u] ELSE Append(events[u], value)]

EventView(value) ==
    CASE value = "locked" -> "LOCKED"
      [] value = "expired" -> "SESSION_EXPIRED"
      [] value = "unlocked" -> "UNLOCKED"

HandleEvent(t) ==
    /\ events[t] # <<>>
    /\ LET v == EventView(Head(events[t]))
       IN  /\ view' = [view EXCEPT ![t] = v]
           /\ calls' = calls \union Loads(t, v, cookie)
    /\ events' = [events EXCEPT ![t] = Tail(@)]
    /\ UNCHANGED <<sessions, cookie, key, reloads>>

(***************************************************************************)
(* The user and the timer                                                  *)
(***************************************************************************)
\* setInterval, while the shell is shown.  Bound: one poll under way.
Poll(t) ==
    /\ InShell(t) /\ CallsOf(t, {"poll"}) = {} /\ Cardinality(calls) < MaxCalls
    /\ calls' = calls \union {Call(t, "poll", cookie)}
    /\ UNCHANGED <<sessions, cookie, key, view, events, reloads>>

\* Bound: one click under way in each tab.
Click(t, v, kind) ==
    /\ t \in Active /\ view[t] = v /\ CallsOf(t, Clicks) = {} /\ Cardinality(calls) < MaxCalls
    /\ calls' = calls \union {Call(t, kind, cookie)}
    /\ UNCHANGED <<sessions, cookie, reloads>>

\* Something that needs the key, or one of the two lock buttons.
ClickInShell(t) ==
    /\ \E kind \in {"review", "lock"} : Click(t, "UNLOCKED", kind)
    /\ UNCHANGED <<key, view, events>>

\* Mutation: tells the other tabs before the backend has answered.
SubmitPasswordEager(t) ==
    /\ Click(t, "LOCKED", "unlock")
    /\ view' = [view EXCEPT ![t] = "UNLOCKING"] /\ Write(t, "unlocked")

SubmitPassword(t) ==
    /\ Click(t, "LOCKED", "unlock")
    /\ view' = [view EXCEPT ![t] = "UNLOCKING"] /\ UNCHANGED <<key, events>>

SubmitRecovery(t) ==
    /\ Click(t, "LOCKED", "reset")
    /\ UNCHANGED <<key, view, events>>

ReturnToUnlock(t) ==
    /\ t \in Active /\ view[t] = "SESSION_EXPIRED"
    /\ view' = [view EXCEPT ![t] = "LOCKED"]
    /\ UNCHANGED <<sessions, cookie, key, events, calls, reloads>>

\* The page is reloaded.  Its handlers and events are gone; from the shell it
\* asks for a lock that outlives it.  Bound: no reload while a form is sent.
Reload(t) ==
    /\ Len(sessions) + reloads < MaxEntries /\ t \in Active /\ CallsOf(t, Clicks) = {}
    /\ view' = [view EXCEPT ![t] = "UNLOCKING"]
    /\ events' = [events EXCEPT ![t] = <<>>]
    /\ calls' = (calls \ CallsOf(t, {"session", "poll", "load"})) \union {Call(t, "session", cookie)}
                  \union (IF InShell(t) THEN {Call(t, "keepalive", cookie)} ELSE {})
    /\ reloads' = reloads + 1
    /\ UNCHANGED <<sessions, cookie, key>>

(***************************************************************************)
(* What the handlers do with an answer: the screen they set, the value     *)
(* they write.  An answer no handler acts on is not kept.                  *)
(***************************************************************************)
\* Mutation: the errors of a load leave the view as it is.
LocksOnClickOnly(c) ==
    \/ c.kind = "session" /\ c.answer \in {"locked", "nobody", "failed"}
    \/ c.kind = "poll" /\ c.answer \in {"nobody", "failed"}
    \/ c.kind = "review" /\ c.answer = "refused"
    \/ c.kind = "lock" /\ c.answer = "ok"
    \/ c.kind = "unlock" /\ c.answer # "unlocked"

Locks(c) ==
    \/ c.kind = "session" /\ c.answer \in {"locked", "nobody", "failed"}
    \/ c.kind = "poll" /\ c.answer \in {"nobody", "failed"}
    \/ c.kind \in {"load", "review"} /\ c.answer = "refused"
    \/ c.kind = "lock" /\ c.answer = "ok"
    \/ c.kind = "unlock" /\ c.answer # "unlocked"
\* Mutation: the poll looks for LOCKED only.
ExpiresAtInit(c) == c.kind = "session" /\ c.answer = "expired"

Expires(c) == c.kind \in {"session", "poll"} /\ c.answer = "expired"
Enters(c) == c.kind \in {"session", "unlock", "reset"} /\ c.answer = "unlocked"

Shown(c) ==
    CASE Locks(c) -> "LOCKED"
      [] Expires(c) -> "SESSION_EXPIRED"
      [] Enters(c) -> "UNLOCKED"
      [] OTHER -> view[c.tab]

\* init tells nobody, nor does a refused password.
Written(c) ==
    CASE c.kind = "session" -> "none"
      [] c.kind = "unlock" /\ c.answer # "unlocked" -> "none"
      [] Locks(c) -> "locked"
      [] Expires(c) -> "expired"
      [] Enters(c) -> "unlocked"
      [] OTHER -> "none"

\* When the list of workspaces gets no answer the shell locks; when other data
\* gets none it stays.
LosesList(c) == c.kind = "load" /\ c.answer = "failed"
Acts(c) == Locks(c) \/ Expires(c) \/ Enters(c) \/ LosesList(c)

(***************************************************************************)
(* The backend                                                             *)
(***************************************************************************)
Status(s) == IF s = 0 THEN "nobody" ELSE sessions[s]
Answered(c, answer, s) ==
    LET r == [c EXCEPT !.answer = answer, !.cookie = s]
    IN  calls' = (calls \ {c}) \union (IF Acts(r) THEN {r} ELSE {})

ServeRead(c) ==
    /\ \/ c.kind \in {"session", "poll"} /\ Answered(c, Status(c.cookie), c.cookie)
       \/ /\ c.kind \in {"load", "review"}
          /\ Answered(c, IF Status(c.cookie) = "unlocked" THEN "ok" ELSE "refused", c.cookie)
    /\ UNCHANGED sessions

ServeLock(c) ==
    /\ c.kind \in {"lock", "keepalive"}
    /\ Answered(c, "ok", c.cookie)
    /\ sessions' = [s \in DOMAIN sessions |->
                      IF s = c.cookie /\ sessions[s] = "unlocked" THEN "locked" ELSE sessions[s]]

\* Bound: the attempt that would open one session too many is a wrong one.  A
\* reset outdates the sessions opened before.
ServeEntry(c) ==
    /\ c.kind \in {"unlock", "reset"}
    /\ \/ /\ Len(sessions) + reloads < MaxEntries
          /\ sessions' = Append(IF c.kind = "reset" THEN [s \in DOMAIN sessions |-> "expired"] ELSE sessions,
                                "unlocked")
          /\ Answered(c, "unlocked", Len(sessions) + 1)
       \/ Answered(c, "refused", c.cookie) /\ UNCHANGED sessions

Serve(c) ==
    /\ c.answer = "none"
    /\ ServeRead(c) \/ ServeLock(c) \/ ServeEntry(c)
    /\ UNCHANGED <<cookie, key, view, events, reloads>>

\* The call or its answer does not get through.
Lose(c) ==
    /\ c.answer # "failed"
    /\ Answered(c, "failed", c.cookie)
    /\ UNCHANGED <<sessions, cookie, key, view, events, reloads>>

\* Time, a restart or the capability's lifetime end a session or lock it.
Age(s) ==
    /\ \/ sessions[s] # "expired" /\ sessions' = [sessions EXCEPT ![s] = "expired"]
       \/ sessions[s] = "unlocked" /\ sessions' = [sessions EXCEPT ![s] = "locked"]
    /\ UNCHANGED <<cookie, key, view, events, calls, reloads>>

(***************************************************************************)
(* The answer arrives                                                      *)
(***************************************************************************)
\* The browser takes the cookie of an answer before the handler runs.  One of
\* the two lock buttons does not write the key.
Handle(c) ==
    /\ c.answer # "none"
    /\ cookie' = IF c.kind \in {"unlock", "reset"} /\ Enters(c) THEN c.cookie ELSE cookie
    /\ \E listFailed \in {FALSE, LosesList(c)}, quiet \in {FALSE, c.kind = "lock"} :
          LET v == IF listFailed THEN "LOCKED" ELSE Shown(c)
          IN  /\ view' = [view EXCEPT ![c.tab] = v]
              /\ calls' = (calls \ {c}) \union Loads(c.tab, v, cookie')
              /\ Write(c.tab, CASE quiet -> "none" [] listFailed -> "locked" [] OTHER -> Written(c))
    /\ UNCHANGED <<sessions, reloads>>

Next ==
    \/ \E t \in Tabs : \/ HandleEvent(t) \/ Poll(t) \/ ClickInShell(t) \/ SubmitPassword(t)
                       \/ SubmitRecovery(t) \/ ReturnToUnlock(t) \/ Reload(t)
    \/ \E c \in calls : Serve(c) \/ Lose(c) \/ Handle(c)
    \/ \E s \in DOMAIN sessions : Age(s)

Spec == Init /\ [][Next]_vars

\* The event loop of a tab and its timer run (strongly fair, because MaxCalls and
\* not the browser holds a poll back), and every call is answered or given up by
\* the browser.  No click is fair.
Progress(t, kinds) ==
    \E c \in CallsOf(t, kinds) : Serve(c) \/ (c.answer = "none" /\ Lose(c)) \/ Handle(c)
Fairness ==
    \A t \in Tabs :
        /\ WF_vars(HandleEvent(t)) /\ SF_vars(Poll(t))
        /\ WF_vars(Progress(t, {"poll"})) /\ WF_vars(Progress(t, {"load"}))
        /\ WF_vars(Progress(t, {"session", "keepalive"})) /\ WF_vars(Progress(t, Clicks))
FairSpec == Spec /\ Fairness

(***************************************************************************)
(* Properties                                                              *)
(***************************************************************************)
Now == Status(cookie)

\* A tab that shows the shell belongs to a browser that has entered: whatever
\* events and answers are on their way, no tab opens on a failed attempt.
ShellHasSession == \A t \in Tabs : InShell(t) => cookie # 0

\* When the session of the browser has expired for good, in the end no tab shows
\* the shell any more (the 60 s poll, WorkspaceApp.tsx:253).
ExpiryReachesTabs == <>[](Now = "expired") => <>[](\A t \in Tabs : ~InShell(t))

\* A tab that comes to the shell of a locked session (a late answer, an event
\* overtaken by a lock) loads its data, is refused and leaves; unless the load
\* gets no answer.
RefusedLoadLocks ==
    \A t \in Tabs :
        (InShell(t) /\ Now = "locked" /\ Call(t, "load", cookie) \in calls)
        ~> (~InShell(t) \/ Now # "locked" \/ \E c \in CallsOf(t, {"load"}) : c.answer = "failed")
=============================================================================
