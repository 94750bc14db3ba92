-------------------------- MODULE WorkspaceRegistry --------------------------
(***************************************************************************)
(* What the routes promise about users, workspaces and bridge sessions     *)
(* (docs/PHASE_4, app/db/workspace_scope.py): a request that finds a row   *)
(* missing makes it, as if looking and making were one step, and only for  *)
(* a user and a workspace that exist.  The one promise that is not made is *)
(* that setup succeeds only once.                                          *)
(***************************************************************************)
CONSTANTS Reqs, DefaultYears, Years

VARIABLES users, workspaces, bridges

vars == <<users, workspaces, bridges>>

Init == users = {} /\ workspaces = {} /\ bridges = {}

\* A request makes rows once.
Idle(r) == r \notin users /\ r \notin {row.by : row \in workspaces \union bridges}

DefaultRows(u, r) == {[owner |-> u, year |-> y, by |-> r] : y \in DefaultYears}

SetUp(r) ==
    /\ Idle(r)
    /\ users' = users \union {r}
    /\ workspaces' = workspaces \union DefaultRows(r, r)
    /\ UNCHANGED bridges

Seed(u, r) ==
    /\ Idle(r)
    /\ ~\E w \in workspaces : w.owner = u
    /\ workspaces' = workspaces \union DefaultRows(u, r)
    /\ UNCHANGED <<users, bridges>>

Create(u, y, r) ==
    /\ Idle(r)
    /\ ~\E w \in workspaces : w.owner = u /\ w.year = y
    /\ workspaces' = workspaces \union {[owner |-> u, year |-> y, by |-> r]}
    /\ UNCHANGED <<users, bridges>>

Open(w, r) ==
    /\ Idle(r)
    /\ ~\E b \in bridges : b.ws = w
    /\ bridges' = bridges \union {[ws |-> w, by |-> r]}
    /\ UNCHANGED <<users, workspaces>>

Next == \E r \in Reqs :
    \/ SetUp(r)
    \/ \E u \in users : Seed(u, r) \/ \E y \in Years : Create(u, y, r)
    \/ \E w \in workspaces : Open(w, r)

Spec == Init /\ [][Next]_vars
=============================================================================
