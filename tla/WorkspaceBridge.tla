--------------------------- MODULE WorkspaceBridge ---------------------------
(***************************************************************************)
(* Users, their workspaces (tax years) and the bridge session behind each  *)
(* workspace (app/db/workspace_scope.py, app/routers/workspaces.py, setup  *)
(* in app/services/auth/service.py).                                       *)
(*                                                                         *)
(* Every one of these rows is created by check-then-insert, and no unique  *)
(* constraint backs the checks.  What orders two requests of the same      *)
(* workspace is the writer lock: the guard of every route but setup        *)
(* flushes last_seen_at before the handler runs.  Setup has no session to  *)
(* touch; it looks before it has the lock.                                 *)
(***************************************************************************)
CONSTANTS
    Reqs,          \* HTTP requests; each is made once
    NoReq,         \* nobody holds the writer lock
    Years,         \* tax years
    DefaultYears   \* the years a new user is given

ASSUME BridgeAssumption ==
    NoReq \notin Reqs /\ DefaultYears \subseteq Years /\ DefaultYears # {}

VARIABLES
    users,       \* committed users, named after the setup that created them
    workspaces,  \* committed tax_workspaces
    bridges,     \* committed tax_sessions of workspaces
    writer,      \* the request that holds SQLite's writer lock
    req          \* the requests

vars == <<users, workspaces, bridges, writer, req>>

\* by: the request that inserted the row, which makes equal rows distinct.
WorkspaceRows == [owner : Reqs, year : Years, by : Reqs]
BridgeRows == [ws : WorkspaceRows, by : Reqs]
Requests ==
    [pc : {"new", "touched", "looked", "written", "ended"},
     op : {"none", "setup", "list", "create", "open"},
     row : WorkspaceRows,   \* the workspace it opens or would create
     found : BOOLEAN]       \* what its check answered

\* One type invariant: rows and requests have their shape; a request that has
\* ended has let go of the lock.
TypeOK ==
    /\ users \subseteq Reqs
    /\ workspaces \subseteq WorkspaceRows
    /\ bridges \subseteq BridgeRows
    /\ writer \in Reqs \union {NoReq}
    /\ req \in [Reqs -> Requests]
    /\ \A r \in Reqs : writer = r => req[r].pc \in {"touched", "looked", "written"}

Init ==
    /\ users = {} /\ workspaces = {} /\ bridges = {}
    /\ writer = NoReq
    /\ req = [r \in Reqs |-> [pc |-> "new", op |-> "none", found |-> FALSE,
                              row |-> [owner |-> r, year |-> CHOOSE y \in DefaultYears : TRUE, by |-> r]]]

Lock(r) == writer \in {NoReq, r} /\ writer' = r
Found(r, rows) ==
    /\ req' = [req EXCEPT ![r].pc = "looked", ![r].found = (rows # {})]
    /\ UNCHANGED <<users, workspaces, bridges, writer>>

(***************************************************************************)
(* Setup                                                                   *)
(***************************************************************************)
SetupLook(r) ==
    /\ req[r].pc = "new"
    /\ req' = [req EXCEPT ![r].pc = "looked", ![r].op = "setup", ![r].found = (users # {})]
    /\ UNCHANGED <<users, workspaces, bridges, writer>>

(***************************************************************************)
(* Routes behind the guard                                                 *)
(***************************************************************************)
Enter(r, op, row) == req' = [req EXCEPT ![r].pc = "touched", ![r].op = op, ![r].row = row]

\* Mutation: the guard only reads; the lock comes with the first insert.
TouchWithoutLock(r) ==
    /\ req[r].pc = "new" /\ UNCHANGED writer
    /\ \/ \E u \in users, y \in Years, op \in {"list", "create"} :
            Enter(r, op, [owner |-> u, year |-> y, by |-> r])
       \/ \E w \in workspaces : w.owner \in users /\ Enter(r, "open", w)
    /\ UNCHANGED <<users, workspaces, bridges>>

\* resolve_session flushes last_seen_at: from here on the request has the lock.
Touch(r) ==
    /\ req[r].pc = "new" /\ Lock(r)
    /\ \/ \E u \in users, y \in Years, op \in {"list", "create"} :
            Enter(r, op, [owner |-> u, year |-> y, by |-> r])
       \/ \E w \in workspaces : w.owner \in users /\ Enter(r, "open", w)
    /\ UNCHANGED <<users, workspaces, bridges>>

Touched(r, op) == req[r].pc = "touched" /\ req[r].op = op

ListLook(r) ==
    /\ Touched(r, "list")
    /\ Found(r, {w \in workspaces : w.owner = req[r].row.owner})

\* Mutation: the check is left to a unique constraint, which there is none of.
CreateLookUnchecked(r) == Touched(r, "create") /\ Found(r, {})

CreateLook(r) ==
    /\ Touched(r, "create")
    /\ Found(r, {w \in workspaces : w.owner = req[r].row.owner /\ w.year = req[r].row.year})

OpenLook(r) ==
    /\ Touched(r, "open")
    /\ Found(r, {b \in bridges : b.ws = req[r].row})

(***************************************************************************)
(* Insert and commit, or not                                               *)
(***************************************************************************)
\* A setup or a create that found a row answers 409; see Rollback.
Insert(r) ==
    /\ req[r].pc = "looked" /\ Lock(r)
    /\ req[r].found => req[r].op \in {"list", "open"}
    /\ req' = [req EXCEPT ![r].pc = "written"]
    /\ UNCHANGED <<users, workspaces, bridges>>

CreatedUsers(r) == IF req[r].op = "setup" THEN {r} ELSE {}
CreatedWorkspaces(r) ==
    CASE req[r].found -> {}
      [] ~req[r].found /\ req[r].op = "open" -> {}
      [] ~req[r].found /\ req[r].op = "create" -> {req[r].row}
      [] OTHER -> {[owner |-> req[r].row.owner, year |-> y, by |-> r] : y \in DefaultYears}
CreatedBridges(r) ==
    IF req[r].op = "open" /\ ~req[r].found THEN {[ws |-> req[r].row, by |-> r]} ELSE {}

\* The handler's commit.
Commit(r) ==
    /\ req[r].pc = "written"
    /\ users' = users \union CreatedUsers(r)
    /\ workspaces' = workspaces \union CreatedWorkspaces(r)
    /\ bridges' = bridges \union CreatedBridges(r)
    /\ writer' = NoReq
    /\ req' = [req EXCEPT ![r].pc = "ended"]

\* The request ends without a commit: a conflict, an error, a refused lock, a
\* restart, or one of the routes that only read and never commit.
Rollback(r) ==
    /\ req[r].pc \in {"touched", "looked", "written"}
    /\ writer' = IF writer = r THEN NoReq ELSE writer
    /\ req' = [req EXCEPT ![r].pc = "ended"]
    /\ UNCHANGED <<users, workspaces, bridges>>

Next == \E r \in Reqs :
    \/ SetupLook(r) \/ Touch(r) \/ ListLook(r) \/ CreateLook(r) \/ OpenLook(r)
    \/ Insert(r) \/ Commit(r) \/ Rollback(r)

Spec == Init /\ [][Next]_vars

(***************************************************************************)
(* Properties                                                              *)
(***************************************************************************)
\* A workspace never has two bridge sessions.  With two, every later request of
\* the workspace fails in scalar_one_or_none (workspace_scope.py:40).
OneBridge == \A a, b \in bridges : a.ws = b.ws => a = b

\* A user never has two workspaces of a tax year (create_workspace, the check
\* at workspaces.py:219), whatever seeds and creates overlap.
OneWorkspacePerYear ==
    \A v, w \in workspaces : v.owner = w.owner /\ v.year = w.year => v = w

\* Although every row is checked, inserted and committed in steps of its own,
\* requests that overlap leave rows as if each had looked and made its rows at
\* once: for a user and a workspace that exist, and one request, one commit.
Registry == INSTANCE WorkspaceRegistry
ChecksAreAtomic == Registry!Spec
=============================================================================
