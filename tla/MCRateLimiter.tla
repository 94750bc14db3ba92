----------------------------- MODULE MCRateLimiter -----------------------------
\* Small instances of RateLimiter for TLC.
EXTENDS RateLimiter
CONSTANTS c1, c2

\* A client that uses two limits, and two that share the general one.
MCAsks == {<<c1, "/api/sessions">>, <<c1, "/api/workspaces">>, <<c2, "/api/workspaces">>, <<c2, "/api/health">>}
MCMaxRequests == [p \in Patterns |-> IF p = "/api/sessions" THEN 1 ELSE 2]
=============================================================================
