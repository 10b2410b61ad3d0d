------------------------------ MODULE MCRoutes ------------------------------
(***************************************************************************)
(* Small instances of ProjectRoutes for TLC.                               *)
(***************************************************************************)
EXTENDS ProjectRoutes, TLC

CONSTANTS h1, h2, v1, v2, p1, p2, slug, slug2, own

\* A project each; the two were given one name, so the second gets a suffix.
Owners == (p1 :> v1) @@ (p2 :> v2)
Slugs == (p1 :> slug) @@ (p2 :> slug)
Suffixes == (p1 :> slug2) @@ (p2 :> slug2)

Plan(overlap, tidy, requests, faults) ==
    [overlap |-> overlap, tidy |-> tidy, requests |-> requests, faults |-> faults]

\* Tidy requests one after another; all requests, one at a time and overlapping,
\* with every kind of failure and a crash.
AllPlans ==
    { Plan(FALSE, TRUE, 4, {"docker", "ssl"}),
      Plan(FALSE, FALSE, 2, {"db", "ssl", "crash"}),
      Plan(TRUE, FALSE, 2, {"db", "docker", "ssl", "crash"}) }

\* Nothing fails, and an account is deleted.
OneRequest == { Plan(FALSE, TRUE, 2, {}) }
=============================================================================
