------------------------- MODULE MCManagedDatabases -------------------------
(***************************************************************************)
(* Small instances of ManagedDatabases for TLC.                            *)
(***************************************************************************)
EXTENDS ManagedDatabases, TLC

CONSTANTS d1, d2, d3, d4, h1, h2, h3, n1, n2

\* Two users may give their databases one name.
Names == [d \in Databases |-> IF d = d2 THEN n2 ELSE n1]

\* One request at a time without failures, one at a time with failing calls and
\* crashes, and overlapping requests with failing calls.
AllModes == {[overlap |-> FALSE, faults |-> {}],
             [overlap |-> FALSE, faults |-> AllFaults],
             [overlap |-> TRUE, faults |-> {"db", "docker"}]}

\* Requests differ only in what they are asked to do.
AnyOrder == Permutations(Handlers)
=============================================================================
