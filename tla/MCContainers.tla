---------------------------- MODULE MCContainers ----------------------------
(***************************************************************************)
(* Small instances of Containers for TLC.                                  *)
(***************************************************************************)
EXTENDS Containers, TLC

CONSTANTS c1, c2, c3, h1, h2, h3, p1, p2, n1, n2, n3

\* A row of a project of its own, and the others in one project.
TwoProjects == [c \in Containers |-> IF c = c1 THEN p1 ELSE p2]

\* c1 and c2, of different projects, have the same name; the container of c2
\* was created with another one.
SharedName == [c \in Containers |-> IF c = c3 THEN n3 ELSE n1]

FirstNames == [c \in Containers |-> CASE c = c1 -> n1 [] c = c2 -> n2 [] c = c3 -> n3]

\* Two overlapping requests with every kind of fault, and three requests one
\* after another, where nothing but nginx fails.
PairsAndSequences ==
    { [overlap |-> TRUE, requests |-> 2,
       faults |-> {"crash", "db", "docker", "nginx"}],
      [overlap |-> FALSE, requests |-> 3, faults |-> {"nginx"}] }

AnyOrder == Permutations(Handlers)
=============================================================================
