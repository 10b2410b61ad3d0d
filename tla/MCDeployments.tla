--------------------------- MODULE MCDeployments ---------------------------
(***************************************************************************)
(* Small instances of Deployments for TLC.                                 *)
(***************************************************************************)
EXTENDS Deployments

CONSTANTS p1, p2, r1, r2, r3

\* r3 deploys a project of its own: conflicts on host ports across projects.
TwoProjects == [r \in Requests |-> IF r = r3 THEN p2 ELSE p1]

\* All requests deploy the same project: conflicts on rows and containers.
OneProject == [r \in Requests |-> p1]

\* One request per flow.
MixedKinds == [r \in Requests |-> CASE r = r1 -> "github"
                                    [] r = r2 -> "zip"
                                    [] r = r3 -> "dockerfile"]

\* Overlapping deploys, either with every kind of fault or while one project
\* is removed, deleted and reset.
Overlapping ==
    { [overlap |-> TRUE, faults |-> AllFaults, managed |-> {}],
      [overlap |-> TRUE, faults |-> {"nginx"}, managed |-> {p2}] }

\* One deploy of a project at a time.
OneAtATime ==
    { [overlap |-> FALSE, faults |-> {"crash", "docker", "nginx"}, managed |-> {p2}] }

\* Every database call is answered and the process does not die.
Answered ==
    { [overlap |-> TRUE, faults |-> {"docker", "nginx"}, managed |-> {p1}] }

NoFaults == { [overlap |-> TRUE, faults |-> {}, managed |-> {}] }
=============================================================================
