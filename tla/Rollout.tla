------------------------------ MODULE Rollout ------------------------------
(***************************************************************************)
(* What the deployment pipeline promises when a project is deployed one    *)
(* release at a time: a release that serves is taken down only when        *)
(* another release of its project serves, or when the project is being     *)
(* removed; and a project is shown as active only once a release serves.   *)
(***************************************************************************)
CONSTANTS Projects, Releases, ProjectOf

VARIABLES phase,  \* phase[v]: release v is to come, serves, or is over
          gone,   \* projects whose removal has begun
          shown   \* projects shown as active

vars == <<phase, gone, shown>>

Init ==
    /\ phase = [v \in Releases |-> "pending"]
    /\ gone = {}
    /\ shown = {}

Serving(p) == {v \in Releases : ProjectOf[v] = p /\ phase[v] = "live"}

Start(v) ==
    /\ phase[v] = "pending"
    /\ phase' = [phase EXCEPT ![v] = "live"]
    /\ UNCHANGED <<gone, shown>>

\* Deploys fail alone, or many at a time when the process dies.
GiveUp(V) ==
    /\ \A v \in V : phase[v] = "pending"
    /\ phase' = [v \in Releases |-> IF v \in V THEN "over" ELSE phase[v]]
    /\ UNCHANGED <<gone, shown>>

TakeDown(v) ==
    /\ phase[v] = "live"
    /\ ProjectOf[v] \in gone \/ Serving(ProjectOf[v]) # {v}
    /\ phase' = [phase EXCEPT ![v] = "over"]
    /\ UNCHANGED <<gone, shown>>

Announce(p) ==
    /\ p \in gone \/ Serving(p) # {}
    /\ shown' = shown \cup {p}
    /\ UNCHANGED <<phase, gone>>

Withdraw(p) ==
    /\ shown' = shown \ {p}
    /\ UNCHANGED <<phase, gone>>

Remove(p) ==
    /\ gone' = gone \cup {p}
    /\ UNCHANGED <<phase, shown>>

Next ==
    \/ \E v \in Releases : Start(v) \/ TakeDown(v)
    \/ \E V \in SUBSET Releases : GiveUp(V)
    \/ \E p \in Projects : Announce(p) \/ Withdraw(p) \/ Remove(p)

Spec == Init /\ [][Next]_vars

-----------------------------------------------------------------------------

\* A project shown as active is served, unless its removal has begun.
ShownIsServed == \A p \in shown \ gone : Serving(p) # {}
=============================================================================
