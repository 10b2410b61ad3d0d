----------------------------- MODULE MCPlatform -----------------------------
(***************************************************************************)
(* Accounts, what belongs to them, and the host.  ProjectRoutes has the    *)
(* deletion of an account step by step, Accounts as one action among those *)
(* of its requests, HostSecurity neither: a behaviour is one of the part   *)
(* chosen at the start, and the others wait in one of their environments.  *)
(***************************************************************************)
EXTENDS MCRoutes, Accounts, HostSecurity

VARIABLE part

platformVars == <<part, routesVars, accountsVars, hostVars>>

PlatformInit ==
    /\ part \in {"routes", "accounts", "host"}
    /\ RoutesInit /\ AccountsInit /\ HostInit
    /\ part = "routes" \/ plan.overlap
    /\ part = "accounts" \/ regime.overlap
    /\ part = "host" \/ (policy.overlap /\ ufwEnabled)

PlatformNext ==
    /\ UNCHANGED part
    /\ \/ /\ part = "routes" /\ RoutesNext
          /\ UNCHANGED <<accountsVars, hostVars>>
       \/ /\ part = "accounts" /\ AccountsNext
          /\ UNCHANGED <<routesVars, hostVars>>
       \/ /\ part = "host" /\ HostNext
          /\ UNCHANGED <<routesVars, accountsVars>>

PlatformSpec == PlatformInit /\ [][PlatformNext]_platformVars

Regime(overlap, requests, faults) ==
    [overlap |-> overlap, requests |-> requests, faults |-> faults]

AllRegimes ==
    { Regime(FALSE, 5, {"db", "crash"}), Regime(TRUE, 3, {"db", "crash"}) }

Policy(overlap, n, faults) == [overlap |-> overlap, calls |-> n, faults |-> faults]

AllPolicies ==
    { Policy(FALSE, 5, {"command"}), Policy(FALSE, 5, {"reboot"}),
      Policy(TRUE, 3, {"command", "status", "reboot"}) }

Interchangeable ==
    Permutations(Handlers) \cup Permutations(Clients)
        \cup Permutations(Members) \cup Permutations(Admins)

\* The type invariants of the three parts.
AllRowsTypeOK == RoutesTypeOK /\ AccountsTypeOK /\ HostTypeOK
=============================================================================
