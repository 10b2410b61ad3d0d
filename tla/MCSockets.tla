----------------------------- MODULE MCSockets -----------------------------
(***************************************************************************)
(* The three Socket.IO gateways.  Each has a namespace of its own and they *)
(* share no state, so a behaviour is one of one gateway, chosen by         *)
(* namespace at the start.                                                 *)
(***************************************************************************)
EXTENDS MCTerminalGateway, ContainersGateway, MetricsGateway

CONSTANTS k1, k2, u1, u2, u3, w1, w2, w3

VARIABLE namespace

allVars == <<namespace, vars, gatewayVars, feedVars>>

SocketsInit ==
    /\ namespace \in {"terminal", "containers", "metrics"}
    /\ Init /\ StreamsInit /\ FeedInit

SocketsNext ==
    /\ UNCHANGED namespace
    /\ \/ /\ namespace = "terminal" /\ Next
          /\ UNCHANGED <<gatewayVars, feedVars>>
       \/ /\ namespace = "containers" /\ StreamsNext
          /\ UNCHANGED <<vars, feedVars>>
       \/ /\ namespace = "metrics" /\ FeedNext
          /\ UNCHANGED <<vars, gatewayVars>>

SocketsSpec ==
    /\ SocketsInit /\ [][SocketsNext]_allVars
    /\ \A r \in Requests : WF_vars(ShellExits(r))

\* The type invariants of the gateways.
AllTypesOK == TypeOK /\ StreamsTypeOK /\ FeedTypeOK
=============================================================================
