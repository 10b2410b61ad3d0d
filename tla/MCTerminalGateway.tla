------------------------- MODULE MCTerminalGateway -------------------------
(***************************************************************************)
(* Small instances of TerminalGateway for TLC.                             *)
(***************************************************************************)
EXTENDS TerminalGateway

CONSTANTS s1, q1, q2, q3, q4, a, b

\* The requests of one socket.
OneClient == [r \in Requests |-> s1]

\* Two shells and two other streams.
Mixed == [r \in Requests |-> CASE r \in {q1, q2} -> "terminal"
                               [] r = q3 -> "logs"
                               [] r = q4 -> "nginx"]

\* q1 and the others name different containers.
TwoContainers == [r \in Requests |-> IF r = q1 THEN a ELSE b]
=============================================================================
