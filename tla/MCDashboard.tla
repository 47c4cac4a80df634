---------------------------- MODULE MCDashboard ----------------------------
(* Instances of Dashboard for TLC.                                          *)
EXTENDS Dashboard, MCParsers

CONSTANTS docker, caddy

\* Answers GET only, and asks for credentials; does not answer.
MCReplies == {[head |-> 405, get |-> 401], [head |-> 0, get |-> 0]}

MCOverrides == {[hidden |-> FALSE, open |-> TRUE], [hidden |-> FALSE, open |-> FALSE],
                [hidden |-> TRUE, open |-> TRUE]}

MCSaved == {[hidden |-> FALSE, open |-> TRUE]}

MCSourceOrder == <<docker, caddy>>
=============================================================================
