------------------------- MODULE MCSessionResources -------------------------
(* One session with two messages, one tool call that may reconnect, one      *)
(* rotation or vault rebind, one broken transport, and every closer.         *)
EXTENDS SessionResources

CONSTANTS c1, r1

MCManagers == 1..2
MCClients == 1..3
MCCalls == {c1}
MCRefreshers == {r1}
MCClosers == {"turn", "archive", "delete", "update"}
MCBoxes == 1..2
=============================================================================
