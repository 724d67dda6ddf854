---------------------------- MODULE MCSessionTurns ----------------------------
(* A session with two tool calls: enough for an executed call next to a      *)
(* parked one, and for two answers to one park.                              *)
EXTENDS SessionTurns

CONSTANTS c1, c2

MCCalls == {c1, c2}
MCCaps == {1}
===============================================================================
