------------------------------ MODULE WireStatus ------------------------------
(***************************************************************************)
(* What a client of the session API is promised about the published        *)
(* status, whatever the runtime does internally: it is idle, running,      *)
(* rescheduling or terminated; only a running session is ever rescheduled; *)
(* and a terminated one stays terminated.                                  *)
(***************************************************************************)
VARIABLE wire

WireStatuses == {"idle", "running", "rescheduling", "terminated"}

\* The published moves: docs/api-matrix.md, row "Sessions".
WireMoves ==
  {<<"idle", "running">>, <<"idle", "terminated">>,
   <<"running", "idle">>, <<"running", "rescheduling">>,
   <<"running", "terminated">>,
   <<"rescheduling", "running">>, <<"rescheduling", "idle">>,
   <<"rescheduling", "terminated">>}

WireInit == wire \in {"idle", "running"}

WireNext == <<wire, wire'>> \in WireMoves

WireSpec == WireInit /\ [][WireNext]_wire
===============================================================================
