------------------------------ MODULE MCPiEngine ------------------------------
(* The Pi loop engine: one session, or the lease of one session file.  They   *)
(* share no state, so one run checks both, one at a time: `part` is chosen in *)
(* the first state, and the other part rests.                                 *)
EXTENDS PiSession, PiLease

CONSTANTS c1, c2, i1, o1, o2, o3

MCCalls == {c1, c2}
MCInputs == {i1}
MCOwners == {o1, o2, o3}

VARIABLE part

engineVars == <<part, piVars, leaseVars>>

EngineInit == part \in {"session", "lease"} /\ PiInit /\ LeaseInit

ForSession(A) == part = "session" /\ A /\ UNCHANGED <<part, leaseVars>>
ForLease(A) == part = "lease" /\ A /\ UNCHANGED <<part, piVars>>

EngineNext == ForSession(PiNext) \/ ForLease(LeaseNext)

\* PiFairness of the one part, LeaseFairness of the other.
EngineFairness ==
  /\ WF_engineVars(ForSession(HandleFrame)) /\ WF_engineVars(ForSession(ReaderEnds))
  /\ WF_engineVars(ForSession(StrategyStep)) /\ WF_engineVars(ForSession(PromptTimesOut))
  /\ WF_engineVars(ForSession(Deadline)) /\ WF_engineVars(ForSession(SteerTimesOut))
  /\ \A o \in Owners : /\ WF_engineVars(ForLease(Acquiring(o)))
                       /\ WF_engineVars(ForLease(RemoveLease(o)))
  /\ WF_engineVars(ForLease(LeaseTick))

EngineSpec == EngineInit /\ [][EngineNext]_engineVars /\ EngineFairness
===============================================================================
