--------------------------- MODULE MCDreamsOutcomes ---------------------------
(* Two jobs that drive the turns of a session and report on them: a pair of   *)
(* dreams with one sweep, and the declared outcomes of one session.  They     *)
(* share no state, so one run checks both, one at a time: `job` is chosen in  *)
(* the first state, and the other job rests.                                  *)
EXTENDS Dreams, Outcomes

CONSTANTS m1, m2, s1

MCDreamIds == {m1, m2}
MCSweeps == {s1}

VARIABLE job

jobVars == <<job, dreamVars, outcomeVars>>

JobsInit ==
  /\ DreamInit /\ OutcomeInit
  /\ job \in {"dreams", "outcomes"}
  /\ job = "dreams" => log = <<>>

ForDreams(A) == job = "dreams" /\ A /\ UNCHANGED <<job, outcomeVars>>
ForOutcomes(A) == job = "outcomes" /\ A /\ UNCHANGED <<job, dreamVars>>

JobsNext == ForDreams(DreamNext) \/ ForOutcomes(OutcomeNext)

\* DreamFairness of the one job, OutcomeFairness of the other.
JobsFairness ==
  /\ \A s \in Sweeps : /\ WF_jobVars(ForDreams(sweepDreams(s)))
                       /\ WF_jobVars(ForDreams(SweepRow(s)))
  /\ \A d \in DreamIds : WF_jobVars(ForDreams(cancelDream(d)))
  /\ \A d \in DreamIds, k \in Numbers : /\ WF_jobVars(ForDreams(TurnEnds(d, k)))
                                        /\ WF_jobVars(ForDreams(Drained(d, k)))
  /\ WF_jobVars(ForOutcomes(runTurn))
  /\ WF_jobVars(ForOutcomes(TurnReturns \/ TurnThrows))
  /\ WF_jobVars(ForOutcomes(runOutcomeEvaluation \/ GraderThrows))
  /\ WF_jobVars(ForOutcomes(OutcomeRestart))

JobsSpec == JobsInit /\ [][JobsNext]_jobVars /\ JobsFairness
===============================================================================
