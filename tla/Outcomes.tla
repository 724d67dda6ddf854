-------------------------------- MODULE Outcomes ------------------------------
(***************************************************************************)
(* Declared outcomes of one session.  The turn that a declaration starts   *)
(* is followed by a loop: a grader measures the log, its feedback is a     *)
(* revision for another turn, until it is satisfied, gives up, or has no   *)
(* iteration left; an interrupt, a parked call and the spending ceiling    *)
(* end the loop early.  Nothing else records an outcome's state: each read  *)
(* derives it from the event log, which other turns write to as well.      *)
(*                                                                         *)
(* The log is reduced to the events the derivation reads; the start and    *)
(* the ongoing event of an evaluation, appended together, are one.  A turn *)
(* is what it may append, spend, park or throw.  An action is the code     *)
(* between two awaits: when a turn or a grade comes back, the loop decides *)
(* what follows, and a finished loop ends its turn, without a pause.       *)
(* Left out: retries, explanations, the grader's prompt, declarations      *)
(* without an id, the deletion of the session.                             *)
(***************************************************************************)
EXTENDS Naturals, SequencesExt

CONSTANTS
  MaxOutcomes,   \* bound: declarations
  MaxIterations, \* max_iterations of a declaration
  MaxOthers,     \* bound: turns of other events
  MaxCrashes     \* bound: how often the process dies

ASSUME OutcomeNumbers ==
  /\ MaxOutcomes \in Nat \ {0} /\ MaxIterations \in Nat \ {0}
  /\ MaxOthers \in Nat /\ MaxCrashes \in Nat

Ids == 1..MaxOutcomes  \* every admission mints an id of its own
Other == 0             \* a turn that no declaration started

VARIABLES
  log,       \* the session's events
  status,    \* the session's row: "idle", "waiting" (requires_action), "running", "ended"
  exhausted, \* the session has spent its ceiling
  queue,     \* the execution chain: what started the turns to come
  up,        \* the process runs
  pc,        \* what the turn in progress is doing
  trigger,   \* what started it
  iteration, \* of its loop
  aborted,   \* its controller has fired
  thrown,    \* history: outcomes whose turn, rubric or grader threw
  cut,       \* history: outcomes cut off by the end of the process or of the session
  others, crashes

loopVars    == <<pc, trigger, iteration, aborted>>
outcomeBounds == <<others, crashes>>
outcomeVars == <<log, status, exhausted, queue, up, loopVars, thrown, cut, outcomeBounds>>

Results == {"satisfied", "needs_revision", "failed", "max_iterations_reached",
            "interrupted", "budget_reached"}
\* Mutant: a request for a revision is taken for the end.
TERMINAL_RESULTS_All == Results

TERMINAL_RESULTS == Results \ {"needs_revision"}

Verdicts == {"satisfied", "needs_revision", "failed"}   \* what a grader may say

Acting == {"turn", "revising", "settling"}   \* the agent is at work

event(type, o, i, result) == [type |-> type, outcome |-> o, iteration |-> i, result |-> result]
define(o)         == event("define", o, 0, "none")
starts(o, i)      == event("start", o, i, "none")
ends(o, i, result) == event("end", o, i, result)
work              == event("work", Other, 0, "none")

-----------------------------------------------------------------------------
(* outcome_evaluations, derived from the log at every read. *)

spans(events, o) ==
  {k \in DOMAIN events : events[k].outcome = o /\ events[k].type \in {"start", "end"}}

\* Where o is declared; an id is declared once.
definitions(events, o) == {k \in DOMAIN events : events[k] = define(o)}

declared(o) == definitions(log, o) # {}

\* Between a declaration and the next one, something worked.
workBegan(events, o) ==
  \E d \in definitions(events, o), k \in DOMAIN events :
    /\ d < k /\ events[k] = work
    /\ \A j \in d + 1..k : events[j].type # "define"

reported(result, i) == [result |-> result, iteration |-> i]

outcomeEvaluationsFromEvents(events, o) ==
  LET finals == {k \in spans(events, o) : events[k].type = "end"}
      lastEnd == events[Max(finals)]
      openSpan == events[Max(spans(events, o))]
  IN IF finals # {} /\ lastEnd.result \in TERMINAL_RESULTS
     THEN reported(lastEnd.result, lastEnd.iteration)
     ELSE IF spans(events, o) = {}
     THEN reported(IF workBegan(events, o) THEN "running" ELSE "pending", 0)
     ELSE IF openSpan.type = "start"
     THEN reported("evaluating", openSpan.iteration)
     ELSE reported("running", lastEnd.iteration + 1)

\* A status_running or an agent event: the derivation only asks whether there
\* is one after a declaration, so the log keeps the first.
withWork(events) ==
  LET past == SelectLastInSeq(events, LAMBDA e : e.type \in {"define", "work"})
  IN IF past # 0 /\ events[past].type = "define" THEN Append(events, work) ELSE events

over(o) == declared(o) /\ outcomeEvaluationsFromEvents(log, o).result \in TERMINAL_RESULTS

-----------------------------------------------------------------------------
(* The end of a turn. *)

\* The turn is over; the status is left alone when something else has moved it.
finish(events, next) ==
  /\ log' = events
  /\ pc' = "none"
  /\ status' = IF status = "running" THEN next ELSE status
  /\ trigger' = Other /\ iteration' = 0 /\ aborted' = FALSE

\* turnState.requiresAction: the turn left a call that waits for its answer.
afterTurn(parks) == IF parks THEN "waiting" ELSE "idle"

closeOutcome(events, i, result, parks) ==
  finish(Append(events, ends(trigger, i, result)), afterTurn(parks))

\* Mutant: a stopped loop leaves without a word.
unlessStopped_Silent(events, i, parks, proceed) ==
  \/ (aborted \/ parks) /\ finish(events, afterTurn(parks))
  \/ ~ (aborted \/ parks) /\ exhausted' /\ closeOutcome(events, i, "budget_reached", parks)
  \/ ~ (aborted \/ parks) /\ ~ exhausted' /\ proceed

\* What the loop looks at before it spends: isAborted, then isExhausted.
unlessStopped(events, i, parks, proceed) ==
  \/ (aborted \/ parks) /\ closeOutcome(events, i, "interrupted", parks)
  \/ ~ (aborted \/ parks) /\ exhausted' /\ closeOutcome(events, i, "budget_reached", parks)
  \/ ~ (aborted \/ parks) /\ ~ exhausted' /\ proceed

grade(events, i) ==
  /\ log' = Append(events, starts(trigger, i))
  /\ pc' = "grading" /\ iteration' = i
  /\ UNCHANGED <<status, trigger, aborted>>

revise(events, i, turn) ==
  /\ log' = events
  /\ pc' = turn /\ iteration' = i
  /\ UNCHANGED <<status, trigger, aborted>>

-----------------------------------------------------------------------------
(* Clients and the session. *)

\* A session is created idle, or with declarations, alone or with a message
\* before them, and then its row is running before a turn is.
OutcomeInit ==
  /\ \/ log = <<>> /\ queue = <<>> /\ status = "idle"
     \/ \E n \in Ids : LET initial == [k \in 1..n |-> k] IN
          /\ log = Append([k \in 1..n |-> define(k)], work)
          /\ queue \in {initial, <<Other>> \o initial}
          /\ status = "running"
  /\ exhausted = FALSE /\ up = TRUE
  /\ pc = "none" /\ trigger = Other /\ iteration = 0
  /\ aborted = FALSE
  /\ thrown = {} /\ cut = {}
  /\ others = 0 /\ crashes = 0

\* user.define_outcome is refused once the ceiling is reached.
Declare(o) ==
  /\ up /\ status # "ended" /\ ~ exhausted
  /\ ~ declared(o) /\ \A earlier \in 1..o - 1 : declared(earlier)
  /\ log' = Append(log, define(o))
  /\ queue' = Append(queue, o)
  /\ UNCHANGED <<status, exhausted, up, loopVars, thrown, cut, outcomeBounds>>

\* Another event, or an answer to a parked call, starts a turn.
OtherEvent ==
  /\ up /\ status # "ended" /\ others < MaxOthers
  /\ queue' = Append(queue, Other)
  /\ others' = others + 1
  /\ UNCHANGED <<log, status, exhausted, up, loopVars, thrown, cut, crashes>>

InterruptTurn ==
  /\ pc # "none" /\ ~ aborted
  /\ aborted' = TRUE
  /\ UNCHANGED <<log, status, exhausted, queue, up, pc, trigger, iteration,
                 thrown, cut, outcomeBounds>>

RaiseBudget ==
  /\ up /\ status # "ended" /\ exhausted
  /\ exhausted' = FALSE
  /\ UNCHANGED <<log, status, queue, up, loopVars, thrown, cut, outcomeBounds>>

\* Archived, or timed out while it waits; never while a turn runs.
SessionEnds ==
  /\ up /\ status \notin {"running", "ended"}
  /\ status' = "ended"
  /\ cut' = cut \cup (Ids \cap Range(queue))
  /\ UNCHANGED <<log, exhausted, queue, up, loopVars, thrown, outcomeBounds>>

-----------------------------------------------------------------------------
(* The turn and its loop. *)

runTurn ==
  /\ up /\ pc = "none" /\ queue # <<>>
  /\ queue' = Tail(queue)
  /\ IF status = "ended"
     THEN UNCHANGED <<log, status, loopVars>>
     ELSE /\ log' = IF status = "running" THEN log ELSE withWork(log)
          /\ status' = "running"
          /\ pc' = "turn" /\ trigger' = Head(queue)
          /\ UNCHANGED <<iteration, aborted>>
  /\ UNCHANGED <<exhausted, up, thrown, cut, outcomeBounds>>

AgentWorks ==
  /\ pc \in Acting /\ withWork(log) # log
  /\ log' = withWork(log)
  /\ UNCHANGED <<status, exhausted, queue, up, loopVars, thrown, cut, outcomeBounds>>

\* A turn comes back, having spent and parked what it may.
TurnReturns ==
  /\ pc \in Acting
  /\ exhausted' \in {exhausted, TRUE}
  /\ \E parks \in BOOLEAN :
       \/ trigger = Other /\ finish(log, afterTurn(parks))
       \/ /\ trigger # Other /\ pc \in {"turn", "revising"}
          /\ unlessStopped(log, iteration, parks, grade(log, iteration))
       \/ /\ trigger # Other /\ pc = "settling"
          /\ IF aborted \/ parks THEN closeOutcome(log, iteration, "interrupted", parks)
             ELSE finish(log, afterTurn(parks))
  /\ UNCHANGED <<queue, up, thrown, cut, outcomeBounds>>

\* A turn throws, or the first one returns and the rubric's file is gone: the
\* loop is left without a word.
TurnThrows ==
  /\ pc \in Acting
  /\ \E next \in IF aborted THEN {"idle"} ELSE {"idle", "ended"} : finish(log, next)
  /\ thrown' = thrown \cup (Ids \cap {trigger})
  /\ cut' = IF status' = "ended" THEN cut \cup (Ids \cap Range(queue)) ELSE cut
  /\ UNCHANGED <<exhausted, queue, up, outcomeBounds>>

budgetSpent == iteration = MaxIterations - 1

\* The grader answers.
runOutcomeEvaluation ==
  /\ pc = "grading"
  /\ exhausted' \in {exhausted, TRUE}
  /\ \E verdict \in Verdicts :
       LET events(result) == Append(log, ends(trigger, iteration, result))
       IN \/ /\ verdict # "needs_revision"
             /\ finish(events(verdict), "idle")
          \/ /\ verdict = "needs_revision" /\ ~ budgetSpent
             /\ unlessStopped(events(verdict), iteration + 1, FALSE,
                              revise(events(verdict), iteration + 1, "revising"))
          \/ /\ verdict = "needs_revision" /\ budgetSpent
             /\ LET last == events("max_iterations_reached")
                IN IF exhausted' THEN closeOutcome(last, iteration, "budget_reached", FALSE)
                   ELSE revise(last, iteration, "settling")
  /\ UNCHANGED <<queue, up, thrown, cut, outcomeBounds>>

\* Mutant: the evaluation stays open.
GraderThrows_LeavesOpen ==
  /\ pc = "grading"
  /\ \E next \in IF aborted THEN {"idle"} ELSE {"idle", "ended"} : finish(log, next)
  /\ thrown' = thrown \cup {trigger}
  /\ cut' = IF status' = "ended" THEN cut \cup (Ids \cap Range(queue)) ELSE cut
  /\ UNCHANGED <<exhausted, queue, up, outcomeBounds>>

\* The grader throws: its evaluation is closed, then the turn throws.
GraderThrows ==
  /\ pc = "grading"
  /\ \E next \in IF aborted THEN {"idle"} ELSE {"idle", "ended"} :
       finish(Append(log, ends(trigger, iteration, "failed")), next)
  /\ thrown' = thrown \cup {trigger}
  /\ cut' = IF status' = "ended" THEN cut \cup (Ids \cap Range(queue)) ELSE cut
  /\ UNCHANGED <<exhausted, queue, up, outcomeBounds>>

-----------------------------------------------------------------------------
(* The process dies; reconcileOrphans resets the row and knows no outcomes. *)

OutcomeCrash ==
  /\ up /\ crashes < MaxCrashes
  /\ up' = FALSE /\ crashes' = crashes + 1
  /\ cut' = cut \cup (Ids \cap Range(queue))
             \cup IF pc = "none" THEN {} ELSE Ids \cap {trigger}
  /\ queue' = <<>>
  /\ pc' = "none" /\ trigger' = Other /\ iteration' = 0 /\ aborted' = FALSE
  /\ UNCHANGED <<log, status, exhausted, thrown, others>>

OutcomeRestart ==
  /\ ~ up
  /\ up' = TRUE
  /\ status' = IF status = "running" THEN "idle" ELSE status
  /\ UNCHANGED <<log, exhausted, queue, loopVars, thrown, cut, outcomeBounds>>

-----------------------------------------------------------------------------

OutcomeNext ==
  \/ \E o \in Ids : Declare(o)
  \/ OtherEvent \/ InterruptTurn \/ RaiseBudget \/ SessionEnds
  \/ runTurn \/ AgentWorks \/ TurnReturns \/ TurnThrows
  \/ runOutcomeEvaluation \/ GraderThrows
  \/ OutcomeCrash \/ OutcomeRestart

\* Queued turns run, a turn and a grade come back, a dead process is started.
OutcomeFairness ==
  /\ WF_outcomeVars(runTurn)
  /\ WF_outcomeVars(TurnReturns \/ TurnThrows)
  /\ WF_outcomeVars(runOutcomeEvaluation \/ GraderThrows)
  /\ WF_outcomeVars(OutcomeRestart)

OutcomeSpec == OutcomeInit /\ [][OutcomeNext]_outcomeVars /\ OutcomeFairness

-----------------------------------------------------------------------------
(* Properties. *)

running(o) == pc # "none" /\ trigger = o

\* What a client reads is where the loop is, although the loop keeps that in
\* memory and the reader only has the log: an outcome is being evaluated
\* exactly while the grader works on that iteration, is owed a turn while it
\* is revised, and has a verdict when the agent settles (session-outcomes.ts:147).
\* No iteration is named that the declaration does not allow.
ReportFollowsLoop ==
  \A o \in Ids : declared(o) =>
    LET report == outcomeEvaluationsFromEvents(log, o)
    IN /\ running(o) /\ pc = "grading" => report = reported("evaluating", iteration)
       /\ running(o) /\ pc = "revising" => report = reported("running", iteration)
       /\ running(o) /\ pc = "settling" => report.result = "max_iterations_reached"
       /\ report.result = "evaluating" => (running(o) /\ pc = "grading") \/ o \in cut
       /\ report.iteration < MaxIterations

\* Once an outcome has been reported ended, its result and iteration hold,
\* whatever the session does next; only a last evaluation that ran out of
\* iterations gives way, to a stop of the turn that settles it (loop.ts:206).
VerdictHolds ==
  [][\A o \in Ids : over(o) =>
       LET report == outcomeEvaluationsFromEvents(log, o)
       IN \/ outcomeEvaluationsFromEvents(log', o) = report
          \/ /\ report.result = "max_iterations_reached" /\ running(o)
             /\ outcomeEvaluationsFromEvents(log', o) = reported("interrupted", report.iteration)]_outcomeVars

\* No accepted outcome is owed a result for ever, unless its turn or its rubric
\* threw, or the process or the session ended under it: nothing but the loop writes
\* an end, so those are reported as pending, running or evaluating for good.
OutcomeSettles ==
  []<>(\A o \in Ids : declared(o) => over(o) \/ o \in thrown \cup cut)
==============================================================================
