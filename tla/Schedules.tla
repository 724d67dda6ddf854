------------------------------ MODULE Schedules -------------------------------
(***************************************************************************)
(* Scheduled deployments and the passes that run them.  A due pass reads   *)
(* the rows that are due, runs the first at once and awaits the delivery   *)
(* of its events before it turns to the next, with the row as it was read; *)
(* meanwhile the operator pauses, resumes, updates, archives, deletes or   *)
(* runs deployments by hand, the timer starts another pass and the process *)
(* may die.                                                                *)
(*                                                                         *)
(* Cron instants come every Period ticks.  Instants are kept as the time   *)
(* that is left until they come, which is zero or negative once they have; *)
(* due_at is kept as its delay after next_run_at.  An agent is there or    *)
(* gone; every other reason why a session cannot be created is one         *)
(* failure.  What a run is given, the events that are published and a      *)
(* next_run_at written by the operator are left out.                       *)
(***************************************************************************)
EXTENDS Integers, FiniteSets

CONSTANTS
  Deployments,
  DuePasses,     \* due passes that may be under way at once
  Period,        \* ticks between two cron instants
  MaxJitter,     \* deploymentRunJitterMs draws a delay of 1..MaxJitter ticks
  Due,           \* how many due rows a pass reads
  MaxChanges,    \* bound: the operator's writes
  MaxRestarts    \* bound: how often the process dies

ASSUME ScheduleNumbers ==
  /\ Period \in Nat \ {0} /\ MaxJitter \in Nat \ {0} /\ Due \in Nat \ {0}
  /\ MaxChanges \in Nat /\ MaxRestarts \in Nat

ASSUME ScheduleNames == IsFiniteSet(Deployments)

VARIABLES
  phase,     \* ticks since the last cron instant
  deployment,\* the rows of scheduled_deployments
  agents,    \* the deployments whose agent is there
  batch,     \* per pass and deployment: the cadence of the row it is still to run
  former,    \* per pass: the deployments in its hand that got another agent since
  upcoming,  \* per pass: the time left until the first instant after its start
  unscheduled, \* history: deployments that lost their cadence while a pass had
             \* them in hand
  changes, restarts

passVars     == <<batch, former, upcoming>>
scheduleVars == <<phase, deployment, agents, passVars, unscheduled, changes, restarts>>

Unset == Period + 1          \* next_run_at is NULL
Longest == 0 - MaxJitter     \* no comparison distinguishes instants that came earlier
Instants == Longest..Unset

\* delay 0: due_at is NULL.
DeploymentRows == [place : {"absent", "there", "deleted"}, archived : BOOLEAN,
  status : {"active", "paused", "archived"}, reason : {"none", "manual", "error"},
  cron : BOOLEAN, next : Instants, delay : 0..MaxJitter]

Absent == [place |-> "absent", archived |-> FALSE, status |-> "active", reason |-> "none",
           cron |-> FALSE, next |-> Unset, delay |-> 0]

NotInHand == "none"
BatchRows == {NotInHand, "cron", "manual"}

ScheduleInit ==
  /\ phase = 0
  /\ deployment = [d \in Deployments |-> Absent]
  /\ agents = Deployments
  /\ batch = [p \in DuePasses |-> [d \in Deployments |-> NotInHand]]
  /\ former = [p \in DuePasses |-> {}]
  /\ upcoming = [p \in DuePasses |-> Unset]
  /\ unscheduled = {} /\ changes = 0 /\ restarts = 0

-----------------------------------------------------------------------------
(* Instants. *)

\* nextCronRun: the first instant strictly after now.
nextCron == Period - phase

elapses(t) == IF t = Unset THEN Unset ELSE IF t > Longest THEN t - 1 ELSE t

live(r) == r.place = "there" /\ ~ r.archived

\* armDeploymentDueAt: the delay is drawn anew; what is not active, or has no
\* instant, is disarmed.
armed(r) == IF r.cron /\ r.next # Unset /\ r.status = "active"
            THEN {[r EXCEPT !.delay = j] : j \in 1..MaxJitter}
            ELSE {[r EXCEPT !.delay = 0]}

isDue(r) == live(r) /\ r.status = "active" /\ r.delay # 0 /\ r.next + r.delay <= 0

-----------------------------------------------------------------------------
(* A due pass. *)

inHand(d) == {p \in DuePasses : batch[p][d] # NotInHand}
underWay(p) == \E d \in Deployments : batch[p][d] # NotInHand

\* runSchedule for a timed run of d, with its row as it was read: its cadence, and
\* status active, whatever the row holds by now.  What it leaves in the row:
archivedBy(d) == [deployment EXCEPT ![d].archived = deployment[d].archived \/ deployment[d].place = "there"]

pausedBy(d, next) == [deployment EXCEPT ![d] =
  [@ EXCEPT !.next = next, !.delay = 0, !.status = "paused", !.reason = "error"]]

advanced(d, next, delay) == [deployment EXCEPT ![d] =
  [@ EXCEPT !.next = next, !.delay = delay, !.status = "active", !.reason = "none"]]

\* The outcomes of one timed run: the agent is gone and the deployment is archived;
\* the session cannot be created; the session runs.
TimedRun(d, agent, cadence, next) ==
  \/ ~ agent /\ deployment' = archivedBy(d)
  \/ /\ agent /\ deployment[d].place = "there"
     /\ LET following == IF cadence = "cron" THEN next ELSE Unset
        IN \/ deployment' = pausedBy(d, following)
           \/ \E j \in 1..MaxJitter :
                deployment' = advanced(d, following, IF following = Unset THEN 0 ELSE j)

\* Up to Due rows, those that are due first; the first one is run at once.
startsWith(d, rows) ==
  /\ d \in rows
  /\ \A e \in rows : deployment[d].next + deployment[d].delay <= deployment[e].next + deployment[e].delay

dueRows == {d \in Deployments : isDue(deployment[d])}

firstDue(rows) ==
  /\ rows \subseteq dueRows
  /\ Cardinality(rows) <= Due /\ (rows = dueRows \/ Cardinality(rows) = Due)
  /\ \A d \in rows, e \in dueRows \ rows :
       deployment[d].next + deployment[d].delay <= deployment[e].next + deployment[e].delay

cadenceOf(r) == IF r.cron THEN "cron" ELSE "manual"

\* Before it reads the due rows a pass arms active rows that have an instant and
\* no due_at; FireCanHappen says there are none.
startPass(p, d) ==
  /\ ~ underWay(p)
  /\ \E rows \in SUBSET dueRows :
       /\ firstDue(rows) /\ startsWith(d, rows)
       /\ TimedRun(d, d \in agents, cadenceOf(deployment[d]), nextCron)
       /\ batch' = [batch EXCEPT ![p] = [e \in Deployments |->
            IF e \in rows \ {d} THEN cadenceOf(deployment[e]) ELSE NotInHand]]
  /\ former' = [former EXCEPT ![p] = {}]
  /\ upcoming' = [upcoming EXCEPT ![p] = nextCron]
  /\ UNCHANGED <<phase, agents, unscheduled, changes, restarts>>

runDueScheduledDeployments(p) == \E d \in Deployments : startPass(p, d)

\* The agent of the row that was read: the one the deployment has, or one it had.
agentOfRead(p, d) == IF d \in former[p] THEN BOOLEAN ELSE {d \in agents}

\* The events of the last run are delivered and another row is run (which of them
\* is left open).  Where the row is gone its run cannot be recorded: the pass ends.
runRow(p, d) ==
  /\ \E agent \in agentOfRead(p, d) :
       /\ batch[p][d] # NotInHand
       /\ \/ /\ TimedRun(d, agent, batch[p][d], upcoming[p])
             /\ batch' = [batch EXCEPT ![p][d] = NotInHand]
          \/ /\ agent /\ deployment[d].place = "deleted"
             /\ batch' = [batch EXCEPT ![p] = [e \in Deployments |-> NotInHand]]
             /\ UNCHANGED deployment
  /\ UNCHANGED <<phase, agents, former, upcoming, unscheduled, changes, restarts>>

runNext(p) == \E d \in Deployments : runRow(p, d)

-----------------------------------------------------------------------------
(* The operator. *)

Changes == changes < MaxChanges /\ changes' = changes + 1
Store(d, rows) == \E r \in rows : deployment' = [deployment EXCEPT ![d] = r]

Create(d) ==
  /\ deployment[d].place = "absent" /\ d \in agents
  /\ \E cron \in BOOLEAN, status \in {"active", "paused"} :
       Store(d, armed([place |-> "there", archived |-> FALSE, status |-> status,
         reason |-> IF status = "paused" THEN "manual" ELSE "none",
         cron |-> cron, next |-> IF cron THEN nextCron ELSE Unset, delay |-> 0]))
  /\ Changes
  /\ UNCHANGED <<phase, agents, passVars, unscheduled, restarts>>

\* Update: the cadence is kept, replaced or removed, the status given or not, the
\* agent kept or replaced.
updated(r, cadence, status) ==
  [r EXCEPT !.status = IF status = "kept" THEN (IF r.status = "paused" THEN "paused" ELSE "active") ELSE status,
            !.reason = IF status = "paused" THEN "manual"
                       ELSE IF status = "active" \/ (cadence # "kept" /\ r.status # "paused") THEN "none"
                       ELSE r.reason,
            !.cron = IF cadence = "kept" THEN r.cron ELSE cadence = "replaced",
            !.next = IF cadence = "kept" THEN r.next
                     ELSE IF cadence = "replaced" THEN nextCron ELSE Unset]

UpdateDeployment(d) ==
  /\ live(deployment[d])
  /\ \E cadence \in {"kept", "replaced", "removed"}, status \in {"kept", "active", "paused"} :
       /\ Store(d, armed(updated(deployment[d], cadence, status)))
       /\ unscheduled' = IF cadence = "removed" /\ inHand(d) # {} THEN unscheduled \cup {d} ELSE unscheduled
  /\ \/ UNCHANGED <<agents, former>>
     \/ /\ agents' = agents \cup {d}
        /\ former' = [p \in DuePasses |-> former[p] \cup (IF p \in inHand(d) THEN {d} ELSE {})]
  /\ Changes
  /\ UNCHANGED <<phase, batch, upcoming, restarts>>

\* The instant is kept, so that resuming can tell whether it has come.
Pause(d) ==
  /\ live(deployment[d])
  /\ Store(d, armed([deployment[d] EXCEPT !.status = "paused", !.reason = "manual"]))
  /\ Changes
  /\ UNCHANGED <<phase, agents, passVars, unscheduled, restarts>>

\* nextRunAfterResume: missed instants are not made up for.
resumeAt_Missed(r) == IF r.cron /\ r.next # Unset /\ r.next > 0 THEN r.next ELSE Unset
resumeAt(r) == IF ~ r.cron THEN Unset
               ELSE IF r.next # Unset /\ r.next > 0 THEN r.next ELSE nextCron

Unpause(d) ==
  /\ live(deployment[d])
  /\ Store(d, armed([deployment[d] EXCEPT !.status = "active", !.reason = "none",
                                          !.next = resumeAt(deployment[d])]))
  /\ Changes
  /\ UNCHANGED <<phase, agents, passVars, unscheduled, restarts>>

\* A run by hand works on the row of the same step; it leaves the instant alone.
RunByHand(d) ==
  /\ live(deployment[d])
  /\ \/ d \notin agents /\ deployment' = archivedBy(d)
     \/ d \in agents /\ deployment' = pausedBy(d, deployment[d].next)
     \/ d \in agents /\ deployment' = [deployment EXCEPT ![d].reason = "none"]
  /\ Changes
  /\ UNCHANGED <<phase, agents, passVars, unscheduled, restarts>>

ArchiveDeployment(d) ==
  /\ live(deployment[d])
  /\ deployment' = [deployment EXCEPT ![d].archived = TRUE, ![d].status = "archived"]
  /\ Changes
  /\ UNCHANGED <<phase, agents, passVars, unscheduled, restarts>>

DeleteDeployment(d) ==
  /\ deployment[d].place = "there"
  /\ deployment' = [deployment EXCEPT ![d] = [Absent EXCEPT !.place = "deleted"]]
  /\ Changes
  /\ UNCHANGED <<phase, agents, passVars, unscheduled, restarts>>

\* The agent of a deployment is archived or deleted.
AgentGone(d) ==
  /\ d \in agents /\ deployment[d].place # "absent"
  /\ agents' = agents \ {d}
  /\ Changes
  /\ UNCHANGED <<phase, deployment, passVars, unscheduled, restarts>>

-----------------------------------------------------------------------------
(* Time and the process. *)

ScheduleTick ==
  /\ phase' = (phase + 1) % Period
  /\ deployment' = [d \in Deployments |-> [deployment[d] EXCEPT !.next = elapses(@)]]
  /\ upcoming' = [p \in DuePasses |-> elapses(upcoming[p])]
  /\ UNCHANGED <<agents, batch, former, unscheduled, changes, restarts>>

\* rearmScheduledDeployments: what came while the process was down is not run.
rearmable(r) == live(r) /\ r.status = "active" /\ r.cron /\ (r.next = Unset \/ r.next <= 0)

RestartScheduler ==
  /\ restarts < MaxRestarts /\ restarts' = restarts + 1
  /\ \E jitter \in [Deployments -> 1..MaxJitter] :
       deployment' = [d \in Deployments |->
         IF rearmable(deployment[d])
         THEN [deployment[d] EXCEPT !.next = nextCron, !.delay = jitter[d]]
         ELSE deployment[d]]
  /\ batch' = [p \in DuePasses |-> [d \in Deployments |-> NotInHand]]
  /\ former' = [p \in DuePasses |-> {}]
  /\ upcoming' = [p \in DuePasses |-> Unset]
  /\ UNCHANGED <<phase, agents, unscheduled, changes>>

-----------------------------------------------------------------------------
ScheduleNext ==
  \/ \E p \in DuePasses : runDueScheduledDeployments(p) \/ runNext(p)
  \/ \E d \in Deployments :
       \/ Create(d) \/ UpdateDeployment(d) \/ Pause(d) \/ Unpause(d)
       \/ RunByHand(d) \/ ArchiveDeployment(d) \/ DeleteDeployment(d) \/ AgentGone(d)
  \/ ScheduleTick \/ RestartScheduler

\* The timer keeps firing, deliveries of events end, time passes.
ScheduleFairness ==
  /\ \A p \in DuePasses :
       WF_scheduleVars(runDueScheduledDeployments(p)) /\ WF_scheduleVars(runNext(p))
  /\ WF_scheduleVars(ScheduleTick)

ScheduleSpec == ScheduleInit /\ [][ScheduleNext]_scheduleVars /\ ScheduleFairness

-----------------------------------------------------------------------------
(* Properties. *)

ScheduleTypeOK ==
  /\ phase \in 0..Period - 1
  /\ deployment \in [Deployments -> DeploymentRows]
  /\ agents \subseteq Deployments /\ unscheduled \subseteq Deployments
  /\ batch \in [DuePasses -> [Deployments -> BatchRows]]
  /\ former \in [DuePasses -> SUBSET Deployments]
  /\ upcoming \in [DuePasses -> Instants]
  /\ changes \in 0..MaxChanges /\ restarts \in 0..MaxRestarts

\* due_at only ever names a fire that can happen (armDeploymentDueAt's comment):
\* what is not active has none, and what has one has an instant.  Conversely an
\* active, scheduled row with an instant is armed.  Both also after a pass has
\* written back a row it read before the operator's change.
FireCanHappen ==
  \A d \in Deployments : live(deployment[d]) =>
    /\ deployment[d].delay # 0 => deployment[d].status = "active" /\ deployment[d].next # Unset
    /\ deployment[d].status = "active" /\ deployment[d].cron /\ deployment[d].next # Unset
         => deployment[d].delay # 0

\* A deployment that stays active, scheduled and with its agent keeps being run,
\* whatever other deployments, passes that are cut short and restarts do; unless
\* its cadence was removed while a pass had it in hand.
CadenceKeepsRunning ==
  \A d \in Deployments :
    <>[](/\ live(deployment[d]) /\ deployment[d].status = "active" /\ deployment[d].cron
         /\ d \in agents /\ d \notin unscheduled)
      => []<><<\E p \in DuePasses : startPass(p, d) \/ runRow(p, d)>>_scheduleVars
=============================================================================
