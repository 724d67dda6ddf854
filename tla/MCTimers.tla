------------------------------- MODULE MCTimers -------------------------------
(* The two jobs of the operations timers, which share no row: retries of      *)
(* webhook deliveries and scheduled deployments.  One run checks both, one at *)
(* a time: `job` is chosen in the first state, and the other job rests.       *)
EXTENDS Webhooks, Schedules

CONSTANTS e1, e2, p1, p2, d1, d2, q1, q2

MCEvents == {e1, e2}
MCPasses == {p1, p2}
MCDeployments == {d1, d2}
MCDuePasses == {q1, q2}

VARIABLE job

timerVars == <<job, webhookVars, scheduleVars>>

TimersInit == job \in {"webhooks", "schedules"} /\ WebhookInit /\ ScheduleInit

ForWebhooks(A) == job = "webhooks" /\ A /\ UNCHANGED <<job, scheduleVars>>
ForSchedules(A) == job = "schedules" /\ A /\ UNCHANGED <<job, webhookVars>>

TimersNext == ForWebhooks(WebhookNext) \/ ForSchedules(ScheduleNext)

\* WebhookFairness of the one job, ScheduleFairness of the other.
TimersFairness ==
  /\ \A p \in Passes : WF_timerVars(ForWebhooks(retryDueWebhookDeliveries(p)))
  /\ \A c \in Carriers : /\ WF_timerVars(ForWebhooks(postWebhook(c)))
                         /\ WF_timerVars(ForWebhooks(Accepted(c) \/ Refused(c) \/ Failed(c)))
  /\ WF_timerVars(ForWebhooks(WebhookTick))
  /\ \A p \in DuePasses : /\ WF_timerVars(ForSchedules(runDueScheduledDeployments(p)))
                          /\ WF_timerVars(ForSchedules(runNext(p)))
  /\ WF_timerVars(ForSchedules(ScheduleTick))

TimersSpec == TimersInit /\ [][TimersNext]_timerVars /\ TimersFairness
===============================================================================
