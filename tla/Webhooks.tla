------------------------------- MODULE Webhooks -------------------------------
(***************************************************************************)
(* Deliveries of webhook events to one endpoint.  A dispatch reads the     *)
(* endpoint and posts a new event; a retry pass reads the due deliveries   *)
(* in one batch and posts them one by one.  Neither waits for the other,   *)
(* nor does the timer wait for its last pass, so several carriers may have *)
(* one delivery in hand, each with the attempt number it read, while the   *)
(* endpoint is disabled, re-enabled or archived and the process may die.   *)
(*                                                                         *)
(* A post reaches the receiver and its answer is recorded in another step. *)
(* Times are ages and remaining delays, counted in ticks.  The streak of   *)
(* failures starts when the failing attempt started, so its age is that of *)
(* the attempt.  Signatures, payloads and the audit columns are left out;  *)
(* other endpoints only make a carrier wait between its read and a post.   *)
(***************************************************************************)
EXTENDS Naturals, FiniteSets

CONSTANTS
  Events,       \* the events that are dispatched; each has one delivery row
  Passes,       \* retry passes that may be under way at once
  NoEvent,      \* a carrier posts nothing
  MaxAttempts,  \* maxAttempts
  MinDelay, FirstCeiling, MaxDelay,  \* the backoff before a retry
  FailureWindow,       \* sustainedFailureWindowSeconds
  Batch,        \* how many due rows a pass reads
  MaxPost,      \* the HTTP client gives up on an answer after this long
  MaxCrashes    \* bound: how often the process dies

Carriers == Events \cup Passes

ASSUME WebhookNames ==
  /\ Events \cap Passes = {} /\ NoEvent \notin Events
  /\ IsFiniteSet(Events)

ASSUME WebhookNumbers ==
  /\ MaxAttempts \in Nat \ {0}
  /\ MinDelay \in Nat \ {0} /\ FirstCeiling \in Nat /\ MaxDelay \in Nat
  /\ MinDelay <= FirstCeiling /\ FirstCeiling <= MaxDelay
  /\ FailureWindow \in Nat \ {0} /\ Batch \in Nat \ {0}
  /\ MaxPost \in Nat /\ MaxCrashes \in Nat

VARIABLES
  hook,      \* the endpoint's row: status, disabled_reason, archived_at, and
             \* whether failing_since is set
  failing,   \* the age of failing_since
  delivery,  \* per event: its row
  wait,      \* per event: ticks until next_retry_at
  hand,      \* per carrier and event: the number of the attempt it is to make; 0: none
  posting,   \* per carrier: the event it is posting
  elapsed,   \* per carrier: the age of its attempt
  dispatched,\* events that were dispatched
  sent,      \* history, per event: how often it was posted, up to MaxAttempts + 1
  accepted,  \* history: events of which a 2xx was recorded
  doubtful,  \* history: events two carriers had in hand at once, or whose post
             \* was cut off by the process's death
  quiet,     \* history: ticks since a 2xx was recorded or the endpoint written active
  crashes

carrierVars  == <<hand, posting, elapsed>>
rowVars      == <<delivery, wait>>
webhookPast  == <<sent, accepted, doubtful>>
webhookVars  == <<hook, failing, rowVars, carrierVars, dispatched, webhookPast, quiet, crashes>>

NoRow == [status |-> "none", count |-> 0]
Deliveries == [status : {"none", "pending_retry", "delivered", "failed"}, count : 0..MaxAttempts]
Hooks == [status : {"active", "disabled", "archived"}, reason : {"none", "endpoint", "sustained"},
          archived : BOOLEAN, streak : BOOLEAN]

\* No comparison distinguishes older ones.
OldestStreak == FailureWindow + MaxPost
aged(a, oldest) == IF a < oldest THEN a + 1 ELSE a

WebhookInit ==
  /\ hook = [status |-> "active", reason |-> "none", archived |-> FALSE, streak |-> FALSE]
  /\ failing = 0 /\ quiet = OldestStreak
  /\ delivery = [e \in Events |-> NoRow] /\ wait = [e \in Events |-> 0]
  /\ hand = [c \in Carriers |-> [e \in Events |-> 0]]
  /\ posting = [c \in Carriers |-> NoEvent] /\ elapsed = [c \in Carriers |-> 0]
  /\ dispatched = {}
  /\ sent = [e \in Events |-> 0] /\ accepted = {} /\ doubtful = {}
  /\ crashes = 0

-----------------------------------------------------------------------------
(* Who carries what. *)

held(e) == {c \in Carriers : hand[c][e] # 0}
idle(c) == \A e \in Events : hand[c][e] = 0

\* The active endpoints are read once; this one's turn may come later.
dispatchWebhookEvent(e) ==
  /\ e \notin dispatched /\ hook.status = "active" /\ ~ hook.archived
  /\ dispatched' = dispatched \cup {e}
  /\ hand' = [hand EXCEPT ![e][e] = 1]
  /\ UNCHANGED <<hook, failing, rowVars, posting, elapsed, webhookPast, quiet, crashes>>

dueRetries == {e \in Events : delivery[e].status = "pending_retry" /\ wait[e] = 0}

\* Up to Batch due rows; those due at once are not ordered further.
retryDueWebhookDeliveries(p) ==
  /\ idle(p) /\ hook.status = "active" /\ ~ hook.archived /\ dueRetries # {}
  /\ \E batch \in SUBSET dueRetries :
       /\ Cardinality(batch) <= Batch
       /\ batch = dueRetries \/ Cardinality(batch) = Batch
       /\ hand' = [hand EXCEPT ![p] =
            [e \in Events |-> IF e \in batch THEN delivery[e].count + 1 ELSE 0]]
       /\ doubtful' = doubtful \cup {e \in batch : held(e) # {}}
  /\ UNCHANGED <<hook, failing, rowVars, posting, elapsed, dispatched, sent, accepted, quiet, crashes>>

\* The request is on its way, or the address is refused and nothing is sent;
\* either counts as an attempt.  The endpoint's row is not read again.
postWebhook(c) ==
  \E e \in Events :
    /\ hand[c][e] # 0 /\ posting[c] = NoEvent
    /\ posting' = [posting EXCEPT ![c] = e]
    /\ elapsed' = [elapsed EXCEPT ![c] = 0]
    /\ sent' = [sent EXCEPT ![e] = aged(@, MaxAttempts + 1)]
    /\ UNCHANGED <<hook, failing, rowVars, hand, dispatched, accepted, doubtful, quiet, crashes>>

-----------------------------------------------------------------------------
(* What an answer does. *)

\* recordFailureStreak: the row is read anew, the time is that of the attempt's
\* start.
overdue(c) == hook.streak /\ failing >= elapsed[c] + FailureWindow

\* The delay before attempt n + 1 lies under a ceiling that doubles.
backoffCeiling(n) == IF FirstCeiling * 2^(n - 1) < MaxDelay THEN FirstCeiling * 2^(n - 1) ELSE MaxDelay

\* The row of the delivery, written whatever it holds by now: inserted by a first
\* attempt, updated by a retry.
written_Before(status, n) == [status |-> status, count |-> n - 1]
written(status, n) == [status |-> status, count |-> n]

Record(c, e, status, n) ==
  /\ delivery' = [delivery EXCEPT ![e] = written(status, n)]
  /\ \/ status = "pending_retry" /\ \E d \in MinDelay..backoffCeiling(n) : wait' = [wait EXCEPT ![e] = d]
     \/ status # "pending_retry" /\ wait' = [wait EXCEPT ![e] = 0]

\* The carrier turns to its next row.
Done(c, e) ==
  /\ hand' = [hand EXCEPT ![c][e] = 0]
  /\ posting' = [posting EXCEPT ![c] = NoEvent]
  /\ elapsed' = [elapsed EXCEPT ![c] = 0]
  /\ UNCHANGED <<dispatched, sent, doubtful, crashes>>

\* A 2xx ends the streak.
Accepted(c) ==
  \E e \in Events :
    /\ posting[c] = e
    /\ hook' = [hook EXCEPT !.streak = FALSE]
    /\ failing' = 0 /\ quiet' = 0
    /\ Record(c, e, "delivered", hand[c][e])
    /\ accepted' = accepted \cup {e}
    /\ Done(c, e)

\* A redirect, or an address that is refused: the endpoint is disabled, also if
\* it was archived or re-enabled meanwhile, and nothing is retried.
Refused(c) ==
  \E e \in Events :
    /\ posting[c] = e
    /\ hook' = [hook EXCEPT !.status = "disabled", !.reason = "endpoint"]
    /\ Record(c, e, "failed", hand[c][e])
    /\ Done(c, e)
    /\ UNCHANGED <<failing, accepted, quiet>>

retryLeft_One(n) == n <= MaxAttempts
retryLeft(n) == n < MaxAttempts

\* Any other answer, or none: the streak starts, goes on, or is too old.
streakStart_Kept(c) == IF hook.streak THEN failing ELSE OldestStreak
streakStart(c) == IF hook.streak THEN failing ELSE elapsed[c]

Failed(c) ==
  \E e \in Events :
    LET status == IF ~ overdue(c) /\ retryLeft(hand[c][e]) THEN "pending_retry" ELSE "failed"
    IN /\ posting[c] = e
       /\ hook' = IF overdue(c) THEN [hook EXCEPT !.status = "disabled", !.reason = "sustained"]
                                ELSE [hook EXCEPT !.streak = TRUE]
       /\ failing' = streakStart(c)
       /\ Record(c, e, status, hand[c][e])
       /\ Done(c, e)
       /\ UNCHANGED <<accepted, quiet>>

-----------------------------------------------------------------------------
(* The operator, time and the process. *)

\* PUT: an endpoint written active, whatever it was and whatever else is updated,
\* loses its reason and its streak; one written disabled keeps both.
Put ==
  /\ ~ hook.archived
  /\ \/ /\ hook' = [hook EXCEPT !.status = "active", !.reason = "none", !.streak = FALSE]
        /\ failing' = 0 /\ quiet' = 0
     \/ /\ hook' = [hook EXCEPT !.status = "disabled"]
        /\ UNCHANGED <<failing, quiet>>
  /\ UNCHANGED <<rowVars, carrierVars, dispatched, webhookPast, crashes>>

\* archiveById; the route refuses an endpoint that is archived already.
ArchiveHook ==
  /\ ~ hook.archived
  /\ hook' = [hook EXCEPT !.status = "archived", !.archived = TRUE]
  /\ UNCHANGED <<failing, rowVars, carrierVars, dispatched, webhookPast, quiet, crashes>>

Passing == [c \in Carriers |-> IF posting[c] = NoEvent THEN 0 ELSE elapsed[c] + 1]

WebhookTick ==
  /\ \A c \in Carriers : posting[c] # NoEvent => elapsed[c] < MaxPost
  /\ failing' = IF hook.streak THEN aged(failing, OldestStreak) ELSE failing
  /\ quiet' = aged(quiet, OldestStreak)
  /\ wait' = [e \in Events |-> IF wait[e] = 0 THEN 0 ELSE wait[e] - 1]
  /\ elapsed' = Passing
  /\ UNCHANGED <<hook, delivery, hand, posting, dispatched, webhookPast, crashes>>

\* The process dies and is started again: what was in hand is in the rows only.
WebhookCrash ==
  /\ crashes < MaxCrashes /\ \E c \in Carriers : ~ idle(c)
  /\ crashes' = crashes + 1
  /\ hand' = [c \in Carriers |-> [e \in Events |-> 0]]
  /\ posting' = [c \in Carriers |-> NoEvent] /\ elapsed' = [c \in Carriers |-> 0]
  /\ doubtful' = doubtful \cup {e \in Events : \E c \in Carriers : posting[c] = e}
  /\ UNCHANGED <<hook, failing, rowVars, dispatched, sent, accepted, quiet>>

-----------------------------------------------------------------------------
WebhookNext ==
  \/ \E e \in Events : dispatchWebhookEvent(e)
  \/ \E p \in Passes : retryDueWebhookDeliveries(p)
  \/ \E c \in Carriers : postWebhook(c) \/ Accepted(c) \/ Refused(c) \/ Failed(c)
  \/ Put \/ ArchiveHook \/ WebhookTick \/ WebhookCrash

\* The timer keeps firing, requests end (the client gives up on them), time passes.
WebhookFairness ==
  /\ \A p \in Passes : WF_webhookVars(retryDueWebhookDeliveries(p))
  /\ \A c \in Carriers : WF_webhookVars(postWebhook(c)) /\ WF_webhookVars(Accepted(c) \/ Refused(c) \/ Failed(c))
  /\ WF_webhookVars(WebhookTick)

WebhookSpec == WebhookInit /\ [][WebhookNext]_webhookVars /\ WebhookFairness

-----------------------------------------------------------------------------
(* Properties. *)

\* Types; who is posted is in hand, a pending delivery has attempts left, and an
\* active endpoint has no reason to be disabled.
WebhookTypeOK ==
  /\ hook \in Hooks /\ failing \in 0..OldestStreak /\ quiet \in 0..OldestStreak
  /\ delivery \in [Events -> Deliveries] /\ wait \in [Events -> Nat]
  /\ hand \in [Carriers -> [Events -> 0..MaxAttempts]]
  /\ posting \in [Carriers -> Events \cup {NoEvent}] /\ elapsed \in [Carriers -> 0..MaxPost]
  /\ dispatched \subseteq Events /\ sent \in [Events -> 0..MaxAttempts + 1]
  /\ accepted \subseteq Events /\ doubtful \subseteq Events /\ crashes \in 0..MaxCrashes
  /\ \A c \in Carriers : posting[c] # NoEvent => hand[c][posting[c]] # 0
  /\ \A e \in Events : delivery[e].status = "pending_retry" => delivery[e].count \in 1..MaxAttempts - 1
  /\ hook.status = "active" => hook.reason = "none" /\ ~ hook.archived

\* Unless two carriers had it in hand at once, or the process died over a post, an
\* event is posted at most MaxAttempts times and, once a 2xx was recorded, never
\* again (retryDueWebhookDeliveries, retryDelivery): batches read earlier, other
\* rows' answers and the endpoint's states do not matter.
NotResent ==
  \A e \in Events \ doubtful :
    /\ sent[e] <= MaxAttempts
    /\ e \in accepted => delivery[e].status = "delivered" /\ held(e) = {}

\* An endpoint is disabled for sustained failures only when no 2xx was recorded
\* for the failure window less the time an answer may take, however the attempts
\* overlap: a slow attempt dates the streak back to its own start, no further.
DisabledAfterOutage ==
  [][hook'.reason = "sustained" /\ hook.reason # "sustained"
       => quiet + MaxPost >= FailureWindow]_webhookVars

\* While the endpoint stays active every delivery comes to rest, delivered or
\* failed, and stays there: overlapping passes that write back a pending row, or
\* an older attempt number, do so only finitely often.
DeliveriesSettle ==
  <>[](hook.status = "active") => \A e \in Events : <>[](delivery[e].status # "pending_retry")
=============================================================================
