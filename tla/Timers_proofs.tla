---------------------------- MODULE Timers_proofs ----------------------------
(***************************************************************************)
(* What the two jobs of the operations timers keep, Webhooks for any number *)
(* of events, passes and attempts, and Schedules for any number of          *)
(* deployments and passes and any period, jitter and batch.                 *)
(*                                                                         *)
(* The invariant of Webhooks has four parts: the endpoint's row and how old *)
(* its streak can be, the carriers, the rows of the deliveries, and, for    *)
(* every event that is not in doubt, that the row, the attempt in hand and  *)
(* the number of posts agree.  That of Schedules has two: the rows, and     *)
(* everything else.                                                         *)
(***************************************************************************)
EXTENDS Webhooks, Schedules, TLAPS

-------------------------------------------------------------------------------
(* Webhooks *)

\* A streak is no older than the last 2xx, or the last write that made the
\* endpoint active, and the time one answer may take.
HookOK ==
  /\ hook \in Hooks /\ failing \in 0..OldestStreak /\ quiet \in 0..OldestStreak
  /\ hook.status = "active" => hook.reason = "none" /\ ~ hook.archived
  /\ hook.streak => failing <= quiet + MaxPost

CarryOK ==
  /\ hand \in [Carriers -> [Events -> 0..MaxAttempts]]
  /\ posting \in [Carriers -> Events \cup {NoEvent}] /\ elapsed \in [Carriers -> 0..MaxPost]
  /\ \A c \in Carriers : posting[c] # NoEvent => hand[c][posting[c]] # 0

RowOK ==
  /\ delivery \in [Events -> Deliveries] /\ wait \in [Events -> Nat]
  /\ \A e \in Events : delivery[e].status = "pending_retry" => delivery[e].count \in 1..MaxAttempts - 1

PastOK ==
  /\ dispatched \subseteq Events /\ sent \in [Events -> 0..MaxAttempts + 1]
  /\ accepted \subseteq Events /\ doubtful \subseteq Events /\ crashes \in 0..MaxCrashes

\* One carrier at most has the event in hand, it makes the attempt after those the
\* row counts, and the row counts the posts, the one under way excepted.
Tallies(e) ==
  /\ \A c \in Carriers : hand[c][e] # 0 =>
       /\ hand[c][e] = delivery[e].count + 1
       /\ sent[e] = IF posting[c] = e THEN delivery[e].count + 1 ELSE delivery[e].count
       /\ \A b \in Carriers : hand[b][e] # 0 => b = c
  /\ (\A c \in Carriers : hand[c][e] = 0) => sent[e] = delivery[e].count
  /\ e \notin dispatched =>
       delivery[e] = NoRow /\ e \notin accepted /\ \A c \in Carriers : hand[c][e] = 0
  /\ e \in accepted => delivery[e].status = "delivered" /\ \A c \in Carriers : hand[c][e] = 0

TallyOK == \A e \in Events \ doubtful : Tallies(e)

WebhookInv == HookOK /\ CarryOK /\ RowOK /\ PastOK /\ TallyOK

--------------------------------------------------------------------------------
LEMMA Ages ==
  /\ OldestStreak \in Nat /\ MaxPost <= OldestStreak
  /\ \A a \in 0..OldestStreak : aged(a, OldestStreak) \in 0..OldestStreak
  /\ \A a \in 0..MaxAttempts + 1 : aged(a, MaxAttempts + 1) \in 0..MaxAttempts + 1
  BY WebhookNumbers DEF OldestStreak, aged

LEMMA HookStep ==
  ASSUME HookOK, CarryOK, [WebhookNext]_webhookVars
  PROVE  HookOK'
  <1> USE WebhookNumbers, WebhookNames DEF HookOK
  <1>1. ASSUME NEW e \in Events, dispatchWebhookEvent(e) PROVE HookOK'
    BY <1>1 DEF dispatchWebhookEvent
  <1>2. ASSUME NEW p \in Passes, retryDueWebhookDeliveries(p) PROVE HookOK'
    BY <1>2 DEF retryDueWebhookDeliveries
  <1>3. ASSUME NEW c \in Carriers, postWebhook(c) PROVE HookOK'
    BY <1>3 DEF postWebhook
  <1>4. ASSUME NEW c \in Carriers, Accepted(c) PROVE HookOK'
    <2>1. hook' = [hook EXCEPT !.streak = FALSE] /\ failing' = 0 /\ quiet' = 0
      BY <1>4 DEF Accepted
    <2>2. hook' \in Hooks /\ ~ hook'.streak /\ (hook'.status = "active" => hook'.reason = "none" /\ ~ hook'.archived)
      BY <2>1 DEF Hooks
    <2> QED
      BY <2>1, <2>2, Ages
  <1>5. ASSUME NEW c \in Carriers, Refused(c) PROVE HookOK'
    BY <1>5, Ages DEF Refused, Hooks
  <1>6. ASSUME NEW c \in Carriers, Failed(c) PROVE HookOK'
    <2>1. PICK e \in Events :
            /\ hook' = IF overdue(c) THEN [hook EXCEPT !.status = "disabled", !.reason = "sustained"]
                                     ELSE [hook EXCEPT !.streak = TRUE]
            /\ failing' = streakStart(c) /\ UNCHANGED quiet
      BY <1>6 DEF Failed
    <2>2. elapsed[c] \in 0..MaxPost /\ elapsed[c] \in 0..OldestStreak
      BY Ages DEF CarryOK
    <2>3. failing' \in 0..OldestStreak /\ failing' <= quiet + MaxPost
      BY <2>1, <2>2 DEF streakStart
    <2>4. hook' \in Hooks /\ (hook'.status = "active" => hook'.reason = "none" /\ ~ hook'.archived)
      BY <2>1 DEF Hooks
    <2> QED
      BY <2>1, <2>3, <2>4
  <1>7. CASE Put
    <2>1. CASE /\ hook' = [hook EXCEPT !.status = "active", !.reason = "none", !.streak = FALSE]
               /\ failing' = 0 /\ quiet' = 0
      <3>1. hook' \in Hooks /\ ~ hook'.streak /\ hook'.reason = "none" /\ ~ hook'.archived
        BY <1>7, <2>1 DEF Put, Hooks
      <3> QED
        BY <2>1, <3>1, Ages
    <2>2. CASE hook' = [hook EXCEPT !.status = "disabled"] /\ UNCHANGED <<failing, quiet>>
      BY <2>2 DEF Hooks
    <2> QED
      BY <1>7, <2>1, <2>2 DEF Put
  <1>8. CASE ArchiveHook
    BY <1>8, Ages DEF ArchiveHook, Hooks
  <1>9. CASE WebhookTick
    <2>1. failing' = (IF hook.streak THEN aged(failing, OldestStreak) ELSE failing) /\ hook' = hook
          /\ quiet' = aged(quiet, OldestStreak)
      BY <1>9 DEF WebhookTick
    <2>2. failing' \in 0..OldestStreak /\ quiet' \in 0..OldestStreak
      BY <2>1, Ages
    <2>3. hook.streak => failing' <= quiet' + MaxPost
      BY <2>1, Ages DEF aged
    <2> QED
      BY <2>1, <2>2, <2>3
  <1>10. CASE WebhookCrash
    BY <1>10 DEF WebhookCrash
  <1>11. CASE UNCHANGED webhookVars
    BY <1>11 DEF webhookVars, rowVars, carrierVars, webhookPast
  <1> QED
    BY <1>1, <1>2, <1>3, <1>4, <1>5, <1>6, <1>7, <1>8, <1>9, <1>10, <1>11 DEF WebhookNext

LEMMA CarryStep ==
  ASSUME CarryOK, RowOK, [WebhookNext]_webhookVars
  PROVE  CarryOK'
  <1> USE WebhookNumbers, WebhookNames DEF CarryOK
  <1>1. ASSUME NEW e \in Events, dispatchWebhookEvent(e) PROVE CarryOK'
    <2>1. hand' = [hand EXCEPT ![e][e] = 1] /\ UNCHANGED <<posting, elapsed>>
      BY <1>1 DEF dispatchWebhookEvent
    <2>2. e \in Carriers /\ 1 \in 0..MaxAttempts
      BY DEF Carriers
    <2>3. hand' \in [Carriers -> [Events -> 0..MaxAttempts]]
      BY <2>1, <2>2
    <2>4. ASSUME NEW b \in Carriers, posting[b] # NoEvent PROVE hand'[b][posting[b]] # 0
      BY <2>1, <2>2, <2>4
    <2> QED
      BY <2>1, <2>3, <2>4
  <1>2. ASSUME NEW p \in Passes, retryDueWebhookDeliveries(p) PROVE CarryOK'
    <2>1. PICK chosen \in SUBSET dueRetries :
            hand' = [hand EXCEPT ![p] = [e \in Events |-> IF e \in chosen THEN delivery[e].count + 1 ELSE 0]]
      BY <1>2 DEF retryDueWebhookDeliveries
    <2>2. \A e \in chosen : delivery[e].count + 1 \in 0..MaxAttempts
      BY DEF dueRetries, RowOK, Deliveries
    <2>3. p \in Carriers /\ idle(p) /\ UNCHANGED <<posting, elapsed>>
      BY <1>2 DEF retryDueWebhookDeliveries, Carriers
    <2>4. [e \in Events |-> IF e \in chosen THEN delivery[e].count + 1 ELSE 0] \in [Events -> 0..MaxAttempts]
      BY <2>2
    <2>5. hand' \in [Carriers -> [Events -> 0..MaxAttempts]]
      BY <2>1, <2>4
    <2>6. ASSUME NEW b \in Carriers, posting[b] # NoEvent PROVE hand'[b][posting[b]] # 0
      BY <2>1, <2>3, <2>6 DEF idle
    <2> QED
      BY <2>3, <2>5, <2>6
  <1>3. ASSUME NEW c \in Carriers, postWebhook(c) PROVE CarryOK'
    <2>1. PICK e \in Events : hand[c][e] # 0 /\ posting' = [posting EXCEPT ![c] = e]
                              /\ elapsed' = [elapsed EXCEPT ![c] = 0] /\ UNCHANGED hand
      BY <1>3 DEF postWebhook
    <2> QED
      BY <2>1
  <1>4. ASSUME NEW c \in Carriers, Accepted(c) PROVE CarryOK'
    <2>1. PICK e \in Events : posting[c] = e /\ Done(c, e)
      BY <1>4 DEF Accepted
    <2>2. /\ hand' = [hand EXCEPT ![c][e] = 0]
          /\ posting' = [posting EXCEPT ![c] = NoEvent] /\ elapsed' = [elapsed EXCEPT ![c] = 0]
      BY <2>1 DEF Done
    <2>3. ASSUME NEW b \in Carriers, posting'[b] # NoEvent PROVE hand'[b][posting'[b]] # 0
      BY <2>2, <2>3
    <2>4. hand' \in [Carriers -> [Events -> 0..MaxAttempts]]
      BY <2>2
    <2> QED
      BY <2>2, <2>3, <2>4
  <1>5. ASSUME NEW c \in Carriers, Refused(c) PROVE CarryOK'
    <2>1. PICK e \in Events : posting[c] = e /\ Done(c, e)
      BY <1>5 DEF Refused
    <2>2. /\ hand' = [hand EXCEPT ![c][e] = 0]
          /\ posting' = [posting EXCEPT ![c] = NoEvent] /\ elapsed' = [elapsed EXCEPT ![c] = 0]
      BY <2>1 DEF Done
    <2>3. ASSUME NEW b \in Carriers, posting'[b] # NoEvent PROVE hand'[b][posting'[b]] # 0
      BY <2>2, <2>3
    <2>4. hand' \in [Carriers -> [Events -> 0..MaxAttempts]]
      BY <2>2
    <2> QED
      BY <2>2, <2>3, <2>4
  <1>6. ASSUME NEW c \in Carriers, Failed(c) PROVE CarryOK'
    <2>1. PICK e \in Events : posting[c] = e /\ Done(c, e)
      BY <1>6 DEF Failed
    <2>2. /\ hand' = [hand EXCEPT ![c][e] = 0]
          /\ posting' = [posting EXCEPT ![c] = NoEvent] /\ elapsed' = [elapsed EXCEPT ![c] = 0]
      BY <2>1 DEF Done
    <2>3. ASSUME NEW b \in Carriers, posting'[b] # NoEvent PROVE hand'[b][posting'[b]] # 0
      BY <2>2, <2>3
    <2>4. hand' \in [Carriers -> [Events -> 0..MaxAttempts]]
      BY <2>2
    <2> QED
      BY <2>2, <2>3, <2>4
  <1>7. CASE Put
    BY <1>7 DEF Put, carrierVars
  <1>8. CASE ArchiveHook
    BY <1>8 DEF ArchiveHook, carrierVars
  <1>9. CASE WebhookTick
    BY <1>9 DEF WebhookTick, Passing
  <1>10. CASE WebhookCrash
    BY <1>10 DEF WebhookCrash
  <1>11. CASE UNCHANGED webhookVars
    BY <1>11 DEF webhookVars, rowVars, carrierVars, webhookPast
  <1> QED
    BY <1>1, <1>2, <1>3, <1>4, <1>5, <1>6, <1>7, <1>8, <1>9, <1>10, <1>11 DEF WebhookNext

LEMMA RecordRow ==
  ASSUME RowOK, CarryOK, NEW c \in Carriers, NEW e \in Events, posting[c] = e,
         NEW status \in {"pending_retry", "delivered", "failed"},
         status = "pending_retry" => hand[c][e] < MaxAttempts,
         Record(c, e, status, hand[c][e])
  PROVE  RowOK'
  <1> DEFINE n == hand[c][e]
  <1>1. n \in 1..MaxAttempts
    BY WebhookNames, WebhookNumbers DEF CarryOK
  <1>2. delivery' = [delivery EXCEPT ![e] = [status |-> status, count |-> n]]
    BY DEF Record, written
  <1>3. PICK d \in Nat : wait' = [wait EXCEPT ![e] = d]
    <2>1. ASSUME NEW d \in MinDelay..backoffCeiling(n) PROVE d \in Nat
      BY <2>1, WebhookNumbers
    <2> QED
      BY <2>1 DEF Record
  <1>4. [status |-> status, count |-> n] \in Deliveries
    BY <1>1 DEF Deliveries
  <1> HIDE DEF n
  <1>5. status = "pending_retry" => n \in 1..MaxAttempts - 1
    BY <1>1, WebhookNumbers DEF n
  <1> QED
    BY <1>2, <1>3, <1>4, <1>5 DEF RowOK

LEMMA RowStep ==
  ASSUME RowOK, CarryOK, [WebhookNext]_webhookVars
  PROVE  RowOK'
  <1> USE WebhookNumbers, WebhookNames DEF RowOK
  <1>1. ASSUME NEW e \in Events, dispatchWebhookEvent(e) PROVE RowOK'
    BY <1>1 DEF dispatchWebhookEvent, rowVars
  <1>2. ASSUME NEW p \in Passes, retryDueWebhookDeliveries(p) PROVE RowOK'
    BY <1>2 DEF retryDueWebhookDeliveries, rowVars
  <1>3. ASSUME NEW c \in Carriers, postWebhook(c) PROVE RowOK'
    BY <1>3 DEF postWebhook, rowVars
  <1>4. ASSUME NEW c \in Carriers, Accepted(c) PROVE RowOK'
    <2>1. PICK e \in Events : posting[c] = e /\ Record(c, e, "delivered", hand[c][e])
      BY <1>4 DEF Accepted
    <2> QED
      BY <2>1, RecordRow DEF CarryOK
  <1>5. ASSUME NEW c \in Carriers, Refused(c) PROVE RowOK'
    <2>1. PICK e \in Events : posting[c] = e /\ Record(c, e, "failed", hand[c][e])
      BY <1>5 DEF Refused
    <2> QED
      BY <2>1, RecordRow DEF CarryOK
  <1>6. ASSUME NEW c \in Carriers, Failed(c) PROVE RowOK'
    <2>1. PICK e \in Events :
            /\ posting[c] = e
            /\ Record(c, e, IF ~ overdue(c) /\ retryLeft(hand[c][e]) THEN "pending_retry" ELSE "failed", hand[c][e])
      BY <1>6 DEF Failed
    <2> DEFINE status == IF ~ overdue(c) /\ retryLeft(hand[c][e]) THEN "pending_retry" ELSE "failed"
    <2>2. status \in {"pending_retry", "delivered", "failed"} /\ (status = "pending_retry" => hand[c][e] < MaxAttempts)
      BY DEF retryLeft
    <2> HIDE DEF status
    <2>3. Record(c, e, status, hand[c][e])
      BY <2>1 DEF status
    <2> QED
      BY <2>1, <2>2, <2>3, RecordRow
  <1>7. CASE Put
    BY <1>7 DEF Put, rowVars
  <1>8. CASE ArchiveHook
    BY <1>8 DEF ArchiveHook, rowVars
  <1>9. CASE WebhookTick
    BY <1>9 DEF WebhookTick
  <1>10. CASE WebhookCrash
    BY <1>10 DEF WebhookCrash, rowVars
  <1>11. CASE UNCHANGED webhookVars
    BY <1>11 DEF webhookVars, rowVars, carrierVars, webhookPast
  <1> QED
    BY <1>1, <1>2, <1>3, <1>4, <1>5, <1>6, <1>7, <1>8, <1>9, <1>10, <1>11 DEF WebhookNext

LEMMA PastStep ==
  ASSUME PastOK, [WebhookNext]_webhookVars
  PROVE  PastOK'
  <1> USE WebhookNumbers, WebhookNames DEF PastOK
  <1>1. ASSUME NEW e \in Events, dispatchWebhookEvent(e) PROVE PastOK'
    BY <1>1 DEF dispatchWebhookEvent, webhookPast
  <1>2. ASSUME NEW p \in Passes, retryDueWebhookDeliveries(p) PROVE PastOK'
    BY <1>2 DEF retryDueWebhookDeliveries, dueRetries
  <1>3. ASSUME NEW c \in Carriers, postWebhook(c) PROVE PastOK'
    BY <1>3, Ages DEF postWebhook
  <1>4. ASSUME NEW c \in Carriers, Accepted(c) PROVE PastOK'
    <2>1. UNCHANGED <<dispatched, sent, doubtful, crashes>> /\ accepted' \subseteq Events
      BY <1>4 DEF Accepted, Done
    <2> QED
      BY <2>1
  <1>5. ASSUME NEW c \in Carriers, Refused(c) PROVE PastOK'
    <2>1. UNCHANGED <<dispatched, sent, doubtful, crashes>> /\ accepted' \subseteq Events
      BY <1>5 DEF Refused, Done
    <2> QED
      BY <2>1
  <1>6. ASSUME NEW c \in Carriers, Failed(c) PROVE PastOK'
    <2>1. UNCHANGED <<dispatched, sent, doubtful, crashes>> /\ accepted' \subseteq Events
      BY <1>6 DEF Failed, Done
    <2> QED
      BY <2>1
  <1>7. CASE Put
    BY <1>7 DEF Put, webhookPast
  <1>8. CASE ArchiveHook
    BY <1>8 DEF ArchiveHook, webhookPast
  <1>9. CASE WebhookTick
    BY <1>9 DEF WebhookTick, webhookPast
  <1>10. CASE WebhookCrash
    <2>1. crashes' \in 0..MaxCrashes
      BY <1>10 DEF WebhookCrash
    <2> QED
      BY <1>10, <2>1 DEF WebhookCrash
  <1>11. CASE UNCHANGED webhookVars
    BY <1>11 DEF webhookVars, rowVars, carrierVars, webhookPast
  <1> QED
    BY <1>1, <1>2, <1>3, <1>4, <1>5, <1>6, <1>7, <1>8, <1>9, <1>10, <1>11 DEF WebhookNext

LEMMA TallyStep ==
  ASSUME WebhookInv, [WebhookNext]_webhookVars
  PROVE  TallyOK'
  <1> USE WebhookNumbers, WebhookNames DEF WebhookInv, TallyOK
  <1>1. ASSUME NEW e \in Events, dispatchWebhookEvent(e) PROVE TallyOK'
    <2>1. /\ hand' = [hand EXCEPT ![e][e] = 1] /\ dispatched' = dispatched \cup {e} /\ e \notin dispatched
          /\ UNCHANGED <<delivery, posting, sent, accepted, doubtful>>
      BY <1>1 DEF dispatchWebhookEvent, rowVars, webhookPast
    <2>2. ASSUME NEW x \in Events \ doubtful PROVE Tallies(x)'
      <3>1. Tallies(x)
        OBVIOUS
      <3>2. CASE x = e
        <4>1. delivery[e] = NoRow /\ e \notin accepted /\ \A c \in Carriers : hand[c][e] = 0
          BY <2>1, <3>1, <3>2 DEF Tallies
        <4>2. e \in Carriers /\ posting[e] # e
          BY <4>1 DEF Carriers, CarryOK
        <4>3. hand'[e][e] = 1 /\ \A c \in Carriers : hand'[c][e] # 0 => c = e
          BY <2>1, <4>1, <4>2 DEF CarryOK
        <4>4. sent[e] = 0 /\ delivery[e].count = 0
          BY <3>1, <3>2, <4>1 DEF Tallies, NoRow
        <4> QED
          BY <2>1, <3>2, <4>1, <4>2, <4>3, <4>4 DEF Tallies
      <3>3. CASE x # e
        <4>1. \A c \in Carriers : hand'[c][x] = hand[c][x]
          BY <2>1, <3>3 DEF CarryOK
        <4> QED
          BY <2>1, <3>1, <3>3, <4>1 DEF Tallies
      <3> QED
        BY <3>2, <3>3
    <2> QED
      BY <2>1, <2>2
  <1>2. ASSUME NEW p \in Passes, retryDueWebhookDeliveries(p) PROVE TallyOK'
    <2>1. PICK chosen \in SUBSET dueRetries :
            /\ hand' = [hand EXCEPT ![p] = [e \in Events |-> IF e \in chosen THEN delivery[e].count + 1 ELSE 0]]
            /\ doubtful' = doubtful \cup {e \in chosen : held(e) # {}}
      BY <1>2 DEF retryDueWebhookDeliveries
    <2>2. p \in Carriers /\ idle(p) /\ UNCHANGED <<delivery, posting, dispatched, sent, accepted>>
      BY <1>2 DEF retryDueWebhookDeliveries, rowVars, Carriers
    <2>3. ASSUME NEW e \in Events \ doubtful' PROVE Tallies(e)'
      <3>1. Tallies(e) /\ hand[p][e] = 0
        BY <2>1, <2>2 DEF idle
      <3>2. CASE e \in chosen
        <4>1. \A c \in Carriers : hand[c][e] = 0
          BY <2>1, <3>2 DEF held
        <4>2. delivery[e].status = "pending_retry" /\ delivery[e].count \in Nat
          BY <3>2 DEF dueRetries, RowOK, Deliveries
        <4>3. hand'[p][e] = delivery[e].count + 1 /\ \A c \in Carriers : hand'[c][e] # 0 => c = p
          BY <2>1, <2>2, <3>2, <4>1 DEF CarryOK
        <4>4. posting[p] # e
          BY <2>2, <4>1 DEF CarryOK
        <4>5. e \in dispatched /\ e \notin accepted
          BY <3>1, <4>2 DEF Tallies, NoRow
        <4> QED
          BY <2>2, <3>1, <4>1, <4>2, <4>3, <4>4, <4>5 DEF Tallies
      <3>3. CASE e \notin chosen
        <4>1. \A c \in Carriers : hand'[c][e] = hand[c][e]
          BY <2>1, <2>2, <3>1, <3>3 DEF CarryOK
        <4> QED
          BY <2>2, <3>1, <4>1 DEF Tallies
      <3> QED
        BY <3>2, <3>3
    <2> QED
      BY <2>3
  <1>3. ASSUME NEW c \in Carriers, postWebhook(c) PROVE TallyOK'
    <2>1. PICK x \in Events :
            /\ hand[c][x] # 0 /\ posting[c] = NoEvent /\ posting' = [posting EXCEPT ![c] = x]
            /\ sent' = [sent EXCEPT ![x] = aged(sent[x], MaxAttempts + 1)]
            /\ UNCHANGED <<delivery, hand, dispatched, accepted, doubtful>>
      BY <1>3 DEF postWebhook, rowVars
    <2>2. ASSUME NEW e \in Events \ doubtful PROVE Tallies(e)'
      <3>1. Tallies(e)
        OBVIOUS
      <3>2. CASE e = x
        <4>1. /\ hand[c][e] = delivery[e].count + 1 /\ sent[e] = delivery[e].count
              /\ \A b \in Carriers : hand[b][e] # 0 => b = c
          BY <2>1, <3>1, <3>2 DEF Tallies
        <4>2. delivery[e].count < MaxAttempts + 1 /\ delivery[e].count \in Nat
          BY <4>1 DEF CarryOK, RowOK, Deliveries
        <4>3. sent'[e] = delivery[e].count + 1
          <5>1. sent'[e] = aged(sent[e], MaxAttempts + 1)
            BY <2>1, <3>2 DEF PastOK
          <5> QED
            BY <4>1, <4>2, <5>1 DEF aged
        <4>5. posting'[c] = e
          BY <2>1, <3>2 DEF CarryOK
        <4>4. hand[c][e] # 0
          BY <2>1, <3>2
        <4> QED
          BY <2>1, <3>1, <3>2, <4>1, <4>3, <4>4, <4>5 DEF Tallies
      <3>3. CASE e # x
        <4>1. sent'[e] = sent[e] /\ \A b \in Carriers : posting'[b] = e <=> posting[b] = e
          BY <2>1, <3>3 DEF CarryOK, PastOK
        <4> QED
          BY <2>1, <3>1, <4>1 DEF Tallies
      <3> QED
        BY <3>2, <3>3
    <2> QED
      BY <2>1, <2>2
  <1>4. ASSUME NEW c \in Carriers, Accepted(c) PROVE TallyOK'
    <2>1. PICK x \in Events :
            /\ posting[c] = x /\ hand[c][x] # 0 /\ Done(c, x)
            /\ delivery'[x] = [status |-> "delivered", count |-> hand[c][x]]
            /\ \A e \in Events \ {x} : delivery'[e] = delivery[e]
            /\ accepted' = accepted \cup {x}
      BY <1>4 DEF Accepted, Record, written, RowOK, CarryOK
    <2>2. /\ hand' = [hand EXCEPT ![c][x] = 0] /\ posting' = [posting EXCEPT ![c] = NoEvent]
          /\ UNCHANGED <<dispatched, sent, doubtful>>
      BY <2>1 DEF Done
    <2>3. ASSUME NEW e \in Events \ doubtful PROVE Tallies(e)'
      <3>1. Tallies(e)
        OBVIOUS
      <3>2. CASE e = x
        <4>1. /\ hand[c][e] = delivery[e].count + 1 /\ sent[e] = delivery[e].count + 1
              /\ \A b \in Carriers : hand[b][e] # 0 => b = c
          BY <2>1, <3>1, <3>2 DEF Tallies
        <4>2. \A b \in Carriers : hand'[b][e] = 0
          BY <2>2, <3>2, <4>1 DEF CarryOK
        <4>3. e \in dispatched /\ e \notin accepted
          BY <2>1, <3>1, <3>2 DEF Tallies
        <4>4. delivery'[e].count = hand[c][e] /\ sent' = sent /\ dispatched' = dispatched
          BY <2>1, <2>2, <3>2
        <4>5. e \in accepted' => delivery'[e].status = "delivered"
          BY <2>1, <3>2
        <4> QED
          BY <4>1, <4>2, <4>3, <4>4, <4>5 DEF Tallies
      <3>3. CASE e # x
        <4>1. \A b \in Carriers : hand'[b][e] = hand[b][e] /\ (posting'[b] = e <=> posting[b] = e)
          BY <2>1, <2>2, <3>3 DEF CarryOK
        <4>2. delivery'[e] = delivery[e] /\ (e \in accepted' <=> e \in accepted)
          BY <2>1, <3>3
        <4> QED
          BY <2>2, <3>1, <4>1, <4>2 DEF Tallies
      <3> QED
        BY <3>2, <3>3
    <2> QED
      BY <2>2, <2>3
  <1>5. ASSUME NEW c \in Carriers, Refused(c) PROVE TallyOK'
    <2>1. PICK x \in Events :
            /\ posting[c] = x /\ hand[c][x] # 0 /\ Done(c, x)
            /\ delivery'[x] = [status |-> "failed", count |-> hand[c][x]]
            /\ \A e \in Events \ {x} : delivery'[e] = delivery[e]
            /\ UNCHANGED accepted
      BY <1>5 DEF Refused, Record, written, RowOK, CarryOK
    <2>2. /\ hand' = [hand EXCEPT ![c][x] = 0] /\ posting' = [posting EXCEPT ![c] = NoEvent]
          /\ UNCHANGED <<dispatched, sent, doubtful>>
      BY <2>1 DEF Done
    <2>3. ASSUME NEW e \in Events \ doubtful PROVE Tallies(e)'
      <3>1. Tallies(e)
        OBVIOUS
      <3>2. CASE e = x
        <4>1. /\ hand[c][e] = delivery[e].count + 1 /\ sent[e] = delivery[e].count + 1
              /\ \A b \in Carriers : hand[b][e] # 0 => b = c
          BY <2>1, <3>1, <3>2 DEF Tallies
        <4>2. \A b \in Carriers : hand'[b][e] = 0
          BY <2>2, <3>2, <4>1 DEF CarryOK
        <4>3. e \in dispatched /\ e \notin accepted
          BY <2>1, <3>1, <3>2 DEF Tallies
        <4>4. delivery'[e].count = hand[c][e] /\ sent' = sent /\ dispatched' = dispatched
          BY <2>1, <2>2, <3>2
        <4>5. e \in accepted' => FALSE
          BY <2>1, <4>3
        <4> QED
          BY <4>1, <4>2, <4>3, <4>4, <4>5 DEF Tallies
      <3>3. CASE e # x
        <4>1. \A b \in Carriers : hand'[b][e] = hand[b][e] /\ (posting'[b] = e <=> posting[b] = e)
          BY <2>1, <2>2, <3>3 DEF CarryOK
        <4>2. delivery'[e] = delivery[e] /\ (e \in accepted' <=> e \in accepted)
          BY <2>1, <3>3
        <4> QED
          BY <2>2, <3>1, <4>1, <4>2 DEF Tallies
      <3> QED
        BY <3>2, <3>3
    <2> QED
      BY <2>2, <2>3
  <1>6. ASSUME NEW c \in Carriers, Failed(c) PROVE TallyOK'
    <2>1. PICK x \in Events :
            /\ posting[c] = x /\ hand[c][x] # 0 /\ Done(c, x)
            /\ delivery'[x] = [status |-> IF ~ overdue(c) /\ retryLeft(hand[c][x]) THEN "pending_retry" ELSE "failed", count |-> hand[c][x]]
            /\ \A e \in Events \ {x} : delivery'[e] = delivery[e]
            /\ UNCHANGED accepted
      BY <1>6 DEF Failed, Record, written, RowOK, CarryOK
    <2>2. /\ hand' = [hand EXCEPT ![c][x] = 0] /\ posting' = [posting EXCEPT ![c] = NoEvent]
          /\ UNCHANGED <<dispatched, sent, doubtful>>
      BY <2>1 DEF Done
    <2>3. ASSUME NEW e \in Events \ doubtful PROVE Tallies(e)'
      <3>1. Tallies(e)
        OBVIOUS
      <3>2. CASE e = x
        <4>1. /\ hand[c][e] = delivery[e].count + 1 /\ sent[e] = delivery[e].count + 1
              /\ \A b \in Carriers : hand[b][e] # 0 => b = c
          BY <2>1, <3>1, <3>2 DEF Tallies
        <4>2. \A b \in Carriers : hand'[b][e] = 0
          BY <2>2, <3>2, <4>1 DEF CarryOK
        <4>3. e \in dispatched /\ e \notin accepted
          BY <2>1, <3>1, <3>2 DEF Tallies
        <4>4. delivery'[e].count = hand[c][e] /\ sent' = sent /\ dispatched' = dispatched
          BY <2>1, <2>2, <3>2
        <4>5. e \in accepted' => FALSE
          BY <2>1, <4>3
        <4> QED
          BY <4>1, <4>2, <4>3, <4>4, <4>5 DEF Tallies
      <3>3. CASE e # x
        <4>1. \A b \in Carriers : hand'[b][e] = hand[b][e] /\ (posting'[b] = e <=> posting[b] = e)
          BY <2>1, <2>2, <3>3 DEF CarryOK
        <4>2. delivery'[e] = delivery[e] /\ (e \in accepted' <=> e \in accepted)
          BY <2>1, <3>3
        <4> QED
          BY <2>2, <3>1, <4>1, <4>2 DEF Tallies
      <3> QED
        BY <3>2, <3>3
    <2> QED
      BY <2>2, <2>3
  <1>7. CASE Put
    BY <1>7 DEF Put, rowVars, carrierVars, webhookPast, Tallies
  <1>8. CASE ArchiveHook
    BY <1>8 DEF ArchiveHook, rowVars, carrierVars, webhookPast, Tallies
  <1>9. CASE WebhookTick
    BY <1>9 DEF WebhookTick, webhookPast, Tallies
  <1>10. CASE WebhookCrash
    <2>1. /\ hand' = [c \in Carriers |-> [e \in Events |-> 0]]
          /\ posting' = [c \in Carriers |-> NoEvent]
          /\ doubtful' = doubtful \cup {e \in Events : \E c \in Carriers : posting[c] = e}
          /\ UNCHANGED <<delivery, dispatched, sent, accepted>>
      BY <1>10 DEF WebhookCrash, rowVars
    <2>2. ASSUME NEW e \in Events \ doubtful' PROVE Tallies(e)'
      <3>1. Tallies(e) /\ \A c \in Carriers : posting[c] # e
        BY <2>1
      <3>2. \A c \in Carriers : hand'[c][e] = 0
        BY <2>1
      <3>3. sent[e] = delivery[e].count
        BY <3>1 DEF Tallies
      <3> QED
        BY <2>1, <3>1, <3>2, <3>3 DEF Tallies
    <2> QED
      BY <2>2
  <1>11. CASE UNCHANGED webhookVars
    BY <1>11 DEF webhookVars, rowVars, carrierVars, webhookPast, Tallies
  <1> QED
    BY <1>1, <1>2, <1>3, <1>4, <1>5, <1>6, <1>7, <1>8, <1>9, <1>10, <1>11 DEF WebhookNext

--------------------------------------------------------------------------------
THEOREM WebhookInvariance == WebhookSpec => []WebhookInv
  <1>1. WebhookInit => WebhookInv
    <2> SUFFICES ASSUME WebhookInit PROVE WebhookInv
      OBVIOUS
    <2> USE WebhookNumbers, WebhookNames DEF WebhookInit
    <2>1. HookOK
      BY Ages DEF HookOK, Hooks
    <2>2. CarryOK
      BY DEF CarryOK
    <2>3. RowOK
      BY DEF RowOK, Deliveries, NoRow
    <2>4. PastOK
      BY DEF PastOK
    <2>5. TallyOK
      BY DEF TallyOK, Tallies, NoRow
    <2> QED
      BY <2>1, <2>2, <2>3, <2>4, <2>5 DEF WebhookInv
  <1>2. WebhookInv /\ [WebhookNext]_webhookVars => WebhookInv'
    BY HookStep, CarryStep, RowStep, PastStep, TallyStep DEF WebhookInv
  <1> QED
    BY <1>1, <1>2, PTL DEF WebhookSpec

\* Every variable keeps its type, and attempt numbers and posts keep their range.
THEOREM WebhookTyped == WebhookSpec => []WebhookTypeOK
  <1>1. WebhookInv => WebhookTypeOK
    BY DEF WebhookInv, HookOK, CarryOK, RowOK, PastOK, WebhookTypeOK
  <1> QED
    BY <1>1, WebhookInvariance, PTL

\* Outside the doubtful cases, attempts stay within their limit and a delivery that
\* was accepted is never posted again.
THEOREM WebhookNotResent == WebhookSpec => []NotResent
  <1>1. WebhookInv => NotResent
    <2> SUFFICES ASSUME WebhookInv, NEW e \in Events \ doubtful
                 PROVE  /\ sent[e] <= MaxAttempts
                        /\ e \in accepted => delivery[e].status = "delivered" /\ held(e) = {}
      BY DEF NotResent
    <2>1. Tallies(e) /\ delivery[e].count \in 0..MaxAttempts
      BY DEF WebhookInv, TallyOK, RowOK, Deliveries
    <2>2. sent[e] <= MaxAttempts
      <3>1. CASE \A c \in Carriers : hand[c][e] = 0
        BY <2>1, <3>1, WebhookNumbers DEF Tallies
      <3>2. ASSUME NEW c \in Carriers, hand[c][e] # 0 PROVE sent[e] <= MaxAttempts
        <4>1. hand[c][e] \in 0..MaxAttempts /\ hand[c][e] = delivery[e].count + 1
          BY <2>1, <3>2 DEF WebhookInv, CarryOK, Tallies
        <4>2. sent[e] = delivery[e].count + 1 \/ sent[e] = delivery[e].count
          BY <2>1, <3>2 DEF Tallies
        <4> QED
          BY <2>1, <4>1, <4>2, WebhookNumbers
      <3> QED
        BY <3>1, <3>2
    <2> QED
      BY <2>1, <2>2 DEF Tallies, held
  <1> QED
    BY <1>1, WebhookInvariance, PTL

\* An endpoint is disabled for sustained failures only after the failure window,
\* less the time of one answer, without a success.
THEOREM WebhookDisabled == WebhookSpec => DisabledAfterOutage
  <1>1. WebhookInv /\ [WebhookNext]_webhookVars =>
          [hook'.reason = "sustained" /\ hook.reason # "sustained"
             => quiet + MaxPost >= FailureWindow]_webhookVars
    <2> SUFFICES ASSUME WebhookInv, [WebhookNext]_webhookVars,
                        hook'.reason = "sustained", hook.reason # "sustained"
                 PROVE  quiet + MaxPost >= FailureWindow
      OBVIOUS
    <2> USE DEF WebhookInv, HookOK, Hooks
    <2>1. PICK c \in Carriers : Failed(c)
      BY DEF WebhookNext, webhookVars, dispatchWebhookEvent, retryDueWebhookDeliveries, postWebhook,
             Accepted, Refused, Put, ArchiveHook, WebhookTick, WebhookCrash
    <2>2. overdue(c)
      BY <2>1 DEF Failed
    <2>3. elapsed[c] \in Nat /\ failing \in Nat /\ quiet \in Nat
      BY WebhookNumbers DEF CarryOK, OldestStreak
    <2> QED
      BY <2>2, <2>3, WebhookNumbers DEF overdue
  <1> QED
    BY <1>1, WebhookInvariance, PTL DEF WebhookSpec, DisabledAfterOutage

-------------------------------------------------------------------------------
(* Schedules *)

Fire(r) == live(r) =>
  /\ r.delay # 0 => r.status = "active" /\ r.next # Unset
  /\ r.status = "active" /\ r.cron /\ r.next # Unset => r.delay # 0

RowsOK ==
  /\ deployment \in [Deployments -> DeploymentRows]
  /\ \A d \in Deployments : Fire(deployment[d])

RestOK ==
  /\ phase \in 0..Period - 1
  /\ agents \subseteq Deployments /\ unscheduled \subseteq Deployments
  /\ batch \in [DuePasses -> [Deployments -> BatchRows]]
  /\ former \in [DuePasses -> SUBSET Deployments]
  /\ upcoming \in [DuePasses -> Instants]
  /\ changes \in 0..MaxChanges /\ restarts \in 0..MaxRestarts

LEMMA Parts == RowsOK /\ RestOK <=> ScheduleTypeOK /\ FireCanHappen
  BY DEF RowsOK, RestOK, ScheduleTypeOK, FireCanHappen, Fire

-------------------------------------------------------------------------------
(* Instants and rows. *)

LEMMA InstantsClosed ==
  /\ Unset \in Instants /\ Unset \in Int
  /\ phase \in 0..Period - 1 => nextCron \in Instants /\ nextCron # Unset
  /\ \A t \in Instants : elapses(t) \in Instants /\ (elapses(t) = Unset <=> t = Unset)
  BY ScheduleNumbers DEF Instants, Unset, Longest, nextCron, elapses

Statuses == {"active", "paused", "archived"}
Reasons == {"none", "manual", "error"}

LEMMA RowWith ==
  ASSUME NEW r \in DeploymentRows, NEW n \in Instants, NEW j \in 0..MaxJitter,
         NEW s \in Statuses, NEW x \in Reasons, NEW c \in BOOLEAN, NEW a \in BOOLEAN
  PROVE  /\ [r EXCEPT !.next = n, !.delay = j, !.status = s, !.reason = x] \in DeploymentRows
         /\ [r EXCEPT !.status = s, !.reason = x, !.next = n] \in DeploymentRows
         /\ [r EXCEPT !.status = s, !.reason = x] \in DeploymentRows
         /\ [r EXCEPT !.status = s, !.reason = x, !.cron = c, !.next = n] \in DeploymentRows
         /\ [r EXCEPT !.archived = a] \in DeploymentRows
         /\ [r EXCEPT !.archived = a, !.status = s] \in DeploymentRows
         /\ [r EXCEPT !.reason = x] \in DeploymentRows
         /\ [r EXCEPT !.delay = j] \in DeploymentRows
         /\ [r EXCEPT !.next = n] \in DeploymentRows
         /\ [r EXCEPT !.next = n, !.delay = j] \in DeploymentRows
  BY DEF DeploymentRows, Statuses, Reasons

LEMMA SetRow ==
  ASSUME RowsOK, NEW d \in Deployments, NEW r \in DeploymentRows, Fire(r),
         deployment' = [deployment EXCEPT ![d] = r]
  PROVE  RowsOK'
  BY DEF RowsOK, Fire, live

LEMMA ArmedRow ==
  ASSUME NEW r \in DeploymentRows, NEW a \in armed(r)
  PROVE  a \in DeploymentRows /\ Fire(a)
  <1>1. CASE r.cron /\ r.next # Unset /\ r.status = "active"
    <2>1. PICK j \in 1..MaxJitter : a = [r EXCEPT !.delay = j]
      BY <1>1 DEF armed
    <2>2. j \in 0..MaxJitter /\ j # 0
      BY ScheduleNumbers
    <2> QED
      BY <1>1, <2>1, <2>2 DEF DeploymentRows, Fire, live
  <1>2. CASE ~ (r.cron /\ r.next # Unset /\ r.status = "active")
    <2>1. a = [r EXCEPT !.delay = 0] /\ 0 \in 0..MaxJitter
      BY <1>2, ScheduleNumbers DEF armed
    <2> QED
      BY <1>2, <2>1 DEF DeploymentRows, Fire, live
  <1> QED
    BY <1>1, <1>2

LEMMA StoreArmed ==
  ASSUME RowsOK, NEW d \in Deployments, NEW r \in DeploymentRows, Store(d, armed(r))
  PROVE  RowsOK'
  <1>1. PICK a \in armed(r) : deployment' = [deployment EXCEPT ![d] = a]
    BY DEF Store
  <1> QED
    BY <1>1, ArmedRow, SetRow

\* A run by a pass that read the row: what it leaves can fire when it is armed.
LEMMA TimedRunRows ==
  ASSUME RowsOK, NEW d \in Deployments, NEW agent, NEW cadence, NEW next \in Instants,
         TimedRun(d, agent, cadence, next)
  PROVE  RowsOK'
  <1> DEFINE r == deployment[d]
             following == IF cadence = "cron" THEN next ELSE Unset
  <1>1. r \in DeploymentRows /\ Fire(r) /\ following \in Instants
    BY InstantsClosed DEF RowsOK
  <1>2. CASE deployment' = archivedBy(d)
    <2> DEFINE a == r.archived \/ r.place = "there"
    <2>1. a \in BOOLEAN /\ deployment' = [deployment EXCEPT ![d] = [r EXCEPT !.archived = a]]
      BY <1>1, <1>2 DEF archivedBy, RowsOK, DeploymentRows
    <2>2. [r EXCEPT !.archived = a] \in DeploymentRows
      BY <1>1, <2>1 DEF DeploymentRows
    <2>3. Fire([r EXCEPT !.archived = a])
      BY <1>1 DEF Fire, live, DeploymentRows
    <2> QED
      BY <2>1, <2>2, <2>3, SetRow
  <1>3. CASE deployment' = pausedBy(d, following)
    <2> DEFINE q == [r EXCEPT !.next = following, !.delay = 0, !.status = "paused", !.reason = "error"]
    <2>1. deployment' = [deployment EXCEPT ![d] = q]
      BY <1>3 DEF pausedBy, RowsOK
    <2>0. 0 \in 0..MaxJitter
      BY ScheduleNumbers
    <2>2. q \in DeploymentRows
      BY <1>1, <2>0 DEF DeploymentRows
    <2>3. Fire(q)
      BY <1>1 DEF DeploymentRows, Fire
    <2> QED
      BY <2>1, <2>2, <2>3, SetRow
  <1>4. ASSUME NEW j \in 1..MaxJitter,
               deployment' = advanced(d, following, IF following = Unset THEN 0 ELSE j)
        PROVE  RowsOK'
    <2> DEFINE k == IF following = Unset THEN 0 ELSE j
               q == [r EXCEPT !.next = following, !.delay = k, !.status = "active", !.reason = "none"]
    <2>1. deployment' = [deployment EXCEPT ![d] = q]
      BY <1>4 DEF advanced, RowsOK
    <2>2. k \in 0..MaxJitter /\ (k # 0 <=> following # Unset)
      BY ScheduleNumbers
    <2>3. q \in DeploymentRows /\ Fire(q)
      BY <1>1, <2>2 DEF DeploymentRows, Fire
    <2> QED
      BY <2>1, <2>3, SetRow
  <1> QED
    BY <1>2, <1>3, <1>4 DEF TimedRun

LEMMA RowsStep ==
  ASSUME RowsOK, RestOK, [ScheduleNext]_scheduleVars
  PROVE  RowsOK'
  <1>1. ASSUME NEW p \in DuePasses, runDueScheduledDeployments(p) PROVE RowsOK'
    <2>1. PICK d \in Deployments : TimedRun(d, d \in agents, cadenceOf(deployment[d]), nextCron)
      BY <1>1 DEF runDueScheduledDeployments, startPass
    <2>2. nextCron \in Instants
      BY InstantsClosed DEF RestOK
    <2> QED
      BY <2>1, <2>2, TimedRunRows
  <1>2. ASSUME NEW p \in DuePasses, runNext(p) PROVE RowsOK'
    <2>0. PICK d \in Deployments : runRow(p, d)
      BY <1>2 DEF runNext
    <2>1. PICK agent \in agentOfRead(p, d) :
            TimedRun(d, agent, batch[p][d], upcoming[p]) \/ UNCHANGED deployment
      BY <2>0 DEF runRow
    <2>2. upcoming[p] \in Instants
      BY DEF RestOK
    <2>3. CASE UNCHANGED deployment
      BY <2>3 DEF RowsOK
    <2> QED
      BY <2>1, <2>2, <2>3, TimedRunRows
  <1>3. ASSUME NEW d \in Deployments, Create(d) PROVE RowsOK'
    <2>1. PICK cron \in BOOLEAN, status \in {"active", "paused"} :
            Store(d, armed([place |-> "there", archived |-> FALSE, status |-> status,
              reason |-> IF status = "paused" THEN "manual" ELSE "none",
              cron |-> cron, next |-> IF cron THEN nextCron ELSE Unset, delay |-> 0]))
      BY <1>3 DEF Create
    <2> DEFINE r == [place |-> "there", archived |-> FALSE, status |-> status,
              reason |-> IF status = "paused" THEN "manual" ELSE "none",
              cron |-> cron, next |-> IF cron THEN nextCron ELSE Unset, delay |-> 0]
    <2>2. (IF cron THEN nextCron ELSE Unset) \in Instants /\ 0 \in 0..MaxJitter
      BY InstantsClosed, ScheduleNumbers DEF RestOK
    <2>3. r \in DeploymentRows
      BY <2>2 DEF DeploymentRows
    <2> QED
      BY <2>1, <2>3, StoreArmed
  <1>4. ASSUME NEW d \in Deployments, UpdateDeployment(d) PROVE RowsOK'
    <2>1. PICK cadence \in {"kept", "replaced", "removed"}, status \in {"kept", "active", "paused"} :
            Store(d, armed(updated(deployment[d], cadence, status)))
      BY <1>4 DEF UpdateDeployment
    <2> DEFINE r == deployment[d]
               s == IF status = "kept" THEN (IF r.status = "paused" THEN "paused" ELSE "active") ELSE status
               x == IF status = "paused" THEN "manual"
                    ELSE IF status = "active" \/ (cadence # "kept" /\ r.status # "paused") THEN "none"
                    ELSE r.reason
               c == IF cadence = "kept" THEN r.cron ELSE cadence = "replaced"
               n == IF cadence = "kept" THEN r.next
                    ELSE IF cadence = "replaced" THEN nextCron ELSE Unset
    <2>2. r \in DeploymentRows
      BY DEF RowsOK
    <2>3. s \in Statuses /\ x \in Reasons /\ c \in BOOLEAN /\ n \in Instants
      BY <2>2, InstantsClosed DEF RestOK, DeploymentRows, Statuses, Reasons
    <2>4. [r EXCEPT !.status = s, !.reason = x, !.cron = c, !.next = n] \in DeploymentRows
      BY <2>2, <2>3 DEF DeploymentRows, Statuses, Reasons
    <2>5. updated(r, cadence, status) \in DeploymentRows
      BY <2>4 DEF updated
    <2> QED
      BY <2>1, <2>5, StoreArmed
  <1>5. ASSUME NEW d \in Deployments, Pause(d) PROVE RowsOK'
    <2>1. [deployment[d] EXCEPT !.status = "paused", !.reason = "manual"] \in DeploymentRows
      BY DEF RowsOK, DeploymentRows
    <2> QED
      BY <1>5, <2>1, StoreArmed DEF Pause
  <1>6. ASSUME NEW d \in Deployments, Unpause(d) PROVE RowsOK'
    <2>1. deployment[d] \in DeploymentRows
      BY DEF RowsOK
    <2>2. resumeAt(deployment[d]) \in Instants
      BY <2>1, InstantsClosed DEF RestOK, resumeAt, DeploymentRows
    <2>3. [deployment[d] EXCEPT !.status = "active", !.reason = "none", !.next = resumeAt(deployment[d])]
            \in DeploymentRows
      BY <2>1, <2>2 DEF DeploymentRows
    <2> QED
      BY <1>6, <2>3, StoreArmed DEF Unpause
  <1>7. ASSUME NEW d \in Deployments, RunByHand(d) PROVE RowsOK'
    <2> DEFINE r == deployment[d]
    <2>1. r \in DeploymentRows /\ Fire(r)
      BY DEF RowsOK
    <2>2. CASE deployment' = archivedBy(d)
      <3> DEFINE a == r.archived \/ r.place = "there"
      <3>1. a \in BOOLEAN /\ deployment' = [deployment EXCEPT ![d] = [r EXCEPT !.archived = a]]
        BY <2>1, <2>2 DEF archivedBy, RowsOK, DeploymentRows
      <3>2. [r EXCEPT !.archived = a] \in DeploymentRows /\ Fire([r EXCEPT !.archived = a])
        BY <2>1, <3>1 DEF DeploymentRows, Fire, live
      <3> QED
        BY <3>1, <3>2, SetRow
    <2>3. CASE deployment' = pausedBy(d, deployment[d].next)
      <3> DEFINE q == [r EXCEPT !.next = r.next, !.delay = 0, !.status = "paused", !.reason = "error"]
      <3>1. deployment' = [deployment EXCEPT ![d] = q]
        BY <2>3 DEF pausedBy, RowsOK
      <3>0. 0 \in 0..MaxJitter
        BY ScheduleNumbers
      <3>2. q \in DeploymentRows
        BY <2>1, <3>0 DEF DeploymentRows
      <3>3. Fire(q)
        BY <2>1 DEF DeploymentRows, Fire
      <3> QED
        BY <3>1, <3>2, <3>3, SetRow
    <2>4. CASE deployment' = [deployment EXCEPT ![d].reason = "none"]
      <3> DEFINE q == [r EXCEPT !.reason = "none"]
      <3>1. deployment' = [deployment EXCEPT ![d] = q]
        BY <2>4 DEF RowsOK
      <3>2. q \in DeploymentRows /\ Fire(q)
        BY <2>1 DEF DeploymentRows, Fire, live
      <3> QED
        BY <3>1, <3>2, SetRow
    <2> QED
      BY <1>7, <2>2, <2>3, <2>4 DEF RunByHand
  <1>8. ASSUME NEW d \in Deployments, ArchiveDeployment(d) PROVE RowsOK'
    <2> DEFINE q == [deployment[d] EXCEPT !.archived = TRUE, !.status = "archived"]
    <2>1. deployment' = [deployment EXCEPT ![d] = q]
      BY <1>8 DEF ArchiveDeployment, RowsOK
    <2>2. q \in DeploymentRows /\ Fire(q)
      BY DEF RowsOK, DeploymentRows, Fire, live
    <2> QED
      BY <2>1, <2>2, SetRow
  <1>9. ASSUME NEW d \in Deployments, DeleteDeployment(d) PROVE RowsOK'
    <2> DEFINE q == [Absent EXCEPT !.place = "deleted"]
    <2>0. 0 \in 0..MaxJitter /\ Unset \in Instants
      BY InstantsClosed, ScheduleNumbers
    <2>1. q \in DeploymentRows /\ Fire(q)
      BY <2>0 DEF Absent, DeploymentRows, Fire, live
    <2> QED
      BY <1>9, <2>1, SetRow DEF DeleteDeployment
  <1>10. ASSUME NEW d \in Deployments, AgentGone(d) PROVE RowsOK'
    BY <1>10 DEF AgentGone, RowsOK
  <1>11. CASE ScheduleTick
    <2> SUFFICES ASSUME NEW d \in Deployments
                 PROVE  /\ [deployment[d] EXCEPT !.next = elapses(deployment[d].next)] \in DeploymentRows
                        /\ Fire([deployment[d] EXCEPT !.next = elapses(deployment[d].next)])
      BY <1>11 DEF ScheduleTick, RowsOK
    <2>1. deployment[d] \in DeploymentRows /\ Fire(deployment[d])
      BY DEF RowsOK
    <2>2. /\ elapses(deployment[d].next) \in Instants
          /\ elapses(deployment[d].next) = Unset <=> deployment[d].next = Unset
      BY <2>1, InstantsClosed DEF DeploymentRows
    <2> DEFINE q == [deployment[d] EXCEPT !.next = elapses(deployment[d].next)]
    <2>3. q \in DeploymentRows
      BY <2>1, <2>2 DEF DeploymentRows
    <2>4. live(q) <=> live(deployment[d])
      BY <2>1 DEF DeploymentRows, live
    <2>5. Fire(q)
      BY <2>1, <2>2, <2>4 DEF DeploymentRows, Fire
    <2> QED
      BY <2>3, <2>5
  <1>12. CASE RestartScheduler
    <2>1. PICK jitter \in [Deployments -> 1..MaxJitter] :
            deployment' = [d \in Deployments |->
              IF rearmable(deployment[d])
              THEN [deployment[d] EXCEPT !.next = nextCron, !.delay = jitter[d]]
              ELSE deployment[d]]
      BY <1>12 DEF RestartScheduler
    <2>2. ASSUME NEW d \in Deployments, rearmable(deployment[d])
          PROVE  /\ [deployment[d] EXCEPT !.next = nextCron, !.delay = jitter[d]] \in DeploymentRows
                 /\ Fire([deployment[d] EXCEPT !.next = nextCron, !.delay = jitter[d]])
      <3>1. deployment[d] \in DeploymentRows /\ deployment[d].status = "active"
        BY <2>2 DEF RowsOK, rearmable
      <3>2. nextCron \in Instants /\ nextCron # Unset /\ jitter[d] \in 0..MaxJitter /\ jitter[d] # 0
        BY InstantsClosed, ScheduleNumbers DEF RestOK
      <3> QED
        BY <3>1, <3>2 DEF DeploymentRows, Fire, live
    <2> QED
      BY <2>1, <2>2 DEF RowsOK, Fire, live
  <1>13. CASE UNCHANGED scheduleVars
    BY <1>13 DEF RowsOK, scheduleVars, passVars
  <1> QED
    BY <1>1, <1>2, <1>3, <1>4, <1>5, <1>6, <1>7, <1>8, <1>9, <1>10, <1>11, <1>12, <1>13 DEF ScheduleNext

LEMMA RestStep ==
  ASSUME RestOK, [ScheduleNext]_scheduleVars
  PROVE  RestOK'
  <1> USE ScheduleNumbers, ScheduleNames DEF RestOK, BatchRows, NotInHand
  <1>1. ASSUME NEW p \in DuePasses, runDueScheduledDeployments(p) PROVE RestOK'
    BY <1>1, InstantsClosed DEF runDueScheduledDeployments, startPass, cadenceOf
  <1>2. ASSUME NEW p \in DuePasses, runNext(p) PROVE RestOK'
    <2>1. PICK d \in Deployments : runRow(p, d)
      BY <1>2 DEF runNext
    <2>2. batch' = [batch EXCEPT ![p][d] = NotInHand]
            \/ batch' = [batch EXCEPT ![p] = [e \in Deployments |-> NotInHand]]
      BY <2>1 DEF runRow
    <2>3. batch' \in [DuePasses -> [Deployments -> BatchRows]]
      BY <2>2
    <2>4. UNCHANGED <<phase, agents, former, upcoming, unscheduled, changes, restarts>>
      BY <2>1 DEF runRow
    <2>5. QED
      BY <2>3, <2>4
  <1>3. ASSUME NEW d \in Deployments, Create(d) PROVE RestOK'
    BY <1>3 DEF Create, Changes, passVars
  <1>4. ASSUME NEW d \in Deployments, UpdateDeployment(d) PROVE RestOK'
    BY <1>4 DEF UpdateDeployment, Changes
  <1>5. ASSUME NEW d \in Deployments, Pause(d) PROVE RestOK'
    BY <1>5 DEF Pause, Changes, passVars
  <1>6. ASSUME NEW d \in Deployments, Unpause(d) PROVE RestOK'
    BY <1>6 DEF Unpause, Changes, passVars
  <1>7. ASSUME NEW d \in Deployments, RunByHand(d) PROVE RestOK'
    BY <1>7 DEF RunByHand, Changes, passVars
  <1>8. ASSUME NEW d \in Deployments, ArchiveDeployment(d) PROVE RestOK'
    BY <1>8 DEF ArchiveDeployment, Changes, passVars
  <1>9. ASSUME NEW d \in Deployments, DeleteDeployment(d) PROVE RestOK'
    BY <1>9 DEF DeleteDeployment, Changes, passVars
  <1>10. ASSUME NEW d \in Deployments, AgentGone(d) PROVE RestOK'
    BY <1>10 DEF AgentGone, Changes, passVars
  <1>11. CASE ScheduleTick
    <2>1. phase' \in 0..Period - 1
      BY <1>11 DEF ScheduleTick
    <2>2. upcoming' \in [DuePasses -> Instants]
      BY <1>11, InstantsClosed DEF ScheduleTick
    <2> QED
      BY <1>11, <2>1, <2>2 DEF ScheduleTick
  <1>12. CASE RestartScheduler
    <2>0. restarts < MaxRestarts /\ restarts' = restarts + 1
      BY <1>12 DEF RestartScheduler
    <2>1. restarts' \in 0..MaxRestarts
      BY <2>0
    <2>2. upcoming' \in [DuePasses -> Instants]
      BY <1>12, InstantsClosed DEF RestartScheduler
    <2> QED
      BY <1>12, <2>1, <2>2 DEF RestartScheduler
  <1>13. CASE UNCHANGED scheduleVars
    BY <1>13 DEF scheduleVars, passVars
  <1> QED
    BY <1>1, <1>2, <1>3, <1>4, <1>5, <1>6, <1>7, <1>8, <1>9, <1>10, <1>11, <1>12, <1>13 DEF ScheduleNext

-------------------------------------------------------------------------------
THEOREM ScheduleInvariance == ScheduleSpec => [](RowsOK /\ RestOK)
  <1>1. ScheduleInit => RowsOK /\ RestOK
    <2> SUFFICES ASSUME ScheduleInit PROVE RowsOK /\ RestOK
      OBVIOUS
    <2>1. Absent \in DeploymentRows /\ Fire(Absent)
      BY InstantsClosed, ScheduleNumbers DEF Absent, DeploymentRows, Fire, live
    <2>2. RowsOK
      BY <2>1 DEF ScheduleInit, RowsOK
    <2>3. 0 \in 0..Period - 1 /\ 0 \in 0..MaxChanges /\ 0 \in 0..MaxRestarts
      BY ScheduleNumbers
    <2>4. RestOK
      BY <2>3, InstantsClosed DEF ScheduleInit, RestOK, BatchRows, NotInHand
    <2> QED
      BY <2>2, <2>4
  <1>2. RowsOK /\ RestOK /\ [ScheduleNext]_scheduleVars => (RowsOK /\ RestOK)'
    BY RowsStep, RestStep
  <1> QED
    BY <1>1, <1>2, PTL DEF ScheduleSpec

\* Every variable keeps its type.
THEOREM ScheduleTyped == ScheduleSpec => []ScheduleTypeOK
  BY ScheduleInvariance, Parts, PTL

\* What is armed can fire, and what is scheduled and active is armed, however stale
\* the rows are that passes write back.
THEOREM ArmedFires == ScheduleSpec => []FireCanHappen
  BY ScheduleInvariance, Parts, PTL

==============================================================================
