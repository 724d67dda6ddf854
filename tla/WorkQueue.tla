------------------------------- MODULE WorkQueue -------------------------------
(***************************************************************************)
(* The durable queue behind a self-hosted sandbox: the work_items rows, the *)
(* operations the worker routes perform on them, and the bounded wait of   *)
(* the turn that queued an item.  Every operation is one SQLite statement  *)
(* or one transaction, so it is one action; an operation is given here as  *)
(* its predicate and its effect, and who calls it when is WorkerPoll's.    *)
(*                                                                         *)
(* claimed_at is abstracted to how old the claim is: inside its lease,     *)
(* inside it but older than a short reclaim_older_than_ms, or lapsed.      *)
(***************************************************************************)
EXTENDS Naturals

CONSTANTS
  Items,     \* row ids, in the order of creation
  Sessions,
  Callers,   \* identities a claim can be made in
  Nobody,    \* no identity: claimed_by is NULL, or the header is absent
  MaxBeats   \* bound: renewals that are carried out

ASSUME QueueAssumption ==
  Items \subseteq Nat /\ Nobody \notin Callers /\ MaxBeats \in Nat

VARIABLES
  session,    \* per session: live, ended (a terminal status) or gone (no row)
  status,     \* work_items.status, or absent / deleted
  owner,      \* work_items.session_id
  holder,     \* work_items.claimed_by
  age,        \* work_items.claimed_at
  beat,       \* work_items.heartbeat_at is set
  stopped,    \* work_items.stopped_at is set
  abandoned,  \* work_items.abandoned_at is set
  wait,       \* per item: the await() of the turn that queued it
  beats       \* renewals so far

claimVars == <<holder, age, beat, abandoned>>
markVars  == <<owner, stopped>>
queueVars == <<session, status, claimVars, markVars, wait, beats>>

Unfinished == {"queued", "accepted"}
InLease == {"fresh", "aged"}

QueueInit ==
  /\ session = [s \in Sessions |-> "live"]
  /\ status = [i \in Items |-> "absent"]
  /\ owner \in [Items -> Sessions]
  /\ holder = [i \in Items |-> Nobody]
  /\ age = [i \in Items |-> "none"]
  /\ beat = [i \in Items |-> FALSE]
  /\ stopped = [i \in Items |-> FALSE]
  /\ abandoned = [i \in Items |-> FALSE]
  /\ wait = [i \in Items |-> "none"]
  /\ beats = 0

-------------------------------------------------------------------------------
(* The session's side. *)

\* A tool call of a turn queues an item and awaits it; a custom tool call is
\* queued without a wait.  Work for a session that has ended is born stopped.
Enqueue(i, waits) ==
  /\ status[i] = "absent" /\ \A j \in Items : j < i => status[j] # "absent"
  /\ status' = [status EXCEPT ![i] = "queued"]
  /\ stopped' = [stopped EXCEPT ![i] = session[owner[i]] = "ended"]
  /\ wait' = [wait EXCEPT ![i] = IF waits THEN "waiting" ELSE "none"]
  /\ UNCHANGED <<session, owner, claimVars, beats>>

\* A session reaches a terminal status; its sandbox need not be released.
SessionEnds(s) ==
  /\ session[s] = "live"
  /\ session' = [session EXCEPT ![s] = "ended"]
  /\ UNCHANGED <<status, claimVars, markVars, wait, beats>>

\* The session's rows are removed, its work items with them.
SessionDeleted(s) ==
  /\ session[s] # "gone"
  /\ session' = [session EXCEPT ![s] = "gone"]
  /\ status' = [i \in Items |-> IF owner[i] = s /\ status[i] # "absent"
                                THEN "deleted" ELSE status[i]]
  /\ UNCHANGED <<claimVars, markVars, wait, beats>>

\* stop: releasing the sandbox marks every unfinished item of the session.
Stop(s) ==
  /\ stopped' = [i \in Items |-> stopped[i] \/ (owner[i] = s /\ status[i] \in Unfinished)]
  /\ UNCHANGED <<session, status, owner, claimVars, wait, beats>>

stopItem(i) ==
  /\ status[i] \in Unfinished /\ ~stopped[i]
  /\ stopped' = [stopped EXCEPT ![i] = TRUE]
  /\ UNCHANGED <<session, status, owner, claimVars, wait, beats>>

-------------------------------------------------------------------------------
(* claim *)

\* How old a claim has to be before a poll takes it back: the lease, a hint
\* below it, or a hint above it (no claim is that old yet).
Reclaimable == [lease |-> {"lapsed"}, short |-> {"aged", "lapsed"}, long |-> {}]

\* Mutant: the acceptance fence is gone.
claimable_Accepted(i, hint) ==
  /\ ~stopped[i] /\ status[i] \in Unfinished
  /\ age[i] = "none" \/ age[i] \in Reclaimable[hint]
  /\ session[owner[i]] # "ended"

\* Mutant: a session that has ended does not count.
claimable_Ended(i, hint) ==
  /\ ~stopped[i] /\ status[i] = "queued"
  /\ age[i] = "none" \/ age[i] \in Reclaimable[hint]

claimable(i, hint) ==
  /\ ~stopped[i] /\ status[i] = "queued"
  /\ age[i] = "none" \/ age[i] \in Reclaimable[hint]
  /\ session[owner[i]] # "ended"

Candidates(scope, hint) == {i \in scope : claimable(i, hint)}

\* Accepted work whose lease has lapsed has an unknown outcome.
Swept ==
  [i \in Items |-> IF status[i] = "accepted" /\ ~stopped[i] /\ age[i] = "lapsed"
                   THEN "unknown" ELSE status[i]]

\* The oldest candidate goes to the caller; its attempt starts from scratch.
claim(c, i, scope, hint) ==
  /\ i \in Candidates(scope, hint) /\ \A j \in Candidates(scope, hint) : i <= j
  /\ status' = Swept
  /\ holder' = [holder EXCEPT ![i] = c]
  /\ age' = [age EXCEPT ![i] = "fresh"]
  /\ beat' = [beat EXCEPT ![i] = FALSE]
  /\ abandoned' = [abandoned EXCEPT ![i] = FALSE]
  /\ UNCHANGED <<session, markVars, wait, beats>>

\* Mutant: lapsed work is only swept by a poll that finds something.
claimNothing_NoSweep(scope, hint) ==
  Candidates(scope, hint) = {} /\ UNCHANGED queueVars

claimNothing(scope, hint) ==
  /\ Candidates(scope, hint) = {}
  /\ status' = Swept
  /\ UNCHANGED <<session, claimVars, markVars, wait, beats>>

-------------------------------------------------------------------------------
(* accept, heartbeat, complete: a predicate, and what the UPDATE writes. *)

mayAccept(c, i) ==
  status[i] \in Unfinished /\ holder[i] = c /\ ~stopped[i] /\ age[i] \in InLease

\* acceptScoped: without a header the caller stands in for the holder.
mayAcceptScoped(c, i) ==
  /\ status[i] \in Unfinished /\ ~stopped[i] /\ age[i] \in InLease
  /\ c = Nobody \/ holder[i] = c

accepted(i) ==
  /\ status' = [status EXCEPT ![i] = "accepted"]
  /\ UNCHANGED <<session, claimVars, markVars, wait, beats>>

mayRenew(c, i) == status[i] \in Unfinished /\ holder[i] = c /\ ~stopped[i]

renewed(i) ==
  /\ beats < MaxBeats /\ beats' = beats + 1
  /\ age' = [age EXCEPT ![i] = "fresh"]
  /\ UNCHANGED <<session, status, holder, beat, abandoned, markVars, wait>>

\* heartbeatScoped: the expected anchor is absent, NO_HEARTBEAT, the recorded
\* one or another one.
mayRenewScoped(c, i, expected) ==
  /\ status[i] \in Unfinished /\ ~stopped[i]
  /\ c = Nobody \/ holder[i] = c \/ (~beat[i] /\ expected = "NO_HEARTBEAT")
  /\ \/ expected = "absent"
     \/ expected = "NO_HEARTBEAT" /\ ~beat[i]
     \/ expected = "recorded" /\ beat[i]

renewedScoped(c, i) ==
  /\ beats < MaxBeats /\ beats' = beats + 1
  /\ age' = [age EXCEPT ![i] = "fresh"]
  /\ beat' = [beat EXCEPT ![i] = TRUE]
  /\ holder' = [holder EXCEPT ![i] = IF @ = Nobody THEN c ELSE @]
  /\ UNCHANGED <<session, status, abandoned, markVars, wait>>

mayComplete(c, i) == status[i] \in Unfinished /\ holder[i] = c

completed(i, failed) ==
  /\ status' = [status EXCEPT ![i] = IF failed THEN "failed" ELSE "applied"]
  /\ UNCHANGED <<session, claimVars, markVars, wait, beats>>

-------------------------------------------------------------------------------
(* Time, and the wait. *)

Ages(i) ==
  /\ status[i] \in Unfinished /\ age[i] \in InLease
  /\ age' = [age EXCEPT ![i] = IF @ = "fresh" THEN "aged" ELSE "lapsed"]
  /\ UNCHANGED <<session, status, holder, beat, abandoned, markVars, wait, beats>>

\* await: a recorded result is returned, or thrown when the item failed ...
WaitReturns(i) ==
  /\ wait[i] = "waiting" /\ status[i] \in {"applied", "failed"}
  /\ wait' = [wait EXCEPT ![i] = status[i]]
  /\ UNCHANGED <<session, status, claimVars, markVars, beats>>

\* Mutant: a held item counts as never claimed.
waitFailure_Held(i) ==
  IF stopped[i] THEN "work_lease_lost"
  ELSE IF status[i] = "queued" THEN "work_queue_timeout" ELSE "work_outcome_unknown"

waitFailure(i) ==
  IF stopped[i] /\ status[i] # "deleted" THEN "work_lease_lost"
  ELSE IF status[i] = "queued" /\ age[i] = "none" THEN "work_queue_timeout"
  ELSE "work_outcome_unknown"

\* ... and past the deadline the row says why there is none.  Giving up on an
\* item that is held but not accepted is recorded on it, and nothing more.
WaitGivesUp(i) ==
  /\ wait[i] = "waiting" /\ status[i] \notin {"applied", "failed"}
  /\ wait' = [wait EXCEPT ![i] = waitFailure(i)]
  /\ abandoned' = [abandoned EXCEPT ![i] =
       @ \/ (status[i] = "queued" /\ age[i] # "none" /\ ~stopped[i])]
  /\ UNCHANGED <<session, status, holder, age, beat, markVars, beats>>

\* The runtime dies and with it every wait; the rows are durable.
RuntimeDies ==
  /\ wait' = [i \in Items |-> IF wait[i] = "waiting" THEN "none" ELSE wait[i]]
  /\ UNCHANGED <<session, status, claimVars, markVars, beats>>

\* What happens to the queue without any worker; awaited are the items whose
\* producer waits for them.
SessionSide(awaited) ==
  \/ \E i \in Items : Enqueue(i, i \in awaited)
  \/ \E s \in Sessions : SessionEnds(s) \/ SessionDeleted(s) \/ Stop(s)
  \/ \E i \in Items : WaitReturns(i) \/ WaitGivesUp(i)
  \/ RuntimeDies

QueueTypeOK ==
  /\ session \in [Sessions -> {"live", "ended", "gone"}]
  /\ status \in [Items -> {"absent", "queued", "accepted", "applied", "failed",
                           "unknown", "deleted"}]
  /\ owner \in [Items -> Sessions]
  /\ holder \in [Items -> Callers \cup {Nobody}]
  /\ age \in [Items -> {"none", "fresh", "aged", "lapsed"}]
  /\ beat \in [Items -> BOOLEAN] /\ stopped \in [Items -> BOOLEAN]
  /\ abandoned \in [Items -> BOOLEAN]
  /\ wait \in [Items -> {"none", "waiting", "applied", "failed", "work_lease_lost",
                         "work_queue_timeout", "work_outcome_unknown"}]
  /\ beats \in 0..MaxBeats
===============================================================================
