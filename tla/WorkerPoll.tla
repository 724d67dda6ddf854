------------------------------ MODULE WorkerPoll ------------------------------
(***************************************************************************)
(* The processes around the work queue: CLI workers polling it over HTTP,  *)
(* clients of the official work API, and the session that queued the work. *)
(* A worker claims, confirms, runs while it renews, and reports; each of   *)
(* its requests is bounded, and one that timed out may have been applied,  *)
(* may still be on its way, or is lost.  Workers die and restart under the *)
(* same configured id.                                                     *)
(***************************************************************************)
EXTENDS WorkQueue, FiniteSets

CONSTANTS
  Workers,   \* the CLI workers, by the worker id they are configured with
  Awaited,   \* the items a sandbox call waits for; the others are custom_tool items
  MaxLate    \* bound: timed-out requests on the wire at once

ASSUME WorkerAssumption ==
  Workers \subseteq Callers /\ Awaited \subseteq Items /\ 0 \notin Items /\ MaxLate \in Nat

Clients == Callers \ Workers

VARIABLES
  pc,     \* per worker: idle, claimed, running, or halted by a lost lease
  item,   \* per worker: the item it works on, or 0
  late,   \* requests whose sender gave up waiting for an answer
  ran     \* history: how often a worker has run an item

workerVars == <<pc, item, late, ran>>
vars == <<queueVars, workerVars>>

Init ==
  /\ QueueInit
  /\ pc = [w \in Workers |-> "idle"] /\ item = [w \in Workers |-> 0]
  /\ late = {} /\ ran = [i \in Items |-> 0]

-------------------------------------------------------------------------------
(* One worker. *)

\* claim looks at one session's items, at those of an environment (a join with
\* the sessions that have a row) or at all.
Scopes == {Items, {i \in Items : session[owner[i]] # "gone"}}
            \cup {{i \in Items : owner[i] = s} : s \in Sessions}

becomes(w, state, i) == pc' = [pc EXCEPT ![w] = state] /\ item' = [item EXCEPT ![w] = i]

sent(request) == Cardinality(late) < MaxLate /\ late' = late \cup {request}

PollAnswered(w) ==
  /\ pc[w] = "idle" /\ UNCHANGED <<late, ran>>
  /\ \E scope \in Scopes :
       \/ claimNothing(scope, "lease") /\ UNCHANGED <<pc, item>>
       \/ \E i \in scope : claim(w, i, scope, "lease") /\ becomes(w, "claimed", i)

PollUnconfirmed(w) ==
  /\ pc[w] = "idle" /\ sent([op |-> "claim", who |-> w, item |-> 0])
  /\ UNCHANGED <<queueVars, pc, item, ran>>

\* An item is run only after the queue confirmed the claim ...
AcceptAnswered(w) ==
  /\ pc[w] = "claimed" /\ mayAccept(w, item[w]) /\ accepted(item[w])
  /\ becomes(w, "running", item[w])
  /\ ran' = [ran EXCEPT ![item[w]] = @ + 1] /\ UNCHANGED late

\* ... and neither a refusal nor silence is one.
AcceptRefused(w) ==
  /\ pc[w] = "claimed" /\ ~mayAccept(w, item[w])
  /\ becomes(w, "idle", 0) /\ UNCHANGED <<queueVars, late, ran>>

\* Mutant: silence counts as a confirmation.
AcceptUnconfirmed_Runs(w) ==
  /\ pc[w] = "claimed" /\ sent([op |-> "accept", who |-> w, item |-> item[w]])
  /\ becomes(w, "running", item[w])
  /\ ran' = [ran EXCEPT ![item[w]] = @ + 1] /\ UNCHANGED queueVars

AcceptUnconfirmed(w) ==
  /\ pc[w] = "claimed" /\ sent([op |-> "accept", who |-> w, item |-> item[w]])
  /\ becomes(w, "idle", 0) /\ UNCHANGED <<queueVars, ran>>

\* The renewal timer runs with the item.  Only the answer that the work was
\* stopped aborts it; any other failure is a suspicion and changes nothing.
Renews(w) ==
  /\ pc[w] = "running" /\ UNCHANGED <<item, ran>>
  /\ \/ mayRenew(w, item[w]) /\ renewed(item[w]) /\ UNCHANGED <<pc, late>>
     \/ /\ stopped[item[w]] /\ status[item[w]] # "deleted"
        /\ pc' = [pc EXCEPT ![w] = "halted"] /\ UNCHANGED <<queueVars, late>>
     \/ /\ sent([op |-> "heartbeat", who |-> w, item |-> item[w]])
        /\ UNCHANGED <<queueVars, pc>>

\* The outcome is reported once.  A refused report changes nothing, and no
\* report that went wrong is repeated.
Reports(w) ==
  /\ pc[w] \in {"running", "halted"} /\ becomes(w, "idle", 0) /\ UNCHANGED ran
  /\ \E failed \in BOOLEAN :
       /\ pc[w] = "halted" => failed
       /\ \/ mayComplete(w, item[w]) /\ completed(item[w], failed) /\ UNCHANGED late
          \/ ~mayComplete(w, item[w]) /\ UNCHANGED <<queueVars, late>>
          \/ /\ sent([op |-> IF failed THEN "fail" ELSE "apply", who |-> w, item |-> item[w]])
             /\ UNCHANGED queueVars

WorkerDies(w) ==
  /\ pc[w] # "idle" /\ becomes(w, "idle", 0) /\ UNCHANGED <<queueVars, late, ran>>

\* A timed-out request reaches the queue after all (nobody reads the answer),
\* or never does.
LateArrives(r) ==
  /\ late' = late \ {r} /\ UNCHANGED <<pc, item, ran>>
  /\ \/ /\ r.op = "claim"
        /\ \E scope \in Scopes, i \in Items :
             claim(r.who, i, scope, "lease") \/ claimNothing(scope, "lease")
     \/ r.op = "accept" /\ mayAccept(r.who, r.item) /\ accepted(r.item)
     \/ r.op = "heartbeat" /\ mayRenew(r.who, r.item) /\ renewed(r.item)
     \/ /\ r.op \in {"apply", "fail"} /\ mayComplete(r.who, r.item)
        /\ completed(r.item, r.op = "fail")
     \/ UNCHANGED queueVars

-------------------------------------------------------------------------------
(* A client of the official work API: any call, in any order, with a worker *)
(* id of its own or, where the header is optional, without one.             *)

\* An item is addressed through its environment, which needs the session's row.
addressable(i) == status[i] # "absent" /\ session[owner[i]] # "gone"

ClientPolls(c) ==
  \E hint \in {"lease", "short", "long"} :
    LET scope == {i \in Items : session[owner[i]] # "gone"} IN
    claimNothing(scope, hint) \/ \E i \in scope : claim(c, i, scope, hint)

ClientAcks(c, i) == addressable(i) /\ mayAcceptScoped(c, i) /\ accepted(i)

ClientBeats(c, i) ==
  /\ addressable(i)
  /\ \E expected \in {"absent", "NO_HEARTBEAT", "recorded"} : mayRenewScoped(c, i, expected)
  /\ renewedScoped(c, i)

ClientCompletes(c, i) == mayComplete(c, i) /\ \E failed \in BOOLEAN : completed(i, failed)

ClientStops(i) == addressable(i) /\ stopItem(i)

ClientSide ==
  \/ \E c \in Clients : ClientPolls(c) \/ \E i \in Items : ClientCompletes(c, i)
  \/ \E c \in Clients \cup {Nobody}, i \in Items : ClientAcks(c, i) \/ ClientBeats(c, i)
  \/ \E i \in Items : ClientStops(i)

-------------------------------------------------------------------------------
WorkerSide ==
  \/ \E w \in Workers :
       \/ PollAnswered(w) \/ PollUnconfirmed(w)
       \/ AcceptAnswered(w) \/ AcceptRefused(w) \/ AcceptUnconfirmed(w)
       \/ Renews(w) \/ Reports(w) \/ WorkerDies(w)
  \/ \E r \in late : LateArrives(r)

QueueSide ==
  /\ UNCHANGED workerVars
  /\ ClientSide \/ SessionSide(Awaited) \/ \E i \in Items : Ages(i)

Next == WorkerSide \/ QueueSide

\* Requests, commands and leases end; a worker that is idle polls again and the
\* runtime answers it some time.  Nobody has to queue, renew, stop or die.
Fairness ==
  /\ \A w \in Workers :
       WF_vars(PollAnswered(w)) /\ WF_vars(AcceptAnswered(w) \/ AcceptRefused(w))
         /\ WF_vars(Reports(w))
  /\ \A i \in Items : WF_vars(Ages(i) /\ UNCHANGED workerVars)

Spec == Init /\ [][Next]_vars /\ Fairness

-------------------------------------------------------------------------------
(* Properties *)

WorkerTypeOK ==
  /\ pc \in [Workers -> {"idle", "claimed", "running", "halted"}]
  /\ item \in [Workers -> Items \cup {0}]
  /\ \A w \in Workers : pc[w] = "idle" <=> item[w] = 0
  /\ late \subseteq [op : {"claim", "accept", "heartbeat", "apply", "fail"},
                       who : Workers, item : Items \cup {0}]
  /\ \A r \in late : r.op = "claim" <=> r.item = 0
  /\ ran \in [Items -> Nat]

\* Every row, claim, wait, worker and request has a value of its kind.
TypeOK == QueueTypeOK /\ WorkerTypeOK

\* However claims lapse, requests time out and arrive later, and workers die,
\* no command is run twice by the workers.
RunOnce == \A i \in Items : ran[i] <= 1

\* A result on an item a worker holds is the result of that worker's run: an
\* unconfirmed claim, a refusal or a reclaim never turns into an outcome.
OutcomeWasRun ==
  \A i \in Items : status[i] \in {"applied", "failed"} /\ holder[i] \in Workers => ran[i] = 1

\* Once the producer's wait was told that the work is lost, because it was
\* stopped, the work does not start, whoever has claimed it.
LostWaitStartsNothing ==
  [][\A i \in Items : wait[i] = "work_lease_lost" => ran'[i] = ran[i]]_vars

\* A wait that ends with work_queue_timeout is about work that has not run and
\* that no worker is about to run.
HonestTimeout ==
  [][\A i \in Items :
       wait[i] = "waiting" /\ wait'[i] = "work_queue_timeout"
         => ran[i] = 0 /\ \A w \in Workers : item[w] # i]_vars

\* Work nobody held when its session ended never runs, marked as stopped or not.
EndedWorkNeverRuns ==
  \A i \in Items :
    [](session[owner[i]] = "ended" /\ status[i] = "queued" /\ age[i] = "none"
         => [](ran[i] = 0))

\* The queue keeps what the worker protocol promises per item.
Chain == INSTANCE WorkChain WITH
  stage <- status,
  by <- [i \in Items |-> IF status[i] \in {"absent", "queued", "deleted"} THEN Nobody
                         ELSE holder[i]]
ChainHolds == Chain!Spec

\* An item a worker committed to does not stay accepted for ever: it is
\* reported, stopped, deleted or recorded as unknown.
AcceptedSettles ==
  \A i \in Items : status[i] = "accepted" /\ ~stopped[i] ~> status[i] # "accepted" \/ stopped[i]

\* What docs/api.md says of the code a wait fails with: "nothing has run and
\* submitting the intent again is safe".
TimedOutNeverRuns ==
  \A i \in Items : wait[i] = "work_queue_timeout" => ran[i] = 0
===============================================================================
