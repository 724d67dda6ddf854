----------------------------- MODULE Workers_proofs -----------------------------
(***************************************************************************)
(* What self-hosted workers keep.                                          *)
(*                                                                         *)
(* WorkerPoll, for any number of items, sessions, workers and clients and  *)
(* for every bound.                                                        *)
(*                                                                         *)
(* WorkerMemory, for any paths and any number of writes: the baseline of a *)
(* path differs from the store only where another client wrote it, so a    *)
(* pull takes no edit that nobody saved, and when the exit removes the     *)
(* files its last pass has looked at each of them.                         *)
(***************************************************************************)
EXTENDS TLAPS, WorkerPoll, WorkerMemory

-------------------------------------------------------------------------------
(* WorkerPoll.  The inductive invariant: what the rows say by themselves,  *)
(* and what they say about the workers.                                    *)

\* A row has been claimed as far as its other columns need it, and a wait that
\* was told its work is lost is about a stopped row.
RowInv ==
  \A i \in Items :
    /\ holder[i] # Nobody => age[i] # "none"
    /\ status[i] = "accepted" => age[i] # "none"
    /\ age[i] # "none" /\ holder[i] = Nobody => beat[i]
    /\ wait[i] = "work_lease_lost" => stopped[i]

\* Work still on offer has not run, and a worker about to start an item that
\* has run is not its holder.
WorkInv ==
  /\ \A i \in Items : status[i] \in {"absent", "queued"} => ran[i] = 0
  /\ \A w \in Workers : pc[w] = "claimed" /\ ran[item[w]] # 0 => holder[item[w]] # w
  /\ \A w \in Workers : pc[w] \in {"running", "halted"} => ran[item[w]] = 1
  /\ \A w \in Workers : pc[w] # "idle" => age[item[w]] # "none"
  /\ \A r \in late : r.op \in {"apply", "fail"} => ran[r.item] = 1

IInv == TypeOK /\ RowInv /\ RunOnce /\ WorkInv /\ OutcomeWasRun

-------------------------------------------------------------------------------
(* The steps of the queue, whoever takes them. *)

Hints == {"lease", "short", "long"}

Starts(i) == status[i] \in Unfinished /\ age[i] \in InLease /\ accepted(i)
Extends(c, i) == mayRenew(c, i) /\ renewed(i)
ExtendsScoped(c, i) ==
  /\ \E expected \in {"absent", "NO_HEARTBEAT", "recorded"} : mayRenewScoped(c, i, expected)
  /\ renewedScoped(c, i)
Settles(c, i) == mayComplete(c, i) /\ \E failed \in BOOLEAN : completed(i, failed)

QuietStep ==
  \/ UNCHANGED queueVars
  \/ \E i \in Items, waits \in BOOLEAN : Enqueue(i, waits)
  \/ \E s \in Sessions : SessionEnds(s) \/ SessionDeleted(s) \/ Stop(s)
  \/ \E i \in Items : stopItem(i) \/ Ages(i) \/ WaitReturns(i) \/ WaitGivesUp(i)
  \/ RuntimeDies
  \/ \E c \in Callers, i \in Items, scope \in SUBSET Items, hint \in Hints :
       claim(c, i, scope, hint)
  \/ \E scope \in SUBSET Items, hint \in Hints : claimNothing(scope, hint)
  \/ \E i \in Items : Starts(i)
  \/ \E c \in Callers, i \in Items : Extends(c, i)
  \/ \E c \in Clients \cup {Nobody}, i \in Items : ExtendsScoped(c, i)

QueueStep == QuietStep \/ \E c \in Callers, i \in Items : Settles(c, i)

\* Every queue operation keeps the rows well-formed.
LEMMA RowsKept ==
  QueueTypeOK /\ RowInv /\ QueueStep =>
    QueueTypeOK' /\ RowInv'
  <1> SUFFICES ASSUME QueueTypeOK /\ RowInv /\ QueueStep
                PROVE  QueueTypeOK' /\ RowInv'
    OBVIOUS
  <1>1. ASSUME UNCHANGED queueVars
        PROVE  QueueTypeOK' /\ RowInv'
    BY <1>1, QueueAssumption DEF QueueTypeOK, RowInv, queueVars, claimVars, markVars
  <1>2. ASSUME NEW i \in Items, NEW waits \in BOOLEAN, Enqueue(i, waits)
        PROVE  QueueTypeOK' /\ RowInv'
    BY <1>2, QueueAssumption DEF QueueTypeOK, RowInv, Enqueue, claimVars
  <1>3. ASSUME NEW s \in Sessions, SessionEnds(s)
        PROVE  QueueTypeOK' /\ RowInv'
    BY <1>3, QueueAssumption DEF QueueTypeOK, RowInv, SessionEnds, claimVars, markVars
  <1>4. ASSUME NEW s \in Sessions, SessionDeleted(s)
        PROVE  QueueTypeOK' /\ RowInv'
    BY <1>4, QueueAssumption DEF QueueTypeOK, RowInv, SessionDeleted, claimVars, markVars
  <1>5. ASSUME NEW s \in Sessions, Stop(s)
        PROVE  QueueTypeOK' /\ RowInv'
    BY <1>5, QueueAssumption DEF QueueTypeOK, RowInv, Stop, claimVars
  <1>6. ASSUME NEW i \in Items, stopItem(i)
        PROVE  QueueTypeOK' /\ RowInv'
    BY <1>6, QueueAssumption DEF QueueTypeOK, RowInv, stopItem, claimVars
  <1>7. ASSUME NEW i \in Items, Ages(i)
        PROVE  QueueTypeOK' /\ RowInv'
    BY <1>7, QueueAssumption DEF QueueTypeOK, RowInv, Ages, markVars, InLease, Unfinished
  <1>8. ASSUME NEW i \in Items, WaitReturns(i)
        PROVE  QueueTypeOK' /\ RowInv'
    BY <1>8, QueueAssumption DEF QueueTypeOK, RowInv, WaitReturns, claimVars, markVars
  <1>9. ASSUME NEW i \in Items, WaitGivesUp(i)
        PROVE  QueueTypeOK' /\ RowInv'
    BY <1>9, QueueAssumption DEF QueueTypeOK, RowInv, WaitGivesUp, waitFailure, markVars
  <1>10. ASSUME RuntimeDies
        PROVE  QueueTypeOK' /\ RowInv'
    BY <1>10, QueueAssumption DEF QueueTypeOK, RowInv, RuntimeDies, claimVars, markVars
  <1>11. ASSUME NEW c \in Callers, NEW i \in Items, NEW scope \in SUBSET Items,
                NEW hint \in Hints, claim(c, i, scope, hint)
        PROVE  QueueTypeOK' /\ RowInv'
    BY <1>11, QueueAssumption
    DEF QueueTypeOK, RowInv, claim, Candidates, claimable, Swept, markVars
  <1>12. ASSUME NEW scope \in SUBSET Items, NEW hint \in Hints, claimNothing(scope, hint)
        PROVE  QueueTypeOK' /\ RowInv'
    BY <1>12, QueueAssumption
    DEF QueueTypeOK, RowInv, claimNothing, Swept, claimVars, markVars
  <1>13. ASSUME NEW i \in Items, Starts(i)
        PROVE  QueueTypeOK' /\ RowInv'
    BY <1>13, QueueAssumption
    DEF QueueTypeOK, RowInv, Starts, accepted, claimVars, markVars, InLease, Unfinished
  <1>14. ASSUME NEW c \in Callers, NEW i \in Items, Extends(c, i)
        PROVE  QueueTypeOK' /\ RowInv'
    BY <1>14, QueueAssumption
    DEF QueueTypeOK, RowInv, Extends, mayRenew, renewed, markVars, Unfinished
  <1>15. ASSUME NEW c \in Clients \cup {Nobody}, NEW i \in Items, ExtendsScoped(c, i)
        PROVE  QueueTypeOK' /\ RowInv'
    BY <1>15, QueueAssumption
    DEF QueueTypeOK, RowInv, ExtendsScoped, mayRenewScoped, renewedScoped, markVars, Unfinished, Clients
  <1>16. ASSUME NEW c \in Callers, NEW i \in Items, Settles(c, i)
        PROVE  QueueTypeOK' /\ RowInv'
    BY <1>16, QueueAssumption
    DEF QueueTypeOK, RowInv, Settles, mayComplete, completed, claimVars, markVars, Unfinished
  <1> QED
    BY <1>1, <1>2, <1>3, <1>4, <1>5, <1>6, <1>7, <1>8, <1>9, <1>10, <1>11, <1>12, <1>13, <1>14, <1>15, <1>16, Zenon
    DEF QueueStep, QuietStep

\* What no queue operation does: offer work again, forget that it was claimed,
\* or hand work that is no longer queued to a worker.
Forward ==
  \A i \in Items :
    /\ status'[i] \in {"absent", "queued"} => status[i] \in {"absent", "queued"}
    /\ age[i] # "none" => age'[i] # "none"
    /\ holder'[i] # holder[i] => status[i] = "queued" \/ holder'[i] \notin Workers

LEMMA StepsForward ==
  QueueTypeOK /\ QueueStep =>
    Forward
  <1> SUFFICES ASSUME QueueTypeOK /\ QueueStep
                PROVE  Forward
    OBVIOUS
  <1>1. ASSUME UNCHANGED queueVars
        PROVE  Forward
    BY <1>1, QueueAssumption, WorkerAssumption
    DEF QueueTypeOK, Forward, queueVars, claimVars, markVars
  <1>2. ASSUME NEW i \in Items, NEW waits \in BOOLEAN, Enqueue(i, waits)
        PROVE  Forward
    BY <1>2, QueueAssumption, WorkerAssumption DEF QueueTypeOK, Forward, Enqueue, claimVars
  <1>3. ASSUME NEW s \in Sessions, SessionEnds(s)
        PROVE  Forward
    BY <1>3, QueueAssumption, WorkerAssumption
    DEF QueueTypeOK, Forward, SessionEnds, claimVars, markVars
  <1>4. ASSUME NEW s \in Sessions, SessionDeleted(s)
        PROVE  Forward
    BY <1>4, QueueAssumption, WorkerAssumption
    DEF QueueTypeOK, Forward, SessionDeleted, claimVars, markVars
  <1>5. ASSUME NEW s \in Sessions, Stop(s)
        PROVE  Forward
    BY <1>5, QueueAssumption, WorkerAssumption DEF QueueTypeOK, Forward, Stop, claimVars
  <1>6. ASSUME NEW i \in Items, stopItem(i)
        PROVE  Forward
    BY <1>6, QueueAssumption, WorkerAssumption DEF QueueTypeOK, Forward, stopItem, claimVars
  <1>7. ASSUME NEW i \in Items, Ages(i)
        PROVE  Forward
    BY <1>7, QueueAssumption, WorkerAssumption
    DEF QueueTypeOK, Forward, Ages, markVars, InLease, Unfinished
  <1>8. ASSUME NEW i \in Items, WaitReturns(i)
        PROVE  Forward
    BY <1>8, QueueAssumption, WorkerAssumption
    DEF QueueTypeOK, Forward, WaitReturns, claimVars, markVars
  <1>9. ASSUME NEW i \in Items, WaitGivesUp(i)
        PROVE  Forward
    BY <1>9, QueueAssumption, WorkerAssumption
    DEF QueueTypeOK, Forward, WaitGivesUp, waitFailure, markVars
  <1>10. ASSUME RuntimeDies
        PROVE  Forward
    BY <1>10, QueueAssumption, WorkerAssumption
    DEF QueueTypeOK, Forward, RuntimeDies, claimVars, markVars
  <1>11. ASSUME NEW c \in Callers, NEW i \in Items, NEW scope \in SUBSET Items,
                NEW hint \in Hints, claim(c, i, scope, hint)
        PROVE  Forward
    BY <1>11, QueueAssumption, WorkerAssumption
    DEF QueueTypeOK, Forward, claim, Candidates, claimable, Swept, markVars
  <1>12. ASSUME NEW scope \in SUBSET Items, NEW hint \in Hints, claimNothing(scope, hint)
        PROVE  Forward
    BY <1>12, QueueAssumption, WorkerAssumption
    DEF QueueTypeOK, Forward, claimNothing, Swept, claimVars, markVars
  <1>13. ASSUME NEW i \in Items, Starts(i)
        PROVE  Forward
    BY <1>13, QueueAssumption, WorkerAssumption
    DEF QueueTypeOK, Forward, Starts, accepted, claimVars, markVars, InLease, Unfinished
  <1>14. ASSUME NEW c \in Callers, NEW i \in Items, Extends(c, i)
        PROVE  Forward
    BY <1>14, QueueAssumption, WorkerAssumption
    DEF QueueTypeOK, Forward, Extends, mayRenew, renewed, markVars, Unfinished
  <1>15. ASSUME NEW c \in Clients \cup {Nobody}, NEW i \in Items, ExtendsScoped(c, i)
        PROVE  Forward
    BY <1>15, QueueAssumption, WorkerAssumption
    DEF QueueTypeOK, Forward, ExtendsScoped, mayRenewScoped, renewedScoped, markVars, Unfinished, Clients
  <1>16. ASSUME NEW c \in Callers, NEW i \in Items, Settles(c, i)
        PROVE  Forward
    BY <1>16, QueueAssumption, WorkerAssumption
    DEF QueueTypeOK, Forward, Settles, mayComplete, completed, claimVars, markVars, Unfinished
  <1> QED
    BY <1>1, <1>2, <1>3, <1>4, <1>5, <1>6, <1>7, <1>8, <1>9, <1>10, <1>11, <1>12, <1>13, <1>14, <1>15, <1>16, Zenon
    DEF QueueStep, QuietStep

\* Only a report settles an item.
Unsettling ==
  \A i \in Items : status'[i] \in {"applied", "failed"} =>
    status'[i] = status[i] /\ holder'[i] = holder[i]

LEMMA QuietUnsettling ==
  QueueTypeOK /\ QuietStep =>
    Unsettling
  <1> SUFFICES ASSUME QueueTypeOK /\ QuietStep
                PROVE  Unsettling
    OBVIOUS
  <1>1. ASSUME UNCHANGED queueVars
        PROVE  Unsettling
    BY <1>1 DEF QueueTypeOK, Unsettling, queueVars, claimVars, markVars
  <1>2. ASSUME NEW i \in Items, NEW waits \in BOOLEAN, Enqueue(i, waits)
        PROVE  Unsettling
    BY <1>2 DEF QueueTypeOK, Unsettling, Enqueue, claimVars
  <1>3. ASSUME NEW s \in Sessions, SessionEnds(s)
        PROVE  Unsettling
    BY <1>3 DEF QueueTypeOK, Unsettling, SessionEnds, claimVars, markVars
  <1>4. ASSUME NEW s \in Sessions, SessionDeleted(s)
        PROVE  Unsettling
    BY <1>4 DEF QueueTypeOK, Unsettling, SessionDeleted, claimVars, markVars
  <1>5. ASSUME NEW s \in Sessions, Stop(s)
        PROVE  Unsettling
    BY <1>5 DEF QueueTypeOK, Unsettling, Stop, claimVars
  <1>6. ASSUME NEW i \in Items, stopItem(i)
        PROVE  Unsettling
    BY <1>6 DEF QueueTypeOK, Unsettling, stopItem, claimVars
  <1>7. ASSUME NEW i \in Items, Ages(i)
        PROVE  Unsettling
    BY <1>7 DEF QueueTypeOK, Unsettling, Ages, markVars, InLease, Unfinished
  <1>8. ASSUME NEW i \in Items, WaitReturns(i)
        PROVE  Unsettling
    BY <1>8 DEF QueueTypeOK, Unsettling, WaitReturns, claimVars, markVars
  <1>9. ASSUME NEW i \in Items, WaitGivesUp(i)
        PROVE  Unsettling
    BY <1>9 DEF QueueTypeOK, Unsettling, WaitGivesUp, waitFailure, markVars
  <1>10. ASSUME RuntimeDies
        PROVE  Unsettling
    BY <1>10 DEF QueueTypeOK, Unsettling, RuntimeDies, claimVars, markVars
  <1>11. ASSUME NEW c \in Callers, NEW i \in Items, NEW scope \in SUBSET Items,
                NEW hint \in Hints, claim(c, i, scope, hint)
        PROVE  Unsettling
    BY <1>11 DEF QueueTypeOK, Unsettling, claim, Candidates, claimable, Swept, markVars
  <1>12. ASSUME NEW scope \in SUBSET Items, NEW hint \in Hints, claimNothing(scope, hint)
        PROVE  Unsettling
    BY <1>12 DEF QueueTypeOK, Unsettling, claimNothing, Swept, claimVars, markVars
  <1>13. ASSUME NEW i \in Items, Starts(i)
        PROVE  Unsettling
    BY <1>13
    DEF QueueTypeOK, Unsettling, Starts, accepted, claimVars, markVars, InLease, Unfinished
  <1>14. ASSUME NEW c \in Callers, NEW i \in Items, Extends(c, i)
        PROVE  Unsettling
    BY <1>14 DEF QueueTypeOK, Unsettling, Extends, mayRenew, renewed, markVars, Unfinished
  <1>15. ASSUME NEW c \in Clients \cup {Nobody}, NEW i \in Items, ExtendsScoped(c, i)
        PROVE  Unsettling
    BY <1>15
    DEF QueueTypeOK, Unsettling, ExtendsScoped, mayRenewScoped, renewedScoped, markVars, Unfinished, Clients
  <1> QED
    BY <1>1, <1>2, <1>3, <1>4, <1>5, <1>6, <1>7, <1>8, <1>9, <1>10, <1>11, <1>12, <1>13, <1>14, <1>15, Zenon
    DEF QuietStep

LEMMA ScopesAreItems == \A scope \in Scopes : scope \in SUBSET Items
  BY DEF Scopes

\* A worker's step, or a late request, is one step of the queue; every one of
\* them but a report is quiet.
LEMMA WorkerQuiet ==
  ASSUME TypeOK, NEW w \in Workers,
         PollAnswered(w) \/ PollUnconfirmed(w) \/ AcceptAnswered(w) \/ AcceptRefused(w)
           \/ AcceptUnconfirmed(w) \/ Renews(w) \/ WorkerDies(w)
  PROVE  QuietStep
  <1> USE WorkerAssumption
  <1>1. CASE PollAnswered(w)
    <2>1. PICK scope \in Scopes :
            claimNothing(scope, "lease") \/ \E i \in scope : claim(w, i, scope, "lease")
      BY <1>1, Zenon DEF PollAnswered
    <2>2. scope \in SUBSET Items /\ "lease" \in Hints /\ w \in Callers
      BY ScopesAreItems DEF Hints
    <2> QED
      BY <2>1, <2>2, Zenon DEF QuietStep
  <1>2. CASE PollUnconfirmed(w)
    BY <1>2, Zenon DEF PollUnconfirmed, QuietStep
  <1>3. CASE AcceptAnswered(w)
    <2>1. item[w] \in Items
      BY <1>3 DEF AcceptAnswered, TypeOK, WorkerTypeOK
    <2>2. Starts(item[w])
      BY <1>3 DEF AcceptAnswered, Starts, mayAccept
    <2> QED
      BY <2>1, <2>2, Zenon DEF QuietStep
  <1>4. CASE AcceptRefused(w)
    BY <1>4, Zenon DEF AcceptRefused, QuietStep
  <1>5. CASE AcceptUnconfirmed(w)
    BY <1>5, Zenon DEF AcceptUnconfirmed, QuietStep
  <1>6. CASE Renews(w)
    <2>1. item[w] \in Items /\ w \in Callers
      BY <1>6 DEF Renews, TypeOK, WorkerTypeOK
    <2>2. UNCHANGED queueVars \/ Extends(w, item[w])
      BY <1>6, Zenon DEF Renews, Extends
    <2> QED
      BY <2>1, <2>2, Zenon DEF QuietStep
  <1>7. CASE WorkerDies(w)
    BY <1>7, Zenon DEF WorkerDies, QuietStep
  <1> QED
    BY <1>1, <1>2, <1>3, <1>4, <1>5, <1>6, <1>7

LEMMA LateStep ==
  ASSUME TypeOK, NEW r \in late, LateArrives(r)
  PROVE  \/ QuietStep
         \/ r.op \in {"apply", "fail"} /\ r.item \in Items /\ Settles(r.who, r.item)
  <1>1. r.who \in Callers /\ r.item \in Items \cup {0} /\ (r.op = "claim" <=> r.item = 0)
    BY WorkerAssumption DEF TypeOK, WorkerTypeOK
  <1>2. CASE \E scope \in Scopes, i \in Items :
               claim(r.who, i, scope, "lease") \/ claimNothing(scope, "lease")
    <2>1. PICK scope \in Scopes, i \in Items :
            claim(r.who, i, scope, "lease") \/ claimNothing(scope, "lease")
      BY <1>2
    <2>2. scope \in SUBSET Items /\ "lease" \in Hints
      BY ScopesAreItems DEF Hints
    <2> QED
      BY <1>1, <2>1, <2>2, Zenon DEF QuietStep
  <1>3. CASE r.op = "accept" /\ mayAccept(r.who, r.item) /\ accepted(r.item)
    <2>1. r.item \in Items
      BY <1>1, <1>3
    <2>2. Starts(r.item)
      BY <1>3 DEF Starts, mayAccept
    <2> QED
      BY <2>1, <2>2, Zenon DEF QuietStep
  <1>4. CASE r.op = "heartbeat" /\ mayRenew(r.who, r.item) /\ renewed(r.item)
    <2>1. r.item \in Items
      BY <1>1, <1>4
    <2> QED
      BY <1>1, <1>4, <2>1, Zenon DEF QuietStep, Extends
  <1>5. CASE r.op \in {"apply", "fail"} /\ mayComplete(r.who, r.item)
               /\ completed(r.item, r.op = "fail")
    <2>1. r.item \in Items
      BY <1>1, <1>5
    <2>2. (r.op = "fail") \in BOOLEAN
      OBVIOUS
    <2> QED
      BY <1>5, <2>1, <2>2, Zenon DEF Settles
  <1>6. CASE UNCHANGED queueVars
    BY <1>6, Zenon DEF QuietStep
  <1> QED
    BY <1>2, <1>3, <1>4, <1>5, <1>6, Zenon DEF LateArrives

LEMMA QueueSideStep ==
  ASSUME TypeOK, QueueSide
  PROVE  QuietStep \/ \E c \in Clients, i \in Items : Settles(c, i)
  <1>1. ASSUME NEW c \in Clients, ClientPolls(c) PROVE QuietStep
    <2>1. PICK hint \in Hints, scope \in SUBSET Items :
            claimNothing(scope, hint) \/ \E i \in scope : claim(c, i, scope, hint)
      BY <1>1 DEF ClientPolls, Hints
    <2>2. c \in Callers
      BY DEF Clients
    <2> QED
      BY <2>1, <2>2, Zenon DEF QuietStep
  <1>2. ASSUME NEW c \in Clients, NEW i \in Items, ClientCompletes(c, i) PROVE Settles(c, i)
    BY <1>2 DEF ClientCompletes, Settles
  <1>3. ASSUME NEW c \in Clients \cup {Nobody}, NEW i \in Items, ClientAcks(c, i)
        PROVE  Starts(i)
    BY <1>3 DEF ClientAcks, mayAcceptScoped, Starts
  <1>4. ASSUME NEW c \in Clients \cup {Nobody}, NEW i \in Items, ClientBeats(c, i)
        PROVE  ExtendsScoped(c, i)
    BY <1>4 DEF ClientBeats, ExtendsScoped
  <1>5. ASSUME NEW i \in Items, ClientStops(i) PROVE stopItem(i)
    BY <1>5 DEF ClientStops
  <1>6. ASSUME SessionSide(Awaited) PROVE QuietStep
    <2>1. \A i \in Items : (i \in Awaited) \in BOOLEAN
      OBVIOUS
    <2> QED
      BY <1>6, <2>1, Zenon DEF SessionSide, QuietStep
  <1> QED
    BY <1>1, <1>2, <1>3, <1>4, <1>5, <1>6, Zenon DEF QueueSide, ClientSide, QuietStep

LEMMA Steps == TypeOK /\ [Next]_vars => QueueStep
  <1> SUFFICES ASSUME TypeOK, [Next]_vars PROVE QueueStep
    OBVIOUS
  <1>1. ASSUME NEW w \in Workers, Reports(w) PROVE QueueStep
    <2>1. item[w] \in Items /\ w \in Callers
      BY <1>1, WorkerAssumption DEF Reports, TypeOK, WorkerTypeOK
    <2>2. UNCHANGED queueVars \/ Settles(w, item[w])
      BY <1>1, Zenon DEF Reports, Settles
    <2> QED
      BY <2>1, <2>2, Zenon DEF QueueStep, QuietStep
  <1>2. ASSUME NEW r \in late, LateArrives(r) PROVE QueueStep
    <2>1. r.who \in Callers
      BY WorkerAssumption DEF TypeOK, WorkerTypeOK
    <2> QED
      BY <1>2, <2>1, LateStep, Zenon DEF QueueStep
  <1>3. ASSUME QueueSide PROVE QueueStep
    BY <1>3, QueueSideStep, Zenon DEF QueueStep, Clients
  <1>4. ASSUME UNCHANGED vars PROVE QueueStep
    BY <1>4, Zenon DEF vars, QueueStep, QuietStep
  <1> QED
    BY <1>1, <1>2, <1>3, <1>4, WorkerQuiet, Zenon DEF Next, WorkerSide, QueueStep

-------------------------------------------------------------------------------
(* The workers. *)

LEMMA WorkerTypes == WorkerTypeOK /\ [Next]_vars => WorkerTypeOK'
  <1> SUFFICES ASSUME WorkerTypeOK, [Next]_vars PROVE WorkerTypeOK'
    OBVIOUS
  <1> USE WorkerAssumption DEF WorkerTypeOK, becomes, sent
  <1>1. ASSUME NEW w \in Workers, PollAnswered(w) PROVE WorkerTypeOK'
    <2>1. \/ UNCHANGED <<pc, item, late, ran>>
          \/ UNCHANGED <<late, ran>> /\ \E i \in Items : becomes(w, "claimed", i)
      BY <1>1, ScopesAreItems DEF PollAnswered
    <2> QED
      BY <2>1
  <1>2. ASSUME NEW w \in Workers, PollUnconfirmed(w) PROVE WorkerTypeOK'
    BY <1>2 DEF PollUnconfirmed
  <1>3. ASSUME NEW w \in Workers, AcceptAnswered(w) PROVE WorkerTypeOK'
    BY <1>3 DEF AcceptAnswered
  <1>4. ASSUME NEW w \in Workers, AcceptRefused(w) PROVE WorkerTypeOK'
    BY <1>4 DEF AcceptRefused
  <1>5. ASSUME NEW w \in Workers, AcceptUnconfirmed(w) PROVE WorkerTypeOK'
    BY <1>5 DEF AcceptUnconfirmed
  <1>6. ASSUME NEW w \in Workers, Renews(w) PROVE WorkerTypeOK'
    BY <1>6 DEF Renews
  <1>7. ASSUME NEW w \in Workers, Reports(w) PROVE WorkerTypeOK'
    <2>1. \/ UNCHANGED late
          \/ \E op \in {"apply", "fail"} : sent([op |-> op, who |-> w, item |-> item[w]])
      BY <1>7 DEF Reports
    <2>2. becomes(w, "idle", 0) /\ UNCHANGED ran /\ item[w] \in Items
      BY <1>7 DEF Reports
    <2> QED
      BY <2>1, <2>2
  <1>8. ASSUME NEW w \in Workers, WorkerDies(w) PROVE WorkerTypeOK'
    BY <1>8 DEF WorkerDies
  <1>9. ASSUME NEW r \in late, LateArrives(r) PROVE WorkerTypeOK'
    <2>1. late' \subseteq late /\ UNCHANGED <<pc, item, ran>>
      BY <1>9, Zenon DEF LateArrives
    <2> QED
      BY <2>1
  <1>10. ASSUME UNCHANGED workerVars PROVE WorkerTypeOK'
    BY <1>10 DEF workerVars
  <1>11. QueueSide \/ UNCHANGED vars => UNCHANGED workerVars
    BY Zenon DEF QueueSide, vars
  <1> QED
    BY <1>1, <1>2, <1>3, <1>4, <1>5, <1>6, <1>7, <1>8, <1>9, <1>10, <1>11, Zenon
    DEF Next, WorkerSide

WorkAll == RunOnce /\ WorkInv /\ OutcomeWasRun

\* While no worker starts anything, a step that goes forward and settles nothing
\* keeps what is known of the workers.
LEMMA StillWork ==
  ASSUME TypeOK, WorkAll, Forward, Unsettling, UNCHANGED ran,
         \A w \in Workers :
           \/ pc'[w] = pc[w] /\ item'[w] = item[w]
           \/ pc'[w] = "idle"
           \/ pc'[w] = "halted" /\ pc[w] = "running" /\ item'[w] = item[w],
         \A r \in late' : r \in late \/ r.op \notin {"apply", "fail"}
           \/ (r.item \in Items /\ ran[r.item] = 1)
  PROVE  WorkAll'
  <1> USE DEF TypeOK, WorkerTypeOK
  <1>1. RunOnce'
    BY DEF WorkAll, RunOnce
  <1>2. (\A i \in Items : status[i] \in {"absent", "queued"} => ran[i] = 0)'
    BY DEF WorkAll, WorkInv, Forward
  <1>3. ASSUME NEW w \in Workers, pc'[w] = "claimed", ran'[item'[w]] # 0
        PROVE  holder'[item'[w]] # w
    BY <1>3, WorkerAssumption DEF WorkAll, WorkInv, Forward
  <1>4. ASSUME NEW w \in Workers, pc'[w] \in {"running", "halted"} PROVE ran'[item'[w]] = 1
    BY <1>4 DEF WorkAll, WorkInv
  <1>5. ASSUME NEW w \in Workers, pc'[w] # "idle" PROVE age'[item'[w]] # "none"
    BY <1>5, WorkerAssumption DEF WorkAll, WorkInv, Forward
  <1>6. (\A r \in late : r.op \in {"apply", "fail"} => ran[r.item] = 1)'
    BY DEF WorkAll, WorkInv
  <1>7. OutcomeWasRun'
    BY DEF WorkAll, OutcomeWasRun, Unsettling
  <1> QED
    BY <1>1, <1>2, <1>3, <1>4, <1>5, <1>6, <1>7 DEF WorkAll, WorkInv

\* A report of the worker that ran the item is the one step that settles one.
LEMMA SettledWork ==
  ASSUME TypeOK, WorkAll, Forward, NEW c \in Callers, NEW k \in Items, Settles(c, k),
         c \in Workers => ran[k] = 1,
         UNCHANGED ran,
         \A w \in Workers : (pc'[w] = pc[w] /\ item'[w] = item[w]) \/ pc'[w] = "idle",
         late' \subseteq late
  PROVE  WorkAll'
  <1> USE DEF TypeOK, WorkerTypeOK
  <1>1. RunOnce'
    BY DEF WorkAll, RunOnce
  <1>2. (\A i \in Items : status[i] \in {"absent", "queued"} => ran[i] = 0)'
    BY DEF WorkAll, WorkInv, Forward
  <1>3. ASSUME NEW w \in Workers, pc'[w] = "claimed", ran'[item'[w]] # 0
        PROVE  holder'[item'[w]] # w
    BY <1>3, WorkerAssumption DEF WorkAll, WorkInv, Forward
  <1>4. ASSUME NEW w \in Workers, pc'[w] \in {"running", "halted"} PROVE ran'[item'[w]] = 1
    BY <1>4 DEF WorkAll, WorkInv
  <1>5. ASSUME NEW w \in Workers, pc'[w] # "idle" PROVE age'[item'[w]] # "none"
    BY <1>5, WorkerAssumption DEF WorkAll, WorkInv, Forward
  <1>6. (\A r \in late : r.op \in {"apply", "fail"} => ran[r.item] = 1)'
    BY DEF WorkAll, WorkInv
  <1>7. OutcomeWasRun'
    BY DEF WorkAll, OutcomeWasRun, Settles, mayComplete, completed, claimVars, QueueTypeOK
  <1> QED
    BY <1>1, <1>2, <1>3, <1>4, <1>5, <1>6, <1>7 DEF WorkAll, WorkInv

\* Claiming: the item is queued, so it has not run.
LEMMA ClaimedWork ==
  ASSUME TypeOK, WorkAll, Forward, Unsettling, NEW w \in Workers, NEW k \in Items,
         status[k] = "queued", age'[k] = "fresh",
         becomes(w, "claimed", k), UNCHANGED <<late, ran>>
  PROVE  WorkAll'
  <1> USE WorkerAssumption DEF TypeOK, WorkerTypeOK, becomes
  <1>1. RunOnce'
    BY DEF WorkAll, RunOnce
  <1>2. (\A i \in Items : status[i] \in {"absent", "queued"} => ran[i] = 0)'
    BY DEF WorkAll, WorkInv, Forward
  <1>3. ASSUME NEW v \in Workers, pc'[v] = "claimed", ran'[item'[v]] # 0
        PROVE  holder'[item'[v]] # v
    <2>1. ran[k] = 0
      BY DEF WorkAll, WorkInv
    <2>2. v # w
      BY <1>3, <2>1
    <2> QED
      BY <1>3, <2>2 DEF WorkAll, WorkInv, Forward
  <1>4. ASSUME NEW v \in Workers, pc'[v] \in {"running", "halted"} PROVE ran'[item'[v]] = 1
    BY <1>4 DEF WorkAll, WorkInv
  <1>5. ASSUME NEW v \in Workers, pc'[v] # "idle" PROVE age'[item'[v]] # "none"
    BY <1>5 DEF WorkAll, WorkInv, Forward
  <1>6. (\A r \in late : r.op \in {"apply", "fail"} => ran[r.item] = 1)'
    BY DEF WorkAll, WorkInv
  <1>7. OutcomeWasRun'
    BY DEF WorkAll, OutcomeWasRun, Unsettling
  <1> QED
    BY <1>1, <1>2, <1>3, <1>4, <1>5, <1>6, <1>7 DEF WorkAll, WorkInv

\* Starting: the worker is the holder, so the item has not run, and no other
\* worker about to start it is.
LEMMA StartedWork ==
  ASSUME TypeOK, WorkAll, Forward, Unsettling, NEW w \in Workers, AcceptAnswered(w)
  PROVE  WorkAll'
  <1> DEFINE k == item[w]
  <1> USE WorkerAssumption DEF TypeOK, WorkerTypeOK, AcceptAnswered, mayAccept, becomes
  <1>1. k \in Items /\ holder[k] = w /\ ran[k] = 0 /\ ran' = [ran EXCEPT ![k] = 1]
    <2>1. pc[w] = "claimed" /\ k \in Items /\ holder[k] = w
      OBVIOUS
    <2>2. ran[k] = 0
      BY <2>1 DEF WorkAll, WorkInv
    <2>3. ran' = [ran EXCEPT ![k] = ran[k] + 1]
      BY Zenon
    <2> QED
      BY <2>1, <2>2, <2>3
  <1>2. status'[k] = "accepted" /\ holder' = holder
    BY <1>1 DEF accepted, claimVars, QueueTypeOK
  <1>3. RunOnce'
    BY <1>1 DEF WorkAll, RunOnce
  <1>4. (\A i \in Items : status[i] \in {"absent", "queued"} => ran[i] = 0)'
    BY <1>1, <1>2 DEF WorkAll, WorkInv, Forward
  <1>5. ASSUME NEW v \in Workers, pc'[v] = "claimed", ran'[item'[v]] # 0
        PROVE  holder'[item'[v]] # v
    BY <1>1, <1>2, <1>5 DEF WorkAll, WorkInv
  <1>6. ASSUME NEW v \in Workers, pc'[v] \in {"running", "halted"} PROVE ran'[item'[v]] = 1
    BY <1>1, <1>6 DEF WorkAll, WorkInv
  <1>7. ASSUME NEW v \in Workers, pc'[v] # "idle" PROVE age'[item'[v]] # "none"
    BY <1>7 DEF WorkAll, WorkInv, Forward
  <1>8. (\A r \in late : r.op \in {"apply", "fail"} => ran[r.item] = 1)'
    BY <1>1 DEF WorkAll, WorkInv
  <1>9. OutcomeWasRun'
    BY <1>1 DEF WorkAll, OutcomeWasRun, Unsettling
  <1> QED
    BY <1>3, <1>4, <1>5, <1>6, <1>7, <1>8, <1>9 DEF WorkAll, WorkInv

LEMMA WorkKept == TypeOK /\ RowInv /\ WorkAll /\ [Next]_vars => WorkAll'
  <1> SUFFICES ASSUME TypeOK, RowInv, WorkAll, [Next]_vars PROVE WorkAll'
    OBVIOUS
  <1>1. Forward
    BY Steps, StepsForward, Zenon DEF TypeOK
  <1>2. QuietStep => Unsettling
    BY QuietUnsettling, Zenon DEF TypeOK
  <1>3. ASSUME NEW w \in Workers, PollAnswered(w) PROVE WorkAll'
    <2>1. CASE UNCHANGED <<pc, item>>
      BY <1>1, <1>2, <1>3, <2>1, WorkerQuiet, StillWork DEF PollAnswered, WorkAll, WorkInv
    <2>2. CASE \E scope \in Scopes : \E i \in scope :
                 claim(w, i, scope, "lease") /\ becomes(w, "claimed", i)
      <3>1. PICK scope \in Scopes :
              \E i \in scope : claim(w, i, scope, "lease") /\ becomes(w, "claimed", i)
        BY <2>2
      <3>2. PICK i \in scope : claim(w, i, scope, "lease") /\ becomes(w, "claimed", i)
        BY <3>1
      <3>3. i \in Items /\ status[i] = "queued" /\ age'[i] = "fresh"
        BY <3>2, ScopesAreItems DEF claim, Candidates, claimable, TypeOK, QueueTypeOK
      <3> QED
        BY <1>1, <1>2, <1>3, <3>2, <3>3, WorkerQuiet, ClaimedWork, Zenon DEF PollAnswered
    <2> QED
      BY <1>3, <2>1, <2>2, Zenon DEF PollAnswered
  <1>4. ASSUME NEW w \in Workers, PollUnconfirmed(w) PROVE WorkAll'
    BY <1>1, <1>2, <1>4, WorkerQuiet, StillWork DEF PollUnconfirmed, sent, WorkAll, WorkInv
  <1>5. ASSUME NEW w \in Workers, AcceptAnswered(w) PROVE WorkAll'
    BY <1>1, <1>2, <1>5, WorkerQuiet, StartedWork
  <1>6. ASSUME NEW w \in Workers, AcceptRefused(w) \/ WorkerDies(w) PROVE WorkAll'
    BY <1>1, <1>2, <1>6, WorkerQuiet, StillWork
    DEF AcceptRefused, WorkerDies, becomes, TypeOK, WorkerTypeOK
  <1>7. ASSUME NEW w \in Workers, AcceptUnconfirmed(w) PROVE WorkAll'
    <2>1. /\ UNCHANGED ran
          /\ \A v \in Workers : (pc'[v] = pc[v] /\ item'[v] = item[v]) \/ pc'[v] = "idle"
          /\ \A r \in late' : r \in late \/ r.op \notin {"apply", "fail"}
      BY <1>7 DEF AcceptUnconfirmed, sent, becomes, TypeOK, WorkerTypeOK
    <2> QED
      BY <1>1, <1>2, <1>7, <2>1, WorkerQuiet, StillWork
  <1>8. ASSUME NEW w \in Workers, Renews(w) PROVE WorkAll'
    BY <1>1, <1>2, <1>8, WorkerQuiet, StillWork DEF Renews, sent, TypeOK, WorkerTypeOK
  <1>9. ASSUME NEW w \in Workers, Reports(w) PROVE WorkAll'
    <2>1. item[w] \in Items /\ ran[item[w]] = 1 /\ w \in Callers
      BY <1>9, WorkerAssumption DEF Reports, TypeOK, WorkerTypeOK, WorkAll, WorkInv
    <2>2. /\ becomes(w, "idle", 0) /\ UNCHANGED ran
          /\ \A v \in Workers : (pc'[v] = pc[v] /\ item'[v] = item[v]) \/ pc'[v] = "idle"
      BY <1>9 DEF Reports, becomes, TypeOK, WorkerTypeOK
    <2>3. CASE Settles(w, item[w]) /\ UNCHANGED late
      BY <1>1, <2>1, <2>2, <2>3, SettledWork
    <2>4. CASE UNCHANGED queueVars /\
               (UNCHANGED late \/ \E op \in {"apply", "fail"} :
                                    sent([op |-> op, who |-> w, item |-> item[w]]))
      <3>1. Unsettling
        BY <1>2, <2>4, Zenon DEF QuietStep
      <3> QED
        BY <1>1, <2>1, <2>2, <2>4, <3>1, StillWork DEF sent
    <2>5. \A failed \in BOOLEAN : (IF failed THEN "fail" ELSE "apply") \in {"apply", "fail"}
      OBVIOUS
    <2> QED
      BY <1>9, <2>3, <2>4, <2>5, Zenon DEF Reports, Settles
  <1>10. ASSUME NEW r \in late, LateArrives(r) PROVE WorkAll'
    <2>1. late' \subseteq late /\ UNCHANGED <<pc, item, ran>>
      BY <1>10, Zenon DEF LateArrives
    <2>2. CASE QuietStep
      BY <1>1, <1>2, <2>1, <2>2, StillWork
    <2>3. CASE r.op \in {"apply", "fail"} /\ r.item \in Items /\ Settles(r.who, r.item)
      <3>1. r.who \in Callers /\ ran[r.item] = 1
        BY <2>3, WorkerAssumption DEF TypeOK, WorkerTypeOK, WorkAll, WorkInv
      <3> QED
        BY <1>1, <2>1, <2>3, <3>1, SettledWork
    <2> QED
      BY <1>10, <2>2, <2>3, LateStep
  <1>11. ASSUME QueueSide PROVE WorkAll'
    <2>1. UNCHANGED <<pc, item, late, ran>>
      BY <1>11, Zenon DEF QueueSide, workerVars
    <2>2. CASE QuietStep
      BY <1>1, <1>2, <2>1, <2>2, StillWork
    <2>3. CASE \E c \in Clients, i \in Items : Settles(c, i)
      BY <1>1, <2>1, <2>3, SettledWork DEF Clients
    <2> QED
      BY <1>11, <2>2, <2>3, QueueSideStep
  <1>12. ASSUME UNCHANGED vars PROVE WorkAll'
    <2>1. QuietStep /\ UNCHANGED <<pc, item, late, ran>>
      BY <1>12, Zenon DEF vars, workerVars, QuietStep
    <2> QED
      BY <1>1, <1>2, <2>1, StillWork
  <1> QED
    BY <1>3, <1>4, <1>5, <1>6, <1>7, <1>8, <1>9, <1>10, <1>11, <1>12, Zenon
    DEF Next, WorkerSide

-------------------------------------------------------------------------------
(* The invariant and what follows from it. *)

LEMMA InitInv == Init => IInv
  BY QueueAssumption DEF Init, QueueInit, IInv, TypeOK, QueueTypeOK, WorkerTypeOK,
     RowInv, RunOnce, WorkInv, OutcomeWasRun

LEMMA NextInv == IInv /\ [Next]_vars => IInv'
  <1> SUFFICES ASSUME IInv, [Next]_vars PROVE IInv'
    OBVIOUS
  <1>1. QueueTypeOK' /\ RowInv'
    BY Steps, RowsKept, Zenon DEF IInv, TypeOK
  <1>2. WorkerTypeOK'
    BY WorkerTypes, Zenon DEF IInv, TypeOK
  <1>3. WorkAll'
    BY WorkKept, Zenon DEF IInv, WorkAll
  <1> QED
    BY <1>1, <1>2, <1>3, Zenon DEF IInv, TypeOK, WorkAll

\* The inductive invariant holds in every reachable state.
THEOREM Invariance == Spec => []IInv
  BY InitInv, NextInv, PTL DEF Spec

\* Rows, waits, workers and requests keep their types.
THEOREM TypeCorrect == Spec => []TypeOK
  BY Invariance, PTL DEF IInv

\* Lapsed claims, late requests and dead workers never make a command run twice.
THEOREM RunsOnce == Spec => []RunOnce
  BY Invariance, PTL DEF IInv

\* An outcome recorded for a worker is that of a run.
THEOREM OutcomesWereRun == Spec => []OutcomeWasRun
  BY Invariance, PTL DEF IInv

LEMMA RunsOnlyStart ==
  ASSUME TypeOK, Next
  PROVE  ran' = ran \/ \E w \in Workers : AcceptAnswered(w)
  BY Zenon DEF Next, WorkerSide, PollAnswered, PollUnconfirmed, AcceptRefused,
     AcceptUnconfirmed, Renews, Reports, WorkerDies, LateArrives, QueueSide, workerVars

\* A producer that was told its work is lost is right: it starts nowhere.
THEOREM LostWaitsFinal == Spec => LostWaitStartsNothing
  <1>1. ASSUME IInv, Next, NEW i \in Items, wait[i] = "work_lease_lost"
        PROVE  ran'[i] = ran[i]
    <2>1. stopped[i]
      BY <1>1 DEF IInv, RowInv
    <2>2. ASSUME NEW w \in Workers, AcceptAnswered(w) PROVE ran'[i] = ran[i]
      BY <2>1, <2>2 DEF AcceptAnswered, mayAccept, IInv, TypeOK, WorkerTypeOK
    <2> QED
      BY <1>1, <2>2, RunsOnlyStart DEF IInv
  <1>2. IInv /\ [Next]_vars =>
          [\A i \in Items : wait[i] = "work_lease_lost" => ran'[i] = ran[i]]_vars
    BY <1>1
  <1> QED
    BY <1>2, Invariance, PTL DEF Spec, LostWaitStartsNothing

\* work_queue_timeout is only said of work nobody has run or is about to run.
THEOREM TimeoutsHonest == Spec => HonestTimeout
  <1>1. ASSUME IInv, Next, NEW i \in Items,
               wait[i] = "waiting", wait'[i] = "work_queue_timeout"
        PROVE  ran[i] = 0 /\ \A w \in Workers : item[w] # i
    <2>1. status[i] = "queued" /\ age[i] = "none"
      <3>1. ASSUME NEW j \in Items, WaitGivesUp(j) PROVE status[i] = "queued" /\ age[i] = "none"
        BY <1>1, <3>1 DEF WaitGivesUp, waitFailure, IInv, TypeOK, QueueTypeOK
      <3>2. ASSUME wait' = wait PROVE FALSE
        BY <1>1, <3>2
      <3>3. ASSUME NEW j \in Items, NEW waits \in BOOLEAN, Enqueue(j, waits) PROVE FALSE
        BY <1>1, <3>3 DEF Enqueue, IInv, TypeOK, QueueTypeOK
      <3>4. ASSUME NEW j \in Items, WaitReturns(j) PROVE FALSE
        BY <1>1, <3>4 DEF WaitReturns, IInv, TypeOK, QueueTypeOK
      <3>5. ASSUME RuntimeDies PROVE FALSE
        BY <1>1, <3>5 DEF RuntimeDies, IInv, TypeOK, QueueTypeOK
      <3>6. QueueStep => \/ wait' = wait \/ RuntimeDies
                         \/ \E j \in Items, waits \in BOOLEAN : Enqueue(j, waits)
                         \/ \E j \in Items : WaitReturns(j) \/ WaitGivesUp(j)
        BY Zenon DEF QueueStep, QuietStep, queueVars, SessionEnds, SessionDeleted, Stop,
           stopItem, Ages, claim, claimNothing, Starts, accepted, Extends, renewed,
           ExtendsScoped, renewedScoped, Settles, completed
      <3> QED
        BY <1>1, <3>1, <3>2, <3>3, <3>4, <3>5, <3>6, Steps, Zenon DEF IInv
    <2>2. ran[i] = 0
      BY <1>1, <2>1 DEF IInv, WorkInv
    <2>3. ASSUME NEW w \in Workers, item[w] = i PROVE FALSE
      BY <1>1, <2>1, <2>3, WorkerAssumption DEF IInv, WorkInv, TypeOK, WorkerTypeOK
    <2> QED
      BY <2>2, <2>3
  <1>2. IInv /\ [Next]_vars =>
          [\A i \in Items :
             wait[i] = "waiting" /\ wait'[i] = "work_queue_timeout"
               => ran[i] = 0 /\ \A w \in Workers : item[w] # i]_vars
    BY <1>1
  <1> QED
    BY <1>2, Invariance, PTL DEF Spec, HonestTimeout

-------------------------------------------------------------------------------
(* Work of a session that has ended. *)

\* The item can no longer be claimed by a worker.
Dead(i) ==
  /\ ran[i] = 0 /\ status[i] # "absent" /\ \A w \in Workers : item[w] # i
  /\ session[owner[i]] = "ended" \/ status[i] = "deleted"

LEMMA DeadStays ==
  ASSUME QueueTypeOK, QueueStep, NEW k \in Items, status[k] # "absent",
         session[owner[k]] = "ended" \/ status[k] = "deleted"
  PROVE  /\ status'[k] # "absent"
         /\ session'[owner'[k]] = "ended" \/ status'[k] = "deleted"
  <1> DEFINE Goal == /\ status'[k] # "absent"
                     /\ session'[owner'[k]] = "ended" \/ status'[k] = "deleted"
  <1> USE DEF QueueTypeOK
  <1>1. ASSUME UNCHANGED queueVars PROVE Goal
    BY <1>1 DEF queueVars, claimVars, markVars
  <1>2. ASSUME NEW i \in Items, NEW waits \in BOOLEAN, Enqueue(i, waits) PROVE Goal
    BY <1>2 DEF Enqueue, claimVars
  <1>3. ASSUME NEW s \in Sessions, SessionEnds(s) PROVE Goal
    BY <1>3 DEF SessionEnds, claimVars, markVars
  <1>4. ASSUME NEW s \in Sessions, SessionDeleted(s) PROVE Goal
    BY <1>4 DEF SessionDeleted, claimVars, markVars
  <1>5. ASSUME NEW s \in Sessions, Stop(s) PROVE Goal
    BY <1>5 DEF Stop, claimVars
  <1>6. ASSUME NEW i \in Items, stopItem(i) PROVE Goal
    BY <1>6 DEF stopItem, claimVars
  <1>7. ASSUME NEW i \in Items, Ages(i) PROVE Goal
    BY <1>7 DEF Ages, markVars, InLease, Unfinished
  <1>8. ASSUME NEW i \in Items, WaitReturns(i) PROVE Goal
    BY <1>8 DEF WaitReturns, claimVars, markVars
  <1>9. ASSUME NEW i \in Items, WaitGivesUp(i) PROVE Goal
    BY <1>9 DEF WaitGivesUp, waitFailure, markVars
  <1>10. ASSUME RuntimeDies PROVE Goal
    BY <1>10 DEF RuntimeDies, claimVars, markVars
  <1>11. ASSUME NEW c \in Callers, NEW i \in Items, NEW scope \in SUBSET Items,
                NEW hint \in Hints, claim(c, i, scope, hint) PROVE Goal
    BY <1>11 DEF claim, Candidates, claimable, Swept, markVars
  <1>12. ASSUME NEW scope \in SUBSET Items,
                NEW hint \in Hints, claimNothing(scope, hint) PROVE Goal
    BY <1>12 DEF claimNothing, Swept, claimVars, markVars
  <1>13. ASSUME NEW i \in Items, Starts(i) PROVE Goal
    BY <1>13 DEF Starts, accepted, claimVars, markVars, InLease, Unfinished
  <1>14. ASSUME NEW c \in Callers, NEW i \in Items, Extends(c, i) PROVE Goal
    BY <1>14 DEF Extends, mayRenew, renewed, markVars, Unfinished
  <1>15. ASSUME NEW c \in Clients \cup {Nobody}, NEW i \in Items, ExtendsScoped(c, i) PROVE Goal
    BY <1>15 DEF ExtendsScoped, mayRenewScoped, renewedScoped, markVars, Unfinished, Clients
  <1>16. ASSUME NEW c \in Callers, NEW i \in Items, Settles(c, i) PROVE Goal
    BY <1>16 DEF Settles, mayComplete, completed, claimVars, markVars, Unfinished
  <1> QED
    BY <1>1, <1>2, <1>3, <1>4, <1>5, <1>6, <1>7, <1>8, <1>9, <1>10, <1>11, <1>12, <1>13, <1>14, <1>15, <1>16, Zenon
    DEF QueueStep, QuietStep

LEMMA DeadKept == \A i \in Items : IInv /\ Dead(i) /\ [Next]_vars => Dead(i)'
  <1> SUFFICES ASSUME NEW i \in Items, IInv, Dead(i), [Next]_vars PROVE Dead(i)'
    OBVIOUS
  <1>1. status'[i] # "absent" /\ (session'[owner'[i]] = "ended" \/ status'[i] = "deleted")
    BY DeadStays, Steps DEF IInv, TypeOK, Dead
  <1>2. ran'[i] = 0
    <2>1. ASSUME NEW w \in Workers, AcceptAnswered(w) PROVE ran'[i] = 0
      BY <2>1 DEF AcceptAnswered, IInv, TypeOK, WorkerTypeOK, Dead
    <2> QED
      BY <2>1, RunsOnlyStart DEF IInv, Dead, vars, workerVars
  <1>3. ASSUME NEW v \in Workers, item'[v] = i PROVE FALSE
    <2>1. ASSUME NEW w \in Workers, NEW k \in Items, becomes(w, "claimed", k), k # i PROVE FALSE
      BY <1>3, <2>1 DEF becomes, IInv, TypeOK, WorkerTypeOK, Dead
    <2>2. ASSUME item' = item PROVE FALSE
      BY <1>3, <2>2 DEF Dead
    <2>3. ASSUME NEW w \in Workers, NEW state, becomes(w, state, 0) PROVE FALSE
      BY <1>3, <2>3, WorkerAssumption DEF becomes, IInv, TypeOK, WorkerTypeOK, Dead
    <2>4. ASSUME NEW w \in Workers, NEW state, becomes(w, state, item[w]) PROVE FALSE
      BY <1>3, <2>4 DEF becomes, IInv, TypeOK, WorkerTypeOK, Dead
    <2>5. ASSUME NEW w \in Workers, NEW scope \in Scopes, NEW k \in scope,
                 claim(w, k, scope, "lease")
          PROVE  k \in Items /\ k # i
      BY <2>5, ScopesAreItems DEF claim, Candidates, claimable, Dead
    <2>6. ASSUME NEW w \in Workers, PollAnswered(w) PROVE FALSE
      <3>1. PICK scope \in Scopes : \E k \in scope :
                   claim(w, k, scope, "lease") /\ becomes(w, "claimed", k)
        BY <2>2, <2>6, Zenon DEF PollAnswered
      <3> QED
        BY <2>1, <2>5, <3>1, Zenon
    <2>7. ASSUME NEW w \in Workers, AcceptAnswered(w) \/ AcceptRefused(w)
                   \/ AcceptUnconfirmed(w) \/ Reports(w) \/ WorkerDies(w)
          PROVE  FALSE
      BY <2>3, <2>4, <2>7, Zenon
      DEF AcceptAnswered, AcceptRefused, AcceptUnconfirmed, Reports, WorkerDies
    <2> QED
      BY <2>2, <2>6, <2>7, Zenon DEF Next, WorkerSide, QueueSide, vars, workerVars,
         PollUnconfirmed, Renews, LateArrives
  <1> QED
    BY <1>1, <1>2, <1>3 DEF Dead

\* Work nobody held when its session ended never runs.
THEOREM EndedNeverRuns == Spec => EndedWorkNeverRuns
  <1>1. ASSUME NEW i \in Items
        PROVE  Spec => [](session[owner[i]] = "ended" /\ status[i] = "queued"
                            /\ age[i] = "none" => [](ran[i] = 0))
    <2> DEFINE Ended == session[owner[i]] = "ended" /\ status[i] = "queued" /\ age[i] = "none"
    <2>1. IInv /\ Ended => Dead(i)
      BY WorkerAssumption DEF IInv, WorkInv, TypeOK, WorkerTypeOK, Dead
    <2>2. IInv /\ Dead(i) /\ [Next]_vars => Dead(i)'
      BY DeadKept
    <2>3. Dead(i) => ran[i] = 0
      BY DEF Dead
    <2>4. Spec => [](Ended => [](ran[i] = 0))
      BY <2>1, <2>2, <2>3, Invariance, PTL DEF Spec
    <2> QED
      BY <2>4
  <1> QED
    BY <1>1 DEF EndedWorkNeverRuns

-------------------------------------------------------------------------------
(* The refinement. *)

chainBy == [i \in Items |-> IF status[i] \in {"absent", "queued", "deleted"} THEN Nobody
                            ELSE holder[i]]

LEMMA ChainStep ==
  QueueTypeOK /\ RowInv /\ QueueStep => [Chain!Next]_<<status, chainBy>>
  <1> DEFINE Chained == [Chain!Next]_<<status, chainBy>>
  <1> SUFFICES ASSUME QueueTypeOK, RowInv, QueueStep PROVE Chained
    OBVIOUS
  <1> USE DEF QueueTypeOK
  <1>a. ASSUME UNCHANGED <<status, holder>> PROVE Chained
    BY <1>a DEF chainBy
  <1>1. ASSUME UNCHANGED queueVars \/ RuntimeDies
                 \/ (\E s \in Sessions : SessionEnds(s) \/ Stop(s))
                 \/ (\E i \in Items : stopItem(i) \/ Ages(i) \/ WaitReturns(i) \/ WaitGivesUp(i))
                 \/ (\E c \in Callers, i \in Items : Extends(c, i))
        PROVE  Chained
    BY <1>1, <1>a, Zenon DEF queueVars, claimVars, RuntimeDies, SessionEnds, Stop, stopItem,
       Ages, WaitReturns, WaitGivesUp, Extends, renewed
  <1>2. ASSUME NEW i \in Items, NEW waits \in BOOLEAN, Enqueue(i, waits) PROVE Chained
    <2>1. Chain!Offer(i)
      BY <1>2 DEF Enqueue, claimVars, Chain!Offer
    <2> QED
      BY <2>1 DEF Chain!Next, chainBy
  <1>3. ASSUME NEW s \in Sessions, SessionDeleted(s) PROVE Chained
    <2>1. PICK S \in SUBSET Items : S = {i \in Items : owner[i] = s /\ status[i] # "absent"}
      OBVIOUS
    <2>2. Chain!Remove(S)
      BY <1>3, <2>1 DEF SessionDeleted, claimVars, markVars, Chain!Remove
    <2> QED
      BY <2>2, Zenon DEF Chain!Next
  <1>4. ASSUME status' = Swept,
               \A i \in Items : holder'[i] = holder[i] \/ status[i] = "queued",
               holder' \in [Items -> Callers \cup {Nobody}]
        PROVE  Chained
    <2>1. PICK S \in SUBSET Items :
            S = {i \in Items : status[i] = "accepted" /\ ~stopped[i] /\ age[i] = "lapsed"}
      OBVIOUS
    <2>2. Chain!Lapse(S)
      BY <1>4, <2>1 DEF Swept, Chain!Lapse
    <2> QED
      BY <2>2, Zenon DEF Chain!Next
  <1>5. ASSUME NEW c \in Callers, NEW i \in Items, NEW scope \in SUBSET Items,
               NEW hint \in Hints, claim(c, i, scope, hint)
        PROVE  Chained
    BY <1>4, <1>5 DEF claim, Candidates, claimable
  <1>6. ASSUME NEW scope \in SUBSET Items, NEW hint \in Hints, claimNothing(scope, hint)
        PROVE  Chained
    BY <1>4, <1>6 DEF claimNothing, claimVars
  <1>7. ASSUME NEW i \in Items, Starts(i) PROVE Chained
    <2>1. CASE status[i] = "queued"
      <3>1. PICK c \in Callers \cup {Nobody} : c = holder[i]
        OBVIOUS
      <3>2. Chain!Commit(i, c)
        BY <1>7, <2>1, <3>1 DEF Starts, accepted, claimVars, Chain!Commit
      <3> QED
        BY <3>2, Zenon DEF Chain!Next
    <2>2. CASE status[i] = "accepted"
      BY <1>7, <1>a, <2>2 DEF Starts, accepted, claimVars
    <2> QED
      BY <1>7, <2>1, <2>2 DEF Starts, Unfinished
  <1>8. ASSUME NEW c \in Clients \cup {Nobody}, NEW i \in Items, ExtendsScoped(c, i)
        PROVE  Chained
    BY <1>8 DEF ExtendsScoped, mayRenewScoped, renewedScoped, RowInv, markVars, Unfinished,
       chainBy
  <1>9. ASSUME NEW c \in Callers, NEW i \in Items, Settles(c, i) PROVE Chained
    <2>1. \E outcome \in {"applied", "failed"} : Chain!Report(i, c, outcome)
      BY <1>9 DEF Settles, mayComplete, completed, claimVars, Unfinished, Chain!Report
    <2> QED
      BY <2>1 DEF Chain!Next
  <1> QED
    BY <1>1, <1>2, <1>3, <1>5, <1>6, <1>7, <1>8, <1>9, Zenon DEF QueueStep, QuietStep

\* Every execution of the queue and its workers is one of WorkChain: work is
\* offered once, committed to once and settled once, by the same caller.
THEOREM Refines == Spec => ChainHolds
  <1>1. Init => Chain!Init
    BY DEF Init, QueueInit, Chain!Init
  <1>2. IInv /\ [Next]_vars => [Chain!Next]_<<status, chainBy>>
    BY Steps, ChainStep DEF IInv, TypeOK
  <1> QED
    BY <1>1, <1>2, Invariance, PTL DEF Spec, ChainHolds, Chain!Spec, chainBy

-----------------------------------------------------------------------------
(* WorkerMemory. *)

MemoryTyped ==
  /\ store \in Trees /\ disk \in Trees /\ known \in Trees /\ based \in Trees
  /\ remote \in [Passes -> Trees]
  /\ writable \in BOOLEAN /\ spoiled \in BOOLEAN
  /\ mount \in {"none", "mounted", "released"}
  /\ at \in [Passes -> {"idle", "listed", "pushing", "relisted"}]
  /\ todo \in [Passes -> SUBSET Paths] /\ foreign \subseteq Paths
  /\ writes \in Contents /\ edits \subseteq Contents /\ uploaded \subseteq Contents
  /\ lost \subseteq Contents

\* Every content in sight has been written, so the next one is new.
Written ==
  /\ \A p \in Paths : store[p] =< writes /\ disk[p] =< writes /\ known[p] =< writes
  /\ \A t \in Passes, p \in Paths : remote[t][p] =< writes
  /\ \A c \in edits : c =< writes

\* An edit that is in the store, or in a listing of it, was uploaded.
unsaved == edits \ uploaded

Sourced ==
  /\ \A p \in Paths : store[p] \notin unsaved /\ known[p] \notin unsaved
  /\ \A t \in Passes, p \in Paths : remote[t][p] \notin unsaved

PassInMount == \A t \in Passes : at[t] # "idle" => mount = "mounted"

\* The last pass of the exit met none in flight.
OnePass == at["tick"] = "idle" \/ at["exit"] = "idle"

\* Content a of the path is b, where the worker left it, or another client's.
Theirs(p, a, b) == a = b \/ (p \in foreign /\ a \notin edits)

\* Between passes the baseline follows the store, in a pass its listing.
Baseline ==
  mount = "mounted" => \A p \in Paths :
    /\ (\A t \in Passes : at[t] = "idle") => Theirs(p, store[p], known[p])
    /\ \A t \in Passes :
         /\ at[t] = "listed" => Theirs(p, remote[t][p], known[p]) /\ Theirs(p, store[p], remote[t][p])
         /\ at[t] = "pushing" => known[p] = remote[t][p]
         /\ at[t] = "pushing" /\ p \in todo[t] => Theirs(p, store[p], remote[t][p])
         /\ at[t] = "relisted" => Theirs(p, store[p], remote[t][p])

\* A file that the last pass has looked at is saved, or another client's
\* version prevails.
Settled ==
  writable => \A p \in Paths :
    at["exit"] \in {"pushing", "relisted"} /\ (at["exit"] = "pushing" => p \notin todo["exit"]) =>
      disk[p] \notin unsaved \/ (p \in foreign /\ store[p] \notin edits)

\* What holds whatever failed.
Grounded == MemoryTyped /\ Written /\ Sourced /\ (mount = "none" => edits = {})

\* What holds until a request fails, or the exit meets a pass in flight.
Unspoiled == lost = {} /\ PassInMount /\ OnePass /\ Baseline /\ Settled

MemoryInv == Grounded /\ (~ spoiled => Unspoiled)

LEMMA Contained ==
  /\ Contents \subseteq Nat /\ Absent \notin Contents /\ Absent \in Nat /\ 1 \in Contents
  /\ \A w \in Contents : w < MaxWrites => w + 1 \in Contents
  /\ Passes = {"tick", "exit"}
  BY MemoryAssumption DEF Contents, Absent, Passes

LEMMA TreesAre ==
  ASSUME NEW f \in Trees
  PROVE  /\ \A p \in Paths : f[p] \in Contents \cup {Absent} /\ f[p] \in Nat
         /\ \A p \in Paths, c \in Contents \cup {Absent} :
              /\ [f EXCEPT ![p] = c] \in Trees
              /\ \A q \in Paths : [f EXCEPT ![p] = c][q] = IF q = p THEN c ELSE f[q]
  BY Contained DEF Trees

\* A tree in which one path changed.
LEMMA Changed ==
  ASSUME NEW f \in Trees, NEW p \in Paths, NEW c \in Contents \cup {Absent}
  PROVE  /\ [f EXCEPT ![p] = c] \in Trees
         /\ \A q \in Paths : [f EXCEPT ![p] = c][q] = IF q = p THEN c ELSE f[q]
  BY TreesAre

LEMMA Emptied == Empty \in Trees /\ \A p \in Paths : Empty[p] = Absent
  BY DEF Empty, Trees

LEMMA PulledTyped ==
  ASSUME MemoryTyped, NEW t \in Passes
  PROVE  /\ pulled(t) \in Trees
         /\ \A p \in Paths : pulled(t)[p] = IF kept(t, p) THEN disk[p] ELSE remote[t][p]
<1>1. \A p \in Paths : disk[p] \in Contents \cup {Absent} /\ remote[t][p] \in Contents \cup {Absent}
  BY TreesAre DEF MemoryTyped
<1>2. QED
  BY <1>1 DEF pulled, Trees

\* What the parts say of one path.
GroundedFacts(p) ==
  /\ store[p] \in Contents \cup {Absent} /\ disk[p] \in Contents \cup {Absent}
  /\ known[p] \in Contents \cup {Absent} /\ based[p] \in Contents \cup {Absent}
  /\ store[p] \in Nat /\ disk[p] \in Nat /\ known[p] \in Nat /\ writes \in Nat
  /\ store[p] =< writes /\ disk[p] =< writes /\ known[p] =< writes
  /\ store[p] \notin unsaved /\ known[p] \notin unsaved
  /\ \A t \in Passes : /\ remote[t] \in Trees
                       /\ remote[t][p] \in Contents \cup {Absent} /\ remote[t][p] \in Nat
                       /\ remote[t][p] =< writes /\ remote[t][p] \notin unsaved

LEMMA GroundedAt ==
  ASSUME Grounded, NEW p \in Paths
  PROVE  GroundedFacts(p)
<1>1. MemoryTyped /\ Written /\ Sourced
  BY DEF Grounded
<1>2. store \in Trees /\ disk \in Trees /\ known \in Trees /\ based \in Trees
      /\ \A t \in Passes : remote[t] \in Trees
  BY <1>1 DEF MemoryTyped
<1>3. /\ store[p] \in Contents \cup {Absent} /\ disk[p] \in Contents \cup {Absent}
      /\ known[p] \in Contents \cup {Absent} /\ based[p] \in Contents \cup {Absent}
      /\ store[p] \in Nat /\ disk[p] \in Nat /\ known[p] \in Nat
      /\ \A t \in Passes : remote[t][p] \in Contents \cup {Absent} /\ remote[t][p] \in Nat
  BY <1>2, TreesAre
<1>4. writes \in Nat
  BY <1>1, Contained DEF MemoryTyped
<1>5. QED
  BY <1>1, <1>2, <1>3, <1>4 DEF Written, Sourced, GroundedFacts

\* To be grounded, path by path.
LEMMA GroundedNext ==
  ASSUME MemoryTyped', mount' = "none" => edits' = {},
         \A c \in edits' : c =< writes',
         \A p \in Paths : /\ store'[p] =< writes' /\ disk'[p] =< writes' /\ known'[p] =< writes'
                          /\ store'[p] \notin unsaved' /\ known'[p] \notin unsaved',
         \A t \in Passes : \A p \in Paths : remote'[t][p] =< writes' /\ remote'[t][p] \notin unsaved'
  PROVE  Grounded'
  BY DEF Grounded, Written, Sourced

LEMMA WritesGrounded ==
  ASSUME Grounded, NEW p \in Paths, AgentWrites(p) \/ AgentDeletes(p) \/ ClientWrites(p) \/ ClientDeletes(p)
  PROVE  Grounded'
<1>1. MemoryTyped /\ Written /\ Sourced
  BY DEF Grounded
<1>2. \A t \in Passes : remote[t] \in Trees
  BY <1>1 DEF MemoryTyped
<1>3. \A q \in Paths : GroundedFacts(q)
  BY GroundedAt DEF GroundedFacts
<1>4. /\ known' = known /\ remote' = remote /\ uploaded' = uploaded /\ mount' = mount
      /\ UNCHANGED <<based, writable, spoiled, at, todo, lost>>
  BY DEF AgentWrites, AgentDeletes, ClientWrites, ClientDeletes, diskVars, passVars, editVars, pastVars
<1>5. /\ writes' = writes \/ (writes < MaxWrites /\ writes' = writes + 1)
      /\ edits' = edits \/ (edits' = edits \cup {writes + 1} /\ writes' = writes + 1 /\ mount = "mounted"
                            /\ store' = store)
      /\ foreign' = foreign \/ foreign' = foreign \cup {p}
      /\ \/ store' = store
         \/ store' = [store EXCEPT ![p] = writes + 1] /\ writes' = writes + 1 /\ edits' = edits
         \/ store' = [store EXCEPT ![p] = Absent] /\ edits' = edits
      /\ \/ disk' = disk
         \/ disk' = [disk EXCEPT ![p] = writes + 1] /\ writes' = writes + 1
         \/ disk' = [disk EXCEPT ![p] = Absent]
  BY DEF AgentWrites, AgentDeletes, ClientWrites, ClientDeletes, diskVars, passVars, editVars, pastVars,
         touched, working
<1>6. writes \in Nat /\ writes \in Contents /\ writes' \in Contents /\ writes' \in Nat /\ writes =< writes'
      /\ (writes' = writes + 1 => writes + 1 \in Contents)
  BY <1>1, <1>5, Contained DEF MemoryTyped
<1>7. store' \in Trees /\ disk' \in Trees
  <2>1. store \in Trees /\ disk \in Trees
    BY <1>1 DEF MemoryTyped
  <2>2. store' = store \/ \E c \in Contents \cup {Absent} : store' = [store EXCEPT ![p] = c]
    BY <1>5, <1>6
  <2>3. disk' = disk \/ \E c \in Contents \cup {Absent} : disk' = [disk EXCEPT ![p] = c]
    BY <1>5, <1>6
  <2>4. QED
    BY <2>1, <2>2, <2>3, Changed
<1>8. MemoryTyped'
  BY <1>1, <1>4, <1>5, <1>6, <1>7 DEF MemoryTyped
<1>9. mount' = "none" => edits' = {}
  BY <1>4, <1>5 DEF Grounded
<1>10. \A c \in edits' : c =< writes'
  <2>1. \A c \in edits : c =< writes /\ c \in Nat
    BY <1>1, Contained DEF Written, MemoryTyped
  <2>2. CASE edits' = edits
    BY <1>5, <1>6, <2>1, <2>2
  <2>3. CASE edits' = edits \cup {writes + 1} /\ writes' = writes + 1
    BY <1>6, <2>1, <2>3
  <2>4. QED
    BY <1>5, <2>2, <2>3
<1>11. \A c \in Nat : c =< writes /\ c \notin unsaved => c \notin unsaved'
  BY <1>4, <1>5, <1>6 DEF unsaved
<1>12. ASSUME NEW q \in Paths
       PROVE  /\ store'[q] =< writes' /\ disk'[q] =< writes' /\ known'[q] =< writes'
              /\ store'[q] \notin unsaved' /\ known'[q] \notin unsaved'
  <2>1. \/ store'[q] = store[q]
        \/ store'[q] = writes + 1 /\ writes' = writes + 1 /\ edits' = edits
        \/ store'[q] = Absent
    <3>1. store \in Trees /\ Absent \in Contents \cup {Absent}
      BY <1>1 DEF MemoryTyped
    <3>2. \A c \in Contents \cup {Absent} :
            [store EXCEPT ![p] = c][q] = IF q = p THEN c ELSE store[q]
      BY <3>1 DEF Trees
    <3>3. CASE store' = store
      BY <3>3
    <3>4. CASE store' = [store EXCEPT ![p] = writes + 1] /\ writes' = writes + 1 /\ edits' = edits
      BY <1>6, <3>2, <3>4
    <3>5. CASE store' = [store EXCEPT ![p] = Absent]
      BY <3>2, <3>5
    <3>6. QED
      BY <1>5, <3>3, <3>4, <3>5
  <2>2. disk'[q] = disk[q] \/ (disk'[q] = writes + 1 /\ writes' = writes + 1) \/ disk'[q] = Absent
    <3>1. disk \in Trees /\ Absent \in Contents \cup {Absent}
      BY <1>1 DEF MemoryTyped
    <3>2. \A c \in Contents \cup {Absent} :
            [disk EXCEPT ![p] = c][q] = IF q = p THEN c ELSE disk[q]
      BY <3>1 DEF Trees
    <3>3. CASE disk' = disk
      BY <3>3
    <3>4. CASE disk' = [disk EXCEPT ![p] = writes + 1] /\ writes' = writes + 1
      BY <1>6, <3>2, <3>4
    <3>5. CASE disk' = [disk EXCEPT ![p] = Absent]
      BY <3>2, <3>5
    <3>6. QED
      BY <1>5, <3>3, <3>4, <3>5
  <2>3. GroundedFacts(q)
    BY <1>3
  <2>4. store'[q] =< writes' /\ disk'[q] =< writes' /\ known'[q] =< writes'
    <3>1. /\ store[q] =< writes /\ disk[q] =< writes /\ known[q] =< writes
          /\ store[q] \in Nat /\ disk[q] \in Nat /\ known[q] \in Nat
      BY <2>3 DEF GroundedFacts
    <3>2. Absent =< writes'
      BY <1>6 DEF Absent
    <3>3. store'[q] =< writes'
      BY <1>6, <2>1, <3>1, <3>2
    <3>4. disk'[q] =< writes'
      BY <1>6, <2>2, <3>1, <3>2
    <3>5. known'[q] =< writes'
      BY <1>4, <1>6, <3>1
    <3>6. QED
      BY <3>3, <3>4, <3>5
  <2>5. known'[q] \notin unsaved'
    BY <1>4, <1>11, <2>3 DEF GroundedFacts
  <2>6. store'[q] \notin unsaved'
    <3>1. CASE store'[q] = store[q]
      BY <1>11, <2>3, <3>1 DEF GroundedFacts
    <3>2. CASE store'[q] = writes + 1 /\ edits' = edits
      BY <1>1, <1>4, <1>6, <3>2, Contained DEF Written, unsaved, MemoryTyped
    <3>3. CASE store'[q] = Absent
      BY <1>8, <3>3, Contained DEF MemoryTyped, unsaved
    <3>4. QED
      BY <2>1, <3>1, <3>2, <3>3
  <2>7. QED
    BY <2>4, <2>5, <2>6
<1>13. \A t \in Passes : \A q \in Paths : remote'[t][q] =< writes' /\ remote'[t][q] \notin unsaved'
  <2>1. SUFFICES ASSUME NEW t \in Passes, NEW q \in Paths
                 PROVE  remote'[t][q] =< writes' /\ remote'[t][q] \notin unsaved'
    OBVIOUS
  <2>2. remote'[t][q] = remote[t][q] /\ GroundedFacts(q)
    BY <1>3, <1>4
  <2>3. QED
    BY <1>6, <1>11, <2>2 DEF GroundedFacts
<1>14. QED
  BY <1>8, <1>9, <1>10, <1>12, <1>13, GroundedNext

\* A step of a pass brings no content that was not there, and what it puts in
\* the store counts as uploaded.
LEMMA PassGrounded ==
  ASSUME Grounded, MemoryTyped', writes' = writes, edits' = edits, uploaded \subseteq uploaded',
         mount' = "none" => mount = "none",
         \A p \in Paths :
           /\ store'[p] = store[p] \/ (store'[p] = disk[p] /\ disk[p] \in uploaded')
           /\ \/ disk'[p] \in {disk[p], Absent, store[p]}
              \/ \E t \in Passes : disk'[p] = remote[t][p]
           /\ known'[p] \in {known[p], store[p]} \/ \E t \in Passes : known'[p] = remote[t][p],
         \A t \in Passes : \A p \in Paths : remote'[t][p] \in {remote[t][p], store[p], Absent}
  PROVE  Grounded'
<1>1. \A c : c \notin unsaved => c \notin unsaved'
  BY DEF unsaved
<1>2. \A p \in Paths : GroundedFacts(p)
  BY GroundedAt
<1>3. Absent =< writes /\ Absent \notin unsaved' /\ Absent \notin unsaved
  BY Contained DEF Grounded, MemoryTyped, unsaved, Absent
<1>4. mount' = "none" => edits' = {}
  BY DEF Grounded
<1>5. \A c \in edits' : c =< writes'
  BY DEF Grounded, Written
<1>6. ASSUME NEW p \in Paths
      PROVE  /\ store'[p] =< writes' /\ disk'[p] =< writes' /\ known'[p] =< writes'
             /\ store'[p] \notin unsaved' /\ known'[p] \notin unsaved'
  <2>1. GroundedFacts(p)
    BY <1>2
  <2>2. store'[p] =< writes' /\ disk'[p] =< writes' /\ known'[p] =< writes'
    BY <1>3, <2>1 DEF GroundedFacts
  <2>3. store'[p] \notin unsaved'
    BY <1>1, <2>1 DEF GroundedFacts, unsaved
  <2>4. known'[p] \notin unsaved'
    BY <1>1, <2>1 DEF GroundedFacts
  <2>5. QED
    BY <2>2, <2>3, <2>4
<1>7. \A t \in Passes : \A p \in Paths : remote'[t][p] =< writes' /\ remote'[t][p] \notin unsaved'
  BY <1>1, <1>2, <1>3 DEF GroundedFacts
<1>8. QED
  BY <1>4, <1>5, <1>6, <1>7, GroundedNext

\* A listing, an empty one when the pass is over, is of this pass only.
LEMMA Listed ==
  ASSUME MemoryTyped, NEW t \in Passes, NEW list \in Trees, NEW state \in {"idle", "listed", "pushing", "relisted"}
  PROVE  /\ [remote EXCEPT ![t] = list] \in [Passes -> Trees]
         /\ \A u \in Passes : [remote EXCEPT ![t] = list][u] = IF u = t THEN list ELSE remote[u]
         /\ [at EXCEPT ![t] = state] \in [Passes -> {"idle", "listed", "pushing", "relisted"}]
         /\ \A u \in Passes : [at EXCEPT ![t] = state][u] = IF u = t THEN state ELSE at[u]
  BY DEF MemoryTyped

\* The worklist of one pass changes.
LEMMA Worklist ==
  ASSUME MemoryTyped, NEW t \in Passes, NEW rest \in SUBSET Paths
  PROVE  /\ [todo EXCEPT ![t] = rest] \in [Passes -> SUBSET Paths]
         /\ \A u \in Passes : [todo EXCEPT ![t] = rest][u] = IF u = t THEN rest ELSE todo[u]
  BY DEF MemoryTyped

LEMMA MountGrounded ==
  ASSUME Grounded, mountOne
  PROVE  Grounded'
<1>1. MemoryTyped
  BY DEF Grounded
<1>2. MemoryTyped'
  BY <1>1 DEF mountOne, MemoryTyped, passVars, editVars, pastVars
<1>3. QED
  BY <1>2, PassGrounded DEF mountOne, passVars, editVars, pastVars

LEMMA ListGrounded ==
  ASSUME Grounded, NEW t \in Passes, Start(t) \/ Relist(t)
  PROVE  Grounded'
<1>1. MemoryTyped
  BY DEF Grounded
<1>2. /\ remote' = [remote EXCEPT ![t] = store]
      /\ UNCHANGED <<store, writable, mount, disk, known, based, todo, writes, edits, uploaded, lost, foreign>>
      /\ \E state \in {"listed", "relisted"} : at' = [at EXCEPT ![t] = state]
      /\ spoiled' \in BOOLEAN
  BY <1>1 DEF Start, Relist, listRemoteMemories, enter, diskVars, editVars, pastVars, MemoryTyped
<1>3. \A u \in Passes : remote'[u] = IF u = t THEN store ELSE remote[u]
  BY <1>1, <1>2, Listed DEF MemoryTyped
<1>4. MemoryTyped'
  BY <1>1, <1>2, Listed DEF MemoryTyped
<1>5. QED
  BY <1>2, <1>3, <1>4, PassGrounded

LEMMA PullGrounded ==
  ASSUME Grounded, NEW t \in Passes, pullRemoteState(t)
  PROVE  Grounded'
<1>1. MemoryTyped
  BY DEF Grounded
<1>2. /\ at' = [at EXCEPT ![t] = "pushing"] /\ disk' = pulled(t) /\ known' = remote[t]
      /\ based' = [p \in Paths |-> IF kept(t, p) THEN based[p] ELSE remote[t][p]]
      /\ todo' = [todo EXCEPT ![t] = {p \in Paths : writable /\ pulled(t)[p] # Absent}]
      /\ UNCHANGED <<store, writable, mount, remote, writes, edits, uploaded, spoiled, foreign>>
  BY DEF pullRemoteState, enter, editVars
<1>3. lost' \subseteq Contents
  <2>1. \A p \in Paths : sacrificed(p, remote[t][p]) => disk[p] \in Contents
    BY <1>1 DEF sacrificed, MemoryTyped
  <2>2. QED
    BY <1>1, <2>1 DEF pullRemoteState, MemoryTyped
<1>4. based' \in Trees
  BY <1>1, <1>2 DEF MemoryTyped, Trees
<1>5. MemoryTyped'
  BY <1>1, <1>2, <1>3, <1>4, PulledTyped, Listed, Worklist DEF MemoryTyped
<1>6. \A p \in Paths : disk'[p] = disk[p] \/ disk'[p] = remote[t][p]
  BY <1>1, <1>2, PulledTyped
<1>7. QED
  BY <1>2, <1>5, <1>6, PassGrounded

LEMMA FileGrounded ==
  ASSUME Grounded, NEW t \in Passes, NEW p \in Paths, Skip(t, p) \/ Upload(t, p) \/ UploadFails(t, p)
  PROVE  Grounded'
<1>1. MemoryTyped
  BY DEF Grounded
<1>2. /\ todo' = [todo EXCEPT ![t] = @ \ {p}]
      /\ UNCHANGED <<writable, mount, disk, known, at, remote, writes, edits, lost, foreign>>
      /\ spoiled' \in BOOLEAN
  BY <1>1 DEF Skip, Upload, UploadFails, next, editVars, MemoryTyped
<1>3. \/ UNCHANGED <<store, based, uploaded>>
      \/ /\ disk[p] # Absent
         /\ store' = [store EXCEPT ![p] = disk[p]] /\ based' = [based EXCEPT ![p] = disk[p]]
         /\ uploaded' = uploaded \cup {disk[p]}
  BY DEF Skip, Upload, UploadFails, outgoing
<1>4. disk[p] \in Contents \cup {Absent} /\ store \in Trees /\ based \in Trees
  BY <1>1, TreesAre DEF MemoryTyped
<1>5. /\ store' \in Trees /\ based' \in Trees /\ uploaded' \subseteq Contents /\ uploaded \subseteq uploaded'
      /\ \A q \in Paths : store'[q] = store[q] \/ (store'[q] = disk[q] /\ disk[q] \in uploaded')
  <2>1. CASE UNCHANGED <<store, based, uploaded>>
    BY <1>1, <2>1 DEF MemoryTyped
  <2>2. CASE /\ disk[p] # Absent
             /\ store' = [store EXCEPT ![p] = disk[p]] /\ based' = [based EXCEPT ![p] = disk[p]]
             /\ uploaded' = uploaded \cup {disk[p]}
    <3>1. store' \in Trees /\ based' \in Trees
      BY <1>4, <2>2, Changed
    <3>2. \A q \in Paths : store'[q] = IF q = p THEN disk[p] ELSE store[q]
      BY <1>4, <2>2 DEF Trees
    <3>3. uploaded' \subseteq Contents
      BY <1>1, <1>4, <2>2 DEF MemoryTyped
    <3>4. QED
      BY <2>2, <3>1, <3>2, <3>3
  <2>3. QED
    BY <1>3, <2>1, <2>2
<1>6. todo' \in [Passes -> SUBSET Paths]
  BY <1>1, <1>2 DEF MemoryTyped
<1>7. MemoryTyped'
  BY <1>1, <1>2, <1>5, <1>6 DEF MemoryTyped
<1>8. QED
  BY <1>2, <1>5, <1>7, PassGrounded

LEMMA EndGrounded ==
  ASSUME Grounded, NEW t \in Passes, Done(t) \/ PassFails(t)
  PROVE  Grounded'
<1>1. MemoryTyped
  BY DEF Grounded
<1>2. /\ at' = [at EXCEPT ![t] = "idle"] /\ todo' = [todo EXCEPT ![t] = {}]
      /\ remote' = [remote EXCEPT ![t] = Empty]
      /\ UNCHANGED <<store, writable, based, writes, edits, uploaded, foreign>>
      /\ spoiled' \in BOOLEAN
      /\ known' = known \/ known' = remote[t]
      /\ mount' = mount \/ mount' = "released"
      /\ disk' = disk \/ disk' = Empty
  BY <1>1 DEF Done, PassFails, rebase, ends, enter, editVars, MemoryTyped
<1>3. lost' \subseteq Contents
  <2>1. \A p \in Paths : sacrificed(p, store[p]) => disk[p] \in Contents
    BY <1>1 DEF sacrificed, MemoryTyped
  <2>2. lost' = lost \/ lost' = lost \cup {disk[p] : p \in {q \in Paths : sacrificed(q, store[q])}}
    BY DEF Done, PassFails, ends
  <2>3. QED
    BY <1>1, <2>1, <2>2 DEF MemoryTyped
<1>4. \A u \in Passes : remote'[u] = IF u = t THEN Empty ELSE remote[u]
  BY <1>1, <1>2, Listed, Emptied
<1>5. MemoryTyped'
  BY <1>1, <1>2, <1>3, Listed, Worklist, Emptied DEF MemoryTyped
<1>6. QED
  BY <1>2, <1>4, <1>5, Emptied, PassGrounded

-----------------------------------------------------------------------------
(* Until something is spoiled. *)

TheirsNext(p, a, b) == a = b \/ (p \in foreign' /\ a \notin edits')

LEMMA BaselineNext ==
  ASSUME mount' = "mounted" => \A p \in Paths :
           /\ (\A t \in Passes : at'[t] = "idle") => TheirsNext(p, store'[p], known'[p])
           /\ \A t \in Passes :
                /\ at'[t] = "listed" => /\ TheirsNext(p, remote'[t][p], known'[p])
                                        /\ TheirsNext(p, store'[p], remote'[t][p])
                /\ at'[t] = "pushing" => known'[p] = remote'[t][p]
                /\ at'[t] = "pushing" /\ p \in todo'[t] => TheirsNext(p, store'[p], remote'[t][p])
                /\ at'[t] = "relisted" => TheirsNext(p, store'[p], remote'[t][p])
  PROVE  Baseline'
  BY DEF Baseline, Theirs, TheirsNext

LEMMA SettledNext ==
  ASSUME writable' => \A p \in Paths :
           at'["exit"] \in {"pushing", "relisted"} /\ (at'["exit"] = "pushing" => p \notin todo'["exit"]) =>
             disk'[p] \notin unsaved' \/ (p \in foreign' /\ store'[p] \notin edits')
  PROVE  Settled'
  BY DEF Settled, unsaved

LEMMA Exits == "exit" \in Passes /\ "tick" \in Passes /\ \A t \in Passes : t = "tick" \/ t = "exit"
  BY DEF Passes

\* What one pass finds of its path.
BaselineFacts(t, p) ==
  /\ (\A u \in Passes : at[u] = "idle") => Theirs(p, store[p], known[p])
  /\ at[t] = "listed" => Theirs(p, remote[t][p], known[p]) /\ Theirs(p, store[p], remote[t][p])
  /\ at[t] = "pushing" => known[p] = remote[t][p]
  /\ at[t] = "pushing" /\ p \in todo[t] => Theirs(p, store[p], remote[t][p])
  /\ at[t] = "relisted" => Theirs(p, store[p], remote[t][p])

LEMMA BaselineAt ==
  ASSUME Unspoiled, mount = "mounted"
  PROVE  \A t \in Passes : \A p \in Paths : BaselineFacts(t, p)
  BY DEF Unspoiled, Baseline, BaselineFacts

\* In a pass the store is mounted and the other pass rests.
LEMMA Alone ==
  ASSUME Unspoiled, NEW t \in Passes, at[t] # "idle"
  PROVE  mount = "mounted" /\ \A u \in Passes : u # t => at[u] = "idle"
  BY Exits DEF Unspoiled, PassInMount, OnePass

LEMMA WritesSafe ==
  ASSUME Grounded, Unspoiled, NEW p \in Paths,
         AgentWrites(p) \/ AgentDeletes(p) \/ ClientWrites(p) \/ ClientDeletes(p)
  PROVE  Unspoiled'
<1>1. MemoryTyped /\ Written
  BY DEF Grounded
<1>2. UNCHANGED <<known, remote, uploaded, mount, writable, at, todo, lost>>
  BY DEF AgentWrites, AgentDeletes, ClientWrites, ClientDeletes, diskVars, passVars, editVars, pastVars
<1>3. \A c \in edits : c =< writes /\ c \in Nat /\ c # Absent
  BY <1>1, Contained DEF Written, MemoryTyped
<1>4. writes \in Nat /\ Absent \in Nat /\ store \in Trees
  BY <1>1, Contained DEF MemoryTyped
\* An agent writes what is new.
<1>5. /\ edits' = edits \/ edits' = edits \cup {writes + 1}
      /\ foreign \subseteq foreign'
  BY DEF AgentWrites, AgentDeletes, ClientWrites, ClientDeletes, touched, editVars
\* A client writes what is new, or removes, and is remembered.
<1>6. ASSUME mount = "mounted", NEW q \in Paths
      PROVE  store'[q] = store[q] \/ (q \in foreign' /\ store'[q] \notin edits')
  <2>1. CASE store' = store
    BY <2>1
  <2>2. ASSUME NEW c \in {writes + 1, Absent}, store' = [store EXCEPT ![p] = c],
               edits' = edits, p \in foreign'
        PROVE  store'[q] = store[q] \/ (q \in foreign' /\ store'[q] \notin edits')
    <3>1. store'[q] = IF q = p THEN c ELSE store[q]
      BY <1>4, <2>2 DEF Trees
    <3>2. c \notin edits
      BY <1>3, <1>4
    <3>3. QED
      BY <2>2, <3>1, <3>2
  <2>3. CASE ClientWrites(p)
    BY <1>6, <2>2, <2>3 DEF ClientWrites, touched
  <2>4. CASE ClientDeletes(p)
    BY <1>6, <2>2, <2>4 DEF ClientDeletes, touched, editVars
  <2>5. QED
    BY <2>1, <2>3, <2>4 DEF AgentWrites, AgentDeletes
<1>7. ASSUME NEW q \in Paths, NEW a \in Nat, a =< writes, NEW b, Theirs(q, a, b)
      PROVE  TheirsNext(q, a, b)
  <2>1. a # writes + 1
    BY <1>4, <1>7
  <2>2. QED
    BY <1>5, <1>7, <2>1 DEF Theirs, TheirsNext
<1>8. ASSUME mount = "mounted", NEW q \in Paths, NEW b, Theirs(q, store[q], b)
      PROVE  TheirsNext(q, store'[q], b)
  <2>1. store[q] \in Nat /\ store[q] =< writes
    BY GroundedAt DEF GroundedFacts
  <2>2. TheirsNext(q, store[q], b)
    BY <1>7, <1>8, <2>1
  <2>3. QED
    BY <1>6, <1>8, <2>2 DEF TheirsNext
<1>9. Baseline'
  <2>1. ASSUME mount = "mounted", NEW t \in Passes, NEW q \in Paths
        PROVE  /\ (\A u \in Passes : at[u] = "idle") => TheirsNext(q, store'[q], known[q])
               /\ at[t] = "listed" => TheirsNext(q, remote[t][q], known[q]) /\ TheirsNext(q, store'[q], remote[t][q])
               /\ at[t] = "pushing" => known[q] = remote[t][q]
               /\ at[t] = "pushing" /\ q \in todo[t] => TheirsNext(q, store'[q], remote[t][q])
               /\ at[t] = "relisted" => TheirsNext(q, store'[q], remote[t][q])
    <3>1. BaselineFacts(t, q)
      BY <2>1, BaselineAt
    <3>2. remote[t][q] \in Nat /\ remote[t][q] =< writes
      BY GroundedAt DEF GroundedFacts
    <3>3. QED
      BY <1>7, <1>8, <2>1, <3>1, <3>2 DEF BaselineFacts
  <2>2. QED
    BY <1>2, <2>1, BaselineNext, Exits
<1>10. Settled'
  <2>1. SUFFICES ASSUME writable, NEW q \in Paths, at["exit"] \in {"pushing", "relisted"},
                        at["exit"] = "pushing" => q \notin todo["exit"]
                 PROVE  disk'[q] \notin unsaved' \/ (q \in foreign' /\ store'[q] \notin edits')
    BY <1>2, SettledNext
  <2>2. disk[q] \notin unsaved \/ (q \in foreign /\ store[q] \notin edits)
    BY <2>1 DEF Unspoiled, Settled
  <2>3. mount = "mounted" /\ exiting
    BY <2>1, Exits DEF Unspoiled, PassInMount, exiting
  <2>4. disk' = disk /\ edits' = edits
    BY <2>3 DEF AgentWrites, AgentDeletes, ClientWrites, ClientDeletes, working, diskVars, editVars
  <2>5. unsaved' = unsaved
    BY <1>2, <2>4 DEF unsaved
  <2>6. QED
    BY <1>5, <1>6, <2>2, <2>3, <2>4, <2>5
<1>11. QED
  BY <1>2, <1>9, <1>10 DEF Unspoiled, PassInMount, OnePass

LEMMA MountSafe ==
  ASSUME Grounded, Unspoiled, mountOne
  PROVE  Unspoiled'
<1>1. /\ \A t \in Passes : at[t] = "idle"
      /\ UNCHANGED <<at, lost, store, writable>> /\ known' = store
  BY DEF mountOne, passVars, pastVars, Unspoiled, PassInMount
<1>2. Baseline'
  BY <1>1, BaselineNext DEF TheirsNext
<1>3. Settled'
  BY <1>1, SettledNext, Exits
<1>4. QED
  BY <1>1, <1>2, <1>3, Exits DEF Unspoiled, PassInMount, OnePass

LEMMA StartSafe ==
  ASSUME Grounded, Unspoiled, NEW t \in Passes, Start(t), ~ spoiled'
  PROVE  Unspoiled'
<1>1. /\ mount = "mounted" /\ at["exit"] = "idle" /\ (t = "exit" => at["tick"] = "idle") /\ at[t] = "idle"
      /\ at' = [at EXCEPT ![t] = "listed"] /\ remote' = [remote EXCEPT ![t] = store]
      /\ UNCHANGED <<store, writable, mount, known, edits, lost, foreign>>
  BY DEF Start, working, exiting, listRemoteMemories, enter, diskVars, editVars
<1>2. MemoryTyped
  BY DEF Grounded
<1>3. \A u \in Passes : at[u] = "idle"
  BY <1>1, Exits
<1>4. \A u \in Passes : at'[u] = (IF u = t THEN "listed" ELSE "idle") /\ (u = t => remote'[u] = store)
  BY <1>1, <1>2, <1>3, Listed DEF MemoryTyped
<1>5. \A p \in Paths : Theirs(p, store[p], known[p])
  BY <1>1, <1>3, BaselineAt DEF BaselineFacts
<1>6. Baseline'
  BY <1>1, <1>4, <1>5, BaselineNext DEF Theirs, TheirsNext
<1>7. Settled'
  BY <1>4, Exits, SettledNext
<1>8. QED
  BY <1>1, <1>4, <1>6, <1>7, Exits DEF Unspoiled, PassInMount, OnePass

\* A pull takes no edit that it should have kept.
LEMMA PullSpares ==
  ASSUME Grounded, Unspoiled, NEW t \in Passes, at[t] = "listed", NEW p \in Paths, ~ kept(t, p)
  PROVE  disk[p] = remote[t][p] \/ ~ sacrificed(p, remote[t][p])
<1>1. SUFFICES ASSUME disk[p] # remote[t][p], sacrificed(p, remote[t][p])
               PROVE  FALSE
  OBVIOUS
<1>2. disk[p] \in unsaved /\ (remote[t][p] \in edits \/ p \notin foreign)
  BY <1>1 DEF sacrificed, unsaved
<1>3. BaselineFacts(t, p) /\ GroundedFacts(p)
  BY Alone, BaselineAt, GroundedAt
<1>4. remote[t][p] = known[p]
  BY <1>2, <1>3 DEF BaselineFacts, Theirs
<1>5. disk[p] \in {Absent, known[p]}
  BY <1>4 DEF kept
<1>6. Absent \notin unsaved
  BY Contained DEF Grounded, MemoryTyped, unsaved
<1>7. QED
  BY <1>2, <1>3, <1>5, <1>6 DEF GroundedFacts

LEMMA PullSafe ==
  ASSUME Grounded, Unspoiled, NEW t \in Passes, pullRemoteState(t)
  PROVE  Unspoiled'
<1>1. /\ at[t] = "listed" /\ at' = [at EXCEPT ![t] = "pushing"]
      /\ disk' = pulled(t) /\ known' = remote[t]
      /\ todo' = [todo EXCEPT ![t] = {p \in Paths : writable /\ pulled(t)[p] # Absent}]
      /\ UNCHANGED <<store, writable, mount, remote, edits, uploaded, foreign>>
  BY DEF pullRemoteState, enter, editVars
<1>2. MemoryTyped
  BY DEF Grounded
<1>3. mount = "mounted" /\ \A u \in Passes : u # t => at[u] = "idle"
  BY <1>1, Alone
<1>4. \A u \in Passes : at'[u] = (IF u = t THEN "pushing" ELSE "idle")
  BY <1>1, <1>2, <1>3, Listed DEF MemoryTyped
<1>5. todo'[t] = {p \in Paths : writable /\ pulled(t)[p] # Absent}
  BY <1>1, <1>2 DEF MemoryTyped
<1>6. lost' = {}
  <2>1. \A p \in Paths : ~ (~ kept(t, p) /\ disk[p] # remote[t][p] /\ sacrificed(p, remote[t][p]))
    BY <1>1, PullSpares
  <2>2. QED
    BY <2>1 DEF pullRemoteState, Unspoiled
<1>7. \A p \in Paths : Theirs(p, store[p], remote[t][p])
  BY <1>1, <1>3, BaselineAt DEF BaselineFacts
<1>8. Baseline'
  BY <1>1, <1>4, <1>7, BaselineNext DEF Theirs, TheirsNext
<1>9. Settled'
  <2>1. SUFFICES ASSUME writable', NEW p \in Paths, at'["exit"] \in {"pushing", "relisted"},
                        at'["exit"] = "pushing" => p \notin todo'["exit"]
                 PROVE  disk'[p] \notin unsaved'
    BY SettledNext
  <2>2. t = "exit" /\ p \notin todo'[t]
    BY <1>4, <2>1, Exits
  <2>3. disk'[p] = Absent
    BY <1>1, <1>5, <2>1, <2>2
  <2>4. Absent \notin unsaved'
    BY <1>1, <1>2, Contained DEF MemoryTyped, unsaved
  <2>5. QED
    BY <2>3, <2>4
<1>10. QED
  BY <1>1, <1>3, <1>4, <1>6, <1>8, <1>9, Exits DEF Unspoiled, PassInMount, OnePass

LEMMA FileSafe ==
  ASSUME Grounded, Unspoiled, NEW t \in Passes, NEW p \in Paths,
         Skip(t, p) \/ Upload(t, p) \/ UploadFails(t, p), ~ spoiled'
  PROVE  Unspoiled'
<1>1. /\ at[t] = "pushing" /\ p \in todo[t] /\ todo' = [todo EXCEPT ![t] = @ \ {p}]
      /\ UNCHANGED <<writable, mount, disk, known, at, remote, edits, lost, foreign>>
  BY DEF Skip, Upload, UploadFails, next, editVars
<1>2. MemoryTyped
  BY DEF Grounded
<1>3. mount = "mounted" /\ \A u \in Passes : u # t => at[u] = "idle"
  BY <1>1, Alone
<1>4. \A u \in Passes : todo'[u] = IF u = t THEN todo[t] \ {p} ELSE todo[u]
  BY <1>1, <1>2 DEF MemoryTyped
<1>5. /\ \A q \in Paths \ {p} : store'[q] = store[q]
      /\ uploaded \subseteq uploaded'
  BY <1>2 DEF Skip, Upload, UploadFails, MemoryTyped, Trees
<1>6. \A q \in Paths : BaselineFacts(t, q) /\ GroundedFacts(q)
  BY <1>3, BaselineAt, GroundedAt
<1>7. Baseline'
  <2>1. ASSUME NEW q \in Paths
        PROVE  /\ known'[q] = remote'[t][q]
               /\ q \in todo'[t] => TheirsNext(q, store'[q], remote'[t][q])
    <3>1. known[q] = remote[t][q]
      BY <1>1, <1>6 DEF BaselineFacts
    <3>2. q \in todo'[t] => q # p /\ q \in todo[t]
      BY <1>4
    <3>3. QED
      BY <1>1, <1>5, <1>6, <3>1, <3>2 DEF BaselineFacts, Theirs, TheirsNext
  <2>2. \A u \in Passes : at'[u] = IF u = t THEN "pushing" ELSE "idle"
    BY <1>1, <1>3
  <2>3. QED
    BY <2>1, <2>2, BaselineNext
<1>8. disk[p] \notin unsaved' \/ (p \in foreign /\ store'[p] \notin edits)
  <2>1. GroundedFacts(p) /\ known[p] = remote[t][p] /\ Theirs(p, store[p], remote[t][p])
    BY <1>1, <1>6 DEF BaselineFacts
  <2>2. CASE Skip(t, p)
    <3>1. uploaded' = uploaded /\ ~ outgoing(t, p)
      BY <2>2 DEF Skip
    <3>2. disk[p] = Absent \/ disk[p] = remote[t][p]
      BY <2>1, <3>1 DEF outgoing
    <3>3. disk[p] \notin unsaved
      BY <1>2, <2>1, <3>2, Contained DEF GroundedFacts, MemoryTyped, unsaved
    <3>4. QED
      BY <1>1, <3>1, <3>3 DEF unsaved
  <2>3. CASE Upload(t, p) /\ accepts(t, p)
    BY <2>3 DEF Upload, unsaved
  <2>4. CASE Upload(t, p) /\ ~ accepts(t, p)
    BY <2>1, <2>4 DEF Upload, accepts, Theirs
  <2>5. CASE UploadFails(t, p)
    BY <2>5 DEF UploadFails
  <2>6. QED
    BY <2>2, <2>3, <2>4, <2>5
<1>9. Settled'
  <2>1. SUFFICES ASSUME writable', NEW q \in Paths, at'["exit"] \in {"pushing", "relisted"},
                        at'["exit"] = "pushing" => q \notin todo'["exit"]
                 PROVE  disk'[q] \notin unsaved' \/ (q \in foreign' /\ store'[q] \notin edits')
    BY SettledNext
  <2>2. t = "exit" /\ q \notin todo'[t]
    BY <1>1, <1>3, <2>1, Exits
  <2>3. CASE q = p
    BY <1>1, <1>8, <2>3
  <2>4. CASE q # p
    <3>1. q \notin todo["exit"]
      BY <1>4, <2>2, <2>4
    <3>2. disk[q] \notin unsaved \/ (q \in foreign /\ store[q] \notin edits)
      BY <1>1, <2>1, <3>1 DEF Unspoiled, Settled
    <3>3. QED
      BY <1>1, <1>5, <2>4, <3>2 DEF unsaved
  <2>5. QED
    BY <2>3, <2>4
<1>10. QED
  BY <1>1, <1>7, <1>9 DEF Unspoiled, PassInMount, OnePass

LEMMA RelistSafe ==
  ASSUME Grounded, Unspoiled, NEW t \in Passes, Relist(t)
  PROVE  Unspoiled'
<1>1. /\ at[t] = "pushing" /\ todo[t] = {}
      /\ at' = [at EXCEPT ![t] = "relisted"] /\ remote' = [remote EXCEPT ![t] = store]
      /\ UNCHANGED <<store, writable, mount, known, disk, todo, edits, uploaded, lost, foreign>>
  BY DEF Relist, listRemoteMemories, enter, diskVars, editVars, pastVars
<1>2. MemoryTyped
  BY DEF Grounded
<1>3. mount = "mounted" /\ \A u \in Passes : u # t => at[u] = "idle"
  BY <1>1, Alone
<1>4. \A u \in Passes : at'[u] = (IF u = t THEN "relisted" ELSE "idle") /\ (u = t => remote'[u] = store)
  BY <1>1, <1>2, <1>3, Listed DEF MemoryTyped
<1>5. Baseline'
  BY <1>1, <1>4, BaselineNext DEF TheirsNext
<1>6. Settled'
  <2>1. SUFFICES ASSUME writable', NEW q \in Paths, at'["exit"] \in {"pushing", "relisted"}
                 PROVE  disk'[q] \notin unsaved' \/ (q \in foreign' /\ store'[q] \notin edits')
    BY SettledNext
  <2>2. at["exit"] = "pushing" /\ todo["exit"] = {}
    BY <1>1, <1>4, <2>1, Exits
  <2>3. disk[q] \notin unsaved \/ (q \in foreign /\ store[q] \notin edits)
    BY <1>1, <2>1, <2>2 DEF Unspoiled, Settled
  <2>4. QED
    BY <1>1, <2>3 DEF unsaved
<1>7. QED
  BY <1>1, <1>3, <1>4, <1>5, <1>6, Exits DEF Unspoiled, PassInMount, OnePass

\* The exit that follows its last pass leaves no edit behind.
LEMMA DoneSafe ==
  ASSUME Grounded, Unspoiled, NEW t \in Passes, Done(t)
  PROVE  Unspoiled'
<1>1. /\ at[t] = "relisted" /\ known' = remote[t]
      /\ at' = [at EXCEPT ![t] = "idle"]
      /\ UNCHANGED <<store, writable, edits, uploaded, foreign>>
  BY DEF Done, rebase, ends, enter, editVars
<1>2. MemoryTyped
  BY DEF Grounded
<1>3. mount = "mounted" /\ \A u \in Passes : u # t => at[u] = "idle"
  BY <1>1, Alone
<1>4. \A u \in Passes : at'[u] = "idle"
  BY <1>1, <1>2, <1>3, Listed DEF MemoryTyped
<1>5. Baseline'
  <2>1. \A p \in Paths : Theirs(p, store[p], remote[t][p])
    BY <1>1, <1>3, BaselineAt DEF BaselineFacts
  <2>2. QED
    BY <1>1, <1>4, <2>1, BaselineNext DEF Theirs, TheirsNext
<1>6. Settled'
  BY <1>4, Exits, SettledNext
<1>7. lost' = {}
  <2>1. CASE t = "exit"
    <3>1. ASSUME NEW p \in Paths
          PROVE  ~ sacrificed(p, store[p])
      <4>1. writable => disk[p] \notin unsaved \/ (p \in foreign /\ store[p] \notin edits)
        BY <1>1, <2>1 DEF Unspoiled, Settled
      <4>2. QED
        BY <4>1 DEF sacrificed, unsaved
    <3>2. lost' = lost \cup {disk[p] : p \in {q \in Paths : sacrificed(q, store[q])}}
      BY <2>1 DEF Done, ends
    <3>3. QED
      BY <3>1, <3>2 DEF Unspoiled
  <2>2. CASE t # "exit"
    BY <2>2 DEF Done, ends, Unspoiled
  <2>3. QED
    BY <2>1, <2>2
<1>8. QED
  BY <1>4, <1>5, <1>6, <1>7, Exits DEF Unspoiled, PassInMount, OnePass

-----------------------------------------------------------------------------

LEMMA MemoryStarts ==
  ASSUME MemoryInit
  PROVE  MemoryInv
<1>1. /\ store \in [Paths -> {Absent, 1}] /\ writable \in BOOLEAN
      /\ mount = "none" /\ disk = Empty /\ known = Empty /\ based = Empty
      /\ at = [t \in Passes |-> "idle"] /\ remote = [t \in Passes |-> Empty]
      /\ todo = [t \in Passes |-> {}]
      /\ writes = 1 /\ edits = {} /\ uploaded = {} /\ foreign = {} /\ lost = {}
      /\ spoiled = FALSE
  BY DEF MemoryInit
<1>2. store \in Trees
  BY <1>1, Contained DEF Trees
<1>3. MemoryTyped
  BY <1>1, <1>2, Contained, Emptied DEF MemoryTyped
<1>4. Written /\ Sourced
  BY <1>1, Emptied DEF Written, Sourced, unsaved, Absent
<1>5. Unspoiled
  BY <1>1, Exits DEF Unspoiled, PassInMount, OnePass, Baseline, Settled
<1>6. QED
  BY <1>1, <1>3, <1>4, <1>5 DEF MemoryInv, Grounded

LEMMA MemoryStep ==
  ASSUME MemoryInv, [MemoryNext]_memoryVars
  PROVE  MemoryInv'
<1>1. Grounded /\ (~ spoiled => Unspoiled)
  BY DEF MemoryInv
<1>2. CASE UNCHANGED memoryVars
  <2>1. Grounded'
    BY <1>1, <1>2 DEF memoryVars, diskVars, passVars, editVars, pastVars, Grounded, MemoryTyped, Written,
                      Sourced, unsaved
  <2>2. Unspoiled => Unspoiled'
    BY <1>2 DEF memoryVars, diskVars, passVars, editVars, pastVars, Unspoiled, PassInMount, OnePass,
                Baseline, Theirs, Settled, unsaved
  <2>3. spoiled' = spoiled
    BY <1>2 DEF memoryVars, pastVars
  <2>4. QED
    BY <1>1, <2>1, <2>2, <2>3 DEF MemoryInv
<1>3. CASE mountOne
  <2>1. spoiled' = spoiled
    BY <1>3 DEF mountOne, pastVars
  <2>2. QED
    BY <1>1, <1>3, <2>1, MountGrounded, MountSafe DEF MemoryInv
<1>4. ASSUME NEW p \in Paths, AgentWrites(p) \/ AgentDeletes(p) \/ ClientWrites(p) \/ ClientDeletes(p)
      PROVE  MemoryInv'
  <2>1. spoiled' = spoiled
    BY <1>4 DEF AgentWrites, AgentDeletes, ClientWrites, ClientDeletes, pastVars
  <2>2. QED
    BY <1>1, <1>4, <2>1, WritesGrounded, WritesSafe DEF MemoryInv
<1>5. ASSUME NEW t \in Passes, Start(t)
      PROVE  MemoryInv'
  <2>1. spoiled => spoiled'
    BY <1>5 DEF Start
  <2>2. QED
    BY <1>1, <1>5, <2>1, ListGrounded, StartSafe DEF MemoryInv
<1>6. ASSUME NEW t \in Passes, pullRemoteState(t)
      PROVE  MemoryInv'
  <2>1. spoiled' = spoiled
    BY <1>6 DEF pullRemoteState
  <2>2. QED
    BY <1>1, <1>6, <2>1, PullGrounded, PullSafe DEF MemoryInv
<1>7. ASSUME NEW t \in Passes, Relist(t)
      PROVE  MemoryInv'
  <2>1. spoiled' = spoiled
    BY <1>7 DEF Relist, pastVars
  <2>2. QED
    BY <1>1, <1>7, <2>1, ListGrounded, RelistSafe DEF MemoryInv
<1>8. ASSUME NEW t \in Passes, Done(t)
      PROVE  MemoryInv'
  <2>1. spoiled' = spoiled
    BY <1>8 DEF Done
  <2>2. QED
    BY <1>1, <1>8, <2>1, EndGrounded, DoneSafe DEF MemoryInv
<1>9. ASSUME NEW t \in Passes, PassFails(t)
      PROVE  MemoryInv'
  <2>1. spoiled' = TRUE
    BY <1>9 DEF PassFails
  <2>2. QED
    BY <1>1, <1>9, <2>1, EndGrounded DEF MemoryInv
<1>10. ASSUME NEW t \in Passes, NEW p \in Paths, Skip(t, p) \/ Upload(t, p) \/ UploadFails(t, p)
       PROVE  MemoryInv'
  <2>1. spoiled => spoiled'
    BY <1>10 DEF Skip, Upload, UploadFails
  <2>2. QED
    BY <1>1, <1>10, <2>1, FileGrounded, FileSafe DEF MemoryInv
<1>11. QED
  BY <1>2, <1>3, <1>4, <1>5, <1>6, <1>7, <1>8, <1>9, <1>10 DEF MemoryNext, reconcileMemoryMount

\* The inductive invariant holds whenever the specification is followed.
THEOREM MemoryInvariance == MemorySpec => []MemoryInv
<1>1. MemoryInv /\ [MemoryNext]_memoryVars => MemoryInv'
  BY MemoryStep
<1>2. QED
  BY <1>1, MemoryStarts, PTL DEF MemorySpec

\* Every variable keeps its type, for any store and any number of writes.
THEOREM MemoryTypes == MemorySpec => []MemoryTypeOK
<1>1. MemoryInv => MemoryTypeOK
  BY Exits DEF MemoryInv, Grounded, MemoryTyped, MemoryTypeOK
<1>2. QED
  BY <1>1, MemoryInvariance, PTL

\* For any store, any number of other clients' writes and any interleaving of the
\* timer's passes with the exit's: until a request fails or the exit meets a pass
\* in flight, no edit of the agent leaves the disk unsaved.
THEOREM MemoryReachesStore == MemorySpec => []EditsReachStore
<1>1. MemoryInv => EditsReachStore
  BY DEF MemoryInv, Unspoiled, EditsReachStore
<1>2. QED
  BY <1>1, MemoryInvariance, PTL
================================================================================
