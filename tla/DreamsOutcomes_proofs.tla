-------------------------- MODULE DreamsOutcomes_proofs -------------------------
(***************************************************************************)
(* What the two jobs that drive a session's turns keep.                    *)
(*                                                                         *)
(* Dreams, for any number of dreams, sweeps, sessions and disturbances: a  *)
(* dream whose start and cancel were not cut off has one session at most,  *)
(* and whoever read its row, however long ago, read that session; no other *)
(* dream became active since that updates the store.                       *)
(*                                                                         *)
(* Outcomes, for any number of declarations, iterations, other turns and   *)
(* crashes: what the log makes of an outcome and what the loop that runs   *)
(* it remembers are the same, and an outcome whose turn is to come is      *)
(* declared, queued once and not evaluated yet.                            *)
(***************************************************************************)
EXTENDS Dreams, Outcomes, WellFoundedInduction, TLAPS

-----------------------------------------------------------------------------
(* Dreams. *)


Typed ==
  /\ dream \in [DreamIds -> DreamRows]
  /\ session \in [DreamIds -> [Numbers -> PipelineStates]]
  /\ reading \in [Sweeps -> [DreamIds -> {NotRead} \cup 0..MaxSessions]]
  /\ canceling \in [DreamIds -> {NotRead} \cup Numbers]
  /\ draining \subseteq DreamIds \X Numbers
  /\ cutOff \subseteq DreamIds
  /\ disturbances \in 0..MaxDisturbances
  /\ \A d \in DreamIds : dream[d].status = "running" => dream[d].session # NoSession

\* Sessions that are named have been started.
Named(d) ==
  /\ dream[d].session # NoSession => session[d][dream[d].session] # "none"
  /\ \A s \in Sweeps : reading[s][d] \in Numbers => session[d][reading[s][d]] # "none"
  /\ canceling[d] \in Numbers => session[d][canceling[d]] # "none"

AllNamed == \A d \in DreamIds : Named(d)

\* A dream that nothing cut off.
Whole(d) ==
  /\ dream[d].status # "pending"
  /\ dream[d].status = "none" => \A k \in Numbers : session[d][k] = "none"
  /\ \A k \in Numbers : session[d][k] # "none" => k = dream[d].session
  /\ ActiveDream(d) => dream[d].output /\ ~ dream[d].archived
  /\ \A s \in Sweeps : reading[s][d] # NotRead => reading[s][d] \in Numbers
  /\ TerminalDream(d) => \A k \in Numbers :
       /\ session[d][k] \in {"working"} \cup idleStates => <<d, k>> \in draining
       /\ session[d][k] = "working" => dream[d].status = "canceled"

AllWhole == \A d \in DreamIds \ cutOff : Whole(d)

\* One active dream at most updates the store.
Sole ==
  \A d, e \in DreamIds \ cutOff :
    ActiveDream(d) /\ dream[d].existing /\ ActiveDream(e) /\ dream[e].existing => d = e

DreamInv == Typed /\ AllNamed /\ AllWhole /\ Sole

--------------------------------------------------------------------------------
(* What starting a session and giving one back do. *)

Statuses == {"none", "pending", "running", "completed", "failed", "canceled"}
Ended == {"completed", "failed", "canceled"}

LEMMA Numbering ==
  /\ Numbers \subseteq 0..MaxSessions /\ NoSession \in 0..MaxSessions /\ NoSession \notin Numbers
  /\ NotRead \notin 0..MaxSessions
  /\ \A k \in 0..MaxSessions : k # NoSession => k \in Numbers
  BY DreamNumbers DEF Numbers, NoSession, NotRead

LEMMA Unused ==
  ASSUME NEW d \in DreamIds, free(d) # {}
  PROVE  unused(d) \in Numbers /\ session[d][unused(d)] = "none"
  <1>1. unused(d) \in free(d)
    BY DEF unused
  <1> QED
    BY <1>1 DEF free

LEMMA Finished ==
  ASSUME Typed, NEW d \in DreamIds, NEW k \in Numbers
  PROVE  /\ finished(d, k) \in [DreamIds -> [Numbers -> PipelineStates]]
         /\ \A e \in DreamIds, j \in Numbers : e # d \/ j # k => finished(d, k)[e][j] = session[e][j]
         /\ \A e \in DreamIds : e # d => finished(d, k)[e] = session[e]
         /\ \A e \in DreamIds, j \in Numbers : finished(d, k)[e][j] \in {session[e][j], "archived"}
         /\ session[d][k] \in idleStates => finished(d, k)[d][k] = "archived"
         /\ session[d][k] \notin idleStates => finished(d, k)[d][k] = session[d][k]
         /\ \A e \in DreamIds, j \in Numbers : session[e][j] = "none" <=> finished(d, k)[e][j] = "none"
  BY DEF Typed, finished, PipelineStates, idleStates

\* startDream either starts a new session or fails.
StartsAs(d, row, k) ==
  /\ session[d][k] = "none" /\ session' = [session EXCEPT ![d][k] = "working"]
  /\ dream' = [dream EXCEPT ![d] = [row EXCEPT !.status = "running", !.session = k, !.output = TRUE]]

Fails(d, row) ==
  /\ UNCHANGED session
  /\ dream' = [dream EXCEPT ![d] = [row EXCEPT !.status = "failed", !.output = TRUE]]

LEMMA Starts ==
  ASSUME NEW d \in DreamIds, NEW row, startDream(d, row)
  PROVE  Fails(d, row) \/ \E k \in Numbers : StartsAs(d, row, k)
  BY Unused DEF startDream, StartsAs, Fails

LEMMA StartsOnly ==
  ASSUME NEW d \in DreamIds, NEW row, startDream(d, row), Typed,
         NEW x \in DreamIds, x # d
  PROVE  dream'[x] = dream[x] /\ session'[x] = session[x]
  <1>1. ASSUME NEW k \in Numbers, StartsAs(d, row, k)
        PROVE  dream'[x] = dream[x] /\ session'[x] = session[x]
    BY <1>1 DEF StartsAs, Typed
  <1>2. CASE Fails(d, row)
    BY <1>2 DEF Fails, Typed
  <1> QED
    BY <1>1, <1>2, Starts

\* Bringing a row up to date: nothing, a start, or the end.
Ends(d, k) ==
  /\ k \in Numbers /\ session[d][k] # "working"
  /\ \E finalStatus \in Ended : dream' = [dream EXCEPT ![d].status = finalStatus]
  /\ session' = finished(d, k)

LEMMA Synced ==
  ASSUME Typed, NEW d \in DreamIds, NEW k \in 0..MaxSessions,
         k \in Numbers => session[d][k] # "none", syncDream(d, k)
  PROVE  \/ UNCHANGED <<dream, session>>
         \/ k = NoSession /\ startDream(d, dream[d])
         \/ Ends(d, k)
  <1>1. CASE recovered(d, k)
    BY <1>1 DEF recovered
  <1>2. CASE k # NoSession /\ session[d][k] # "working"
             /\ dream' = [dream EXCEPT ![d].status = verdict(session[d][k])] /\ session' = finished(d, k)
    <2>1. k \in Numbers /\ session[d][k] \in PipelineStates \ {"none", "working"}
      BY <1>2, Numbering DEF Typed
    <2>2. verdict(session[d][k]) \in Ended
      BY <2>1 DEF verdict, PipelineStates, Ended
    <2> QED
      BY <1>2, <2>1, <2>2 DEF Ends
  <1> QED
    BY <1>1, <1>2 DEF syncDream

LEMMA StartTyped ==
  ASSUME Typed, NEW d \in DreamIds, NEW row \in DreamRows, startDream(d, row)
  PROVE  /\ dream' \in [DreamIds -> DreamRows]
         /\ session' \in [DreamIds -> [Numbers -> PipelineStates]]
         /\ \A e \in DreamIds : dream'[e].status = "running" => dream'[e].session # NoSession
  <1>1. ASSUME NEW k \in Numbers, StartsAs(d, row, k)
        PROVE  /\ dream' \in [DreamIds -> DreamRows]
               /\ session' \in [DreamIds -> [Numbers -> PipelineStates]]
               /\ \A e \in DreamIds : dream'[e].status = "running" => dream'[e].session # NoSession
    <2>1. [row EXCEPT !.status = "running", !.session = k, !.output = TRUE] \in DreamRows /\ k # NoSession
      BY Numbering DEF DreamRows
    <2>2. session' \in [DreamIds -> [Numbers -> PipelineStates]]
      BY <1>1 DEF StartsAs, Typed, PipelineStates
    <2> QED
      BY <1>1, <2>1, <2>2 DEF StartsAs, Typed, DreamRows
  <1>2. ASSUME Fails(d, row)
        PROVE  /\ dream' \in [DreamIds -> DreamRows]
               /\ session' \in [DreamIds -> [Numbers -> PipelineStates]]
               /\ \A e \in DreamIds : dream'[e].status = "running" => dream'[e].session # NoSession
    <2>1. [row EXCEPT !.status = "failed", !.output = TRUE] \in DreamRows
      BY DEF DreamRows
    <2> QED
      BY <1>2, <2>1 DEF Fails, Typed, DreamRows
  <1> QED
    BY <1>1, <1>2, Starts

LEMMA EndTyped ==
  ASSUME Typed, NEW d \in DreamIds, NEW finalStatus \in Ended, NEW k \in Numbers,
         dream' = [dream EXCEPT ![d].status = finalStatus], session' = finished(d, k)
  PROVE  /\ dream' \in [DreamIds -> DreamRows]
         /\ session' \in [DreamIds -> [Numbers -> PipelineStates]]
         /\ \A e \in DreamIds : dream'[e].status = "running" => dream'[e].session # NoSession
  <1>1. [dream[d] EXCEPT !.status = finalStatus] \in DreamRows /\ finalStatus # "running"
    BY DEF Typed, DreamRows, Ended
  <1>2. session' \in [DreamIds -> [Numbers -> PipelineStates]]
    BY Finished
  <1> QED
    BY <1>1, <1>2 DEF Typed, DreamRows

LEMMA NewRow == \A b \in BOOLEAN :
  [NoDream EXCEPT !.status = "pending", !.existing = b] \in DreamRows
  BY Numbering DEF NoDream, DreamRows

LEMMA Dies ==
  ASSUME Typed, NEW started \in SUBSET DreamIds, ProcessDies(started)
  PROVE  /\ session' \in [DreamIds -> [Numbers -> PipelineStates]]
         /\ reading' \in [Sweeps -> [DreamIds -> {NotRead} \cup 0..MaxSessions]]
         /\ canceling' \in [DreamIds -> {NotRead} \cup Numbers]
         /\ draining' \subseteq DreamIds \X Numbers
         /\ cutOff' \subseteq DreamIds /\ disturbances' \in 0..MaxDisturbances
  <1>1. session' \in [DreamIds -> [Numbers -> PipelineStates]]
    BY DEF ProcessDies, Typed, PipelineStates
  <1>2. disturbances' \in 0..MaxDisturbances
    BY DreamNumbers DEF ProcessDies, Disturbed, Typed
  <1> QED
    BY <1>1, <1>2 DEF ProcessDies, Typed

LEMMA TypedStep ==
  ASSUME DreamInv, [DreamNext]_dreamVars
  PROVE  Typed'
  <1> USE DEF DreamInv
  <1>1. ASSUME NEW d \in DreamIds, CreateDream(d) PROVE Typed'
    <2>1. PICK existing \in BOOLEAN :
            startDream(d, [NoDream EXCEPT !.status = "pending", !.existing = existing])
      BY <1>1 DEF CreateDream
    <2>2. UNCHANGED <<reading, canceling, draining, cutOff, disturbances>>
      BY <1>1 DEF CreateDream
    <2> QED
      BY <2>1, <2>2, NewRow, StartTyped DEF Typed
  <1>2. ASSUME NEW d \in DreamIds, RetrieveDream(d) PROVE Typed'
    <2>1. dream[d].session \in 0..MaxSessions /\ (dream[d].session \in Numbers => session[d][dream[d].session] # "none")
      BY Numbering DEF Typed, DreamRows, AllNamed, Named
    <2>2. \/ UNCHANGED <<dream, session>>
          \/ dream[d].session = NoSession /\ startDream(d, dream[d])
          \/ Ends(d, dream[d].session)
      BY <1>2, <2>1, Synced DEF RetrieveDream
    <2>3. UNCHANGED <<reading, canceling, draining, cutOff, disturbances>>
      BY <1>2 DEF RetrieveDream
    <2>4. dream[d] \in DreamRows
      BY DEF Typed
    <2> QED
      BY <2>2, <2>3, <2>4, StartTyped, EndTyped DEF Typed, Ends
  <1>3. ASSUME NEW d \in DreamIds, CancelFound(d) PROVE Typed'
    <2>1. dream[d].session \in Numbers
      BY <1>3, Numbering DEF CancelFound, Typed, DreamRows
    <2> QED
      BY <1>3, <2>1 DEF CancelFound, Typed
  <1>4. ASSUME NEW d \in DreamIds, cancelDream(d) PROVE Typed'
    <2> DEFINE k == canceling[d]
    <2>1. k \in Numbers /\ "canceled" \in Ended
      BY <1>4 DEF cancelDream, Typed, Ended
    <2>2. /\ dream' = [dream EXCEPT ![d].status = "canceled"] /\ session' = finished(d, k)
          /\ UNCHANGED <<reading, cutOff, disturbances>>
      BY <1>4 DEF cancelDream
    <2>3. draining' \subseteq DreamIds \X Numbers
      BY <1>4, <2>1 DEF cancelDream, Typed
    <2>4. canceling' \in [DreamIds -> {NotRead} \cup Numbers]
      BY <1>4 DEF cancelDream, Typed
    <2> HIDE DEF k
    <2> QED
      BY <2>1, <2>2, <2>3, <2>4, EndTyped DEF Typed
  <1>5. ASSUME NEW d \in DreamIds, ArchiveDream(d) PROVE Typed'
    BY <1>5 DEF ArchiveDream, TerminalDream, Typed, DreamRows
  <1>6. ASSUME NEW d \in DreamIds, CreateCutOff(d) PROVE Typed'
    <2>1. PICK existing \in BOOLEAN :
            dream' = [dream EXCEPT ![d] = [NoDream EXCEPT !.status = "pending", !.existing = existing]]
      BY <1>6 DEF CreateCutOff
    <2>2. dream' \in [DreamIds -> DreamRows]
      BY <2>1, NewRow DEF Typed
    <2>3. \A e \in DreamIds : dream'[e].status = "running" => dream'[e].session # NoSession
      BY <2>1 DEF Typed, NoDream
    <2>4. ProcessDies({d})
      BY <1>6 DEF CreateCutOff
    <2> QED
      BY <2>2, <2>3, <2>4, Dies DEF Typed
  <1>7. ASSUME NEW s \in Sweeps, sweepDreams(s) PROVE Typed'
    <2>1. \A e \in DreamIds : dream[e].session \in 0..MaxSessions
      BY DEF Typed, DreamRows
    <2> QED
      BY <1>7, <2>1 DEF sweepDreams, Typed
  <1>8. ASSUME NEW s \in Sweeps, SweepRow(s) PROVE Typed'
    <2>1. PICK d \in DreamIds :
            /\ reading[s][d] # NotRead /\ syncDream(d, reading[s][d])
            /\ reading' = [reading EXCEPT ![s][d] = NotRead]
            /\ UNCHANGED <<canceling, draining, cutOff, disturbances>>
      BY <1>8 DEF SweepRow
    <2>2. reading[s][d] \in 0..MaxSessions /\ (reading[s][d] \in Numbers => session[d][reading[s][d]] # "none")
      BY <2>1 DEF Typed, AllNamed, Named
    <2>3. \/ UNCHANGED <<dream, session>>
          \/ reading[s][d] = NoSession /\ startDream(d, dream[d])
          \/ Ends(d, reading[s][d])
      BY <2>1, <2>2, Synced
    <2>4. dream[d] \in DreamRows
      BY DEF Typed
    <2>5. reading' \in [Sweeps -> [DreamIds -> {NotRead} \cup 0..MaxSessions]]
      BY <2>1 DEF Typed
    <2> QED
      BY <2>1, <2>3, <2>4, <2>5, StartTyped, EndTyped DEF Typed, Ends
  <1>9. ASSUME NEW d \in DreamIds, NEW k \in Numbers, Drained(d, k) PROVE Typed'
    BY <1>9, Finished DEF Drained, Typed
  <1>10. ASSUME NEW d \in DreamIds, NEW k \in Numbers, TurnEnds(d, k) PROVE Typed'
    BY <1>10 DEF TurnEnds, Typed, PipelineStates
  <1>11. ASSUME NEW d \in DreamIds, NEW k \in Numbers, Meddle(d, k) PROVE Typed'
    <2>1. disturbances' \in 0..MaxDisturbances
      BY <1>11, DreamNumbers DEF Meddle, Disturbed, Typed
    <2>2. PICK state \in PipelineStates : session' = [session EXCEPT ![d][k] = state]
      BY <1>11 DEF Meddle, PipelineStates
    <2>3. session' \in [DreamIds -> [Numbers -> PipelineStates]]
      BY <2>2 DEF Typed
    <2> QED
      BY <1>11, <2>1, <2>3 DEF Meddle, Typed
  <1>12. CASE DreamCrash
    BY <1>12, Dies DEF DreamCrash, Typed
  <1>13. CASE UNCHANGED dreamVars
    BY <1>13 DEF dreamVars, Typed
  <1> QED
    BY <1>1, <1>2, <1>3, <1>4, <1>5, <1>6, <1>7, <1>8, <1>9, <1>10, <1>11, <1>12, <1>13 DEF DreamNext

--------------------------------------------------------------------------------
(* A session that was started stays started, so what is named stays named. *)

LEMMA StartKeeps ==
  ASSUME Typed, NEW d \in DreamIds, NEW row \in DreamRows, startDream(d, row),
         NEW x \in DreamIds, NEW j \in Numbers, session[x][j] # "none"
  PROVE  session'[x][j] = session[x][j]
  <1>1. ASSUME NEW k \in Numbers, StartsAs(d, row, k)
        PROVE  session'[x][j] = session[x][j]
    BY <1>1 DEF StartsAs, Typed
  <1>2. CASE Fails(d, row)
    BY <1>2 DEF Fails
  <1> QED
    BY <1>1, <1>2, Starts

LEMMA Persists ==
  ASSUME DreamInv, NEW x \in DreamIds, NEW j \in Numbers, session[x][j] # "none", [DreamNext]_dreamVars
  PROVE  session'[x][j] # "none"
  <1> USE DEF DreamInv
  <1>1. ASSUME NEW d \in DreamIds, CreateDream(d) PROVE session'[x][j] # "none"
    <2>1. PICK existing \in BOOLEAN :
            startDream(d, [NoDream EXCEPT !.status = "pending", !.existing = existing])
      BY <1>1 DEF CreateDream
    <2> QED
      BY <2>1, NewRow, StartKeeps
  <1>2. ASSUME NEW d \in DreamIds, RetrieveDream(d) PROVE session'[x][j] # "none"
    <2>1. dream[d].session \in 0..MaxSessions /\ (dream[d].session \in Numbers => session[d][dream[d].session] # "none")
      BY Numbering DEF Typed, DreamRows, AllNamed, Named
    <2>2. \/ UNCHANGED <<dream, session>>
          \/ dream[d].session = NoSession /\ startDream(d, dream[d])
          \/ Ends(d, dream[d].session)
      BY <1>2, <2>1, Synced DEF RetrieveDream
    <2>3. UNCHANGED <<reading, canceling, draining, cutOff, disturbances>>
      BY <1>2 DEF RetrieveDream
    <2>4. dream[d] \in DreamRows
      BY DEF Typed
    <2> QED
      BY <2>2, <2>4, StartKeeps, Finished DEF Ends
  <1>3. ASSUME NEW d \in DreamIds, CancelFound(d) PROVE session'[x][j] # "none"
    BY <1>3 DEF CancelFound
  <1>4. ASSUME NEW d \in DreamIds, cancelDream(d) PROVE session'[x][j] # "none"
    <2>1. canceling[d] \in Numbers /\ session' = finished(d, canceling[d])
      BY <1>4 DEF cancelDream, Typed
    <2> QED
      BY <2>1, Finished
  <1>5. ASSUME NEW d \in DreamIds, ArchiveDream(d) PROVE session'[x][j] # "none"
    BY <1>5 DEF ArchiveDream
  <1>6. ASSUME NEW d \in DreamIds, CreateCutOff(d) PROVE session'[x][j] # "none"
    BY <1>6 DEF CreateCutOff, ProcessDies, Typed
  <1>7. ASSUME NEW s \in Sweeps, sweepDreams(s) PROVE session'[x][j] # "none"
    BY <1>7 DEF sweepDreams
  <1>8. ASSUME NEW s \in Sweeps, SweepRow(s) PROVE session'[x][j] # "none"
    <2>1. PICK d \in DreamIds :
            /\ reading[s][d] # NotRead /\ syncDream(d, reading[s][d])
            /\ reading' = [reading EXCEPT ![s][d] = NotRead]
            /\ UNCHANGED <<canceling, draining, cutOff, disturbances>>
      BY <1>8 DEF SweepRow
    <2>2. reading[s][d] \in 0..MaxSessions /\ (reading[s][d] \in Numbers => session[d][reading[s][d]] # "none")
      BY <2>1 DEF Typed, AllNamed, Named
    <2>3. \/ UNCHANGED <<dream, session>>
          \/ reading[s][d] = NoSession /\ startDream(d, dream[d])
          \/ Ends(d, reading[s][d])
      BY <2>1, <2>2, Synced
    <2>4. dream[d] \in DreamRows
      BY DEF Typed
    <2> QED
      BY <2>3, <2>4, StartKeeps, Finished DEF Ends
  <1>9. ASSUME NEW d \in DreamIds, NEW k \in Numbers, Drained(d, k) PROVE session'[x][j] # "none"
    BY <1>9, Finished DEF Drained
  <1>10. ASSUME NEW d \in DreamIds, NEW k \in Numbers, TurnEnds(d, k) PROVE session'[x][j] # "none"
    BY <1>10 DEF TurnEnds, Typed
  <1>11. ASSUME NEW d \in DreamIds, NEW k \in Numbers, Meddle(d, k) PROVE session'[x][j] # "none"
    BY <1>11 DEF Meddle, Typed
  <1>12. CASE DreamCrash
    BY <1>12 DEF DreamCrash, ProcessDies, Typed
  <1>13. CASE UNCHANGED dreamVars
    BY <1>13 DEF dreamVars
  <1> QED
    BY <1>1, <1>2, <1>3, <1>4, <1>5, <1>6, <1>7, <1>8, <1>9, <1>10, <1>11, <1>12, <1>13 DEF DreamNext

LEMMA NamedKept ==
  ASSUME DreamInv, [DreamNext]_dreamVars, NEW x \in DreamIds,
         dream'[x].session # dream[x].session => dream'[x].session = NoSession \/ session'[x][dream'[x].session] # "none",
         \A s \in Sweeps : reading'[s][x] \in {reading[s][x], NotRead, dream[x].session},
         canceling'[x] \in {canceling[x], NotRead, dream[x].session}
  PROVE  Named(x)'
  <1>1. Named(x) /\ dream[x].session \in 0..MaxSessions /\ NotRead \notin Numbers
    BY Numbering DEF DreamInv, AllNamed, Typed, DreamRows
  <1>2. dream'[x].session # NoSession => session'[x][dream'[x].session] # "none"
    BY <1>1, Persists, Numbering DEF Named
  <1>3. ASSUME NEW k \in Numbers, k = dream[x].session \/ k = canceling[x] \/ \E s \in Sweeps : k = reading[s][x]
        PROVE  session'[x][k] # "none"
    BY <1>1, <1>3, Persists, Numbering DEF Named
  <1>4. \A s \in Sweeps : reading'[s][x] \in Numbers => session'[x][reading'[s][x]] # "none"
    BY <1>1, <1>3
  <1>5. canceling'[x] \in Numbers => session'[x][canceling'[x]] # "none"
    BY <1>1, <1>3
  <1> QED
    BY <1>2, <1>4, <1>5 DEF Named

LEMMA StartNames ==
  ASSUME Typed, NEW d \in DreamIds, NEW row \in DreamRows, startDream(d, row),
         row.session = NoSession, NEW x \in DreamIds, dream'[x].session # dream[x].session
  PROVE  dream'[x].session = NoSession \/ session'[x][dream'[x].session] # "none"
  <1>1. ASSUME NEW k \in Numbers, StartsAs(d, row, k)
        PROVE  session'[x][dream'[x].session] # "none"
    <2>1. x = d
      BY <1>1 DEF StartsAs, Typed
    <2>2. dream'[x].session = k /\ session'[x][k] = "working"
      BY <1>1, <2>1 DEF StartsAs, Typed, DreamRows
    <2> QED
      BY <2>2
  <1>2. CASE Fails(d, row)
    <2>1. x = d
      BY <1>2 DEF Fails, Typed
    <2> QED
      BY <1>2, <2>1 DEF Fails, Typed, DreamRows
  <1> QED
    BY <1>1, <1>2, Starts

LEMMA NamedStep ==
  ASSUME DreamInv, [DreamNext]_dreamVars
  PROVE  AllNamed'
  <1> USE DEF DreamInv
  <1>1. ASSUME NEW d \in DreamIds, CreateDream(d) PROVE AllNamed'
    <2>0. SUFFICES ASSUME NEW x \in DreamIds
                PROVE  /\ dream'[x].session # dream[x].session => dream'[x].session = NoSession \/ session'[x][dream'[x].session] # "none"
                       /\ \A z \in Sweeps : reading'[z][x] \in {reading[z][x], NotRead, dream[x].session}
                       /\ canceling'[x] \in {canceling[x], NotRead, dream[x].session}
      BY NamedKept DEF AllNamed
    <2>1. PICK existing \in BOOLEAN :
            startDream(d, [NoDream EXCEPT !.status = "pending", !.existing = existing])
      BY <1>1 DEF CreateDream
    <2>2. [NoDream EXCEPT !.status = "pending", !.existing = existing].session = NoSession
      BY DEF NoDream
    <2>3. UNCHANGED <<reading, canceling>>
      BY <1>1 DEF CreateDream
    <2> QED
      BY <2>1, <2>2, <2>3, NewRow, StartNames
  <1>2. ASSUME NEW d \in DreamIds, RetrieveDream(d) PROVE AllNamed'
    <2>1. dream[d].session \in 0..MaxSessions /\ (dream[d].session \in Numbers => session[d][dream[d].session] # "none")
      BY Numbering DEF Typed, DreamRows, AllNamed, Named
    <2>2. \/ UNCHANGED <<dream, session>>
          \/ dream[d].session = NoSession /\ startDream(d, dream[d])
          \/ Ends(d, dream[d].session)
      BY <1>2, <2>1, Synced DEF RetrieveDream
    <2>3. UNCHANGED <<reading, canceling, draining, cutOff, disturbances>>
      BY <1>2 DEF RetrieveDream
    <2>4. SUFFICES ASSUME NEW x \in DreamIds
                PROVE  /\ dream'[x].session # dream[x].session => dream'[x].session = NoSession \/ session'[x][dream'[x].session] # "none"
                       /\ \A z \in Sweeps : reading'[z][x] \in {reading[z][x], NotRead, dream[x].session}
                       /\ canceling'[x] \in {canceling[x], NotRead, dream[x].session}
      BY NamedKept DEF AllNamed
    <2>5. CASE dream[d].session = NoSession /\ startDream(d, dream[d])
      BY <2>3, <2>5, StartNames DEF Typed
    <2>6. CASE Ends(d, dream[d].session)
      BY <2>3, <2>6 DEF Ends, Typed
    <2> QED
      BY <2>2, <2>3, <2>5, <2>6
  <1>3. ASSUME NEW d \in DreamIds, CancelFound(d) PROVE AllNamed'
    <2>0. SUFFICES ASSUME NEW x \in DreamIds
                PROVE  /\ dream'[x].session # dream[x].session => dream'[x].session = NoSession \/ session'[x][dream'[x].session] # "none"
                       /\ \A z \in Sweeps : reading'[z][x] \in {reading[z][x], NotRead, dream[x].session}
                       /\ canceling'[x] \in {canceling[x], NotRead, dream[x].session}
      BY NamedKept DEF AllNamed
    <2> QED
      BY <1>3 DEF CancelFound, Typed
  <1>4. ASSUME NEW d \in DreamIds, cancelDream(d) PROVE AllNamed'
    <2>0. SUFFICES ASSUME NEW x \in DreamIds
                PROVE  /\ dream'[x].session # dream[x].session => dream'[x].session = NoSession \/ session'[x][dream'[x].session] # "none"
                       /\ \A z \in Sweeps : reading'[z][x] \in {reading[z][x], NotRead, dream[x].session}
                       /\ canceling'[x] \in {canceling[x], NotRead, dream[x].session}
      BY NamedKept DEF AllNamed
    <2> QED
      BY <1>4 DEF cancelDream, Typed
  <1>5. ASSUME NEW d \in DreamIds, ArchiveDream(d) PROVE AllNamed'
    <2>0. SUFFICES ASSUME NEW x \in DreamIds
                PROVE  /\ dream'[x].session # dream[x].session => dream'[x].session = NoSession \/ session'[x][dream'[x].session] # "none"
                       /\ \A z \in Sweeps : reading'[z][x] \in {reading[z][x], NotRead, dream[x].session}
                       /\ canceling'[x] \in {canceling[x], NotRead, dream[x].session}
      BY NamedKept DEF AllNamed
    <2> QED
      BY <1>5 DEF ArchiveDream, Typed
  <1>6. ASSUME NEW d \in DreamIds, CreateCutOff(d) PROVE AllNamed'
    <2>0. SUFFICES ASSUME NEW x \in DreamIds
                PROVE  /\ dream'[x].session # dream[x].session => dream'[x].session = NoSession \/ session'[x][dream'[x].session] # "none"
                       /\ \A z \in Sweeps : reading'[z][x] \in {reading[z][x], NotRead, dream[x].session}
                       /\ canceling'[x] \in {canceling[x], NotRead, dream[x].session}
      BY NamedKept DEF AllNamed
    <2>1. PICK existing \in BOOLEAN :
            dream' = [dream EXCEPT ![d] = [NoDream EXCEPT !.status = "pending", !.existing = existing]]
      BY <1>6 DEF CreateCutOff
    <2>2. dream'[x].session # dream[x].session => dream'[x].session = NoSession
      BY <2>1 DEF Typed, NoDream
    <2> QED
      BY <1>6, <2>2 DEF CreateCutOff, ProcessDies
  <1>7. ASSUME NEW s \in Sweeps, sweepDreams(s) PROVE AllNamed'
    <2>0. SUFFICES ASSUME NEW x \in DreamIds
                PROVE  /\ dream'[x].session # dream[x].session => dream'[x].session = NoSession \/ session'[x][dream'[x].session] # "none"
                       /\ \A z \in Sweeps : reading'[z][x] \in {reading[z][x], NotRead, dream[x].session}
                       /\ canceling'[x] \in {canceling[x], NotRead, dream[x].session}
      BY NamedKept DEF AllNamed
    <2> QED
      BY <1>7 DEF sweepDreams, Typed
  <1>8. ASSUME NEW s \in Sweeps, SweepRow(s) PROVE AllNamed'
    <2>1. PICK d \in DreamIds :
            /\ reading[s][d] # NotRead /\ syncDream(d, reading[s][d])
            /\ reading' = [reading EXCEPT ![s][d] = NotRead]
            /\ UNCHANGED <<canceling, draining, cutOff, disturbances>>
      BY <1>8 DEF SweepRow
    <2>2. reading[s][d] \in 0..MaxSessions /\ (reading[s][d] \in Numbers => session[d][reading[s][d]] # "none")
      BY <2>1 DEF Typed, AllNamed, Named
    <2>3. \/ UNCHANGED <<dream, session>>
          \/ reading[s][d] = NoSession /\ startDream(d, dream[d])
          \/ Ends(d, reading[s][d])
      BY <2>1, <2>2, Synced
    <2>4. SUFFICES ASSUME NEW x \in DreamIds
                PROVE  /\ dream'[x].session # dream[x].session => dream'[x].session = NoSession \/ session'[x][dream'[x].session] # "none"
                       /\ \A z \in Sweeps : reading'[z][x] \in {reading[z][x], NotRead, dream[x].session}
                       /\ canceling'[x] \in {canceling[x], NotRead, dream[x].session}
      BY NamedKept DEF AllNamed
    <2>5. \A z \in Sweeps : reading'[z][x] \in {reading[z][x], NotRead, dream[x].session}
      BY <2>1 DEF Typed
    <2>6. CASE startDream(d, dream[d])
      <3>1. dream[d] \in DreamRows
        BY DEF Typed
      <3>2. ASSUME NEW k \in Numbers, StartsAs(d, dream[d], k)
            PROVE  dream'[x].session # dream[x].session => session'[x][dream'[x].session] # "none"
        BY <3>2 DEF StartsAs, Typed, DreamRows
      <3>3. ASSUME Fails(d, dream[d])
            PROVE  dream'[x].session = dream[x].session
        BY <3>3 DEF Fails, Typed, DreamRows
      <3> QED
        BY <2>1, <2>5, <2>6, <3>1, <3>2, <3>3, Starts
    <2>7. CASE Ends(d, reading[s][d])
      BY <2>1, <2>5, <2>7 DEF Ends, Typed
    <2> QED
      BY <2>1, <2>3, <2>5, <2>6, <2>7
  <1>9. ASSUME NEW d \in DreamIds, NEW k \in Numbers, Drained(d, k) PROVE AllNamed'
    <2>0. SUFFICES ASSUME NEW x \in DreamIds
                PROVE  /\ dream'[x].session # dream[x].session => dream'[x].session = NoSession \/ session'[x][dream'[x].session] # "none"
                       /\ \A z \in Sweeps : reading'[z][x] \in {reading[z][x], NotRead, dream[x].session}
                       /\ canceling'[x] \in {canceling[x], NotRead, dream[x].session}
      BY NamedKept DEF AllNamed
    <2> QED
      BY <1>9 DEF Drained
  <1>10. ASSUME NEW d \in DreamIds, NEW k \in Numbers, TurnEnds(d, k) PROVE AllNamed'
    <2>0. SUFFICES ASSUME NEW x \in DreamIds
                PROVE  /\ dream'[x].session # dream[x].session => dream'[x].session = NoSession \/ session'[x][dream'[x].session] # "none"
                       /\ \A z \in Sweeps : reading'[z][x] \in {reading[z][x], NotRead, dream[x].session}
                       /\ canceling'[x] \in {canceling[x], NotRead, dream[x].session}
      BY NamedKept DEF AllNamed
    <2> QED
      BY <1>10 DEF TurnEnds
  <1>11. ASSUME NEW d \in DreamIds, NEW k \in Numbers, Meddle(d, k) PROVE AllNamed'
    <2>0. SUFFICES ASSUME NEW x \in DreamIds
                PROVE  /\ dream'[x].session # dream[x].session => dream'[x].session = NoSession \/ session'[x][dream'[x].session] # "none"
                       /\ \A z \in Sweeps : reading'[z][x] \in {reading[z][x], NotRead, dream[x].session}
                       /\ canceling'[x] \in {canceling[x], NotRead, dream[x].session}
      BY NamedKept DEF AllNamed
    <2> QED
      BY <1>11 DEF Meddle
  <1>12. CASE DreamCrash
    <2>0. SUFFICES ASSUME NEW x \in DreamIds
                PROVE  /\ dream'[x].session # dream[x].session => dream'[x].session = NoSession \/ session'[x][dream'[x].session] # "none"
                       /\ \A z \in Sweeps : reading'[z][x] \in {reading[z][x], NotRead, dream[x].session}
                       /\ canceling'[x] \in {canceling[x], NotRead, dream[x].session}
      BY NamedKept DEF AllNamed
    <2> QED
      BY <1>12 DEF DreamCrash, ProcessDies
  <1>13. CASE UNCHANGED dreamVars
    BY <1>13 DEF dreamVars, AllNamed, Named
  <1> QED
    BY <1>1, <1>2, <1>3, <1>4, <1>5, <1>6, <1>7, <1>8, <1>9, <1>10, <1>11, <1>12, <1>13 DEF DreamNext

--------------------------------------------------------------------------------
(* Dreams that nothing cut off. *)

LEMMA Untouched ==
  ASSUME NEW x \in DreamIds, Whole(x), dream'[x] = dream[x], session'[x] = session[x],
         \A s \in Sweeps : reading'[s][x] \in {reading[s][x], NotRead},
         \A k \in Numbers : <<x, k>> \in draining => <<x, k>> \in draining'
  PROVE  Whole(x)'
  BY DEF Whole, ActiveDream, TerminalDream

\* Where its row names a session, whoever read it read that one.
LEMMA WholeFacts ==
  ASSUME DreamInv, NEW x \in DreamIds \ cutOff
  PROVE  /\ Whole(x) /\ Named(x) /\ dream[x] \in DreamRows
         /\ ActiveDream(x) => dream[x].session \in Numbers
         /\ \A s \in Sweeps : reading[s][x] # NotRead =>
              reading[s][x] \in Numbers /\ reading[s][x] = dream[x].session /\ dream[x].status # "none"
         /\ canceling[x] # NotRead =>
              canceling[x] \in Numbers /\ canceling[x] = dream[x].session /\ dream[x].status # "none"
  <1>1. Whole(x) /\ Named(x) /\ dream[x] \in DreamRows
    BY DEF DreamInv, AllWhole, AllNamed, Typed
  <1>2. ActiveDream(x) => dream[x].session \in Numbers
    BY <1>1, Numbering DEF DreamInv, Typed, Whole, ActiveDream, DreamRows
  <1>3. ASSUME NEW s \in Sweeps, reading[s][x] # NotRead
        PROVE  reading[s][x] \in Numbers /\ reading[s][x] = dream[x].session /\ dream[x].status # "none"
    BY <1>1, <1>3 DEF Whole, Named
  <1>4. canceling[x] # NotRead =>
              canceling[x] \in Numbers /\ canceling[x] = dream[x].session /\ dream[x].status # "none"
    BY <1>1 DEF DreamInv, Typed, Whole, Named
  <1> QED
    BY <1>1, <1>2, <1>3, <1>4

LEMMA EndKeepsWhole ==
  ASSUME DreamInv, NEW x \in DreamIds \ cutOff, Ends(x, dream[x].session), Named(x),
         \A s \in Sweeps : reading'[s][x] \in {reading[s][x], NotRead}, UNCHANGED draining
  PROVE  Whole(x)'
  <1> DEFINE k == dream[x].session
  <1>1. PICK finalStatus \in Ended : dream' = [dream EXCEPT ![x].status = finalStatus]
    BY DEF Ends
  <1>2. k \in Numbers /\ session[x][k] # "working" /\ session' = finished(x, k)
    BY DEF Ends
  <1>3. Whole(x) /\ dream[x] \in DreamRows /\ session[x][k] # "none"
    BY WholeFacts, <1>2, Numbering DEF Named
  <1>4. dream'[x] = [dream[x] EXCEPT !.status = finalStatus]
    BY <1>1 DEF DreamInv, Typed
  <1>5. dream'[x].status = finalStatus /\ dream'[x].session = k
    BY <1>3, <1>4 DEF DreamRows
  <1>6. ASSUME NEW j \in Numbers, j # k PROVE session'[x][j] = "none"
    <2>1. session[x][j] = "none"
      BY <1>3, <1>6 DEF Whole
    <2> HIDE DEF k
    <2> QED
      BY <1>2, <2>1, Finished DEF DreamInv
  <1>7. session'[x][k] \notin {"working"} \cup idleStates
    BY <1>2, Finished DEF DreamInv, idleStates
  <1> HIDE DEF k
  <1> QED
    BY <1>3, <1>5, <1>6, <1>7 DEF Whole, ActiveDream, TerminalDream, Ended, idleStates

LEMMA NotCanceling ==
  ASSUME DreamInv, NEW x \in DreamIds \ cutOff, dream[x].status = "none"
  PROVE  \A s \in Sweeps : reading[s][x] = NotRead
  BY WholeFacts

\* A session leaves the state it is in, and is not working again.
LEMMA Ceases ==
  ASSUME DreamInv, NEW x \in DreamIds \ cutOff, NEW d \in DreamIds, NEW k \in Numbers,
         NEW state \in idleStates \cup {"archived", "gone"}, session[d][k] # "none",
         state \in idleStates => session[d][k] = "working",
         session' = [session EXCEPT ![d][k] = state], UNCHANGED <<dream, reading, draining>>
  PROVE  Whole(x)'
  <1>1. Whole(x) /\ session \in [DreamIds -> [Numbers -> PipelineStates]]
    BY WholeFacts DEF DreamInv, Typed
  <1>2. CASE x # d
    BY <1>1, <1>2, Untouched
  <1>3. CASE x = d
    <2>1. session'[x][k] = state /\ \A j \in Numbers : j # k => session'[x][j] = session[x][j]
      BY <1>1, <1>3
    <2>2. state # "working" /\ state # "none"
      BY DEF idleStates
    <2> QED
      BY <1>1, <1>3, <2>1, <2>2 DEF Whole, ActiveDream, TerminalDream
  <1> QED
    BY <1>2, <1>3

LEMMA DiesWhole ==
  ASSUME DreamInv, NEW started \in SUBSET DreamIds, ProcessDies(started),
         NEW x \in DreamIds \ cutOff', dream'[x] = dream[x]
  PROVE  Whole(x)'
  <1>1. x \in DreamIds \ cutOff /\ \A k \in Numbers : <<x, k>> \notin draining
    BY DEF ProcessDies
  <1>2. Whole(x)
    BY <1>1, WholeFacts
  <1>3. /\ \A k \in Numbers : session'[x][k] = IF session[x][k] = "working" THEN "stopped" ELSE session[x][k]
        /\ \A s \in Sweeps : reading'[s][x] = NotRead
    BY DEF ProcessDies
  <1> QED
    BY <1>1, <1>2, <1>3 DEF Whole, ActiveDream, TerminalDream, idleStates

LEMMA WholeStep ==
  ASSUME DreamInv, [DreamNext]_dreamVars
  PROVE  AllWhole'
  <1> USE DEF DreamInv
  <1>1. ASSUME NEW d \in DreamIds, CreateDream(d) PROVE AllWhole'
    <2>0. SUFFICES ASSUME NEW x \in DreamIds \ cutOff' PROVE Whole(x)'
      BY DEF AllWhole
    <2>1. PICK existing \in BOOLEAN :
            /\ dream[d].status = "none"
            /\ startDream(d, [NoDream EXCEPT !.status = "pending", !.existing = existing])
      BY <1>1 DEF CreateDream, Admitted
    <2>2. UNCHANGED <<reading, canceling, draining, cutOff>>
      BY <1>1 DEF CreateDream
    <2> DEFINE row == [NoDream EXCEPT !.status = "pending", !.existing = existing]
    <2>3. row \in DreamRows /\ row.session = NoSession /\ row.archived = FALSE
      BY NewRow DEF NoDream
    <2> HIDE DEF row
    <2>4. /\ Whole(x) /\ dream \in [DreamIds -> DreamRows]
          /\ session \in [DreamIds -> [Numbers -> PipelineStates]]
      BY <2>2, WholeFacts DEF Typed
    <2>5. CASE x # d
      <3>1. dream'[x] = dream[x] /\ session'[x] = session[x]
        BY <2>1, <2>5, StartsOnly DEF Typed
      <3> QED
        BY <2>2, <2>4, <3>1, Untouched
    <2>6. CASE x = d
      <3>1. (\A k \in Numbers : session[x][k] = "none") /\ \A s \in Sweeps : reading'[s][x] = NotRead
        BY <2>1, <2>2, <2>4, <2>6, NotCanceling DEF Whole
      <3>2. ASSUME NEW k \in Numbers, StartsAs(d, row, k)
            PROVE  Whole(x)'
        <4>1. /\ dream'[x].status = "running" /\ dream'[x].session = k
              /\ dream'[x].output /\ ~ dream'[x].archived
          BY <2>3, <2>4, <2>6, <3>2 DEF StartsAs, DreamRows
        <4>2. \A j \in Numbers : j # k => session'[x][j] = "none"
          BY <2>4, <2>6, <3>1, <3>2 DEF StartsAs
        <4> QED
          BY <3>1, <4>1, <4>2 DEF Whole, ActiveDream, TerminalDream
      <3>3. ASSUME Fails(d, row)
            PROVE  Whole(x)'
        <4>1. dream'[x].status = "failed"
          BY <2>3, <2>4, <2>6, <3>3 DEF Fails, DreamRows
        <4> QED
          BY <3>1, <3>3, <4>1 DEF Fails, Whole, ActiveDream, TerminalDream, idleStates
      <3> QED
        BY <2>1, <2>3, <3>2, <3>3, Starts DEF row
    <2> QED
      BY <2>5, <2>6
  <1>2. ASSUME NEW d \in DreamIds, RetrieveDream(d) PROVE AllWhole'
    <2>1. dream[d].session \in 0..MaxSessions /\ (dream[d].session \in Numbers => session[d][dream[d].session] # "none")
      BY Numbering DEF Typed, DreamRows, AllNamed, Named
    <2>2. \/ UNCHANGED <<dream, session>>
          \/ dream[d].session = NoSession /\ startDream(d, dream[d])
          \/ Ends(d, dream[d].session)
      BY <1>2, <2>1, Synced DEF RetrieveDream
    <2>3. UNCHANGED <<reading, canceling, draining, cutOff, disturbances>>
      BY <1>2 DEF RetrieveDream
    <2>4. SUFFICES ASSUME NEW x \in DreamIds \ cutOff' PROVE Whole(x)'
      BY DEF AllWhole
    <2>5. Whole(x) /\ Named(x) /\ x \in DreamIds \ cutOff
      BY <2>3, WholeFacts
    <2>6. CASE UNCHANGED <<dream, session>>
      BY <2>3, <2>5, <2>6, Untouched
    <2>7. CASE x # d
      <3>1. dream[d] \in DreamRows /\ dream \in [DreamIds -> DreamRows]
            /\ session \in [DreamIds -> [Numbers -> PipelineStates]]
        BY DEF Typed
      <3>2. dream'[x] = dream[x]
        BY <2>2, <2>7, <3>1, StartsOnly DEF Ends
      <3>3. session'[x] = session[x]
        BY <2>2, <2>7, <3>1, StartsOnly, Finished DEF Ends
      <3> QED
        BY <2>3, <2>5, <3>2, <3>3, Untouched
    <2>8. CASE x = d
      <3>1. dream[d].session # NoSession
        BY <1>2, <2>5, <2>8, WholeFacts, Numbering DEF RetrieveDream
      <3> QED
        BY <2>2, <2>3, <2>5, <2>6, <2>8, <3>1, EndKeepsWhole
    <2> QED
      BY <2>7, <2>8
  <1>3. ASSUME NEW d \in DreamIds, CancelFound(d) PROVE AllWhole'
    <2>0. SUFFICES ASSUME NEW x \in DreamIds \ cutOff' PROVE Whole(x)'
      BY DEF AllWhole
    <2> QED
      BY <1>3, WholeFacts, Untouched DEF CancelFound
  <1>4. ASSUME NEW d \in DreamIds, cancelDream(d) PROVE AllWhole'
    <2>0. SUFFICES ASSUME NEW x \in DreamIds \ cutOff' PROVE Whole(x)'
      BY DEF AllWhole
    <2> DEFINE k == canceling[d]
    <2>1. /\ k \in Numbers /\ dream' = [dream EXCEPT ![d].status = "canceled"] /\ session' = finished(d, k)
          /\ draining' = IF session[d][k] = "working" THEN draining \cup {<<d, k>>} ELSE draining
          /\ UNCHANGED <<reading, cutOff>>
      BY <1>4 DEF cancelDream, Typed
    <2>2. k # NotRead
      BY <1>4 DEF cancelDream
    <2> HIDE DEF k
    <2>3. Whole(x) /\ dream[x] \in DreamRows /\ x \in DreamIds \ cutOff
      BY <2>1, WholeFacts
    <2>4. CASE x # d
      <3>1. dream'[x] = dream[x] /\ session'[x] = session[x]
        BY <2>1, <2>4, Finished DEF Typed
      <3> QED
        BY <2>1, <2>3, <3>1, Untouched
    <2>5. CASE x = d
      <3>1. k = dream[x].session /\ dream[x].status # "none"
        BY <2>2, <2>3, <2>5, WholeFacts DEF k
      <3>2. dream'[x] = [dream[x] EXCEPT !.status = "canceled"]
        BY <2>1, <2>5 DEF Typed
      <3>3. dream'[x].status = "canceled" /\ dream'[x].session = k
        BY <2>3, <3>1, <3>2 DEF DreamRows
      <3>4. ASSUME NEW j \in Numbers, j # k PROVE session'[x][j] = "none"
        <4>1. session[x][j] = "none"
          BY <2>3, <3>1, <3>4 DEF Whole
        <4> QED
          BY <2>1, <2>5, <4>1, Finished
      <3>5. session'[x][k] \in {"working"} \cup idleStates => <<x, k>> \in draining'
        BY <2>1, <2>5, Finished DEF idleStates
      <3> QED
        BY <2>1, <2>3, <3>3, <3>4, <3>5 DEF Whole, ActiveDream, TerminalDream, idleStates
    <2> QED
      BY <2>4, <2>5
  <1>5. ASSUME NEW d \in DreamIds, ArchiveDream(d) PROVE AllWhole'
    <2>0. SUFFICES ASSUME NEW x \in DreamIds \ cutOff' PROVE Whole(x)'
      BY DEF AllWhole
    <2>1. /\ TerminalDream(d) /\ dream' = [dream EXCEPT ![d].archived = TRUE]
          /\ UNCHANGED <<session, reading, draining, cutOff>>
      BY <1>5 DEF ArchiveDream
    <2>2. Whole(x) /\ dream[x] \in DreamRows
      BY <2>1, WholeFacts
    <2>3. CASE x # d
      BY <2>1, <2>2, <2>3, Untouched DEF Typed
    <2>4. CASE x = d
      <3>1. dream'[x] = [dream[x] EXCEPT !.archived = TRUE]
        BY <2>1, <2>4 DEF Typed
      <3>2. dream'[x].status = dream[x].status /\ dream'[x].session = dream[x].session
        BY <2>2, <3>1 DEF DreamRows
      <3> QED
        BY <2>1, <2>2, <2>4, <3>2 DEF Whole, ActiveDream, TerminalDream
    <2> QED
      BY <2>3, <2>4
  <1>6. ASSUME NEW d \in DreamIds, CreateCutOff(d) PROVE AllWhole'
    <2>0. SUFFICES ASSUME NEW x \in DreamIds \ cutOff' PROVE Whole(x)'
      BY DEF AllWhole
    <2>1. ProcessDies({d}) /\ x # d /\ dream'[x] = dream[x]
      BY <1>6 DEF CreateCutOff, ProcessDies, Typed
    <2> QED
      BY <2>1, DiesWhole
  <1>7. ASSUME NEW s \in Sweeps, sweepDreams(s) PROVE AllWhole'
    <2>0. SUFFICES ASSUME NEW x \in DreamIds \ cutOff' PROVE Whole(x)'
      BY DEF AllWhole
    <2>1. /\ reading' = [reading EXCEPT ![s] =
               [e \in DreamIds |-> IF ActiveDream(e) THEN dream[e].session ELSE NotRead]]
          /\ UNCHANGED <<dream, session, draining, cutOff>>
      BY <1>7 DEF sweepDreams
    <2>2. Whole(x) /\ (ActiveDream(x) => dream[x].session \in Numbers)
      BY <2>1, WholeFacts
    <2>3. \A z \in Sweeps : reading'[z][x] # NotRead => reading'[z][x] \in Numbers
      BY <2>1, <2>2 DEF Typed, Whole
    <2> QED
      BY <2>1, <2>2, <2>3 DEF Whole, ActiveDream, TerminalDream
  <1>8. ASSUME NEW s \in Sweeps, SweepRow(s) PROVE AllWhole'
    <2>1. PICK d \in DreamIds :
            /\ reading[s][d] # NotRead /\ syncDream(d, reading[s][d])
            /\ reading' = [reading EXCEPT ![s][d] = NotRead]
            /\ UNCHANGED <<canceling, draining, cutOff, disturbances>>
      BY <1>8 DEF SweepRow
    <2>2. reading[s][d] \in 0..MaxSessions /\ (reading[s][d] \in Numbers => session[d][reading[s][d]] # "none")
      BY <2>1 DEF Typed, AllNamed, Named
    <2>3. \/ UNCHANGED <<dream, session>>
          \/ reading[s][d] = NoSession /\ startDream(d, dream[d])
          \/ Ends(d, reading[s][d])
      BY <2>1, <2>2, Synced
    <2>4. SUFFICES ASSUME NEW x \in DreamIds \ cutOff' PROVE Whole(x)'
      BY DEF AllWhole
    <2>5. Whole(x) /\ Named(x) /\ x \in DreamIds \ cutOff
      BY <2>1, WholeFacts
    <2>6. \A z \in Sweeps : reading'[z][x] \in {reading[z][x], NotRead}
      BY <2>1 DEF Typed
    <2>7. CASE UNCHANGED <<dream, session>>
      BY <2>1, <2>5, <2>6, <2>7, Untouched
    <2>8. CASE x # d
      <3>1. dream[d] \in DreamRows /\ dream \in [DreamIds -> DreamRows]
            /\ session \in [DreamIds -> [Numbers -> PipelineStates]]
        BY DEF Typed
      <3>2. dream'[x] = dream[x]
        BY <2>3, <2>8, <3>1, StartsOnly DEF Ends
      <3>3. session'[x] = session[x]
        BY <2>3, <2>8, <3>1, StartsOnly, Finished DEF Ends
      <3> QED
        BY <2>1, <2>5, <2>6, <3>2, <3>3, Untouched
    <2>9. CASE x = d
      <3>1. reading[s][d] = dream[d].session /\ reading[s][d] # NoSession
        BY <2>1, <2>5, <2>9, WholeFacts, Numbering
      <3> QED
        BY <2>1, <2>3, <2>5, <2>6, <2>7, <2>9, <3>1, EndKeepsWhole
    <2> QED
      BY <2>8, <2>9
  <1>9. ASSUME NEW d \in DreamIds, NEW k \in Numbers, Drained(d, k) PROVE AllWhole'
    <2>0. SUFFICES ASSUME NEW x \in DreamIds \ cutOff' PROVE Whole(x)'
      BY DEF AllWhole
    <2>1. /\ session[d][k] # "working" /\ draining' = draining \ {<<d, k>>} /\ session' = finished(d, k)
          /\ UNCHANGED <<dream, reading, cutOff>>
      BY <1>9 DEF Drained
    <2>2. Whole(x)
      BY <2>1, WholeFacts
    <2>3. CASE x # d
      BY <2>1, <2>2, <2>3, Untouched, Finished
    <2>4. CASE x = d
      <3>1. session'[x][k] \notin {"working"} \cup idleStates
        BY <2>1, <2>4, Finished DEF idleStates
      <3>2. (\A j \in Numbers : j # k => session'[x][j] = session[x][j])
            /\ (session'[x][k] # "none" <=> session[x][k] # "none")
        BY <2>1, <2>4, Finished DEF idleStates
      <3> QED
        BY <2>1, <2>2, <2>4, <3>1, <3>2 DEF Whole, ActiveDream, TerminalDream
    <2> QED
      BY <2>3, <2>4
  <1>10. ASSUME NEW d \in DreamIds, NEW k \in Numbers, TurnEnds(d, k) PROVE AllWhole'
    <2>0. SUFFICES ASSUME NEW x \in DreamIds \ cutOff' PROVE Whole(x)'
      BY DEF AllWhole
    <2>1. session[d][k] = "working" /\ UNCHANGED <<dream, reading, draining, cutOff>>
      BY <1>10 DEF TurnEnds
    <2>2. PICK state \in idleStates : session' = [session EXCEPT ![d][k] = state]
      BY <1>10 DEF TurnEnds, idleStates
    <2> QED
      BY <2>1, <2>2, WholeFacts, Ceases
  <1>11. ASSUME NEW d \in DreamIds, NEW k \in Numbers, Meddle(d, k) PROVE AllWhole'
    <2>0. SUFFICES ASSUME NEW x \in DreamIds \ cutOff' PROVE Whole(x)'
      BY DEF AllWhole
    <2>1. UNCHANGED <<dream, reading, draining, cutOff>>
      BY <1>11 DEF Meddle
    <2>2. PICK state \in idleStates \cup {"archived", "gone"} :
            /\ session' = [session EXCEPT ![d][k] = state]
            /\ session[d][k] \notin {"none", "gone"}
            /\ state \in idleStates => session[d][k] = "working"
      BY <1>11 DEF Meddle, idleStates
    <2> QED
      BY <2>1, <2>2, WholeFacts, Ceases DEF idleStates
  <1>12. CASE DreamCrash
    <2>0. SUFFICES ASSUME NEW x \in DreamIds \ cutOff' PROVE Whole(x)'
      BY DEF AllWhole
    <2> QED
      BY <1>12, DiesWhole DEF DreamCrash, ProcessDies
  <1>13. CASE UNCHANGED dreamVars
    BY <1>13 DEF dreamVars, AllWhole, Whole, ActiveDream, TerminalDream
  <1> QED
    BY <1>1, <1>2, <1>3, <1>4, <1>5, <1>6, <1>7, <1>8, <1>9, <1>10, <1>11, <1>12, <1>13 DEF DreamNext

--------------------------------------------------------------------------------
(* A dream becomes active only by being created. *)

Stays(x) == ActiveDream(x)' => ActiveDream(x) /\ dream'[x].existing = dream[x].existing

LEMMA SoleKept ==
  ASSUME DreamInv, cutOff \subseteq cutOff', \A x \in DreamIds \ cutOff' : Stays(x)
  PROVE  Sole'
  BY DEF DreamInv, Sole, Stays

LEMMA SoleStep ==
  ASSUME DreamInv, [DreamNext]_dreamVars
  PROVE  Sole'
  <1> USE DEF DreamInv
  <1>1. ASSUME NEW d \in DreamIds, CreateDream(d) PROVE Sole'
    <2>1. PICK existing \in BOOLEAN :
            /\ existing => ~ targetHeld(d)
            /\ startDream(d, [NoDream EXCEPT !.status = "pending", !.existing = existing])
      BY <1>1 DEF CreateDream, Admitted
    <2>2. UNCHANGED cutOff
      BY <1>1 DEF CreateDream
    <2> DEFINE row == [NoDream EXCEPT !.status = "pending", !.existing = existing]
    <2>3. row \in DreamRows /\ row.existing = existing /\ dream \in [DreamIds -> DreamRows]
      BY NewRow DEF NoDream, Typed
    <2> HIDE DEF row
    <2>4. dream'[d].existing = existing /\ \A x \in DreamIds : x # d => dream'[x] = dream[x]
      <3>1. ASSUME NEW k \in Numbers, StartsAs(d, row, k) PROVE dream'[d].existing = existing
        BY <2>3, <3>1 DEF StartsAs, DreamRows
      <3>2. ASSUME Fails(d, row) PROVE dream'[d].existing = existing
        BY <2>3, <3>2 DEF Fails, DreamRows
      <3>3. startDream(d, row)
        BY <2>1 DEF row
      <3> QED
        BY <3>1, <3>2, <3>3, Starts, StartsOnly
    <2>5. ASSUME NEW x \in DreamIds \ cutOff, x # d, ActiveDream(x), dream[x].existing PROVE ~ existing
      BY <2>1, <2>5, WholeFacts DEF targetHeld, Whole
    <2> QED
      BY <2>2, <2>4, <2>5 DEF Sole, ActiveDream
  <1>2. ASSUME NEW d \in DreamIds, RetrieveDream(d) PROVE Sole'
    <2>1. dream[d].session \in 0..MaxSessions /\ (dream[d].session \in Numbers => session[d][dream[d].session] # "none")
      BY Numbering DEF Typed, DreamRows, AllNamed, Named
    <2>2. \/ UNCHANGED <<dream, session>>
          \/ dream[d].session = NoSession /\ startDream(d, dream[d])
          \/ Ends(d, dream[d].session)
      BY <1>2, <2>1, Synced DEF RetrieveDream
    <2>3. UNCHANGED <<reading, canceling, draining, cutOff, disturbances>>
      BY <1>2 DEF RetrieveDream
    <2>4. ASSUME NEW x \in DreamIds \ cutOff PROVE Stays(x)
      <3>1. CASE UNCHANGED dream
        BY <3>1 DEF Stays, ActiveDream
      <3>2. CASE dream[d].session = NoSession /\ startDream(d, dream[d])
        <4>1. x # d
          BY <1>2, <2>4, <3>2, WholeFacts, Numbering DEF RetrieveDream
        <4>2. dream[d] \in DreamRows /\ dream \in [DreamIds -> DreamRows]
          BY DEF Typed
        <4>3. dream'[x] = dream[x]
          BY <3>2, <4>1, <4>2, StartsOnly
        <4> QED
          BY <4>3 DEF Stays, ActiveDream
      <3>3. CASE Ends(d, dream[d].session)
        BY <3>3 DEF Ends, Stays, ActiveDream, Ended, Typed
      <3> QED
        BY <2>2, <3>1, <3>2, <3>3
    <2> QED
      BY <2>3, <2>4, SoleKept
  <1>3. ASSUME NEW d \in DreamIds, CancelFound(d) PROVE Sole'
    <2>1. cutOff \subseteq cutOff' /\ \A x \in DreamIds \ cutOff' : Stays(x)
      BY <1>3 DEF CancelFound, Stays, ActiveDream, Typed
    <2> QED
      BY <2>1, SoleKept
  <1>4. ASSUME NEW d \in DreamIds, cancelDream(d) PROVE Sole'
    <2>1. cutOff \subseteq cutOff' /\ \A x \in DreamIds \ cutOff' : Stays(x)
      BY <1>4 DEF cancelDream, Stays, ActiveDream, Typed
    <2> QED
      BY <2>1, SoleKept
  <1>5. ASSUME NEW d \in DreamIds, ArchiveDream(d) PROVE Sole'
    <2>1. cutOff \subseteq cutOff' /\ \A x \in DreamIds \ cutOff' : Stays(x)
      BY <1>5 DEF ArchiveDream, TerminalDream, Stays, ActiveDream, Typed
    <2> QED
      BY <2>1, SoleKept
  <1>6. ASSUME NEW d \in DreamIds, CreateCutOff(d) PROVE Sole'
    <2>1. cutOff \subseteq cutOff' /\ \A x \in DreamIds \ cutOff' : Stays(x)
      BY <1>6 DEF CreateCutOff, ProcessDies, Stays, ActiveDream, Typed
    <2> QED
      BY <2>1, SoleKept
  <1>7. ASSUME NEW s \in Sweeps, sweepDreams(s) PROVE Sole'
    <2>1. cutOff \subseteq cutOff' /\ \A x \in DreamIds \ cutOff' : Stays(x)
      BY <1>7 DEF sweepDreams, Stays, ActiveDream, Typed
    <2> QED
      BY <2>1, SoleKept
  <1>8. ASSUME NEW s \in Sweeps, SweepRow(s) PROVE Sole'
    <2>1. PICK d \in DreamIds :
            /\ reading[s][d] # NotRead /\ syncDream(d, reading[s][d])
            /\ reading' = [reading EXCEPT ![s][d] = NotRead]
            /\ UNCHANGED <<canceling, draining, cutOff, disturbances>>
      BY <1>8 DEF SweepRow
    <2>2. reading[s][d] \in 0..MaxSessions /\ (reading[s][d] \in Numbers => session[d][reading[s][d]] # "none")
      BY <2>1 DEF Typed, AllNamed, Named
    <2>3. \/ UNCHANGED <<dream, session>>
          \/ reading[s][d] = NoSession /\ startDream(d, dream[d])
          \/ Ends(d, reading[s][d])
      BY <2>1, <2>2, Synced
    <2>4. ASSUME NEW x \in DreamIds \ cutOff PROVE Stays(x)
      <3>1. CASE UNCHANGED dream
        BY <3>1 DEF Stays, ActiveDream
      <3>2. CASE reading[s][d] = NoSession /\ startDream(d, dream[d])
        <4>1. x # d
          BY <2>1, <2>4, <3>2, WholeFacts, Numbering
        <4>2. dream[d] \in DreamRows /\ dream \in [DreamIds -> DreamRows]
          BY DEF Typed
        <4>3. dream'[x] = dream[x]
          BY <3>2, <4>1, <4>2, StartsOnly
        <4> QED
          BY <4>3 DEF Stays, ActiveDream
      <3>3. CASE Ends(d, reading[s][d])
        BY <3>3 DEF Ends, Stays, ActiveDream, Ended, Typed
      <3> QED
        BY <2>3, <3>1, <3>2, <3>3
    <2> QED
      BY <2>1, <2>4, SoleKept
  <1>9. ASSUME NEW d \in DreamIds, NEW k \in Numbers, Drained(d, k) PROVE Sole'
    <2>1. cutOff \subseteq cutOff' /\ \A x \in DreamIds \ cutOff' : Stays(x)
      BY <1>9 DEF Drained, Stays, ActiveDream, Typed
    <2> QED
      BY <2>1, SoleKept
  <1>10. ASSUME NEW d \in DreamIds, NEW k \in Numbers, TurnEnds(d, k) PROVE Sole'
    <2>1. cutOff \subseteq cutOff' /\ \A x \in DreamIds \ cutOff' : Stays(x)
      BY <1>10 DEF TurnEnds, Stays, ActiveDream, Typed
    <2> QED
      BY <2>1, SoleKept
  <1>11. ASSUME NEW d \in DreamIds, NEW k \in Numbers, Meddle(d, k) PROVE Sole'
    <2>1. cutOff \subseteq cutOff' /\ \A x \in DreamIds \ cutOff' : Stays(x)
      BY <1>11 DEF Meddle, Stays, ActiveDream, Typed
    <2> QED
      BY <2>1, SoleKept
  <1>12. CASE DreamCrash
    <2>1. cutOff \subseteq cutOff' /\ \A x \in DreamIds \ cutOff' : Stays(x)
      BY <1>12 DEF DreamCrash, ProcessDies, Stays, ActiveDream, Typed
    <2> QED
      BY <2>1, SoleKept
  <1>13. CASE UNCHANGED dreamVars
    BY <1>13 DEF dreamVars, Sole, ActiveDream
  <1> QED
    BY <1>1, <1>2, <1>3, <1>4, <1>5, <1>6, <1>7, <1>8, <1>9, <1>10, <1>11, <1>12, <1>13 DEF DreamNext

--------------------------------------------------------------------------------
THEOREM DreamInvariance == DreamSpec => []DreamInv
  <1>1. DreamInit => DreamInv
    <2> SUFFICES ASSUME DreamInit PROVE DreamInv
      OBVIOUS
    <2>1. NoDream \in DreamRows /\ 0 \in 0..MaxDisturbances
      BY Numbering, DreamNumbers DEF NoDream, DreamRows
    <2>2. Typed
      BY <2>1 DEF DreamInit, Typed, PipelineStates, NoDream
    <2>3. AllNamed
      BY Numbering DEF DreamInit, AllNamed, Named, NoDream
    <2>4. AllWhole /\ Sole
      BY DEF DreamInit, AllWhole, Whole, Sole, ActiveDream, TerminalDream, NoDream
    <2> QED
      BY <2>2, <2>3, <2>4 DEF DreamInv
  <1>2. DreamInv /\ [DreamNext]_dreamVars => DreamInv'
    BY TypedStep, NamedStep, WholeStep, SoleStep DEF DreamInv
  <1> QED
    BY <1>1, <1>2, PTL DEF DreamSpec

\* Every variable keeps its type, and a running dream names a session.
THEOREM DreamTyped == DreamSpec => []DreamTypeOK
  <1>1. DreamInv => DreamTypeOK
    BY DEF DreamInv, Typed, DreamTypeOK
  <1> QED
    BY <1>1, DreamInvariance, PTL

\* A dream that is over, and was not cut off, has given its session back or waits
\* for the turn it aborted.
THEOREM DreamReleases == DreamSpec => []EndedDreamReleases
  <1>1. DreamInv => EndedDreamReleases
    BY DEF DreamInv, AllWhole, Whole, EndedDreamReleases
  <1> QED
    BY <1>1, DreamInvariance, PTL

\* Of the turns that write to the store all but one have been told to stop.
THEOREM DreamOneWriter == DreamSpec => []OneWriterUnlessAborted
  <1>1. DreamInv => OneWriterUnlessAborted
    <2> SUFFICES ASSUME DreamInv, NEW v \in writers \ draining, NEW w \in writers \ draining
                 PROVE  v = w
      BY DEF OneWriterUnlessAborted
    <2>1. ASSUME NEW x \in writers \ draining
          PROVE  /\ x[1] \in DreamIds \ cutOff /\ x = <<x[1], x[2]>>
                 /\ ActiveDream(x[1]) /\ dream[x[1]].existing /\ x[2] = dream[x[1]].session
      <3>1. /\ x[1] \in DreamIds \ cutOff /\ x[2] \in Numbers /\ x = <<x[1], x[2]>> /\ x \notin draining
            /\ dream[x[1]].existing /\ session[x[1]][x[2]] = "working"
        BY <2>1 DEF writers
      <3>2. Whole(x[1]) /\ dream[x[1]] \in DreamRows
        BY <3>1, WholeFacts
      <3>3. ~ TerminalDream(x[1]) /\ dream[x[1]].status # "none" /\ x[2] = dream[x[1]].session
        BY <3>1, <3>2 DEF Whole
      <3> QED
        BY <3>1, <3>2, <3>3 DEF ActiveDream, TerminalDream, DreamRows
    <2>2. v[1] = w[1]
      BY <2>1 DEF DreamInv, Sole
    <2> QED
      BY <2>1, <2>2
  <1> QED
    BY <1>1, DreamInvariance, PTL

-----------------------------------------------------------------------------
(* Outcomes. *)

\* What an event may say.
Event == [type : {"define", "start", "end", "work"}, outcome : {Other} \cup Ids,
          iteration : 0..MaxIterations - 1, result : {"none"} \cup Results]

LoopTyped ==
  /\ log \in Seq(Event)
  /\ queue \in Seq({Other} \cup Ids)
  /\ pc \in {"none", "turn", "grading", "revising", "settling"}
  /\ trigger \in {Other} \cup Ids
  /\ iteration \in 0..MaxIterations - 1
  /\ aborted \in BOOLEAN
  /\ pc \in {"grading", "revising", "settling"} => trigger # Other
  /\ pc \in {"none", "turn"} => iteration = 0
  /\ pc = "none" => trigger = Other

\* What a read makes of an outcome.
report(o) == outcomeEvaluationsFromEvents(log, o)

\* No event of an evaluation tells of the outcome.
Unstarted == {reported("pending", 0), reported("running", 0)}

ReportBounded(o) ==
  /\ report(o).iteration \in 0..MaxIterations - 1
  /\ report(o).result = "evaluating" => (running(o) /\ pc = "grading") \/ o \in cut
  /\ ~ declared(o) => report(o) \in Unstarted

\* The loop in memory and the log say the same of the outcome that runs.
ReportAgrees(o) ==
  running(o) =>
    /\ declared(o)
    /\ pc = "turn" => report(o) \in Unstarted
    /\ pc = "grading" => report(o) = reported("evaluating", iteration)
    /\ pc = "revising" => iteration # 0 /\ report(o) = reported("running", iteration)
    /\ pc = "settling" => report(o) = reported("max_iterations_reached", iteration)

\* A declaration that waits for its turn waits once, and nothing was evaluated.
Waits(o) == declared(o) /\ report(o) \in Unstarted /\ ~ running(o)

QueuedOnce ==
  \A k \in DOMAIN queue : queue[k] # Other =>
    /\ Waits(queue[k])
    /\ \A j \in DOMAIN queue : queue[j] = queue[k] => j = k

OutcomeInv ==
  /\ LoopTyped
  /\ \A o \in Ids : ReportBounded(o) /\ ReportAgrees(o)
  /\ QueuedOnce

-----------------------------------------------------------------------------
(* Reading a log that grows. *)

LEMMA MaxIn ==
  ASSUME NEW n \in Nat, NEW S, S \subseteq 1..n, S # {}
  PROVE  Max(S) \in S /\ \A x \in S : x =< Max(S)
<1> DEFINE T == {k \in Nat : \A x \in S : x =< k}
<1>1. T \subseteq Nat /\ T # {}
  <2>1. n \in T
    BY SMT
  <2>2. QED
    BY <2>1
<1>2. PICK m \in T : \A y \in T : <<y, m>> \notin OpToRel(<, Nat)
  <2> HIDE DEF T
  <2>1. QED
    BY <1>1, NatLessThanWellFounded, WFMin, Zenon
<1>3. \A y \in T : ~ (y < m)
  <2> HIDE DEF T
  <2>1. QED
    BY <1>1, <1>2, Zenon DEF OpToRel
<1>4. m \in S
  <2>1. SUFFICES ASSUME m \notin S PROVE FALSE
    OBVIOUS
  <2>a. PICK y \in S : TRUE
    OBVIOUS
  <2>b. m \in Nat /\ y =< m /\ y \in 1..n
    BY <2>a
  <2>2. m \in Nat /\ m >= 1
    BY <2>b, SMT
  <2>3. \A x \in S : x =< m - 1
    BY <2>1, SMT
  <2>4. m - 1 \in T
    BY <2>2, <2>3, SMT
  <2>5. QED
    BY <1>3, <2>2, <2>4, SMT
<1>5. \A x \in S : m >= x
  BY SMT
<1>6. Max(S) \in S /\ \A x \in S : Max(S) >= x
  BY <1>4, <1>5, Zenon DEF Max
<1>7. QED
  BY <1>6, SMT

LEMMA MaxIs ==
  ASSUME NEW n \in Nat, NEW S, S \subseteq 1..n, n \in S
  PROVE  Max(S) = n
<1>1. Max(S) \in S /\ n =< Max(S)
  BY MaxIn
<1>2. Max(S) \in 1..n
  BY <1>1
<1>3. QED
  BY <1>1, <1>2, SMT

finals(events, o) == {k \in spans(events, o) : events[k].type = "end"}

LEMMA SpanSets ==
  ASSUME NEW events \in Seq(Event), NEW o \in Ids
  PROVE  /\ Len(events) \in Nat /\ DOMAIN events = 1..Len(events)
         /\ spans(events, o) \subseteq 1..Len(events)
         /\ finals(events, o) \subseteq spans(events, o)
         /\ \A k \in DOMAIN events : events[k] \in Event
  BY DEF spans, finals

\* The derivation, by the two sets it reads.
LEMMA ReportIs ==
  ASSUME NEW events, NEW o
  PROVE  outcomeEvaluationsFromEvents(events, o) =
    IF finals(events, o) # {} /\ events[Max(finals(events, o))].result \in TERMINAL_RESULTS
    THEN reported(events[Max(finals(events, o))].result, events[Max(finals(events, o))].iteration)
    ELSE IF spans(events, o) = {}
    THEN reported(IF workBegan(events, o) THEN "running" ELSE "pending", 0)
    ELSE IF events[Max(spans(events, o))].type = "start"
    THEN reported("evaluating", events[Max(spans(events, o))].iteration)
    ELSE reported("running", events[Max(finals(events, o))].iteration + 1)
  BY DEF outcomeEvaluationsFromEvents, finals

LEMMA Appended ==
  ASSUME NEW events \in Seq(Event), NEW e \in Event
  PROVE  /\ Append(events, e) \in Seq(Event)
         /\ Len(Append(events, e)) = Len(events) + 1
         /\ DOMAIN Append(events, e) = 1..Len(events) + 1
         /\ \A k \in 1..Len(events) : Append(events, e)[k] = events[k]
         /\ Append(events, e)[Len(events) + 1] = e
  OBVIOUS

\* An event of something else leaves what is read.
LEMMA ReportKept ==
  ASSUME NEW events \in Seq(Event), NEW e \in Event, NEW o \in Ids,
         ~ (e.outcome = o /\ e.type \in {"start", "end"})
  PROVE  LET before == outcomeEvaluationsFromEvents(events, o)
             after == outcomeEvaluationsFromEvents(Append(events, e), o)
         IN after = before \/ (before \in Unstarted /\ after \in Unstarted)
<1> DEFINE more == Append(events, e)
           n == Len(events)
<1>1. /\ more \in Seq(Event) /\ DOMAIN more = 1..n + 1 /\ DOMAIN events = 1..n /\ n \in Nat
      /\ \A k \in 1..n : more[k] = events[k]
      /\ more[n + 1] = e
  BY Appended
<1> HIDE DEF more
<1>2. spans(more, o) = spans(events, o)
  BY <1>1 DEF spans
<1>3. finals(more, o) = finals(events, o)
  BY <1>1, <1>2, SpanSets DEF finals
<1>4. CASE spans(events, o) = {}
  <2>1. finals(events, o) = {}
    BY <1>4, SpanSets
  <2>2. /\ outcomeEvaluationsFromEvents(events, o) \in Unstarted
        /\ outcomeEvaluationsFromEvents(more, o) \in Unstarted
    BY <1>2, <1>3, <1>4, <2>1, ReportIs DEF Unstarted
  <2>3. QED
    BY <2>2 DEF more
<1>5. CASE spans(events, o) # {}
  <2>1. more[Max(spans(events, o))] = events[Max(spans(events, o))]
    BY <1>1, <1>5, MaxIn, SpanSets
  <2>2. finals(events, o) # {} => more[Max(finals(events, o))] = events[Max(finals(events, o))]
    <3>1. SUFFICES ASSUME finals(events, o) # {}
                   PROVE  more[Max(finals(events, o))] = events[Max(finals(events, o))]
      OBVIOUS
    <3>2. finals(events, o) \subseteq 1..n
      BY SpanSets
    <3>3. Max(finals(events, o)) \in 1..n
      BY <1>1, <3>1, <3>2, MaxIn
    <3>4. QED
      BY <1>1, <3>3
  <2>3. finals(events, o) = {} => events[Max(spans(events, o))].type = "start"
    <3>1. Max(spans(events, o)) \in spans(events, o)
      BY <1>1, <1>5, MaxIn, SpanSets
    <3>2. QED
      BY <3>1 DEF finals, spans
  <2>4. outcomeEvaluationsFromEvents(more, o) = outcomeEvaluationsFromEvents(events, o)
    BY <1>2, <1>3, <1>5, <2>1, <2>2, <2>3, ReportIs, Zenon
  <2>5. QED
    BY <2>4 DEF more
<1>6. QED
  BY <1>4, <1>5

LEMMA Verdictless ==
  TERMINAL_RESULTS = {"satisfied", "failed", "max_iterations_reached", "interrupted", "budget_reached"}
  BY DEF TERMINAL_RESULTS, Results

\* A report is a verdict just when the last end is one.
LEMMA ReportEnded ==
  ASSUME NEW events, NEW o
  PROVE  outcomeEvaluationsFromEvents(events, o).result \in TERMINAL_RESULTS <=>
           finals(events, o) # {} /\ events[Max(finals(events, o))].result \in TERMINAL_RESULTS
  BY ReportIs, Verdictless DEF reported

LEMMA ReportStart ==
  ASSUME NEW events \in Seq(Event), NEW o \in Ids, NEW i \in 0..MaxIterations - 1,
         outcomeEvaluationsFromEvents(events, o).result \notin TERMINAL_RESULTS
  PROVE  outcomeEvaluationsFromEvents(Append(events, starts(o, i)), o) = reported("evaluating", i)
<1> DEFINE e == starts(o, i)
           more == Append(events, e)
           n == Len(events)
<1>1. e \in Event /\ e.type = "start" /\ e.outcome = o /\ e.iteration = i
  BY DEF starts, event, Event
<1> HIDE DEF e
<1>2. /\ more \in Seq(Event) /\ DOMAIN more = 1..n + 1 /\ DOMAIN events = 1..n /\ n \in Nat
      /\ \A k \in 1..n : more[k] = events[k]
      /\ more[n + 1] = e
  BY <1>1, Appended
<1> HIDE DEF more
<1>3. n + 1 \in spans(more, o) /\ spans(more, o) \subseteq 1..n + 1
  BY <1>1, <1>2 DEF spans
<1>4. Max(spans(more, o)) = n + 1
  BY <1>2, <1>3, MaxIs
<1>5. finals(more, o) = finals(events, o)
  BY <1>1, <1>2 DEF finals, spans
<1>6. finals(events, o) # {} => more[Max(finals(events, o))] = events[Max(finals(events, o))]
  <2>1. SUFFICES ASSUME finals(events, o) # {}
                 PROVE  more[Max(finals(events, o))] = events[Max(finals(events, o))]
    OBVIOUS
  <2>2. Max(finals(events, o)) \in 1..n
    BY <1>2, <2>1, MaxIn, SpanSets
  <2>3. QED
    BY <1>2, <2>2
<1>7. ~ (finals(more, o) # {} /\ more[Max(finals(more, o))].result \in TERMINAL_RESULTS)
  BY <1>5, <1>6, ReportEnded
<1>8. more[Max(spans(more, o))].type = "start" /\ more[Max(spans(more, o))].iteration = i
  BY <1>1, <1>2, <1>4
<1>9. outcomeEvaluationsFromEvents(more, o) = reported("evaluating", i)
  BY <1>3, <1>7, <1>8, ReportIs, Zenon
<1>10. QED
  BY <1>9 DEF more, e

LEMMA ReportEnd ==
  ASSUME NEW events \in Seq(Event), NEW o \in Ids, NEW i \in 0..MaxIterations - 1,
         NEW result \in Results
  PROVE  outcomeEvaluationsFromEvents(Append(events, ends(o, i, result)), o) =
           IF result \in TERMINAL_RESULTS THEN reported(result, i) ELSE reported("running", i + 1)
<1> DEFINE e == ends(o, i, result)
           more == Append(events, e)
           n == Len(events)
<1>1. e \in Event /\ e.type = "end" /\ e.outcome = o /\ e.iteration = i /\ e.result = result
  BY DEF ends, event, Event
<1> HIDE DEF e
<1>2. /\ more \in Seq(Event) /\ DOMAIN more = 1..n + 1 /\ n \in Nat
      /\ more[n + 1] = e
  BY <1>1, Appended
<1> HIDE DEF more
<1>3. n + 1 \in spans(more, o) /\ spans(more, o) \subseteq 1..n + 1
  BY <1>1, <1>2 DEF spans
<1>4. n + 1 \in finals(more, o) /\ finals(more, o) \subseteq 1..n + 1
  BY <1>1, <1>2, <1>3 DEF finals
<1>5. Max(spans(more, o)) = n + 1 /\ Max(finals(more, o)) = n + 1
  BY <1>2, <1>3, <1>4, MaxIs
<1>6. /\ more[Max(finals(more, o))].result = result /\ more[Max(finals(more, o))].iteration = i
      /\ more[Max(spans(more, o))].type # "start"
  BY <1>1, <1>2, <1>5
<1>7. outcomeEvaluationsFromEvents(more, o) =
        IF result \in TERMINAL_RESULTS THEN reported(result, i) ELSE reported("running", i + 1)
  BY <1>3, <1>4, <1>6, ReportIs, Zenon
<1>8. QED
  BY <1>7 DEF more, e

\* The report of o says the same after as before, or says that nothing was
\* evaluated yet, before and after.
Keeps(before, after, o) ==
  LET was == outcomeEvaluationsFromEvents(before, o)
      is == outcomeEvaluationsFromEvents(after, o)
  IN is = was \/ (was \in Unstarted /\ is \in Unstarted)

\* What was declared stays declared.
Extends(before, after) ==
  /\ after \in Seq(Event)
  /\ \A o \in Ids : definitions(before, o) # {} => definitions(after, o) # {}

LEMMA ExtendsAppend ==
  ASSUME NEW events \in Seq(Event), NEW e \in Event
  PROVE  Extends(events, Append(events, e))
<1>1. \A o \in Ids : definitions(events, o) \subseteq definitions(Append(events, e), o)
  BY Appended DEF definitions
<1>2. QED
  BY <1>1, Appended DEF Extends

LEMMA KeepsAppend ==
  ASSUME NEW events \in Seq(Event), NEW e \in Event, NEW o \in Ids,
         ~ (e.outcome = o /\ e.type \in {"start", "end"})
  PROVE  Keeps(events, Append(events, e), o)
  BY ReportKept DEF Keeps

LEMMA KeepsBoth ==
  ASSUME NEW first, NEW second, NEW third, NEW o,
         Keeps(first, second, o), Keeps(second, third, o)
  PROVE  Keeps(first, third, o)
  BY DEF Keeps

LEMMA Events ==
  /\ \A o \in Ids : define(o) \in Event /\ define(o).type = "define"
  /\ \A o \in Ids, i \in 0..MaxIterations - 1 :
       starts(o, i) \in Event /\ starts(o, i).outcome = o
  /\ \A o \in Ids, i \in 0..MaxIterations - 1, result \in Results :
       ends(o, i, result) \in Event /\ ends(o, i, result).outcome = o
  /\ work \in Event /\ work.type = "work"
<1>1. 0 \in 0..MaxIterations - 1
  BY OutcomeNumbers
<1>2. QED
  BY <1>1 DEF define, starts, ends, work, event, Event

LEMMA WorkKeeps ==
  ASSUME log \in Seq(Event)
  PROVE  Extends(log, withWork(log)) /\ \A o \in Ids : Keeps(log, withWork(log), o)
<1>1. withWork(log) = log \/ withWork(log) = Append(log, work)
  BY DEF withWork
<1>2. Extends(log, Append(log, work)) /\ \A o \in Ids : Keeps(log, Append(log, work), o)
  BY Events, ExtendsAppend, KeepsAppend
<1>3. Extends(log, log) /\ \A o \in Ids : Keeps(log, log, o)
  BY DEF Extends, Keeps
<1>4. QED
  BY <1>1, <1>2, <1>3

-----------------------------------------------------------------------------
(* Steps. *)

LEMMA IterationNumbers == 0 \in 0..MaxIterations - 1 /\ MaxIterations - 1 \in Nat /\ Other \notin Ids
  BY OutcomeNumbers DEF Ids, Other

LEMMA UnstartedIs ==
  ASSUME NEW r \in Unstarted
  PROVE  r.iteration = 0 /\ r.result \notin {"evaluating"} \cup TERMINAL_RESULTS
  BY Verdictless DEF Unstarted, reported

LEMMA BoundedKept ==
  ASSUME NEW o \in Ids, ReportBounded(o), Keeps(log, log', o), Extends(log, log'), cut \subseteq cut',
         running(o) /\ pc = "grading" => (running(o) /\ pc = "grading")' \/ o \in cut'
  PROVE  ReportBounded(o)'
<1>1. CASE report(o)' = report(o)
  BY <1>1 DEF ReportBounded, Extends, declared
<1>2. CASE report(o)' \in Unstarted
  BY <1>2, UnstartedIs, IterationNumbers DEF ReportBounded
<1>3. QED
  BY <1>1, <1>2 DEF Keeps, report

LEMMA AgreesKept ==
  ASSUME NEW o \in Ids, ReportAgrees(o), Keeps(log, log', o), Extends(log, log'),
         pc' = pc, trigger' = trigger, iteration' = iteration
  PROVE  ReportAgrees(o)'
<1>1. running(o)' = running(o) /\ (declared(o) => declared(o)')
  BY DEF running, declared, Extends
<1>2. SUFFICES ASSUME running(o)
               PROVE  ReportAgrees(o)'
  BY <1>1 DEF ReportAgrees
<1>3. CASE report(o)' = report(o)
  BY <1>1, <1>3 DEF ReportAgrees
<1>4. CASE report(o) \in Unstarted /\ report(o)' \in Unstarted
  <2>1. pc # "grading" /\ pc # "settling"
    BY <1>2, <1>4, UnstartedIs, Verdictless DEF ReportAgrees, reported
  <2>2. pc # "revising"
    BY <1>2, <1>4, UnstartedIs DEF ReportAgrees, reported
  <2>3. QED
    BY <1>1, <1>2, <1>4, <2>1, <2>2 DEF ReportAgrees
<1>5. QED
  BY <1>3, <1>4 DEF Keeps, report

\* No outcome that waits in the queue runs.
LEMMA QueuedWaits ==
  ASSUME OutcomeInv, NEW k \in DOMAIN queue, queue[k] # Other
  PROVE  queue[k] \in Ids /\ queue[k] # trigger /\ Waits(queue[k])
<1>1. queue[k] \in Ids
  BY DEF OutcomeInv, LoopTyped
<1>2. QED
  BY <1>1 DEF OutcomeInv, QueuedOnce, Waits, running, LoopTyped

LEMMA WaitsKept ==
  ASSUME NEW o \in Ids, Waits(o), Keeps(log, log', o), Extends(log, log'), ~ running(o)'
  PROVE  Waits(o)'
<1>1. declared(o)'
  BY DEF Waits, declared, Extends
<1>2. report(o)' \in Unstarted
  BY DEF Waits, Keeps, report
<1>3. QED
  BY <1>1, <1>2 DEF Waits

\* A queue of outcomes that waited in the old one, each once.
LEMMA QueuedKept ==
  ASSUME \A k \in DOMAIN queue' : queue'[k] # Other =>
           \A j \in DOMAIN queue' : queue'[j] = queue'[k] => j = k,
         \A k \in DOMAIN queue' : \A o : queue'[k] = o /\ o # Other => Waits(o)'
  PROVE  QueuedOnce'
<1>1. QueuedOnce' = \A k \in DOMAIN queue' : queue'[k] # Other =>
                      Waits(queue[k])' /\ \A j \in DOMAIN queue' : queue'[j] = queue'[k] => j = k
  BY DEF QueuedOnce
<1>2. SUFFICES ASSUME NEW k \in DOMAIN queue', queue'[k] # Other PROVE Waits(queue[k])'
  BY <1>1
<1>3. PICK o : o = queue'[k]
  OBVIOUS
<1>4. Waits(o)'
  BY <1>2, <1>3
<1>5. QED
  BY <1>3, <1>4 DEF Waits, declared, report, running

\* A step of the outcome whose turn it is, or of nothing.
LEMMA LoopStep ==
  ASSUME OutcomeInv, LoopTyped', queue' = queue, cut \subseteq cut', Extends(log, log'),
         \A o \in Ids \ {trigger} : Keeps(log, log', o) /\ ~ running(o)',
         \A o \in Ids : o = trigger => ReportBounded(o)' /\ ReportAgrees(o)'
  PROVE  OutcomeInv'
<1>1. ASSUME NEW o \in Ids
      PROVE  ReportBounded(o)' /\ ReportAgrees(o)'
  <2>1. CASE o = trigger
    BY <2>1
  <2>2. CASE o # trigger
    <3>1. Keeps(log, log', o) /\ ~ running(o)' /\ ~ running(o)
      BY <2>2 DEF running
    <3>2. ReportBounded(o)'
      BY <3>1, BoundedKept DEF OutcomeInv
    <3>3. QED
      BY <3>1, <3>2 DEF ReportAgrees
  <2>3. QED
    BY <2>1, <2>2
<1>2. QueuedOnce'
  <2>1. \A k \in DOMAIN queue, j \in DOMAIN queue :
          queue[k] # Other /\ queue[j] = queue[k] => j = k
    BY DEF OutcomeInv, QueuedOnce
  <2>2. ASSUME NEW k \in DOMAIN queue', NEW o, queue'[k] = o, o # Other
        PROVE  Waits(o)'
    <3>1. o \in Ids \ {trigger} /\ Waits(o)
      BY <2>2, QueuedWaits
    <3>2. QED
      BY <3>1, WaitsKept
  <2>3. QED
    BY <2>1, <2>2, QueuedKept
<1>3. QED
  BY <1>1, <1>2 DEF OutcomeInv

\* Nothing is said in the log, and the loop stays where it is.
LEMMA RestStep ==
  ASSUME OutcomeInv, UNCHANGED <<log, queue, pc, trigger, iteration>>, aborted' \in BOOLEAN,
         cut \subseteq cut'
  PROVE  OutcomeInv'
<1>1. LoopTyped'
  BY DEF OutcomeInv, LoopTyped
<1>2. \A o \in Ids : Keeps(log, log', o)
  BY DEF Keeps
<1>3. Extends(log, log')
  BY DEF OutcomeInv, LoopTyped, Extends
<1>4. \A o \in Ids : ReportBounded(o)' /\ ReportAgrees(o)'
  <2>1. SUFFICES ASSUME NEW o \in Ids PROVE ReportBounded(o)' /\ ReportAgrees(o)'
    OBVIOUS
  <2>2. ReportBounded(o) /\ ReportAgrees(o)
    BY DEF OutcomeInv
  <2>3. (running(o) /\ pc = "grading") = (running(o) /\ pc = "grading")'
    BY DEF running
  <2>4. QED
    BY <1>2, <1>3, <2>2, <2>3, BoundedKept, AgreesKept
<1>5. QED
  <2>1. \A o \in Ids \ {trigger} : ~ running(o)'
    BY DEF running
  <2>2. QED
    BY <1>1, <1>2, <1>3, <1>4, <2>1, LoopStep

\* The agent works, and says so in the log.
LEMMA WorkStep ==
  ASSUME OutcomeInv, log' = withWork(log), UNCHANGED <<queue, pc, trigger, iteration, aborted, cut>>
  PROVE  OutcomeInv'
<1>1. (\A o \in Ids : Keeps(log, log', o)) /\ Extends(log, log')
  BY WorkKeeps DEF OutcomeInv, LoopTyped
<1>2. LoopTyped'
  BY <1>1 DEF OutcomeInv, LoopTyped, Extends
<1>3. \A o \in Ids : ReportBounded(o)' /\ ReportAgrees(o)'
  <2>1. SUFFICES ASSUME NEW o \in Ids PROVE ReportBounded(o)' /\ ReportAgrees(o)'
    OBVIOUS
  <2>2. ReportBounded(o) /\ ReportAgrees(o)
    BY DEF OutcomeInv
  <2>3. (running(o) /\ pc = "grading") = (running(o) /\ pc = "grading")'
    BY DEF running
  <2>4. QED
    BY <1>1, <2>2, <2>3, BoundedKept, AgreesKept
<1>4. \A o \in Ids \ {trigger} : ~ running(o)'
  BY DEF running
<1>5. QED
  BY <1>1, <1>2, <1>3, <1>4, LoopStep

\* The loop ends its turn; the outcome, if it is one's, is not left in evaluation.
LEMMA FinishStep ==
  ASSUME OutcomeInv, NEW events, NEW next, finish(events, next), queue' = queue, cut \subseteq cut',
         Extends(log, events), \A o \in Ids \ {trigger} : Keeps(log, events, o),
         \A o \in Ids : o = trigger =>
           LET r == outcomeEvaluationsFromEvents(events, o)
           IN /\ r.iteration \in 0..MaxIterations - 1
              /\ r.result # "evaluating"
              /\ definitions(events, o) # {}
  PROVE  OutcomeInv'
<1>1. log' = events /\ pc' = "none" /\ trigger' = Other /\ iteration' = 0 /\ aborted' = FALSE
  BY DEF finish
<1>2. LoopTyped'
  BY <1>1, IterationNumbers DEF OutcomeInv, LoopTyped, Extends
<1>3. \A o \in Ids : ~ running(o)'
  BY <1>1 DEF running
<1>4. \A o \in Ids : o = trigger => ReportBounded(o)' /\ ReportAgrees(o)'
  <2>1. SUFFICES ASSUME NEW o \in Ids, o = trigger PROVE ReportBounded(o)' /\ ReportAgrees(o)'
    OBVIOUS
  <2>2. report(o)' = outcomeEvaluationsFromEvents(events, o) /\ declared(o)'
    BY <1>1, <2>1 DEF report, declared
  <2>3. ReportBounded(o)'
    BY <2>1, <2>2 DEF ReportBounded
  <2>4. QED
    BY <1>3, <2>3 DEF ReportAgrees
<1>5. Extends(log, log') /\ \A o \in Ids \ {trigger} : Keeps(log, log', o)
  BY <1>1
<1>6. QED
  BY <1>2, <1>3, <1>4, <1>5, LoopStep

\* The loop goes on with another phase of the same outcome.
LEMMA PhaseStep ==
  ASSUME OutcomeInv, trigger \in Ids, trigger' = trigger, aborted' = aborted, queue' = queue, cut' = cut,
         pc' \in {"grading", "revising", "settling"}, iteration' \in 0..MaxIterations - 1,
         Extends(log, log'), \A o \in Ids \ {trigger} : Keeps(log, log', o),
         definitions(log', trigger) # {},
         LET r == outcomeEvaluationsFromEvents(log', trigger)
         IN /\ pc' = "grading" => r = reported("evaluating", iteration')
            /\ pc' = "revising" => iteration' # 0 /\ r = reported("running", iteration')
            /\ pc' = "settling" => r = reported("max_iterations_reached", iteration')
  PROVE  OutcomeInv'
<1>1. LoopTyped'
  BY IterationNumbers DEF OutcomeInv, LoopTyped, Extends
<1>2. \A o \in Ids \ {trigger} : ~ running(o)'
  BY DEF running
<1>3. \A o \in Ids : o = trigger => ReportBounded(o)' /\ ReportAgrees(o)'
  <2>1. SUFFICES ASSUME NEW o \in Ids, o = trigger PROVE ReportBounded(o)' /\ ReportAgrees(o)'
    OBVIOUS
  <2>2. running(o)' /\ declared(o)' /\ report(o)' = outcomeEvaluationsFromEvents(log', trigger)
    BY <2>1 DEF running, declared, report
  <2>3. /\ pc' = "grading" => report(o)' = reported("evaluating", iteration')
        /\ pc' = "revising" => iteration' # 0 /\ report(o)' = reported("running", iteration')
        /\ pc' = "settling" => report(o)' = reported("max_iterations_reached", iteration')
    BY <2>2
  <2>4. ReportAgrees(o)'
    BY <2>2, <2>3 DEF ReportAgrees
  <2>5. report(o)'.iteration \in 0..MaxIterations - 1
    BY <2>3 DEF reported
  <2>6. report(o)'.result = "evaluating" => pc' = "grading"
    BY <2>3 DEF reported
  <2>7. ReportBounded(o)'
    BY <2>2, <2>5, <2>6 DEF ReportBounded
  <2>8. QED
    BY <2>4, <2>7
<1>4. QED
  BY <1>1, <1>2, <1>3, LoopStep

\* What the log says of the outcome that runs, and of the others, after its end.
LEMMA EndKeeps ==
  ASSUME NEW events \in Seq(Event), NEW o \in Ids, NEW i \in 0..MaxIterations - 1,
         NEW result \in Results
  PROVE  /\ Extends(events, Append(events, ends(o, i, result)))
         /\ \A p \in Ids \ {o} : Keeps(events, Append(events, ends(o, i, result)), p)
  BY Events, ExtendsAppend, KeepsAppend

LEMMA StartedKeeps ==
  ASSUME NEW events \in Seq(Event), NEW o \in Ids, NEW i \in 0..MaxIterations - 1
  PROVE  /\ Extends(events, Append(events, starts(o, i)))
         /\ \A p \in Ids \ {o} : Keeps(events, Append(events, starts(o, i)), p)
  BY Events, ExtendsAppend, KeepsAppend

LEMMA ExtendsBoth ==
  ASSUME NEW first, NEW second, NEW third, Extends(first, second), Extends(second, third)
  PROVE  Extends(first, third)
  BY DEF Extends

LEMMA RunningDeclared ==
  ASSUME OutcomeInv, trigger \in Ids
  PROVE  definitions(log, trigger) # {} /\ pc # "none" /\ ReportAgrees(trigger) /\ running(trigger)
<1>1. pc # "none"
  BY IterationNumbers DEF OutcomeInv, LoopTyped
<1>2. running(trigger) /\ ReportAgrees(trigger)
  BY <1>1 DEF running, OutcomeInv
<1>3. QED
  BY <1>1, <1>2 DEF ReportAgrees, declared

\* A verdict, or a stop, ends the outcome with the turn.
LEMMA CloseStep ==
  ASSUME OutcomeInv, trigger \in Ids, NEW events \in Seq(Event), NEW i \in 0..MaxIterations - 1,
         NEW result \in TERMINAL_RESULTS, NEW next,
         finish(Append(events, ends(trigger, i, result)), next),
         queue' = queue, cut \subseteq cut', Extends(log, events),
         \A o \in Ids \ {trigger} : Keeps(log, events, o)
  PROVE  OutcomeInv'
<1> DEFINE more == Append(events, ends(trigger, i, result))
<1>1. result \in Results
  BY DEF TERMINAL_RESULTS
<1>2. Extends(events, more) /\ \A p \in Ids \ {trigger} : Keeps(events, more, p)
  BY <1>1, EndKeeps
<1>3. Extends(log, more) /\ \A p \in Ids \ {trigger} : Keeps(log, more, p)
  BY <1>2, ExtendsBoth, KeepsBoth
<1>4. outcomeEvaluationsFromEvents(more, trigger) = reported(result, i)
  BY <1>1, ReportEnd
<1>5. definitions(more, trigger) # {}
  BY <1>3, RunningDeclared DEF Extends
<1>6. result # "evaluating"
  BY Verdictless
<1>7. finish(more, next)
  OBVIOUS
<1>8. LET r == outcomeEvaluationsFromEvents(more, trigger)
      IN r.iteration \in 0..MaxIterations - 1 /\ r.result # "evaluating" /\ definitions(more, trigger) # {}
  BY <1>4, <1>5, <1>6 DEF reported
<1> HIDE DEF more
<1>9. QED
  BY <1>3, <1>7, <1>8, FinishStep

LEMMA Terminals ==
  /\ {"interrupted", "budget_reached", "max_iterations_reached", "satisfied", "failed"} \subseteq TERMINAL_RESULTS
  /\ "needs_revision" \notin TERMINAL_RESULTS /\ "needs_revision" \in Results
  /\ TERMINAL_RESULTS \subseteq Results
  BY DEF TERMINAL_RESULTS, Results

LEMMA DeclareStep ==
  ASSUME OutcomeInv, NEW o \in Ids, Declare(o)
  PROVE  OutcomeInv'
<1>1. log' = Append(log, define(o)) /\ queue' = Append(queue, o) /\ ~ declared(o)
      /\ UNCHANGED <<pc, trigger, iteration, aborted, cut>>
  BY DEF Declare, loopVars
<1>2. log \in Seq(Event) /\ queue \in Seq({Other} \cup Ids)
  BY DEF OutcomeInv, LoopTyped
<1>3. define(o) \in Event /\ define(o).type = "define"
  BY Events
<1>4. Extends(log, log') /\ \A p \in Ids : Keeps(log, log', p)
  BY <1>1, <1>2, <1>3, ExtendsAppend, KeepsAppend
<1>5. declared(o)'
  <2>1. Len(log) + 1 \in definitions(log', o)
    BY <1>1, <1>2, <1>3, Appended DEF definitions
  <2>2. QED
    BY <2>1 DEF declared
<1>6. /\ \A k \in DOMAIN queue : k \in DOMAIN queue' /\ queue'[k] = queue[k]
      /\ DOMAIN queue' = DOMAIN queue \cup {Len(queue) + 1}
      /\ queue'[Len(queue) + 1] = o
      /\ queue' \in Seq({Other} \cup Ids)
  BY <1>1, <1>2
<1>7. LoopTyped'
  BY <1>1, <1>4, <1>6 DEF OutcomeInv, LoopTyped, Extends
<1>8. ASSUME NEW p \in Ids
      PROVE  ReportBounded(p)' /\ ReportAgrees(p)'
  <2>1. ReportBounded(p) /\ ReportAgrees(p)
    BY DEF OutcomeInv
  <2>2. (running(p) /\ pc = "grading") = (running(p) /\ pc = "grading")'
    BY <1>1 DEF running
  <2>3. QED
    BY <1>1, <1>4, <2>1, <2>2, BoundedKept, AgreesKept
<1>9. Waits(o)'
  <2>1. report(o) \in Unstarted /\ ~ running(o)
    BY <1>1 DEF OutcomeInv, ReportBounded, ReportAgrees
  <2>2. QED
    BY <1>1, <1>4, <1>5, <2>1 DEF Keeps, report, running, Waits
<1>10. \A k \in DOMAIN queue : queue[k] # o
  <2>1. o # Other
    BY IterationNumbers
  <2>2. QED
    BY <1>1, <2>1, QueuedWaits DEF Waits
<1>11. ASSUME NEW k \in DOMAIN queue, NEW p, queue[k] = p, p # Other
       PROVE  Waits(p)'
  <2>1. p \in Ids /\ Waits(p)
    BY <1>11, QueuedWaits
  <2>2. ~ running(p)'
    BY <1>1, <2>1 DEF Waits, running
  <2>3. QED
    BY <1>4, <2>1, <2>2, WaitsKept
<1>12. QueuedOnce'
  <2>1. \A k \in DOMAIN queue, j \in DOMAIN queue :
          queue[k] # Other /\ queue[j] = queue[k] => j = k
    BY DEF OutcomeInv, QueuedOnce
  <2>2. Len(queue) + 1 \notin DOMAIN queue
    BY <1>2
  <2>3. \A k \in DOMAIN queue' : queue'[k] # Other =>
          \A j \in DOMAIN queue' : queue'[j] = queue'[k] => j = k
    BY <1>6, <1>10, <2>1, <2>2
  <2>4. \A k \in DOMAIN queue' : \A p : queue'[k] = p /\ p # Other => Waits(p)'
    BY <1>6, <1>9, <1>11
  <2>5. QED
    BY <2>3, <2>4, QueuedKept
<1>13. QED
  BY <1>7, <1>8, <1>12 DEF OutcomeInv

LEMMA OtherEventStep ==
  ASSUME OutcomeInv, OtherEvent
  PROVE  OutcomeInv'
<1>1. queue' = Append(queue, Other) /\ UNCHANGED <<log, pc, trigger, iteration, aborted, cut>>
  BY DEF OtherEvent, loopVars
<1>2. log \in Seq(Event) /\ queue \in Seq({Other} \cup Ids)
  BY DEF OutcomeInv, LoopTyped
<1>3. /\ DOMAIN queue' = DOMAIN queue \cup {Len(queue) + 1}
      /\ \A k \in DOMAIN queue : queue'[k] = queue[k]
      /\ queue'[Len(queue) + 1] = Other
      /\ queue' \in Seq({Other} \cup Ids)
  BY <1>1, <1>2
<1>4. LoopTyped'
  BY <1>1, <1>3 DEF OutcomeInv, LoopTyped
<1>5. (\A o \in Ids : Keeps(log, log', o)) /\ Extends(log, log')
  BY <1>1, <1>2 DEF Keeps, Extends
<1>6. ASSUME NEW o \in Ids
      PROVE  ReportBounded(o)' /\ ReportAgrees(o)' /\ (Waits(o) => Waits(o)')
  <2>1. ReportBounded(o) /\ ReportAgrees(o)
    BY DEF OutcomeInv
  <2>2. running(o)' = running(o) /\ (running(o) /\ pc = "grading") = (running(o) /\ pc = "grading")'
    BY <1>1 DEF running
  <2>3. QED
    BY <1>1, <1>5, <2>1, <2>2, BoundedKept, AgreesKept, WaitsKept DEF Waits
<1>7. QueuedOnce'
  <2>1. \A k \in DOMAIN queue, j \in DOMAIN queue :
          queue[k] # Other /\ queue[j] = queue[k] => j = k
    BY DEF OutcomeInv, QueuedOnce
  <2>2. \A k \in DOMAIN queue' : queue'[k] # Other =>
          \A j \in DOMAIN queue' : queue'[j] = queue'[k] => j = k
    BY <1>3, <2>1
  <2>3. ASSUME NEW k \in DOMAIN queue', NEW o, queue'[k] = o, o # Other
        PROVE  Waits(o)'
    <3>1. k \in DOMAIN queue /\ queue[k] = o
      BY <1>3, <2>3
    <3>2. QED
      BY <1>6, <2>3, <3>1, QueuedWaits
  <2>4. QED
    BY <2>2, <2>3, QueuedKept
<1>8. QED
  BY <1>4, <1>6, <1>7 DEF OutcomeInv

LEMMA TailOf ==
  ASSUME NEW q \in Seq({Other} \cup Ids), q # <<>>
  PROVE  /\ Tail(q) \in Seq({Other} \cup Ids)
         /\ Head(q) = q[1] /\ 1 \in DOMAIN q /\ Head(q) \in {Other} \cup Ids
         /\ \A k \in DOMAIN Tail(q) : k + 1 \in DOMAIN q /\ Tail(q)[k] = q[k + 1] /\ k \in Nat /\ k + 1 # 1
  OBVIOUS

LEMMA RunTurnStep ==
  ASSUME OutcomeInv, runTurn
  PROVE  OutcomeInv'
<1>1. /\ pc = "none" /\ queue # <<>> /\ queue' = Tail(queue) /\ cut' = cut
      /\ iteration' = iteration /\ aborted' = aborted
      /\ \/ log' = log /\ pc' = pc /\ trigger' = trigger
         \/ /\ log' = log \/ log' = withWork(log)
            /\ pc' = "turn" /\ trigger' = Head(queue)
  BY DEF runTurn, loopVars
<1>2. log \in Seq(Event) /\ queue \in Seq({Other} \cup Ids) /\ iteration = 0 /\ trigger = Other
  BY <1>1 DEF OutcomeInv, LoopTyped
<1>3. (\A o \in Ids : Keeps(log, log', o)) /\ Extends(log, log')
  <2>1. CASE log' = log
    BY <1>2, <2>1 DEF Keeps, Extends
  <2>2. CASE log' = withWork(log)
    BY <1>2, <2>2, WorkKeeps
  <2>3. QED
    BY <1>1, <2>1, <2>2
<1>4. LoopTyped'
  BY <1>1, <1>2, <1>3, TailOf DEF OutcomeInv, LoopTyped, Extends
<1>5. \A o \in Ids : running(o)' => o = Head(queue)
  BY <1>1 DEF running
<1>6. ASSUME NEW o \in Ids
      PROVE  ReportBounded(o)' /\ ReportAgrees(o)' /\ (Waits(o) /\ o # Head(queue) => Waits(o)')
  <2>1. ReportBounded(o)
    BY DEF OutcomeInv
  <2>2. ~ running(o)
    BY <1>1 DEF running
  <2>3. ReportBounded(o)'
    BY <1>1, <1>3, <2>1, <2>2, BoundedKept
  <2>4. ReportAgrees(o)'
    <3>1. SUFFICES ASSUME running(o)' PROVE ReportAgrees(o)'
      BY DEF ReportAgrees
    <3>2. o = Head(queue) /\ o # Other
      BY <1>5, <3>1, IterationNumbers
    <3>3. Waits(o)
      BY <1>1, <1>2, <3>2, QueuedWaits, TailOf
    <3>4. declared(o)' /\ report(o)' \in Unstarted
      BY <1>3, <3>3 DEF Waits, declared, report, Extends, Keeps
    <3>5. pc' = "turn"
      BY <1>1, <3>1 DEF running
    <3>6. QED
      BY <3>4, <3>5 DEF ReportAgrees
  <2>5. Waits(o) /\ o # Head(queue) => Waits(o)'
    BY <1>3, <1>5, WaitsKept
  <2>6. QED
    BY <2>3, <2>4, <2>5
<1>7. QueuedOnce'
  <2>1. \A k \in DOMAIN queue, j \in DOMAIN queue :
          queue[k] # Other /\ queue[j] = queue[k] => j = k
    BY DEF OutcomeInv, QueuedOnce
  <2>2. \A k \in DOMAIN queue' : /\ k + 1 \in DOMAIN queue /\ queue'[k] = queue[k + 1]
                                 /\ k \in Nat /\ k + 1 # 1
    BY <1>1, <1>2, TailOf
  <2>3. \A k \in DOMAIN queue' : queue'[k] # Other =>
          \A j \in DOMAIN queue' : queue'[j] = queue'[k] => j = k
    <3>1. SUFFICES ASSUME NEW k \in DOMAIN queue', queue'[k] # Other,
                          NEW j \in DOMAIN queue', queue'[j] = queue'[k]
                   PROVE  j = k
      OBVIOUS
    <3>2. j + 1 = k + 1 /\ j \in Nat /\ k \in Nat
      BY <2>1, <2>2, <3>1
    <3>3. QED
      BY <3>2
  <2>4. ASSUME NEW k \in DOMAIN queue', NEW o, queue'[k] = o, o # Other
        PROVE  Waits(o)'
    <3>1. k + 1 \in DOMAIN queue /\ queue[k + 1] = o /\ k + 1 # 1
      BY <2>2, <2>4
    <3>2. o \in Ids /\ Waits(o)
      BY <2>4, <3>1, QueuedWaits
    <3>3. o # Head(queue)
      BY <1>1, <1>2, <2>1, <2>4, <3>1, TailOf
    <3>4. QED
      BY <1>6, <3>2, <3>3
  <2>5. QED
    BY <2>3, <2>4, QueuedKept
<1>8. QED
  BY <1>4, <1>6, <1>7 DEF OutcomeInv

LEMMA CrashStep ==
  ASSUME OutcomeInv, OutcomeCrash
  PROVE  OutcomeInv'
<1>1. /\ log' = log /\ queue' = <<>> /\ pc' = "none" /\ trigger' = Other
      /\ iteration' = 0 /\ aborted' = FALSE /\ cut \subseteq cut'
      /\ pc # "none" /\ trigger \in Ids => trigger \in cut'
  BY DEF OutcomeCrash
<1>2. log \in Seq(Event)
  BY DEF OutcomeInv, LoopTyped
<1>3. LoopTyped'
  <2>1. queue' \in Seq({Other} \cup Ids)
    BY <1>1
  <2>2. QED
    BY <1>1, <1>2, <2>1, IterationNumbers DEF LoopTyped
<1>4. ASSUME NEW o \in Ids
      PROVE  ReportBounded(o)' /\ ReportAgrees(o)'
  <2>1. Keeps(log, log', o) /\ Extends(log, log')
    BY <1>1, <1>2 DEF Keeps, Extends
  <2>2. ReportBounded(o)
    BY DEF OutcomeInv
  <2>3. running(o) => o \in cut'
    BY <1>1 DEF running
  <2>4. ~ running(o)'
    BY <1>1 DEF running
  <2>5. QED
    BY <1>1, <2>1, <2>2, <2>3, <2>4, BoundedKept DEF ReportAgrees
<1>5. QueuedOnce'
  BY <1>1, QueuedKept
<1>6. QED
  BY <1>3, <1>4, <1>5 DEF OutcomeInv

LEMMA LogItself ==
  ASSUME OutcomeInv
  PROVE  Extends(log, log) /\ log \in Seq(Event) /\ \A o \in Ids : Keeps(log, log, o)
  BY DEF OutcomeInv, LoopTyped, Extends, Keeps

\* A turn that is left without a word: whatever the log says, it is no open
\* evaluation.
LEMMA SilentStep ==
  ASSUME OutcomeInv, pc \in Acting, NEW next, finish(log, next), queue' = queue, cut \subseteq cut'
  PROVE  OutcomeInv'
<1>1. ASSUME NEW o \in Ids, o = trigger
      PROVE  LET r == outcomeEvaluationsFromEvents(log, o)
             IN /\ r.iteration \in 0..MaxIterations - 1
                /\ r.result # "evaluating"
                /\ definitions(log, o) # {}
  <2>1. definitions(log, o) # {} /\ running(o) /\ ReportAgrees(o) /\ ReportBounded(o)
    BY <1>1, RunningDeclared DEF OutcomeInv
  <2>2. report(o).result # "evaluating"
    <3>1. pc = "turn" => report(o).result # "evaluating"
      BY <2>1, UnstartedIs DEF ReportAgrees
    <3>2. pc = "revising" \/ pc = "settling" => report(o).result # "evaluating"
      BY <2>1 DEF ReportAgrees, reported
    <3>3. QED
      BY <3>1, <3>2 DEF Acting
  <2>3. QED
    BY <2>1, <2>2 DEF ReportBounded, report
<1>2. QED
  BY <1>1, LogItself, FinishStep

\* The loop closes the outcome on the log as it is.
LEMMA CloseNow ==
  ASSUME OutcomeInv, trigger \in Ids, NEW result \in TERMINAL_RESULTS, NEW next,
         finish(Append(log, ends(trigger, iteration, result)), next), queue' = queue, cut \subseteq cut'
  PROVE  OutcomeInv'
<1>1. iteration \in 0..MaxIterations - 1
  BY DEF OutcomeInv, LoopTyped
<1>2. QED
  BY <1>1, LogItself, CloseStep

LEMMA TurnReturnsStep ==
  ASSUME OutcomeInv, TurnReturns
  PROVE  OutcomeInv'
<1>1. PICK parks \in BOOLEAN :
        \/ trigger = Other /\ finish(log, afterTurn(parks))
        \/ /\ trigger # Other /\ pc \in {"turn", "revising"}
           /\ unlessStopped(log, iteration, parks, grade(log, iteration))
        \/ /\ trigger # Other /\ pc = "settling"
           /\ IF aborted \/ parks THEN closeOutcome(log, iteration, "interrupted", parks)
              ELSE finish(log, afterTurn(parks))
  BY DEF TurnReturns
<1>2. pc \in Acting /\ queue' = queue /\ cut' = cut
  BY DEF TurnReturns
<1>3. trigger # Other => trigger \in Ids
  BY DEF OutcomeInv, LoopTyped
<1>4. CASE finish(log, afterTurn(parks))
  BY <1>2, <1>4, SilentStep
<1>5. ASSUME trigger # Other, NEW result \in {"interrupted", "budget_reached"},
             closeOutcome(log, iteration, result, parks)
      PROVE  OutcomeInv'
  BY <1>2, <1>3, <1>5, CloseNow, Terminals DEF closeOutcome
<1>6. CASE trigger # Other /\ pc \in {"turn", "revising"} /\ grade(log, iteration)
  <2>1. /\ log' = Append(log, starts(trigger, iteration)) /\ pc' = "grading"
        /\ iteration' = iteration /\ trigger' = trigger /\ aborted' = aborted
    BY <1>6 DEF grade
  <2>2. trigger \in Ids /\ iteration \in 0..MaxIterations - 1 /\ log \in Seq(Event)
    BY <1>3, <1>6 DEF OutcomeInv, LoopTyped
  <2>3. report(trigger).result \notin TERMINAL_RESULTS
    <3>1. ReportAgrees(trigger) /\ running(trigger)
      BY <2>2, RunningDeclared
    <3>2. pc = "turn" => report(trigger).result \notin TERMINAL_RESULTS
      BY <3>1, UnstartedIs DEF ReportAgrees
    <3>3. pc = "revising" => report(trigger).result \notin TERMINAL_RESULTS
      BY <3>1, Verdictless DEF ReportAgrees, reported
    <3>4. QED
      BY <1>6, <3>2, <3>3
  <2>4. outcomeEvaluationsFromEvents(Append(log, starts(trigger, iteration)), trigger)
          = reported("evaluating", iteration)
    BY <2>2, <2>3, ReportStart DEF report
  <2>5. Extends(log, log') /\ \A p \in Ids \ {trigger} : Keeps(log, log', p)
    BY <2>1, <2>2, StartedKeeps
  <2>6. definitions(log', trigger) # {}
    BY <2>2, <2>5, RunningDeclared DEF Extends
  <2>7. LET r == outcomeEvaluationsFromEvents(log', trigger)
        IN /\ pc' = "grading" => r = reported("evaluating", iteration')
           /\ pc' = "revising" => iteration' # 0 /\ r = reported("running", iteration')
           /\ pc' = "settling" => r = reported("max_iterations_reached", iteration')
    BY <2>1, <2>4
  <2>8. pc' \in {"grading", "revising", "settling"} /\ iteration' \in 0..MaxIterations - 1
    BY <2>1, <2>2
  <2>9. QED
    BY <1>2, <2>1, <2>2, <2>5, <2>6, <2>7, <2>8, PhaseStep
<1>7. QED
  BY <1>1, <1>4, <1>5, <1>6 DEF unlessStopped

LEMMA TurnThrowsStep ==
  ASSUME OutcomeInv, TurnThrows
  PROVE  OutcomeInv'
<1>1. pc \in Acting /\ queue' = queue /\ cut \subseteq cut' /\ \E next : finish(log, next)
  BY DEF TurnThrows
<1>2. QED
  BY <1>1, SilentStep

LEMMA GraderThrowsStep ==
  ASSUME OutcomeInv, GraderThrows
  PROVE  OutcomeInv'
<1>1. /\ pc = "grading" /\ queue' = queue /\ cut \subseteq cut'
      /\ \E next : finish(Append(log, ends(trigger, iteration, "failed")), next)
  BY DEF GraderThrows
<1>2. trigger \in Ids
  BY <1>1 DEF OutcomeInv, LoopTyped
<1>3. QED
  BY <1>1, <1>2, CloseNow, Terminals

LEMMA EvaluationStep ==
  ASSUME OutcomeInv, runOutcomeEvaluation
  PROVE  OutcomeInv'
<1> DEFINE events(result) == Append(log, ends(trigger, iteration, result))
<1>1. pc = "grading" /\ queue' = queue /\ cut' = cut
  BY DEF runOutcomeEvaluation
<1>2. trigger \in Ids /\ iteration \in 0..MaxIterations - 1 /\ log \in Seq(Event)
  BY <1>1 DEF OutcomeInv, LoopTyped
<1>3. \/ \E answer \in {"satisfied", "failed"} : finish(events(answer), "idle")
      \/ /\ iteration # MaxIterations - 1
         /\ unlessStopped(events("needs_revision"), iteration + 1, FALSE,
                          revise(events("needs_revision"), iteration + 1, "revising"))
      \/ /\ iteration = MaxIterations - 1
         /\ IF exhausted'
            THEN closeOutcome(events("max_iterations_reached"), iteration, "budget_reached", FALSE)
            ELSE revise(events("max_iterations_reached"), iteration, "settling")
  BY DEF runOutcomeEvaluation, Verdicts, budgetSpent
<1>4. ASSUME NEW result \in Results
      PROVE  /\ events(result) \in Seq(Event) /\ Extends(log, events(result))
             /\ \A p \in Ids \ {trigger} : Keeps(log, events(result), p)
             /\ definitions(events(result), trigger) # {}
  <2>1. Extends(log, events(result)) /\ \A p \in Ids \ {trigger} : Keeps(log, events(result), p)
    BY <1>2, EndKeeps
  <2>2. QED
    BY <1>2, <2>1, RunningDeclared DEF Extends
<1>5. CASE \E answer \in {"satisfied", "failed"} : finish(events(answer), "idle")
  BY <1>1, <1>2, <1>5, CloseNow, Terminals
<1>6. CASE /\ iteration # MaxIterations - 1
           /\ unlessStopped(events("needs_revision"), iteration + 1, FALSE,
                            revise(events("needs_revision"), iteration + 1, "revising"))
  <2>1. iteration + 1 \in 0..MaxIterations - 1 /\ iteration + 1 # 0
    BY <1>2, <1>6, IterationNumbers
  <2>2. CASE \E result \in {"interrupted", "budget_reached"} :
               closeOutcome(events("needs_revision"), iteration + 1, result, FALSE)
    <3>1. PICK result \in TERMINAL_RESULTS :
            finish(Append(events("needs_revision"), ends(trigger, iteration + 1, result)), afterTurn(FALSE))
      BY <2>2, Terminals DEF closeOutcome
    <3>2. /\ events("needs_revision") \in Seq(Event) /\ Extends(log, events("needs_revision"))
          /\ \A p \in Ids \ {trigger} : Keeps(log, events("needs_revision"), p)
      BY <1>4, Terminals
    <3> HIDE DEF events
    <3>3. cut \subseteq cut'
      BY <1>1
    <3>4. QED
      BY <1>1, <1>2, <2>1, <3>1, <3>2, <3>3, CloseStep
  <2>3. CASE revise(events("needs_revision"), iteration + 1, "revising")
    <3>1. /\ log' = events("needs_revision") /\ pc' = "revising" /\ iteration' = iteration + 1
          /\ trigger' = trigger /\ aborted' = aborted
      BY <2>3 DEF revise
    <3>2. outcomeEvaluationsFromEvents(events("needs_revision"), trigger)
            = reported("running", iteration + 1)
      BY <1>2, ReportEnd, Terminals
    <3>3. Extends(log, log') /\ (\A p \in Ids \ {trigger} : Keeps(log, log', p))
          /\ definitions(log', trigger) # {}
      BY <1>4, <3>1, Terminals
    <3>4. LET r == outcomeEvaluationsFromEvents(log', trigger)
          IN /\ pc' = "grading" => r = reported("evaluating", iteration')
             /\ pc' = "revising" => iteration' # 0 /\ r = reported("running", iteration')
             /\ pc' = "settling" => r = reported("max_iterations_reached", iteration')
      BY <2>1, <3>1, <3>2
    <3>5. pc' \in {"grading", "revising", "settling"} /\ iteration' \in 0..MaxIterations - 1
      BY <2>1, <3>1
    <3>6. QED
      BY <1>1, <1>2, <3>1, <3>3, <3>4, <3>5, PhaseStep
  <2>4. QED
    BY <1>6, <2>2, <2>3 DEF unlessStopped
<1>7. CASE closeOutcome(events("max_iterations_reached"), iteration, "budget_reached", FALSE)
  <2>1. finish(Append(events("max_iterations_reached"), ends(trigger, iteration, "budget_reached")), afterTurn(FALSE))
    BY <1>7 DEF closeOutcome
  <2>2. /\ events("max_iterations_reached") \in Seq(Event)
        /\ Extends(log, events("max_iterations_reached"))
        /\ \A p \in Ids \ {trigger} : Keeps(log, events("max_iterations_reached"), p)
    BY <1>4, Terminals
  <2> HIDE DEF events
  <2>3. cut \subseteq cut' /\ "budget_reached" \in TERMINAL_RESULTS
    BY <1>1, Terminals
  <2>4. QED
    BY <1>1, <1>2, <2>1, <2>2, <2>3, CloseStep
<1>8. CASE revise(events("max_iterations_reached"), iteration, "settling")
  <2>1. /\ log' = events("max_iterations_reached") /\ pc' = "settling" /\ iteration' = iteration
        /\ trigger' = trigger /\ aborted' = aborted
    BY <1>8 DEF revise
  <2>2. outcomeEvaluationsFromEvents(events("max_iterations_reached"), trigger)
          = reported("max_iterations_reached", iteration)
    BY <1>2, ReportEnd, Terminals
  <2>3. Extends(log, log') /\ (\A p \in Ids \ {trigger} : Keeps(log, log', p))
        /\ definitions(log', trigger) # {}
    BY <1>4, <2>1, Terminals
  <2>4. LET r == outcomeEvaluationsFromEvents(log', trigger)
        IN /\ pc' = "grading" => r = reported("evaluating", iteration')
           /\ pc' = "revising" => iteration' # 0 /\ r = reported("running", iteration')
           /\ pc' = "settling" => r = reported("max_iterations_reached", iteration')
    BY <2>1, <2>2
  <2>5. pc' \in {"grading", "revising", "settling"} /\ iteration' \in 0..MaxIterations - 1
    BY <1>2, <2>1
  <2>6. QED
    BY <1>1, <1>2, <2>1, <2>3, <2>4, <2>5, PhaseStep
<1>9. QED
  BY <1>3, <1>5, <1>6, <1>7, <1>8

LEMMA NothingEvaluated ==
  ASSUME NEW events \in Seq(Event), NEW o \in Ids,
         \A k \in DOMAIN events : events[k].type \notin {"start", "end"}
  PROVE  outcomeEvaluationsFromEvents(events, o) \in Unstarted
<1>1. spans(events, o) = {} /\ finals(events, o) = {}
  BY DEF spans, finals
<1>2. QED
  BY <1>1, ReportIs DEF Unstarted

LEMMA OutcomeStarts ==
  ASSUME OutcomeInit
  PROVE  OutcomeInv
<1>1. /\ pc = "none" /\ trigger = Other /\ iteration = 0 /\ aborted = FALSE
  BY DEF OutcomeInit
<1>2. \A o \in Ids : ~ running(o)
  BY <1>1 DEF running
<1>3. CASE log = <<>> /\ queue = <<>>
  <2>1. log \in Seq(Event) /\ queue \in Seq({Other} \cup Ids)
    BY <1>3
  <2>2. \A o \in Ids : report(o) \in Unstarted
    <3>1. \A k \in DOMAIN log : log[k].type \notin {"start", "end"}
      BY <1>3
    <3>2. QED
      BY <2>1, <3>1, NothingEvaluated DEF report
  <2>3. LoopTyped
    BY <1>1, <2>1, IterationNumbers DEF LoopTyped
  <2>4. \A o \in Ids : ReportBounded(o) /\ ReportAgrees(o)
    BY <1>2, <2>2, UnstartedIs, IterationNumbers DEF ReportBounded, ReportAgrees
  <2>5. QueuedOnce
    BY <1>3 DEF QueuedOnce
  <2>6. QED
    BY <2>3, <2>4, <2>5 DEF OutcomeInv
<1>4. ASSUME NEW n \in Ids,
             log = Append([k \in 1..n |-> define(k)], work),
             queue \in {[k \in 1..n |-> k], <<Other>> \o [k \in 1..n |-> k]}
      PROVE  OutcomeInv
  <2>1. n \in Nat /\ 1..n \subseteq Ids
    BY OutcomeNumbers DEF Ids
  <2>2. [k \in 1..n |-> define(k)] \in Seq(Event) /\ Len([k \in 1..n |-> define(k)]) = n
    BY <2>1, Events
  <2>3. /\ log \in Seq(Event) /\ DOMAIN log = 1..n + 1
        /\ \A k \in 1..n : log[k] = define(k)
        /\ log[n + 1] = work
    <3> DEFINE declarations == [k \in 1..n |-> define(k)]
    <3>1. /\ declarations \in Seq(Event) /\ Len(declarations) = n
          /\ \A k \in 1..n : declarations[k] = define(k)
      BY <2>2
    <3>2. log = Append(declarations, work) /\ work \in Event
      BY <1>4, Events
    <3> HIDE DEF declarations
    <3>3. QED
      BY <3>1, <3>2, Appended
  <2>4. \A o \in Ids : report(o) \in Unstarted
    <3>1. ASSUME NEW k \in DOMAIN log
          PROVE  log[k].type \notin {"start", "end"}
      <4>1. k \in 1..n \/ k = n + 1
        BY <2>1, <2>3
      <4>2. QED
        BY <2>1, <2>3, <4>1, Events
    <3>2. QED
      BY <2>3, <3>1, NothingEvaluated DEF report
  <2>5. \A o \in 1..n : Waits(o)
    <3>1. SUFFICES ASSUME NEW o \in 1..n PROVE Waits(o)
      OBVIOUS
    <3>2. o \in definitions(log, o)
      BY <2>1, <2>3 DEF definitions
    <3>3. QED
      BY <1>2, <2>1, <2>4, <3>2 DEF Waits, declared
  <2>6. /\ queue \in Seq({Other} \cup Ids)
        /\ \/ DOMAIN queue = 1..n /\ \A k \in 1..n : queue[k] = k
           \/ /\ DOMAIN queue = 1..n + 1 /\ queue[1] = Other
              /\ \A k \in 2..n + 1 : queue[k] = k - 1
    <3>1. [k \in 1..n |-> k] \in Seq({Other} \cup Ids) /\ Len([k \in 1..n |-> k]) = n
      BY <2>1
    <3>2. <<Other>> \in Seq({Other} \cup Ids) /\ Len(<<Other>>) = 1 /\ <<Other>>[1] = Other
      OBVIOUS
    <3>3. CASE queue = [k \in 1..n |-> k]
      BY <2>1, <3>1, <3>3
    <3>4. CASE queue = <<Other>> \o [k \in 1..n |-> k]
      <4> DEFINE ids == [k \in 1..n |-> k]
      <4>1. ids \in Seq({Other} \cup Ids) /\ Len(ids) = n /\ \A k \in 1..n : ids[k] = k
        BY <3>1
      <4> HIDE DEF ids
      <4>2. /\ <<Other>> \o ids \in Seq({Other} \cup Ids)
            /\ DOMAIN (<<Other>> \o ids) = 1..n + 1
            /\ (<<Other>> \o ids)[1] = Other
            /\ \A k \in 2..n + 1 : (<<Other>> \o ids)[k] = ids[k - 1]
        BY <2>1, <3>2, <4>1
      <4>3. \A k \in 2..n + 1 : ids[k - 1] = k - 1
        BY <2>1, <4>1
      <4>4. queue = <<Other>> \o ids
        BY <3>4 DEF ids
      <4>5. QED
        BY <4>2, <4>3, <4>4
    <3>5. QED
      BY <1>4, <3>3, <3>4
  <2>7. QueuedOnce
    <3>1. ASSUME NEW k \in DOMAIN queue, queue[k] # Other
          PROVE  Waits(queue[k]) /\ \A j \in DOMAIN queue : queue[j] = queue[k] => j = k
      <4>1. CASE DOMAIN queue = 1..n /\ \A j \in 1..n : queue[j] = j
        BY <2>5, <4>1
      <4>2. CASE DOMAIN queue = 1..n + 1 /\ queue[1] = Other /\ \A j \in 2..n + 1 : queue[j] = j - 1
        <5>1. k \in 2..n + 1
          BY <2>1, <3>1, <4>2
        <5>2. queue[k] = k - 1 /\ k - 1 \in 1..n
          BY <2>1, <4>2, <5>1
        <5>3. ASSUME NEW j \in DOMAIN queue, queue[j] = queue[k]
              PROVE  j = k
          <6>1. j \in 2..n + 1
            BY <2>1, <3>1, <4>2, <5>3
          <6>2. QED
            BY <4>2, <5>1, <5>2, <5>3, <6>1, <2>1
        <5>4. QED
          BY <2>5, <5>2, <5>3
      <4>3. QED
        BY <2>6, <4>1, <4>2
    <3>2. QED
      BY <3>1 DEF QueuedOnce
  <2>8. LoopTyped
    BY <1>1, <2>3, <2>6, IterationNumbers DEF LoopTyped
  <2>9. \A o \in Ids : ReportBounded(o) /\ ReportAgrees(o)
    BY <1>2, <2>4, UnstartedIs, IterationNumbers DEF ReportBounded, ReportAgrees
  <2>10. QED
    BY <2>7, <2>8, <2>9 DEF OutcomeInv
<1>5. QED
  BY <1>3, <1>4 DEF OutcomeInit

LEMMA OutcomeStep ==
  ASSUME OutcomeInv, [OutcomeNext]_outcomeVars
  PROVE  OutcomeInv'
<1>1. ASSUME NEW o \in Ids, Declare(o) PROVE OutcomeInv'
  BY <1>1, DeclareStep
<1>2. CASE OtherEvent
  BY <1>2, OtherEventStep
<1>3. CASE InterruptTurn
  BY <1>3, RestStep DEF InterruptTurn
<1>4. CASE RaiseBudget \/ SessionEnds \/ OutcomeRestart \/ UNCHANGED outcomeVars
  <2>1. UNCHANGED <<log, queue, pc, trigger, iteration, aborted>> /\ cut \subseteq cut'
    BY <1>4 DEF RaiseBudget, SessionEnds, OutcomeRestart, outcomeVars, loopVars
  <2>2. aborted' \in BOOLEAN
    BY <2>1 DEF OutcomeInv, LoopTyped
  <2>3. QED
    BY <2>1, <2>2, RestStep
<1>5. CASE runTurn
  BY <1>5, RunTurnStep
<1>6. CASE AgentWorks
  BY <1>6, WorkStep DEF AgentWorks, loopVars
<1>7. CASE TurnReturns
  BY <1>7, TurnReturnsStep
<1>8. CASE TurnThrows
  BY <1>8, TurnThrowsStep
<1>9. CASE runOutcomeEvaluation
  BY <1>9, EvaluationStep
<1>10. CASE GraderThrows
  BY <1>10, GraderThrowsStep
<1>11. CASE OutcomeCrash
  BY <1>11, CrashStep
<1>12. QED
  BY <1>1, <1>2, <1>3, <1>4, <1>5, <1>6, <1>7, <1>8, <1>9, <1>10, <1>11 DEF OutcomeNext

-----------------------------------------------------------------------------
(* Verdicts. *)

\* A verdict that is read stays, unless the outcome itself is at work.
LEMMA VerdictKept ==
  ASSUME NEW o \in Ids, over(o), Keeps(log, log', o)
  PROVE  outcomeEvaluationsFromEvents(log', o) = outcomeEvaluationsFromEvents(log, o)
<1>1. outcomeEvaluationsFromEvents(log, o) \notin Unstarted
  BY UnstartedIs DEF over
<1>2. QED
  BY <1>1 DEF Keeps

\* An outcome with a verdict runs only while the agent settles it.
LEMMA OverSettles ==
  ASSUME OutcomeInv, NEW o \in Ids, over(o), running(o)
  PROVE  pc = "settling" /\ o = trigger
         /\ outcomeEvaluationsFromEvents(log, o) = reported("max_iterations_reached", iteration)
<1>1. ReportAgrees(o) /\ report(o).result \in TERMINAL_RESULTS
  BY DEF OutcomeInv, over, report
<1>2. pc # "turn"
  BY <1>1, UnstartedIs DEF ReportAgrees
<1>3. pc # "grading" /\ pc # "revising"
  BY <1>1, Verdictless DEF ReportAgrees, reported
<1>4. pc = "settling"
  BY <1>2, <1>3 DEF OutcomeInv, LoopTyped, running
<1>5. QED
  BY <1>1, <1>4 DEF ReportAgrees, report, running

\* The loop writes of its own outcome only.
LEMMA OthersKept ==
  ASSUME OutcomeInv, TurnReturns \/ runOutcomeEvaluation \/ GraderThrows, NEW o \in Ids, o # trigger
  PROVE  Keeps(log, log', o)
<1>1. log \in Seq(Event) /\ iteration \in 0..MaxIterations - 1 /\ (trigger # Other => trigger \in Ids)
      /\ (pc = "grading" => trigger \in Ids)
  BY DEF OutcomeInv, LoopTyped
<1>2. Keeps(log, log, o)
  BY DEF Keeps
<1>3. ASSUME trigger \in Ids, NEW result \in Results
      PROVE  Keeps(log, Append(log, ends(trigger, iteration, result)), o)
             /\ Append(log, ends(trigger, iteration, result)) \in Seq(Event)
  BY <1>1, <1>3, EndKeeps DEF Extends
<1>4. CASE TurnReturns
  <2>1. \/ log' = log
        \/ trigger # Other /\ \E result \in Results : log' = Append(log, ends(trigger, iteration, result))
        \/ trigger # Other /\ log' = Append(log, starts(trigger, iteration))
    BY <1>4, Terminals DEF TurnReturns, unlessStopped, closeOutcome, finish, grade
  <2>2. trigger # Other => Keeps(log, Append(log, starts(trigger, iteration)), o)
    BY <1>1, StartedKeeps
  <2>3. QED
    BY <1>1, <1>2, <1>3, <2>1, <2>2
<1>5. CASE GraderThrows
  <2>1. log' = Append(log, ends(trigger, iteration, "failed")) /\ trigger \in Ids
    BY <1>1, <1>5 DEF GraderThrows, finish
  <2>2. QED
    BY <1>3, <2>1, Terminals
<1>6. CASE runOutcomeEvaluation
  <2>1. trigger \in Ids
    BY <1>1, <1>6 DEF runOutcomeEvaluation
  <2>2. \E result \in Results :
          LET events == Append(log, ends(trigger, iteration, result))
          IN \/ log' = events
             \/ \E i \in 0..MaxIterations - 1, last \in Results : log' = Append(events, ends(trigger, i, last))
    <3>1. iteration # MaxIterations - 1 => iteration + 1 \in 0..MaxIterations - 1
      BY <1>1, IterationNumbers
    <3>2. {"interrupted", "budget_reached", "needs_revision", "satisfied", "failed", "max_iterations_reached"}
             \subseteq Results
      BY Terminals
    <3>3. \/ \E answer \in {"satisfied", "failed"} : log' = Append(log, ends(trigger, iteration, answer))
          \/ /\ iteration # MaxIterations - 1
             /\ LET events == Append(log, ends(trigger, iteration, "needs_revision"))
                IN \/ log' = events
                   \/ \E last \in {"interrupted", "budget_reached"} :
                        log' = Append(events, ends(trigger, iteration + 1, last))
          \/ LET events == Append(log, ends(trigger, iteration, "max_iterations_reached"))
             IN \/ log' = events
                \/ log' = Append(events, ends(trigger, iteration, "budget_reached"))
      BY <1>6 DEF runOutcomeEvaluation, Verdicts, budgetSpent, unlessStopped, closeOutcome, finish, revise
    <3>4. QED
      BY <1>1, <3>1, <3>2, <3>3
  <2>3. PICK result \in Results :
          LET events == Append(log, ends(trigger, iteration, result))
          IN \/ log' = events
             \/ \E i \in 0..MaxIterations - 1, last \in Results : log' = Append(events, ends(trigger, i, last))
    BY <2>2
  <2> DEFINE events == Append(log, ends(trigger, iteration, result))
  <2>4. Keeps(log, events, o) /\ events \in Seq(Event)
    BY <1>3, <2>1
  <2>5. \A i \in 0..MaxIterations - 1, last \in Results :
          Keeps(events, Append(events, ends(trigger, i, last)), o)
    <3> HIDE DEF events
    <3>1. QED
      BY <2>1, <2>4, EndKeeps
  <2>6. CASE log' = events
    BY <2>4, <2>6
  <2>7. ASSUME NEW i \in 0..MaxIterations - 1, NEW last \in Results,
               log' = Append(events, ends(trigger, i, last))
        PROVE  Keeps(log, log', o)
    <3>1. Keeps(events, log', o)
      BY <2>5, <2>7
    <3> HIDE DEF events
    <3>2. QED
      BY <2>4, <3>1, KeepsBoth
  <2>8. QED
    BY <2>3, <2>6, <2>7
<1>7. QED
  BY <1>4, <1>5, <1>6

LEMMA VerdictStep ==
  ASSUME OutcomeInv, [OutcomeNext]_outcomeVars, NEW o \in Ids, over(o)
  PROVE  LET r == outcomeEvaluationsFromEvents(log, o)
         IN \/ outcomeEvaluationsFromEvents(log', o) = r
            \/ /\ r.result = "max_iterations_reached" /\ running(o)
               /\ outcomeEvaluationsFromEvents(log', o) = reported("interrupted", r.iteration)
<1>1. log \in Seq(Event) /\ pc \in {"none", "turn", "grading", "revising", "settling"}
  BY DEF OutcomeInv, LoopTyped
<1>2. CASE log' = log
  BY <1>2
<1>3. CASE log' = withWork(log)
  BY <1>1, <1>3, WorkKeeps, VerdictKept
<1>4. ASSUME NEW p \in Ids, Declare(p)
      PROVE  outcomeEvaluationsFromEvents(log', o) = outcomeEvaluationsFromEvents(log, o)
  <2>1. log' = Append(log, define(p)) /\ define(p) \in Event /\ define(p).type = "define"
    BY <1>4, Events DEF Declare
  <2>2. Keeps(log, log', o)
    BY <1>1, <2>1, KeepsAppend
  <2>3. QED
    BY <2>2, VerdictKept
<1>5. CASE TurnReturns \/ runOutcomeEvaluation \/ GraderThrows
  <2>1. CASE ~ running(o)
    <3>1. o # trigger
      <4>1. pc # "none"
        BY <1>5 DEF TurnReturns, runOutcomeEvaluation, GraderThrows, Acting
      <4>2. QED
        BY <2>1, <4>1 DEF running
    <3>2. Keeps(log, log', o)
      BY <1>5, <3>1, OthersKept
    <3>3. QED
      BY <3>2, VerdictKept
  <2>2. CASE running(o)
    <3>1. /\ pc = "settling" /\ o = trigger
          /\ outcomeEvaluationsFromEvents(log, o) = reported("max_iterations_reached", iteration)
      BY <2>2, OverSettles
    <3>2. TurnReturns
      BY <1>5, <3>1 DEF runOutcomeEvaluation, GraderThrows
    <3>3. log' = log \/ log' = Append(log, ends(trigger, iteration, "interrupted"))
      BY <3>1, <3>2, IterationNumbers DEF TurnReturns, closeOutcome, finish
    <3>4. iteration \in 0..MaxIterations - 1
      BY DEF OutcomeInv, LoopTyped
    <3>5. outcomeEvaluationsFromEvents(Append(log, ends(o, iteration, "interrupted")), o)
            = reported("interrupted", iteration)
      BY <1>1, <3>4, ReportEnd, Terminals
    <3>6. CASE log' = log
      BY <3>6
    <3>7. CASE log' = Append(log, ends(trigger, iteration, "interrupted"))
      <4>1. outcomeEvaluationsFromEvents(log', o) = reported("interrupted", iteration)
        BY <3>1, <3>5, <3>7
      <4>2. /\ outcomeEvaluationsFromEvents(log, o).result = "max_iterations_reached"
            /\ outcomeEvaluationsFromEvents(log, o).iteration = iteration
        BY <3>1 DEF reported
      <4>3. QED
        BY <2>2, <4>1, <4>2
    <3>8. QED
      BY <3>3, <3>6, <3>7
  <2>3. QED
    BY <2>1, <2>2
<1>6. log' = log \/ log' = withWork(log) \/ (\E p \in Ids : Declare(p))
      \/ TurnReturns \/ runOutcomeEvaluation \/ GraderThrows
  BY DEF OutcomeNext, OtherEvent, InterruptTurn, RaiseBudget, SessionEnds, runTurn, AgentWorks,
         TurnThrows, finish, OutcomeCrash, OutcomeRestart, outcomeVars
<1>7. QED
  BY <1>2, <1>3, <1>4, <1>5, <1>6

-----------------------------------------------------------------------------

\* The inductive invariant holds whenever the specification is followed.
THEOREM OutcomeInvariance == OutcomeSpec => []OutcomeInv
<1>1. OutcomeInv /\ [OutcomeNext]_outcomeVars => OutcomeInv'
  BY OutcomeStep
<1>2. QED
  BY <1>1, OutcomeStarts, PTL DEF OutcomeSpec

\* What a client reads is where the loop is, for any number of declarations,
\* iterations, other turns and crashes.
THEOREM OutcomeReported == OutcomeSpec => []ReportFollowsLoop
<1>1. OutcomeInv => ReportFollowsLoop
  <2>1. SUFFICES ASSUME OutcomeInv, NEW o \in Ids, declared(o)
                 PROVE  /\ running(o) /\ pc = "grading" => report(o) = reported("evaluating", iteration)
                        /\ running(o) /\ pc = "revising" => report(o) = reported("running", iteration)
                        /\ running(o) /\ pc = "settling" => report(o).result = "max_iterations_reached"
                        /\ report(o).result = "evaluating" => (running(o) /\ pc = "grading") \/ o \in cut
                        /\ report(o).iteration < MaxIterations
    BY DEF ReportFollowsLoop, report
  <2>2. ReportBounded(o) /\ ReportAgrees(o)
    BY <2>1 DEF OutcomeInv
  <2>3. report(o).iteration < MaxIterations
    BY <2>2, OutcomeNumbers DEF ReportBounded
  <2>4. running(o) /\ pc = "settling" => report(o).result = "max_iterations_reached"
    BY <2>2 DEF ReportAgrees, reported
  <2>5. QED
    BY <2>2, <2>3, <2>4 DEF ReportBounded, ReportAgrees
<1>2. QED
  BY <1>1, OutcomeInvariance, PTL

\* A verdict that was read is read for ever, but for the one that a stop of the
\* settling turn turns into an interruption.
THEOREM OutcomeVerdict == OutcomeSpec => VerdictHolds
<1>1. OutcomeInv /\ [OutcomeNext]_outcomeVars =>
        [\A o \in Ids : over(o) =>
           LET r == outcomeEvaluationsFromEvents(log, o)
           IN \/ outcomeEvaluationsFromEvents(log', o) = r
              \/ /\ r.result = "max_iterations_reached" /\ running(o)
                 /\ outcomeEvaluationsFromEvents(log', o) = reported("interrupted", r.iteration)]_outcomeVars
  BY VerdictStep
<1>2. QED
  BY <1>1, OutcomeInvariance, PTL DEF OutcomeSpec, VerdictHolds
==============================================================================
