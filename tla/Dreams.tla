-------------------------------- MODULE Dreams --------------------------------
(***************************************************************************)
(* Dreams: memory consolidation jobs, each run by a pipeline session.  A   *)
(* dream's row follows its session only when something looks: a route that *)
(* reads it, or a sweep (the operations timer, the list route) that reads  *)
(* all active rows at once and then brings them up to date one by one,     *)
(* with the rows as they were read, while other requests are served.       *)
(*                                                                         *)
(* A pipeline session is its status and the reason of its last idle event: *)
(* "finished" is idle with end_turn or completed, "stopped" also idle with *)
(* end_turn although its turn was cut off, "short" idle for another reason, *)
(* failed or timed out.  Archiving marks the session in the step that asks *)
(* for it; the release of its sandbox is left out, and so are usage,       *)
(* models, the corpus of the prompt, memory records, and messages that a   *)
(* client sends to a pipeline session.                                     *)
(***************************************************************************)
EXTENDS Integers, FiniteSets

CONSTANTS
  DreamIds,
  Sweeps,        \* sweeps that may be under way at once
  MaxSessions,   \* bound: the sessions started for one dream
  MaxDisturbances \* bound: what clients do to pipeline sessions, and deaths of the process

ASSUME DreamNumbers ==
  MaxSessions \in Nat \ {0} /\ MaxDisturbances \in Nat

VARIABLES
  dream,     \* the rows of dreams
  session,   \* per dream and number: its pipeline sessions
  reading,   \* per sweep and dream: the session of the row it is still to bring up to date
  canceling, \* per dream: the session of the row a cancel found active
  draining,  \* sessions a cancel has aborted and whose turn it waits for
  cutOff,    \* history: dreams whose start or cancel the process's death cut off
  disturbances

dreamVars == <<dream, session, reading, canceling, draining, cutOff, disturbances>>

Numbers == 1..MaxSessions
NoSession == 0       \* session_id is NULL
NotRead == 0 - 1

NoDream == [status |-> "none", session |-> NoSession, archived |-> FALSE,
            existing |-> FALSE, output |-> FALSE]
DreamRows == [status : {"none", "pending", "running", "completed", "failed", "canceled"},
              session : 0..MaxSessions, archived : BOOLEAN,
              existing : BOOLEAN,  \* output_behavior is update_existing
              output : BOOLEAN]    \* output_store_id is set
PipelineStates == {"none", "working", "finished", "stopped", "short", "archived", "gone"}

DreamInit ==
  /\ dream = [d \in DreamIds |-> NoDream]
  /\ session = [d \in DreamIds |-> [k \in Numbers |-> "none"]]
  /\ reading = [s \in Sweeps |-> [d \in DreamIds |-> NotRead]]
  /\ canceling = [d \in DreamIds |-> NotRead]
  /\ draining = {} /\ cutOff = {}
  /\ disturbances = 0

ActiveDream(d) == dream[d].status \in {"pending", "running"}
TerminalDream(d) == dream[d].status \in {"completed", "failed", "canceled"}

-----------------------------------------------------------------------------
(* Starting and reconciling. *)

free(d) == {k \in Numbers : session[d][k] = "none"}
unused(d) == CHOOSE k \in free(d) : TRUE

\* startDream writes the row whatever it holds by now: running with a new session,
\* whose first turn is queued, or failed (the output store of a failed dream is read
\* by nobody).
startDream(d, row) ==
  \/ /\ free(d) # {}
     /\ dream' = [dream EXCEPT ![d] =
          [row EXCEPT !.status = "running", !.session = unused(d), !.output = TRUE]]
     /\ session' = [session EXCEPT ![d][unused(d)] = "working"]
  \/ /\ dream' = [dream EXCEPT ![d] = [row EXCEPT !.status = "failed", !.output = TRUE]]
     /\ UNCHANGED session

\* What the session says of its dream.
verdict(state) == CASE state \in {"finished", "stopped"} -> "completed"
                    [] state \in {"short", "gone"} -> "failed"
                    [] state = "archived" -> "canceled"

\* finish: the row first, then the session is archived.
idleStates == {"finished", "stopped", "short"}

finished_KeepsSession(d, k) == session
finished(d, k) == IF session[d][k] \in idleStates
                  THEN [session EXCEPT ![d][k] = "archived"] ELSE session

\* syncDream on an active row that names session k, or none; it writes the row
\* whatever it holds by now.
recovered_Waits(d, k) == k = NoSession /\ UNCHANGED <<dream, session>>
recovered(d, k) == k = NoSession /\ startDream(d, dream[d])

syncDream(d, k) ==
  \/ recovered(d, k)
  \/ k # NoSession /\ session[d][k] = "working" /\ UNCHANGED <<dream, session>>
  \/ /\ k # NoSession /\ session[d][k] # "working"
     /\ dream' = [dream EXCEPT ![d].status = verdict(session[d][k])]
     /\ session' = finished(d, k)

\* A route that reads a dream; row and session are read in the same step.
RetrieveDream(d) ==
  /\ ActiveDream(d)
  /\ syncDream(d, dream[d].session)
  /\ UNCHANGED <<reading, canceling, draining, cutOff, disturbances>>

sweeping(s) == \E d \in DreamIds : reading[s][d] # NotRead

sweepDreams(s) ==
  /\ ~ sweeping(s)
  /\ \E d \in DreamIds : ActiveDream(d)
  /\ reading' = [reading EXCEPT ![s] =
       [d \in DreamIds |-> IF ActiveDream(d) THEN dream[d].session ELSE NotRead]]
  /\ UNCHANGED <<dream, session, canceling, draining, cutOff, disturbances>>

SweepRow(s) ==
  \E d \in DreamIds :
    /\ reading[s][d] # NotRead
    /\ syncDream(d, reading[s][d])
    /\ reading' = [reading EXCEPT ![s][d] = NotRead]
    /\ UNCHANGED <<canceling, draining, cutOff, disturbances>>

-----------------------------------------------------------------------------
(* Requests. *)

\* The single-writer rule of the create route, over the active rows that have their
\* output store; all dreams that update a store update the same one.
targetHeld(d) ==
  \E e \in DreamIds \ {d} :
    dream[e].existing /\ dream[e].output /\ ActiveDream(e) /\ ~ dream[e].archived

Admitted(d, existing) == dream[d].status = "none" /\ (existing => ~ targetHeld(d))

CreateDream(d) ==
  /\ \E existing \in BOOLEAN :
       /\ Admitted(d, existing)
       /\ startDream(d, [NoDream EXCEPT !.status = "pending", !.existing = existing])
  /\ UNCHANGED <<reading, canceling, draining, cutOff, disturbances>>

\* The cancel route finds the dream still running once its row is up to date,
CancelFound(d) ==
  /\ ActiveDream(d) /\ ~ dream[d].archived /\ canceling[d] = NotRead
  /\ dream[d].session # NoSession /\ session[d][dream[d].session] = "working"
  /\ canceling' = [canceling EXCEPT ![d] = dream[d].session]
  /\ UNCHANGED <<dream, session, reading, draining, cutOff, disturbances>>

\* and then writes it canceled, whatever it holds by now, and takes the session down:
\* a running turn is aborted and waited for first.
cancelDream_NotStopped(d) ==
  /\ canceling[d] # NotRead
  /\ dream' = [dream EXCEPT ![d].status = "canceled"]
  /\ session' = finished(d, canceling[d])
  /\ canceling' = [canceling EXCEPT ![d] = NotRead]
  /\ UNCHANGED <<reading, draining, cutOff, disturbances>>

cancelDream(d) ==
  LET k == canceling[d]
  IN /\ k # NotRead
     /\ dream' = [dream EXCEPT ![d].status = "canceled"]
     /\ session' = finished(d, k)
     /\ draining' = IF session[d][k] = "working" THEN draining \cup {<<d, k>>} ELSE draining
     /\ canceling' = [canceling EXCEPT ![d] = NotRead]
     /\ UNCHANGED <<reading, cutOff, disturbances>>

Drained(d, k) ==
  /\ <<d, k>> \in draining /\ session[d][k] # "working"
  /\ draining' = draining \ {<<d, k>>}
  /\ session' = finished(d, k)
  /\ UNCHANGED <<dream, reading, canceling, cutOff, disturbances>>

ArchiveDream(d) ==
  /\ TerminalDream(d) /\ ~ dream[d].archived
  /\ dream' = [dream EXCEPT ![d].archived = TRUE]
  /\ UNCHANGED <<session, reading, canceling, draining, cutOff, disturbances>>

-----------------------------------------------------------------------------
(* Pipeline sessions and the process. *)

\* A turn runs to its end, stops short of it, or unwinds after the abort.
TurnEnds(d, k) ==
  /\ session[d][k] = "working"
  /\ \E state \in {"finished", "short"} \cup (IF <<d, k>> \in draining THEN {"stopped"} ELSE {}) :
       session' = [session EXCEPT ![d][k] = state]
  /\ UNCHANGED <<dream, reading, canceling, draining, cutOff, disturbances>>

Disturbed == disturbances < MaxDisturbances /\ disturbances' = disturbances + 1

\* A client interrupts a pipeline session, which is idle with end_turn then,
\* archives or deletes one that does not run.
Meddle(d, k) ==
  /\ Disturbed
  /\ \/ session[d][k] = "working" /\ session' = [session EXCEPT ![d][k] = "stopped"]
     \/ session[d][k] \in idleStates /\ session' = [session EXCEPT ![d][k] = "archived"]
     \/ session[d][k] \in idleStates \cup {"archived"} /\ session' = [session EXCEPT ![d][k] = "gone"]
  /\ UNCHANGED <<dream, reading, canceling, draining, cutOff>>

\* The process dies and starts again: running sessions are set to idle, with
\* end_turn (reconcileOrphans), also those whose cancel waited for their turn.
ProcessDies(started) ==
  /\ Disturbed
  /\ session' = [d \in DreamIds |-> [k \in Numbers |->
       IF session[d][k] = "working" THEN "stopped" ELSE session[d][k]]]
  /\ reading' = [s \in Sweeps |-> [d \in DreamIds |-> NotRead]]
  /\ canceling' = [d \in DreamIds |-> NotRead]
  /\ draining' = {}
  /\ cutOff' = cutOff \cup started \cup {d \in DreamIds : \E k \in Numbers : <<d, k>> \in draining}

DreamCrash == ProcessDies({}) /\ UNCHANGED dream

\* It dies between the row and its start.
CreateCutOff(d) ==
  /\ \E existing \in BOOLEAN :
       /\ Admitted(d, existing)
       /\ dream' = [dream EXCEPT ![d] = [NoDream EXCEPT !.status = "pending", !.existing = existing]]
  /\ ProcessDies({d})

-----------------------------------------------------------------------------
DreamNext ==
  \/ \E d \in DreamIds : \/ CreateDream(d) \/ RetrieveDream(d) \/ CancelFound(d)
                         \/ cancelDream(d) \/ ArchiveDream(d) \/ CreateCutOff(d)
  \/ \E s \in Sweeps : sweepDreams(s) \/ SweepRow(s)
  \/ \E d \in DreamIds, k \in Numbers : Drained(d, k) \/ TurnEnds(d, k) \/ Meddle(d, k)
  \/ DreamCrash

\* The timer keeps sweeping, handlers go on after their awaits, turns end.
DreamFairness ==
  /\ \A s \in Sweeps : WF_dreamVars(sweepDreams(s)) /\ WF_dreamVars(SweepRow(s))
  /\ \A d \in DreamIds : WF_dreamVars(cancelDream(d))
  /\ \A d \in DreamIds, k \in Numbers : WF_dreamVars(TurnEnds(d, k)) /\ WF_dreamVars(Drained(d, k))

DreamSpec == DreamInit /\ [][DreamNext]_dreamVars /\ DreamFairness

-----------------------------------------------------------------------------
(* Properties. *)

\* Types; a running dream names a session, and who waits for a session names one.
DreamTypeOK ==
  /\ dream \in [DreamIds -> DreamRows]
  /\ session \in [DreamIds -> [Numbers -> PipelineStates]]
  /\ reading \in [Sweeps -> [DreamIds -> {NotRead} \cup 0..MaxSessions]]
  /\ canceling \in [DreamIds -> {NotRead} \cup Numbers]
  /\ draining \subseteq DreamIds \X Numbers
  /\ cutOff \subseteq DreamIds
  /\ disturbances \in 0..MaxDisturbances
  /\ \A d \in DreamIds : dream[d].status = "running" => dream[d].session # NoSession

\* A dream that is over has given its pipeline session back: it is archived, unless
\* a cancel still waits for its turn, or the process died over the cancel or over
\* the dream's start (after which two sweeps may each start it).
EndedDreamReleases ==
  \A d \in DreamIds \ cutOff :
    TerminalDream(d) => \A k \in Numbers :
      session[d][k] \in {"working"} \cup idleStates => <<d, k>> \in draining

\* The turns of pipeline sessions that write to the store.
writers ==
  {w \in (DreamIds \ cutOff) \X Numbers :
     dream[w[1]].existing /\ session[w[1]][w[2]] = "working"}

\* Of all turns that write to the store, of several dreams or of one, at most one has
\* not been told to stop, whoever cancels, sweeps with old rows and creates meanwhile.
\* The turn of a canceled dream may still write next to it: the create route says that
\* a dream which "hasn't fully stopped" is a conflict, but admits the next one as soon
\* as the row says canceled.  A dream whose start the process's death cut off does not
\* hold the store either, and is left out.
OneWriterUnlessAborted == \A v, w \in writers \ draining : v = w

\* Every dream ends and stays ended, also one nobody looks at: a restart, a start
\* that was cut off, a stale row that starts it again only delay it.
DreamsSettle == \A d \in DreamIds : <>[](~ ActiveDream(d))
=============================================================================
