--------------------------- MODULE SessionTurns_proofs ---------------------------
(***************************************************************************)
(* Theorems about SessionTurns, for every set of calls, every ceiling and  *)
(* every bound.  One inductive invariant, IInv, carries all but the one    *)
(* about accepted confirmations, which needs KeptInv on top of it.         *)
(***************************************************************************)
EXTENDS SessionTurns, SequenceTheorems, TLAPS

-------------------------------------------------------------------------------
(* The inductive invariant, in four parts. *)

\* A turn in progress runs in a living process and owns the status; a working
\* session without one has its first message waiting.
TurnInv ==
  /\ ~up => pc = "idle" /\ chain = <<>>
  /\ exists /\ pc \in Active =>
       status = "running" \/ (pc = "model" /\ status = "retrying")
  /\ up /\ exists /\ status \in Working /\ pc \notin Active =>
       pc = "idle" /\ chain # <<>> /\ chain[1] = Message

\* Where the result of an executed call can be missing, and what a step's calls
\* look like in the log while the step is under way.
LogInv ==
  /\ ~exists => \A c \in Calls : use[c] = "none"
  /\ exists /\ (up => pc # "results") /\ (~up => status \notin Working) =>
       \A c \in Calls : use[c] = "tool" => results[c] > 0
  /\ up /\ exists /\ pc = "results" => \A c \in Calls :
       /\ c \in tools => use[c] = "tool"
       /\ use[c] = "tool" /\ results[c] = 0 => c \in tools
  /\ \A c \in Calls : use[c] = "none" => results[c] = 0

\* The calls of a step are new to the log until the step logs them.
StepInv ==
  exists /\ pc \in {"tools", "results", "parking"} =>
    /\ \A c \in asks \cup customs : use[c] = "none" /\ ran[c] = 0 /\ c \notin tools
    /\ pc = "tools" => \A c \in tools : use[c] = "none"

\* An answer on its way names a call that waits for it.
AnswerInv(t) ==
  /\ t.type \in {"confirm", "custom"} => t.call \in Calls
  /\ t.type = "confirm" =>
       /\ use[t.call] = "ask"
       /\ t.allow => confirmed[t.call] = "allow"
       /\ confirmed[t.call] # "none"

AnswersInv ==
  /\ exists => AnswerInv(trigger) /\ \A i \in 1..Len(chain) : AnswerInv(chain[i])
  /\ pc = "confirming" => trigger.type = "confirm"

\* An approval that has not been consumed is the only one of its call, and its
\* call has not run; a call that ran unapproved is not an ask.
ApprovalInv ==
  /\ exists => \A i \in 1..Len(chain) :
       chain[i].type = "confirm" => ran[chain[i].call] = 0
  /\ exists /\ pc = "provision" /\ trigger.type = "confirm" => ran[trigger.call] = 0
  /\ exists => \A i, j \in 1..Len(chain) :
       chain[i].type = "confirm" /\ chain[j].type = "confirm"
         /\ chain[i].call = chain[j].call => i = j
  /\ exists /\ pc = "provision" /\ trigger.type = "confirm" =>
       \A i \in 1..Len(chain) :
         chain[i].type = "confirm" => chain[i].call # trigger.call
  /\ \A c \in Calls : use[c] = "ask" /\ ran[c] > 0 => confirmed[c] = "allow"
  /\ \A c \in Calls : use[c] = "none" => confirmed[c] = "none"
  /\ \A c \in Calls : ran[c] <= 1

\* Nothing is parked when the turn of an answer is about to ask the model.
GateInv ==
  exists /\ pc = "context" /\ trigger.type \in {"confirm", "custom"} =>
    parkedCalls = {}

IInv == TypeOK /\ TurnInv /\ LogInv /\ StepInv /\ AnswersInv /\ ApprovalInv /\ GateInv

-------------------------------------------------------------------------------
(* The status table. *)

\* What the table says about the moves a turn relies on, and that skipping the
\* moves it does not list keeps the status a status.
LEMMA Table ==
  /\ \A s, n \in Statuses : Moved(s, n) \in Statuses /\ Moved(s, n) \in {s, n}
  /\ \A s \in Statuses : ~isTerminal(s) => Moved(s, "running") = "running"
  /\ \A s \in Working : ~isTerminal(s) /\ Moved(s, "paused") = "paused"
                         /\ Moved(s, "failed") = "failed"
  /\ Moved("running", "requires_action") = "requires_action"
  /\ \A s \in Working : Moved(s, "retrying") = "retrying"
  <1>1. \A s, n \in Statuses : Moved(s, n) \in Statuses /\ Moved(s, n) \in {s, n}
    BY DEF Moved
  <1>2. \A s \in Statuses : s \in {"queued", "running", "retrying", "paused", "requires_action"}
                             \/ isTerminal(s)
    BY DEF Statuses, isTerminal, canTransition, SESSION_TRANSITIONS
  <1>3. \A s \in {"queued", "running", "retrying", "paused", "requires_action"} :
           Moved(s, "running") = "running" /\ ~isTerminal(s)
    BY DEF Statuses, Moved, isTerminal, canTransition, SESSION_TRANSITIONS
  <1>4. \A s \in Working : Moved(s, "paused") = "paused" /\ Moved(s, "failed") = "failed"
                           /\ Moved(s, "retrying") = "retrying"
    BY DEF Working, Statuses, Moved, canTransition, SESSION_TRANSITIONS
  <1>5. Moved("running", "requires_action") = "requires_action"
    BY DEF Statuses, Moved, canTransition, SESSION_TRANSITIONS
  <1> QED
    BY <1>1, <1>2, <1>3, <1>4, <1>5 DEF Working

-------------------------------------------------------------------------------
(* Type correctness. *)

LEMMA TriggerTypes ==
  /\ Message \in Trigger /\ Resume \in Trigger
  /\ \A c \in Calls, allow \in BOOLEAN : Confirm(c, allow) \in Trigger
  /\ \A c \in Calls : Custom(c) \in Trigger
  BY Zenon DEF Message, Resume, Confirm, Custom, Trigger

\* What a queue of turns does when a turn is added and when one is taken.
LEMMA QueueMoves ==
  /\ \A q \in Seq(Trigger), t \in Trigger :
       Append(q, t) \in Seq(Trigger) /\ Len(Append(q, t)) = Len(q) + 1
  /\ \A q \in Seq(Trigger) : q # <<>> =>
       Head(q) \in Trigger /\ Tail(q) \in Seq(Trigger) /\ Len(Tail(q)) = Len(q) - 1
  /\ \A q \in Seq(Trigger) : Len(q) \in Nat
  /\ \A t \in Trigger : <<t>> \in Seq(Trigger) /\ Len(<<t>>) = 1
  /\ <<>> \in Seq(Trigger) /\ Len(<<>>) = 0
  OBVIOUS

LEMMA RepairTypes == LogTypeOK => resolveOrphanedToolUses \in [Calls -> Nat]
  BY DEF LogTypeOK, resolveOrphanedToolUses

LEMMA TypeInit == Init => TypeOK
  <1> SUFFICES ASSUME Init PROVE TypeOK
    OBVIOUS
  <1> USE CallsAssumption, BoundsAssumption DEF Init
  <1>0. FlagTypeOK
    BY Zenon DEF FlagTypeOK
  <1>1. RowTypeOK
    BY DEF RowTypeOK, Statuses
  <1>2. LogTypeOK
    BY DEF LogTypeOK
  <1>4. TurnTypeOK
    BY TriggerTypes DEF TurnTypeOK, Active
  <1>5. QueueTypeOK
    <2>1. chain = <<>> \/ chain = <<Message>>
      BY Zenon
    <2>2. chain \in Seq(Trigger) /\ (Len(chain) = 0 \/ Len(chain) = 1)
      BY <2>1, TriggerTypes, QueueMoves, Zenon
    <2>3. 0 <= MaxQueue /\ 1 <= MaxQueue
      BY SMT
    <2> HIDE DEF Init
    <2> QED
      BY <2>2, <2>3 DEF QueueTypeOK
  <1> QED
    BY <1>0, <1>1, <1>2, <1>4, <1>5 DEF TypeOK

LEMMA FlagsNext == FlagTypeOK /\ [Next]_vars => FlagTypeOK'
  <1> SUFFICES ASSUME FlagTypeOK, [Next]_vars PROVE FlagTypeOK'
    OBVIOUS
  <1> USE DEF FlagTypeOK, rowVars, statVars, logVars, stepVars, turnVars, procVars
  <1>1. CASE SendMessage
    BY <1>1, Zenon DEF SendMessage
  <1>2. ASSUME NEW c \in Calls, NEW allow \in BOOLEAN, SendConfirmation(c, allow)
       PROVE  FlagTypeOK'
    BY <1>2, Zenon DEF SendConfirmation
  <1>3. ASSUME NEW c \in Calls, SendCustomToolResult(c)
       PROVE  FlagTypeOK'
    BY <1>3, Zenon DEF SendCustomToolResult
  <1>4. CASE Interrupt
    BY <1>4, Zenon DEF Interrupt
  <1>5. ASSUME NEW new \in Caps \cup {NoBudget}, MoveBudget(new)
       PROVE  FlagTypeOK'
    BY <1>5, Zenon DEF MoveBudget
  <1>6. CASE Archive
    BY <1>6, Zenon DEF Archive, Becomes
  <1>7. CASE Delete
    BY <1>7, Zenon DEF Delete
  <1>8. CASE DeleteRows
    BY <1>8, Zenon DEF DeleteRows
  <1>9. CASE ExpireParkedWait
    BY <1>9, Zenon DEF ExpireParkedWait, Becomes
  <1>10. CASE SkipTurn
    BY <1>10, Zenon DEF SkipTurn
  <1>11. CASE StartTurn
    BY <1>11, Zenon DEF StartTurn, Becomes
  <1>12. CASE Prelude
    BY <1>12, Zenon DEF Prelude, EnterTurn, EnterCustomResult, EnterConfirmation, ConfirmedToolReturns, Gate
  <1>13. CASE BuildContext
    BY <1>13, Zenon DEF BuildContext
  <1>14. ASSUME NEW ts \in SUBSET Calls, NEW as \in SUBSET Calls, NEW cs \in SUBSET Calls, ModelAnswers(ts, as, cs)
       PROVE  FlagTypeOK'
    BY <1>14, Zenon DEF ModelAnswers, Becomes
  <1>15. CASE ToolsReturn
    BY <1>15, Zenon DEF ToolsReturn
  <1>16. ASSUME NEW c \in Calls, AppendResult(c)
       PROVE  FlagTypeOK'
    BY <1>16, Zenon DEF AppendResult
  <1>17. CASE StepEnds
    BY <1>17, Zenon DEF StepEnds
  <1>18. CASE ParkCalls
    BY <1>18, Zenon DEF ParkCalls
  <1>19. CASE RetryScheduled
    BY <1>19, Zenon DEF RetryScheduled, Becomes
  <1>20. CASE FinishTurn
    BY <1>20, Zenon DEF FinishTurn, BecomesIdle, TurnOver
  <1>21. CASE AbortTurn
    BY <1>21, Zenon DEF AbortTurn, BecomesIdle, TurnOver, StepDropped
  <1>22. CASE RetriesExhausted
    BY <1>22, Zenon DEF RetriesExhausted, BecomesIdle, TurnOver, StepDropped
  <1>23. CASE TurnThrows
    BY <1>23, Zenon DEF TurnThrows, BecomesIdle, Becomes, StepDropped
  <1>24. CASE Released
    BY <1>24, Zenon DEF Released, TurnOver
  <1>25. CASE TurnLosesRow
    BY <1>25, Zenon DEF TurnLosesRow, TurnOver, StepDropped
  <1>26. CASE Crash
    BY <1>26, Zenon DEF Crash, TurnOver, StepDropped
  <1>27. CASE Restart
    BY <1>27, Zenon DEF Restart, BecomesIdle
  <1>28. CASE UNCHANGED vars
    BY <1>28, Zenon DEF vars
  <1> QED
    BY <1>1, <1>2, <1>3, <1>4, <1>5, <1>6, <1>7, <1>8, <1>9, <1>10, <1>11, <1>12, <1>13, <1>14, <1>15, <1>16, <1>17, <1>18, <1>19, <1>20, <1>21, <1>22, <1>23, <1>24, <1>25, <1>26, <1>27, <1>28
    DEF Next, ClientStep, TurnStep

LEMMA RowNext == RowTypeOK /\ [Next]_vars => RowTypeOK'
  <1> SUFFICES ASSUME RowTypeOK, [Next]_vars PROVE RowTypeOK'
    OBVIOUS
  <1> USE BoundsAssumption, Table
      DEF RowTypeOK, rowVars, statVars, logVars, stepVars, turnVars, procVars
  <1>1. CASE SendMessage
    BY <1>1 DEF SendMessage
  <1>2. ASSUME NEW c \in Calls, NEW allow \in BOOLEAN, SendConfirmation(c, allow)
       PROVE  RowTypeOK'
    BY <1>2 DEF SendConfirmation
  <1>3. ASSUME NEW c \in Calls, SendCustomToolResult(c)
       PROVE  RowTypeOK'
    BY <1>3 DEF SendCustomToolResult
  <1>4. CASE Interrupt
    BY <1>4 DEF Interrupt
  <1>5. ASSUME NEW new \in Caps \cup {NoBudget}, MoveBudget(new)
       PROVE  RowTypeOK'
    BY <1>5 DEF MoveBudget
  <1>6. CASE Archive
    BY <1>6 DEF Archive, Becomes, Statuses
  <1>7. CASE Delete
    BY <1>7 DEF Delete
  <1>8. CASE DeleteRows
    <2>1. status' = status
      BY <1>8 DEF DeleteRows
    <2>2. (cap' = NoBudget /\ spend' = 0) \/ (cap' = cap /\ spend' = spend)
      BY <1>8, Zenon DEF DeleteRows
    <2> QED
      BY <2>1, <2>2
  <1>9. CASE ExpireParkedWait
    BY <1>9 DEF ExpireParkedWait, Becomes, Statuses
  <1>10. CASE SkipTurn
    BY <1>10 DEF SkipTurn
  <1>11. CASE StartTurn
    BY <1>11 DEF StartTurn, Becomes, Statuses
  <1>12. CASE Prelude
    BY <1>12 DEF Prelude
  <1>13. CASE BuildContext
    BY <1>13 DEF BuildContext
  <1>14. ASSUME NEW ts \in SUBSET Calls, NEW as \in SUBSET Calls, NEW cs \in SUBSET Calls, ModelAnswers(ts, as, cs)
       PROVE  RowTypeOK'
    BY <1>14 DEF ModelAnswers, Becomes, Statuses
  <1>15. CASE ToolsReturn
    BY <1>15 DEF ToolsReturn
  <1>16. ASSUME NEW c \in Calls, AppendResult(c)
       PROVE  RowTypeOK'
    BY <1>16 DEF AppendResult
  <1>17. CASE StepEnds
    BY <1>17 DEF StepEnds
  <1>18. CASE ParkCalls
    BY <1>18 DEF ParkCalls
  <1>19. CASE RetryScheduled
    BY <1>19 DEF RetryScheduled, Becomes, Statuses
  <1>20. CASE FinishTurn
    <2>1. \E next \in {"requires_action", "paused"} : status' = Moved(status, next)
      BY <1>20, Zenon DEF FinishTurn, BecomesIdle
    <2>2. cap' = cap /\ spend' = spend
      BY <1>20 DEF FinishTurn
    <2> QED
      BY <2>1, <2>2 DEF Statuses
  <1>21. CASE AbortTurn
    BY <1>21 DEF AbortTurn, BecomesIdle, Statuses
  <1>22. CASE RetriesExhausted
    BY <1>22 DEF RetriesExhausted, BecomesIdle, Statuses
  <1>23. CASE TurnThrows
    <2>1. \E next \in {"paused", "failed"} : status' = Moved(status, next)
      BY <1>23, Zenon DEF TurnThrows, BecomesIdle, Becomes
    <2>2. cap' = cap /\ spend' = spend
      BY <1>23 DEF TurnThrows
    <2> QED
      BY <2>1, <2>2 DEF Statuses
  <1>24. CASE Released
    BY <1>24 DEF Released
  <1>25. CASE TurnLosesRow
    BY <1>25 DEF TurnLosesRow
  <1>26. CASE Crash
    BY <1>26 DEF Crash
  <1>27. CASE Restart
    <2>1. status' = status \/ status' = Moved(status, "paused")
      BY <1>27, Zenon DEF Restart, BecomesIdle
    <2>2. cap' = cap /\ spend' = spend
      BY <1>27 DEF Restart
    <2> QED
      BY <2>1, <2>2 DEF Statuses
  <1>28. CASE UNCHANGED vars
    BY <1>28 DEF vars
  <1> QED
    BY <1>1, <1>2, <1>3, <1>4, <1>5, <1>6, <1>7, <1>8, <1>9, <1>10, <1>11, <1>12, <1>13, <1>14, <1>15, <1>16, <1>17, <1>18, <1>19, <1>20, <1>21, <1>22, <1>23, <1>24, <1>25, <1>26, <1>27, <1>28
    DEF Next, ClientStep, TurnStep

LEMMA LogNext == LogTypeOK /\ TurnTypeOK /\ [Next]_vars => LogTypeOK'
  <1> SUFFICES ASSUME LogTypeOK /\ TurnTypeOK, [Next]_vars PROVE LogTypeOK'
    OBVIOUS
  <1> USE RepairTypes DEF LogTypeOK, TurnTypeOK, rowVars, statVars, logVars, stepVars, turnVars, procVars
  <1>1. CASE SendMessage
    BY <1>1 DEF SendMessage, Trigger
  <1>2. ASSUME NEW c \in Calls, NEW allow \in BOOLEAN, SendConfirmation(c, allow)
       PROVE  LogTypeOK'
    BY <1>2 DEF SendConfirmation, Trigger
  <1>3. ASSUME NEW c \in Calls, SendCustomToolResult(c)
       PROVE  LogTypeOK'
    BY <1>3 DEF SendCustomToolResult, Trigger
  <1>4. CASE Interrupt
    BY <1>4 DEF Interrupt
  <1>5. ASSUME NEW new \in Caps \cup {NoBudget}, MoveBudget(new)
       PROVE  LogTypeOK'
    BY <1>5 DEF MoveBudget, Trigger
  <1>6. CASE Archive
    BY <1>6 DEF Archive
  <1>7. CASE Delete
    BY <1>7 DEF Delete
  <1>8. CASE DeleteRows
    <2>1. ran' = ran
      BY <1>8 DEF DeleteRows
    <2>2. \/ /\ use' = [c \in Calls |-> "none"] /\ results' = [c \in Calls |-> 0]
             /\ confirmed' = [c \in Calls |-> "none"] /\ lost' = {}
          \/ UNCHANGED <<use, results, confirmed, lost>>
      BY <1>8, Zenon DEF DeleteRows
    <2> QED
      BY <2>1, <2>2
  <1>9. CASE ExpireParkedWait
    BY <1>9 DEF ExpireParkedWait
  <1>10. CASE SkipTurn
    BY <1>10 DEF SkipTurn
  <1>11. CASE StartTurn
    BY <1>11 DEF StartTurn
  <1>12. CASE Prelude
    BY <1>12 DEF Prelude, EnterTurn, EnterCustomResult, EnterConfirmation, ConfirmedToolReturns, Gate, Trigger
  <1>13. CASE BuildContext
    BY <1>13 DEF BuildContext
  <1>14. ASSUME NEW ts \in SUBSET Calls, NEW as \in SUBSET Calls, NEW cs \in SUBSET Calls, ModelAnswers(ts, as, cs)
       PROVE  LogTypeOK'
    BY <1>14 DEF ModelAnswers
  <1>15. CASE ToolsReturn
    BY <1>15 DEF ToolsReturn
  <1>16. ASSUME NEW c \in Calls, AppendResult(c)
       PROVE  LogTypeOK'
    BY <1>16 DEF AppendResult
  <1>17. CASE StepEnds
    BY <1>17 DEF StepEnds
  <1>18. CASE ParkCalls
    BY <1>18 DEF ParkCalls
  <1>19. CASE RetryScheduled
    BY <1>19 DEF RetryScheduled
  <1>20. CASE FinishTurn
    BY <1>20 DEF FinishTurn, Trigger
  <1>21. CASE AbortTurn
    BY <1>21 DEF AbortTurn, ForgetAnswer, parkedCalls, Trigger
  <1>22. CASE RetriesExhausted
    BY <1>22 DEF RetriesExhausted, Trigger
  <1>23. CASE TurnThrows
    BY <1>23 DEF TurnThrows, ForgetAnswer, parkedCalls
  <1>24. CASE Released
    BY <1>24 DEF Released, Trigger
  <1>25. CASE TurnLosesRow
    BY <1>25 DEF TurnLosesRow, Trigger
  <1>26. CASE Crash
    BY <1>26 DEF Crash, parkedCalls, Trigger
  <1>27. CASE Restart
    BY <1>27 DEF Restart
  <1>28. CASE UNCHANGED vars
    BY <1>28 DEF vars
  <1> QED
    BY <1>1, <1>2, <1>3, <1>4, <1>5, <1>6, <1>7, <1>8, <1>9, <1>10, <1>11, <1>12, <1>13, <1>14, <1>15, <1>16, <1>17, <1>18, <1>19, <1>20, <1>21, <1>22, <1>23, <1>24, <1>25, <1>26, <1>27, <1>28
    DEF Next, ClientStep, TurnStep

LEMMA TurnNext == TurnTypeOK /\ QueueTypeOK /\ [Next]_vars => TurnTypeOK'
  <1> SUFFICES ASSUME TurnTypeOK /\ QueueTypeOK, [Next]_vars PROVE TurnTypeOK'
    OBVIOUS
  <1> USE TriggerTypes, QueueMoves, BoundsAssumption
      DEF TurnTypeOK, QueueTypeOK, rowVars, statVars, logVars, stepVars, turnVars, procVars
  <1>1. CASE SendMessage
    BY <1>1 DEF SendMessage
  <1>2. ASSUME NEW c \in Calls, NEW allow \in BOOLEAN, SendConfirmation(c, allow)
       PROVE  TurnTypeOK'
    BY <1>2 DEF SendConfirmation
  <1>3. ASSUME NEW c \in Calls, SendCustomToolResult(c)
       PROVE  TurnTypeOK'
    BY <1>3 DEF SendCustomToolResult
  <1>4. CASE Interrupt
    BY <1>4 DEF Interrupt
  <1>5. ASSUME NEW new \in Caps \cup {NoBudget}, MoveBudget(new)
       PROVE  TurnTypeOK'
    BY <1>5 DEF MoveBudget
  <1>6. CASE Archive
    BY <1>6 DEF Archive
  <1>7. CASE Delete
    BY <1>7 DEF Delete
  <1>8. CASE DeleteRows
    BY <1>8 DEF DeleteRows
  <1>9. CASE ExpireParkedWait
    BY <1>9 DEF ExpireParkedWait
  <1>10. CASE SkipTurn
    BY <1>10 DEF SkipTurn
  <1>11. CASE StartTurn
    BY <1>11 DEF StartTurn, Active
  <1>12. CASE Prelude
    BY <1>12 DEF Prelude, EnterTurn, EnterCustomResult, EnterConfirmation, ConfirmedToolReturns, Gate, Active
  <1>13. CASE BuildContext
    BY <1>13 DEF BuildContext, Active
  <1>14. ASSUME NEW ts \in SUBSET Calls, NEW as \in SUBSET Calls, NEW cs \in SUBSET Calls, ModelAnswers(ts, as, cs)
       PROVE  TurnTypeOK'
    <2>1. /\ tools' = ts /\ asks' = as /\ customs' = cs
          /\ pc' = "tools" /\ retries' = 0 /\ trigger' = trigger
      BY <1>14 DEF ModelAnswers
    <2>2. tools' \subseteq Calls /\ asks' \subseteq Calls /\ customs' \subseteq Calls
      BY <1>14, <2>1, Zenon
    <2>3. trigger' \in Trigger
      BY <2>1
    <2>4. retries' \in 0..MaxRetries
      BY <2>1
    <2>5. pc' \in Active
      BY <2>1 DEF Active
    <2> QED
      BY <2>2, <2>3, <2>4, <2>5
  <1>15. CASE ToolsReturn
    BY <1>15 DEF ToolsReturn, Active
  <1>16. ASSUME NEW c \in Calls, AppendResult(c)
       PROVE  TurnTypeOK'
    BY <1>16 DEF AppendResult
  <1>17. CASE StepEnds
    BY <1>17 DEF StepEnds, Active
  <1>18. CASE ParkCalls
    BY <1>18 DEF ParkCalls, Active
  <1>19. CASE RetryScheduled
    BY <1>19 DEF RetryScheduled
  <1>20. CASE FinishTurn
    BY <1>20 DEF FinishTurn, TurnOver
  <1>21. CASE AbortTurn
    BY <1>21 DEF AbortTurn, TurnOver, StepDropped
  <1>22. CASE RetriesExhausted
    BY <1>22 DEF RetriesExhausted, TurnOver, StepDropped
  <1>23. CASE TurnThrows
    BY <1>23 DEF TurnThrows, StepDropped
  <1>24. CASE Released
    BY <1>24 DEF Released, TurnOver
  <1>25. CASE TurnLosesRow
    BY <1>25 DEF TurnLosesRow, TurnOver, StepDropped
  <1>26. CASE Crash
    BY <1>26 DEF Crash, TurnOver, StepDropped
  <1>27. CASE Restart
    BY <1>27 DEF Restart
  <1>28. CASE UNCHANGED vars
    BY <1>28 DEF vars
  <1> QED
    BY <1>1, <1>2, <1>3, <1>4, <1>5, <1>6, <1>7, <1>8, <1>9, <1>10, <1>11, <1>12, <1>13, <1>14, <1>15, <1>16, <1>17, <1>18, <1>19, <1>20, <1>21, <1>22, <1>23, <1>24, <1>25, <1>26, <1>27, <1>28
    DEF Next, ClientStep, TurnStep

LEMMA QueueNext == QueueTypeOK /\ [Next]_vars => QueueTypeOK'
  <1> SUFFICES ASSUME QueueTypeOK, [Next]_vars PROVE QueueTypeOK'
    OBVIOUS
  <1> USE TriggerTypes, QueueMoves, BoundsAssumption
      DEF QueueTypeOK, rowVars, statVars, logVars, stepVars, turnVars, procVars
  <1>1. CASE SendMessage
    BY <1>1 DEF SendMessage, Enqueue
  <1>2. ASSUME NEW c \in Calls, NEW allow \in BOOLEAN, SendConfirmation(c, allow)
       PROVE  QueueTypeOK'
    BY <1>2 DEF SendConfirmation, Enqueue
  <1>3. ASSUME NEW c \in Calls, SendCustomToolResult(c)
       PROVE  QueueTypeOK'
    BY <1>3 DEF SendCustomToolResult, Enqueue
  <1>4. CASE Interrupt
    BY <1>4 DEF Interrupt
  <1>5. ASSUME NEW new \in Caps \cup {NoBudget}, MoveBudget(new)
       PROVE  QueueTypeOK'
    BY <1>5 DEF MoveBudget, Enqueue
  <1>6. CASE Archive
    BY <1>6 DEF Archive
  <1>7. CASE Delete
    BY <1>7 DEF Delete
  <1>8. CASE DeleteRows
    BY <1>8 DEF DeleteRows
  <1>9. CASE ExpireParkedWait
    BY <1>9 DEF ExpireParkedWait
  <1>10. CASE SkipTurn
    BY <1>10 DEF SkipTurn
  <1>11. CASE StartTurn
    BY <1>11 DEF StartTurn
  <1>12. CASE Prelude
    BY <1>12 DEF Prelude
  <1>13. CASE BuildContext
    BY <1>13 DEF BuildContext
  <1>14. ASSUME NEW ts \in SUBSET Calls, NEW as \in SUBSET Calls, NEW cs \in SUBSET Calls, ModelAnswers(ts, as, cs)
       PROVE  QueueTypeOK'
    BY <1>14 DEF ModelAnswers
  <1>15. CASE ToolsReturn
    BY <1>15 DEF ToolsReturn
  <1>16. ASSUME NEW c \in Calls, AppendResult(c)
       PROVE  QueueTypeOK'
    BY <1>16 DEF AppendResult
  <1>17. CASE StepEnds
    BY <1>17 DEF StepEnds
  <1>18. CASE ParkCalls
    BY <1>18 DEF ParkCalls
  <1>19. CASE RetryScheduled
    BY <1>19 DEF RetryScheduled
  <1>20. CASE FinishTurn
    BY <1>20 DEF FinishTurn
  <1>21. CASE AbortTurn
    BY <1>21 DEF AbortTurn
  <1>22. CASE RetriesExhausted
    BY <1>22 DEF RetriesExhausted
  <1>23. CASE TurnThrows
    BY <1>23 DEF TurnThrows
  <1>24. CASE Released
    BY <1>24 DEF Released
  <1>25. CASE TurnLosesRow
    BY <1>25 DEF TurnLosesRow
  <1>26. CASE Crash
    BY <1>26 DEF Crash
  <1>27. CASE Restart
    BY <1>27 DEF Restart
  <1>28. CASE UNCHANGED vars
    BY <1>28 DEF vars
  <1> QED
    BY <1>1, <1>2, <1>3, <1>4, <1>5, <1>6, <1>7, <1>8, <1>9, <1>10, <1>11, <1>12, <1>13, <1>14, <1>15, <1>16, <1>17, <1>18, <1>19, <1>20, <1>21, <1>22, <1>23, <1>24, <1>25, <1>26, <1>27, <1>28
    DEF Next, ClientStep, TurnStep

LEMMA TypeNext == TypeOK /\ [Next]_vars => TypeOK'
  BY FlagsNext, RowNext, LogNext, TurnNext, QueueNext DEF TypeOK

-------------------------------------------------------------------------------
(* The turn and the status. *)

LEMMA QueueElements ==
  /\ \A q \in Seq(Trigger), t \in Trigger :
       /\ Append(q, t) # <<>>
       /\ \A i \in 1..Len(q) : Append(q, t)[i] = q[i]
       /\ Append(q, t)[Len(q) + 1] = t
  /\ \A q \in Seq(Trigger) : q # <<>> =>
       /\ Len(q) >= 1 /\ Head(q) = q[1]
       /\ \A i \in 1..Len(Tail(q)) : Tail(q)[i] = q[i + 1]
  <1>1. ASSUME NEW q \in Seq(Trigger), NEW t \in Trigger
        PROVE  /\ Append(q, t) # <<>>
               /\ \A i \in 1..Len(q) : Append(q, t)[i] = q[i]
               /\ Append(q, t)[Len(q) + 1] = t
    BY AppendProperties
  <1>2. ASSUME NEW q \in Seq(Trigger), q # <<>>
        PROVE  /\ Len(q) >= 1 /\ Head(q) = q[1]
               /\ \A i \in 1..Len(Tail(q)) : Tail(q)[i] = q[i + 1]
    BY <1>2, EmptySeq, HeadTailProperties, SMT
  <1> QED
    BY <1>1, <1>2

LEMMA TriggerFields ==
  /\ Message.type = "message" /\ Resume.type = "resume"
  /\ \A c \in Calls, allow \in BOOLEAN :
       /\ Confirm(c, allow).type = "confirm" /\ Confirm(c, allow).call = c
       /\ Confirm(c, allow).allow = allow
  /\ \A c \in Calls : Custom(c).type = "custom" /\ Custom(c).call = c
  BY DEF Message, Resume, Confirm, Custom

LEMMA TurnInvInit == Init => TurnInv
  BY DEF Init, TurnInv, Active, Working

LEMMA TurnInvNext == RowTypeOK /\ TurnTypeOK /\ QueueTypeOK /\ TurnInv /\ [Next]_vars => TurnInv'
  <1> SUFFICES ASSUME RowTypeOK /\ TurnTypeOK /\ QueueTypeOK /\ TurnInv, [Next]_vars PROVE TurnInv'
    OBVIOUS
  <1> USE Table, TriggerTypes, TriggerFields, QueueMoves, QueueElements
      DEF TurnInv, RowTypeOK, TurnTypeOK, QueueTypeOK, rowVars, statVars, logVars,
          stepVars, turnVars, procVars, Working
  <1>1. CASE SendMessage
    BY <1>1 DEF SendMessage, CanAccept, Enqueue
  <1>2. ASSUME NEW c \in Calls, NEW allow \in BOOLEAN, SendConfirmation(c, allow)
       PROVE  TurnInv'
    BY <1>2 DEF SendConfirmation, CanAccept, Enqueue
  <1>3. ASSUME NEW c \in Calls, SendCustomToolResult(c)
       PROVE  TurnInv'
    BY <1>3 DEF SendCustomToolResult, CanAccept, Enqueue
  <1>4. CASE Interrupt
    BY <1>4 DEF Interrupt
  <1>5. ASSUME NEW new \in Caps \cup {NoBudget}, MoveBudget(new)
       PROVE  TurnInv'
    BY <1>5 DEF MoveBudget, Enqueue
  <1>6. CASE Archive
    BY <1>6 DEF Archive, Becomes, Statuses
  <1>7. CASE Delete
    BY <1>7 DEF Delete
  <1>8. CASE DeleteRows
    BY <1>8 DEF DeleteRows
  <1>9. CASE ExpireParkedWait
    BY <1>9 DEF ExpireParkedWait, Becomes, Statuses
  <1>10. CASE SkipTurn
    <2>1. \/ ~exists
          \/ isTerminal(status)
          \/ chain[1].type = "resume"
      BY <1>10 DEF SkipTurn, Superseded
    <2>2. up /\ pc = "idle"
      BY <1>10 DEF SkipTurn
    <2>3. ~exists \/ status \notin Working
      BY <2>1, <2>2 DEF Active
    <2> QED
      BY <1>10, <2>2, <2>3 DEF SkipTurn, Active
  <1>11. CASE StartTurn
    <2>1. up /\ exists /\ ~isTerminal(status)
      BY <1>11 DEF StartTurn, Superseded
    <2>2. status' = "running"
      BY <1>11, <2>1 DEF StartTurn, Becomes
    <2>3. pc' = "provision" /\ up' = up
      BY <1>11 DEF StartTurn
    <2> QED
      BY <2>1, <2>2, <2>3 DEF Active
  <1>12. CASE Prelude
    BY <1>12 DEF Prelude, EnterTurn, EnterCustomResult, EnterConfirmation, ConfirmedToolReturns, Gate, Active
  <1>13. CASE BuildContext
    BY <1>13 DEF BuildContext, Active
  <1>14. ASSUME NEW ts \in SUBSET Calls, NEW as \in SUBSET Calls, NEW cs \in SUBSET Calls, ModelAnswers(ts, as, cs)
       PROVE  TurnInv'
    BY <1>14 DEF ModelAnswers, Becomes, Statuses, Active
  <1>15. CASE ToolsReturn
    BY <1>15 DEF ToolsReturn, Active
  <1>16. ASSUME NEW c \in Calls, AppendResult(c)
       PROVE  TurnInv'
    BY <1>16 DEF AppendResult
  <1>17. CASE StepEnds
    BY <1>17 DEF StepEnds, Active
  <1>18. CASE ParkCalls
    BY <1>18 DEF ParkCalls, Active
  <1>19. CASE RetryScheduled
    BY <1>19 DEF RetryScheduled, Becomes, Statuses
  <1>20. CASE FinishTurn
    <2>1. up /\ exists /\ pc \in Active
      BY <1>20 DEF FinishTurn, Active
    <2>2. status \in Working
      BY <2>1
    <2>3. \/ status' = Moved(status, "requires_action")
          \/ status' = Moved(status, "paused")
      BY <1>20, Zenon DEF FinishTurn, BecomesIdle, Becomes
    <2>4. status' \notin Working
      BY <2>1, <2>2, <2>3, <1>20 DEF FinishTurn
    <2>5. pc' = "idle" /\ up' = up
      BY <1>20 DEF FinishTurn, TurnOver
    <2> QED
      BY <2>1, <2>4, <2>5 DEF Active
  <1>21. CASE AbortTurn
    <2>1. up /\ exists /\ pc \in Active
      BY <1>21 DEF AbortTurn, Active
    <2>2. status \in Working
      BY <2>1
    <2>3. status' = Moved(status, "paused")
      BY <1>21, Zenon DEF AbortTurn, BecomesIdle, Becomes
    <2>4. status' \notin Working
      BY <2>1, <2>2, <2>3
    <2>5. pc' = "idle" /\ up' = up
      BY <1>21 DEF AbortTurn, TurnOver
    <2> QED
      BY <2>1, <2>4, <2>5 DEF Active
  <1>22. CASE RetriesExhausted
    <2>1. up /\ exists /\ pc \in Active
      BY <1>22 DEF RetriesExhausted, Active
    <2>2. status \in Working
      BY <2>1
    <2>3. status' = Moved(status, "paused")
      BY <1>22, Zenon DEF RetriesExhausted, BecomesIdle, Becomes
    <2>4. status' \notin Working
      BY <2>1, <2>2, <2>3
    <2>5. pc' = "idle" /\ up' = up
      BY <1>22 DEF RetriesExhausted, TurnOver
    <2> QED
      BY <2>1, <2>4, <2>5 DEF Active
  <1>23. CASE TurnThrows
    <2>1. up /\ exists /\ pc \in Active
      BY <1>23 DEF TurnThrows, Active
    <2>2. status \in Working
      BY <2>1
    <2>3. \/ status' = Moved(status, "paused")
          \/ status' = Moved(status, "failed")
      BY <1>23, Zenon DEF TurnThrows, BecomesIdle, Becomes
    <2>4. status' \notin Working
      BY <2>1, <2>2, <2>3
    <2>5. pc' = "releasing" /\ up' = up
      BY <1>23 DEF TurnThrows, TurnOver
    <2> QED
      BY <2>1, <2>4, <2>5 DEF Active
  <1>24. CASE Released
    BY <1>24 DEF Released, TurnOver, Active
  <1>25. CASE TurnLosesRow
    BY <1>25 DEF TurnLosesRow, TurnOver
  <1>26. CASE Crash
    <2>1. ~up' /\ pc' = "idle" /\ chain' = <<>>
      BY <1>26, Zenon DEF Crash, TurnOver
    <2> QED
      BY <2>1 DEF Active
  <1>27. CASE Restart
    <2>1. ~up /\ up' /\ pc' = pc /\ chain' = chain /\ exists' = exists
      BY <1>27, Zenon DEF Restart, rowVars
    <2>2. IF exists /\ status \in Working THEN status' = Moved(status, "paused")
          ELSE status' = status
      BY <1>27, Zenon DEF Restart, BecomesIdle
    <2>3. exists' => status' \notin Working
      BY <2>1, <2>2
    <2> QED
      BY <2>1, <2>3 DEF Active
  <1>28. CASE UNCHANGED vars
    BY <1>28 DEF vars
  <1> QED
    BY <1>1, <1>2, <1>3, <1>4, <1>5, <1>6, <1>7, <1>8, <1>9, <1>10, <1>11, <1>12, <1>13, <1>14, <1>15, <1>16, <1>17, <1>18, <1>19, <1>20, <1>21, <1>22, <1>23, <1>24, <1>25, <1>26, <1>27, <1>28
    DEF Next, ClientStep, TurnStep

-------------------------------------------------------------------------------
(* The log. *)

\* What appending the placeholder results does to the count of results.
LEMMA Repair ==
  LogTypeOK => \A c \in Calls :
    /\ use[c] \in {"tool", "ask"} => resolveOrphanedToolUses[c] > 0
    /\ use[c] \notin {"tool", "ask"} => resolveOrphanedToolUses[c] = results[c]
    /\ results[c] > 0 => resolveOrphanedToolUses[c] = results[c]
  BY DEF LogTypeOK, resolveOrphanedToolUses, findOrphanedToolUses

LEMMA LogInvInit == Init => LogInv
  BY DEF Init, LogInv

LEMMA LogInvNext == TypeOK /\ TurnInv /\ LogInv /\ AnswersInv /\ [Next]_vars => LogInv'
  <1> SUFFICES ASSUME TypeOK /\ TurnInv /\ LogInv /\ AnswersInv, [Next]_vars PROVE LogInv'
    OBVIOUS
  <1> USE Repair
      DEF LogInv, TypeOK, RowTypeOK, LogTypeOK, TurnTypeOK, rowVars, statVars, logVars,
          stepVars, turnVars, procVars
  <1>1. CASE SendMessage
    BY <1>1 DEF SendMessage, CanAccept
  <1>2. ASSUME NEW c \in Calls, NEW allow \in BOOLEAN, SendConfirmation(c, allow)
       PROVE  LogInv'
    BY <1>2 DEF SendConfirmation, CanAccept
  <1>3. ASSUME NEW c \in Calls, SendCustomToolResult(c)
       PROVE  LogInv'
    BY <1>3 DEF SendCustomToolResult, CanAccept
  <1>4. CASE Interrupt
    BY <1>4 DEF Interrupt
  <1>5. ASSUME NEW new \in Caps \cup {NoBudget}, MoveBudget(new)
       PROVE  LogInv'
    BY <1>5 DEF MoveBudget
  <1>6. CASE Archive
    BY <1>6 DEF Archive
  <1>7. CASE Delete
    BY <1>7 DEF Delete
  <1>8. CASE DeleteRows
    <2>1. CASE UNCHANGED <<exists, use, results>>
      BY <1>8, <2>1 DEF DeleteRows
    <2>2. CASE /\ exists' = FALSE /\ use' = [c \in Calls |-> "none"]
               /\ results' = [c \in Calls |-> 0]
      BY <1>8, <2>2 DEF DeleteRows
    <2> QED
      BY <1>8, <2>1, <2>2, Zenon DEF DeleteRows
  <1>9. CASE ExpireParkedWait
    BY <1>9 DEF ExpireParkedWait
  <1>10. CASE SkipTurn
    BY <1>10 DEF SkipTurn
  <1>11. CASE StartTurn
    BY <1>11 DEF StartTurn, Active
  <1>12. CASE Prelude
    <2>1. /\ up /\ exists /\ up' = up /\ exists' = exists /\ use' = use /\ tools' = tools
          /\ status' = status /\ pc \notin {"results", "tools"}
      BY <1>12 DEF Prelude, EnterTurn, EnterCustomResult, EnterConfirmation,
                   ConfirmedToolReturns
    <2>2. pc' \notin {"results", "tools"}
      BY <1>12 DEF Prelude, EnterTurn, EnterCustomResult, EnterConfirmation,
                   ConfirmedToolReturns, Gate
    <2>3. \/ results' = results
          \/ /\ trigger.type = "confirm"
             /\ results' = [results EXCEPT ![trigger.call] = @ + 1]
      BY <1>12 DEF Prelude, EnterTurn, EnterCustomResult, EnterConfirmation,
                   ConfirmedToolReturns, AnswersInv
    <2>4. \A c \in Calls : use[c] = "none" => results'[c] = results[c]
      BY <2>1, <2>3 DEF AnswersInv, AnswerInv
    <2>5. \A c \in Calls : results[c] > 0 => results'[c] > 0
      BY <2>3
    <2> QED
      BY <2>1, <2>2, <2>4, <2>5
  <1>13. CASE BuildContext
    BY <1>13 DEF BuildContext, Active
  <1>14. ASSUME NEW ts \in SUBSET Calls, NEW as \in SUBSET Calls, NEW cs \in SUBSET Calls, ModelAnswers(ts, as, cs)
       PROVE  LogInv'
    <2>1. /\ up /\ exists /\ pc = "model"
          /\ up' = up /\ exists' = exists /\ use' = use /\ results' = results
          /\ pc' = "tools" /\ tools' = ts
      BY <1>14 DEF ModelAnswers
    <2>2. \A c \in ts : use[c] = "none"
      BY <1>14 DEF ModelAnswers, Fresh
    <2> QED
      BY <2>1, <2>2
  <1>15. CASE ToolsReturn
    BY <1>15 DEF ToolsReturn, Active
  <1>16. ASSUME NEW c \in Calls, AppendResult(c)
       PROVE  LogInv'
    BY <1>16 DEF AppendResult
  <1>17. CASE StepEnds
    BY <1>17 DEF StepEnds, Active
  <1>18. CASE ParkCalls
    BY <1>18 DEF ParkCalls, Active
  <1>19. CASE RetryScheduled
    BY <1>19 DEF RetryScheduled
  <1>20. CASE FinishTurn
    <2>1. /\ up /\ exists /\ pc = "finish"
          /\ up' = up /\ exists' = exists /\ use' = use
          /\ pc' = "idle" /\ tools' = tools
      BY <1>20 DEF FinishTurn, TurnOver
    <2>2. results' \in {results, resolveOrphanedToolUses}
      BY <1>20, Zenon DEF FinishTurn
    <2> QED
      BY <2>1, <2>2
  <1>21. CASE AbortTurn
    BY <1>21 DEF AbortTurn, TurnOver, StepDropped
  <1>22. CASE RetriesExhausted
    BY <1>22 DEF RetriesExhausted, TurnOver, StepDropped
  <1>23. CASE TurnThrows
    BY <1>23 DEF TurnThrows, StepDropped
  <1>24. CASE Released
    BY <1>24 DEF Released, TurnOver
  <1>25. CASE TurnLosesRow
    BY <1>25 DEF TurnLosesRow, TurnOver, StepDropped
  <1>26. CASE Crash
    <2>1. /\ up /\ ~up' /\ exists' = exists /\ status' = status
          /\ use' = use /\ results' = results /\ pc' = "idle"
      BY <1>26 DEF Crash, TurnOver
    <2>2. exists /\ status \notin Working => pc # "results"
      BY DEF TurnInv, Active, Working
    <2> QED
      BY <2>1, <2>2
  <1>27. CASE Restart
    <2>1. /\ ~up /\ up' /\ exists' = exists /\ use' = use
          /\ pc = "idle" /\ pc' = "idle"
      BY <1>27 DEF Restart, TurnInv
    <2>2. IF exists /\ status \in Working THEN results' = resolveOrphanedToolUses
          ELSE results' = results
      BY <1>27, Zenon DEF Restart
    <2> QED
      BY <2>1, <2>2
  <1>28. CASE UNCHANGED vars
    BY <1>28 DEF vars
  <1> QED
    BY <1>1, <1>2, <1>3, <1>4, <1>5, <1>6, <1>7, <1>8, <1>9, <1>10, <1>11, <1>12, <1>13, <1>14, <1>15, <1>16, <1>17, <1>18, <1>19, <1>20, <1>21, <1>22, <1>23, <1>24, <1>25, <1>26, <1>27, <1>28
    DEF Next, ClientStep, TurnStep

-------------------------------------------------------------------------------
(* The step of the model and the answers on their way. *)

LEMMA StepInvInit == Init => StepInv
  BY DEF Init, StepInv

LEMMA StepInvNext == TypeOK /\ StepInv /\ [Next]_vars => StepInv'
  <1> SUFFICES ASSUME TypeOK /\ StepInv, [Next]_vars PROVE StepInv'
    OBVIOUS
  <1> USE DEF StepInv, TypeOK, LogTypeOK, TurnTypeOK, rowVars, statVars, logVars, stepVars,
          turnVars, procVars
  <1>1. CASE SendMessage
    BY <1>1 DEF SendMessage
  <1>2. ASSUME NEW c \in Calls, NEW allow \in BOOLEAN, SendConfirmation(c, allow)
       PROVE  StepInv'
    BY <1>2 DEF SendConfirmation
  <1>3. ASSUME NEW c \in Calls, SendCustomToolResult(c)
       PROVE  StepInv'
    BY <1>3 DEF SendCustomToolResult
  <1>4. CASE Interrupt
    BY <1>4 DEF Interrupt
  <1>5. ASSUME NEW new \in Caps \cup {NoBudget}, MoveBudget(new)
       PROVE  StepInv'
    BY <1>5 DEF MoveBudget
  <1>6. CASE Archive
    BY <1>6 DEF Archive
  <1>7. CASE Delete
    BY <1>7 DEF Delete
  <1>8. CASE DeleteRows
    BY <1>8 DEF DeleteRows
  <1>9. CASE ExpireParkedWait
    BY <1>9 DEF ExpireParkedWait
  <1>10. CASE SkipTurn
    BY <1>10 DEF SkipTurn
  <1>11. CASE StartTurn
    BY <1>11 DEF StartTurn
  <1>12. CASE Prelude
    <2>1. pc' \notin {"tools", "results", "parking"}
      BY <1>12 DEF Prelude, EnterTurn, EnterCustomResult, EnterConfirmation,
                   ConfirmedToolReturns, Gate
    <2> QED
      BY <2>1
  <1>13. CASE BuildContext
    BY <1>13 DEF BuildContext
  <1>14. ASSUME NEW ts \in SUBSET Calls, NEW as \in SUBSET Calls, NEW cs \in SUBSET Calls, ModelAnswers(ts, as, cs)
       PROVE  StepInv'
    <2>1. /\ tools' = ts /\ asks' = as /\ customs' = cs /\ use' = use
          /\ ts \cap as = {} /\ ts \cap cs = {} /\ ts \cup as \cup cs \subseteq Fresh
      BY <1>14 DEF ModelAnswers
    <2>2. \A c \in ts \cup as \cup cs : c \in Calls /\ use[c] = "none" /\ ran[c] = 0
      BY <2>1 DEF Fresh
    <2>3. \A c \in as \cup cs : c \notin ts
      BY <2>1
    <2>4. \A c \in Calls : c \notin ts => ran'[c] = ran[c]
      BY <1>14 DEF ModelAnswers
    <2> QED
      BY <2>1, <2>2, <2>3, <2>4
  <1>15. CASE ToolsReturn
    BY <1>15 DEF ToolsReturn
  <1>16. ASSUME NEW c \in Calls, AppendResult(c)
       PROVE  StepInv'
    BY <1>16 DEF AppendResult
  <1>17. CASE StepEnds
    BY <1>17 DEF StepEnds
  <1>18. CASE ParkCalls
    BY <1>18 DEF ParkCalls
  <1>19. CASE RetryScheduled
    BY <1>19 DEF RetryScheduled
  <1>20. CASE FinishTurn
    BY <1>20 DEF FinishTurn, TurnOver
  <1>21. CASE AbortTurn
    BY <1>21 DEF AbortTurn, TurnOver
  <1>22. CASE RetriesExhausted
    BY <1>22 DEF RetriesExhausted, TurnOver
  <1>23. CASE TurnThrows
    BY <1>23 DEF TurnThrows
  <1>24. CASE Released
    BY <1>24 DEF Released, TurnOver
  <1>25. CASE TurnLosesRow
    BY <1>25 DEF TurnLosesRow, TurnOver
  <1>26. CASE Crash
    BY <1>26 DEF Crash, TurnOver
  <1>27. CASE Restart
    BY <1>27 DEF Restart
  <1>28. CASE UNCHANGED vars
    BY <1>28 DEF vars
  <1> QED
    BY <1>1, <1>2, <1>3, <1>4, <1>5, <1>6, <1>7, <1>8, <1>9, <1>10, <1>11, <1>12, <1>13, <1>14, <1>15, <1>16, <1>17, <1>18, <1>19, <1>20, <1>21, <1>22, <1>23, <1>24, <1>25, <1>26, <1>27, <1>28
    DEF Next, ClientStep, TurnStep

LEMMA AnswersInvInit == Init => AnswersInv
  BY TriggerFields DEF Init, AnswersInv, AnswerInv

LEMMA AnswersInvNext == TypeOK /\ StepInv /\ LogInv /\ AnswersInv /\ [Next]_vars => AnswersInv'
  <1> SUFFICES ASSUME TypeOK /\ StepInv /\ LogInv /\ AnswersInv, [Next]_vars PROVE AnswersInv'
    OBVIOUS
  <1> USE QueueMoves, QueueElements, TriggerTypes, TriggerFields
      DEF AnswersInv, AnswerInv, TypeOK, LogTypeOK, TurnTypeOK, QueueTypeOK, rowVars,
          statVars, logVars, stepVars, turnVars, procVars
  <1>1. CASE SendMessage
    BY <1>1 DEF SendMessage, CanAccept, Enqueue
  <1>2. ASSUME NEW c \in Calls, NEW allow \in BOOLEAN, SendConfirmation(c, allow)
       PROVE  AnswersInv'
    BY <1>2 DEF SendConfirmation, CanAccept, Enqueue
  <1>3. ASSUME NEW c \in Calls, SendCustomToolResult(c)
       PROVE  AnswersInv'
    BY <1>3 DEF SendCustomToolResult, CanAccept, Enqueue
  <1>4. CASE Interrupt
    BY <1>4 DEF Interrupt
  <1>5. ASSUME NEW new \in Caps \cup {NoBudget}, MoveBudget(new)
       PROVE  AnswersInv'
    <2>1. UNCHANGED <<exists, trigger, pc, use, confirmed>>
      BY <1>5 DEF MoveBudget
    <2>2. CASE chain' = chain
      BY <2>1, <2>2
    <2>3. CASE chain' = Append(chain, Resume)
      BY <2>1, <2>3
    <2> QED
      BY <1>5, <2>2, <2>3, Zenon DEF MoveBudget, Enqueue
  <1>6. CASE Archive
    BY <1>6 DEF Archive
  <1>7. CASE Delete
    BY <1>7 DEF Delete
  <1>8. CASE DeleteRows
    <2>1. /\ UNCHANGED <<trigger, pc, chain>>
          /\ ~exists' \/ UNCHANGED <<exists, use, confirmed>>
      BY <1>8, Zenon DEF DeleteRows, turnVars, logVars, rowVars
    <2> QED
      BY <2>1
  <1>9. CASE ExpireParkedWait
    BY <1>9 DEF ExpireParkedWait
  <1>10. CASE SkipTurn
    BY <1>10 DEF SkipTurn
  <1>11. CASE StartTurn
    BY <1>11 DEF StartTurn
  <1>12. CASE Prelude
    BY <1>12 DEF Prelude, EnterTurn, EnterCustomResult, EnterConfirmation, ConfirmedToolReturns, Gate
  <1>13. CASE BuildContext
    BY <1>13 DEF BuildContext
  <1>14. ASSUME NEW ts \in SUBSET Calls, NEW as \in SUBSET Calls, NEW cs \in SUBSET Calls, ModelAnswers(ts, as, cs)
       PROVE  AnswersInv'
    BY <1>14 DEF ModelAnswers
  <1>15. CASE ToolsReturn
    <2>1. UNCHANGED <<exists, trigger, chain, confirmed>> /\ pc' = "results"
      BY <1>15 DEF ToolsReturn
    <2>2. \A c \in Calls : use[c] = "ask" => use'[c] = "ask"
      BY <1>15 DEF ToolsReturn, StepInv
    <2> QED
      BY <2>1, <2>2
  <1>16. ASSUME NEW c \in Calls, AppendResult(c)
       PROVE  AnswersInv'
    BY <1>16 DEF AppendResult
  <1>17. CASE StepEnds
    BY <1>17 DEF StepEnds
  <1>18. CASE ParkCalls
    <2>1. UNCHANGED <<exists, trigger, chain, confirmed>> /\ pc' = "finish"
      BY <1>18 DEF ParkCalls
    <2>2. \A c \in Calls : use[c] = "ask" => use'[c] = "ask"
      BY <1>18 DEF ParkCalls, StepInv
    <2> QED
      BY <2>1, <2>2
  <1>19. CASE RetryScheduled
    BY <1>19 DEF RetryScheduled
  <1>20. CASE FinishTurn
    BY <1>20 DEF FinishTurn, TurnOver
  <1>21. CASE AbortTurn
    BY <1>21 DEF AbortTurn, TurnOver
  <1>22. CASE RetriesExhausted
    BY <1>22 DEF RetriesExhausted, TurnOver
  <1>23. CASE TurnThrows
    BY <1>23 DEF TurnThrows
  <1>24. CASE Released
    BY <1>24 DEF Released, TurnOver
  <1>25. CASE TurnLosesRow
    BY <1>25 DEF TurnLosesRow, TurnOver
  <1>26. CASE Crash
    BY <1>26 DEF Crash, TurnOver
  <1>27. CASE Restart
    BY <1>27 DEF Restart
  <1>28. CASE UNCHANGED vars
    BY <1>28 DEF vars
  <1> HIDE DEF AnswersInv, TypeOK
  <1> QED
    BY <1>1, <1>2, <1>3, <1>4, <1>5, <1>6, <1>7, <1>8, <1>9, <1>10, <1>11, <1>12, <1>13, <1>14, <1>15, <1>16, <1>17, <1>18, <1>19, <1>20, <1>21, <1>22, <1>23, <1>24, <1>25, <1>26, <1>27, <1>28
    DEF Next, ClientStep, TurnStep

LEMMA GateInvInit == Init => GateInv
  BY DEF Init, GateInv

LEMMA GateInvNext == TypeOK /\ TurnInv /\ GateInv /\ [Next]_vars => GateInv'
  <1> SUFFICES ASSUME TypeOK /\ TurnInv /\ GateInv, [Next]_vars PROVE GateInv'
    OBVIOUS
  <1> USE Repair DEF GateInv, parkedCalls, TypeOK, LogTypeOK, TurnTypeOK, rowVars, statVars,
          logVars, stepVars, turnVars, procVars
  <1>1. CASE SendMessage
    BY <1>1 DEF SendMessage, CanAccept
  <1>2. ASSUME NEW c \in Calls, NEW allow \in BOOLEAN, SendConfirmation(c, allow)
       PROVE  GateInv'
    BY <1>2 DEF SendConfirmation, CanAccept
  <1>3. ASSUME NEW c \in Calls, SendCustomToolResult(c)
       PROVE  GateInv'
    BY <1>3 DEF SendCustomToolResult, CanAccept
  <1>4. CASE Interrupt
    BY <1>4 DEF Interrupt
  <1>5. ASSUME NEW new \in Caps \cup {NoBudget}, MoveBudget(new)
       PROVE  GateInv'
    BY <1>5 DEF MoveBudget
  <1>6. CASE Archive
    BY <1>6 DEF Archive
  <1>7. CASE Delete
    BY <1>7 DEF Delete
  <1>8. CASE DeleteRows
    BY <1>8 DEF DeleteRows
  <1>9. CASE ExpireParkedWait
    BY <1>9 DEF ExpireParkedWait
  <1>10. CASE SkipTurn
    BY <1>10 DEF SkipTurn
  <1>11. CASE StartTurn
    BY <1>11 DEF StartTurn
  <1>12. CASE Prelude
    BY <1>12 DEF Prelude, EnterTurn, EnterCustomResult, EnterConfirmation, ConfirmedToolReturns, Gate
  <1>13. CASE BuildContext
    BY <1>13 DEF BuildContext
  <1>14. ASSUME NEW ts \in SUBSET Calls, NEW as \in SUBSET Calls, NEW cs \in SUBSET Calls, ModelAnswers(ts, as, cs)
       PROVE  GateInv'
    BY <1>14 DEF ModelAnswers
  <1>15. CASE ToolsReturn
    BY <1>15 DEF ToolsReturn
  <1>16. ASSUME NEW c \in Calls, AppendResult(c)
       PROVE  GateInv'
    BY <1>16 DEF AppendResult
  <1>17. CASE StepEnds
    BY <1>17 DEF StepEnds
  <1>18. CASE ParkCalls
    BY <1>18 DEF ParkCalls
  <1>19. CASE RetryScheduled
    BY <1>19 DEF RetryScheduled
  <1>20. CASE FinishTurn
    BY <1>20 DEF FinishTurn, TurnOver
  <1>21. CASE AbortTurn
    BY <1>21 DEF AbortTurn, TurnOver
  <1>22. CASE RetriesExhausted
    BY <1>22 DEF RetriesExhausted, TurnOver
  <1>23. CASE TurnThrows
    BY <1>23 DEF TurnThrows
  <1>24. CASE Released
    BY <1>24 DEF Released, TurnOver
  <1>25. CASE TurnLosesRow
    BY <1>25 DEF TurnLosesRow, TurnOver
  <1>26. CASE Crash
    BY <1>26 DEF Crash, TurnOver
  <1>27. CASE Restart
    <2>1. pc' = "idle"
      BY <1>27 DEF Restart, TurnInv
    <2> QED
      BY <2>1
  <1>28. CASE UNCHANGED vars
    BY <1>28 DEF vars
  <1> QED
    BY <1>1, <1>2, <1>3, <1>4, <1>5, <1>6, <1>7, <1>8, <1>9, <1>10, <1>11, <1>12, <1>13, <1>14, <1>15, <1>16, <1>17, <1>18, <1>19, <1>20, <1>21, <1>22, <1>23, <1>24, <1>25, <1>26, <1>27, <1>28
    DEF Next, ClientStep, TurnStep

-------------------------------------------------------------------------------
(* Approvals are consumed once. *)

LEMMA ApprovalInvInit == Init => ApprovalInv
  BY TriggerFields DEF Init, ApprovalInv

LEMMA ApprovalInvNext == TypeOK /\ StepInv /\ AnswersInv /\ ApprovalInv /\ [Next]_vars => ApprovalInv'
  <1> SUFFICES ASSUME TypeOK /\ StepInv /\ AnswersInv /\ ApprovalInv, [Next]_vars PROVE ApprovalInv'
    OBVIOUS
  <1> USE QueueMoves, QueueElements, TriggerTypes, TriggerFields
      DEF ApprovalInv, TypeOK, LogTypeOK, TurnTypeOK, QueueTypeOK, rowVars, statVars,
          logVars, stepVars, turnVars, procVars
  <1>1. CASE SendMessage
    BY <1>1 DEF SendMessage, CanAccept, Enqueue
  <1>2. ASSUME NEW c \in Calls, NEW allow \in BOOLEAN, SendConfirmation(c, allow)
       PROVE  ApprovalInv'
    <2>1. /\ exists /\ use[c] = "ask" /\ confirmed[c] = "none"
          /\ chain' = Append(chain, Confirm(c, allow))
          /\ UNCHANGED <<exists, pc, trigger, use, ran>>
      BY <1>2 DEF SendConfirmation, CanAccept, Enqueue
    <2>2. confirmed' = [confirmed EXCEPT ![c] = IF allow THEN "allow" ELSE "deny"]
      BY <1>2 DEF SendConfirmation
    <2>3. ran[c] = 0
      <3>1. ran[c] \in Nat
        BY <1>2
      <3>2. ~ (ran[c] > 0)
        BY <1>2, <2>1, "allow" # "none", Zenon
      <3> QED
        BY <3>1, <3>2
    <2>4. \A i \in 1..Len(chain) :
            chain[i].type = "confirm" => chain[i].call # c
      BY <1>2, <2>1 DEF AnswersInv, AnswerInv
    <2>5. trigger.type = "confirm" => trigger.call # c
      BY <1>2, <2>1 DEF AnswersInv, AnswerInv
    <2>6. Confirm(c, allow).type = "confirm" /\ Confirm(c, allow).call = c
      BY <1>2
    <2>7. /\ Len(chain') = Len(chain) + 1 /\ Len(chain) \in Nat
          /\ chain'[Len(chain) + 1] = Confirm(c, allow)
          /\ \A i \in 1..Len(chain) : chain'[i] = chain[i]
      BY <1>2, <2>1
    <2>8. \A i \in 1..Len(chain') :
            chain'[i].type = "confirm" => ran'[chain'[i].call] = 0
      <3> SUFFICES ASSUME NEW i \in 1..Len(chain'), chain'[i].type = "confirm"
                   PROVE  ran'[chain'[i].call] = 0
        OBVIOUS
      <3>1. CASE i = Len(chain) + 1
        BY <2>1, <2>3, <2>6, <2>7, <3>1
      <3>2. CASE i \in 1..Len(chain)
        BY <2>1, <2>7, <3>2
      <3> QED
        BY <2>7, <3>1, <3>2
    <2>9. \A i, j \in 1..Len(chain') :
            chain'[i].type = "confirm" /\ chain'[j].type = "confirm"
              /\ chain'[i].call = chain'[j].call => i = j
      BY <2>1, <2>4, <2>6, <2>7
    <2>10. pc' = "provision" /\ trigger'.type = "confirm" =>
             \A i \in 1..Len(chain') :
               chain'[i].type = "confirm" => chain'[i].call # trigger'.call
      BY <2>1, <2>5, <2>6, <2>7
    <2>11. \A d \in Calls : use'[d] = "ask" /\ ran'[d] > 0 => confirmed'[d] = "allow"
      BY <2>1, <2>2, <2>3
    <2>12. \A d \in Calls : use'[d] = "none" => confirmed'[d] = "none"
      BY <2>1, <2>2
    <2> QED
      BY <2>1, <2>8, <2>9, <2>10, <2>11, <2>12
  <1>3. ASSUME NEW c \in Calls, SendCustomToolResult(c)
       PROVE  ApprovalInv'
    BY <1>3 DEF SendCustomToolResult, CanAccept, Enqueue
  <1>4. CASE Interrupt
    BY <1>4 DEF Interrupt
  <1>5. ASSUME NEW new \in Caps \cup {NoBudget}, MoveBudget(new)
       PROVE  ApprovalInv'
    <2>1. UNCHANGED <<exists, trigger, pc, use, confirmed, ran>>
      BY <1>5 DEF MoveBudget
    <2>2. CASE chain' = chain
      BY <2>1, <2>2
    <2>3. CASE chain' = Append(chain, Resume)
      BY <2>1, <2>3
    <2> QED
      BY <1>5, <2>2, <2>3, Zenon DEF MoveBudget, Enqueue
  <1>6. CASE Archive
    BY <1>6 DEF Archive
  <1>7. CASE Delete
    BY <1>7 DEF Delete
  <1>8. CASE DeleteRows
    <2>1. UNCHANGED <<trigger, pc, chain, ran>>
      BY <1>8 DEF DeleteRows
    <2>2. CASE UNCHANGED <<exists, use, confirmed>>
      BY <2>1, <2>2
    <2>3. CASE /\ exists' = FALSE /\ use' = [c \in Calls |-> "none"]
               /\ confirmed' = [c \in Calls |-> "none"]
      BY <2>1, <2>3
    <2> QED
      BY <1>8, <2>2, <2>3, Zenon DEF DeleteRows, logVars, rowVars
  <1>9. CASE ExpireParkedWait
    BY <1>9 DEF ExpireParkedWait
  <1>10. CASE SkipTurn
    BY <1>10 DEF SkipTurn
  <1>11. CASE StartTurn
    BY <1>11 DEF StartTurn
  <1>12. CASE Prelude
    <2>1. /\ exists /\ pc' # "provision"
          /\ UNCHANGED <<exists, trigger, chain, use, confirmed>>
      BY <1>12 DEF Prelude, EnterTurn, EnterCustomResult, EnterConfirmation,
                   ConfirmedToolReturns, Gate
    <2>2. CASE ran' = ran
      BY <2>1, <2>2
    <2>3. CASE /\ pc = "provision" /\ trigger.type = "confirm" /\ trigger.allow
               /\ ran' = [ran EXCEPT ![trigger.call] = @ + 1]
      <3>1. trigger.call \in Calls /\ confirmed[trigger.call] = "allow"
        BY <2>1, <2>3 DEF AnswersInv, AnswerInv
      <3>2. ran[trigger.call] = 0
        BY <2>1, <2>3
      <3>3. \A i \in 1..Len(chain) :
              chain[i].type = "confirm" => ran'[chain[i].call] = 0
        BY <2>1, <2>3 DEF AnswersInv, AnswerInv
      <3>4. \A c \in Calls : ran'[c] <= 1
        BY <2>3, <3>1, <3>2
      <3>5. \A c \in Calls : c # trigger.call => ran'[c] = ran[c]
        BY <2>3
      <3> QED
        BY <2>1, <3>1, <3>3, <3>4, <3>5
    <2> QED
      BY <1>12, <2>2, <2>3, Zenon DEF Prelude, EnterTurn, EnterCustomResult,
        EnterConfirmation, ConfirmedToolReturns
  <1>13. CASE BuildContext
    BY <1>13 DEF BuildContext
  <1>14. ASSUME NEW ts \in SUBSET Calls, NEW as \in SUBSET Calls, NEW cs \in SUBSET Calls, ModelAnswers(ts, as, cs)
       PROVE  ApprovalInv'
    <2>1. /\ exists /\ pc' = "tools" /\ ts \subseteq Fresh
          /\ UNCHANGED <<exists, chain, use, confirmed>>
          /\ ran' = [c \in Calls |-> IF c \in ts THEN ran[c] + 1 ELSE ran[c]]
      BY <1>14 DEF ModelAnswers
    <2>2. \A c \in ts : use[c] = "none" /\ ran[c] = 0
      BY <2>1 DEF Fresh
    <2>3. \A i \in 1..Len(chain) : chain[i].type = "confirm" =>
            chain[i].call \in Calls /\ chain[i].call \notin ts
      BY <2>1, <2>2 DEF AnswersInv, AnswerInv
    <2>4. \A i \in 1..Len(chain) :
            chain[i].type = "confirm" => ran'[chain[i].call] = 0
      BY <2>1, <2>3
    <2>5. \A c \in Calls : use[c] = "ask" => ran'[c] = ran[c]
      BY <2>1, <2>2
    <2>6. \A c \in Calls : ran'[c] <= 1
      BY <2>1, <2>2
    <2> QED
      BY <2>1, <2>4, <2>5, <2>6
  <1>15. CASE ToolsReturn
    BY <1>15 DEF ToolsReturn
  <1>16. ASSUME NEW c \in Calls, AppendResult(c)
       PROVE  ApprovalInv'
    BY <1>16 DEF AppendResult
  <1>17. CASE StepEnds
    BY <1>17 DEF StepEnds
  <1>18. CASE ParkCalls
    <2>1. exists /\ pc = "parking" /\ pc' = "finish"
      BY <1>18 DEF ParkCalls
    <2>2. UNCHANGED <<exists, chain, confirmed, ran>>
      BY <1>18 DEF ParkCalls
    <2>3. \A c \in Calls : use'[c] = "ask" => use[c] = "ask" \/ ran[c] = 0
      BY <1>18, <2>1 DEF ParkCalls, StepInv
    <2>4. \A c \in Calls : use'[c] = "none" => use[c] = "none"
      BY <1>18 DEF ParkCalls
    <2> QED
      BY <2>1, <2>2, <2>3, <2>4
  <1>19. CASE RetryScheduled
    BY <1>19 DEF RetryScheduled
  <1>20. CASE FinishTurn
    BY <1>20 DEF FinishTurn, TurnOver
  <1>21. CASE AbortTurn
    BY <1>21 DEF AbortTurn, TurnOver
  <1>22. CASE RetriesExhausted
    BY <1>22 DEF RetriesExhausted, TurnOver
  <1>23. CASE TurnThrows
    BY <1>23 DEF TurnThrows
  <1>24. CASE Released
    BY <1>24 DEF Released, TurnOver
  <1>25. CASE TurnLosesRow
    BY <1>25 DEF TurnLosesRow, TurnOver
  <1>26. CASE Crash
    BY <1>26 DEF Crash, TurnOver
  <1>27. CASE Restart
    BY <1>27 DEF Restart
  <1>28. CASE UNCHANGED vars
    BY <1>28 DEF vars
  <1> HIDE DEF ApprovalInv, TypeOK
  <1> QED
    BY <1>1, <1>2, <1>3, <1>4, <1>5, <1>6, <1>7, <1>8, <1>9, <1>10, <1>11, <1>12, <1>13, <1>14, <1>15, <1>16, <1>17, <1>18, <1>19, <1>20, <1>21, <1>22, <1>23, <1>24, <1>25, <1>26, <1>27, <1>28
    DEF Next, ClientStep, TurnStep

-------------------------------------------------------------------------------
(* The theorems. *)

\* The inductive invariant holds in every reachable state.
THEOREM Invariance == Spec => []IInv
  <1>1. Init => IInv
    BY TypeInit, TurnInvInit, LogInvInit, StepInvInit, AnswersInvInit,
       ApprovalInvInit, GateInvInit DEF IInv
  <1>2. IInv /\ [Next]_vars => IInv'
    BY TypeNext, TurnInvNext, LogInvNext, StepInvNext, AnswersInvNext,
       ApprovalInvNext, GateInvNext DEF IInv, TypeOK
  <1> QED
    BY <1>1, <1>2, PTL DEF Spec

\* Every variable of a session keeps its type: the log and the queue of turns
\* that session-manager.ts reads back are always well formed.
THEOREM TypeCorrect == Spec => []TypeOK
  BY Invariance, PTL DEF IInv

\* archive(), expireParkedWait() and the other callers of updateStatus never take
\* the status away from a turn in progress.
THEOREM StatusOwned == Spec => []TurnOwnsStatus
  <1>1. IInv => TurnOwnsStatus
    BY DEF IInv, TurnInv, TurnOwnsStatus, Working
  <1> QED
    BY <1>1, Invariance, PTL

\* No interleaving leaves a session published as working with no turn to finish.
THEOREM NothingWedged == Spec => []RunningHasWork
  <1>1. IInv => RunningHasWork
    BY DEF IInv, TurnInv, RunningHasWork
  <1> QED
    BY <1>1, Invariance, PTL

\* Outside the window in which a step logs its results, every call the runtime
\* executed itself has one, restarts included.
THEOREM Paired == Spec => []ExecutedCallsPaired
  <1>1. IInv => ExecutedCallsPaired
    BY DEF IInv, LogInv, ExecutedCallsPaired
  <1> QED
    BY <1>1, Invariance, PTL

\* No call of the model is ever executed twice, and a gated one only on a recorded
\* approval.
THEOREM RunOnceApproved == Spec => []ToolsRunOnceApproved
  <1>1. IInv => ToolsRunOnceApproved
    BY DEF IInv, ApprovalInv, ToolsRunOnceApproved
  <1> QED
    BY <1>1, Invariance, PTL

LEMMA RunStep ==
  IInv /\ [Next]_vars => [\A c \in Calls : results[c] > 0 => ran'[c] = ran[c]]_vars
  <1> SUFFICES ASSUME IInv, [Next]_vars
               PROVE  \A c \in Calls : results[c] > 0 => ran'[c] = ran[c]
    OBVIOUS
  <1>1. LogTypeOK /\ \A c \in Calls : use[c] = "none" => results[c] = 0
    BY DEF IInv, TypeOK, LogInv
  <1>2. CASE ran' = ran
    BY <1>2
  <1>3. CASE Prelude
    <2>1. \/ ran' = ran
          \/ /\ results[trigger.call] = 0
             /\ ran' = [ran EXCEPT ![trigger.call] = @ + 1]
      BY <1>3, Zenon DEF Prelude, EnterTurn, EnterCustomResult, EnterConfirmation,
                         ConfirmedToolReturns
    <2> QED
      BY <1>1, <2>1 DEF LogTypeOK
  <1>4. ASSUME NEW ts \in SUBSET Calls, NEW as \in SUBSET Calls,
               NEW cs \in SUBSET Calls, ModelAnswers(ts, as, cs)
        PROVE  \A c \in Calls : results[c] > 0 => ran'[c] = ran[c]
    <2>1. /\ ts \subseteq Fresh
          /\ ran' = [c \in Calls |-> IF c \in ts THEN ran[c] + 1 ELSE ran[c]]
      BY <1>4 DEF ModelAnswers
    <2>2. \A c \in ts : results[c] = 0
      BY <1>1, <2>1 DEF Fresh
    <2> QED
      BY <1>1, <2>1, <2>2 DEF LogTypeOK
  <1>5. \/ ran' = ran
        \/ Prelude
        \/ \E ts, as, cs \in SUBSET Calls : ModelAnswers(ts, as, cs)
    BY DEF Next, ClientStep, TurnStep, vars, SendMessage, SendConfirmation, SendCustomToolResult, Interrupt, MoveBudget, Archive, Delete, DeleteRows, ExpireParkedWait, SkipTurn, StartTurn, BuildContext, ToolsReturn, AppendResult, StepEnds, ParkCalls, RetryScheduled, FinishTurn, AbortTurn, RetriesExhausted, TurnThrows, Released, TurnLosesRow, Crash, Restart
  <1> QED
    BY <1>2, <1>3, <1>4, <1>5

\* A call the log already answers is never executed afterwards.
THEOREM AnsweredNeverRuns == Spec => NoRunAfterAnswer
  BY Invariance, RunStep, PTL DEF Spec, NoRunAfterAnswer

LEMMA RequestStep ==
  IInv /\ [Next]_vars =>
    [pc = "context" /\ pc' = "model" /\ trigger.type \in {"confirm", "custom"}
       => parkedCalls = {}]_vars
  <1> SUFFICES ASSUME IInv, [Next]_vars, pc = "context", pc' = "model",
                      trigger.type \in {"confirm", "custom"}
               PROVE  parkedCalls = {}
    OBVIOUS
  <1>1. CASE exists
    BY <1>1 DEF IInv, GateInv
  <1>2. CASE ~exists
    <2>1. \A c \in Calls : use[c] = "none"
      BY <1>2 DEF IInv, LogInv
    <2> QED
      BY <2>1 DEF parkedCalls
  <1> QED
    BY <1>1, <1>2

\* The turn of an answer asks the model only when no call is parked any more.
THEOREM AnswersGated == Spec => AnswerTurnWaitsForAll
  BY Invariance, RequestStep, PTL DEF Spec, AnswerTurnWaitsForAll

-------------------------------------------------------------------------------
(* The published status. *)

LEMMA MovedPublishes ==
  \A s, n \in Statuses :
    \/ STATUS_PROJECTION(Moved(s, n)) = STATUS_PROJECTION(s)
    \/ <<STATUS_PROJECTION(s), STATUS_PROJECTION(Moved(s, n))>> \in Wire!WireMoves
  BY DEF Statuses, Moved, canTransition, SESSION_TRANSITIONS, STATUS_PROJECTION,
         Wire!WireMoves

LEMMA StatusMoves ==
  [Next]_vars => status' = status \/ \E n \in Statuses : status' = Moved(status, n)
  <1> DEFINE Move == \E n \in {"archived", "timed_out", "running", "retrying", "paused",
                               "requires_action", "failed"} : status' = Moved(status, n)
  <1> SUFFICES ASSUME [Next]_vars PROVE status' = status \/ Move
    BY Zenon DEF Statuses
  <1>1. ASSUME Archive PROVE status' = status \/ Move
    BY <1>1, Zenon DEF Archive, Becomes, BecomesIdle, statVars
  <1>2. ASSUME ExpireParkedWait PROVE status' = status \/ Move
    BY <1>2, Zenon DEF ExpireParkedWait, Becomes, BecomesIdle, statVars
  <1>3. ASSUME StartTurn PROVE status' = status \/ Move
    BY <1>3, Zenon DEF StartTurn, Becomes, BecomesIdle, statVars
  <1>4. ASSUME RetryScheduled PROVE status' = status \/ Move
    BY <1>4, Zenon DEF RetryScheduled, Becomes, BecomesIdle, statVars
  <1>5. ASSUME AbortTurn PROVE status' = status \/ Move
    BY <1>5, Zenon DEF AbortTurn, Becomes, BecomesIdle, statVars
  <1>6. ASSUME RetriesExhausted PROVE status' = status \/ Move
    BY <1>6, Zenon DEF RetriesExhausted, Becomes, BecomesIdle, statVars
  <1>7. ASSUME NEW ts \in SUBSET Calls, NEW as \in SUBSET Calls,
               NEW cs \in SUBSET Calls, ModelAnswers(ts, as, cs)
        PROVE  Move
    BY <1>7, Zenon DEF ModelAnswers, Becomes, BecomesIdle, statVars
  <1>8. ASSUME FinishTurn PROVE status' = status \/ Move
    BY <1>8, Zenon DEF FinishTurn, Becomes, BecomesIdle, statVars
  <1>9. ASSUME TurnThrows PROVE status' = status \/ Move
    BY <1>9, Zenon DEF TurnThrows, Becomes, BecomesIdle, statVars
  <1>10. ASSUME Restart PROVE status' = status \/ Move
    BY <1>10, Zenon DEF Restart, Becomes, BecomesIdle, statVars
  <1>11. \/ status' = status
         \/ \E ts, as, cs \in SUBSET Calls : ModelAnswers(ts, as, cs)
         \/ Archive \/ ExpireParkedWait \/ StartTurn \/ RetryScheduled \/ AbortTurn \/ RetriesExhausted \/ FinishTurn \/ TurnThrows \/ Restart
    BY DEF Next, ClientStep, TurnStep, vars, statVars, SendMessage, SendConfirmation, SendCustomToolResult, Interrupt, MoveBudget, Delete, DeleteRows, SkipTurn, Prelude, BuildContext, ToolsReturn, AppendResult, StepEnds, ParkCalls, Released, TurnLosesRow, Crash
  <1> QED
    BY <1>1, <1>2, <1>3, <1>4, <1>5, <1>6, <1>7, <1>8, <1>9, <1>10, <1>11, Zenon

LEMMA WireStep ==
  RowTypeOK /\ [Next]_vars => [Wire!WireNext]_(STATUS_PROJECTION(status))
  BY StatusMoves, MovedPublishes DEF RowTypeOK, Wire!WireNext

\* What a client sees of the status is a behaviour of WireStatus: only a running
\* session is rescheduled and a terminated one stays so.
THEOREM Publishes == Spec => PublishedStatusHolds
  <1>1. Init => Wire!WireInit
    BY DEF Init, Wire!WireInit, STATUS_PROJECTION
  <1>2. IInv /\ [Next]_vars => [Wire!WireNext]_(STATUS_PROJECTION(status))
    BY WireStep DEF IInv, TypeOK
  <1> QED
    BY <1>1, <1>2, Invariance, PTL DEF Spec, PublishedStatusHolds, Wire!WireSpec
-------------------------------------------------------------------------------
(* Accepted confirmations.  A second inductive invariant, on top of IInv. *)

\* A turn that is not started by a confirmation names no call that waits for an
\* approval.
NameInv(t) ==
  /\ t.type \in {"message", "resume"} => t.call \notin Calls
  /\ t.type = "custom" => t.call \in Calls /\ use[t.call] = "custom"

NamesInv ==
  exists => NameInv(trigger) /\ \A i \in 1..Len(chain) : NameInv(chain[i])

\* Only a call that needs an approval is ever confirmed.
AskedInv == \A c \in Calls : confirmed[c] # "none" => use[c] = "ask"

\* The three sides of an accepted confirmation: it still matters, its turn is
\* queued, its turn is deciding.
Undecided(c) == c \in parkedCalls \ lost /\ confirmed[c] # "none"

Queued(c) == \E i \in 1..Len(chain) : chain[i] = Confirm(c, confirmed[c] = "allow")

Deciding(c) == pc \in {"provision", "confirming"} /\ trigger.call = c

RememberedInv ==
  exists /\ ~isTerminal(status) =>
    \A c \in Calls : Undecided(c) => Queued(c) \/ Deciding(c)

KeptInv == NamesInv /\ AskedInv /\ RememberedInv

LEMMA NamesInvInit == Init => NamesInv
  BY TriggerFields, CallsAssumption DEF Init, NamesInv, NameInv, Message

LEMMA NamesInvNext == TypeOK /\ StepInv /\ NamesInv /\ [Next]_vars => NamesInv'
  <1> SUFFICES ASSUME TypeOK /\ StepInv /\ NamesInv, [Next]_vars PROVE NamesInv'
    OBVIOUS
  <1>a. Message.call = NoCall /\ Resume.call = NoCall /\ NoCall \notin Calls
    BY CallsAssumption DEF Message, Resume
  <1> USE <1>a, QueueMoves, QueueElements, TriggerTypes, TriggerFields
      DEF NamesInv, NameInv, TypeOK, LogTypeOK, TurnTypeOK, QueueTypeOK, rowVars,
          statVars, logVars, stepVars, turnVars, procVars
  <1>1. CASE SendMessage
    BY <1>1 DEF SendMessage, CanAccept, Enqueue
  <1>2. ASSUME NEW c \in Calls, NEW allow \in BOOLEAN, SendConfirmation(c, allow)
        PROVE  NamesInv'
    BY <1>2 DEF SendConfirmation, CanAccept, Enqueue
  <1>3. ASSUME NEW c \in Calls, SendCustomToolResult(c)
        PROVE  NamesInv'
    BY <1>3 DEF SendCustomToolResult, CanAccept, Enqueue
  <1>4. CASE Interrupt
    BY <1>4 DEF Interrupt
  <1>5. ASSUME NEW new \in Caps \cup {NoBudget}, MoveBudget(new)
        PROVE  NamesInv'
    <2>1. UNCHANGED <<exists, trigger, use>>
      BY <1>5 DEF MoveBudget
    <2>2. CASE chain' = chain
      BY <2>1, <2>2
    <2>3. CASE chain' = Append(chain, Resume)
      BY <2>1, <2>3
    <2> QED
      BY <1>5, <2>2, <2>3, Zenon DEF MoveBudget, Enqueue
  <1>6. CASE Archive
    BY <1>6 DEF Archive
  <1>7. CASE Delete
    BY <1>7 DEF Delete
  <1>8. CASE DeleteRows
    <2>1. /\ UNCHANGED <<trigger, chain>>
          /\ ~exists' \/ UNCHANGED <<exists, use>>
      BY <1>8, Zenon DEF DeleteRows, turnVars, logVars, rowVars
    <2>2. CASE ~exists'
      BY <2>2
    <2>3. CASE UNCHANGED <<exists, use>>
      BY <2>1, <2>3
    <2> QED
      BY <2>1, <2>2, <2>3
  <1>9. CASE ExpireParkedWait
    BY <1>9 DEF ExpireParkedWait
  <1>10. CASE SkipTurn
    BY <1>10 DEF SkipTurn
  <1>11. CASE StartTurn
    BY <1>11 DEF StartTurn
  <1>12. CASE Prelude
    BY <1>12 DEF Prelude, EnterTurn, EnterCustomResult, EnterConfirmation,
                 ConfirmedToolReturns, Gate
  <1>13. CASE BuildContext
    BY <1>13 DEF BuildContext
  <1>14. ASSUME NEW ts \in SUBSET Calls, NEW as \in SUBSET Calls, NEW cs \in SUBSET Calls,
              ModelAnswers(ts, as, cs)
        PROVE  NamesInv'
    BY <1>14 DEF ModelAnswers
  <1>15. CASE ToolsReturn
    <2>1. UNCHANGED <<exists, trigger, chain>>
      BY <1>15 DEF ToolsReturn
    <2>2. \A c \in Calls : use[c] = "custom" => use'[c] = "custom"
      BY <1>15 DEF ToolsReturn, StepInv
    <2> QED
      BY <2>1, <2>2
  <1>16. ASSUME NEW c \in Calls, AppendResult(c)
        PROVE  NamesInv'
    BY <1>16 DEF AppendResult
  <1>17. CASE StepEnds
    BY <1>17 DEF StepEnds
  <1>18. CASE ParkCalls
    <2>1. UNCHANGED <<exists, trigger, chain>>
      BY <1>18 DEF ParkCalls
    <2>2. \A c \in Calls : use[c] = "custom" => use'[c] = "custom"
      BY <1>18 DEF ParkCalls, StepInv
    <2> QED
      BY <2>1, <2>2
  <1>19. CASE RetryScheduled
    BY <1>19 DEF RetryScheduled
  <1>20. CASE FinishTurn
    BY <1>20 DEF FinishTurn, TurnOver
  <1>21. CASE AbortTurn
    BY <1>21 DEF AbortTurn, TurnOver
  <1>22. CASE RetriesExhausted
    BY <1>22 DEF RetriesExhausted, TurnOver
  <1>23. CASE TurnThrows
    BY <1>23 DEF TurnThrows
  <1>24. CASE Released
    BY <1>24 DEF Released, TurnOver
  <1>25. CASE TurnLosesRow
    BY <1>25 DEF TurnLosesRow, TurnOver
  <1>26. CASE Crash
    BY <1>26 DEF Crash, TurnOver
  <1>27. CASE Restart
    BY <1>27 DEF Restart
  <1>28. CASE UNCHANGED vars
    BY <1>28 DEF vars
  <1> HIDE DEF NamesInv, TypeOK
  <1> QED
    BY <1>1, <1>2, <1>3, <1>4, <1>5, <1>6, <1>7, <1>8, <1>9, <1>10, <1>11, <1>12, <1>13, <1>14,
       <1>15, <1>16, <1>17, <1>18, <1>19, <1>20, <1>21, <1>22, <1>23, <1>24, <1>25, <1>26,
       <1>27, <1>28
    DEF Next, ClientStep, TurnStep

\* A call becomes confirmed while it is an ask, and an ask stays one.
LEMMA AskedInvNext ==
  TypeOK /\ StepInv /\ ApprovalInv /\ AskedInv /\ [Next]_vars => AskedInv'
  <1> SUFFICES ASSUME TypeOK, StepInv, ApprovalInv, AskedInv, [Next]_vars PROVE AskedInv'
    OBVIOUS
  <1>1. CASE UNCHANGED <<use, confirmed>>
    BY <1>1 DEF AskedInv
  <1>2. ASSUME NEW c \in Calls, NEW allow \in BOOLEAN, SendConfirmation(c, allow)
        PROVE  AskedInv'
    <2>1. use[c] = "ask" /\ use' = use
      BY <1>2 DEF SendConfirmation
    <2>2. \A d \in Calls : d # c => confirmed'[d] = confirmed[d]
      BY <1>2 DEF SendConfirmation, TypeOK, LogTypeOK
    <2> QED
      BY <2>1, <2>2 DEF AskedInv
  <1>3. CASE DeleteRows
    <2>1. \/ UNCHANGED <<use, confirmed>>
          \/ confirmed' = [c \in Calls |-> "none"]
      BY <1>3, Zenon DEF DeleteRows, logVars
    <2> QED
      BY <1>1, <2>1 DEF AskedInv
  <1>4. CASE ToolsReturn
    <2>1. exists /\ pc = "tools" /\ confirmed' = confirmed
      BY <1>4 DEF ToolsReturn, logVars
    <2>2. \A c \in Calls : use[c] = "ask" => use'[c] = "ask"
      BY <1>4, <2>1 DEF ToolsReturn, StepInv, TypeOK, LogTypeOK
    <2> QED
      BY <2>1, <2>2 DEF AskedInv
  <1>5. CASE ParkCalls
    <2>1. exists /\ pc = "parking" /\ confirmed' = confirmed
      BY <1>5 DEF ParkCalls
    <2>2. \A c \in Calls : use[c] = "ask" => use'[c] = "ask"
      BY <1>5, <2>1 DEF ParkCalls, StepInv, TypeOK, LogTypeOK
    <2> QED
      BY <2>1, <2>2 DEF AskedInv
  <1>6. \/ UNCHANGED <<use, confirmed>>
        \/ \E c \in Calls, allow \in BOOLEAN : SendConfirmation(c, allow)
        \/ DeleteRows \/ ToolsReturn \/ ParkCalls
    BY DEF Next, ClientStep, TurnStep, vars, logVars, SendMessage, SendCustomToolResult,
      Interrupt, MoveBudget, Archive, Delete, ExpireParkedWait, SkipTurn, StartTurn, Prelude,
      BuildContext, ModelAnswers, AppendResult, StepEnds, RetryScheduled, FinishTurn,
      AbortTurn, RetriesExhausted, TurnThrows, Released, TurnLosesRow, Crash, Restart
  <1> QED
    BY <1>1, <1>2, <1>3, <1>4, <1>5, <1>6

\* A session that is live after a step was live before it.
LEMMA LiveBefore ==
  RowTypeOK /\ [Next]_vars => (exists' => exists) /\ (~isTerminal(status') => ~isTerminal(status))
  <1> SUFFICES ASSUME RowTypeOK, [Next]_vars
               PROVE  (exists' => exists) /\ (~isTerminal(status') => ~isTerminal(status))
    OBVIOUS
  <1>1. exists' => exists
    BY DEF Next, ClientStep, TurnStep, vars, rowVars, SendMessage, SendConfirmation,
      SendCustomToolResult, Interrupt, MoveBudget, Archive, Delete, DeleteRows,
      ExpireParkedWait, SkipTurn, StartTurn, Prelude, BuildContext, ModelAnswers, ToolsReturn,
      AppendResult, StepEnds, ParkCalls, RetryScheduled, FinishTurn, AbortTurn,
      RetriesExhausted, TurnThrows, Released, TurnLosesRow, Crash, Restart
  <1>2. \A n \in Statuses : isTerminal(status) => Moved(status, n) = status
    BY DEF isTerminal, Moved
  <1> QED
    BY <1>1, <1>2, StatusMoves

\* The steps that leave what an undecided call is remembered by: nothing becomes
\* undecided, and the queue keeps its elements.
LEMMA Carried ==
  ASSUME QueueTypeOK, RememberedInv, [Next]_vars, RowTypeOK,
         confirmed' = confirmed, lost \subseteq lost',
         \A c \in Calls : confirmed[c] # "none" /\ c \in parkedCalls' => c \in parkedCalls,
         \/ chain' = chain
         \/ \E t \in Trigger : chain' = Append(chain, t),
         exists /\ ~isTerminal(status) =>
           \A c \in Calls : Undecided(c) /\ Deciding(c) /\ Undecided(c)' => Deciding(c)'
  PROVE  RememberedInv'
  <1>1. \A c \in Calls : Undecided(c)' => Undecided(c)
    BY Zenon DEF Undecided
  <1>2. \A c \in Calls : Queued(c) => Queued(c)'
    BY QueueElements, QueueMoves DEF Queued, QueueTypeOK
  <1> QED
    BY <1>1, <1>2, LiveBefore, Zenon DEF RememberedInv

LEMMA RememberedInit == Init => RememberedInv
  BY DEF Init, RememberedInv, Undecided

LEMMA RememberedNext ==
  IInv /\ KeptInv /\ [Next]_vars => RememberedInv'
  <1> SUFFICES ASSUME IInv, KeptInv, [Next]_vars PROVE RememberedInv'
    OBVIOUS
  <1> USE DEF rowVars, statVars, logVars, stepVars, turnVars, procVars
  <1>a. /\ TypeOK /\ RowTypeOK /\ LogTypeOK /\ TurnTypeOK /\ QueueTypeOK
        /\ NamesInv /\ AskedInv /\ RememberedInv
    BY DEF IInv, KeptInv, TypeOK
  <1>c. ASSUME UNCHANGED <<chain, confirmed, lost, use, results>>,
               \/ pc \notin {"provision", "confirming"}
               \/ UNCHANGED <<pc, trigger>>
        PROVE  RememberedInv'
    <2>1. parkedCalls' = parkedCalls
      BY <1>c DEF parkedCalls
    <2>2. \A c \in Calls : Deciding(c) => Deciding(c)'
      BY <1>c DEF Deciding
    <2> QED
      BY <1>a, <1>c, <2>1, <2>2, Carried
  <1>1. CASE SendMessage
    <2>1. /\ UNCHANGED <<confirmed, lost, use, pc, trigger>>
          /\ results' = resolveOrphanedToolUses /\ chain' = Append(chain, Message)
      BY <1>1 DEF SendMessage, Enqueue
    <2>2. \A c \in Calls : c \in parkedCalls' => c \in parkedCalls
      BY <1>a, <2>1, Repair DEF parkedCalls, LogTypeOK
    <2>3. \A c \in Calls : Deciding(c) => Deciding(c)'
      BY <2>1 DEF Deciding
    <2> QED
      BY <1>a, <2>1, <2>2, <2>3, TriggerTypes, Carried
  <1>2. ASSUME NEW c \in Calls, NEW allow \in BOOLEAN, SendConfirmation(c, allow)
        PROVE  RememberedInv'
    <2>1. /\ confirmed' = [confirmed EXCEPT ![c] = IF allow THEN "allow" ELSE "deny"]
          /\ chain' = Append(chain, Confirm(c, allow))
          /\ UNCHANGED <<lost, use, results, pc, trigger>>
      BY <1>2 DEF SendConfirmation, Enqueue
    <2>2. parkedCalls' = parkedCalls
      BY <2>1 DEF parkedCalls
    <2>3. (confirmed'[c] = "allow") = allow
      BY <1>a, <2>1 DEF LogTypeOK
    <2>4. Queued(c)'
      BY <1>a, <1>2, <2>1, <2>3, QueueMoves, QueueElements, TriggerTypes DEF Queued, QueueTypeOK
    <2>5. \A d \in Calls : d # c => confirmed'[d] = confirmed[d]
      BY <1>a, <2>1 DEF LogTypeOK
    <2>6. \A d \in Calls : d # c /\ Queued(d) => Queued(d)'
      BY <1>a, <1>2, <2>1, <2>5, QueueMoves, QueueElements, TriggerTypes DEF Queued, QueueTypeOK
    <2>7. \A d \in Calls : d # c /\ Undecided(d)' => Undecided(d)
      BY <2>1, <2>2, <2>5 DEF Undecided
    <2>8. \A d \in Calls : Deciding(d) => Deciding(d)'
      BY <2>1 DEF Deciding
    <2> QED
      BY <1>a, <2>4, <2>6, <2>7, <2>8, LiveBefore, Zenon DEF RememberedInv
  <1>3. ASSUME NEW c \in Calls, SendCustomToolResult(c)
        PROVE  RememberedInv'
    <2>1. /\ UNCHANGED <<confirmed, lost, use, pc, trigger>>
          /\ results' = [results EXCEPT ![c] = @ + 1] /\ chain' = Append(chain, Custom(c))
      BY <1>3 DEF SendCustomToolResult, Enqueue
    <2>2. \A d \in Calls : d \in parkedCalls' => d \in parkedCalls
      BY <1>a, <2>1 DEF parkedCalls, LogTypeOK
    <2>3. \A d \in Calls : Deciding(d) => Deciding(d)'
      BY <2>1 DEF Deciding
    <2>4. \E t \in Trigger : chain' = Append(chain, t)
      BY <1>3, <2>1, TriggerTypes
    <2> QED
      BY <1>a, <2>1, <2>2, <2>3, <2>4, Carried
  <1>4. CASE Interrupt
    BY <1>4, <1>c DEF Interrupt
  <1>5. ASSUME NEW new \in Caps \cup {NoBudget}, MoveBudget(new)
        PROVE  RememberedInv'
    <2>1. UNCHANGED <<confirmed, lost, use, results, pc, trigger>>
      BY <1>5 DEF MoveBudget
    <2>2. chain' = chain \/ \E t \in Trigger : chain' = Append(chain, t)
      BY <1>5, TriggerTypes, Zenon DEF MoveBudget, Enqueue
    <2>3. parkedCalls' = parkedCalls
      BY <2>1 DEF parkedCalls
    <2>4. \A d \in Calls : Deciding(d) => Deciding(d)'
      BY <2>1 DEF Deciding
    <2> QED
      BY <1>a, <2>1, <2>2, <2>3, <2>4, Carried
  <1>6. CASE Archive
    BY <1>6, <1>c DEF Archive
  <1>7. CASE Delete
    BY <1>7, <1>c DEF Delete
  <1>8. CASE DeleteRows
    <2>1. /\ UNCHANGED <<pc, trigger, chain>>
          /\ ~exists' \/ UNCHANGED <<confirmed, lost, use, results>>
      BY <1>8, Zenon DEF DeleteRows
    <2> QED
      BY <1>c, <2>1 DEF RememberedInv
  <1>9. CASE ExpireParkedWait
    BY <1>9, <1>c DEF ExpireParkedWait
  <1>10. CASE SkipTurn
    <2>1. /\ chain # <<>> /\ chain' = Tail(chain) /\ Superseded(Head(chain))
          /\ UNCHANGED <<exists, status, confirmed, lost, use, results, pc, trigger>>
      BY <1>10 DEF SkipTurn
    <2> SUFFICES ASSUME exists, ~isTerminal(status), NEW c \in Calls, Undecided(c)'
                 PROVE  Queued(c)' \/ Deciding(c)'
      BY <2>1, LiveBefore, <1>a, Zenon DEF RememberedInv
    <2>2. Undecided(c)
      BY <2>1 DEF Undecided, parkedCalls
    <2>3. Deciding(c) => Deciding(c)'
      BY <2>1 DEF Deciding
    <2>4. chain[1].type = "resume"
      BY <1>a, <2>1, QueueElements DEF Superseded, QueueTypeOK
    <2>5. ASSUME NEW i \in 1..Len(chain), chain[i] = Confirm(c, confirmed[c] = "allow")
          PROVE  Queued(c)'
      <3>1. i # 1
        BY <2>4, <2>5 DEF Confirm
      <3>2. i - 1 \in 1..Len(Tail(chain)) /\ Tail(chain)[i - 1] = chain[i]
        BY <1>a, <2>1, <3>1, QueueMoves, QueueElements DEF QueueTypeOK
      <3> QED
        BY <2>1, <2>5, <3>2 DEF Queued
    <2> QED
      BY <1>a, <2>2, <2>3, <2>5, Zenon DEF RememberedInv, Queued
  <1>11. CASE StartTurn
    <2>1. /\ chain # <<>> /\ chain' = Tail(chain) /\ trigger' = Head(chain)
          /\ pc = "idle" /\ pc' = "provision"
          /\ UNCHANGED <<confirmed, lost, use, results>>
      BY <1>11 DEF StartTurn
    <2> SUFFICES ASSUME exists, ~isTerminal(status), NEW c \in Calls, Undecided(c)'
                 PROVE  Queued(c)' \/ Deciding(c)'
      BY LiveBefore, <1>a, Zenon DEF RememberedInv
    <2>2. Undecided(c) /\ ~Deciding(c)
      BY <2>1 DEF Undecided, parkedCalls, Deciding
    <2>3. PICK i \in 1..Len(chain) : chain[i] = Confirm(c, confirmed[c] = "allow")
      BY <1>a, <2>2, Zenon DEF RememberedInv, Queued
    <2>4. CASE i = 1
      <3>1. trigger' = Confirm(c, confirmed[c] = "allow")
        BY <1>a, <2>1, <2>3, <2>4, QueueElements DEF QueueTypeOK
      <3> QED
        BY <2>1, <3>1 DEF Deciding, Confirm
    <2>5. CASE i # 1
      <3>1. i - 1 \in 1..Len(Tail(chain)) /\ Tail(chain)[i - 1] = chain[i]
        BY <1>a, <2>1, <2>5, QueueMoves, QueueElements DEF QueueTypeOK
      <3> QED
        BY <2>1, <2>3, <3>1 DEF Queued
    <2> QED
      BY <2>4, <2>5
  <1>12. CASE Prelude
    <2>1. /\ exists /\ UNCHANGED <<chain, confirmed, lost, use, trigger>>
      BY <1>12 DEF Prelude
    <2>2. \/ results' = results
          \/ results' = [results EXCEPT ![trigger.call] = @ + 1]
      BY <1>12, Zenon DEF Prelude, EnterTurn, EnterCustomResult, EnterConfirmation,
        ConfirmedToolReturns
    <2>3. \A c \in Calls : c \in parkedCalls' => c \in parkedCalls
      BY <1>a, <2>1, <2>2 DEF parkedCalls, LogTypeOK
    <2>4. ASSUME NEW c \in Calls, Undecided(c), Deciding(c), Undecided(c)'
          PROVE  Deciding(c)'
      <3>1. /\ c = trigger.call /\ use[c] = "ask" /\ results[c] = 0 /\ results'[c] = 0
        BY <1>a, <2>1, <2>4 DEF Undecided, Deciding, AskedInv, parkedCalls
      <3>2. results' # [results EXCEPT ![c] = @ + 1]
        BY <1>a, <3>1 DEF LogTypeOK
      <3>3. ~EnterTurn /\ ~EnterCustomResult
        BY <1>a, <2>1, <3>1 DEF EnterTurn, EnterCustomResult, NamesInv, NameInv
      <3>4. ~ConfirmedToolReturns
        BY <3>1, <3>2, Zenon DEF ConfirmedToolReturns
      <3>5. EnterConfirmation
        BY <1>12, <3>3, <3>4 DEF Prelude
      <3>6. pc' = "confirming"
        BY <3>1, <3>2, <3>5 DEF EnterConfirmation
      <3> QED
        BY <2>1, <3>1, <3>6 DEF Deciding
    <2> QED
      BY <1>a, <2>1, <2>3, <2>4, Carried
  <1>13. CASE BuildContext
    BY <1>13, <1>c DEF BuildContext
  <1>14. ASSUME NEW ts \in SUBSET Calls, NEW as \in SUBSET Calls, NEW cs \in SUBSET Calls,
              ModelAnswers(ts, as, cs)
        PROVE  RememberedInv'
    BY <1>14, <1>c DEF ModelAnswers
  <1>15. CASE ToolsReturn
    <2>1. /\ exists /\ pc = "tools"
          /\ UNCHANGED <<chain, confirmed, lost, results>>
      BY <1>15 DEF ToolsReturn
    <2>2. \A c \in Calls : use[c] = "ask" => use'[c] = "ask"
      BY <1>15, <2>1, <1>a DEF ToolsReturn, IInv, StepInv, LogTypeOK
    <2>3. \A c \in Calls : confirmed[c] # "none" /\ c \in parkedCalls' => c \in parkedCalls
      BY <1>a, <2>1 DEF AskedInv, parkedCalls
    <2>4. \A c \in Calls : ~Deciding(c)
      BY <2>1 DEF Deciding
    <2> QED
      BY <1>a, <2>1, <2>3, <2>4, Carried
  <1>16. ASSUME NEW c \in Calls, AppendResult(c)
        PROVE  RememberedInv'
    <2>1. /\ pc = "results" /\ UNCHANGED <<chain, confirmed, lost, use>>
          /\ results' = [results EXCEPT ![c] = @ + 1]
      BY <1>16 DEF AppendResult
    <2>2. \A d \in Calls : d \in parkedCalls' => d \in parkedCalls
      BY <1>a, <2>1 DEF parkedCalls, LogTypeOK
    <2>3. \A d \in Calls : ~Deciding(d)
      BY <2>1 DEF Deciding
    <2> QED
      BY <1>a, <2>1, <2>2, <2>3, Carried
  <1>17. CASE StepEnds
    BY <1>17, <1>c DEF StepEnds
  <1>18. CASE ParkCalls
    <2>1. /\ exists /\ pc = "parking"
          /\ UNCHANGED <<chain, confirmed, lost, results>>
      BY <1>18 DEF ParkCalls
    <2>2. \A c \in Calls : use[c] = "ask" => use'[c] = "ask"
      BY <1>18, <2>1, <1>a DEF ParkCalls, IInv, StepInv, LogTypeOK
    <2>3. \A c \in Calls : confirmed[c] # "none" /\ c \in parkedCalls' => c \in parkedCalls
      BY <1>a, <2>1 DEF AskedInv, parkedCalls
    <2>4. \A c \in Calls : ~Deciding(c)
      BY <2>1 DEF Deciding
    <2> QED
      BY <1>a, <2>1, <2>3, <2>4, Carried
  <1>19. CASE RetryScheduled
    BY <1>19, <1>c DEF RetryScheduled
  <1>20. CASE FinishTurn
    <2>1. /\ pc = "finish" /\ UNCHANGED <<chain, confirmed, lost, use>>
          /\ results' = results \/ results' = resolveOrphanedToolUses
      BY <1>20 DEF FinishTurn
    <2>2. \A d \in Calls : d \in parkedCalls' => d \in parkedCalls
      BY <1>a, <2>1, Repair DEF parkedCalls, LogTypeOK
    <2>3. \A d \in Calls : ~Deciding(d)
      BY <2>1 DEF Deciding
    <2> QED
      BY <1>a, <2>1, <2>2, <2>3, Carried
  <1>21. CASE AbortTurn
    <2>1. /\ pc \in {"provision", "context", "model", "tools"}
          /\ UNCHANGED <<chain, confirmed, use, results>> /\ ForgetAnswer
      BY <1>21 DEF AbortTurn
    <2>2. parkedCalls' = parkedCalls
      BY <2>1 DEF parkedCalls
    <2>3. \A c \in Calls : Undecided(c) /\ Deciding(c) => ~Undecided(c)'
      BY <2>1 DEF Undecided, Deciding, ForgetAnswer
    <2>4. lost \subseteq lost'
      BY <2>1 DEF ForgetAnswer
    <2> QED
      BY <1>a, <2>1, <2>2, <2>3, <2>4, Carried
  <1>22. CASE RetriesExhausted
    BY <1>22, <1>c DEF RetriesExhausted, TurnOver
  <1>23. CASE TurnThrows
    <2>1. /\ pc \in {"provision", "context", "model"}
          /\ UNCHANGED <<chain, confirmed, use, results>> /\ ForgetAnswer
      BY <1>23 DEF TurnThrows
    <2>2. parkedCalls' = parkedCalls
      BY <2>1 DEF parkedCalls
    <2>3. \A c \in Calls : Undecided(c) /\ Deciding(c) => ~Undecided(c)'
      BY <2>1 DEF Undecided, Deciding, ForgetAnswer
    <2>4. lost \subseteq lost'
      BY <2>1 DEF ForgetAnswer
    <2> QED
      BY <1>a, <2>1, <2>2, <2>3, <2>4, Carried
  <1>24. CASE Released
    BY <1>24, <1>c DEF Released, TurnOver
  <1>25. CASE TurnLosesRow
    <2>1. ~exists
      BY <1>25 DEF TurnLosesRow
    <2> QED
      BY <1>a, <2>1, LiveBefore DEF RememberedInv
  <1>26. CASE Crash
    <2>1. /\ UNCHANGED <<confirmed, use, results>>
          /\ lost' = lost \cup {c \in parkedCalls : confirmed[c] # "none"}
      BY <1>26 DEF Crash
    <2>2. \A c \in Calls : ~Undecided(c)'
      BY <2>1 DEF Undecided, parkedCalls
    <2> QED
      BY <2>2 DEF RememberedInv
  <1>27. CASE Restart
    <2>1. /\ UNCHANGED <<chain, confirmed, lost, use, pc, trigger>>
          /\ results' = results \/ results' = resolveOrphanedToolUses
      BY <1>27 DEF Restart
    <2>2. \A d \in Calls : d \in parkedCalls' => d \in parkedCalls
      BY <1>a, <2>1, Repair DEF parkedCalls, LogTypeOK
    <2>3. \A d \in Calls : Deciding(d) => Deciding(d)'
      BY <2>1 DEF Deciding
    <2> QED
      BY <1>a, <2>1, <2>2, <2>3, Carried
  <1>28. CASE UNCHANGED vars
    BY <1>28, <1>c DEF vars
  <1> QED
    BY <1>1, <1>2, <1>3, <1>4, <1>5, <1>6, <1>7, <1>8, <1>9, <1>10, <1>11, <1>12, <1>13, <1>14,
       <1>15, <1>16, <1>17, <1>18, <1>19, <1>20, <1>21, <1>22, <1>23, <1>24, <1>25, <1>26,
       <1>27, <1>28
    DEF Next, ClientStep, TurnStep

\* However sends, failed turns, budget moves and restarts interleave, the decision
\* that session-manager.ts accepted for a parked call is still on its way to it.
THEOREM ConfirmationRemembered == Spec => []ConfirmationNotForgotten
  <1>1. Init => KeptInv
    BY NamesInvInit, RememberedInit DEF KeptInv, AskedInv, Init
  <1>2. IInv /\ KeptInv /\ [Next]_vars => KeptInv'
    BY NamesInvNext, AskedInvNext, RememberedNext DEF KeptInv, IInv
  <1>3. KeptInv => ConfirmationNotForgotten
    <2> SUFFICES ASSUME KeptInv, up /\ exists /\ ~isTerminal(status),
                        NEW c \in parkedCalls \ lost, confirmed[c] # "none"
                 PROVE  Queued(c) \/ Deciding(c)
      BY Zenon DEF ConfirmationNotForgotten, Queued, Deciding
    <2>1. c \in Calls /\ Undecided(c)
      BY DEF Undecided, parkedCalls
    <2> QED
      BY <2>1, Zenon DEF KeptInv, RememberedInv
  <1> QED
    BY <1>1, <1>2, <1>3, Invariance, PTL DEF Spec
================================================================================
