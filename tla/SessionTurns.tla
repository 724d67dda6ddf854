----------------------------- MODULE SessionTurns -----------------------------
(***************************************************************************)
(* One session of the runtime, driven by the builtin loop engine: its      *)
(* durable row and append-only event log, the promise chain that serialises*)
(* its turns, the turn in progress, the client events that reach it while  *)
(* that turn is suspended at an await, and the death of the process.       *)
(*                                                                         *)
(* The process is single threaded, so an action is the code between two    *)
(* awaits.  The log is abstracted to what is read back from it: for every  *)
(* tool call, the kind of tool_use event recorded for it, how many result  *)
(* events answer it and the confirmation recorded for it; and the          *)
(* stop_reason of the latest session.status_idle, of which only            *)
(* budget_reached is ever read.                                            *)
(***************************************************************************)
EXTENDS Naturals, Sequences, FiniteSets

CONSTANTS
  Calls,       \* tool-call ids the model may mint over the session's life
  NoCall,      \* "this trigger names no call"
  NoBudget,    \* the session never had a budget, or had it removed
  InitialCap,  \* the ceiling attached at creation, or NoBudget
  Caps,        \* the ceilings a budget update may ask for
  MaxSpend,    \* bound: spend units the session can consume
  MaxQueue,    \* bound: turns waiting behind the current one
  MaxRetries   \* retries the model wrapper's policy allows a turn

ASSUME CallsAssumption == NoCall \notin Calls
ASSUME BoundsAssumption ==
  /\ MaxSpend \in Nat /\ MaxQueue \in Nat \ {0} /\ MaxRetries \in Nat
  /\ Caps \subseteq Nat
  /\ NoBudget \notin Nat
  /\ InitialCap \in Caps \cup {NoBudget}

VARIABLES
  \* -- the session row and its log (durable)
  exists,      \* the session row is there
  status,      \* sessions.status
  archived,    \* sessions.archived_at is set
  atCeiling,   \* the latest session.status_idle says budget_reached
  cap,         \* sessions.budget
  spend,       \* list cost priced from the log's spans
  use,         \* per call: the tool_use event recorded for it
  results,     \* per call: result events recorded for it
  confirmed,   \* per call: the user.tool_confirmation recorded for it
  \* -- the process (volatile)
  up,          \* the process is alive
  chain,       \* executionChains: triggers of the turns not yet begun
  pc,          \* where the turn in progress is suspended
  trigger,     \* the event that started it
  aborted,     \* its AbortController has fired
  asked,       \* turnState.requiresAction
  retries,     \* retries scheduled in this turn
  tools,       \* executed calls of the current step without a logged result
  asks,        \* calls of the step that wait for an approval
  customs,     \* calls of the step the caller has to execute
  more,        \* the SDK would make another request after this step
  deleting,    \* delete() is awaiting cleanupSession
  \* -- history
  ran,         \* per call: how often the tool itself was executed
  lost         \* calls whose accepted confirmation died with its turn

rowVars   == <<exists, archived, cap>>
statVars  == <<status, atCeiling>>
logVars   == <<use, results, confirmed>>
stepVars  == <<tools, asks, customs, more>>
turnVars  == <<trigger, aborted, asked, retries>>
procVars  == <<up, deleting, lost>>
vars == <<rowVars, statVars, logVars, stepVars, turnVars, procVars,
          spend, chain, pc, ran>>

-------------------------------------------------------------------------------
(* The status machine. *)

Statuses == {"queued", "running", "retrying", "paused", "requires_action",
             "completed", "failed", "cancelled", "timed_out",
             "cleanup_pending", "archived"}

SESSION_TRANSITIONS ==
  ({"queued"} \X {"running", "completed", "failed", "cancelled", "timed_out",
                  "cleanup_pending", "archived"})
  \cup ({"running"} \X {"retrying", "paused", "requires_action", "completed",
                        "failed", "cancelled", "timed_out", "cleanup_pending",
                        "archived"})
  \cup ({"retrying"} \X {"running", "paused", "failed", "cancelled", "timed_out"})
  \cup ({"paused"} \X {"running", "completed", "failed", "cancelled", "archived"})
  \cup ({"requires_action"} \X {"running", "completed", "failed", "cancelled",
                                "timed_out", "archived"})

\* Mutant: the table is not consulted.
canTransition_Any(s, next) == s # next

canTransition(s, next) == <<s, next>> \in SESSION_TRANSITIONS

isTerminal(s) == \A next \in Statuses : ~canTransition(s, next)

Working == {"running", "retrying"}

\* A move the table does not list is skipped, not raised.
Moved(s, next) == IF canTransition(s, next) THEN next ELSE s

\* updateStatus; going idle also records whether the ceiling was the reason.
BecomesIdle(next, ceiling) ==
  /\ status' = Moved(status, next)
  /\ atCeiling' = IF status' # status THEN ceiling ELSE atCeiling

Becomes(next) == status' = Moved(status, next) /\ UNCHANGED atCeiling

\* The published status of every internal one.
STATUS_PROJECTION(s) ==
  IF s \in {"queued", "paused", "requires_action"} THEN "idle"
  ELSE IF s = "running" THEN "running"
  ELSE IF s = "retrying" THEN "rescheduling"
  ELSE "terminated"

-------------------------------------------------------------------------------
(* What the code reads back from the log. *)

\* Calls the session waits for somebody to answer.
parkedCalls == {c \in Calls : use[c] \in {"ask", "custom"} /\ results[c] = 0}

\* Calls whose result the runtime itself owes.
\* Mutant: only the calls that waited for an approval are settled.
findOrphanedToolUses_AsksOnly == {c \in Calls : use[c] = "ask" /\ results[c] = 0}

findOrphanedToolUses == {c \in Calls : use[c] \in {"tool", "ask"} /\ results[c] = 0}

\* The log after a placeholder result was appended for every orphan.
resolveOrphanedToolUses ==
  [c \in Calls |-> IF c \in findOrphanedToolUses THEN 1 ELSE results[c]]

isBudgetExhausted == cap # NoBudget /\ spend >= cap

-------------------------------------------------------------------------------
(* The queue of turns. *)

Trigger == [type : {"message", "confirm", "custom", "resume"},
            call : Calls \cup {NoCall}, allow : BOOLEAN]

Message == [type |-> "message", call |-> NoCall, allow |-> FALSE]
Resume  == [type |-> "resume",  call |-> NoCall, allow |-> FALSE]

\* Mutant: the decision is not carried to the turn.
Confirm_Allows(c, allow) == [type |-> "confirm", call |-> c, allow |-> TRUE]

Confirm(c, allow) == [type |-> "confirm", call |-> c, allow |-> allow]
Custom(c) == [type |-> "custom", call |-> c, allow |-> FALSE]

\* Mutant: the new turn replaces the chain instead of waiting behind it.
Enqueue_Replaces(t) == Len(chain) < MaxQueue /\ chain' = <<t>>

Enqueue(t) == Len(chain) < MaxQueue /\ chain' = Append(chain, t)

Active == {"provision", "confirming", "context", "model", "tools", "results",
           "parking", "finish"}

Init ==
  /\ exists = TRUE /\ archived = FALSE /\ cap = InitialCap /\ spend = 0
  /\ atCeiling = FALSE
  /\ use = [c \in Calls |-> "none"]
  /\ results = [c \in Calls |-> 0]
  /\ confirmed = [c \in Calls |-> "none"]
  /\ up = TRUE /\ deleting = FALSE /\ lost = {}
  /\ \* create(), or createWithInitialEvents() with one user.message
     \/ status = "queued" /\ chain = <<>>
     \/ status = "running" /\ chain = <<Message>>
  /\ pc = "idle" /\ trigger = Message
  /\ aborted = FALSE /\ asked = FALSE /\ retries = 0
  /\ tools = {} /\ asks = {} /\ customs = {} /\ more = FALSE
  /\ ran = [c \in Calls |-> 0]

-------------------------------------------------------------------------------
(* Client events.  They land between any two steps of a turn. *)

\* assertSessionCanAcceptEvent, budget aside.
CanAccept == up /\ exists /\ ~archived /\ ~isTerminal(status)

\* A fresh message first settles every call whose result is missing.
SendMessage ==
  /\ CanAccept /\ ~isBudgetExhausted
  /\ results' = resolveOrphanedToolUses
  /\ Enqueue(Message)
  /\ UNCHANGED <<rowVars, statVars, use, confirmed, stepVars, turnVars, procVars,
                 spend, pc, ran>>

\* A confirmation has to name a call that is still awaiting approval.
SendConfirmation(c, allow) ==
  /\ CanAccept
  /\ use[c] = "ask" /\ results[c] = 0 /\ confirmed[c] = "none"
  /\ confirmed' = [confirmed EXCEPT ![c] = IF allow THEN "allow" ELSE "deny"]
  /\ Enqueue(Confirm(c, allow))
  /\ UNCHANGED <<rowVars, statVars, use, results, stepVars, turnVars, procVars,
                 spend, pc, ran>>

\* A custom tool result answers its call the moment it is on the log.
SendCustomToolResult(c) ==
  /\ CanAccept
  /\ use[c] = "custom" /\ results[c] = 0
  /\ results' = [results EXCEPT ![c] = @ + 1]
  /\ Enqueue(Custom(c))
  /\ UNCHANGED <<rowVars, statVars, use, confirmed, stepVars, turnVars, procVars,
                 spend, pc, ran>>

\* user.interrupt and stop() fire the controller of the turn in progress, if
\* one has installed its controller; turns still queued are not touched.
Interrupt ==
  /\ up /\ exists /\ ~isTerminal(status)
  /\ aborted' = (pc # "idle")
  /\ UNCHANGED <<rowVars, statVars, logVars, stepVars, trigger, asked, retries,
                 procVars, spend, chain, pc, ran>>

\* A raise or a removal; a session idling on its ceiling is re-entered.
MoveBudget(new) ==
  /\ up /\ exists /\ ~archived /\ ~isTerminal(status)
  /\ cap # NoBudget /\ new # cap
  /\ new # NoBudget => spend < new
  /\ cap' = new
  /\ IF atCeiling THEN Enqueue(Resume) ELSE UNCHANGED chain
  /\ UNCHANGED <<exists, archived, statVars, logVars, stepVars, turnVars, procVars,
                 spend, pc, ran>>

Archive ==
  /\ up /\ exists /\ ~archived /\ status \notin Working
  /\ archived' = TRUE
  /\ Becomes("archived")
  /\ UNCHANGED <<exists, cap, logVars, stepVars, turnVars, procVars, spend, chain,
                 pc, ran>>

\* delete() checks the status, then awaits the release of the sandbox ...
Delete ==
  /\ up /\ exists /\ ~deleting /\ status \notin Working
  /\ deleting' = TRUE
  /\ UNCHANGED <<rowVars, statVars, logVars, stepVars, turnVars, up, lost, spend,
                 chain, pc, ran>>

\* ... and then removes the rows, or rejects because the release failed.
DeleteRows ==
  /\ up /\ exists /\ deleting
  /\ deleting' = FALSE
  /\ \/ /\ exists' = FALSE /\ archived' = FALSE /\ atCeiling' = FALSE
        /\ cap' = NoBudget /\ spend' = 0 /\ lost' = {}
        /\ use' = [c \in Calls |-> "none"]
        /\ results' = [c \in Calls |-> 0]
        /\ confirmed' = [c \in Calls |-> "none"]
     \/ UNCHANGED <<rowVars, logVars, spend, atCeiling, lost>>
  /\ UNCHANGED <<status, stepVars, turnVars, up, chain, pc, ran>>

\* The sweep ends a session nobody answered within the configured bound.
ExpireParkedWait ==
  /\ up /\ exists
  /\ status = "requires_action" /\ ~isBudgetExhausted /\ parkedCalls # {}
  /\ Becomes("timed_out")
  /\ UNCHANGED <<rowVars, logVars, stepVars, turnVars, procVars, spend, chain, pc,
                 ran>>

-------------------------------------------------------------------------------
(* runTurn, up to the strategy. *)

\* Mutant: every turn, not only a resume, needs the session to idle on its ceiling.
Superseded_AnyTurn(t) == ~exists \/ isTerminal(status) \/ ~atCeiling

\* The session ended, or another resume already ran: nothing to do.
Superseded(t) ==
  \/ ~exists
  \/ isTerminal(status)
  \/ t.type = "resume" /\ ~atCeiling

SkipTurn ==
  /\ up /\ pc = "idle" /\ chain # <<>> /\ Superseded(Head(chain))
  /\ chain' = Tail(chain)
  /\ UNCHANGED <<rowVars, statVars, logVars, stepVars, turnVars, procVars, spend,
                 pc, ran>>

StartTurn ==
  /\ up /\ pc = "idle" /\ chain # <<>> /\ ~Superseded(Head(chain))
  /\ trigger' = Head(chain) /\ chain' = Tail(chain)
  /\ Becomes("running")
  /\ aborted' = FALSE /\ asked' = FALSE /\ retries' = 0
  /\ pc' = "provision"
  /\ UNCHANGED <<rowVars, logVars, stepVars, procVars, spend, ran>>

\* A turn started by an answer goes on only once nothing is parked.
Gate(res) ==
  LET parked == {c \in Calls : use[c] \in {"ask", "custom"} /\ res[c] = 0}
  IN  /\ pc' = IF parked = {} THEN "context" ELSE "finish"
      /\ asked' = (parked # {})

\* The sandbox is bound; a message or a resume goes straight to its request.
EnterTurn ==
  /\ pc = "provision" /\ trigger.type \in {"message", "resume"}
  /\ pc' = "context"
  /\ UNCHANGED <<asked, results, ran>>

EnterCustomResult ==
  /\ pc = "provision" /\ trigger.type = "custom"
  /\ Gate(results)
  /\ UNCHANGED <<results, ran>>

\* Mutant: a confirmation is not checked for being stale.
EnterConfirmation_Stale ==
  /\ pc = "provision" /\ trigger.type = "confirm"
  /\ IF trigger.allow
     THEN /\ ran' = [ran EXCEPT ![trigger.call] = @ + 1]
          /\ pc' = "confirming" /\ UNCHANGED <<asked, results>>
     ELSE /\ results' = [results EXCEPT ![trigger.call] = @ + 1]
          /\ Gate(results') /\ UNCHANGED ran

\* handleToolConfirmation: stale, denied, or allowed and now executing.
EnterConfirmation ==
  /\ pc = "provision" /\ trigger.type = "confirm"
  /\ LET c == trigger.call IN
       \/ /\ results[c] > 0
          /\ pc' = "finish"
          /\ UNCHANGED <<asked, results, ran>>
       \/ /\ results[c] = 0 /\ ~trigger.allow
          /\ results' = [results EXCEPT ![c] = @ + 1]
          /\ Gate(results')
          /\ UNCHANGED ran
       \/ /\ results[c] = 0 /\ trigger.allow
          /\ ran' = [ran EXCEPT ![c] = @ + 1]
          /\ pc' = "confirming"
          /\ UNCHANGED <<asked, results>>

\* The confirmed tool returned; its result is appended without another look.
ConfirmedToolReturns ==
  /\ pc = "confirming"
  /\ results' = [results EXCEPT ![trigger.call] = @ + 1]
  /\ Gate(results')
  /\ UNCHANGED ran

Prelude ==
  /\ up /\ exists
  /\ EnterTurn \/ EnterCustomResult \/ EnterConfirmation \/ ConfirmedToolReturns
  /\ UNCHANGED <<rowVars, statVars, use, confirmed, stepVars, trigger, aborted,
                 retries, procVars, spend, chain>>

-------------------------------------------------------------------------------
(* The strategy's loop. *)

\* The log is projected to messages and the first request goes out.
BuildContext ==
  /\ up /\ exists /\ pc = "context"
  /\ pc' = "model"
  /\ UNCHANGED <<rowVars, statVars, logVars, stepVars, turnVars, procVars, spend,
                 chain, ran>>

\* Ids the model has not minted: a call id is never used twice.
Fresh == {c \in Calls : use[c] = "none" /\ ran[c] = 0}

\* The model answers with calls the SDK executes at once (ts), calls that need
\* an approval (as) and calls the caller executes (cs).  A request that needed
\* retries has recovered, and its count of attempts is gone.
ModelAnswers(ts, as, cs) ==
  /\ up /\ exists /\ pc = "model" /\ ~aborted
  /\ ts \cap as = {} /\ ts \cap cs = {} /\ as \cap cs = {}
  /\ ts \cup as \cup cs \subseteq Fresh
  /\ tools' = ts /\ asks' = as /\ customs' = cs
  /\ more' = (ts # {} /\ as \cup cs = {})
  /\ ran' = [c \in Calls |-> IF c \in ts THEN ran[c] + 1 ELSE ran[c]]
  /\ Becomes("running") /\ retries' = 0
  /\ pc' = "tools"
  /\ UNCHANGED <<rowVars, logVars, trigger, aborted, asked, procVars, spend, chain>>

\* onStepFinish commits what the step cost, logs a tool_use for every executed
\* call ...
ToolsReturn ==
  /\ up /\ exists /\ pc = "tools" /\ ~aborted
  /\ \E cost \in {0, 1} : spend' = spend + cost /\ spend' <= MaxSpend
  /\ use' = [c \in Calls |-> IF c \in tools THEN "tool" ELSE use[c]]
  /\ pc' = "results"
  /\ UNCHANGED <<rowVars, statVars, results, confirmed, stepVars, turnVars,
                 procVars, chain, ran>>

\* ... and then their results, awaiting the overflow spill of each.
AppendResult(c) ==
  /\ up /\ exists /\ pc = "results" /\ c \in tools
  /\ results' = [results EXCEPT ![c] = @ + 1]
  /\ tools' = tools \ {c}
  /\ UNCHANGED <<rowVars, statVars, use, confirmed, asks, customs, more, turnVars,
                 procVars, spend, chain, pc, ran>>

\* stopWhen: the ceiling, a call nobody executed, or the step limit.
StepEnds ==
  /\ up /\ exists /\ pc = "results" /\ tools = {}
  /\ \/ more /\ ~isBudgetExhausted /\ pc' = "model"
     \/ pc' = "parking"
  /\ UNCHANGED <<rowVars, statVars, logVars, stepVars, turnVars, procVars, spend,
                 chain, ran>>

\* The drained stream leaves the calls somebody else has to answer.
ParkCalls ==
  /\ up /\ exists /\ pc = "parking"
  /\ use' = [c \in Calls |-> IF c \in asks THEN "ask"
                             ELSE IF c \in customs THEN "custom" ELSE use[c]]
  /\ asked' = (asks \cup customs # {})
  /\ asks' = {} /\ customs' = {} /\ more' = FALSE
  /\ pc' = "finish"
  /\ UNCHANGED <<rowVars, statVars, results, confirmed, tools, trigger, aborted,
                 retries, procVars, spend, chain, ran>>

\* A transient failure of the request; its error event moves the session on.
RetryScheduled ==
  /\ up /\ exists /\ pc = "model" /\ ~aborted /\ retries < MaxRetries
  /\ retries' = retries + 1
  /\ Becomes("retrying")
  /\ UNCHANGED <<rowVars, logVars, stepVars, trigger, aborted, asked, procVars,
                 spend, chain, pc, ran>>

-------------------------------------------------------------------------------
(* How a turn ends. *)

StepDropped == tools' = {} /\ asks' = {} /\ customs' = {} /\ more' = FALSE

\* runTurn returned: its controller is gone and its locals with it.
TurnOver ==
  /\ pc' = "idle"
  /\ trigger' = Message /\ aborted' = FALSE /\ asked' = FALSE /\ retries' = 0

\* A parked call outranks the ceiling, the ceiling outranks end_turn.
FinishTurn ==
  /\ up /\ exists /\ pc = "finish"
  /\ IF asked
     THEN BecomesIdle("requires_action", FALSE) /\ UNCHANGED results
     ELSE IF isBudgetExhausted
          THEN /\ results' = resolveOrphanedToolUses
               /\ BecomesIdle("paused", TRUE)
          ELSE BecomesIdle("paused", FALSE) /\ UNCHANGED results
  /\ TurnOver
  /\ UNCHANGED <<rowVars, use, confirmed, stepVars, procVars, spend, chain, ran>>

\* The accepted confirmation of a turn that dies before reading it.
ForgetAnswer ==
  lost' = lost \cup {c \in parkedCalls : pc = "provision" /\ trigger.call = c}

\* The abort signal ends the request or the tools in flight; whatever else an
\* aborted turn throws is taken for the abort, too.
AbortTurn ==
  /\ up /\ exists /\ aborted
  /\ pc \in {"provision", "context", "model", "tools"}
  /\ BecomesIdle("paused", FALSE)
  /\ StepDropped
  /\ TurnOver
  /\ ForgetAnswer
  /\ UNCHANGED <<rowVars, logVars, up, deleting, spend, chain, ran>>

RetriesExhausted ==
  /\ up /\ exists /\ pc = "model" /\ ~aborted /\ retries = MaxRetries
  /\ BecomesIdle("paused", FALSE)
  /\ StepDropped
  /\ TurnOver
  /\ UNCHANGED <<rowVars, logVars, procVars, spend, chain, ran>>

\* A failure of the provider or of the agent's model id leaves the session
\* resumable; anything else fails it.  Either way the sandbox is released.
TurnThrows ==
  /\ up /\ exists /\ ~aborted /\ pc \in {"provision", "context", "model"}
  /\ BecomesIdle("paused", FALSE) \/ Becomes("failed")
  /\ StepDropped
  /\ pc' = "releasing"
  /\ ForgetAnswer
  /\ UNCHANGED <<rowVars, logVars, turnVars, up, deleting, spend, chain, ran>>

Released ==
  /\ up /\ pc = "releasing"
  /\ TurnOver
  /\ UNCHANGED <<rowVars, statVars, logVars, stepVars, procVars, spend, chain, ran>>

\* The next append of a turn whose rows are gone is refused by the database.
TurnLosesRow ==
  /\ up /\ ~exists /\ pc \in Active
  /\ StepDropped
  /\ TurnOver
  /\ UNCHANGED <<rowVars, statVars, logVars, procVars, spend, chain, ran>>

-------------------------------------------------------------------------------
(* The process dies; at boot reconcileOrphans repairs what it left. *)

Crash ==
  /\ up /\ up' = FALSE
  /\ lost' = lost \cup {c \in parkedCalls : confirmed[c] # "none"}
  /\ chain' = <<>> /\ deleting' = FALSE
  /\ StepDropped
  /\ TurnOver
  /\ UNCHANGED <<rowVars, statVars, logVars, spend, ran>>

\* Mutant: no repair at boot.
Restart_NoRepair ==
  /\ ~up /\ up' = TRUE
  /\ UNCHANGED <<rowVars, statVars, logVars, stepVars, turnVars, deleting, lost,
                 spend, chain, pc, ran>>

Restart ==
  /\ ~up /\ up' = TRUE
  /\ IF exists /\ status \in Working
     THEN results' = resolveOrphanedToolUses /\ BecomesIdle("paused", FALSE)
     ELSE UNCHANGED <<results, statVars>>
  /\ UNCHANGED <<rowVars, use, confirmed, stepVars, turnVars, deleting, lost, spend,
                 chain, pc, ran>>

-------------------------------------------------------------------------------
ClientStep ==
  \/ SendMessage
  \/ \E c \in Calls, allow \in BOOLEAN : SendConfirmation(c, allow)
  \/ \E c \in Calls : SendCustomToolResult(c)
  \/ Interrupt
  \/ \E new \in Caps \cup {NoBudget} : MoveBudget(new)
  \/ Archive
  \/ Delete
  \/ DeleteRows
  \/ ExpireParkedWait

TurnStep ==
  \/ SkipTurn
  \/ StartTurn
  \/ Prelude
  \/ BuildContext
  \/ \E ts, as, cs \in SUBSET Calls : ModelAnswers(ts, as, cs)
  \/ ToolsReturn
  \/ \E c \in Calls : AppendResult(c)
  \/ StepEnds
  \/ ParkCalls
  \/ RetryScheduled
  \/ FinishTurn
  \/ AbortTurn
  \/ RetriesExhausted
  \/ TurnThrows
  \/ Released
  \/ TurnLosesRow

Next == ClientStep \/ TurnStep \/ Crash \/ Restart

\* Every await of a turn settles, and a dead process is started again.
Fairness == WF_vars(TurnStep) /\ WF_vars(Restart)

Spec == Init /\ [][Next]_vars /\ Fairness
-------------------------------------------------------------------------------
(* Properties. *)

FlagTypeOK ==
  /\ exists \in BOOLEAN /\ archived \in BOOLEAN /\ atCeiling \in BOOLEAN
  /\ up \in BOOLEAN /\ deleting \in BOOLEAN
  /\ aborted \in BOOLEAN /\ asked \in BOOLEAN /\ more \in BOOLEAN

RowTypeOK ==
  status \in Statuses /\ cap \in Caps \cup {NoBudget} /\ spend \in 0..MaxSpend

LogTypeOK ==
  /\ use \in [Calls -> {"none", "tool", "ask", "custom"}]
  /\ results \in [Calls -> Nat] /\ ran \in [Calls -> Nat]
  /\ confirmed \in [Calls -> {"none", "allow", "deny"}]
  /\ lost \subseteq Calls

TurnTypeOK ==
  /\ pc \in Active \cup {"idle", "releasing"}
  /\ trigger \in Trigger /\ retries \in 0..MaxRetries
  /\ tools \subseteq Calls /\ asks \subseteq Calls /\ customs \subseteq Calls

QueueTypeOK == chain \in Seq(Trigger) /\ Len(chain) <= MaxQueue

TypeOK == FlagTypeOK /\ RowTypeOK /\ LogTypeOK /\ TurnTypeOK /\ QueueTypeOK

\* A live session whose status says it works has a turn that will move it on:
\* no interleaving of sends, deletes, failures and restarts wedges it.
RunningHasWork ==
  up /\ exists /\ status \in Working => pc \in Active \/ chain # <<>>

\* No client event or sweep takes the status away from the turn in progress:
\* nobody archives, expires or re-idles a session under a running turn.
TurnOwnsStatus ==
  exists /\ pc \in Active => status \in Working

\* However confirmations, messages, crashes and restarts interleave, no call is
\* executed twice, and a tool that needs an approval runs only if the approval is
\* on the log.
ToolsRunOnceApproved == \A c \in Calls :
  /\ ran[c] <= 1
  /\ use[c] = "ask" /\ ran[c] > 0 => confirmed[c] = "allow"

\* Whenever a turn reads the log, every call the runtime executed itself has a
\* result there, crashes between its tool_use and its result included.
ExecutedCallsPaired ==
  up /\ exists /\ pc # "results" =>
    \A c \in Calls : use[c] = "tool" => results[c] > 0

\* An accepted confirmation is never forgotten: its turn is queued or deciding,
\* or the call is answered, unless the process died or the turn failed under it.
ConfirmationNotForgotten ==
  up /\ exists /\ ~isTerminal(status) =>
    \A c \in parkedCalls \ lost : confirmed[c] # "none" =>
      \/ \E i \in 1..Len(chain) : chain[i] = Confirm(c, confirmed[c] = "allow")
      \/ pc \in {"provision", "confirming"} /\ trigger.call = c

\* A call the log already answers is never executed afterwards.
NoRunAfterAnswer ==
  [][\A c \in Calls : results[c] > 0 => ran'[c] = ran[c]]_vars

\* A turn started by an answer issues its request with nothing parked.
AnswerTurnWaitsForAll ==
  [][pc = "context" /\ pc' = "model" /\ trigger.type \in {"confirm", "custom"}
       => parkedCalls = {}]_vars

\* The published status moves the way WireStatus promises.
Wire == INSTANCE WireStatus WITH wire <- STATUS_PROJECTION(status)
PublishedStatusHolds == Wire!WireSpec

\* A session that is working settles: it idles or ends.
RunningSettles ==
  (exists /\ status \in Working) ~> ~(exists /\ status \in Working)

(* What the documentation says and the code does not keep. *)

\* "A turn may start only once nothing is parked" (executor.ts): no request is
\* built from a log that holds a call without its result.
NoRequestWhileParked ==
  [][pc = "context" /\ pc' = "model" => parkedCalls = {}]_vars

===============================================================================
