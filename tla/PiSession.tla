------------------------------- MODULE PiSession ------------------------------
(***************************************************************************)
(* One session on the Pi loop engine: the strategy that runs its turns, the *)
(* RPC session that owns its Pi child, and the durable record of each gated *)
(* tool call.  A turn is a prompt, or the answer to a gate; it ends when   *)
(* its outcome is settled: completed, failed, or parked at a gate, at which *)
(* Pi stays blocked inside its tool hook until a decision is written back. *)
(* Meanwhile the child may die, the turn's deadline may pass, the user may *)
(* interrupt, and one steer at a time goes to the turn in flight.          *)
(*                                                                         *)
(* The child is external: it reads what is written to it at once, and what *)
(* it writes waits in a pipe, in order, for the reader.  What a handler    *)
(* does up to its next await is one step.  A session that gates calls has  *)
(* an interaction store.  Left out: texts, inputs and their edits (the     *)
(* strategy passes a decision only), the translator's events, usage, a     *)
(* start that fails, a cleanup that cannot be proved, and a confirmation   *)
(* that finds no live session (it starts a child only to close it).        *)
(***************************************************************************)
EXTENDS Naturals, Sequences, FiniteSets

CONSTANTS
  Calls,       \* gated tool calls, by tool use id
  NoCall,      \* no call
  Inputs,      \* input_ids of steers
  NoInput,     \* no steer is in flight
  MaxTurns,    \* bound: turns
  MaxFrames,   \* bound: frames in the pipe from the child
  MaxRestarts  \* bound: restarts of the runtime

ASSUME PiNumbers == MaxTurns \in Nat /\ MaxFrames \in Nat \ {0} /\ MaxRestarts \in Nat
ASSUME PiNames ==
  /\ NoCall \notin Calls /\ NoInput \notin Inputs
  /\ Calls \cap {"none", "open", "settled", "failed"} = {}

VARIABLES
  child,     \* the Pi process
  call,      \* per call: where the child is with it
  runs,      \* per call: how often it ran after it was asked about, up to 2
  unasked,   \* the child ran a call it did not ask about in this turn
  pipe,      \* frames the child has written
  transport, \* the reader and writer of the child's pipes
  failed,    \* failure or closeReason is set: the session is not alive
  busy, deadline,  \* a turn is in flight; its timer is armed
  admission, \* steers are admitted
  outcome,   \* of the promise armed last: "open", or what it was resolved with
  gate,      \* pendingGate: the call, and whether this session's request opened its record
  releasing, \* the deadline has asked for the child's release
  record,    \* per call: its row in pi_tool_interactions
  turn,      \* where the strategy's turn is
  steering,  \* the steer that is in flight
  ledger,    \* steers the child was possibly given in this turn
  applied,   \* per steer: how often the child applied it in this turn, up to 2
  answered,  \* history: calls a user's decision was recorded for
  turns, restarts

childVars  == <<child, call, runs, unasked>>
rpcVars    == <<failed, busy, deadline, outcome, gate>>
steerVars  == <<admission, steering, ledger, applied>>
piBounds   == <<turns, restarts>>
piVars     == <<childVars, pipe, transport, rpcVars, releasing, record, turn, steerVars, answered, piBounds>>

Frames == [kind : {"ack", "nack", "dialog", "settled", "steered", "unsteered", "late"},
           call : {NoCall}]
          \cup [kind : {"gate", "unasked"}, call : Calls]
frame(kind) == [kind |-> kind, call |-> NoCall]
NoGate == [call |-> NoCall, own |-> FALSE]
Turns == {"rest", "prompting", "answering", "awaiting", "draining", "closing", "parked"}

PiInit ==
  /\ child = "none" /\ unasked = FALSE
  /\ call = [c \in Calls |-> "new"] /\ runs = [c \in Calls |-> 0]
  /\ pipe = <<>> /\ transport = "none"
  /\ failed = FALSE /\ busy = FALSE /\ deadline = FALSE /\ outcome = "none" /\ gate = NoGate
  /\ releasing = FALSE
  /\ record = [c \in Calls |-> "none"]
  /\ turn = "rest"
  /\ admission = FALSE /\ steering = NoInput /\ ledger = {}
  /\ applied = [i \in Inputs |-> 0]
  /\ answered = {} /\ turns = 0 /\ restarts = 0

Alive == transport = "open" /\ ~ failed
Running == child \in {"idle", "working", "stuck"}
twice(n) == IF n < 2 THEN n + 1 ELSE n

-----------------------------------------------------------------------------
(* What several handlers do. *)

\* settle: a promise is resolved once; a gate leaves the turn in flight.
Settle_Disarms(how) ==
  \/ outcome = "open" /\ outcome' = how /\ busy' = (busy /\ how \in Calls) /\ deadline' = FALSE
  \/ outcome # "open" /\ UNCHANGED <<outcome, busy, deadline>>
Settle(how) ==
  \/ /\ outcome = "open" /\ outcome' = how
     /\ busy' = (busy /\ how \in Calls) /\ deadline' = (deadline /\ how \in Calls)
  \/ outcome # "open" /\ UNCHANGED <<outcome, busy, deadline>>

\* The decision reaches the child that is blocked over it.
answerOf(c, decision) ==
  [call EXCEPT ![c] = IF @ # "asked" THEN @ ELSE IF decision = "allow" THEN "granted" ELSE "refused"]

\* open: the first request for a tool use opens its record.
opens_Again(c) == TRUE
opens(c) == record[c] = "none"

\* consume: only the request that opened the record decides it, and only once.
consumable(g) == g.own /\ record[g.call] = "pending"

\* retirePendingGate.
retired_Kept == record
retired == IF gate # NoGate /\ consumable(gate) THEN [record EXCEPT ![gate.call] = "denied"] ELSE record

\* handleTransportClosed, and the commands that still waited for a response; a
\* prompt among them fails the turn, a steer was rejected.
TransportClosed_Unsettled ==
  /\ transport' = "shut" /\ failed' = TRUE
  /\ record' = retired /\ gate' = NoGate
  /\ steering' = NoInput
  /\ UNCHANGED <<outcome, busy, deadline>>
TransportClosed ==
  /\ transport' = "shut" /\ failed' = TRUE
  /\ record' = retired /\ gate' = NoGate
  /\ Settle("failed")
  /\ steering' = NoInput

-----------------------------------------------------------------------------
(* A turn begins. *)

\* prompt on the live session, or on a new child; the child acknowledges it first.
Prompted ==
  /\ busy' = TRUE /\ deadline' = TRUE /\ outcome' = "open" /\ turn' = "prompting"
  /\ admission' = TRUE /\ ledger' = {} /\ applied' = [i \in Inputs |-> 0]
  /\ unasked' = FALSE
  /\ UNCHANGED <<runs, answered, restarts>>

PromptLive ==
  /\ Alive /\ ~ busy /\ Prompted
  /\ \/ child = "idle" /\ child' = "working" /\ pipe' = Append(pipe, frame("ack"))
     \/ child = "idle" /\ pipe' = Append(pipe, frame("nack")) /\ UNCHANGED child
     \/ child # "idle" /\ UNCHANGED <<child, pipe>>
  /\ UNCHANGED <<call, transport, failed, gate, releasing, record, steering>>

\* A session that is not alive is replaced (its reader still comes to its end); the
\* calls of its child's turn are gone, and may be made again.
PromptNew ==
  /\ ~ Alive /\ ~ Running /\ Prompted
  /\ child' = "working" /\ pipe' = <<frame("ack")>>
  /\ call' = [c \in Calls |-> "new"]
  /\ transport' = "open" /\ failed' = FALSE /\ gate' = NoGate /\ releasing' = FALSE
  /\ record' = retired
  /\ steering' = NoInput

\* A user.message.  A prompt over a parked turn is refused, which fails the new turn;
\* so does a start while the lease of a child that is not gone is held.
Message ==
  /\ turn \in {"rest", "parked"} /\ turns < MaxTurns /\ turns' = turns + 1
  /\ \/ PromptLive \/ PromptNew
     \/ /\ Alive /\ busy /\ turn' = "closing"
        /\ UNCHANGED <<childVars, pipe, transport, rpcVars, releasing, record, steerVars, answered, restarts>>
     \/ /\ ~ Alive /\ Running /\ turn' = "rest"
        /\ UNCHANGED <<childVars, pipe, transport, rpcVars, releasing, record, steerVars, answered, restarts>>

\* A user.tool_confirmation, for a call whose gate was published: the decision that
\* consumes the record is written to the child, any other is a denial and fails the
\* turn.
Confirm(c, decision) ==
  /\ turn \in {"rest", "parked"} /\ Alive /\ record[c] # "none"
  /\ turns < MaxTurns /\ turns' = turns + 1
  /\ \/ /\ gate.call = c /\ consumable(gate)
        /\ record' = [record EXCEPT ![c] = IF decision = "allow" THEN "allowed" ELSE "denied"]
        /\ answered' = answered \cup {c}
        /\ call' = answerOf(c, decision) /\ gate' = NoGate /\ turn' = "answering"
     \/ /\ gate.call = c /\ ~ consumable(gate)
        /\ call' = answerOf(c, "deny") /\ gate' = NoGate /\ turn' = "closing"
        /\ UNCHANGED <<record, answered>>
     \/ gate.call # c /\ turn' = "closing" /\ UNCHANGED <<record, answered, call, gate>>
  /\ UNCHANGED <<child, runs, unasked, pipe, transport, failed, busy, deadline, outcome, releasing,
                 steerVars, restarts>>

\* The answer is written; armContinuation leaves a session that is not alive alone.
armContinuation ==
  /\ turn = "answering" /\ turn' = "awaiting"
  /\ \/ ~ failed /\ busy' = TRUE /\ deadline' = TRUE /\ outcome' = "open"
     \/ failed /\ UNCHANGED <<busy, deadline, outcome>>
  /\ UNCHANGED <<childVars, pipe, transport, failed, gate, releasing, record, steerVars, answered, piBounds>>

-----------------------------------------------------------------------------
(* The child. *)

room == Len(pipe) < MaxFrames
says(f) == room /\ pipe' = Append(pipe, f)
ChildOnly == UNCHANGED <<transport, rpcVars, releasing, record, turn, steerVars, answered, piBounds>>

AskGate(c) ==
  /\ child = "working" /\ call[c] = "new" /\ says([kind |-> "gate", call |-> c])
  /\ call' = [call EXCEPT ![c] = "asked"]
  /\ UNCHANGED <<child, runs, unasked>> /\ ChildOnly

RunGranted(c) ==
  /\ child = "working" /\ call[c] = "granted"
  /\ call' = [call EXCEPT ![c] = "ran"] /\ runs' = [runs EXCEPT ![c] = twice(@)]
  /\ UNCHANGED <<child, unasked, pipe>> /\ ChildOnly

\* The gate did not intercept: the frames of a call's execution, and no question.
RunUnasked(c) ==
  /\ child = "working" /\ call[c] = "new" /\ says([kind |-> "unasked", call |-> c])
  /\ call' = [call EXCEPT ![c] = "ran"] /\ unasked' = TRUE
  /\ UNCHANGED <<child, runs>> /\ ChildOnly

\* Something in the child waits for an answer the runtime does not give.
OpenDialog ==
  /\ child = "working" /\ says(frame("dialog")) /\ child' = "stuck"
  /\ UNCHANGED <<call, runs, unasked>> /\ ChildOnly

AgentSettles ==
  /\ child = "working" /\ \A c \in Calls : call[c] \notin {"asked", "granted"}
  /\ says(frame("settled")) /\ child' = "idle"
  /\ UNCHANGED <<call, runs, unasked>> /\ ChildOnly

ChildDies ==
  /\ Running /\ child' = "dead"
  /\ UNCHANGED <<call, runs, unasked, pipe>> /\ ChildOnly

-----------------------------------------------------------------------------
(* The reader. *)

\* handleGateRequest: denied outside a turn and while another gate is pending; else
\* recorded once per tool use, and answered by the platform's rule or by the user.
HandleGate(c) ==
  LET own == opens(c)
      opened == [record EXCEPT ![c] = IF own THEN "pending" ELSE @]
  IN \/ /\ ~ busy \/ gate # NoGate
        /\ call' = answerOf(c, "deny")
        /\ UNCHANGED <<record, gate, outcome, busy, deadline>>
     \/ /\ busy /\ gate = NoGate
        /\ \E decision \in {"allow", "deny"} :
             /\ call' = answerOf(c, IF own THEN decision ELSE "deny")
             /\ record' = [opened EXCEPT ![c] =
                  IF own THEN (IF decision = "allow" THEN "allowed" ELSE "denied") ELSE @]
        /\ UNCHANGED <<gate, outcome, busy, deadline>>
     \/ /\ busy /\ gate = NoGate
        /\ record' = opened /\ gate' = [call |-> c, own |-> own]
        /\ Settle(c)
        /\ UNCHANGED call

\* A call that ran although no gate was opened, or a dialog: the turn cannot go on.
lostEnds_Only == {"dialog"}
lostEnds == {"unasked", "dialog"}

HandleFrame ==
  /\ transport = "open" /\ pipe # <<>> /\ pipe' = Tail(pipe)
  /\ LET f == Head(pipe)
     IN \/ /\ f.kind = "gate" /\ HandleGate(f.call)
           /\ UNCHANGED <<failed, turn, admission, steering, ledger>>
        \/ /\ f.kind = "ack"
           /\ turn' = IF turn = "prompting" THEN "awaiting" ELSE turn
           /\ UNCHANGED <<call, rpcVars, record, admission, steering, ledger>>
        \/ /\ f.kind = "nack" /\ failed' = TRUE /\ Settle("failed")
           /\ turn' = IF turn = "prompting" THEN "closing" ELSE turn
           /\ UNCHANGED <<call, gate, record, admission, steering, ledger>>
        \/ /\ f.kind = "settled" /\ admission' = FALSE
           /\ \E how \in {"settled", "failed"} : Settle(how)
           /\ UNCHANGED <<call, failed, gate, record, turn, steering, ledger>>
        \/ /\ f.kind \in {"unasked", "dialog"}
           /\ \/ f.kind \in lostEnds /\ failed' = TRUE /\ Settle("failed")
              \/ f.kind \notin lostEnds /\ UNCHANGED <<failed, outcome, busy, deadline>>
           /\ UNCHANGED <<call, gate, record, turn, admission, steering, ledger>>
        \/ /\ f.kind = "steered" /\ steering' = NoInput
           /\ ledger' = ledger \cup {steering}
           /\ UNCHANGED <<call, rpcVars, record, turn, admission>>
        \/ /\ f.kind = "unsteered" /\ steering' = NoInput
           /\ UNCHANGED <<call, rpcVars, record, turn, admission, ledger>>
        \/ f.kind = "late" /\ UNCHANGED <<call, rpcVars, record, turn, admission, steering, ledger>>
  /\ UNCHANGED <<child, runs, unasked, transport, releasing, applied, answered, piBounds>>

\* The child is gone and its last frame was read.
ReaderEnds ==
  /\ transport = "open" /\ child = "dead" /\ pipe = <<>>
  /\ TransportClosed
  /\ turn' = IF turn = "prompting" THEN "closing" ELSE turn
  /\ UNCHANGED <<childVars, pipe, releasing, admission, ledger, applied, answered, piBounds>>

-----------------------------------------------------------------------------
(* The strategy and its deadlines. *)

PromptTimesOut ==
  /\ turn = "prompting" /\ turn' = "closing" /\ failed' = TRUE /\ Settle("failed")
  /\ UNCHANGED <<childVars, pipe, transport, gate, releasing, record, steerVars, answered, piBounds>>

\* The turn's outcome is there, or the user interrupts it.
TurnOutcome ==
  /\ turn = "awaiting"
  /\ \/ outcome \in Calls /\ turn' = "parked" /\ UNCHANGED admission
     \/ outcome = "settled" /\ turn' = "draining" /\ admission' = FALSE
     \/ outcome = "failed" /\ turn' = "closing" /\ UNCHANGED admission
  /\ UNCHANGED <<childVars, pipe, transport, rpcVars, releasing, record, steering, ledger, applied,
                 answered, piBounds>>

Interrupt ==
  /\ turn = "awaiting" /\ turn' = "closing"
  /\ UNCHANGED <<childVars, pipe, transport, rpcVars, releasing, record, steerVars, answered, piBounds>>

\* turn_complete, once the accepted steers are settled; or continuity is not proved.
CompleteTurn ==
  /\ turn = "draining"
  /\ \/ turn' = "closing"
     \/ steering = NoInput /\ turn' = "rest"
  /\ UNCHANGED <<childVars, pipe, transport, rpcVars, releasing, record, steerVars, answered, piBounds>>

\* The child is terminated and the transport closed, for a turn that failed or for
\* a deadline that passed.
Release ==
  /\ turn = "closing" \/ releasing
  /\ child' = IF Running THEN "dead" ELSE child
  /\ \/ transport = "open" /\ TransportClosed
     \/ transport # "open" /\ UNCHANGED <<transport, rpcVars, record, steering>>
  /\ turn' = IF turn = "closing" THEN "rest" ELSE IF turn = "prompting" THEN "closing" ELSE turn
  /\ releasing' = FALSE
  /\ UNCHANGED <<call, runs, unasked, pipe, admission, ledger, applied, answered, piBounds>>

\* The deadline also runs while the turn is parked.
Deadline ==
  /\ deadline /\ busy /\ transport = "open"
  /\ failed' = TRUE /\ record' = retired /\ gate' = NoGate /\ releasing' = TRUE
  /\ \/ outcome = "open" /\ outcome' = "failed" /\ busy' = FALSE
     \/ outcome # "open" /\ UNCHANGED <<outcome, busy>>
  /\ deadline' = FALSE
  /\ UNCHANGED <<childVars, pipe, transport, turn, steerVars, answered, piBounds>>

-----------------------------------------------------------------------------
(* Steering. *)

\* One in flight, never one that was possibly given; the child applies it or refuses
\* it, and may stay silent.
admitted(i) == steering = NoInput /\ i \notin ledger

Steer(i) ==
  /\ Alive /\ admission /\ busy /\ admitted(i)
  /\ steering' = i
  /\ \/ /\ Running /\ applied' = [applied EXCEPT ![i] = twice(@)]
        /\ (says(frame("steered")) \/ UNCHANGED pipe)
     \/ Running /\ says(frame("unsteered")) /\ UNCHANGED applied
     \/ UNCHANGED <<pipe, applied>>
  /\ UNCHANGED <<childVars, transport, rpcVars, releasing, record, turn, admission, ledger,
                 answered, piBounds>>

\* A response that comes later has nobody who waits for it.
SteerTimesOut ==
  /\ steering # NoInput
  /\ steering' = NoInput /\ ledger' = ledger \cup {steering}
  /\ pipe' = [k \in 1..Len(pipe) |->
       IF pipe[k].kind \in {"steered", "unsteered"} THEN frame("late") ELSE pipe[k]]
  /\ UNCHANGED <<childVars, transport, rpcVars, releasing, record, turn, admission, applied,
                 answered, piBounds>>

-----------------------------------------------------------------------------
\* The runtime is started again: its child is gone, the records are as they were
\* (retirePending, written to deny them then, is called by nobody).
RuntimeRestart ==
  /\ restarts < MaxRestarts /\ restarts' = restarts + 1
  /\ child' = IF Running THEN "dead" ELSE child
  /\ pipe' = <<>> /\ transport' = "none"
  /\ failed' = FALSE /\ busy' = FALSE /\ deadline' = FALSE /\ outcome' = "none" /\ gate' = NoGate
  /\ releasing' = FALSE /\ turn' = "rest"
  /\ admission' = FALSE /\ steering' = NoInput /\ ledger' = {}
  /\ UNCHANGED <<call, runs, unasked, record, applied, answered, turns>>

ChildStep == OpenDialog \/ AgentSettles \/ ChildDies
             \/ \E c \in Calls : AskGate(c) \/ RunGranted(c) \/ RunUnasked(c)
StrategyStep == armContinuation \/ TurnOutcome \/ CompleteTurn \/ Release

PiNext ==
  \/ Message \/ \E c \in Calls, decision \in {"allow", "deny"} : Confirm(c, decision)
  \/ ChildStep \/ HandleFrame \/ ReaderEnds
  \/ StrategyStep \/ PromptTimesOut \/ Interrupt \/ Deadline
  \/ (\E i \in Inputs : Steer(i)) \/ SteerTimesOut
  \/ RuntimeRestart

\* Frames are read, handlers go on after their awaits, timers fire (where a timeout
\* is configured).  The child owes nothing.
PiFairness ==
  /\ WF_piVars(HandleFrame) /\ WF_piVars(ReaderEnds) /\ WF_piVars(StrategyStep)
  /\ WF_piVars(PromptTimesOut) /\ WF_piVars(Deadline) /\ WF_piVars(SteerTimesOut)

PiSpec == PiInit /\ [][PiNext]_piVars /\ PiFairness

-----------------------------------------------------------------------------
(* Properties. *)

PiTypeOK ==
  /\ child \in {"none", "idle", "working", "stuck", "dead"} /\ unasked \in BOOLEAN
  /\ call \in [Calls -> {"new", "asked", "granted", "refused", "ran"}]
  /\ runs \in [Calls -> 0..2] /\ pipe \in Seq(Frames)
  /\ transport \in {"none", "open", "shut"} /\ failed \in BOOLEAN /\ busy \in BOOLEAN /\ deadline \in BOOLEAN
  /\ outcome \in {"none", "open", "settled", "failed"} \cup Calls
  /\ gate \in [call : Calls \cup {NoCall}, own : BOOLEAN] /\ releasing \in BOOLEAN
  /\ record \in [Calls -> {"none", "pending", "allowed", "denied"}]
  /\ turn \in Turns /\ admission \in BOOLEAN
  /\ steering \in Inputs \cup {NoInput} /\ ledger \subseteq Inputs /\ applied \in [Inputs -> 0..2]
  /\ answered \subseteq Calls /\ turns \in 0..MaxTurns /\ restarts \in 0..MaxRestarts

\* A gated call that was asked about runs once, and only when its record says it was
\* allowed (respondToInteraction, consume): whatever the deadline, the child's death,
\* another child that repeats the call, or a late confirmation do.
ApprovedRunsOnce ==
  \A c \in Calls : runs[c] > 0 => runs[c] = 1 /\ record[c] = "allowed"

\* A turn in which a gated call ran without a question is never reported complete
\* (handleEvent, PiRpcGateLostError).
UnaskedNeverCompletes ==
  [][turn = "draining" /\ turn' = "rest" => ~ unasked]_piVars

\* A pending record has a gate somebody can answer, however the turn ended; only a
\* restart, which retires no record, leaves one behind.
PendingHasGate ==
  \A c \in Calls : record[c] = "pending" /\ restarts = 0 => gate.call = c

\* A steer is applied once in a turn: one whose outcome is unknown is not sent again.
SteeredOnce == \A i \in Inputs : applied[i] <= 1

\* Every turn parks, completes or fails, though the child owes nothing; what a race
\* between an answer and the next outcome loses, the deadline ends.
PiTurnEnds == []<>(turn \in {"rest", "parked"})

\* A session that failed lets go of its child, also while its turn is parked and
\* nobody waits for its outcome.
FailedReleases == []<>(failed => ~ Running)

\* A steer that is reported rejected, and so may be sent again, was not applied
\* (adapter.ts: "nothing heard it and resending is safe").
RejectedNotApplied ==
  [][steering # NoInput /\ steering' = NoInput /\ steering \notin ledger' /\ restarts' = restarts
       => applied[steering] = 0]_piVars
=============================================================================
