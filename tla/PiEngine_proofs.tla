---------------------------- MODULE PiEngine_proofs ----------------------------
(***************************************************************************)
(* Theorems about the Pi loop engine: PiSession, for any number of calls,  *)
(* inputs, turns, frames and restarts; and, at the end, PiLease, for any   *)
(* number of acquisitions and any heartbeat shorter than the lease's life. *)
(***************************************************************************)
EXTENDS PiSession, PiLease, SequenceTheorems, TLAPS

-------------------------------------------------------------------------------
(* The parts of the inductive invariant. *)

\* A call the child may run was allowed and has not run.
GrantInv == \A c \in Calls : call[c] = "granted" => record[c] = "allowed" /\ runs[c] = 0

\* The gate of a pending record is the one this session opened.
GateInv == \A c \in Calls :
  record[c] = "pending" /\ restarts = 0 => gate.call = c /\ gate.own

\* The child lives as long as the pipes are open; a session whose pipes closed failed.
PipesInv == (Running => transport = "open") /\ (transport = "shut" => failed)
            /\ (turn = "answering" => transport # "none")

at(kinds) == {k \in 1..Len(pipe) : pipe[k].kind \in kinds}

\* The child works only in a turn, and says once that it settled.
SettledInv ==
  /\ child \in {"working", "stuck"} => at({"settled"}) = {} /\ outcome # "settled"
  /\ Alive /\ (child \in {"working", "stuck"} \/ at({"settled"}) # {}) => busy
  /\ \A j, k \in at({"settled"}) : j = k
  /\ turn = "draining" => outcome = "settled"

\* The frame of a call that ran unasked is read before the child settles, and ends
\* the turn.
UnaskedInv ==
  unasked =>
    /\ outcome # "settled"
    /\ \/ \E k \in at({"unasked"}) : \A j \in at({"settled"}) : k < j
       \/ failed /\ outcome # "open"
       \/ transport = "none" /\ turn = "rest"

Responses == {"steered", "unsteered"}

\* One response at a time is on its way, that to the steer in flight.
SteerInv ==
  /\ \A j, k \in at(Responses) : j = k
  /\ transport = "open" /\ steering = NoInput => at(Responses) = {}
  /\ \A i \in Inputs : applied[i] > 0 =>
       \/ i \in ledger
       \/ steering = i /\ at({"unsteered"}) = {}
       \/ ~ Alive

PiInv ==
  PiTypeOK /\ GrantInv /\ ApprovedRunsOnce /\ GateInv /\ PipesInv /\ SettledInv /\ UnaskedInv /\ SteerInv

-------------------------------------------------------------------------------
(* Parts of the type invariant. *)

FlagsOK ==
  /\ unasked \in BOOLEAN /\ failed \in BOOLEAN /\ busy \in BOOLEAN
  /\ deadline \in BOOLEAN /\ releasing \in BOOLEAN /\ admission \in BOOLEAN
PipeOK == pipe \in Seq(Frames)
GateOK == gate \in [call : Calls \cup {NoCall}, own : BOOLEAN]
DataOK ==
  /\ child \in {"none", "idle", "working", "stuck", "dead"}
  /\ call \in [Calls -> {"new", "asked", "granted", "refused", "ran"}]
  /\ runs \in [Calls -> 0..2]
  /\ transport \in {"none", "open", "shut"} 
  /\ outcome \in {"none", "open", "settled", "failed"} \cup Calls
  /\ record \in [Calls -> {"none", "pending", "allowed", "denied"}]
  /\ turn \in Turns
  /\ steering \in Inputs \cup {NoInput} /\ ledger \subseteq Inputs /\ applied \in [Inputs -> 0..2]
  /\ answered \subseteq Calls /\ turns \in 0..MaxTurns /\ restarts \in 0..MaxRestarts

LEMMA TypeParts == PiTypeOK <=> FlagsOK /\ PipeOK /\ GateOK /\ DataOK
  BY DEF PiTypeOK, FlagsOK, PipeOK, GateOK, DataOK

LEMMA HeadTail ==
  ASSUME PipeOK, pipe # <<>>
  PROVE  Head(pipe) \in Frames /\ Tail(pipe) \in Seq(Frames)
  BY DEF PipeOK

LEMMA FrameKinds ==
  /\ \A k \in {"ack", "nack", "dialog", "settled", "steered", "unsteered", "late"} : frame(k) \in Frames
  /\ \A f \in Frames : f.kind = "gate" => f.call \in Calls
  BY DEF Frames, frame

LEMMA NoGateOK == NoGate \in [call : Calls \cup {NoCall}, own : BOOLEAN]
  BY DEF NoGate

LEMMA FlagsStep ==
  ASSUME FlagsOK, [PiNext]_piVars
  PROVE  FlagsOK'
  <1> USE PiNumbers, PiNames DEF FlagsOK
  <1>1. CASE Message
    BY <1>1 DEF Message, PromptLive, PromptNew, Prompted, retired, consumable, piVars, childVars, rpcVars, steerVars, piBounds
  <1>2. ASSUME NEW c \in Calls, NEW decision \in {"allow", "deny"}, Confirm(c, decision) PROVE FlagsOK'
    BY <1>2 DEF Confirm, consumable, answerOf, piVars, childVars, rpcVars, steerVars, piBounds
  <1>3. CASE OpenDialog
    BY <1>3 DEF OpenDialog, says, ChildOnly, piVars, childVars, rpcVars, steerVars, piBounds
  <1>4. CASE AgentSettles
    BY <1>4 DEF AgentSettles, says, ChildOnly, piVars, childVars, rpcVars, steerVars, piBounds
  <1>5. CASE ChildDies
    BY <1>5 DEF ChildDies, ChildOnly, piVars, childVars, rpcVars, steerVars, piBounds
  <1>6. ASSUME NEW c \in Calls, AskGate(c) PROVE FlagsOK'
    BY <1>6 DEF AskGate, says, ChildOnly, piVars, childVars, rpcVars, steerVars, piBounds
  <1>7. ASSUME NEW c \in Calls, RunGranted(c) PROVE FlagsOK'
    BY <1>7 DEF RunGranted, twice, ChildOnly, piVars, childVars, rpcVars, steerVars, piBounds
  <1>8. ASSUME NEW c \in Calls, RunUnasked(c) PROVE FlagsOK'
    BY <1>8 DEF RunUnasked, says, ChildOnly, piVars, childVars, rpcVars, steerVars, piBounds
  <1>9. CASE HandleFrame
    BY <1>9 DEF HandleFrame, HandleGate, opens, answerOf, Settle, lostEnds, piVars, childVars, rpcVars, steerVars, piBounds
  <1>10. CASE ReaderEnds
    BY <1>10 DEF ReaderEnds, TransportClosed, Settle, retired, consumable, piVars, childVars, rpcVars, steerVars, piBounds
  <1>11. CASE armContinuation
    BY <1>11 DEF armContinuation, piVars, childVars, rpcVars, steerVars, piBounds
  <1>12. CASE TurnOutcome
    BY <1>12 DEF TurnOutcome, piVars, childVars, rpcVars, steerVars, piBounds
  <1>13. CASE CompleteTurn
    BY <1>13 DEF CompleteTurn, piVars, childVars, rpcVars, steerVars, piBounds
  <1>14. CASE Release
    BY <1>14 DEF Release, TransportClosed, Settle, retired, consumable, piVars, childVars, rpcVars, steerVars, piBounds
  <1>15. CASE PromptTimesOut
    BY <1>15 DEF PromptTimesOut, Settle, piVars, childVars, rpcVars, steerVars, piBounds
  <1>16. CASE Interrupt
    BY <1>16 DEF Interrupt, piVars, childVars, rpcVars, steerVars, piBounds
  <1>17. CASE Deadline
    BY <1>17 DEF Deadline, retired, consumable, piVars, childVars, rpcVars, steerVars, piBounds
  <1>18. ASSUME NEW i \in Inputs, Steer(i) PROVE FlagsOK'
    BY <1>18 DEF Steer, admitted, twice, says, piVars, childVars, rpcVars, steerVars, piBounds
  <1>19. CASE SteerTimesOut
    BY <1>19 DEF SteerTimesOut, piVars, childVars, rpcVars, steerVars, piBounds
  <1>20. CASE RuntimeRestart
    BY <1>20 DEF RuntimeRestart, piVars, childVars, rpcVars, steerVars, piBounds
  <1>21. CASE UNCHANGED piVars
    BY <1>21 DEF piVars, childVars, rpcVars, steerVars, piBounds
  <1> QED
    BY <1>1, <1>2, <1>3, <1>4, <1>5, <1>6, <1>7, <1>8, <1>9, <1>10, <1>11, <1>12, <1>13, <1>14, <1>15, <1>16, <1>17, <1>18, <1>19, <1>20, <1>21 DEF PiNext, ChildStep, StrategyStep

LEMMA PipeStep ==
  ASSUME PipeOK, [PiNext]_piVars
  PROVE  PipeOK'
  <1> USE PiNumbers, PiNames DEF PipeOK
  <1>1. CASE Message
    <2>1. CASE pipe' = pipe
      BY <2>1
    <2>2. ASSUME pipe' = Append(pipe, frame("ack")) \/ pipe' = Append(pipe, frame("nack")) PROVE PipeOK'
      BY <2>2, FrameKinds
    <2>3. CASE pipe' = <<frame("ack")>>
      BY <2>3, FrameKinds
    <2> QED
      BY <1>1, <2>1, <2>2, <2>3 DEF Message, PromptLive, PromptNew, Prompted
  <1>2. ASSUME NEW c \in Calls, NEW decision \in {"allow", "deny"}, Confirm(c, decision) PROVE PipeOK'
    BY <1>2 DEF Confirm, consumable, answerOf, piVars, childVars, rpcVars, steerVars, piBounds
  <1>3. CASE OpenDialog
    BY <1>3, FrameKinds DEF OpenDialog, says
  <1>4. CASE AgentSettles
    BY <1>4, FrameKinds DEF AgentSettles, says
  <1>5. CASE ChildDies
    BY <1>5 DEF ChildDies, ChildOnly, piVars, childVars, rpcVars, steerVars, piBounds
  <1>6. ASSUME NEW c \in Calls, AskGate(c) PROVE PipeOK'
    BY <1>6 DEF AskGate, says, Frames
  <1>7. ASSUME NEW c \in Calls, RunGranted(c) PROVE PipeOK'
    BY <1>7 DEF RunGranted, twice, ChildOnly, piVars, childVars, rpcVars, steerVars, piBounds
  <1>8. ASSUME NEW c \in Calls, RunUnasked(c) PROVE PipeOK'
    BY <1>8 DEF RunUnasked, says, Frames
  <1>9. CASE HandleFrame
    BY <1>9, HeadTail DEF HandleFrame
  <1>10. CASE ReaderEnds
    BY <1>10 DEF ReaderEnds, TransportClosed, Settle, retired, consumable, piVars, childVars, rpcVars, steerVars, piBounds
  <1>11. CASE armContinuation
    BY <1>11 DEF armContinuation, piVars, childVars, rpcVars, steerVars, piBounds
  <1>12. CASE TurnOutcome
    BY <1>12 DEF TurnOutcome, piVars, childVars, rpcVars, steerVars, piBounds
  <1>13. CASE CompleteTurn
    BY <1>13 DEF CompleteTurn, piVars, childVars, rpcVars, steerVars, piBounds
  <1>14. CASE Release
    BY <1>14 DEF Release, TransportClosed, Settle, retired, consumable, piVars, childVars, rpcVars, steerVars, piBounds
  <1>15. CASE PromptTimesOut
    BY <1>15 DEF PromptTimesOut, Settle, piVars, childVars, rpcVars, steerVars, piBounds
  <1>16. CASE Interrupt
    BY <1>16 DEF Interrupt, piVars, childVars, rpcVars, steerVars, piBounds
  <1>17. CASE Deadline
    BY <1>17 DEF Deadline, retired, consumable, piVars, childVars, rpcVars, steerVars, piBounds
  <1>18. ASSUME NEW i \in Inputs, Steer(i) PROVE PipeOK'
    <2>1. pipe' = pipe \/ pipe' = Append(pipe, frame("steered")) \/ pipe' = Append(pipe, frame("unsteered"))
      BY <1>18 DEF Steer, says
    <2> QED
      BY <2>1, FrameKinds
  <1>19. CASE SteerTimesOut
    <2>1. pipe \in [1..Len(pipe) -> Frames] /\ Len(pipe) \in Nat
      OBVIOUS
    <2>2. pipe' \in [1..Len(pipe) -> Frames]
      BY <1>19, <2>1, FrameKinds DEF SteerTimesOut
    <2> QED
      BY <2>1, <2>2, SeqDef
  <1>20. CASE RuntimeRestart
    BY <1>20 DEF RuntimeRestart, piVars, childVars, rpcVars, steerVars, piBounds
  <1>21. CASE UNCHANGED piVars
    BY <1>21 DEF piVars, childVars, rpcVars, steerVars, piBounds
  <1> QED
    BY <1>1, <1>2, <1>3, <1>4, <1>5, <1>6, <1>7, <1>8, <1>9, <1>10, <1>11, <1>12, <1>13, <1>14, <1>15, <1>16, <1>17, <1>18, <1>19, <1>20, <1>21 DEF PiNext, ChildStep, StrategyStep

LEMMA GateOKStep ==
  ASSUME PipeOK, GateOK, [PiNext]_piVars
  PROVE  GateOK'
  <1> USE PiNumbers, PiNames DEF GateOK
  <1>1. CASE Message
    <2>1. gate' = gate \/ gate' = NoGate
      BY <1>1 DEF Message, PromptLive, PromptNew, Prompted, rpcVars
    <2> QED
      BY <2>1, NoGateOK
  <1>2. ASSUME NEW c \in Calls, NEW decision \in {"allow", "deny"}, Confirm(c, decision) PROVE GateOK'
    <2>1. gate' = gate \/ gate' = NoGate
      BY <1>2 DEF Confirm
    <2> QED
      BY <2>1, NoGateOK
  <1>3. CASE OpenDialog
    BY <1>3 DEF OpenDialog, says, ChildOnly, piVars, childVars, rpcVars, steerVars, piBounds
  <1>4. CASE AgentSettles
    BY <1>4 DEF AgentSettles, says, ChildOnly, piVars, childVars, rpcVars, steerVars, piBounds
  <1>5. CASE ChildDies
    BY <1>5 DEF ChildDies, ChildOnly, piVars, childVars, rpcVars, steerVars, piBounds
  <1>6. ASSUME NEW c \in Calls, AskGate(c) PROVE GateOK'
    BY <1>6 DEF AskGate, says, ChildOnly, piVars, childVars, rpcVars, steerVars, piBounds
  <1>7. ASSUME NEW c \in Calls, RunGranted(c) PROVE GateOK'
    BY <1>7 DEF RunGranted, twice, ChildOnly, piVars, childVars, rpcVars, steerVars, piBounds
  <1>8. ASSUME NEW c \in Calls, RunUnasked(c) PROVE GateOK'
    BY <1>8 DEF RunUnasked, says, ChildOnly, piVars, childVars, rpcVars, steerVars, piBounds
  <1>9. CASE HandleFrame
    <2>1. ASSUME NEW c \in Calls, HandleGate(c) PROVE GateOK'
      <3>1. gate' = gate \/ gate' = [call |-> c, own |-> opens(c)]
        BY <2>1 DEF HandleGate
      <3>2. opens(c) \in BOOLEAN
        BY DEF opens
      <3> QED
        BY <3>1, <3>2
    <2>2. CASE gate' = gate
      BY <2>2
    <2> QED
      BY <1>9, <2>1, <2>2, HeadTail, FrameKinds DEF HandleFrame, rpcVars
  <1>10. CASE ReaderEnds
    <2>1. gate' = gate \/ gate' = NoGate
      BY <1>10 DEF ReaderEnds, TransportClosed
    <2> QED
      BY <2>1, NoGateOK
  <1>11. CASE armContinuation
    BY <1>11 DEF armContinuation, piVars, childVars, rpcVars, steerVars, piBounds
  <1>12. CASE TurnOutcome
    BY <1>12 DEF TurnOutcome, piVars, childVars, rpcVars, steerVars, piBounds
  <1>13. CASE CompleteTurn
    BY <1>13 DEF CompleteTurn, piVars, childVars, rpcVars, steerVars, piBounds
  <1>14. CASE Release
    <2>1. gate' = gate \/ gate' = NoGate
      BY <1>14 DEF Release, TransportClosed, rpcVars
    <2> QED
      BY <2>1, NoGateOK
  <1>15. CASE PromptTimesOut
    BY <1>15 DEF PromptTimesOut, Settle, piVars, childVars, rpcVars, steerVars, piBounds
  <1>16. CASE Interrupt
    BY <1>16 DEF Interrupt, piVars, childVars, rpcVars, steerVars, piBounds
  <1>17. CASE Deadline
    <2>1. gate' = gate \/ gate' = NoGate
      BY <1>17 DEF Deadline
    <2> QED
      BY <2>1, NoGateOK
  <1>18. ASSUME NEW i \in Inputs, Steer(i) PROVE GateOK'
    BY <1>18 DEF Steer, admitted, twice, says, piVars, childVars, rpcVars, steerVars, piBounds
  <1>19. CASE SteerTimesOut
    BY <1>19 DEF SteerTimesOut, piVars, childVars, rpcVars, steerVars, piBounds
  <1>20. CASE RuntimeRestart
    <2>1. gate' = gate \/ gate' = NoGate
      BY <1>20 DEF RuntimeRestart
    <2> QED
      BY <2>1, NoGateOK
  <1>21. CASE UNCHANGED piVars
    BY <1>21 DEF piVars, childVars, rpcVars, steerVars, piBounds
  <1> QED
    BY <1>1, <1>2, <1>3, <1>4, <1>5, <1>6, <1>7, <1>8, <1>9, <1>10, <1>11, <1>12, <1>13, <1>14, <1>15, <1>16, <1>17, <1>18, <1>19, <1>20, <1>21 DEF PiNext, ChildStep, StrategyStep

LEMMA DataStep ==
  ASSUME PiTypeOK, PipeOK, DataOK, SteerInv, [PiNext]_piVars
  PROVE  DataOK'
  <1> USE PiNumbers, PiNames DEF PiTypeOK, DataOK, Turns, NoGate
  <1>1. CASE Message
    BY <1>1 DEF Message, PromptLive, PromptNew, Prompted, retired, consumable, piVars, childVars, rpcVars, steerVars, piBounds
  <1>2. ASSUME NEW c \in Calls, NEW decision \in {"allow", "deny"}, Confirm(c, decision) PROVE DataOK'
    BY <1>2 DEF Confirm, consumable, answerOf, piVars, childVars, rpcVars, steerVars, piBounds
  <1>3. CASE OpenDialog
    BY <1>3 DEF OpenDialog, says, ChildOnly, piVars, childVars, rpcVars, steerVars, piBounds
  <1>4. CASE AgentSettles
    BY <1>4 DEF AgentSettles, says, ChildOnly, piVars, childVars, rpcVars, steerVars, piBounds
  <1>5. CASE ChildDies
    BY <1>5 DEF ChildDies, ChildOnly, piVars, childVars, rpcVars, steerVars, piBounds
  <1>6. ASSUME NEW c \in Calls, AskGate(c) PROVE DataOK'
    BY <1>6 DEF AskGate, says, ChildOnly, piVars, childVars, rpcVars, steerVars, piBounds
  <1>7. ASSUME NEW c \in Calls, RunGranted(c) PROVE DataOK'
    BY <1>7 DEF RunGranted, twice, ChildOnly, piVars, childVars, rpcVars, steerVars, piBounds
  <1>8. ASSUME NEW c \in Calls, RunUnasked(c) PROVE DataOK'
    BY <1>8 DEF RunUnasked, says, ChildOnly, piVars, childVars, rpcVars, steerVars, piBounds
  <1>9. CASE HandleFrame
    <2> DEFINE f == Head(pipe)
    <2> USE <1>9
    <2>0. f \in Frames /\ transport = "open" /\ UNCHANGED <<child, runs, unasked, transport, releasing, applied, answered, piBounds>>
      BY HeadTail DEF HandleFrame
    <2>1. CASE f.kind = "gate"
      <3>1. f.call \in Calls
        BY <2>0, <2>1, FrameKinds
      <3>2. HandleGate(f.call) /\ UNCHANGED <<turn, steering, ledger>>
        BY <2>1 DEF HandleFrame
      <3>3. record' \in [Calls -> {"none", "pending", "allowed", "denied"}]
        BY <3>1, <3>2 DEF HandleGate, opens
      <3>4. call' \in [Calls -> {"new", "asked", "granted", "refused", "ran"}]
        BY <3>1, <3>2 DEF HandleGate, answerOf
      <3>5. outcome' \in {"none", "open", "settled", "failed"} \cup Calls
        BY <3>1, <3>2 DEF HandleGate, Settle
      <3> QED
        BY <2>0, <3>2, <3>3, <3>4, <3>5 DEF piBounds
    <2>2. CASE f.kind \in {"ack", "nack", "settled", "unasked", "dialog"}
      BY <2>0, <2>2 DEF HandleFrame, Settle, rpcVars, piBounds
    <2>3. CASE f.kind = "steered"
      <3>1. steering # NoInput
        <4>1. 1 \in 1..Len(pipe) /\ pipe[1] = f
          BY DEF HandleFrame, PipeOK
        <4> QED
          BY <2>0, <2>3, <4>1 DEF SteerInv, at, Responses
      <3> QED
        BY <2>0, <2>3, <3>1 DEF HandleFrame, rpcVars, piBounds
    <2>4. CASE f.kind \in {"unsteered", "late"}
      BY <2>0, <2>4 DEF HandleFrame, rpcVars, piBounds
    <2> QED
      BY <2>1, <2>2, <2>3, <2>4 DEF HandleFrame
  <1>10. CASE ReaderEnds
    BY <1>10 DEF ReaderEnds, TransportClosed, Settle, retired, consumable, piVars, childVars, rpcVars, steerVars, piBounds
  <1>11. CASE armContinuation
    BY <1>11 DEF armContinuation, piVars, childVars, rpcVars, steerVars, piBounds
  <1>12. CASE TurnOutcome
    BY <1>12 DEF TurnOutcome, piVars, childVars, rpcVars, steerVars, piBounds
  <1>13. CASE CompleteTurn
    BY <1>13 DEF CompleteTurn, piVars, childVars, rpcVars, steerVars, piBounds
  <1>14. CASE Release
    BY <1>14 DEF Release, TransportClosed, Settle, retired, consumable, piVars, childVars, rpcVars, steerVars, piBounds
  <1>15. CASE PromptTimesOut
    BY <1>15 DEF PromptTimesOut, Settle, piVars, childVars, rpcVars, steerVars, piBounds
  <1>16. CASE Interrupt
    BY <1>16 DEF Interrupt, piVars, childVars, rpcVars, steerVars, piBounds
  <1>17. CASE Deadline
    BY <1>17 DEF Deadline, retired, consumable, piVars, childVars, rpcVars, steerVars, piBounds
  <1>18. ASSUME NEW i \in Inputs, Steer(i) PROVE DataOK'
    BY <1>18 DEF Steer, admitted, twice, says, piVars, childVars, rpcVars, steerVars, piBounds
  <1>19. CASE SteerTimesOut
    BY <1>19 DEF SteerTimesOut, piVars, childVars, rpcVars, steerVars, piBounds
  <1>20. CASE RuntimeRestart
    BY <1>20 DEF RuntimeRestart, piVars, childVars, rpcVars, steerVars, piBounds
  <1>21. CASE UNCHANGED piVars
    BY <1>21 DEF piVars, childVars, rpcVars, steerVars, piBounds
  <1> QED
    BY <1>1, <1>2, <1>3, <1>4, <1>5, <1>6, <1>7, <1>8, <1>9, <1>10, <1>11, <1>12, <1>13, <1>14, <1>15, <1>16, <1>17, <1>18, <1>19, <1>20, <1>21 DEF PiNext, ChildStep, StrategyStep

-------------------------------------------------------------------------------
(* What writing and reading the pipe does to the places of its frames. *)

LEMMA AppendAt ==
  ASSUME PipeOK, NEW f, pipe' = Append(pipe, f), NEW kinds
  PROVE  /\ at(kinds) \subseteq 1..Len(pipe) /\ Len(pipe) \in Nat
         /\ at(kinds)' = at(kinds) \cup (IF f.kind \in kinds THEN {Len(pipe) + 1} ELSE {})
  <1>1. Len(pipe) \in Nat /\ Len(pipe') = Len(pipe) + 1
    BY DEF PipeOK
  <1>2. \A k \in 1..Len(pipe) : pipe'[k] = pipe[k]
    BY DEF PipeOK
  <1>3. pipe'[Len(pipe) + 1] = f
    BY DEF PipeOK
  <1>4. 1..Len(pipe') = (1..Len(pipe)) \cup {Len(pipe) + 1}
    BY <1>1
  <1> QED
    BY <1>1, <1>2, <1>3, <1>4 DEF at

LEMMA TailAt ==
  ASSUME PipeOK, pipe # <<>>, pipe' = Tail(pipe), NEW kinds
  PROVE  /\ at(kinds) \subseteq 1..Len(pipe) /\ Len(pipe) \in Nat
         /\ \A k : k \in at(kinds)' <=> k \in Nat \ {0} /\ k + 1 \in at(kinds)
         /\ 1 \in at(kinds) <=> Head(pipe).kind \in kinds
  <1>1. Len(pipe) \in Nat \ {0} /\ Len(pipe') = Len(pipe) - 1 /\ Head(pipe) = pipe[1]
    BY DEF PipeOK
  <1>2. \A k \in 1..Len(pipe') : pipe'[k] = pipe[k + 1]
    BY DEF PipeOK
  <1> QED
    BY <1>1, <1>2 DEF at

LEMMA SameAt ==
  ASSUME pipe' = pipe, NEW kinds
  PROVE  at(kinds)' = at(kinds)
  BY DEF at

LEMMA OneAt ==
  ASSUME NEW f, pipe' = <<f>>, NEW kinds
  PROVE  at(kinds)' \subseteq {1} /\ (f.kind \notin kinds => at(kinds)' = {})
  BY DEF at

LEMMA EmptyAt ==
  ASSUME pipe' = <<>>, NEW kinds
  PROVE  at(kinds)' = {}
  BY DEF at

LEMMA LateAt ==
  ASSUME PipeOK, SteerTimesOut, NEW kinds
  PROVE  /\ kinds \cap {"steered", "unsteered", "late"} = {} => at(kinds)' = at(kinds)
         /\ kinds \subseteq {"steered", "unsteered"} => at(kinds)' = {}
  <1>1. Len(pipe) \in Nat /\ Len(pipe') = Len(pipe)
    BY DEF SteerTimesOut, PipeOK
  <1>2. \A k \in 1..Len(pipe) :
          pipe'[k].kind = IF pipe[k].kind \in {"steered", "unsteered"} THEN "late" ELSE pipe[k].kind
    BY DEF SteerTimesOut, frame, PipeOK
  <1> QED
    BY <1>1, <1>2 DEF at

\* Where the frames of the kinds stay as they are, and a step that adds another.
LEMMA OtherAt ==
  ASSUME PipeOK, NEW f, NEW kinds, f.kind \notin kinds, pipe' = Append(pipe, f) \/ pipe' = pipe
  PROVE  at(kinds)' = at(kinds)
  <1>1. CASE pipe' = pipe
    BY <1>1, SameAt
  <1>2. CASE pipe' = Append(pipe, f)
    <2>1. at(kinds)' = at(kinds) \cup (IF f.kind \in kinds THEN {Len(pipe) + 1} ELSE {})
      BY <1>2, AppendAt
    <2> QED
      BY <2>1
  <1> QED
    BY <1>1, <1>2

LEMMA SettledStep ==
  ASSUME PiTypeOK, PipeOK, PipesInv, SettledInv, [PiNext]_piVars
  PROVE  SettledInv'
  <1> USE PiNumbers, PiNames DEF PiTypeOK, PipesInv, SettledInv, Running, Alive
  <1>1. CASE Message
    <2>1. CASE PromptLive
      <3>1. busy' /\ outcome' = "open" /\ turn' = "prompting" /\ UNCHANGED <<transport, failed>>
        BY <2>1 DEF PromptLive, Prompted
      <3>2. at({"settled"})' = at({"settled"})
        <4>1. pipe' = pipe \/ pipe' = Append(pipe, frame("ack")) \/ pipe' = Append(pipe, frame("nack"))
          BY <2>1 DEF PromptLive
        <4>2. frame("ack").kind \notin {"settled"} /\ frame("nack").kind \notin {"settled"}
          BY DEF frame
        <4> QED
          BY <4>1, <4>2, OtherAt
      <3>3. at({"settled"}) = {}
        BY <2>1 DEF PromptLive
      <3> QED
        BY <3>1, <3>2, <3>3
    <2>2. CASE PromptNew
      <3>1. pipe' = <<frame("ack")>> /\ frame("ack").kind # "settled"
        BY <2>2 DEF PromptNew, frame
      <3>2. at({"settled"})' = {}
        BY <3>1, OneAt
      <3> QED
        BY <2>2, <3>2 DEF PromptNew, Prompted
    <2>3. CASE UNCHANGED <<child, pipe, transport, failed, busy, outcome>> /\ turn' \in {"closing", "rest"}
      BY <2>3, SameAt
    <2> QED
      BY <1>1, <2>1, <2>2, <2>3 DEF Message, childVars, rpcVars
  <1>2. ASSUME NEW c \in Calls, NEW decision \in {"allow", "deny"}, Confirm(c, decision) PROVE SettledInv'
    BY <1>2, SameAt, AppendAt, EmptyAt DEF Confirm, consumable, answerOf, piVars, childVars, rpcVars, steerVars, piBounds
  <1>3. CASE OpenDialog
    <2>1. at({"settled"})' = at({"settled"})
      <3>1. pipe' = pipe \/ pipe' = Append(pipe, frame("dialog"))
        BY <1>3 DEF OpenDialog, says
      <3>2. frame("dialog").kind \notin {"settled"}
        BY DEF frame
      <3> QED
        BY <3>1, <3>2, OtherAt
    <2> QED
      BY <1>3, <2>1 DEF OpenDialog, ChildOnly, rpcVars
  <1>4. CASE AgentSettles
    BY <1>4, SameAt, AppendAt, EmptyAt DEF AgentSettles, says, ChildOnly, piVars, childVars, rpcVars, steerVars, piBounds
  <1>5. CASE ChildDies
    BY <1>5, SameAt, AppendAt, EmptyAt DEF ChildDies, ChildOnly, piVars, childVars, rpcVars, steerVars, piBounds
  <1>6. ASSUME NEW c \in Calls, AskGate(c) PROVE SettledInv'
    <2>1. at({"settled"})' = at({"settled"})
      <3>1. pipe' = pipe \/ pipe' = Append(pipe, [kind |-> "gate", call |-> c])
        BY <1>6 DEF AskGate, says
      <3>2. [kind |-> "gate", call |-> c].kind \notin {"settled"}
        BY DEF frame
      <3> QED
        BY <3>1, <3>2, OtherAt
    <2> QED
      BY <1>6, <2>1 DEF AskGate, ChildOnly, rpcVars
  <1>7. ASSUME NEW c \in Calls, RunGranted(c) PROVE SettledInv'
    BY <1>7, SameAt, AppendAt, EmptyAt DEF RunGranted, twice, ChildOnly, piVars, childVars, rpcVars, steerVars, piBounds
  <1>8. ASSUME NEW c \in Calls, RunUnasked(c) PROVE SettledInv'
    <2>1. at({"settled"})' = at({"settled"})
      <3>1. pipe' = pipe \/ pipe' = Append(pipe, [kind |-> "unasked", call |-> c])
        BY <1>8 DEF RunUnasked, says
      <3>2. [kind |-> "unasked", call |-> c].kind \notin {"settled"}
        BY DEF frame
      <3> QED
        BY <3>1, <3>2, OtherAt
    <2> QED
      BY <1>8, <2>1 DEF RunUnasked, ChildOnly, rpcVars
  <1>9. CASE HandleFrame
    <2> DEFINE f == Head(pipe)
    <2>1. /\ \A k : k \in at({"settled"})' => k + 1 \in at({"settled"}) /\ k \in Nat \ {0}
          /\ 1 \in at({"settled"}) <=> f.kind = "settled"
      BY <1>9, TailAt DEF HandleFrame
    <2>2. transport = "open" /\ UNCHANGED <<child, transport>>
      BY <1>9 DEF HandleFrame
    <2>3. CASE f.kind = "settled"
      <3>1. at({"settled"})' = {}
        BY <2>1, <2>3
      <3> QED
        BY <1>9, <2>2, <2>3, <3>1, <2>1 DEF HandleFrame, Settle
    <2>4. CASE f.kind \in {"unasked", "dialog", "nack"}
      BY <1>9, <2>1, <2>2, <2>4 DEF HandleFrame, Settle, lostEnds
    <2>5. CASE f.kind \in {"ack", "steered", "unsteered", "late"}
      BY <1>9, <2>1, <2>2, <2>5 DEF HandleFrame, rpcVars
    <2>6. CASE f.kind = "gate"
      <3>1. failed' = failed /\ turn' = turn /\ HandleGate(f.call)
        BY <1>9, <2>6 DEF HandleFrame
      <3>2. f.call \in Calls
        BY <1>9, <2>6, HeadTail, FrameKinds DEF HandleFrame
      <3>3. \/ UNCHANGED <<outcome, busy>>
            \/ busy /\ outcome = "open" /\ outcome' = f.call /\ busy'
        BY <3>1, <3>2 DEF HandleGate, Settle
      <3> QED
        BY <2>1, <2>2, <3>1, <3>2, <3>3
    <2> QED
      BY <1>9, <2>3, <2>4, <2>5, <2>6 DEF HandleFrame
  <1>10. CASE ReaderEnds
    BY <1>10, SameAt, AppendAt, EmptyAt DEF ReaderEnds, TransportClosed, Settle, retired, consumable, piVars, childVars, rpcVars, steerVars, piBounds
  <1>11. CASE armContinuation
    BY <1>11, SameAt, AppendAt, EmptyAt DEF armContinuation, piVars, childVars, rpcVars, steerVars, piBounds
  <1>12. CASE TurnOutcome
    BY <1>12, SameAt, AppendAt, EmptyAt DEF TurnOutcome, piVars, childVars, rpcVars, steerVars, piBounds
  <1>13. CASE CompleteTurn
    BY <1>13, SameAt, AppendAt, EmptyAt DEF CompleteTurn, piVars, childVars, rpcVars, steerVars, piBounds
  <1>14. CASE Release
    BY <1>14, SameAt, AppendAt, EmptyAt DEF Release, TransportClosed, Settle, retired, consumable, piVars, childVars, rpcVars, steerVars, piBounds
  <1>15. CASE PromptTimesOut
    BY <1>15, SameAt, AppendAt, EmptyAt DEF PromptTimesOut, Settle, piVars, childVars, rpcVars, steerVars, piBounds
  <1>16. CASE Interrupt
    BY <1>16, SameAt, AppendAt, EmptyAt DEF Interrupt, piVars, childVars, rpcVars, steerVars, piBounds
  <1>17. CASE Deadline
    <2>1. at({"settled"})' = at({"settled"})
      BY <1>17, SameAt DEF Deadline
    <2> QED
      BY <1>17, <2>1 DEF Deadline, childVars
  <1>18. ASSUME NEW i \in Inputs, Steer(i) PROVE SettledInv'
    <2>1. at({"settled"})' = at({"settled"})
      <3>1. pipe' = pipe \/ pipe' = Append(pipe, frame("steered")) \/ pipe' = Append(pipe, frame("unsteered"))
        BY <1>18 DEF Steer, says
      <3>2. frame("steered").kind \notin {"settled"} /\ frame("unsteered").kind \notin {"settled"}
        BY DEF frame
      <3> QED
        BY <3>1, <3>2, OtherAt
    <2> QED
      BY <1>18, <2>1 DEF Steer, childVars, rpcVars
  <1>19. CASE SteerTimesOut
    <2>1. at({"settled"})' = at({"settled"})
      BY <1>19, LateAt
    <2> QED
      BY <1>19, <2>1 DEF SteerTimesOut, childVars, rpcVars
  <1>20. CASE RuntimeRestart
    BY <1>20, SameAt, AppendAt, EmptyAt DEF RuntimeRestart, piVars, childVars, rpcVars, steerVars, piBounds
  <1>21. CASE UNCHANGED piVars
    BY <1>21, SameAt DEF piVars, childVars, rpcVars, steerVars, piBounds
  <1> QED
    BY <1>1, <1>2, <1>3, <1>4, <1>5, <1>6, <1>7, <1>8, <1>9, <1>10, <1>11, <1>12, <1>13, <1>14, <1>15, <1>16, <1>17, <1>18, <1>19, <1>20, <1>21, SameAt DEF PiNext, ChildStep, StrategyStep

LEMMA UnaskedStep ==
  ASSUME PiTypeOK, PipeOK, PipesInv, SettledInv, UnaskedInv, [PiNext]_piVars
  PROVE  UnaskedInv'
  <1> USE PiNumbers, PiNames DEF PiTypeOK, PipesInv, SettledInv, UnaskedInv, Running, Alive
  <1>1. CASE Message
    <2>1. CASE PromptLive \/ PromptNew
      BY <2>1 DEF PromptLive, PromptNew, Prompted
    <2>2. CASE UNCHANGED <<childVars, pipe, transport, rpcVars>> /\ (Alive \/ turn' = "rest")
      <3>1. at({"unasked"})' = at({"unasked"}) /\ at({"settled"})' = at({"settled"})
        BY <2>2, SameAt
      <3> QED
        BY <2>2, <3>1 DEF childVars, rpcVars
    <2> QED
      BY <1>1, <2>1, <2>2 DEF Message
  <1>2. ASSUME NEW c \in Calls, NEW decision \in {"allow", "deny"}, Confirm(c, decision) PROVE UnaskedInv'
    <2>1. at({"unasked"})' = at({"unasked"}) /\ at({"settled"})' = at({"settled"})
      BY <1>2, SameAt DEF Confirm, consumable, answerOf, piVars, childVars, rpcVars, steerVars, piBounds
    <2> QED
      BY <1>2, <2>1 DEF Confirm, consumable, answerOf, piVars, childVars, rpcVars, steerVars, piBounds
  <1>3. CASE OpenDialog
    <2>1. at({"unasked"})' = at({"unasked"})
      <3>1. pipe' = pipe \/ pipe' = Append(pipe, frame("dialog"))
        BY <1>3 DEF OpenDialog, says
      <3>2. frame("dialog").kind \notin {"unasked"}
        BY DEF frame
      <3> QED
        BY <3>1, <3>2, OtherAt
    <2>2. at({"settled"})' = at({"settled"})
      <3>1. pipe' = pipe \/ pipe' = Append(pipe, frame("dialog"))
        BY <1>3 DEF OpenDialog, says
      <3>2. frame("dialog").kind \notin {"settled"}
        BY DEF frame
      <3> QED
        BY <3>1, <3>2, OtherAt
    <2> QED
      BY <1>3, <2>1, <2>2 DEF OpenDialog, ChildOnly, rpcVars
  <1>4. CASE AgentSettles
    <2>1. at({"unasked"})' = at({"unasked"})
      <3>1. pipe' = pipe \/ pipe' = Append(pipe, frame("settled"))
        BY <1>4 DEF AgentSettles, says
      <3>2. frame("settled").kind \notin {"unasked"}
        BY DEF frame
      <3> QED
        BY <3>1, <3>2, OtherAt
    <2>2. at({"settled"})' = {Len(pipe) + 1} /\ at({"unasked"}) \subseteq 1..Len(pipe) /\ Len(pipe) \in Nat
      <3>1. pipe' = Append(pipe, frame("settled")) /\ frame("settled").kind = "settled"
        BY <1>4 DEF AgentSettles, says, frame
      <3> QED
        BY <1>4, <3>1, AppendAt DEF AgentSettles
    <2> QED
      BY <1>4, <2>1, <2>2 DEF AgentSettles, ChildOnly, rpcVars
  <1>5. CASE ChildDies
    <2>1. at({"unasked"})' = at({"unasked"}) /\ at({"settled"})' = at({"settled"})
      BY <1>5, SameAt DEF ChildDies, ChildOnly, piVars, childVars, rpcVars, steerVars, piBounds
    <2> QED
      BY <1>5, <2>1 DEF ChildDies, ChildOnly, piVars, childVars, rpcVars, steerVars, piBounds
  <1>6. ASSUME NEW c \in Calls, AskGate(c) PROVE UnaskedInv'
    <2>1. at({"unasked"})' = at({"unasked"})
      <3>1. pipe' = pipe \/ pipe' = Append(pipe, [kind |-> "gate", call |-> c])
        BY <1>6 DEF AskGate, says
      <3>2. [kind |-> "gate", call |-> c].kind \notin {"unasked"}
        BY DEF frame
      <3> QED
        BY <3>1, <3>2, OtherAt
    <2>2. at({"settled"})' = at({"settled"})
      <3>1. pipe' = pipe \/ pipe' = Append(pipe, [kind |-> "gate", call |-> c])
        BY <1>6 DEF AskGate, says
      <3>2. [kind |-> "gate", call |-> c].kind \notin {"settled"}
        BY DEF frame
      <3> QED
        BY <3>1, <3>2, OtherAt
    <2> QED
      BY <1>6, <2>1, <2>2 DEF AskGate, ChildOnly, rpcVars
  <1>7. ASSUME NEW c \in Calls, RunGranted(c) PROVE UnaskedInv'
    <2>1. at({"unasked"})' = at({"unasked"}) /\ at({"settled"})' = at({"settled"})
      BY <1>7, SameAt DEF RunGranted, twice, ChildOnly, piVars, childVars, rpcVars, steerVars, piBounds
    <2> QED
      BY <1>7, <2>1 DEF RunGranted, twice, ChildOnly, piVars, childVars, rpcVars, steerVars, piBounds
  <1>8. ASSUME NEW c \in Calls, RunUnasked(c) PROVE UnaskedInv'
    <2>1. Len(pipe) + 1 \in at({"unasked"})'
      <3>1. pipe' = Append(pipe, [kind |-> "unasked", call |-> c])
        BY <1>8 DEF RunUnasked, says
      <3> QED
        BY <3>1, AppendAt
    <2>2. at({"settled"})' = at({"settled"})
      <3>1. pipe' = pipe \/ pipe' = Append(pipe, [kind |-> "unasked", call |-> c])
        BY <1>8 DEF RunUnasked, says
      <3>2. [kind |-> "unasked", call |-> c].kind \notin {"settled"}
        BY DEF frame
      <3> QED
        BY <3>1, <3>2, OtherAt
    <2> QED
      BY <1>8, <2>1, <2>2 DEF RunUnasked, ChildOnly, rpcVars
  <1>9. CASE HandleFrame
    <2> DEFINE f == Head(pipe)
    <2>1. /\ \A k : k \in at({"settled"})' <=> k + 1 \in at({"settled"}) /\ k \in Nat \ {0}
          /\ 1 \in at({"settled"}) <=> f.kind = "settled"
          /\ \A k : k \in at({"unasked"})' <=> k + 1 \in at({"unasked"}) /\ k \in Nat \ {0}
          /\ 1 \in at({"unasked"}) <=> f.kind = "unasked"
          /\ at({"settled"}) \subseteq 1..Len(pipe) /\ at({"unasked"}) \subseteq 1..Len(pipe) /\ Len(pipe) \in Nat
      BY <1>9, TailAt DEF HandleFrame
    <2>2. transport = "open" /\ unasked' = unasked
      BY <1>9 DEF HandleFrame
    <2> DEFINE First == \E k \in at({"unasked"}) : \A j \in at({"settled"}) : k < j
    <2>3. First /\ f.kind # "unasked" => First' /\ f.kind # "settled"
      <3> SUFFICES ASSUME NEW k \in at({"unasked"}), \A j \in at({"settled"}) : k < j, f.kind # "unasked"
                   PROVE  First' /\ f.kind # "settled"
        OBVIOUS
      <3>1. k \in Nat /\ k > 1 /\ f.kind # "settled"
        BY <2>1
      <3>2. k - 1 \in at({"unasked"})'
        BY <2>1, <3>1
      <3>3. ASSUME NEW j \in at({"settled"})' PROVE k - 1 < j
        BY <2>1, <3>1, <3>3
      <3> QED
        BY <3>1, <3>2, <3>3
    <2>4. CASE f.kind = "settled"
      BY <1>9, <2>2, <2>3, <2>4 DEF HandleFrame, Settle
    <2>5. CASE f.kind \in {"unasked", "dialog", "nack"}
      <3>1. failed' /\ Settle("failed")
        BY <1>9, <2>5 DEF HandleFrame, lostEnds
      <3> QED
        BY <2>2, <3>1 DEF Settle
    <2>6. CASE f.kind \in {"ack", "steered", "unsteered", "late"}
      BY <1>9, <2>2, <2>3, <2>6 DEF HandleFrame, rpcVars
    <2>7. CASE f.kind = "gate"
      <3>1. failed' = failed /\ HandleGate(f.call) /\ f.call \in Calls
        BY <1>9, <2>7, HeadTail, FrameKinds DEF HandleFrame
      <3>2. outcome' = outcome \/ (outcome = "open" /\ outcome' = f.call)
        BY <3>1 DEF HandleGate, Settle
      <3> QED
        BY <2>2, <2>3, <2>7, <3>1, <3>2
    <2> QED
      BY <1>9, <2>4, <2>5, <2>6, <2>7 DEF HandleFrame
  <1>10. CASE ReaderEnds
    <2>1. at({"unasked"})' = at({"unasked"}) /\ at({"settled"})' = at({"settled"})
      BY <1>10, SameAt DEF ReaderEnds, TransportClosed, Settle, retired, consumable, piVars, childVars, rpcVars, steerVars, piBounds
    <2> QED
      BY <1>10, <2>1 DEF ReaderEnds, TransportClosed, Settle, retired, consumable, piVars, childVars, rpcVars, steerVars, piBounds
  <1>11. CASE armContinuation
    <2>1. at({"unasked"})' = at({"unasked"}) /\ at({"settled"})' = at({"settled"})
      BY <1>11, SameAt DEF armContinuation, piVars, childVars, rpcVars, steerVars, piBounds
    <2> QED
      BY <1>11, <2>1 DEF armContinuation, piVars, childVars, rpcVars, steerVars, piBounds
  <1>12. CASE TurnOutcome
    <2>1. at({"unasked"})' = at({"unasked"}) /\ at({"settled"})' = at({"settled"})
      BY <1>12, SameAt DEF TurnOutcome, piVars, childVars, rpcVars, steerVars, piBounds
    <2> QED
      BY <1>12, <2>1 DEF TurnOutcome, piVars, childVars, rpcVars, steerVars, piBounds
  <1>13. CASE CompleteTurn
    <2>1. at({"unasked"})' = at({"unasked"}) /\ at({"settled"})' = at({"settled"})
      BY <1>13, SameAt DEF CompleteTurn, piVars, childVars, rpcVars, steerVars, piBounds
    <2> QED
      BY <1>13, <2>1 DEF CompleteTurn, piVars, childVars, rpcVars, steerVars, piBounds
  <1>14. CASE Release
    <2>1. at({"unasked"})' = at({"unasked"}) /\ at({"settled"})' = at({"settled"})
      BY <1>14, SameAt DEF Release, TransportClosed, Settle, retired, consumable, piVars, childVars, rpcVars, steerVars, piBounds
    <2> QED
      BY <1>14, <2>1 DEF Release, TransportClosed, Settle, retired, consumable, piVars, childVars, rpcVars, steerVars, piBounds
  <1>15. CASE PromptTimesOut
    <2>1. at({"unasked"})' = at({"unasked"}) /\ at({"settled"})' = at({"settled"})
      BY <1>15, SameAt DEF PromptTimesOut, Settle, piVars, childVars, rpcVars, steerVars, piBounds
    <2> QED
      BY <1>15, <2>1 DEF PromptTimesOut, Settle, piVars, childVars, rpcVars, steerVars, piBounds
  <1>16. CASE Interrupt
    <2>1. at({"unasked"})' = at({"unasked"}) /\ at({"settled"})' = at({"settled"})
      BY <1>16, SameAt DEF Interrupt, piVars, childVars, rpcVars, steerVars, piBounds
    <2> QED
      BY <1>16, <2>1 DEF Interrupt, piVars, childVars, rpcVars, steerVars, piBounds
  <1>17. CASE Deadline
    <2>1. at({"unasked"})' = at({"unasked"}) /\ at({"settled"})' = at({"settled"})
      BY <1>17, SameAt DEF Deadline, retired, consumable, piVars, childVars, rpcVars, steerVars, piBounds
    <2> QED
      BY <1>17, <2>1 DEF Deadline, retired, consumable, piVars, childVars, rpcVars, steerVars, piBounds
  <1>18. ASSUME NEW i \in Inputs, Steer(i) PROVE UnaskedInv'
    <2>1. at({"unasked"})' = at({"unasked"})
      <3>1. pipe' = pipe \/ pipe' = Append(pipe, frame("steered")) \/ pipe' = Append(pipe, frame("unsteered"))
        BY <1>18 DEF Steer, says
      <3>2. frame("steered").kind \notin {"unasked"} /\ frame("unsteered").kind \notin {"unasked"}
        BY DEF frame
      <3> QED
        BY <3>1, <3>2, OtherAt
    <2>2. at({"settled"})' = at({"settled"})
      <3>1. pipe' = pipe \/ pipe' = Append(pipe, frame("steered")) \/ pipe' = Append(pipe, frame("unsteered"))
        BY <1>18 DEF Steer, says
      <3>2. frame("steered").kind \notin {"settled"} /\ frame("unsteered").kind \notin {"settled"}
        BY DEF frame
      <3> QED
        BY <3>1, <3>2, OtherAt
    <2> QED
      BY <1>18, <2>1, <2>2 DEF Steer, childVars, rpcVars
  <1>19. CASE SteerTimesOut
    <2>1. at({"settled"})' = at({"settled"}) /\ at({"unasked"})' = at({"unasked"})
      BY <1>19, LateAt
    <2> QED
      BY <1>19, <2>1 DEF SteerTimesOut, childVars, rpcVars
  <1>20. CASE RuntimeRestart
    BY <1>20 DEF RuntimeRestart
  <1>21. CASE UNCHANGED piVars
    BY <1>21, SameAt DEF piVars, childVars, rpcVars, steerVars, piBounds
  <1> QED
    BY <1>1, <1>2, <1>3, <1>4, <1>5, <1>6, <1>7, <1>8, <1>9, <1>10, <1>11, <1>12, <1>13, <1>14, <1>15, <1>16, <1>17, <1>18, <1>19, <1>20, <1>21, SameAt DEF PiNext, ChildStep, StrategyStep

LEMMA SteerStep ==
  ASSUME PiTypeOK, PipeOK, SteerInv, [PiNext]_piVars
  PROVE  SteerInv'
  <1> USE PiNumbers, PiNames DEF PiTypeOK, SteerInv, Alive
  <1>1. CASE Message
    <2>1. CASE PromptLive
      <3>1. at(Responses)' = at(Responses)
        <4>1. pipe' = pipe \/ pipe' = Append(pipe, frame("ack")) \/ pipe' = Append(pipe, frame("nack"))
          BY <2>1 DEF PromptLive
        <4>2. frame("ack").kind \notin Responses /\ frame("nack").kind \notin Responses
          BY DEF frame, Responses
        <4> QED
          BY <4>1, <4>2, OtherAt
      <3> QED
        BY <2>1, <3>1 DEF PromptLive, Prompted
    <2>2. CASE PromptNew
      <3>1. pipe' = <<frame("ack")>> /\ frame("ack").kind \notin Responses
        BY <2>2 DEF PromptNew, frame, Responses
      <3>2. at(Responses)' = {}
        BY <3>1, OneAt
      <3> QED
        BY <2>2, <3>2 DEF PromptNew, Prompted
    <2>3. CASE UNCHANGED <<pipe, transport, rpcVars, steerVars>>
      <3>1. at(Responses)' = at(Responses) /\ at({"unsteered"})' = at({"unsteered"})
        BY <2>3, SameAt
      <3> QED
        BY <2>3, <3>1 DEF rpcVars, steerVars
    <2> QED
      BY <1>1, <2>1, <2>2, <2>3 DEF Message
  <1>2. ASSUME NEW c \in Calls, NEW decision \in {"allow", "deny"}, Confirm(c, decision) PROVE SteerInv'
    <2>1. at(Responses)' = at(Responses) /\ at({"unsteered"})' = at({"unsteered"})
      BY <1>2, SameAt DEF Confirm, consumable, answerOf, piVars, childVars, rpcVars, steerVars, piBounds
    <2> QED
      BY <1>2, <2>1 DEF Confirm, consumable, answerOf, piVars, childVars, rpcVars, steerVars, piBounds
  <1>3. CASE OpenDialog
    <2>1. at(Responses)' = at(Responses) /\ at({"unsteered"})' = at({"unsteered"})
      <3>1. pipe' = pipe \/ pipe' = Append(pipe, frame("dialog"))
        BY <1>3 DEF OpenDialog, says
      <3>2. frame("dialog").kind \notin Responses
        BY DEF frame, Responses
      <3>3. at(Responses)' = at(Responses)
        BY <3>1, <3>2, OtherAt
      <3>4. at({"unsteered"})' = at({"unsteered"})
        BY <3>1, <3>2, OtherAt DEF Responses
      <3> QED
        BY <3>3, <3>4
    <2> QED
      BY <1>3, <2>1 DEF OpenDialog, ChildOnly, rpcVars, steerVars
  <1>4. CASE AgentSettles
    <2>1. at(Responses)' = at(Responses) /\ at({"unsteered"})' = at({"unsteered"})
      <3>1. pipe' = pipe \/ pipe' = Append(pipe, frame("settled"))
        BY <1>4 DEF AgentSettles, says
      <3>2. frame("settled").kind \notin Responses
        BY DEF frame, Responses
      <3>3. at(Responses)' = at(Responses)
        BY <3>1, <3>2, OtherAt
      <3>4. at({"unsteered"})' = at({"unsteered"})
        BY <3>1, <3>2, OtherAt DEF Responses
      <3> QED
        BY <3>3, <3>4
    <2> QED
      BY <1>4, <2>1 DEF AgentSettles, ChildOnly, rpcVars, steerVars
  <1>5. CASE ChildDies
    <2>1. at(Responses)' = at(Responses) /\ at({"unsteered"})' = at({"unsteered"})
      BY <1>5, SameAt DEF ChildDies, ChildOnly, piVars, childVars, rpcVars, steerVars, piBounds
    <2> QED
      BY <1>5, <2>1 DEF ChildDies, ChildOnly, piVars, childVars, rpcVars, steerVars, piBounds
  <1>6. ASSUME NEW c \in Calls, AskGate(c) PROVE SteerInv'
    <2>1. at(Responses)' = at(Responses) /\ at({"unsteered"})' = at({"unsteered"})
      <3>1. pipe' = pipe \/ pipe' = Append(pipe, [kind |-> "gate", call |-> c])
        BY <1>6 DEF AskGate, says
      <3>2. [kind |-> "gate", call |-> c].kind \notin Responses
        BY DEF frame, Responses
      <3>3. at(Responses)' = at(Responses)
        BY <3>1, <3>2, OtherAt
      <3>4. at({"unsteered"})' = at({"unsteered"})
        BY <3>1, <3>2, OtherAt DEF Responses
      <3> QED
        BY <3>3, <3>4
    <2> QED
      BY <1>6, <2>1 DEF AskGate, ChildOnly, rpcVars, steerVars
  <1>7. ASSUME NEW c \in Calls, RunGranted(c) PROVE SteerInv'
    <2>1. at(Responses)' = at(Responses) /\ at({"unsteered"})' = at({"unsteered"})
      BY <1>7, SameAt DEF RunGranted, twice, ChildOnly, piVars, childVars, rpcVars, steerVars, piBounds
    <2> QED
      BY <1>7, <2>1 DEF RunGranted, twice, ChildOnly, piVars, childVars, rpcVars, steerVars, piBounds
  <1>8. ASSUME NEW c \in Calls, RunUnasked(c) PROVE SteerInv'
    <2>1. at(Responses)' = at(Responses) /\ at({"unsteered"})' = at({"unsteered"})
      <3>1. pipe' = pipe \/ pipe' = Append(pipe, [kind |-> "unasked", call |-> c])
        BY <1>8 DEF RunUnasked, says
      <3>2. [kind |-> "unasked", call |-> c].kind \notin Responses
        BY DEF frame, Responses
      <3>3. at(Responses)' = at(Responses)
        BY <3>1, <3>2, OtherAt
      <3>4. at({"unsteered"})' = at({"unsteered"})
        BY <3>1, <3>2, OtherAt DEF Responses
      <3> QED
        BY <3>3, <3>4
    <2> QED
      BY <1>8, <2>1 DEF RunUnasked, ChildOnly, rpcVars, steerVars
  <1>9. CASE HandleFrame
    <2> DEFINE f == Head(pipe)
    <2>1. /\ \A k : k \in at(Responses)' <=> k + 1 \in at(Responses) /\ k \in Nat \ {0}
          /\ 1 \in at(Responses) <=> f.kind \in Responses
          /\ \A k : k \in at({"unsteered"})' <=> k + 1 \in at({"unsteered"}) /\ k \in Nat \ {0}
          /\ 1 \in at({"unsteered"}) <=> f.kind = "unsteered"
          /\ at(Responses) \subseteq 1..Len(pipe) /\ Len(pipe) \in Nat
      BY <1>9, TailAt DEF HandleFrame
    <2>2. transport = "open" /\ UNCHANGED <<transport, applied>> /\ (failed => failed')
      BY <1>9 DEF HandleFrame, rpcVars
    <2>3. \A j, k \in at(Responses)' : j = k
      <3> SUFFICES ASSUME NEW j \in at(Responses)', NEW k \in at(Responses)' PROVE j = k
        OBVIOUS
      <3>1. j \in Nat /\ k \in Nat /\ j + 1 \in at(Responses) /\ k + 1 \in at(Responses)
        BY <2>1
      <3>2. j + 1 = k + 1
        BY <3>1
      <3> QED
        BY <3>1, <3>2
    <2>4. f.kind \in Responses => at(Responses)' = {}
      BY <2>1
    <2>5. CASE f.kind = "steered"
      <3>1. steering' = NoInput /\ ledger' = ledger \cup {steering}
        BY <1>9, <2>5 DEF HandleFrame
      <3> QED
        BY <2>2, <2>4, <2>5, <3>1 DEF Responses
    <2>6. CASE f.kind = "unsteered"
      <3>1. steering' = NoInput /\ UNCHANGED ledger
        BY <1>9, <2>6 DEF HandleFrame
      <3> QED
        BY <2>1, <2>2, <2>4, <2>6, <3>1 DEF Responses
    <2>7. CASE f.kind \in {"gate", "ack", "nack", "settled", "unasked", "dialog", "late"}
      <3>1. UNCHANGED <<steering, ledger>>
        BY <1>9, <2>7 DEF HandleFrame
      <3>2. at(Responses) = {} => at(Responses)' = {}
        BY <2>1
      <3>3. at({"unsteered"}) = {} => at({"unsteered"})' = {}
        BY <2>1
      <3> QED
        BY <2>2, <2>3, <3>1, <3>2, <3>3
    <2> QED
      BY <1>9, <2>5, <2>6, <2>7 DEF HandleFrame
  <1>10. CASE ReaderEnds
    <2>1. at(Responses)' = at(Responses)
      BY <1>10, SameAt DEF ReaderEnds
    <2> QED
      BY <1>10, <2>1 DEF ReaderEnds, TransportClosed
  <1>11. CASE armContinuation
    <2>1. at(Responses)' = at(Responses) /\ at({"unsteered"})' = at({"unsteered"})
      BY <1>11, SameAt DEF armContinuation, piVars, childVars, rpcVars, steerVars, piBounds
    <2> QED
      BY <1>11, <2>1 DEF armContinuation, piVars, childVars, rpcVars, steerVars, piBounds
  <1>12. CASE TurnOutcome
    <2>1. at(Responses)' = at(Responses) /\ at({"unsteered"})' = at({"unsteered"})
      BY <1>12, SameAt DEF TurnOutcome, piVars, childVars, rpcVars, steerVars, piBounds
    <2> QED
      BY <1>12, <2>1 DEF TurnOutcome, piVars, childVars, rpcVars, steerVars, piBounds
  <1>13. CASE CompleteTurn
    <2>1. at(Responses)' = at(Responses) /\ at({"unsteered"})' = at({"unsteered"})
      BY <1>13, SameAt DEF CompleteTurn, piVars, childVars, rpcVars, steerVars, piBounds
    <2> QED
      BY <1>13, <2>1 DEF CompleteTurn, piVars, childVars, rpcVars, steerVars, piBounds
  <1>14. CASE Release
    <2>1. at(Responses)' = at(Responses) /\ at({"unsteered"})' = at({"unsteered"})
      BY <1>14, SameAt DEF Release
    <2> QED
      BY <1>14, <2>1 DEF Release, TransportClosed, rpcVars
  <1>15. CASE PromptTimesOut
    <2>1. at(Responses)' = at(Responses) /\ at({"unsteered"})' = at({"unsteered"})
      BY <1>15, SameAt DEF PromptTimesOut, Settle, piVars, childVars, rpcVars, steerVars, piBounds
    <2> QED
      BY <1>15, <2>1 DEF PromptTimesOut, Settle, piVars, childVars, rpcVars, steerVars, piBounds
  <1>16. CASE Interrupt
    <2>1. at(Responses)' = at(Responses) /\ at({"unsteered"})' = at({"unsteered"})
      BY <1>16, SameAt DEF Interrupt, piVars, childVars, rpcVars, steerVars, piBounds
    <2> QED
      BY <1>16, <2>1 DEF Interrupt, piVars, childVars, rpcVars, steerVars, piBounds
  <1>17. CASE Deadline
    <2>1. at(Responses)' = at(Responses) /\ at({"unsteered"})' = at({"unsteered"})
      BY <1>17, SameAt DEF Deadline, retired, consumable, piVars, childVars, rpcVars, steerVars, piBounds
    <2> QED
      BY <1>17, <2>1 DEF Deadline, retired, consumable, piVars, childVars, rpcVars, steerVars, piBounds
  <1>18. ASSUME NEW i \in Inputs, Steer(i) PROVE SteerInv'
    <2>1. /\ steering = NoInput /\ i \notin ledger /\ transport = "open" /\ ~ failed
          /\ at(Responses) = {} /\ steering' = i /\ UNCHANGED <<transport, failed, ledger>>
      BY <1>18 DEF Steer, admitted, rpcVars
    <2>2. applied[i] = 0 /\ \A j \in Inputs : applied[j] > 0 => j \in ledger
      BY <2>1
    <2>3. CASE pipe' = pipe
      <3>1. at(Responses)' = {} /\ at({"unsteered"})' = {}
        BY <2>1, <2>3, SameAt DEF at, Responses
      <3> QED
        BY <1>18, <2>1, <2>2, <3>1 DEF Steer, twice
    <2>4. CASE pipe' = Append(pipe, frame("steered"))
      <3>1. frame("steered").kind = "steered"
        BY DEF frame
      <3>2. at(Responses)' \subseteq {Len(pipe) + 1}
        BY <2>1, <2>4, AppendAt
      <3>3. at({"unsteered"})' = at({"unsteered"})
        BY <2>4, <3>1, OtherAt
      <3>4. at({"unsteered"}) = {}
        BY <2>1 DEF at, Responses
      <3> QED
        BY <1>18, <2>1, <2>2, <3>2, <3>3, <3>4 DEF Steer, twice
    <2>5. CASE pipe' = Append(pipe, frame("unsteered")) /\ UNCHANGED applied
      <3>1. at(Responses)' \subseteq {Len(pipe) + 1}
        BY <2>1, <2>5, AppendAt
      <3> QED
        BY <2>1, <2>2, <2>5, <3>1
    <2> QED
      BY <1>18, <2>3, <2>4, <2>5 DEF Steer, says
  <1>19. CASE SteerTimesOut
    <2>1. at(Responses)' = {}
      BY <1>19, LateAt DEF Responses
    <2> QED
      BY <1>19, <2>1 DEF SteerTimesOut, rpcVars
  <1>20. CASE RuntimeRestart
    <2>1. at(Responses)' = {}
      BY <1>20, EmptyAt DEF RuntimeRestart
    <2> QED
      BY <1>20, <2>1 DEF RuntimeRestart
  <1>21. CASE UNCHANGED piVars
    BY <1>21, SameAt DEF piVars, childVars, rpcVars, steerVars, piBounds
  <1> QED
    BY <1>1, <1>2, <1>3, <1>4, <1>5, <1>6, <1>7, <1>8, <1>9, <1>10, <1>11, <1>12, <1>13, <1>14, <1>15, <1>16, <1>17, <1>18, <1>19, <1>20, <1>21, SameAt DEF PiNext, ChildStep, StrategyStep

LEMMA GrantStep ==
  ASSUME PiTypeOK, GrantInv, ApprovedRunsOnce, [PiNext]_piVars
  PROVE  (GrantInv /\ ApprovedRunsOnce)'
  <1> USE PiNumbers, PiNames DEF PiTypeOK, GrantInv, ApprovedRunsOnce, NoGate
  <1>1. CASE Message
    BY <1>1 DEF Message, PromptLive, PromptNew, Prompted, retired, consumable, piVars, childVars, rpcVars, steerVars, piBounds
  <1>2. ASSUME NEW c \in Calls, NEW decision \in {"allow", "deny"}, Confirm(c, decision) PROVE (GrantInv /\ ApprovedRunsOnce)'
    BY <1>2 DEF Confirm, consumable, answerOf, piVars, childVars, rpcVars, steerVars, piBounds
  <1>3. CASE OpenDialog
    BY <1>3 DEF OpenDialog, says, ChildOnly, piVars, childVars, rpcVars, steerVars, piBounds
  <1>4. CASE AgentSettles
    BY <1>4 DEF AgentSettles, says, ChildOnly, piVars, childVars, rpcVars, steerVars, piBounds
  <1>5. CASE ChildDies
    BY <1>5 DEF ChildDies, ChildOnly, piVars, childVars, rpcVars, steerVars, piBounds
  <1>6. ASSUME NEW c \in Calls, AskGate(c) PROVE (GrantInv /\ ApprovedRunsOnce)'
    BY <1>6 DEF AskGate, says, ChildOnly, piVars, childVars, rpcVars, steerVars, piBounds
  <1>7. ASSUME NEW c \in Calls, RunGranted(c) PROVE (GrantInv /\ ApprovedRunsOnce)'
    BY <1>7 DEF RunGranted, twice, ChildOnly, piVars, childVars, rpcVars, steerVars, piBounds
  <1>8. ASSUME NEW c \in Calls, RunUnasked(c) PROVE (GrantInv /\ ApprovedRunsOnce)'
    BY <1>8 DEF RunUnasked, says, ChildOnly, piVars, childVars, rpcVars, steerVars, piBounds
  <1>9. CASE HandleFrame
    BY <1>9 DEF HandleFrame, HandleGate, opens, answerOf, Settle, lostEnds, piVars, childVars, rpcVars, steerVars, piBounds
  <1>10. CASE ReaderEnds
    BY <1>10 DEF ReaderEnds, TransportClosed, Settle, retired, consumable, piVars, childVars, rpcVars, steerVars, piBounds
  <1>11. CASE armContinuation
    BY <1>11 DEF armContinuation, piVars, childVars, rpcVars, steerVars, piBounds
  <1>12. CASE TurnOutcome
    BY <1>12 DEF TurnOutcome, piVars, childVars, rpcVars, steerVars, piBounds
  <1>13. CASE CompleteTurn
    BY <1>13 DEF CompleteTurn, piVars, childVars, rpcVars, steerVars, piBounds
  <1>14. CASE Release
    BY <1>14 DEF Release, TransportClosed, Settle, retired, consumable, piVars, childVars, rpcVars, steerVars, piBounds
  <1>15. CASE PromptTimesOut
    BY <1>15 DEF PromptTimesOut, Settle, piVars, childVars, rpcVars, steerVars, piBounds
  <1>16. CASE Interrupt
    BY <1>16 DEF Interrupt, piVars, childVars, rpcVars, steerVars, piBounds
  <1>17. CASE Deadline
    BY <1>17 DEF Deadline, retired, consumable, piVars, childVars, rpcVars, steerVars, piBounds
  <1>18. ASSUME NEW i \in Inputs, Steer(i) PROVE (GrantInv /\ ApprovedRunsOnce)'
    BY <1>18 DEF Steer, admitted, twice, says, piVars, childVars, rpcVars, steerVars, piBounds
  <1>19. CASE SteerTimesOut
    BY <1>19 DEF SteerTimesOut, piVars, childVars, rpcVars, steerVars, piBounds
  <1>20. CASE RuntimeRestart
    BY <1>20 DEF RuntimeRestart, piVars, childVars, rpcVars, steerVars, piBounds
  <1>21. CASE UNCHANGED piVars
    BY <1>21 DEF piVars, childVars, rpcVars, steerVars, piBounds
  <1> QED
    BY <1>1, <1>2, <1>3, <1>4, <1>5, <1>6, <1>7, <1>8, <1>9, <1>10, <1>11, <1>12, <1>13, <1>14, <1>15, <1>16, <1>17, <1>18, <1>19, <1>20, <1>21 DEF PiNext, ChildStep, StrategyStep

LEMMA GateStep ==
  ASSUME PiTypeOK, GateInv, [PiNext]_piVars
  PROVE  GateInv'
  <1> USE PiNumbers, PiNames DEF PiTypeOK, GateInv, NoGate
  <1>1. CASE Message
    BY <1>1 DEF Message, PromptLive, PromptNew, Prompted, retired, consumable, piVars, childVars, rpcVars, steerVars, piBounds
  <1>2. ASSUME NEW c \in Calls, NEW decision \in {"allow", "deny"}, Confirm(c, decision) PROVE GateInv'
    BY <1>2 DEF Confirm, consumable, answerOf, piVars, childVars, rpcVars, steerVars, piBounds
  <1>3. CASE OpenDialog
    BY <1>3 DEF OpenDialog, says, ChildOnly, piVars, childVars, rpcVars, steerVars, piBounds
  <1>4. CASE AgentSettles
    BY <1>4 DEF AgentSettles, says, ChildOnly, piVars, childVars, rpcVars, steerVars, piBounds
  <1>5. CASE ChildDies
    BY <1>5 DEF ChildDies, ChildOnly, piVars, childVars, rpcVars, steerVars, piBounds
  <1>6. ASSUME NEW c \in Calls, AskGate(c) PROVE GateInv'
    BY <1>6 DEF AskGate, says, ChildOnly, piVars, childVars, rpcVars, steerVars, piBounds
  <1>7. ASSUME NEW c \in Calls, RunGranted(c) PROVE GateInv'
    BY <1>7 DEF RunGranted, twice, ChildOnly, piVars, childVars, rpcVars, steerVars, piBounds
  <1>8. ASSUME NEW c \in Calls, RunUnasked(c) PROVE GateInv'
    BY <1>8 DEF RunUnasked, says, ChildOnly, piVars, childVars, rpcVars, steerVars, piBounds
  <1>9. CASE HandleFrame
    BY <1>9 DEF HandleFrame, HandleGate, opens, answerOf, Settle, lostEnds, piVars, childVars, rpcVars, steerVars, piBounds
  <1>10. CASE ReaderEnds
    BY <1>10 DEF ReaderEnds, TransportClosed, Settle, retired, consumable, piVars, childVars, rpcVars, steerVars, piBounds
  <1>11. CASE armContinuation
    BY <1>11 DEF armContinuation, piVars, childVars, rpcVars, steerVars, piBounds
  <1>12. CASE TurnOutcome
    BY <1>12 DEF TurnOutcome, piVars, childVars, rpcVars, steerVars, piBounds
  <1>13. CASE CompleteTurn
    BY <1>13 DEF CompleteTurn, piVars, childVars, rpcVars, steerVars, piBounds
  <1>14. CASE Release
    BY <1>14 DEF Release, TransportClosed, Settle, retired, consumable, piVars, childVars, rpcVars, steerVars, piBounds
  <1>15. CASE PromptTimesOut
    BY <1>15 DEF PromptTimesOut, Settle, piVars, childVars, rpcVars, steerVars, piBounds
  <1>16. CASE Interrupt
    BY <1>16 DEF Interrupt, piVars, childVars, rpcVars, steerVars, piBounds
  <1>17. CASE Deadline
    BY <1>17 DEF Deadline, retired, consumable, piVars, childVars, rpcVars, steerVars, piBounds
  <1>18. ASSUME NEW i \in Inputs, Steer(i) PROVE GateInv'
    BY <1>18 DEF Steer, admitted, twice, says, piVars, childVars, rpcVars, steerVars, piBounds
  <1>19. CASE SteerTimesOut
    BY <1>19 DEF SteerTimesOut, piVars, childVars, rpcVars, steerVars, piBounds
  <1>20. CASE RuntimeRestart
    BY <1>20 DEF RuntimeRestart, piVars, childVars, rpcVars, steerVars, piBounds
  <1>21. CASE UNCHANGED piVars
    BY <1>21 DEF piVars, childVars, rpcVars, steerVars, piBounds
  <1> QED
    BY <1>1, <1>2, <1>3, <1>4, <1>5, <1>6, <1>7, <1>8, <1>9, <1>10, <1>11, <1>12, <1>13, <1>14, <1>15, <1>16, <1>17, <1>18, <1>19, <1>20, <1>21 DEF PiNext, ChildStep, StrategyStep

LEMMA PipesStep ==
  ASSUME PiTypeOK, PipesInv, [PiNext]_piVars
  PROVE  PipesInv'
  <1> USE PiNumbers, PiNames DEF PiTypeOK, PipesInv, Running, Alive
  <1>1. CASE Message
    BY <1>1 DEF Message, PromptLive, PromptNew, Prompted, retired, consumable, piVars, childVars, rpcVars, steerVars, piBounds
  <1>2. ASSUME NEW c \in Calls, NEW decision \in {"allow", "deny"}, Confirm(c, decision) PROVE PipesInv'
    BY <1>2 DEF Confirm, consumable, answerOf, piVars, childVars, rpcVars, steerVars, piBounds
  <1>3. CASE OpenDialog
    BY <1>3 DEF OpenDialog, says, ChildOnly, piVars, childVars, rpcVars, steerVars, piBounds
  <1>4. CASE AgentSettles
    BY <1>4 DEF AgentSettles, says, ChildOnly, piVars, childVars, rpcVars, steerVars, piBounds
  <1>5. CASE ChildDies
    BY <1>5 DEF ChildDies, ChildOnly, piVars, childVars, rpcVars, steerVars, piBounds
  <1>6. ASSUME NEW c \in Calls, AskGate(c) PROVE PipesInv'
    BY <1>6 DEF AskGate, says, ChildOnly, piVars, childVars, rpcVars, steerVars, piBounds
  <1>7. ASSUME NEW c \in Calls, RunGranted(c) PROVE PipesInv'
    BY <1>7 DEF RunGranted, twice, ChildOnly, piVars, childVars, rpcVars, steerVars, piBounds
  <1>8. ASSUME NEW c \in Calls, RunUnasked(c) PROVE PipesInv'
    BY <1>8 DEF RunUnasked, says, ChildOnly, piVars, childVars, rpcVars, steerVars, piBounds
  <1>9. CASE HandleFrame
    BY <1>9 DEF HandleFrame, HandleGate, opens, answerOf, Settle, lostEnds, piVars, childVars, rpcVars, steerVars, piBounds
  <1>10. CASE ReaderEnds
    BY <1>10 DEF ReaderEnds, TransportClosed, Settle, retired, consumable, piVars, childVars, rpcVars, steerVars, piBounds
  <1>11. CASE armContinuation
    BY <1>11 DEF armContinuation, piVars, childVars, rpcVars, steerVars, piBounds
  <1>12. CASE TurnOutcome
    BY <1>12 DEF TurnOutcome, piVars, childVars, rpcVars, steerVars, piBounds
  <1>13. CASE CompleteTurn
    BY <1>13 DEF CompleteTurn, piVars, childVars, rpcVars, steerVars, piBounds
  <1>14. CASE Release
    BY <1>14 DEF Release, TransportClosed, Settle, retired, consumable, piVars, childVars, rpcVars, steerVars, piBounds
  <1>15. CASE PromptTimesOut
    BY <1>15 DEF PromptTimesOut, Settle, piVars, childVars, rpcVars, steerVars, piBounds
  <1>16. CASE Interrupt
    BY <1>16 DEF Interrupt, piVars, childVars, rpcVars, steerVars, piBounds
  <1>17. CASE Deadline
    BY <1>17 DEF Deadline, retired, consumable, piVars, childVars, rpcVars, steerVars, piBounds
  <1>18. ASSUME NEW i \in Inputs, Steer(i) PROVE PipesInv'
    BY <1>18 DEF Steer, admitted, twice, says, piVars, childVars, rpcVars, steerVars, piBounds
  <1>19. CASE SteerTimesOut
    BY <1>19 DEF SteerTimesOut, piVars, childVars, rpcVars, steerVars, piBounds
  <1>20. CASE RuntimeRestart
    BY <1>20 DEF RuntimeRestart, piVars, childVars, rpcVars, steerVars, piBounds
  <1>21. CASE UNCHANGED piVars
    BY <1>21 DEF piVars, childVars, rpcVars, steerVars, piBounds
  <1> QED
    BY <1>1, <1>2, <1>3, <1>4, <1>5, <1>6, <1>7, <1>8, <1>9, <1>10, <1>11, <1>12, <1>13, <1>14, <1>15, <1>16, <1>17, <1>18, <1>19, <1>20, <1>21 DEF PiNext, ChildStep, StrategyStep

-------------------------------------------------------------------------------
THEOREM PiInvariance == PiSpec => []PiInv
  <1>1. PiInit => PiInv
    <2> SUFFICES ASSUME PiInit PROVE PiInv
      OBVIOUS
    <2>1. FlagsOK /\ PipeOK /\ DataOK
      <3>1. FlagsOK
        BY DEF PiInit, FlagsOK
      <3>2. PipeOK
        BY DEF PiInit, PipeOK
      <3>3. 0 \in 0..MaxTurns /\ 0 \in 0..MaxRestarts /\ 0 \in 0..2
        BY PiNumbers
      <3>4. DataOK
        BY <3>3 DEF PiInit, DataOK, Turns
      <3> QED
        BY <3>1, <3>2, <3>4
    <2>2. GateOK
      BY NoGateOK DEF PiInit, GateOK
    <2>3. GrantInv /\ ApprovedRunsOnce /\ GateInv
      BY DEF PiInit, GrantInv, ApprovedRunsOnce, GateInv
    <2>4. \A kinds : at(kinds) = {}
      BY DEF PiInit, at
    <2>5. PipesInv /\ SettledInv /\ UnaskedInv /\ SteerInv
      BY <2>4 DEF PiInit, PipesInv, SettledInv, UnaskedInv, SteerInv, Running, Alive
    <2> QED
      BY <2>1, <2>2, <2>3, <2>5, TypeParts DEF PiInv
  <1>2. PiInv /\ [PiNext]_piVars => PiInv'
    <2> SUFFICES ASSUME PiInv, [PiNext]_piVars PROVE PiInv'
      OBVIOUS
    <2>1. PiTypeOK /\ FlagsOK /\ PipeOK /\ GateOK /\ DataOK
      BY TypeParts DEF PiInv
    <2>2. FlagsOK' /\ PipeOK' /\ GateOK' /\ DataOK'
      BY <2>1, FlagsStep, PipeStep, GateOKStep, DataStep DEF PiInv
    <2>3. PiTypeOK'
      BY <2>2 DEF PiTypeOK, FlagsOK, PipeOK, GateOK, DataOK
    <2>4. GrantInv' /\ ApprovedRunsOnce' /\ GateInv' /\ PipesInv'
      BY <2>1, GrantStep, GateStep, PipesStep DEF PiInv
    <2>5. SettledInv' /\ UnaskedInv' /\ SteerInv'
      BY <2>1, SettledStep, UnaskedStep, SteerStep DEF PiInv
    <2> QED
      BY <2>3, <2>4, <2>5 DEF PiInv
  <1> QED
    BY <1>1, <1>2, PTL DEF PiSpec

\* Every variable keeps its type.
THEOREM PiTyped == PiSpec => []PiTypeOK
  <1>1. PiInv => PiTypeOK
    BY DEF PiInv
  <1> QED
    BY <1>1, PiInvariance, PTL

\* A gated call that was asked about runs once, and only with an allowed record.
THEOREM PiApproved == PiSpec => []ApprovedRunsOnce
  <1>1. PiInv => ApprovedRunsOnce
    BY DEF PiInv
  <1> QED
    BY <1>1, PiInvariance, PTL

\* Until a restart, a pending record has a gate that can be answered.
THEOREM PiPending == PiSpec => []PendingHasGate
  <1>1. PiInv => PendingHasGate
    BY DEF PiInv, GateInv, PendingHasGate
  <1> QED
    BY <1>1, PiInvariance, PTL

\* A steer is applied at most once in a turn.
THEOREM PiSteered == PiSpec => []SteeredOnce
  <1>1. PiInv /\ SteeredOnce /\ [PiNext]_piVars => SteeredOnce'
    <2> SUFFICES ASSUME PiInv, SteeredOnce, [PiNext]_piVars, NEW i \in Inputs
                 PROVE  applied'[i] <= 1
      BY DEF SteeredOnce
    <2>1. applied[i] \in 0..2 /\ applied[i] <= 1
      BY DEF PiInv, PiTypeOK, SteeredOnce
    <2>2. ASSUME NEW j \in Inputs, Steer(j) PROVE applied'[i] <= 1
      <3>1. transport = "open" /\ steering = NoInput /\ j \notin ledger /\ ~ failed
        BY <2>2 DEF Steer, admitted, Alive
      <3>2. applied[j] = 0
        BY <3>1, PiNames DEF PiInv, PiTypeOK, SteerInv, Alive
      <3>3. applied' = applied \/ applied' = [applied EXCEPT ![j] = twice(@)]
        BY <2>2 DEF Steer
      <3> QED
        BY <2>1, <3>2, <3>3 DEF PiInv, PiTypeOK, twice
    <2>3. CASE applied' = applied \/ applied' = [k \in Inputs |-> 0]
      BY <2>1, <2>3
    <2>4. ASSUME PiNext, \A j \in Inputs : ~ Steer(j)
          PROVE  applied' = applied \/ applied' = [k \in Inputs |-> 0]
      <3>1. CASE Message
        BY <3>1 DEF Message, PromptLive, PromptNew, Prompted, steerVars
      <3>2. CASE ChildStep
        BY <3>2 DEF ChildStep, OpenDialog, AgentSettles, ChildDies, AskGate, RunGranted, RunUnasked,
           ChildOnly, steerVars
      <3>3. CASE StrategyStep
        BY <3>3 DEF StrategyStep, armContinuation, TurnOutcome, CompleteTurn, Release, steerVars
      <3>4. CASE HandleFrame \/ ReaderEnds \/ PromptTimesOut \/ Interrupt \/ Deadline \/ SteerTimesOut \/ RuntimeRestart
        BY <3>4 DEF HandleFrame, ReaderEnds, PromptTimesOut, Interrupt, Deadline, SteerTimesOut,
           RuntimeRestart, steerVars
      <3>5. ASSUME NEW c \in Calls, NEW decision \in {"allow", "deny"}, Confirm(c, decision)
            PROVE  applied' = applied
        BY <3>5 DEF Confirm, steerVars
      <3> QED
        BY <2>4, <3>1, <3>2, <3>3, <3>4, <3>5 DEF PiNext
    <2> QED
      BY <2>2, <2>3, <2>4 DEF piVars, steerVars
  <1>2. PiInit => SteeredOnce
    BY DEF PiInit, SteeredOnce
  <1> QED
    BY <1>1, <1>2, PiInvariance, PTL DEF PiSpec

\* A turn in which a gated call ran unasked is never reported complete.
THEOREM PiUnasked == PiSpec => UnaskedNeverCompletes
  <1>1. PiInv /\ turn = "draining" => ~ unasked
    BY DEF PiInv, SettledInv, UnaskedInv
  <1>2. PiInv => [turn = "draining" /\ turn' = "rest" => ~ unasked]_piVars
    BY <1>1
  <1> QED
    BY <1>2, PiInvariance, PTL DEF UnaskedNeverCompletes

-------------------------------------------------------------------------------
(* The lease. *)

\* While nobody is late and no live lease was renamed away, whoever holds the lease
\* is alone, is named by the file, and wrote it at most `beat` ticks ago.
Exclusion ==
  stalled = {} /\ ~ misled =>
    \A o \in holders : lease.owner = o /\ lease.left + beat[o] >= StaleAfter /\ holders = {o}

LeaseInv == LeaseTypeOK /\ Exclusion

LEMMA LeaseTypeStep ==
  ASSUME LeaseTypeOK, [LeaseNext]_leaseVars
  PROVE  LeaseTypeOK'
  <1> USE LeaseNumbers, LeaseNames DEF LeaseTypeOK, OwnerStates, NoLease, MaxAttempts
  <1>1. ASSUME NEW o \in Owners, Acquire(o) PROVE LeaseTypeOK'
    BY <1>1 DEF Acquire, Goes, leaseVars
  <1>2. ASSUME NEW o \in Owners, OpenLease(o) PROVE LeaseTypeOK'
    BY <1>2 DEF OpenLease, Goes, Written, creatable, leaseVars
  <1>3. ASSUME NEW o \in Owners, ReadLease(o) PROVE LeaseTypeOK'
    BY <1>3 DEF ReadLease, Goes, isStale, leaseVars
  <1>4. ASSUME NEW o \in Owners, RenameStale(o) PROVE LeaseTypeOK'
    BY <1>4 DEF RenameStale, Goes, leaseVars
  <1>5. ASSUME NEW o \in Owners, Heartbeat(o) PROVE LeaseTypeOK'
    BY <1>5 DEF Heartbeat, Written, leaseVars
  <1>6. ASSUME NEW o \in Owners, ReleaseLease(o) PROVE LeaseTypeOK'
    BY <1>6 DEF ReleaseLease, Goes, leaseVars
  <1>7. ASSUME NEW o \in Owners, RemoveLease(o) PROVE LeaseTypeOK'
    BY <1>7 DEF RemoveLease, Goes, leaseVars
  <1>8. ASSUME NEW o \in Owners, suspendHeartbeat(o) PROVE LeaseTypeOK'
    BY <1>8 DEF suspendHeartbeat, Goes, leaseVars
  <1>9. ASSUME NEW o \in Owners, Stall(o) PROVE LeaseTypeOK'
    BY <1>9 DEF Stall, leaseVars
  <1>10. ASSUME NEW o \in Owners, RuntimeDies(o) PROVE LeaseTypeOK'
    BY <1>10 DEF RuntimeDies, Goes, leaseVars
  <1>11. CASE LeaseTick
    BY <1>11 DEF LeaseTick, late, holders, leaseVars
  <1>12. CASE UNCHANGED leaseVars
    BY <1>12 DEF leaseVars
  <1> QED
    BY <1>1, <1>2, <1>3, <1>4, <1>5, <1>6, <1>7, <1>8, <1>9, <1>10, <1>11, <1>12 DEF LeaseNext, Acquiring

LEMMA ExclusionStep ==
  ASSUME LeaseTypeOK, Exclusion, [LeaseNext]_leaseVars
  PROVE  Exclusion'
  <1> USE LeaseNumbers, LeaseNames DEF LeaseTypeOK, Exclusion, NoLease, holders, OwnerStates
  <1>1. ASSUME NEW o \in Owners, Acquire(o) PROVE Exclusion'
    BY <1>1 DEF Acquire, Goes, leaseVars
  <1>2. ASSUME NEW o \in Owners, OpenLease(o) PROVE Exclusion'
    BY <1>2 DEF OpenLease, Goes, Written, creatable, leaseVars
  <1>3. ASSUME NEW o \in Owners, ReadLease(o) PROVE Exclusion'
    BY <1>3 DEF ReadLease, Goes, isStale, leaseVars
  <1>4. ASSUME NEW o \in Owners, RenameStale(o) PROVE Exclusion'
    <2> SUFFICES ASSUME stalled = {}, ~ misled' PROVE holders' = {}
      BY <1>4 DEF RenameStale
    <2>1. \A h \in holders : lease.owner = h /\ lease.left + beat[h] >= StaleAfter /\ beat[h] <= BeatEvery
      BY <1>4 DEF RenameStale
    <2>2. lease = NoLease \/ lease.left = 0
      <3>1. lease = NoLease \/ ~ (lease.left > 0)
        BY <1>4, Zenon DEF RenameStale
      <3> QED
        BY <3>1
    <2>3. holders = {}
      BY <2>1, <2>2
    <2>4. owner' = [owner EXCEPT ![o] = "opening"] \/ owner' = [owner EXCEPT ![o] = "idle"]
      BY <1>4 DEF RenameStale, Goes
    <2> QED
      BY <2>3, <2>4
  <1>5. ASSUME NEW o \in Owners, Heartbeat(o) PROVE Exclusion'
    BY <1>5 DEF Heartbeat, Written, leaseVars
  <1>6. ASSUME NEW o \in Owners, ReleaseLease(o) PROVE Exclusion'
    BY <1>6 DEF ReleaseLease, Goes, leaseVars
  <1>7. ASSUME NEW o \in Owners, RemoveLease(o) PROVE Exclusion'
    BY <1>7 DEF RemoveLease, Goes, leaseVars
  <1>8. ASSUME NEW o \in Owners, suspendHeartbeat(o) PROVE Exclusion'
    BY <1>8 DEF suspendHeartbeat, Goes, leaseVars
  <1>9. ASSUME NEW o \in Owners, Stall(o) PROVE Exclusion'
    BY <1>9 DEF Stall, leaseVars
  <1>10. ASSUME NEW o \in Owners, RuntimeDies(o) PROVE Exclusion'
    BY <1>10 DEF RuntimeDies, Goes, leaseVars
  <1>11. CASE LeaseTick
    BY <1>11 DEF LeaseTick, late, holders, leaseVars
  <1>12. CASE UNCHANGED leaseVars
    BY <1>12 DEF leaseVars
  <1> QED
    BY <1>1, <1>2, <1>3, <1>4, <1>5, <1>6, <1>7, <1>8, <1>9, <1>10, <1>11, <1>12 DEF LeaseNext, Acquiring

THEOREM LeaseInvariance == LeaseSpec => []LeaseInv
  <1>1. LeaseInit => LeaseInv
    <2> SUFFICES ASSUME LeaseInit PROVE LeaseInv
      OBVIOUS
    <2>1. LeaseTypeOK
      <3>1. 0 \in 0..StaleAfter /\ 0 \in 0..MaxAttempts /\ 0 \in 0..BeatEvery /\ 0 \in 0..MaxDeaths
        BY LeaseNumbers DEF MaxAttempts
      <3> QED
        BY <3>1 DEF LeaseInit, LeaseTypeOK, NoLease, OwnerStates
    <2>2. holders = {}
      BY DEF LeaseInit, holders
    <2> QED
      BY <2>1, <2>2 DEF LeaseInv, Exclusion
  <1>2. LeaseInv /\ [LeaseNext]_leaseVars => LeaseInv'
    BY LeaseTypeStep, ExclusionStep DEF LeaseInv
  <1> QED
    BY <1>1, <1>2, PTL DEF LeaseSpec

\* Every variable keeps its type.
THEOREM LeaseTyped == LeaseSpec => []LeaseTypeOK
  <1>1. LeaseInv => LeaseTypeOK
    BY DEF LeaseInv
  <1> QED
    BY <1>1, LeaseInvariance, PTL

\* Exclusion is lost only by an owner that stalls or by a recovery that renames away
\* another lease than the stale one it read.
THEOREM LeaseExcludes == LeaseSpec => []LeaseExclusive
  <1>1. LeaseInv => LeaseExclusive
    <2> SUFFICES ASSUME LeaseInv, stalled = {}, ~ misled, NEW o \in holders
                 PROVE  lease.owner = o /\ lease.left > 0 /\ holders = {o}
      BY DEF LeaseExclusive
    <2>1. lease.owner = o /\ lease.left + beat[o] >= StaleAfter /\ holders = {o}
      BY DEF LeaseInv, Exclusion
    <2>2. beat[o] <= BeatEvery /\ beat[o] \in Nat /\ lease.left \in Nat
      BY LeaseNumbers DEF LeaseInv, LeaseTypeOK, holders
    <2> QED
      BY <2>1, <2>2, LeaseNumbers
  <1> QED
    BY <1>1, LeaseInvariance, PTL
===============================================================================
