--------------------------- MODULE SessionResources ---------------------------
(***************************************************************************)
(* What one session holds outside the database: the sandbox bound to it by *)
(* SandboxLifecycle, and its MCP connections.  Turns provision, connect and *)
(* use them; a failed turn, an archive and a delete release them, each in  *)
(* steps with awaits between them: the engine's children, the sandbox, the *)
(* connections.                                                            *)
(*                                                                         *)
(* A provisioned sandbox has a handle of its own (its egress proxy) and the *)
(* work directory or container of its session, which every handle of the   *)
(* session names.  Turns of a session run one after the other, so that at  *)
(* most one provisions.                                                    *)
(***************************************************************************)
EXTENDS McpConnections

CONSTANTS
  Boxes,       \* sandbox handles, numbers
  NoBox,
  MaxMessages  \* bound on accepted messages

ASSUME ResourceNames ==
  /\ NoBox \notin Boxes /\ Boxes \subseteq Nat
  /\ Closers = {"turn", "archive", "delete", "update"}
  /\ MaxMessages \in Nat

VARIABLES
  row,       \* the session's status
  messages,  \* messages accepted
  queue,     \* turns queued behind the one in progress
  turn,      \* where the turn is
  hand,      \* the sandbox of the turn
  tools,     \* the manager the turn's MCP tools delegate to
  bound,     \* SandboxLifecycle.bound
  box,       \* per handle: its state
  workdir,   \* the session's work directory or container exists
  leftover,  \* no sandbox of this process holds it: an earlier process, or a provision
             \* that failed half-way, left it, and no turn has taken it over
  cleaning,  \* per closer: which step of cleanupSession it awaits, and on what
  raced,     \* history: a turn began while the session was being deleted
  unproven   \* history: the engine's children could not be stopped

sessionVars == <<row, messages, queue, turn, hand, tools, bound, box, workdir,
                 leftover, cleaning, raced, unproven>>
resourceVars == <<mcpVars, sessionVars>>

Live == {"idle", "parked", "running"}
Rows == Live \cup {"ended", "expired", "pending", "gone"}
Turns == {"none", "provisioning", "materializing", "discarding", "resolving",
          "connecting", "working", "releasing"}
Stoppable == {"provisioning", "discarding", "resolving", "working"}
AtWork == {"materializing", "resolving", "connecting", "working"}
Rest == [step |-> "none", box |-> NoBox]

\* A process starts: the session is new, or one that an earlier process left, with
\* its directory or without (reconcileOrphans has made a running one idle).
ResourceInit ==
  /\ McpInit
  /\ row \in {"idle", "parked", "ended"} /\ messages = 0 /\ queue = 0
  /\ turn = "none" /\ hand = NoBox /\ tools = NoManager
  /\ bound = NoBox /\ box = [b \in Boxes |-> "unused"]
  /\ workdir \in BOOLEAN /\ leftover = workdir
  /\ cleaning = [k \in Closers |-> Rest]
  /\ raced = FALSE /\ unproven = FALSE

deleting == cleaning["delete"].step # "none"

----------------------------------------------------------------------------
\* sendEvent accepts an event that starts a turn, also while a delete awaits.
Accept ==
  /\ row \in Live /\ messages < MaxMessages
  /\ messages' = messages + 1 /\ queue' = queue + 1
  /\ UNCHANGED <<mcpVars, row, turn, hand, tools, bound, box, workdir, leftover, cleaning,
                 raced, unproven>>

\* runTurn, up to the sandbox: the one that is bound, or a new one.
StartTurn ==
  /\ turn = "none" /\ queue > 0
  /\ queue' = queue - 1
  /\ IF row \in Live
     THEN /\ row' = "running" /\ hand' = bound
          /\ turn' = IF bound = NoBox THEN "provisioning" ELSE "resolving"
          /\ raced' = (raced \/ deleting)
     ELSE UNCHANGED <<row, turn, hand, raced>>
  /\ UNCHANGED <<mcpVars, messages, tools, bound, box, workdir, leftover, cleaning,
                 unproven>>

\* The provider made the container or the directory, or found the directory there.
Provisioned ==
  /\ turn = "provisioning"
  /\ \E b \in Boxes : box[b] = "unused"
  /\ LET b == Min({c \in Boxes : box[c] = "unused"}) IN
       /\ box' = [box EXCEPT ![b] = "up"] /\ hand' = b
  /\ workdir' = TRUE /\ leftover' = FALSE /\ turn' = "materializing"
  /\ UNCHANGED <<mcpVars, row, messages, queue, tools, bound, cleaning, raced, unproven>>

\* Files, repositories and skills are in place: the sandbox is bound.
Materialized ==
  /\ turn = "materializing"
  /\ turn' = "resolving" /\ bound' = hand
  /\ UNCHANGED <<mcpVars, row, messages, queue, hand, tools, box, workdir, leftover,
                 cleaning, raced, unproven>>

\* They are not: the sandbox is cleaned up before the error is thrown.
NotMaterialized ==
  /\ turn = "materializing"
  /\ turn' = "discarding" /\ box' = [box EXCEPT ![hand] = "closing"]
  /\ UNCHANGED <<mcpVars, row, messages, queue, hand, tools, bound, workdir, leftover,
                 cleaning, raced, unproven>>

\* resolveTools: the cached wrappers, or a manager that connects first.
ToolsCached ==
  /\ turn = "resolving" /\ registered # NoManager
  /\ turn' = "working" /\ tools' = cached
  /\ UNCHANGED <<mcpVars, row, messages, queue, hand, bound, box, workdir, leftover,
                 cleaning, raced, unproven>>

ToolsConnect ==
  /\ turn = "resolving" /\ ConnectTurn
  /\ turn' = "connecting"
  /\ UNCHANGED <<row, messages, queue, hand, tools, bound, box, workdir, leftover, cleaning,
                 raced, unproven>>

ToolsConnected ==
  /\ turn = "connecting" /\ (Connected(Turn) \/ NotConnected(Turn))
  /\ turn' = "working" /\ tools' = cached'
  /\ UNCHANGED <<row, messages, queue, hand, bound, box, workdir, leftover, cleaning, raced,
                 unproven>>

----------------------------------------------------------------------------
\* executor.cleanupSession begins: the engine's children are told to stop.
Release(k) == cleaning' = [cleaning EXCEPT ![k] = [Rest EXCEPT !.step = "stopping"]]

noCall == \A p \in Calls : attempt[p] = Idle

\* What a turn that stops leaves of its sandbox: one that could not be materialized
\* is gone by then, a provision that fails may leave the directory behind.
discarded_Kept == UNCHANGED <<box, workdir, leftover>>
discarded ==
  \/ /\ turn = "discarding"
     /\ box' = [box EXCEPT ![hand] = "gone"] /\ workdir' = FALSE /\ leftover' = FALSE
  \/ /\ turn = "provisioning"
     /\ workdir' = TRUE /\ leftover' = TRUE /\ UNCHANGED box
  \/ turn # "discarding" /\ UNCHANGED <<box, workdir, leftover>>

\* The turn is over; an interrupt ends it early, and leaves a reconnecting call behind.
TurnEnds ==
  /\ turn \in Stoppable /\ row = "running"
  /\ row' \in {"idle"} \cup {s \in {"parked"} : turn \in {"resolving", "working"} /\ noCall}
  /\ discarded
  /\ turn' = "none" /\ hand' = NoBox /\ tools' = NoManager
  /\ UNCHANGED <<mcpVars, messages, queue, bound, cleaning, raced, unproven>>

\* The outcomes of an error: a model failure leaves the session idle, another ends it.
failures == IF turn = "discarding" THEN {"ended"} ELSE {"idle", "ended"}

\* The turn fails: the status first, then releaseSandbox, which it awaits.
TurnFails_NotAwaited ==
  /\ turn \in Stoppable /\ row = "running"
  /\ row' \in failures
  /\ discarded
  /\ turn' = "none" /\ hand' = NoBox /\ tools' = NoManager
  /\ Release("turn")
  /\ UNCHANGED <<mcpVars, messages, queue, bound, raced, unproven>>

TurnFails ==
  /\ turn \in Stoppable /\ row = "running"
  /\ row' \in failures
  /\ discarded
  /\ turn' = "releasing" /\ hand' = NoBox /\ tools' = NoManager
  /\ Release("turn")
  /\ UNCHANGED <<mcpVars, messages, queue, bound, raced, unproven>>

\* Pi's child is not proved dead: it keeps the sandbox (cleanup_pending).
TurnPending ==
  /\ turn = "working" /\ row = "running"
  /\ row' = "pending" /\ turn' = "none" /\ hand' = NoBox /\ tools' = NoManager
  /\ UNCHANGED <<mcpVars, messages, queue, bound, box, workdir, leftover, cleaning, raced,
                 unproven>>

\* Its rows are deleted: what it appends violates a foreign key, and so does the
\* session.error about that, so that runTurn never reaches releaseSandbox.
TurnLosesRow ==
  /\ turn \in Stoppable /\ row = "gone"
  /\ discarded
  /\ turn' = "none" /\ hand' = NoBox /\ tools' = NoManager
  /\ UNCHANGED <<mcpVars, row, messages, queue, bound, cleaning, raced, unproven>>

----------------------------------------------------------------------------
Archive ==
  /\ row \in {"idle", "parked"} /\ cleaning["archive"] = Rest
  /\ row' = "ended" /\ Release("archive")
  /\ UNCHANGED <<mcpVars, messages, queue, turn, hand, tools, bound, box, workdir, leftover,
                 raced, unproven>>

\* expireParkedWait ends the session and releases nothing.
ParkedExpires ==
  /\ row = "parked" /\ row' = "expired"
  /\ UNCHANGED <<mcpVars, messages, queue, turn, hand, tools, bound, box, workdir, leftover,
                 cleaning, raced, unproven>>

Delete ==
  /\ row \notin {"running", "gone"} /\ ~ deleting
  /\ Release("delete")
  /\ UNCHANGED <<mcpVars, row, messages, queue, turn, hand, tools, bound, box, workdir,
                 leftover, raced, unproven>>

\* updateSession rebinds the vaults, whose credentials are new to the session, and
\* resets its connections.  It changes the servers of an idle one in the same way.
Update ==
  /\ row \in Live /\ cleaning["update"] = Rest /\ secret < MaxRotations
  /\ secret' = secret + 1 /\ due' = secret + 1
  /\ CloseManager("update")
  /\ cleaning' = [cleaning EXCEPT !["update"].step = "tools"]
  /\ UNCHANGED <<manager, attempt, drops, row, messages, queue, turn, hand, tools, bound, box,
                 workdir, leftover, raced, unproven>>

\* The children are stopped: SandboxLifecycle.cleanup unbinds what is bound.
Stopped(k) ==
  /\ cleaning[k].step = "stopping"
  /\ bound' = NoBox
  /\ cleaning' = [cleaning EXCEPT ![k] = [step |-> "sandbox", box |-> bound]]
  /\ box' = IF bound = NoBox THEN box ELSE [box EXCEPT ![bound] = "closing"]
  /\ UNCHANGED <<mcpVars, row, messages, queue, turn, hand, tools, workdir, leftover, raced,
                 unproven>>

\* A turn that waited for its release is over; a delete removes the rows.
concluded(k) ==
  turn' = IF k = "turn" THEN "none" ELSE turn

\* They are not: releaseSandbox swallows the error, a delete is refused with it.
NotStopped(k) ==
  /\ cleaning[k].step = "stopping"
  /\ cleaning' = [cleaning EXCEPT ![k] = Rest]
  /\ unproven' = TRUE /\ concluded(k)
  /\ UNCHANGED <<mcpVars, row, messages, queue, hand, tools, bound, box, workdir, leftover,
                 raced>>

\* The sandbox is gone, and the directory it names; the connections follow.
SandboxGone(k) ==
  /\ cleaning[k].step = "sandbox"
  /\ IF cleaning[k].box = NoBox THEN UNCHANGED <<box, workdir>>
     ELSE box' = [box EXCEPT ![cleaning[k].box] = "gone"] /\ workdir' = FALSE
  /\ CloseManager(k)
  /\ cleaning' = [cleaning EXCEPT ![k] = [Rest EXCEPT !.step = "tools"]]
  /\ UNCHANGED <<secret, due, manager, attempt, drops, row, messages, queue, turn, hand,
                 tools, bound, leftover, raced, unproven>>

Released(k) ==
  /\ cleaning[k].step = "tools"
  /\ ManagerClosed(k)
  /\ cleaning' = [cleaning EXCEPT ![k] = Rest]
  /\ row' = IF k = "delete" THEN "gone" ELSE row
  /\ concluded(k)
  /\ UNCHANGED <<secret, due, client, registered, cached, attempt, met, drops, messages,
                 queue, hand, tools, bound, box, workdir, leftover, raced, unproven>>

----------------------------------------------------------------------------
ToolStep ==
  /\ \/ turn = "working" /\ \E p \in Calls : Reconnect(p, tools)
     \/ \E p \in Calls : Connected(p) \/ NotConnected(p) \/ Replaced(p)
     \/ \E c \in Clients : Drop(c)
  /\ UNCHANGED sessionVars

RefreshStep ==
  /\ \E r \in Refreshers :
       \/ Rotate(r, row \notin Live) \/ RefreshSession(r) \/ RefreshClosed(r)
       \/ Connected(r) \/ NotConnected(r)
  /\ UNCHANGED sessionVars

ResourceNext ==
  \/ Accept \/ StartTurn \/ Provisioned \/ Materialized \/ NotMaterialized
  \/ ToolsCached \/ ToolsConnect \/ ToolsConnected
  \/ TurnEnds \/ TurnFails \/ TurnPending \/ TurnLosesRow
  \/ Archive \/ ParkedExpires \/ Delete \/ Update
  \/ \E k \in Closers : Stopped(k) \/ NotStopped(k) \/ SandboxGone(k) \/ Released(k)
  \/ ToolStep \/ RefreshStep

ResourceSpec == ResourceInit /\ [][ResourceNext]_resourceVars

----------------------------------------------------------------------------
ResourceTypeOK ==
  /\ McpTypeOK
  /\ row \in Rows /\ messages \in 0..MaxMessages /\ queue \in 0..messages
  /\ turn \in Turns /\ hand \in Boxes \cup {NoBox} /\ tools \in Managers \cup {NoManager}
  /\ bound \in Boxes \cup {NoBox} /\ workdir \in BOOLEAN
  /\ box \in [Boxes -> {"unused", "up", "closing", "gone"}]
  /\ cleaning \in [Closers -> [step : {"none", "stopping", "sandbox", "tools"},
                               box : Boxes \cup {NoBox}]]
  /\ raced \in BOOLEAN /\ unproven \in BOOLEAN /\ leftover \in BOOLEAN

\* What was left behind by a turn that met a delete, by children that would not stop,
\* or in a directory of an earlier process or of a provision that failed half-way.
excused == raced \/ unproven \/ leftover

\* A session that failed, was archived or deleted holds nothing once everybody is
\* done: no sandbox, no directory, no manager (executor.ts, "destroyed via
\* cleanupSession() on terminal states").  One that timed out while it was parked
\* keeps all of it.
EndedHoldsNothing ==
  row \in {"ended", "gone"} /\ turn = "none" /\ (\A k \in Closers : cleaning[k] = Rest)
    => excused \/ (bound = NoBox /\ ~ workdir /\ registered = NoManager)

\* A turn works in a sandbox that is up and whose directory is there, whatever other
\* turns, failures and releases came before, unless it met a delete.
TurnKeepsSandbox ==
  turn \in AtWork /\ ~ raced => box[hand] = "up" /\ workdir

\* Once a rotation is answered no tool call of a running session presents an older value
\* (docs/api.md, "a tool call after the rotation presents the new value"), unless
\* the manager was being connected or reconnected when it came.
FreshAfterRotation ==
  turn = "working" /\ row = "running" /\ tools # NoManager /\ tools \notin met =>
    LET c == manager[tools].live IN
    c # NoClient => client[c].state # "open" \/ client[c].value >= due
=============================================================================
