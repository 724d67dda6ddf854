---------------------------- MODULE McpConnections ----------------------------
(***************************************************************************)
(* The MCP connections of one session: the manager the tool resolver keeps *)
(* for it, the client the manager holds for a server, and the live tools   *)
(* the wrappers of a turn delegate to.  Three things connect: the turn that *)
(* needs tools first, a tool call whose connection broke, and the refresh  *)
(* that follows the rotation of a credential.  A reset drops the manager   *)
(* and closes it.  Each of them awaits in between, and none looks for the  *)
(* others.                                                                 *)
(*                                                                         *)
(* One server stands for all: a manager connects them one after the other. *)
(* The SDK's client and the server behind it are external; a client holds  *)
(* its process or socket until it is closed, also after its transport broke. *)
(* A connect that outlives its timeout counts as failed; the client it may  *)
(* still produce, which nobody closes, is not among the clients.            *)
(***************************************************************************)
EXTENDS Naturals, FiniteSetsExt

CONSTANTS
  Managers,     \* McpManager instances, numbers
  Clients,      \* connected clients, numbers
  Calls,        \* tool calls of a step that may run side by side
  Refreshers,   \* rotations that may be under way at once
  Closers,      \* the callers of the resolver's cleanupSession
  Turn, NoManager, NoClient,
  MaxRotations, \* bound on changes of the credential
  MaxDrops      \* bound on broken transports

ASSUME McpNames ==
  /\ NoManager \notin Managers /\ NoClient \notin Clients
  /\ Managers \cup Clients \subseteq Nat /\ Turn \notin Calls \cup Refreshers
  /\ Calls \cap Refreshers = {} /\ Closers \cap ({Turn} \cup Calls \cup Refreshers) = {}
  /\ MaxRotations \in Nat /\ MaxDrops \in Nat

VARIABLES
  secret,      \* the number of the credential's current value
  due,         \* the oldest value a tool call may still present
  manager,     \* per manager: whether it exists, its client, its live tools
  client,      \* per client: its state, the value it presents, its manager
  registered,  \* mcpManagers: the session's manager
  cached,      \* mcpToolCache: the manager whose wrappers are cached
  attempt,     \* per turn, call and refresh: the attempt it awaits
  closing,     \* per closer: the manager whose close it awaits
  met,         \* history: managers on which two of the above met, or that
               \* were still connecting or used when they were dropped
  drops

mcpVars == <<secret, due, manager, client, registered, cached, attempt,
             closing, met, drops>>

Connectors == {Turn} \cup Calls \cup Refreshers
Idle == [pc |-> "none", on |-> NoManager, value |-> 0, new |-> NoClient, asked |-> 0]
AttemptStates == {"none", "queued", "closing", "connecting", "replacing"}

Unused == [state |-> "unused", value |-> 0, of |-> NoManager]
Closed == [state |-> "closed", value |-> 0, of |-> NoManager]
NewManager == [made |-> FALSE, client |-> NoClient, live |-> NoClient]

McpInit ==
  /\ secret = 0 /\ due = 0
  /\ manager = [m \in Managers |-> NewManager]
  /\ client = [c \in Clients |-> Unused]
  /\ registered = NoManager /\ cached = NoManager
  /\ attempt = [p \in Connectors |-> Idle]
  /\ closing = [k \in Closers |-> NoManager]
  /\ met = {} /\ drops = 0

\* What is under way on manager m.
acting(m) == {p \in Connectors : attempt[p].on = m} \cup {k \in Closers : closing[k] = m}

\* m is registered and nothing is under way on it, but for what `others` do.
undisturbed(m, others) == acting(m) \subseteq others /\ (manager[m].made => registered = m)

\* The credential an attempt of p presents: createClient resolves it anew each time.
resolved_Once(p) == IF p = Turn THEN secret ELSE 0
resolved(p) == secret

Begin(p, m, pc) ==
  /\ attempt' = [attempt EXCEPT ![p].pc = pc, ![p].on = m, ![p].value = resolved(p)]
  /\ met' = IF undisturbed(m, {p}) THEN met ELSE met \cup {m}

unusedClients == {c \in Clients : client[c].state = "unused"}

opened(p, c) ==
  [client EXCEPT ![c] = [state |-> "open", value |-> attempt[p].value, of |-> attempt[p].on]]

shut(clients, c) == IF c = NoClient THEN clients ELSE [clients EXCEPT ![c] = Closed]

----------------------------------------------------------------------------
\* getOrConnectMcp finds no manager and makes one.
ConnectTurn ==
  /\ registered = NoManager /\ \E n \in Managers : ~ manager[n].made
  /\ LET m == Min({n \in Managers : ~ manager[n].made}) IN
       /\ Begin(Turn, m, "connecting")
       /\ manager' = [manager EXCEPT ![m].made = TRUE]
  /\ UNCHANGED <<secret, due, client, registered, cached, closing, drops>>

\* A wrapper of manager m sees a broken connection and reconnects.
Reconnect(p, m) ==
  /\ attempt[p] = Idle /\ m # NoManager
  /\ manager[m].live # NoClient /\ client[manager[m].live].state # "open"
  /\ Begin(p, m, "connecting")
  /\ UNCHANGED <<secret, due, manager, client, registered, cached, closing, drops>>

\* The refresh of p has ended: its rotation is answered.
told(p) == IF attempt[p].asked > due THEN attempt[p].asked ELSE due

\* A reconnect closes what the manager holds before its own client takes the place.
replacing_Open(p, c) == opened(p, c)
replacing(p, c) == shut(opened(p, c), manager[attempt[p].on].client)

\* What an attempt that ended leaves to p: connectAll has set the client (or none)
\* and the caller registers the manager or caches its tools.
Concluded(p, c) ==
  LET m == attempt[p].on IN
  /\ IF p \in Calls
     THEN /\ attempt' = [attempt EXCEPT ![p].pc = "replacing", ![p].new = c]
          /\ client' = replacing(p, c)
          /\ UNCHANGED <<manager, registered, cached>>
     ELSE /\ attempt' = [attempt EXCEPT ![p] = Idle]
          /\ client' = IF c = NoClient THEN client ELSE opened(p, c)
          /\ manager' = IF c = NoClient THEN manager
                        ELSE [manager EXCEPT ![m].client = c, ![m].live = c]
          /\ registered' = IF p = Turn THEN m ELSE registered
          /\ cached' = IF c = NoClient THEN NoManager ELSE m
  /\ due' = IF p \in Refreshers THEN told(p) ELSE due

\* tryConnect connects and lists the tools in time.
Connected(p) ==
  /\ attempt[p].pc = "connecting" /\ unusedClients # {}
  /\ Concluded(p, Min(unusedClients))
  /\ UNCHANGED <<secret, closing, met, drops>>

\* tryConnect fails.  A reconnect tries again or gives up.
NotConnected(p) ==
  /\ attempt[p].pc = "connecting"
  /\ IF p \in Calls
     THEN /\ \/ attempt' = [attempt EXCEPT ![p] = Idle]
             \/ attempt' = [attempt EXCEPT ![p].value = resolved(p)]
          /\ UNCHANGED <<registered, cached>>
     ELSE /\ attempt' = [attempt EXCEPT ![p] = Idle]
          /\ registered' = IF p = Turn THEN attempt[p].on ELSE registered
          /\ cached' = NoManager
  /\ due' = IF p \in Refreshers THEN told(p) ELSE due
  /\ UNCHANGED <<secret, manager, client, closing, met, drops>>

\* The old client has closed; the new one takes its place (reconnect).
Replaced(p) ==
  /\ attempt[p].pc = "replacing"
  /\ LET m == attempt[p].on IN
       manager' = [manager EXCEPT ![m].client = attempt[p].new, ![m].live = attempt[p].new]
  /\ attempt' = [attempt EXCEPT ![p] = Idle]
  /\ UNCHANGED <<secret, due, client, registered, cached, closing, met, drops>>

----------------------------------------------------------------------------
\* A credential is rotated; the sessions of its vault that are not over by then are
\* refreshed one by one.
Rotate(r, over) ==
  /\ attempt[r] = Idle /\ secret < MaxRotations
  /\ secret' = secret + 1
  /\ IF over THEN due' = secret + 1 /\ UNCHANGED attempt
     ELSE /\ attempt' = [attempt EXCEPT ![r] =
                           [pc |-> "queued", on |-> NoManager, value |-> 0, new |-> NoClient,
                            asked |-> secret + 1]]
          /\ UNCHANGED due
  /\ UNCHANGED <<manager, client, registered, cached, closing, met, drops>>

\* Whoever finds no manager has nothing to do, though one may be connecting.
missed == IF attempt[Turn].pc = "connecting" THEN met \cup {attempt[Turn].on} ELSE met

refreshable == registered # NoManager

\* refreshSessionMcpCredentials: refreshAllCredentials closes every client.
RefreshSession(r) ==
  /\ attempt[r].pc = "queued"
  /\ IF refreshable
     THEN /\ Begin(r, registered, "closing")
          /\ client' = shut(client, manager[registered].client)
          /\ UNCHANGED due
     ELSE /\ attempt' = [attempt EXCEPT ![r] = Idle]
          /\ due' = told(r) /\ met' = missed
          /\ UNCHANGED client
  /\ UNCHANGED <<secret, manager, registered, cached, closing, drops>>

\* The clients have closed: the maps are cleared, and connectAll begins.
RefreshClosed(r) ==
  /\ attempt[r].pc = "closing"
  /\ manager' = [manager EXCEPT ![attempt[r].on].client = NoClient,
                                ![attempt[r].on].live = NoClient]
  /\ Begin(r, attempt[r].on, "connecting")
  /\ UNCHANGED <<secret, due, client, registered, cached, closing, drops>>

----------------------------------------------------------------------------
\* The resolver's cleanupSession: the manager is forgotten and told to close.
CloseManager(k) ==
  IF registered = NoManager
  THEN met' = missed /\ UNCHANGED <<registered, cached, closing, client>>
  ELSE /\ registered' = NoManager /\ cached' = NoManager
       /\ closing' = [closing EXCEPT ![k] = registered]
       /\ client' = shut(client, manager[registered].client)
       /\ met' = IF acting(registered) = {} THEN met ELSE met \cup {registered}

\* close() has awaited its clients and clears the map; the live tools stay.
ManagerClosed(k) ==
  /\ manager' = IF closing[k] = NoManager THEN manager
                ELSE [manager EXCEPT ![closing[k]].client = NoClient]
  /\ closing' = [closing EXCEPT ![k] = NoManager]

\* The server's end of a connection breaks.
Drop(c) ==
  /\ client[c].state = "open" /\ drops < MaxDrops
  /\ client' = [client EXCEPT ![c].state = "dropped"]
  /\ drops' = drops + 1
  /\ UNCHANGED <<secret, due, manager, registered, cached, attempt, closing, met>>

----------------------------------------------------------------------------
McpTypeOK ==
  /\ secret \in 0..MaxRotations /\ due \in 0..secret
  /\ manager \in [Managers -> [made : BOOLEAN, client : Clients \cup {NoClient},
                               live : Clients \cup {NoClient}]]
  /\ client \in [Clients -> [state : {"unused", "open", "dropped", "closed"},
                             value : 0..MaxRotations, of : Managers \cup {NoManager}]]
  /\ registered \in Managers \cup {NoManager} /\ cached \in Managers \cup {NoManager}
  /\ attempt \in [Connectors -> [pc : AttemptStates, on : Managers \cup {NoManager},
                                 value : 0..MaxRotations, new : Clients \cup {NoClient},
                                 asked : 0..MaxRotations]]
  /\ closing \in [Closers -> Managers \cup {NoManager}]
  /\ met \subseteq Managers /\ drops \in 0..MaxDrops

holds(m, c) == manager[m].client = c /\ (registered = m \/ acting(m) # {})

\* A client that is not closed can still be closed by somebody (mcp-manager.ts,
\* "so we don't orphan its subprocess/socket"): the session's manager holds it, or a
\* call is about to install it.  A client leaks only where two of connect,
\* reconnect, refresh and reset meet on one manager.
ClientsOwned ==
  \A c \in Clients : client[c].state \in {"open", "dropped"} =>
    \/ \E m \in Managers : holds(m, c)
    \/ \E p \in Calls : attempt[p].new = c
    \/ client[c].of \in met
=============================================================================
