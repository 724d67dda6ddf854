------------------------- MODULE SessionResources_proofs -------------------------
(***************************************************************************)
(* Theorems about McpConnections and SessionResources, for any number of   *)
(* managers, clients, tool calls, rotations, sandboxes and messages.       *)
(***************************************************************************)
EXTENDS SessionResources, WellFoundedInduction, TLAPS

-----------------------------------------------------------------------------
(* The inductive invariant of the connections.                                *)

Pcs(p) == IF p = Turn THEN {"none", "connecting"}
          ELSE IF p \in Calls THEN {"none", "connecting", "replacing"}
          ELSE {"none", "queued", "closing", "connecting"}

\* What an attempt holds, by where it is.
AttemptInv ==
  \A p \in Connectors :
    /\ attempt[p].pc \in Pcs(p)
    /\ attempt[p].pc = "none" => attempt[p] = Idle
    /\ attempt[p].on = NoManager <=> attempt[p].pc \in {"none", "queued"}
    /\ attempt[p].new # NoClient => attempt[p].pc = "replacing"
    /\ attempt[p].asked <= secret

\* Nobody refers to a manager or a client that does not exist yet.
MadeInv ==
  /\ \A m \in Managers : ~ manager[m].made =>
       /\ manager[m].client = NoClient /\ manager[m].live = NoClient
       /\ acting(m) = {} /\ registered # m
  /\ \A m \in Managers :
       /\ manager[m].client # NoClient => client[manager[m].client].state # "unused"
       /\ manager[m].live # NoClient => client[manager[m].live].state # "unused"
  /\ \A p \in Connectors :
       attempt[p].new # NoClient => client[attempt[p].new].state # "unused"

\* On a manager where nobody met one thing is under way, and a call or a
\* refresh works on the registered manager.
AloneInv ==
  /\ \A m \in Managers \ met :
       /\ \A p, q \in acting(m) : p = q
       /\ \A p \in Calls \cup Refreshers : attempt[p].on = m => registered = m
       /\ \A k \in Closers : closing[k] = m => registered # m
  /\ attempt[Turn].pc = "connecting" => registered = NoManager

Spare(c) == c = NoClient \/ client[c].state = "closed"
Open(c) == c # NoClient /\ client[c].state = "open"

\* What a manager that nobody met on holds is closed before it is replaced, and
\* its tools use what it holds.
SpareInv ==
  \A m \in Managers \ met :
    /\ registered # m => Spare(manager[m].client)
    /\ \A p \in acting(m) :
         ~ (p \in Calls /\ attempt[p].pc = "connecting") => Spare(manager[m].client)
    /\ manager[m].live = manager[m].client \/ ~ Open(manager[m].live)

HeldInv ==
  \A c \in Clients : client[c].state \in {"open", "dropped"} =>
    /\ client[c].of \in Managers
    /\ client[c].of \in met
       \/ manager[client[c].of].client = c
       \/ \E p \in Calls : attempt[p].new = c /\ attempt[p].on = client[c].of

\* No older than what is due now, and than what a refresh under way will make due.
Fresh(v) ==
  /\ due <= v
  /\ \A r \in Refreshers : attempt[r].pc \in {"closing", "connecting"} => attempt[r].asked <= v

FreshInv ==
  /\ \A p \in Calls : Open(attempt[p].new) => client[attempt[p].new].value = attempt[p].value
  /\ row \in Live => \A m \in Managers \ met :
       /\ \A p \in Connectors :
            attempt[p].on = m /\ attempt[p].pc # "closing" => Fresh(attempt[p].value)
       /\ Open(manager[m].live) => Fresh(client[manager[m].live].value)

-----------------------------------------------------------------------------
(* The inductive invariant of the sandbox.                                    *)

InTurn == Turns \ {"none", "releasing"}

\* What the steps of a cleanup say about the turn and the row.
CleaningInv ==
  /\ \A k \in Closers :
       /\ cleaning[k].step # "sandbox" => cleaning[k].box = NoBox
       /\ closing[k] # NoManager => cleaning[k].step = "tools"
  /\ cleaning["turn"] # Rest => turn = "releasing"
  /\ cleaning["archive"] # Rest => row \in {"ended", "gone"}
  /\ cleaning["update"].step \in {"none", "tools"}
  /\ attempt[Turn].pc = "connecting" <=> turn = "connecting"

\* Unless a turn met a delete, nobody releases while it is under way, and what
\* is bound is the sandbox it works in.
TurnInv ==
  /\ turn \in {"provisioning", "materializing", "discarding"} => bound = NoBox
  /\ turn \in {"materializing", "discarding"} => hand # NoBox
  /\ ~ raced =>
       /\ turn \in InTurn => row = "running" /\ \A k \in Closers \ {"update"} : cleaning[k] = Rest
       /\ turn \in {"resolving", "connecting", "working"} => hand = bound /\ bound # NoBox
       /\ turn = "materializing" => box[hand] = "up" /\ workdir
       /\ bound # NoBox => box[bound] = "up" /\ workdir /\ \A k \in Closers : cleaning[k].box = NoBox

\* A directory of this process belongs to somebody.
WorkdirInv ==
  workdir /\ ~ leftover =>
    \/ bound # NoBox \/ turn \in {"materializing", "discarding"}
    \/ \E k \in Closers : cleaning[k].box # NoBox

\* What an ended session still holds, somebody is about to release.
EndedInv ==
  ~ raced =>
    /\ row \in {"ended", "gone"} /\ ~ unproven =>
         /\ bound # NoBox => \E k \in Closers : cleaning[k].step = "stopping"
         /\ registered # NoManager =>
              \E k \in Closers : cleaning[k].step \in {"stopping", "sandbox"}
    /\ cleaning["delete"].step \in {"sandbox", "tools"} => bound = NoBox
    /\ cleaning["delete"].step = "tools" => registered = NoManager

ConnectionInv == AttemptInv /\ MadeInv /\ AloneInv /\ SpareInv /\ HeldInv /\ FreshInv
SandboxInv == CleaningInv /\ TurnInv /\ WorkdirInv /\ EndedInv
ResourceInv == ResourceTypeOK /\ ConnectionInv /\ SandboxInv


-----------------------------------------------------------------------------
(* Types. *)

\* A non-empty set of numbers has a least one.
LEMMA MinIn ==
  ASSUME NEW S, S \subseteq Nat, S # {}
  PROVE  Min(S) \in S
<1>1. PICK x \in S : \A y \in S : <<y, x>> \notin OpToRel(<, Nat)
  BY NatLessThanWellFounded, WFMin, Zenon
<1>2. \A y \in S : ~ (y < x)
  BY <1>1, Zenon DEF OpToRel
<1>3. \A y \in S : x =< y
  BY <1>2, SMT
<1>4. QED
  BY <1>3, Zenon DEF Min

LEMMA FreshBox ==
  ASSUME \E b \in Boxes : box[b] = "unused"
  PROVE  LET b == Min({c \in Boxes : box[c] = "unused"}) IN b \in Boxes /\ box[b] = "unused"
<1> DEFINE S == {c \in Boxes : box[c] = "unused"}
<1>1. S \subseteq Nat /\ S # {}
  BY ResourceNames
<1>2. Min(S) \in S
  BY <1>1, MinIn
<1>3. QED
  BY <1>2

LEMMA FreshClient ==
  ASSUME unusedClients # {}
  PROVE  Min(unusedClients) \in Clients /\ client[Min(unusedClients)].state = "unused"
<1>1. unusedClients \subseteq Nat
  BY McpNames DEF unusedClients
<1>2. Min(unusedClients) \in unusedClients
  BY <1>1, MinIn
<1>3. QED
  BY <1>2 DEF unusedClients

LEMMA FreshManager ==
  ASSUME \E n \in Managers : ~ manager[n].made
  PROVE  LET m == Min({n \in Managers : ~ manager[n].made}) IN m \in Managers /\ ~ manager[m].made
<1> DEFINE S == {n \in Managers : ~ manager[n].made}
<1>1. S \subseteq Nat /\ S # {}
  BY McpNames
<1>2. Min(S) \in S
  BY <1>1, MinIn
<1>3. QED
  BY <1>2

AttemptTypes == [pc : AttemptStates, on : Managers \cup {NoManager},
                 value : 0..MaxRotations, new : Clients \cup {NoClient},
                 asked : 0..MaxRotations]
ManagerTypes == [made : BOOLEAN, client : Clients \cup {NoClient}, live : Clients \cup {NoClient}]
ClientTypes == [state : {"unused", "open", "dropped", "closed"},
                value : 0..MaxRotations, of : Managers \cup {NoManager}]

LEMMA TypesOf ==
  ASSUME McpTypeOK
  PROVE  /\ attempt \in [Connectors -> AttemptTypes] /\ manager \in [Managers -> ManagerTypes]
         /\ client \in [Clients -> ClientTypes]
         /\ secret \in 0..MaxRotations /\ due \in Nat /\ due <= secret
         /\ met \subseteq Managers
         /\ \A p \in Connectors : attempt[p] \in AttemptTypes
         /\ \A m \in Managers : manager[m] \in ManagerTypes
         /\ \A c \in Clients : client[c] \in ClientTypes
BY McpNames DEF McpTypeOK, AttemptTypes, ManagerTypes, ClientTypes

\* What Begin does to an attempt, value by value.
LEMMA BeginFacts ==
  ASSUME McpTypeOK, NEW p \in Connectors, NEW m \in Managers, NEW pc \in AttemptStates,
         Begin(p, m, pc)
  PROVE  /\ attempt' \in [Connectors -> AttemptTypes]
         /\ attempt'[p].pc = pc /\ attempt'[p].on = m /\ attempt'[p].value = secret
         /\ attempt'[p].new = attempt[p].new /\ attempt'[p].asked = attempt[p].asked
         /\ \A q \in Connectors : q # p => attempt'[q] = attempt[q]
         /\ met \subseteq met' /\ met' \subseteq met \cup {m} /\ met' \subseteq Managers
         /\ m \notin met' => undisturbed(m, {p})
BY TypesOf DEF Begin, resolved, AttemptTypes, McpTypeOK

\* What closing a client does to the clients.
LEMMA ShutFacts ==
  ASSUME NEW clients \in [Clients -> ClientTypes], NEW c \in Clients \cup {NoClient}
  PROVE  /\ shut(clients, c) \in [Clients -> ClientTypes]
         /\ \A d \in Clients : d # c => shut(clients, c)[d] = clients[d]
         /\ c # NoClient => shut(clients, c)[c] = Closed
         /\ c = NoClient => shut(clients, c) = clients
BY McpNames DEF shut, Closed, ClientTypes

LEMMA OpenedFacts ==
  ASSUME McpTypeOK, NEW p \in Connectors, NEW c \in Clients
  PROVE  /\ opened(p, c) \in [Clients -> ClientTypes]
         /\ \A d \in Clients : d # c => opened(p, c)[d] = client[d]
         /\ opened(p, c)[c].state = "open" /\ opened(p, c)[c].value = attempt[p].value
         /\ opened(p, c)[c].of = attempt[p].on
BY TypesOf DEF opened, ClientTypes, AttemptTypes

-----------------------------------------------------------------------------
(* The invariants after a step, with what they say of a value. *)

SpareNext(c) == c = NoClient \/ client'[c].state = "closed"
OpenNext(c) == c # NoClient /\ client'[c].state = "open"
FreshNext(v) ==
  /\ due' <= v
  /\ \A r \in Refreshers : attempt'[r].pc \in {"closing", "connecting"} => attempt'[r].asked <= v

LEMMA SpareInvNext ==
  ASSUME \A n \in Managers : n \notin met' =>
           /\ registered' # n => SpareNext(manager'[n].client)
           /\ \A q \in acting(n)' :
                ~ (q \in Calls /\ attempt'[q].pc = "connecting") => SpareNext(manager'[n].client)
           /\ manager'[n].live = manager'[n].client \/ ~ OpenNext(manager'[n].live)
  PROVE  SpareInv'
BY DEF SpareInv, SpareNext, OpenNext, Spare, Open

LEMMA FreshInvNext ==
  ASSUME \A q \in Calls :
           OpenNext(attempt'[q].new) => client'[attempt'[q].new].value = attempt'[q].value,
         row' \in Live => \A n \in Managers : n \notin met' =>
           /\ \A q \in Connectors :
                attempt'[q].on = n /\ attempt'[q].pc # "closing" => FreshNext(attempt'[q].value)
           /\ OpenNext(manager'[n].live) => FreshNext(client'[manager'[n].live].value)
  PROVE  FreshInv'
BY DEF FreshInv, FreshNext, Fresh, OpenNext, Open

\* What the invariants say of a manager on which nobody met.
LEMMA SpareInvOf ==
  ASSUME SpareInv, NEW n \in Managers, n \notin met
  PROVE  /\ registered # n => Spare(manager[n].client)
         /\ \A q \in acting(n) :
              ~ (q \in Calls /\ attempt[q].pc = "connecting") => Spare(manager[n].client)
         /\ manager[n].live = manager[n].client \/ ~ Open(manager[n].live)
BY DEF SpareInv

LEMMA FreshInvOf ==
  ASSUME FreshInv, row \in Live, NEW n \in Managers, n \notin met
  PROVE  /\ \A q \in Connectors :
              attempt[q].on = n /\ attempt[q].pc # "closing" => Fresh(attempt[q].value)
         /\ Open(manager[n].live) => Fresh(client[manager[n].live].value)
BY DEF FreshInv

LEMMA HeldInvNext ==
  ASSUME \A c \in Clients : client'[c].state \in {"open", "dropped"} =>
           /\ client'[c].of \in Managers
           /\ client'[c].of \in met'
              \/ manager'[client'[c].of].client = c
              \/ \E p \in Calls : attempt'[p].new = c /\ attempt'[p].on = client'[c].of
  PROVE  HeldInv'
BY DEF HeldInv

-----------------------------------------------------------------------------
(* The steps of the connections. *)

LEMMA ConnectTurnKeeps ==
  ASSUME McpTypeOK, ConnectionInv, attempt[Turn].pc = "none", ConnectTurn, UNCHANGED row
  PROVE  McpTypeOK' /\ ConnectionInv'
<1> DEFINE m == Min({n \in Managers : ~ manager[n].made})
<1>1. m \in Managers /\ ~ manager[m].made
  BY FreshManager DEF ConnectTurn
<1>2. /\ Begin(Turn, m, "connecting") /\ manager' = [manager EXCEPT ![m].made = TRUE]
      /\ registered = NoManager
      /\ UNCHANGED <<secret, due, client, registered, cached, closing, drops>>
  BY DEF ConnectTurn
<1> HIDE DEF m
<1>t. Turn \in Connectors /\ attempt[Turn] = Idle /\ "connecting" \in AttemptStates
  BY DEF Connectors, AttemptStates, ConnectionInv, AttemptInv
<1>3. /\ attempt' \in [Connectors -> AttemptTypes]
      /\ attempt'[Turn].pc = "connecting" /\ attempt'[Turn].on = m
      /\ attempt'[Turn].value = secret
      /\ attempt'[Turn].new = attempt[Turn].new /\ attempt'[Turn].asked = attempt[Turn].asked
      /\ \A q \in Connectors : q # Turn => attempt'[q] = attempt[q]
  BY <1>1, <1>2, <1>t, BeginFacts
<1>4. acting(m) = {} /\ registered # m /\ manager[m].client = NoClient
      /\ manager[m].live = NoClient
  BY <1>1 DEF ConnectionInv, MadeInv
<1>5. met' = met
  BY <1>1, <1>2, <1>4 DEF Begin, undisturbed
<1>6. /\ manager' \in [Managers -> ManagerTypes]
      /\ manager'[m].client = NoClient /\ manager'[m].live = NoClient /\ manager'[m].made
      /\ \A n \in Managers : n # m => manager'[n] = manager[n]
  BY <1>1, <1>2, <1>4, TypesOf DEF ManagerTypes
<1>7. McpTypeOK'
  BY <1>2, <1>3, <1>5, <1>6 DEF McpTypeOK, AttemptTypes, ManagerTypes
<1>8. AttemptInv'
  BY <1>1, <1>2, <1>3, <1>t, McpNames DEF ConnectionInv, AttemptInv, Pcs, Idle
<1>9. MadeInv'
  BY <1>1, <1>2, <1>3, <1>4, <1>6, <1>t, McpNames DEF ConnectionInv, MadeInv, acting, Idle
<1>10. AloneInv'
  BY <1>1, <1>2, <1>3, <1>4, <1>5, <1>t, McpNames DEF ConnectionInv, AloneInv, acting, Connectors
<1>11. SpareInv'
  BY <1>1, <1>2, <1>3, <1>4, <1>5, <1>6, <1>t, McpNames
     DEF ConnectionInv, SpareInv, acting, Spare, Open, Connectors
<1>12. HeldInv'
  BY <1>1, <1>2, <1>3, <1>4, <1>5, <1>6, <1>t, McpNames DEF ConnectionInv, HeldInv, Connectors
<1>13. FreshInv'
  <2>1. /\ \A p \in Connectors : attempt'[p].asked = attempt[p].asked /\ attempt'[p].new = attempt[p].new
        /\ \A p \in Refreshers : attempt'[p] = attempt[p]
        /\ \A p \in Connectors : attempt'[p].on \in Managers \cup {NoManager}
    BY <1>3, TypesOf, McpNames DEF Connectors, AttemptTypes
  <2>2. /\ due <= secret
        /\ \A p \in Refreshers : attempt[p].asked <= secret
    BY TypesOf DEF ConnectionInv, AttemptInv, Connectors
  <2>3. Fresh(secret)'
    BY <2>1, <2>2, <1>2 DEF Fresh
  <2>4. \A v : Fresh(v) => Fresh(v)'
    BY <2>1, <1>2 DEF Fresh
  <2>5. \A p \in Calls : attempt'[p] = attempt[p]
    BY <1>3, McpNames DEF Connectors
  <2>6. \A n \in Managers : manager'[n].live = manager[n].live
    BY <1>4, <1>6
  <2>7. \A p \in Connectors : attempt'[p].value = attempt[p].value \/ attempt'[p].value = secret
    BY <1>3
  <2>8. QED
    BY <1>2, <1>3, <1>5, <2>3, <2>4, <2>5, <2>6 DEF ConnectionInv, FreshInv, Open
<1>14. QED
  BY <1>7, <1>8, <1>9, <1>10, <1>11, <1>12, <1>13 DEF ConnectionInv

LEMMA ReconnectKeeps ==
  ASSUME McpTypeOK, ConnectionInv, NEW p \in Calls, NEW m \in Managers, Reconnect(p, m),
         UNCHANGED row
  PROVE  McpTypeOK' /\ ConnectionInv'
<1>1. /\ attempt[p] = Idle /\ manager[m].live # NoClient
      /\ client[manager[m].live].state # "open" /\ Begin(p, m, "connecting")
      /\ UNCHANGED <<secret, due, manager, client, registered, cached, closing, drops>>
  BY DEF Reconnect
<1>t. p \in Connectors /\ p # Turn /\ p \notin Refreshers /\ "connecting" \in AttemptStates
      /\ p \notin acting(m)
  BY <1>1, McpNames DEF Connectors, AttemptStates, acting, Idle
<1>2. attempt[p].new = NoClient /\ attempt[p].asked = 0
  BY <1>1 DEF Idle
<1>3. /\ attempt' \in [Connectors -> AttemptTypes]
      /\ attempt'[p].pc = "connecting" /\ attempt'[p].on = m /\ attempt'[p].value = secret
      /\ attempt'[p].new = NoClient /\ attempt'[p].asked = 0
      /\ \A q \in Connectors : q # p => attempt'[q] = attempt[q]
      /\ met \subseteq met' /\ met' \subseteq met \cup {m} /\ met' \subseteq Managers
      /\ m \notin met' => undisturbed(m, {p})
  BY <1>1, <1>2, <1>t, BeginFacts
<1>4. manager[m].made
  BY <1>1 DEF ConnectionInv, MadeInv
<1>5. m \notin met' => acting(m) = {} /\ registered = m
  BY <1>3, <1>4, <1>t DEF undisturbed
<1>7. McpTypeOK'
  BY <1>1, <1>3 DEF McpTypeOK, AttemptTypes
<1>8. AttemptInv'
  BY <1>1, <1>3, <1>t, TypesOf, McpNames DEF ConnectionInv, AttemptInv, Pcs, Idle
<1>9. MadeInv'
  BY <1>1, <1>3, <1>4, <1>t, McpNames DEF ConnectionInv, MadeInv, acting
<1>10. AloneInv'
  BY <1>1, <1>3, <1>5, <1>t, McpNames DEF ConnectionInv, AloneInv, acting, Connectors
<1>11. SpareInv'
  BY <1>1, <1>3, <1>5, <1>t, McpNames DEF ConnectionInv, SpareInv, acting, Spare, Open, Connectors
<1>12. HeldInv'
  BY <1>1, <1>3, <1>t, McpNames DEF ConnectionInv, HeldInv, Connectors, Idle
<1>13. FreshInv'
  <2>1. /\ \A q \in Connectors : attempt'[q].asked = attempt[q].asked /\ attempt'[q].new = attempt[q].new
        /\ \A q \in Refreshers : attempt'[q] = attempt[q]
    BY <1>1, <1>3, <1>t, McpNames DEF Connectors, Idle
  <2>2. /\ due <= secret
        /\ \A q \in Refreshers : attempt[q].asked <= secret
    BY TypesOf DEF ConnectionInv, AttemptInv, Connectors
  <2>3. Fresh(secret)'
    BY <2>1, <2>2, <1>1 DEF Fresh
  <2>4. \A v : Fresh(v) => Fresh(v)'
    BY <2>1, <1>1 DEF Fresh
  <2>8. QED
    BY <1>1, <1>3, <1>t, <2>3, <2>4 DEF ConnectionInv, FreshInv, Open, Connectors
<1>14. QED
  BY <1>7, <1>8, <1>9, <1>10, <1>11, <1>12, <1>13 DEF ConnectionInv

\* A refresh that waits in the queue acts on nothing yet.
LEMMA RotateKeeps ==
  ASSUME McpTypeOK, ConnectionInv, NEW r \in Refreshers, Rotate(r, row \notin Live),
         UNCHANGED row
  PROVE  McpTypeOK' /\ ConnectionInv'
<1>1. /\ attempt[r] = Idle /\ secret < MaxRotations /\ secret' = secret + 1
      /\ UNCHANGED <<manager, client, registered, cached, closing, met, drops>>
  BY DEF Rotate
<1>t. r \in Connectors /\ r # Turn /\ r \notin Calls /\ "queued" \in AttemptStates
      /\ secret + 1 \in 0..MaxRotations /\ secret \in Nat /\ due \in Nat /\ due <= secret
  BY <1>1, TypesOf, McpNames DEF Connectors, AttemptStates
<1> DEFINE waits == [pc |-> "queued", on |-> NoManager, value |-> 0, new |-> NoClient,
                      asked |-> secret + 1]
<1>2. \/ row \notin Live /\ due' = secret + 1 /\ attempt' = attempt
      \/ /\ row \in Live /\ due' = due /\ attempt' \in [Connectors -> AttemptTypes]
         /\ attempt'[r] = waits
         /\ \A q \in Connectors : q # r => attempt'[q] = attempt[q]
  <2>1. waits \in AttemptTypes
    BY <1>t, McpNames DEF AttemptTypes
  <2>2. CASE row \notin Live
    BY <2>2 DEF Rotate
  <2>3. CASE row \in Live
    <3>1. due' = due /\ attempt' = [attempt EXCEPT ![r] = waits]
      BY <2>3 DEF Rotate
    <3>2. QED
      BY <3>1, <2>1, <2>3, <1>t, TypesOf
  <2>4. QED
    BY <2>2, <2>3
<1>i. /\ attempt[r].pc = "none" /\ attempt[r].on = NoManager /\ attempt[r].value = 0
      /\ attempt[r].new = NoClient
  BY <1>1 DEF Idle
<1>3. /\ \A q \in Connectors : /\ attempt'[q].on = attempt[q].on /\ attempt'[q].new = attempt[q].new
                               /\ attempt'[q].value = attempt[q].value
                               /\ (attempt'[q].pc = attempt[q].pc \/ (q = r /\ attempt'[q].pc = "queued"))
      /\ \A q \in Connectors : q # r => attempt'[q] = attempt[q]
  BY <1>2, <1>i
<1>7. McpTypeOK'
  <2>1. due' \in 0..secret'
    BY <1>1, <1>2, <1>t
  <2>2. attempt' \in [Connectors -> AttemptTypes]
    BY <1>2, TypesOf
  <2>3. QED
    BY <1>1, <1>t, <2>1, <2>2 DEF McpTypeOK, AttemptTypes
<1>8. AttemptInv'
  <2>1. \A q \in Connectors : attempt'[q].asked <= secret + 1
    BY <1>1, <1>2, <1>t, TypesOf DEF ConnectionInv, AttemptInv, AttemptTypes
  <2>2. QED
    BY <1>1, <1>2, <1>3, <1>t, <2>1, McpNames DEF ConnectionInv, AttemptInv, Pcs, Idle
<1>9. MadeInv'
  BY <1>1, <1>3, <1>t, McpNames DEF ConnectionInv, MadeInv, acting
<1>10. AloneInv'
  BY <1>1, <1>3, <1>t, McpNames DEF ConnectionInv, AloneInv, acting, Connectors
<1>11. SpareInv'
  BY <1>1, <1>3, <1>t, McpNames DEF ConnectionInv, SpareInv, acting, Spare, Open, Connectors
<1>12. HeldInv'
  BY <1>1, <1>3, <1>t, McpNames DEF ConnectionInv, HeldInv, Connectors
<1>13. FreshInv'
  <2>1. ASSUME row \in Live, NEW v, Fresh(v)
        PROVE  Fresh(v)'
    BY <2>1, <1>1, <1>2, <1>t DEF Fresh, Connectors, Idle
  <2>2. \A q \in Connectors : attempt'[q].on \in Managers => attempt'[q] = attempt[q]
    BY <1>1, <1>2, <1>t, McpNames DEF Idle
  <2>3. QED
    BY <1>1, <1>3, <1>t, <2>1, <2>2 DEF ConnectionInv, FreshInv, Open, Connectors
<1>14. QED
  BY <1>7, <1>8, <1>9, <1>10, <1>11, <1>12, <1>13 DEF ConnectionInv

\* Where an attempt that is connecting acts.
LEMMA ConnectingOn ==
  ASSUME McpTypeOK, ConnectionInv, NEW p \in Connectors,
         attempt[p].pc \in {"closing", "connecting", "replacing"}
  PROVE  /\ attempt[p].on \in Managers /\ manager[attempt[p].on].made
         /\ p \in acting(attempt[p].on)
         /\ attempt[p].pc # "replacing" => attempt[p].new = NoClient
BY TypesOf, McpNames DEF ConnectionInv, AttemptInv, MadeInv, acting, AttemptTypes

\* What becomes due when a refresh ends was asked for before.
LEMMA ToldFacts ==
  ASSUME McpTypeOK, ConnectionInv, NEW p \in Connectors
  PROVE  told(p) \in 0..secret /\ due <= told(p)
         /\ told(p) \in {due, attempt[p].asked}
BY TypesOf DEF told, ConnectionInv, AttemptInv, AttemptTypes

\* A call connects: its client is to replace what the manager holds, which closes.
LEMMA CallConnectedKeeps ==
  ASSUME McpTypeOK, ConnectionInv, NEW p \in Calls, Connected(p), UNCHANGED row
  PROVE  McpTypeOK' /\ ConnectionInv'
<1> DEFINE c == Min(unusedClients)
           m == attempt[p].on
           old == manager[m].client
<1>1. c \in Clients /\ client[c].state = "unused" /\ attempt[p].pc = "connecting"
  BY FreshClient DEF Connected
<1>2. /\ attempt' = [attempt EXCEPT ![p].pc = "replacing", ![p].new = c]
      /\ client' = shut(opened(p, c), old)
      /\ UNCHANGED <<secret, due, manager, registered, cached, closing, met, drops>>
  BY McpNames DEF Connected, Concluded, replacing
<1> HIDE DEF c
<1>t. p \in Connectors /\ p # Turn /\ p \notin Refreshers /\ "replacing" \in AttemptStates
      /\ c # NoClient /\ NoClient \notin Clients
  BY <1>1, McpNames DEF Connectors, AttemptStates
<1>3. /\ m \in Managers /\ manager[m].made /\ p \in acting(m) /\ attempt[p].new = NoClient
  BY <1>1, <1>t, ConnectingOn
<1>4. /\ attempt' \in [Connectors -> AttemptTypes]
      /\ attempt'[p].pc = "replacing" /\ attempt'[p].new = c
      /\ attempt'[p].on = m /\ attempt'[p].value = attempt[p].value
      /\ attempt'[p].asked = attempt[p].asked
      /\ \A q \in Connectors : q # p => attempt'[q] = attempt[q]
  BY <1>1, <1>2, <1>t, TypesOf DEF AttemptTypes
<1>5. /\ \A n \in Managers : manager[n].client # c /\ manager[n].live # c
      /\ \A q \in Connectors : attempt[q].new # c
      /\ old \in Clients \cup {NoClient} /\ old # c
  BY <1>1, <1>3, <1>t, TypesOf DEF ConnectionInv, MadeInv, ManagerTypes
<1>6. /\ client' \in [Clients -> ClientTypes]
      /\ client'[c].state = "open" /\ client'[c].of = m /\ client'[c].value = attempt[p].value
      /\ old # NoClient => client'[old].state = "closed"
      /\ \A d \in Clients : d # c /\ d # old => client'[d] = client[d]
  <2>1. /\ opened(p, c) \in [Clients -> ClientTypes]
        /\ \A d \in Clients : d # c => opened(p, c)[d] = client[d]
        /\ opened(p, c)[c].state = "open" /\ opened(p, c)[c].value = attempt[p].value
        /\ opened(p, c)[c].of = attempt[p].on
    BY <1>1, <1>t, OpenedFacts
  <2>2. Closed.state = "closed"
    BY DEF Closed
  <2>3. QED
    BY <1>1, <1>2, <1>5, <2>1, <2>2, ShutFacts
<1>7. McpTypeOK'
  BY <1>2, <1>4, <1>6 DEF McpTypeOK, AttemptTypes, ClientTypes
<1>8. AttemptInv'
  BY <1>1, <1>2, <1>3, <1>4, <1>t, TypesOf, McpNames DEF ConnectionInv, AttemptInv, Pcs
<1>9. MadeInv'
  <2>1. \A d \in Clients : client[d].state # "unused" => client'[d].state # "unused"
    BY <1>5, <1>6, <1>t
  <2>2. \A n \in Managers : manager[n].client \in Clients \cup {NoClient}
                            /\ manager[n].live \in Clients \cup {NoClient}
    BY TypesOf DEF ManagerTypes
  <2>3. \A q \in Connectors : attempt[q].new \in Clients \cup {NoClient}
    BY TypesOf DEF AttemptTypes
  <2>4. \A n \in Managers : acting(n)' = acting(n)
    BY <1>2, <1>4 DEF acting
  <2>5. QED
    BY <1>1, <1>2, <1>4, <1>6, <1>t, <2>1, <2>2, <2>3, <2>4 DEF ConnectionInv, MadeInv
<1>10. AloneInv'
  BY <1>1, <1>2, <1>3, <1>4, <1>t, McpNames DEF ConnectionInv, AloneInv, acting, Connectors
<1>11. SpareInv'
  <2>1. \A n \in Managers : Spare(manager[n].client) => SpareNext(manager[n].client)
    BY <1>5, <1>6, TypesOf DEF Spare, SpareNext, ManagerTypes
  <2>2. \A n \in Managers : OpenNext(manager[n].live) => Open(manager[n].live)
    BY <1>5, <1>6, TypesOf DEF Open, OpenNext, ManagerTypes
  <2>3. SpareNext(manager[m].client)
    BY <1>6 DEF SpareNext
  <2>4. \A n \in Managers : acting(n)' = acting(n)
    BY <1>2, <1>4 DEF acting
  <2>5. \A q \in Calls : q # p => attempt'[q].pc = attempt[q].pc
    BY <1>4 DEF Connectors
  <2>6. \A n \in Managers : p \in acting(n) => n = m
    BY <1>t, McpNames DEF acting
  <2>7. \A n \in Managers : \A q \in acting(n) : n \notin met
            /\ ~ (q \in Calls /\ attempt'[q].pc = "connecting") => SpareNext(manager[n].client)
    <3>1. SUFFICES ASSUME NEW n \in Managers, NEW q \in acting(n), n \notin met,
                          ~ (q \in Calls /\ attempt'[q].pc = "connecting"), q # p
                   PROVE  SpareNext(manager[n].client)
      BY <2>3, <2>6
    <3>2. ~ (q \in Calls /\ attempt[q].pc = "connecting")
      BY <3>1, <2>5
    <3>3. QED
      BY <3>1, <3>2, <2>1, SpareInvOf DEF ConnectionInv
  <2>8. \A n \in Managers : n \notin met =>
          /\ registered # n => SpareNext(manager[n].client)
          /\ manager[n].live = manager[n].client \/ ~ OpenNext(manager[n].live)
    BY <2>1, <2>2, SpareInvOf DEF ConnectionInv
  <2>9. QED
    BY <1>2, <2>4, <2>7, <2>8, SpareInvNext
<1>12. HeldInv'
  <2>1. ASSUME NEW d \in Clients, client'[d].state \in {"open", "dropped"}
        PROVE  /\ client'[d].of \in Managers
               /\ \/ client'[d].of \in met
                  \/ manager[client'[d].of].client = d
                  \/ \E q \in Calls : attempt'[q].new = d /\ attempt'[q].on = client'[d].of
    <3>1. CASE d = c
      BY <3>1, <1>3, <1>4, <1>6
    <3>2. CASE d # c
      <4>1. client'[d] = client[d]
        BY <2>1, <3>2, <1>6, <1>t
      <4>2. /\ client[d].of \in Managers
            /\ \/ client[d].of \in met
               \/ manager[client[d].of].client = d
               \/ \E q \in Calls : attempt[q].new = d /\ attempt[q].on = client[d].of
        BY <2>1, <4>1 DEF ConnectionInv, HeldInv
      <4>3. \A q \in Calls : attempt[q].new = d => q # p /\ attempt'[q] = attempt[q]
        BY <1>3, <1>4, <1>t DEF Connectors
      <4>4. QED
        BY <4>1, <4>2, <4>3
    <3>3. QED
      BY <3>1, <3>2
  <2>2. QED
    BY <2>1, <1>2, HeldInvNext
<1>13. FreshInv'
  <2>1. \A v : Fresh(v) => FreshNext(v)
    BY <1>2, <1>4, <1>t DEF Fresh, FreshNext, Connectors
  <2>2. \A n \in Managers : OpenNext(manager[n].live) =>
          Open(manager[n].live) /\ client'[manager[n].live].value = client[manager[n].live].value
    BY <1>5, <1>6, TypesOf DEF Open, OpenNext, ManagerTypes
  <2>3. \A q \in Calls : q # p /\ OpenNext(attempt[q].new) =>
          Open(attempt[q].new) /\ client'[attempt[q].new].value = client[attempt[q].new].value
    BY <1>5, <1>6, TypesOf DEF Open, OpenNext, AttemptTypes, Connectors
  <2>4. \A q \in Calls : q \in Connectors
    BY DEF Connectors
  <2>5. ASSUME NEW q \in Calls, OpenNext(attempt'[q].new)
        PROVE  client'[attempt'[q].new].value = attempt'[q].value
    BY <2>5, <2>3, <2>4, <1>4, <1>6 DEF ConnectionInv, FreshInv
  <2>6. ASSUME row \in Live, NEW n \in Managers, n \notin met
        PROVE  /\ \A q \in Connectors :
                    attempt'[q].on = n /\ attempt'[q].pc # "closing" => FreshNext(attempt'[q].value)
               /\ OpenNext(manager[n].live) => FreshNext(client'[manager[n].live].value)
    <3>1. /\ \A q \in Connectors :
               attempt[q].on = n /\ attempt[q].pc # "closing" => Fresh(attempt[q].value)
          /\ Open(manager[n].live) => Fresh(client[manager[n].live].value)
      BY <2>6, FreshInvOf DEF ConnectionInv
    <3>2. \A q \in Connectors : attempt'[q].on = n /\ attempt'[q].pc # "closing" =>
            attempt[q].on = n /\ attempt[q].pc # "closing" /\ attempt'[q].value = attempt[q].value
      BY <1>1, <1>4
    <3>3. QED
      BY <3>1, <3>2, <2>1, <2>2
  <2>7. QED
    BY <2>5, <2>6, <1>2, FreshInvNext
<1>14. QED
  BY <1>7, <1>8, <1>9, <1>10, <1>11, <1>12, <1>13 DEF ConnectionInv

\* The turn or a refresh connects: the manager holds the client, and its tools use it.
LEMMA ConnectedKeeps ==
  ASSUME McpTypeOK, ConnectionInv, NEW p \in {Turn} \cup Refreshers, Connected(p), UNCHANGED row
  PROVE  McpTypeOK' /\ ConnectionInv'
<1> DEFINE c == Min(unusedClients)
<1>1. c \in Clients /\ client[c].state = "unused" /\ attempt[p].pc = "connecting"
  BY FreshClient DEF Connected
<1>t. p \in Connectors /\ p \notin Calls /\ c # NoClient /\ NoClient \notin Clients
  BY <1>1, McpNames DEF Connectors
<1>0. PICK m \in Managers : m = attempt[p].on
  BY <1>1, <1>t, ConnectingOn
<1>2. /\ attempt' = [attempt EXCEPT ![p] = Idle]
      /\ client' = opened(p, c)
      /\ manager' = [manager EXCEPT ![m].client = c, ![m].live = c]
      /\ registered' = IF p = Turn THEN m ELSE registered
      /\ cached' = m
      /\ due' = IF p \in Refreshers THEN told(p) ELSE due
      /\ UNCHANGED <<secret, closing, met, drops>>
  BY <1>0, <1>t DEF Connected, Concluded
<1> HIDE DEF c
<1>3. /\ m = attempt[p].on /\ manager[m].made /\ p \in acting(m) /\ attempt[p].new = NoClient
  BY <1>0, <1>1, <1>t, ConnectingOn
<1>4. /\ attempt' \in [Connectors -> AttemptTypes] /\ attempt'[p] = Idle
      /\ \A q \in Connectors : q # p => attempt'[q] = attempt[q]
      /\ \A q \in Calls : attempt'[q] = attempt[q]
  <2>1. Idle \in AttemptTypes
    BY TypesOf, McpNames DEF Idle, AttemptTypes, AttemptStates
  <2>2. QED
    BY <1>2, <1>t, <2>1, TypesOf, McpNames DEF Connectors
<1>i. Idle.pc = "none" /\ Idle.on = NoManager /\ Idle.new = NoClient /\ Idle.asked = 0
  BY DEF Idle
<1>5. /\ \A n \in Managers : manager[n].client # c /\ manager[n].live # c
      /\ \A q \in Connectors : attempt[q].new # c
  BY <1>1, <1>3, <1>t, TypesOf DEF ConnectionInv, MadeInv, ManagerTypes
<1>6. /\ client' \in [Clients -> ClientTypes]
      /\ client'[c].state = "open" /\ client'[c].of = m /\ client'[c].value = attempt[p].value
      /\ \A d \in Clients : d # c => client'[d] = client[d]
  BY <1>1, <1>2, <1>3, <1>t, OpenedFacts
<1>m. /\ manager' \in [Managers -> ManagerTypes]
      /\ manager'[m].made /\ manager'[m].client = c /\ manager'[m].live = c
      /\ \A n \in Managers : n # m => manager'[n] = manager[n]
  BY <1>1, <1>2, <1>3, TypesOf DEF ManagerTypes
<1>r. registered' \in {m, registered} /\ (registered' # registered => p = Turn /\ registered = NoManager)
  BY <1>1, <1>2 DEF ConnectionInv, AloneInv
<1>d. due' \in 0..secret /\ due <= due' /\ (due' = due \/ (p \in Refreshers /\ due' = attempt[p].asked))
  BY <1>2, <1>t, ToldFacts, TypesOf
<1>a. /\ \A n \in Managers : n # m => acting(n)' = acting(n)
      /\ p \notin acting(m)' /\ acting(m)' \subseteq acting(m)
  BY <1>2, <1>3, <1>4, <1>i, <1>t, McpNames DEF acting
<1>b. m \notin met => acting(m)' = {}
  BY <1>3, <1>a DEF ConnectionInv, AloneInv
<1>7. McpTypeOK'
  BY <1>2, <1>3, <1>4, <1>6, <1>d, <1>m, TypesOf
     DEF McpTypeOK, AttemptTypes, ClientTypes, ManagerTypes
<1>8. AttemptInv'
  BY <1>2, <1>4, <1>i, <1>t, TypesOf, McpNames DEF ConnectionInv, AttemptInv, Pcs, AttemptTypes
<1>9. MadeInv'
  <2>1. ASSUME NEW n \in Managers, ~ manager'[n].made
        PROVE  /\ manager'[n].client = NoClient /\ manager'[n].live = NoClient
               /\ acting(n)' = {} /\ registered' # n
    BY <2>1, <1>m, <1>a, <1>r DEF ConnectionInv, MadeInv
  <2>2. \A d \in Clients : client[d].state # "unused" => client'[d].state # "unused"
    BY <1>6
  <2>3. \A n \in Managers : manager'[n].client \in Clients \cup {NoClient}
                            /\ manager'[n].live \in Clients \cup {NoClient}
    BY <1>m DEF ManagerTypes
  <2>4. ASSUME NEW n \in Managers
        PROVE  /\ manager'[n].client # NoClient => client'[manager'[n].client].state # "unused"
               /\ manager'[n].live # NoClient => client'[manager'[n].live].state # "unused"
    BY <2>2, <2>3, <1>6, <1>m DEF ConnectionInv, MadeInv
  <2>5. ASSUME NEW q \in Connectors, attempt'[q].new # NoClient
        PROVE  client'[attempt'[q].new].state # "unused"
    BY <2>2, <2>5, <1>4, <1>i, TypesOf DEF ConnectionInv, MadeInv, AttemptTypes
  <2>6. QED
    BY <2>1, <2>4, <2>5 DEF MadeInv
<1>10. AloneInv'
  <2>1. \A n \in Managers : n \notin met => \A q, s \in acting(n)' : q = s
    BY <1>a, <1>b DEF ConnectionInv, AloneInv
  <2>2. \A n \in Managers : n \notin met =>
          \A q \in Calls \cup Refreshers : attempt'[q].on = n => registered' = n
    BY <1>3, <1>4, <1>i, <1>r, <1>t, McpNames DEF ConnectionInv, AloneInv, Connectors
  <2>3. \A n \in Managers, k \in Closers : n \notin met /\ closing[k] = n => registered' # n
    BY <1>2, <1>b, <1>r DEF ConnectionInv, AloneInv, acting
  <2>4. attempt'[Turn].pc = "connecting" => registered' = NoManager
    BY <1>4, <1>i, <1>r DEF ConnectionInv, AloneInv, Connectors
  <2>5. QED
    BY <1>2, <2>1, <2>2, <2>3, <2>4 DEF AloneInv
<1>11. SpareInv'
  <2>1. \A n \in Managers : Spare(manager[n].client) => SpareNext(manager[n].client)
    BY <1>5, <1>6, TypesOf DEF Spare, SpareNext, ManagerTypes
  <2>2. \A n \in Managers : OpenNext(manager[n].live) => Open(manager[n].live)
    BY <1>5, <1>6, TypesOf DEF Open, OpenNext, ManagerTypes
  <2>3. ASSUME NEW n \in Managers, n \notin met
        PROVE  /\ registered' # n => SpareNext(manager'[n].client)
               /\ \A q \in acting(n)' :
                    ~ (q \in Calls /\ attempt'[q].pc = "connecting") => SpareNext(manager'[n].client)
               /\ manager'[n].live = manager'[n].client \/ ~ OpenNext(manager'[n].live)
    <3>1. CASE n = m
      <4>1. registered' = m
        BY <1>2, <1>3, <1>t, <2>3, <3>1 DEF ConnectionInv, AloneInv
      <4>2. QED
        BY <3>1, <4>1, <1>b, <1>m, <2>3
    <3>2. CASE n # m
      <4>1. registered' # n => registered # n
        BY <1>r, <3>2, McpNames
      <4>2. /\ registered # n => Spare(manager[n].client)
            /\ \A q \in acting(n) :
                 ~ (q \in Calls /\ attempt[q].pc = "connecting") => Spare(manager[n].client)
            /\ manager[n].live = manager[n].client \/ ~ Open(manager[n].live)
        BY <2>3, SpareInvOf DEF ConnectionInv
      <4>3. acting(n)' = acting(n) /\ manager'[n] = manager[n]
        BY <3>2, <1>a, <1>m
      <4>4. QED
        BY <4>1, <4>2, <4>3, <1>4, <2>1, <2>2
    <3>3. QED
      BY <3>1, <3>2
  <2>4. QED
    BY <1>2, <2>3, SpareInvNext
<1>12. HeldInv'
  <2>1. ASSUME NEW d \in Clients, client'[d].state \in {"open", "dropped"}
        PROVE  /\ client'[d].of \in Managers
               /\ \/ client'[d].of \in met
                  \/ manager'[client'[d].of].client = d
                  \/ \E q \in Calls : attempt'[q].new = d /\ attempt'[q].on = client'[d].of
    <3>1. CASE d = c
      BY <3>1, <1>3, <1>6, <1>m
    <3>2. CASE d # c
      <4>1. client'[d] = client[d]
        BY <3>2, <1>6
      <4>2. /\ client[d].of \in Managers
            /\ \/ client[d].of \in met
               \/ manager[client[d].of].client = d
               \/ \E q \in Calls : attempt[q].new = d /\ attempt[q].on = client[d].of
        BY <2>1, <4>1 DEF ConnectionInv, HeldInv
      <4>3. m \notin met => Spare(manager[m].client)
        BY <1>3, <1>t, SpareInvOf DEF ConnectionInv
      <4>4. m \notin met => manager[m].client # d
        BY <4>1, <4>3, <2>1, <1>t DEF Spare
      <4>5. QED
        BY <4>1, <4>2, <4>4, <1>4, <1>m
    <3>3. QED
      BY <3>1, <3>2
  <2>2. QED
    BY <2>1, <1>2, HeldInvNext
<1>13. FreshInv'
  <2>1. ASSUME NEW v \in Nat, Fresh(v)
        PROVE  FreshNext(v)
    <3>1. \A q \in Refreshers : attempt'[q].pc \in {"closing", "connecting"} =>
            attempt[q].pc \in {"closing", "connecting"} /\ attempt'[q].asked = attempt[q].asked
      BY <1>4, <1>i DEF Connectors
    <3>2. due' <= v
      BY <2>1, <1>1, <1>d DEF Fresh
    <3>3. QED
      BY <2>1, <3>1, <3>2 DEF Fresh, FreshNext
  <2>2. \A n \in Managers : OpenNext(manager[n].live) =>
          Open(manager[n].live) /\ client'[manager[n].live].value = client[manager[n].live].value
    BY <1>5, <1>6, TypesOf DEF Open, OpenNext, ManagerTypes
  <2>3. \A q \in Calls : OpenNext(attempt'[q].new) =>
          client'[attempt'[q].new].value = attempt'[q].value
    BY <1>4, <1>5, <1>6, TypesOf
       DEF ConnectionInv, FreshInv, Open, OpenNext, AttemptTypes, Connectors
  <2>4. /\ \A q \in Connectors : attempt[q].value \in Nat
        /\ \A d \in Clients : client[d].value \in Nat
    BY TypesOf, McpNames DEF AttemptTypes, ClientTypes
  <2>5. ASSUME row \in Live, NEW n \in Managers, n \notin met
        PROVE  /\ \A q \in Connectors :
                    attempt'[q].on = n /\ attempt'[q].pc # "closing" => FreshNext(attempt'[q].value)
               /\ OpenNext(manager'[n].live) => FreshNext(client'[manager'[n].live].value)
    <3>1. /\ \A q \in Connectors :
               attempt[q].on = n /\ attempt[q].pc # "closing" => Fresh(attempt[q].value)
          /\ Open(manager[n].live) => Fresh(client[manager[n].live].value)
      BY <2>5, FreshInvOf DEF ConnectionInv
    <3>2. \A q \in Connectors : attempt'[q].on = n => attempt'[q] = attempt[q]
      BY <1>4, <1>i, McpNames
    <3>3. CASE n = m
      BY <3>1, <3>2, <3>3, <2>1, <2>4, <1>1, <1>3, <1>6, <1>m, <1>t
    <3>4. CASE n # m
      <4>1. Open(manager[n].live) => client[manager[n].live].value \in Nat
        BY <2>4, TypesOf DEF Open, ManagerTypes
      <4>2. QED
        BY <3>1, <3>2, <3>4, <4>1, <2>1, <2>2, <2>4, <1>m
    <3>5. QED
      BY <3>3, <3>4
  <2>6. QED
    BY <2>3, <2>5, <1>2, FreshInvNext
<1>14. QED
  BY <1>7, <1>8, <1>9, <1>10, <1>11, <1>12, <1>13 DEF ConnectionInv

\* A connect that fails leaves the manager as it was; a call may try again.
LEMMA NotConnectedKeeps ==
  ASSUME McpTypeOK, ConnectionInv, NEW p \in Connectors, NotConnected(p), UNCHANGED row
  PROVE  McpTypeOK' /\ ConnectionInv'
<1>1. attempt[p].pc = "connecting" /\ UNCHANGED <<secret, manager, client, closing, met, drops>>
  BY DEF NotConnected
<1>0. PICK m \in Managers : m = attempt[p].on
  BY <1>1, ConnectingOn
<1>3. manager[m].made /\ p \in acting(m) /\ attempt[p].new = NoClient
  BY <1>0, <1>1, ConnectingOn
<1>i. Idle.pc = "none" /\ Idle.on = NoManager /\ Idle.new = NoClient /\ Idle.asked = 0
  BY DEF Idle
<1>4. /\ attempt' \in [Connectors -> AttemptTypes]
      /\ \/ attempt'[p] = Idle
         \/ /\ p \in Calls /\ attempt'[p].pc = "connecting" /\ attempt'[p].on = m
            /\ attempt'[p].new = NoClient /\ attempt'[p].value = secret
            /\ attempt'[p].asked = attempt[p].asked
      /\ \A q \in Connectors : q # p => attempt'[q] = attempt[q]
  <2>1. Idle \in AttemptTypes
    BY TypesOf, McpNames DEF Idle, AttemptTypes, AttemptStates
  <2>2. CASE attempt' = [attempt EXCEPT ![p] = Idle]
    BY <2>1, <2>2, TypesOf
  <2>3. CASE p \in Calls /\ attempt' = [attempt EXCEPT ![p].value = resolved(p)]
    BY <2>3, <1>0, <1>1, <1>3, TypesOf DEF resolved, AttemptTypes
  <2>4. QED
    BY <2>2, <2>3 DEF NotConnected
<1>r. /\ registered' \in Managers \cup {NoManager} /\ cached' \in Managers \cup {NoManager}
      /\ registered' \in {m, registered}
      /\ registered' # registered => p = Turn /\ registered = NoManager
      /\ p = Turn => registered' = m /\ attempt'[Turn] = Idle
  BY <1>0, <1>1, TypesOf, McpNames DEF NotConnected, ConnectionInv, AloneInv, McpTypeOK, Connectors
<1>d. /\ due' \in 0..secret /\ due <= due'
      /\ due' = due \/ (p \in Refreshers /\ due' = attempt[p].asked)
  BY ToldFacts, TypesOf DEF NotConnected
<1>a. /\ \A n \in Managers : acting(n)' \subseteq acting(n)
      /\ \A n \in Managers : n # m => acting(n)' = acting(n)
      /\ p \notin Calls => p \notin acting(m)'
  BY <1>0, <1>1, <1>4, <1>i, McpNames DEF acting, Connectors
<1>7. McpTypeOK'
  BY <1>1, <1>4, <1>d, <1>r, TypesOf DEF McpTypeOK, AttemptTypes
<1>8. AttemptInv'
  BY <1>0, <1>1, <1>4, <1>i, TypesOf, McpNames
     DEF ConnectionInv, AttemptInv, Pcs, AttemptTypes, Connectors
<1>9. MadeInv'
  BY <1>1, <1>3, <1>4, <1>i, <1>a, <1>r DEF ConnectionInv, MadeInv
<1>10. AloneInv'
  <2>1. \A n \in Managers : n \notin met => \A q, s \in acting(n)' : q = s
    BY <1>a DEF ConnectionInv, AloneInv
  <2>2. \A n \in Managers : n \notin met =>
          \A q \in Calls \cup Refreshers : attempt'[q].on = n => registered' = n
    <3>1. \A q \in Connectors : attempt'[q].on \in {attempt[q].on, NoManager}
      BY <1>0, <1>4, <1>i
    <3>2. QED
      BY <1>r, <3>1, McpNames DEF ConnectionInv, AloneInv, Connectors
  <2>3. \A n \in Managers, k \in Closers : n \notin met /\ closing[k] = n => registered' # n
    <3>1. ASSUME NEW n \in Managers, NEW k \in Closers, n \notin met, closing[k] = n, n = m
          PROVE  FALSE
      <4>1. k \in acting(m) /\ k # p
        BY <3>1, McpNames DEF acting, Connectors
      <4>2. QED
        BY <3>1, <4>1, <1>3 DEF ConnectionInv, AloneInv
    <3>2. QED
      BY <3>1, <1>r DEF ConnectionInv, AloneInv
  <2>4. attempt'[Turn].pc = "connecting" => registered' = NoManager
    BY <1>4, <1>i, <1>r DEF ConnectionInv, AloneInv, Connectors
  <2>5. QED
    BY <1>1, <2>1, <2>2, <2>3, <2>4 DEF AloneInv
<1>11. SpareInv'
  <2>1. ASSUME NEW n \in Managers, n \notin met
        PROVE  /\ registered' # n => SpareNext(manager[n].client)
               /\ \A q \in acting(n)' :
                    ~ (q \in Calls /\ attempt'[q].pc = "connecting") => SpareNext(manager[n].client)
               /\ manager[n].live = manager[n].client \/ ~ OpenNext(manager[n].live)
    <3>1. /\ registered # n => Spare(manager[n].client)
          /\ \A q \in acting(n) :
               ~ (q \in Calls /\ attempt[q].pc = "connecting") => Spare(manager[n].client)
          /\ manager[n].live = manager[n].client \/ ~ Open(manager[n].live)
      BY <2>1, SpareInvOf DEF ConnectionInv
    <3>2. \A q \in acting(n)' : q \in acting(n) /\
            (q \in Calls /\ attempt[q].pc = "connecting" => attempt'[q].pc = "connecting")
      BY <1>a, <1>4, <1>i, McpNames DEF acting, Connectors
    <3>3. registered' # n => registered # n
      BY <1>r, McpNames
    <3>4. QED
      BY <3>1, <3>2, <3>3, <1>1 DEF Spare, SpareNext, Open, OpenNext
  <2>2. QED
    BY <2>1, <1>1, SpareInvNext
<1>12. HeldInv'
  BY <1>1, <1>3, <1>4, McpNames DEF ConnectionInv, HeldInv, Connectors
<1>13. FreshInv'
  <2>0. /\ \A q \in Connectors : attempt[q].value \in Nat /\ attempt[q].asked \in Nat
        /\ \A d \in Clients : client[d].value \in Nat
        /\ \A n \in Managers : manager[n].live \in Clients \cup {NoClient}
    BY TypesOf, McpNames DEF AttemptTypes, ClientTypes, ManagerTypes
  <2>1. \A q \in Refreshers : attempt'[q].pc \in {"closing", "connecting"} =>
            attempt[q].pc \in {"closing", "connecting"} /\ attempt'[q].asked = attempt[q].asked
    BY <1>4, <1>i, McpNames DEF Connectors
  <2>2. ASSUME NEW v \in Nat, Fresh(v)
        PROVE  FreshNext(v)
    <3>1. due' <= v
      BY <2>2, <1>1, <1>d DEF Fresh
    <3>2. QED
      BY <2>2, <2>1, <3>1 DEF Fresh, FreshNext
  <2>3. FreshNext(secret)
    BY <2>1, <1>d, TypesOf DEF FreshNext, ConnectionInv, AttemptInv, Connectors
  <2>4. \A q \in Calls : OpenNext(attempt'[q].new) =>
          client'[attempt'[q].new].value = attempt'[q].value
    BY <1>1, <1>4, <1>i DEF ConnectionInv, FreshInv, Open, OpenNext, Connectors
  <2>5. ASSUME row \in Live, NEW n \in Managers, n \notin met
        PROVE  /\ \A q \in Connectors :
                    attempt'[q].on = n /\ attempt'[q].pc # "closing" => FreshNext(attempt'[q].value)
               /\ OpenNext(manager[n].live) => FreshNext(client[manager[n].live].value)
    <3>1. /\ \A q \in Connectors :
               attempt[q].on = n /\ attempt[q].pc # "closing" => Fresh(attempt[q].value)
          /\ Open(manager[n].live) => Fresh(client[manager[n].live].value)
      BY <2>5, FreshInvOf DEF ConnectionInv
    <3>2. \A q \in Connectors : attempt'[q].on = n =>
            attempt'[q] = attempt[q] \/ attempt'[q].value = secret
      BY <1>4, <1>i, McpNames
    <3>3. OpenNext(manager[n].live) =>
            Open(manager[n].live) /\ client[manager[n].live].value \in Nat
      BY <1>1, <2>0 DEF Open, OpenNext
    <3>4. QED
      BY <3>1, <3>2, <3>3, <2>0, <2>2, <2>3
  <2>6. QED
    BY <2>4, <2>5, <1>1, FreshInvNext
<1>14. QED
  BY <1>7, <1>8, <1>9, <1>10, <1>11, <1>12, <1>13 DEF ConnectionInv

\* A reconnect installs its client in the place of the one that has closed.
LEMMA ReplacedKeeps ==
  ASSUME McpTypeOK, ConnectionInv, NEW p \in Calls, Replaced(p), UNCHANGED row
  PROVE  McpTypeOK' /\ ConnectionInv'
<1>t. p \in Connectors /\ p # Turn /\ p \notin Refreshers /\ NoClient \notin Clients
  BY McpNames DEF Connectors
<1>1. attempt[p].pc = "replacing"
      /\ UNCHANGED <<secret, due, client, registered, cached, closing, met, drops>>
  BY DEF Replaced
<1>0. PICK m \in Managers : m = attempt[p].on
  BY <1>1, <1>t, ConnectingOn
<1>2. PICK c \in Clients \cup {NoClient} : c = attempt[p].new
  BY <1>t, TypesOf DEF AttemptTypes
<1>3. manager[m].made /\ p \in acting(m)
  BY <1>0, <1>1, <1>t, ConnectingOn
<1>i. Idle.pc = "none" /\ Idle.on = NoManager /\ Idle.new = NoClient /\ Idle.asked = 0
  BY DEF Idle
<1>4. /\ attempt' \in [Connectors -> AttemptTypes] /\ attempt'[p] = Idle
      /\ \A q \in Connectors : q # p => attempt'[q] = attempt[q]
  <2>1. Idle \in AttemptTypes
    BY TypesOf, McpNames DEF Idle, AttemptTypes, AttemptStates
  <2>2. QED
    BY <2>1, <1>t, TypesOf DEF Replaced
<1>m. /\ manager' \in [Managers -> ManagerTypes]
      /\ manager'[m].made /\ manager'[m].client = c /\ manager'[m].live = c
      /\ \A n \in Managers : n # m => manager'[n] = manager[n]
  BY <1>0, <1>2, <1>3, TypesOf DEF ManagerTypes, Replaced
<1>a. /\ \A n \in Managers : n # m => acting(n)' = acting(n)
      /\ p \notin acting(m)' /\ acting(m)' \subseteq acting(m)
  BY <1>0, <1>1, <1>4, <1>i, <1>t, McpNames DEF acting
<1>b. m \notin met => acting(m)' = {} /\ registered = m
  BY <1>0, <1>3, <1>a DEF ConnectionInv, AloneInv
<1>7. McpTypeOK'
  BY <1>1, <1>4, <1>m DEF McpTypeOK, AttemptTypes, ManagerTypes
<1>8. AttemptInv'
  BY <1>1, <1>4, <1>i, <1>t, TypesOf, McpNames DEF ConnectionInv, AttemptInv, Pcs, AttemptTypes
<1>9. MadeInv'
  <2>1. ASSUME NEW n \in Managers, ~ manager'[n].made
        PROVE  /\ manager'[n].client = NoClient /\ manager'[n].live = NoClient
               /\ acting(n)' = {} /\ registered' # n
    BY <2>1, <1>1, <1>m, <1>a DEF ConnectionInv, MadeInv
  <2>2. c # NoClient => client[c].state # "unused"
    BY <1>2, <1>t DEF ConnectionInv, MadeInv
  <2>3. QED
    BY <2>1, <2>2, <1>1, <1>4, <1>i, <1>m DEF ConnectionInv, MadeInv
<1>10. AloneInv'
  BY <1>1, <1>4, <1>i, <1>a, <1>b, <1>t, McpNames DEF ConnectionInv, AloneInv, Connectors
<1>11. SpareInv'
  <2>1. ASSUME NEW n \in Managers, n \notin met
        PROVE  /\ registered # n => SpareNext(manager'[n].client)
               /\ \A q \in acting(n)' :
                    ~ (q \in Calls /\ attempt'[q].pc = "connecting") => SpareNext(manager'[n].client)
               /\ manager'[n].live = manager'[n].client \/ ~ OpenNext(manager'[n].live)
    <3>1. CASE n = m
      BY <3>1, <2>1, <1>b, <1>m
    <3>2. CASE n # m
      <4>1. /\ registered # n => Spare(manager[n].client)
            /\ \A q \in acting(n) :
                 ~ (q \in Calls /\ attempt[q].pc = "connecting") => Spare(manager[n].client)
            /\ manager[n].live = manager[n].client \/ ~ Open(manager[n].live)
        BY <2>1, SpareInvOf DEF ConnectionInv
      <4>2. acting(n)' = acting(n) /\ manager'[n] = manager[n]
        BY <3>2, <1>a, <1>m
      <4>3. \A q \in acting(n) : q \in Calls => attempt'[q].pc = attempt[q].pc
        BY <3>2, <1>0, <1>4, McpNames DEF acting, Connectors
      <4>4. QED
        BY <4>1, <4>2, <4>3, <1>1 DEF Spare, SpareNext, Open, OpenNext
    <3>3. QED
      BY <3>1, <3>2
  <2>2. QED
    BY <2>1, <1>1, SpareInvNext
<1>12. HeldInv'
  <2>1. ASSUME NEW d \in Clients, client[d].state \in {"open", "dropped"}
        PROVE  /\ client[d].of \in Managers
               /\ \/ client[d].of \in met
                  \/ manager'[client[d].of].client = d
                  \/ \E q \in Calls : attempt'[q].new = d /\ attempt'[q].on = client[d].of
    <3>1. /\ client[d].of \in Managers
          /\ \/ client[d].of \in met
             \/ manager[client[d].of].client = d
             \/ \E q \in Calls : attempt[q].new = d /\ attempt[q].on = client[d].of
      BY <2>1 DEF ConnectionInv, HeldInv
    <3>2. m \notin met => Spare(manager[m].client)
      BY <1>1, <1>3, <1>t, SpareInvOf DEF ConnectionInv
    <3>3. m \notin met => manager[m].client # d
      BY <2>1, <3>2, <1>t DEF Spare
    <3>4. \A q \in Calls : attempt[q].new = d /\ attempt[q].on = client[d].of =>
            manager'[client[d].of].client = d \/ attempt'[q] = attempt[q]
      BY <1>0, <1>2, <1>4, <1>m DEF Connectors
    <3>5. QED
      BY <3>1, <3>3, <3>4, <1>m
  <2>2. QED
    BY <2>1, <1>1, HeldInvNext
<1>13. FreshInv'
  <2>1. \A v : Fresh(v) => FreshNext(v)
    BY <1>1, <1>4, <1>t DEF Fresh, FreshNext, Connectors
  <2>2. \A q \in Calls : OpenNext(attempt'[q].new) =>
          client'[attempt'[q].new].value = attempt'[q].value
    BY <1>1, <1>4, <1>i DEF ConnectionInv, FreshInv, Open, OpenNext, Connectors
  <2>3. OpenNext(c) => client[c].value = attempt[p].value
    BY <1>1, <1>2 DEF ConnectionInv, FreshInv, Open, OpenNext
  <2>4. ASSUME row \in Live, NEW n \in Managers, n \notin met
        PROVE  /\ \A q \in Connectors :
                    attempt'[q].on = n /\ attempt'[q].pc # "closing" => FreshNext(attempt'[q].value)
               /\ OpenNext(manager'[n].live) => FreshNext(client[manager'[n].live].value)
    <3>1. /\ \A q \in Connectors :
               attempt[q].on = n /\ attempt[q].pc # "closing" => Fresh(attempt[q].value)
          /\ Open(manager[n].live) => Fresh(client[manager[n].live].value)
      BY <2>4, FreshInvOf DEF ConnectionInv
    <3>2. \A q \in Connectors : attempt'[q].on = n => attempt'[q] = attempt[q]
      BY <1>4, <1>i, McpNames
    <3>3. CASE n = m
      BY <3>1, <3>2, <3>3, <2>1, <2>3, <1>0, <1>1, <1>m, <1>t
    <3>4. CASE n # m
      BY <3>1, <3>2, <3>4, <2>1, <1>1, <1>m DEF Open, OpenNext
    <3>5. QED
      BY <3>3, <3>4
  <2>5. QED
    BY <2>2, <2>4, <1>1, FreshInvNext
<1>14. QED
  BY <1>7, <1>8, <1>9, <1>10, <1>11, <1>12, <1>13 DEF ConnectionInv

\* The transport of a client breaks: it still has to be closed.
LEMMA DropKeeps ==
  ASSUME McpTypeOK, ConnectionInv, NEW c \in Clients, Drop(c), UNCHANGED row
  PROVE  McpTypeOK' /\ ConnectionInv'
<1>1. /\ client[c].state = "open" /\ drops < MaxDrops /\ drops' = drops + 1
      /\ client' = [client EXCEPT ![c].state = "dropped"]
      /\ UNCHANGED <<secret, due, manager, registered, cached, attempt, closing, met>>
  BY DEF Drop
<1>2. /\ client' \in [Clients -> ClientTypes]
      /\ \A d \in Clients : /\ client'[d].of = client[d].of /\ client'[d].value = client[d].value
                            /\ client'[d].state = IF d = c THEN "dropped" ELSE client[d].state
  BY <1>1, TypesOf DEF ClientTypes
<1>3. /\ \A n \in Managers : acting(n)' = acting(n)
      /\ \A v : Fresh(v) => FreshNext(v)
  BY <1>1 DEF acting, Fresh, FreshNext
<1>4. \A d \in Clients \cup {NoClient} :
         /\ Spare(d) => SpareNext(d)
         /\ OpenNext(d) => Open(d) /\ client'[d].value = client[d].value
         /\ d # NoClient => (client[d].state # "unused" => client'[d].state # "unused")
  BY <1>1, <1>2 DEF Spare, SpareNext, Open, OpenNext
<1>5. /\ \A n \in Managers : manager[n].client \in Clients \cup {NoClient}
                             /\ manager[n].live \in Clients \cup {NoClient}
      /\ \A q \in Connectors : attempt[q].new \in Clients \cup {NoClient}
  BY TypesOf DEF ManagerTypes, AttemptTypes
<1>7. McpTypeOK'
  BY <1>1, <1>2, McpNames DEF McpTypeOK, ClientTypes
<1>8. AttemptInv'
  BY <1>1 DEF ConnectionInv, AttemptInv
<1>9. MadeInv'
  BY <1>1, <1>3, <1>4, <1>5 DEF ConnectionInv, MadeInv
<1>10. AloneInv'
  BY <1>1, <1>3 DEF ConnectionInv, AloneInv
<1>11. SpareInv'
  BY <1>1, <1>3, <1>4, <1>5, SpareInvNext DEF ConnectionInv, SpareInv
<1>12. HeldInv'
  BY <1>1, <1>2 DEF ConnectionInv, HeldInv
<1>13. FreshInv'
  BY <1>1, <1>3, <1>4, <1>5, FreshInvNext DEF ConnectionInv, FreshInv, Connectors
<1>14. QED
  BY <1>7, <1>8, <1>9, <1>10, <1>11, <1>12, <1>13 DEF ConnectionInv

\* Nothing works on a manager that is not the session's, but a turn that connects
\* its own, and no tool has an open client of it.
LEMMA Untouched ==
  ASSUME McpTypeOK, ConnectionInv, NEW n \in Managers, n \notin met, registered # n,
         attempt[Turn].on # n
  PROVE  (\A q \in Connectors : attempt[q].on # n) /\ ~ Open(manager[n].live)
<1>1. \A q \in Connectors : attempt[q].on # n
  BY DEF ConnectionInv, AloneInv, Connectors
<1>2. Spare(manager[n].client) /\ (manager[n].live = manager[n].client \/ ~ Open(manager[n].live))
  BY SpareInvOf DEF ConnectionInv
<1>3. QED
  BY <1>1, <1>2 DEF Spare, Open

LEMMA TurnOn ==
  ASSUME McpTypeOK, ConnectionInv
  PROVE  /\ attempt[Turn].on \in Managers <=> attempt[Turn].pc = "connecting"
         /\ attempt[Turn].on \in Managers => registered = NoManager
BY TypesOf, McpNames DEF ConnectionInv, AttemptInv, AloneInv, Pcs, AttemptTypes, Connectors

\* A refresh that finds no manager has nothing to do, but meets a turn that connects.
LEMMA RefreshMissesKeeps ==
  ASSUME McpTypeOK, ConnectionInv, NEW r \in Refreshers, RefreshSession(r), UNCHANGED row,
         registered = NoManager
  PROVE  McpTypeOK' /\ ConnectionInv'
<1>1. /\ attempt[r].pc = "queued" /\ attempt' = [attempt EXCEPT ![r] = Idle]
      /\ due' = told(r) /\ met' = missed
      /\ UNCHANGED <<client, secret, manager, registered, cached, closing, drops>>
  BY DEF RefreshSession, refreshable
<1>t. r \in Connectors /\ r # Turn /\ r \notin Calls
  BY McpNames DEF Connectors
<1>i. /\ Idle.pc = "none" /\ Idle.on = NoManager /\ Idle.new = NoClient /\ Idle.asked = 0
      /\ attempt[r].on = NoManager /\ attempt[r].new = NoClient
  BY <1>1, <1>t DEF Idle, ConnectionInv, AttemptInv
<1>2. /\ attempt' \in [Connectors -> AttemptTypes] /\ attempt'[r] = Idle
      /\ \A q \in Connectors : q # r => attempt'[q] = attempt[q]
  <2>1. Idle \in AttemptTypes
    BY TypesOf, McpNames DEF Idle, AttemptTypes, AttemptStates
  <2>2. QED
    BY <1>1, <1>t, <2>1, TypesOf
<1>3. /\ met \subseteq met' /\ met' \subseteq Managers
      /\ attempt[Turn].on \in Managers => attempt[Turn].on \in met'
  BY <1>1, TurnOn, TypesOf, McpNames DEF missed, Connectors, AttemptTypes
<1>4. due' \in 0..secret
  BY <1>1, <1>t, ToldFacts
<1>5. \A n \in Managers : acting(n)' = acting(n)
  BY <1>1, <1>2, <1>i, McpNames DEF acting
<1>7. McpTypeOK'
  BY <1>1, <1>2, <1>3, <1>4 DEF McpTypeOK, AttemptTypes
<1>8. AttemptInv'
  BY <1>1, <1>2, <1>i, <1>t, TypesOf, McpNames DEF ConnectionInv, AttemptInv, Pcs
<1>9. MadeInv'
  BY <1>1, <1>2, <1>5, <1>i DEF ConnectionInv, MadeInv
<1>10. AloneInv'
  BY <1>1, <1>2, <1>3, <1>5, <1>i, <1>t, McpNames DEF ConnectionInv, AloneInv, Connectors
<1>11. SpareInv'
  <2>1. \A n \in Managers : \A q \in acting(n) : q \in Calls => attempt'[q].pc = attempt[q].pc
    BY <1>2, <1>t DEF Connectors
  <2>2. QED
    BY <1>1, <1>3, <1>5, <2>1, SpareInvNext
       DEF ConnectionInv, SpareInv, Spare, SpareNext, Open, OpenNext
<1>12. HeldInv'
  BY <1>1, <1>2, <1>3, <1>t DEF ConnectionInv, HeldInv, Connectors
<1>13. FreshInv'
  <2>1. \A q \in Calls : OpenNext(attempt'[q].new) =>
          client'[attempt'[q].new].value = attempt'[q].value
    BY <1>1, <1>2, <1>t DEF ConnectionInv, FreshInv, Open, OpenNext, Connectors
  <2>2. ASSUME NEW n \in Managers, n \notin met'
        PROVE  (\A q \in Connectors : attempt'[q].on # n) /\ ~ OpenNext(manager'[n].live)
    BY <2>2, <1>1, <1>2, <1>3, <1>i, Untouched, McpNames DEF Open, OpenNext
  <2>3. QED
    BY <2>1, <2>2, FreshInvNext
<1>14. QED
  BY <1>7, <1>8, <1>9, <1>10, <1>11, <1>12, <1>13 DEF ConnectionInv

\* A refresh closes what the session's manager holds.
LEMMA RefreshSessionKeeps ==
  ASSUME McpTypeOK, ConnectionInv, NEW r \in Refreshers, RefreshSession(r), UNCHANGED row,
         registered # NoManager
  PROVE  McpTypeOK' /\ ConnectionInv'
<1>t. r \in Connectors /\ r # Turn /\ r \notin Calls /\ "closing" \in AttemptStates
      /\ NoClient \notin Clients
  BY McpNames DEF Connectors, AttemptStates
<1>0. PICK m \in Managers : m = registered
  BY DEF McpTypeOK
<1>1. /\ attempt[r].pc = "queued" /\ Begin(r, m, "closing")
      /\ client' = shut(client, manager[m].client)
      /\ UNCHANGED <<due, secret, manager, registered, cached, closing, drops>>
  BY <1>0 DEF RefreshSession, refreshable
<1>i. attempt[r].on = NoManager /\ attempt[r].new = NoClient /\ manager[m].made
  BY <1>0, <1>1, <1>t DEF ConnectionInv, AttemptInv, MadeInv
<1>2. /\ attempt' \in [Connectors -> AttemptTypes]
      /\ attempt'[r].pc = "closing" /\ attempt'[r].on = m /\ attempt'[r].value = secret
      /\ attempt'[r].new = NoClient /\ attempt'[r].asked = attempt[r].asked
      /\ \A q \in Connectors : q # r => attempt'[q] = attempt[q]
      /\ met \subseteq met' /\ met' \subseteq met \cup {m} /\ met' \subseteq Managers
      /\ m \notin met' => undisturbed(m, {r})
  BY <1>1, <1>i, <1>t, BeginFacts
<1>3. /\ \A n \in Managers : n # m => acting(n)' = acting(n)
      /\ m \notin met' => acting(m) = {} /\ acting(m)' = {r}
  BY <1>0, <1>1, <1>2, <1>i, <1>t, McpNames DEF acting, undisturbed
<1>4. PICK old \in Clients \cup {NoClient} : old = manager[m].client
  BY TypesOf DEF ManagerTypes
<1>5. /\ client' \in [Clients -> ClientTypes]
      /\ old # NoClient => client'[old].state = "closed"
      /\ \A d \in Clients : d # old => client'[d] = client[d]
  BY <1>1, <1>4, ShutFacts, TypesOf DEF Closed
<1>6. \A d \in Clients \cup {NoClient} :
         /\ Spare(d) => SpareNext(d)
         /\ OpenNext(d) => Open(d) /\ client'[d].value = client[d].value
         /\ d # NoClient => (client[d].state # "unused" => client'[d].state # "unused")
  BY <1>5 DEF Spare, SpareNext, Open, OpenNext
<1>h. /\ \A n \in Managers : manager[n].client \in Clients \cup {NoClient}
                             /\ manager[n].live \in Clients \cup {NoClient}
      /\ \A q \in Connectors : attempt[q].new \in Clients \cup {NoClient}
  BY TypesOf DEF ManagerTypes, AttemptTypes
<1>s. SpareNext(manager[m].client)
  BY <1>4, <1>5 DEF SpareNext
<1>7. McpTypeOK'
  BY <1>1, <1>2, <1>5 DEF McpTypeOK, AttemptTypes, ClientTypes
<1>8. AttemptInv'
  BY <1>1, <1>2, <1>t, McpNames DEF ConnectionInv, AttemptInv, Pcs
<1>9. MadeInv'
  <2>1. \A n \in Managers : ~ manager[n].made => n # m /\ acting(n)' = acting(n)
    BY <1>3, <1>i
  <2>2. \A q \in Connectors : attempt'[q].new # NoClient => attempt'[q].new = attempt[q].new
    BY <1>2
  <2>3. QED
    BY <1>1, <1>6, <1>h, <2>1, <2>2 DEF ConnectionInv, MadeInv
<1>10. AloneInv'
  <2>1. \A q \in Connectors : attempt'[q].on # attempt[q].on => q = r /\ attempt'[q].on = registered
    BY <1>0, <1>2
  <2>2. \A n \in Managers : n \notin met' => \A q, s \in acting(n)' : q = s
    BY <1>2, <1>3 DEF ConnectionInv, AloneInv
  <2>3. QED
    BY <1>1, <1>2, <1>t, <2>1, <2>2, McpNames DEF ConnectionInv, AloneInv, Connectors
<1>11. SpareInv'
  <2>1. ASSUME NEW n \in Managers, n \notin met'
        PROVE  /\ registered # n => SpareNext(manager[n].client)
               /\ \A q \in acting(n)' :
                    ~ (q \in Calls /\ attempt'[q].pc = "connecting") => SpareNext(manager[n].client)
               /\ manager[n].live = manager[n].client \/ ~ OpenNext(manager[n].live)
    <3>1. /\ registered # n => Spare(manager[n].client)
          /\ \A q \in acting(n) :
               ~ (q \in Calls /\ attempt[q].pc = "connecting") => Spare(manager[n].client)
          /\ manager[n].live = manager[n].client \/ ~ Open(manager[n].live)
      BY <2>1, <1>2, SpareInvOf DEF ConnectionInv
    <3>2. CASE n = m
      BY <3>1, <3>2, <1>s, <1>6, <1>h
    <3>3. CASE n # m
      BY <3>1, <3>3, <1>0, <1>6, <1>h
    <3>4. QED
      BY <3>2, <3>3
  <2>2. QED
    BY <2>1, <1>1, SpareInvNext
<1>12. HeldInv'
  <2>1. ASSUME NEW d \in Clients, client'[d].state \in {"open", "dropped"}
        PROVE  client'[d] = client[d]
    BY <2>1, <1>5, <1>t
  <2>2. \A q \in Calls : attempt'[q] = attempt[q]
    BY <1>2, <1>t DEF Connectors
  <2>3. QED
    BY <2>1, <2>2, <1>1, <1>2, HeldInvNext DEF ConnectionInv, HeldInv
<1>13. FreshInv'
  <2>1. \A q \in Calls : OpenNext(attempt'[q].new) =>
          client'[attempt'[q].new].value = attempt'[q].value
    BY <1>2, <1>6, <1>h, <1>t DEF ConnectionInv, FreshInv, Connectors
  <2>2. ASSUME NEW n \in Managers, n \notin met'
        PROVE  /\ \A q \in Connectors : attempt'[q].on = n => attempt'[q].pc = "closing"
               /\ ~ OpenNext(manager'[n].live)
    <3>1. CASE n = m
      <4>1. acting(m)' = {r}
        BY <1>3, <2>2, <3>1
      <4>2. \A q \in Connectors : attempt'[q].on = m => q = r
        BY <4>1 DEF acting
      <4>3. manager[m].live = manager[m].client \/ ~ Open(manager[m].live)
        BY <2>2, <3>1, <1>2, SpareInvOf DEF ConnectionInv
      <4>4. ~ OpenNext(manager[m].live)
        BY <4>3, <1>s, <1>6, <1>h DEF OpenNext, SpareNext
      <4>5. QED
        BY <3>1, <4>2, <4>4, <1>1, <1>2
    <3>2. CASE n # m
      <4>1. (\A q \in Connectors : attempt[q].on # n) /\ ~ Open(manager[n].live)
        <5>1. n \notin met /\ registered # n /\ attempt[Turn].on # n
          BY <2>2, <3>2, <1>0, <1>2, TurnOn, McpNames
        <5>2. QED
          BY <5>1, Untouched
      <4>2. QED
        BY <3>2, <4>1, <1>1, <1>2, <1>6, <1>h
    <3>3. QED
      BY <3>1, <3>2
  <2>3. QED
    BY <2>1, <2>2, FreshInvNext
<1>14. QED
  BY <1>7, <1>8, <1>9, <1>10, <1>11, <1>12, <1>13 DEF ConnectionInv

\* The clients have closed: a refresh connects anew on the manager it works on.
LEMMA RefreshClosedKeeps ==
  ASSUME McpTypeOK, ConnectionInv, NEW r \in Refreshers, RefreshClosed(r), UNCHANGED row
  PROVE  McpTypeOK' /\ ConnectionInv'
<1>t. r \in Connectors /\ r # Turn /\ r \notin Calls /\ "connecting" \in AttemptStates
      /\ NoClient \notin Clients
  BY McpNames DEF Connectors, AttemptStates
<1>1. /\ attempt[r].pc = "closing"
      /\ UNCHANGED <<secret, due, client, registered, cached, closing, drops>>
  BY DEF RefreshClosed
<1>0. PICK m \in Managers : m = attempt[r].on
  BY <1>1, <1>t, ConnectingOn
<1>i. manager[m].made /\ r \in acting(m) /\ attempt[r].new = NoClient
  BY <1>0, <1>1, <1>t, ConnectingOn
<1>2. /\ attempt' \in [Connectors -> AttemptTypes]
      /\ attempt'[r].pc = "connecting" /\ attempt'[r].on = m /\ attempt'[r].value = secret
      /\ attempt'[r].new = NoClient /\ attempt'[r].asked = attempt[r].asked
      /\ \A q \in Connectors : q # r => attempt'[q] = attempt[q]
      /\ met \subseteq met' /\ met' \subseteq met \cup {m} /\ met' \subseteq Managers
  BY <1>0, <1>i, <1>t, BeginFacts DEF RefreshClosed
<1>m. /\ manager' \in [Managers -> ManagerTypes]
      /\ manager'[m].made /\ manager'[m].client = NoClient /\ manager'[m].live = NoClient
      /\ \A n \in Managers : n # m => manager'[n] = manager[n]
  BY <1>0, <1>i, TypesOf DEF ManagerTypes, RefreshClosed
<1>a. \A n \in Managers : acting(n)' = acting(n)
  BY <1>0, <1>1, <1>2 DEF acting
<1>7. McpTypeOK'
  BY <1>1, <1>2, <1>m DEF McpTypeOK, AttemptTypes, ManagerTypes
<1>8. AttemptInv'
  BY <1>1, <1>2, <1>t, McpNames DEF ConnectionInv, AttemptInv, Pcs
<1>9. MadeInv'
  BY <1>1, <1>2, <1>a, <1>m DEF ConnectionInv, MadeInv
<1>10. AloneInv'
  BY <1>0, <1>1, <1>2, <1>a, <1>t DEF ConnectionInv, AloneInv, Connectors
<1>11. SpareInv'
  <2>1. ASSUME NEW n \in Managers, n \notin met'
        PROVE  /\ registered # n => SpareNext(manager'[n].client)
               /\ \A q \in acting(n) :
                    ~ (q \in Calls /\ attempt'[q].pc = "connecting") => SpareNext(manager'[n].client)
               /\ manager'[n].live = manager'[n].client \/ ~ OpenNext(manager'[n].live)
    <3>1. CASE n = m
      BY <3>1, <1>m DEF SpareNext
    <3>2. CASE n # m
      <4>1. /\ registered # n => Spare(manager[n].client)
            /\ \A q \in acting(n) :
                 ~ (q \in Calls /\ attempt[q].pc = "connecting") => Spare(manager[n].client)
            /\ manager[n].live = manager[n].client \/ ~ Open(manager[n].live)
        BY <2>1, <1>2, SpareInvOf DEF ConnectionInv
      <4>2. \A q \in Calls : attempt'[q].pc = attempt[q].pc
        BY <1>2, <1>t DEF Connectors
      <4>3. QED
        BY <3>2, <4>1, <4>2, <1>1, <1>m DEF Spare, SpareNext, Open, OpenNext
    <3>3. QED
      BY <3>1, <3>2
  <2>2. QED
    BY <2>1, <1>1, <1>a, SpareInvNext
<1>12. HeldInv'
  <2>1. ASSUME NEW d \in Clients, client[d].state \in {"open", "dropped"}, m \notin met
        PROVE  manager[m].client # d
    <3>1. Spare(manager[m].client)
      BY <2>1, <1>i, <1>t, SpareInvOf DEF ConnectionInv
    <3>2. QED
      BY <2>1, <3>1, <1>t DEF Spare
  <2>2. \A q \in Calls : attempt'[q] = attempt[q]
    BY <1>2, <1>t DEF Connectors
  <2>3. QED
    BY <2>1, <2>2, <1>1, <1>2, <1>m, HeldInvNext DEF ConnectionInv, HeldInv
<1>13. FreshInv'
  <2>1. \A v : Fresh(v) => FreshNext(v)
    BY <1>1, <1>2 DEF Fresh, FreshNext, Connectors
  <2>2. FreshNext(secret)
    <3>1. Fresh(secret)
      BY TypesOf DEF Fresh, ConnectionInv, AttemptInv, Connectors
    <3>2. QED
      BY <3>1, <2>1
  <2>3. \A q \in Calls : OpenNext(attempt'[q].new) =>
          client'[attempt'[q].new].value = attempt'[q].value
    BY <1>1, <1>2, <1>t DEF ConnectionInv, FreshInv, Open, OpenNext, Connectors
  <2>4. ASSUME row \in Live, NEW n \in Managers, n \notin met'
        PROVE  /\ \A q \in Connectors :
                    attempt'[q].on = n /\ attempt'[q].pc # "closing" => FreshNext(attempt'[q].value)
               /\ OpenNext(manager'[n].live) => FreshNext(client[manager'[n].live].value)
    <3>1. /\ \A q \in Connectors :
               attempt[q].on = n /\ attempt[q].pc # "closing" => Fresh(attempt[q].value)
          /\ Open(manager[n].live) => Fresh(client[manager[n].live].value)
      BY <2>4, <1>2, FreshInvOf DEF ConnectionInv
    <3>2. OpenNext(manager'[n].live) => Open(manager[n].live) /\ manager'[n] = manager[n]
      BY <1>1, <1>m DEF Open, OpenNext
    <3>3. QED
      BY <3>1, <3>2, <2>1, <2>2, <1>2
  <2>5. QED
    BY <2>3, <2>4, <1>1, FreshInvNext
<1>14. QED
  BY <1>7, <1>8, <1>9, <1>10, <1>11, <1>12, <1>13 DEF ConnectionInv

\* The reset meets a turn that connects when there is no manager to forget.
LEMMA CloseMissesKeeps ==
  ASSUME McpTypeOK, ConnectionInv, NEW k \in Closers, CloseManager(k), registered = NoManager,
         UNCHANGED <<manager, attempt, drops, row>>, secret' \in 0..MaxRotations,
         secret <= secret', due' \in 0..secret'
  PROVE  McpTypeOK' /\ ConnectionInv'
<1>1. met' = missed /\ UNCHANGED <<registered, cached, closing, client, manager, attempt, drops, row>>
  BY DEF CloseManager
<1>2. /\ met \subseteq met' /\ met' \subseteq Managers
      /\ attempt[Turn].on \in Managers => attempt[Turn].on \in met'
  BY <1>1, TurnOn, TypesOf, McpNames DEF missed, Connectors, AttemptTypes
<1>3. \A n \in Managers : acting(n)' = acting(n)
  BY <1>1 DEF acting
<1>4. McpTypeOK'
  BY <1>1, <1>2 DEF McpTypeOK
<1>5. AttemptInv'
  BY <1>1, TypesOf, McpNames DEF ConnectionInv, AttemptInv, AttemptTypes
<1>6. MadeInv' /\ AloneInv' /\ SpareInv' /\ HeldInv'
  BY <1>1, <1>2, <1>3 DEF ConnectionInv, MadeInv, AloneInv, SpareInv, HeldInv, Spare, Open
<1>7. FreshInv'
  <2>1. \A q \in Calls : OpenNext(attempt'[q].new) =>
          client'[attempt'[q].new].value = attempt'[q].value
    BY <1>1 DEF ConnectionInv, FreshInv, Open, OpenNext
  <2>2. ASSUME NEW n \in Managers, n \notin met'
        PROVE  (\A q \in Connectors : attempt'[q].on # n) /\ ~ OpenNext(manager'[n].live)
    BY <2>2, <1>1, <1>2, Untouched, McpNames DEF Open, OpenNext
  <2>3. QED
    BY <2>1, <2>2, FreshInvNext
<1>8. QED
  BY <1>4, <1>5, <1>6, <1>7 DEF ConnectionInv

\* The reset forgets the manager and closes what it holds.
LEMMA CloseManagerKeeps ==
  ASSUME McpTypeOK, ConnectionInv, NEW k \in Closers, CloseManager(k), registered # NoManager,
         closing[k] = NoManager, UNCHANGED <<manager, attempt, drops, row>>,
         secret' \in 0..MaxRotations, secret <= secret', due' \in 0..secret'
  PROVE  McpTypeOK' /\ ConnectionInv'
<1>0. PICK m \in Managers : m = registered
  BY DEF McpTypeOK
<1>1. /\ registered' = NoManager /\ cached' = NoManager
      /\ closing' = [closing EXCEPT ![k] = m] /\ client' = shut(client, manager[m].client)
      /\ met' = IF acting(m) = {} THEN met ELSE met \cup {m}
      /\ UNCHANGED <<manager, attempt, drops, row>>
  BY <1>0 DEF CloseManager
<1>2. /\ closing' \in [Closers -> Managers \cup {NoManager}] /\ closing'[k] = m
      /\ \A j \in Closers : j # k => closing'[j] = closing[j]
      /\ closing \in [Closers -> Managers \cup {NoManager}]
  BY <1>1 DEF McpTypeOK
<1>3. /\ met \subseteq met' /\ met' \subseteq Managers
      /\ m \notin met' => acting(m) = {}
  BY <1>1, TypesOf
<1>a. /\ \A n \in Managers : n # m => acting(n)' = acting(n)
      /\ acting(m)' = acting(m) \cup {k}
  BY <1>1, <1>2, McpNames DEF acting
<1>i. manager[m].made /\ NoClient \notin Clients /\ NoManager \notin Managers
      /\ k \notin Calls
  BY <1>0, McpNames DEF ConnectionInv, MadeInv
<1>4. PICK old \in Clients \cup {NoClient} : old = manager[m].client
  BY TypesOf DEF ManagerTypes
<1>5. /\ client' \in [Clients -> ClientTypes]
      /\ old # NoClient => client'[old].state = "closed"
      /\ \A d \in Clients : d # old => client'[d] = client[d]
  BY <1>1, <1>4, ShutFacts, TypesOf DEF Closed
<1>6. \A d \in Clients \cup {NoClient} :
         /\ Spare(d) => SpareNext(d)
         /\ OpenNext(d) => Open(d) /\ client'[d].value = client[d].value
         /\ d # NoClient => (client[d].state # "unused" => client'[d].state # "unused")
  BY <1>5 DEF Spare, SpareNext, Open, OpenNext
<1>h. /\ \A n \in Managers : manager[n].client \in Clients \cup {NoClient}
                             /\ manager[n].live \in Clients \cup {NoClient}
      /\ \A q \in Connectors : attempt[q].new \in Clients \cup {NoClient}
  BY TypesOf DEF ManagerTypes, AttemptTypes
<1>s. SpareNext(manager[m].client)
  BY <1>4, <1>5 DEF SpareNext
<1>7. McpTypeOK'
  BY <1>1, <1>2, <1>3, <1>5 DEF McpTypeOK, ClientTypes
<1>8. AttemptInv'
  BY <1>1, TypesOf, McpNames DEF ConnectionInv, AttemptInv, AttemptTypes
<1>9. MadeInv'
  BY <1>1, <1>6, <1>a, <1>h, <1>i DEF ConnectionInv, MadeInv
<1>10. AloneInv'
  <2>1. \A n \in Managers : n \notin met' => \A q, s \in acting(n)' : q = s
    BY <1>3, <1>a DEF ConnectionInv, AloneInv
  <2>2. ASSUME NEW n \in Managers, n \notin met', NEW q \in Calls \cup Refreshers
        PROVE  attempt[q].on # n
    <3>1. CASE n = m
      BY <2>2, <3>1, <1>3 DEF acting, Connectors
    <3>2. CASE n # m
      BY <2>2, <3>2, <1>0, <1>3 DEF ConnectionInv, AloneInv
    <3>3. QED
      BY <3>1, <3>2
  <2>3. QED
    BY <2>1, <2>2, <1>1, <1>i DEF AloneInv
<1>11. SpareInv'
  <2>1. ASSUME NEW n \in Managers, n \notin met'
        PROVE  /\ SpareNext(manager[n].client)
               /\ manager[n].live = manager[n].client \/ ~ OpenNext(manager[n].live)
    <3>1. /\ registered # n => Spare(manager[n].client)
          /\ manager[n].live = manager[n].client \/ ~ Open(manager[n].live)
      BY <2>1, <1>3, SpareInvOf DEF ConnectionInv
    <3>2. QED
      BY <3>1, <1>0, <1>6, <1>h, <1>s
  <2>2. QED
    BY <2>1, <1>1, SpareInvNext
<1>12. HeldInv'
  <2>1. ASSUME NEW d \in Clients, client'[d].state \in {"open", "dropped"}
        PROVE  client'[d] = client[d]
    BY <2>1, <1>5, <1>i
  <2>2. QED
    BY <2>1, <1>1, <1>3, HeldInvNext DEF ConnectionInv, HeldInv
<1>13. FreshInv'
  <2>1. \A q \in Calls : OpenNext(attempt'[q].new) =>
          client'[attempt'[q].new].value = attempt'[q].value
    BY <1>1, <1>6, <1>h DEF ConnectionInv, FreshInv, Connectors
  <2>2. ASSUME NEW n \in Managers, n \notin met'
        PROVE  (\A q \in Connectors : attempt[q].on # n) /\ ~ OpenNext(manager[n].live)
    <3>1. CASE n = m
      <4>1. \A q \in Connectors : attempt[q].on # m
        BY <2>2, <3>1, <1>3 DEF acting
      <4>2. manager[m].live = manager[m].client \/ ~ Open(manager[m].live)
        BY <2>2, <3>1, <1>3, SpareInvOf DEF ConnectionInv
      <4>3. QED
        BY <3>1, <4>1, <4>2, <1>s, <1>6, <1>h DEF OpenNext, SpareNext
    <3>2. CASE n # m
      <4>1. n \notin met /\ registered # n /\ attempt[Turn].on # n
        BY <2>2, <3>2, <1>0, <1>3, <1>i, TurnOn
      <4>2. QED
        BY <4>1, <1>6, <1>h, Untouched
    <3>3. QED
      BY <3>1, <3>2
  <2>3. QED
    BY <2>1, <2>2, <1>1, FreshInvNext
<1>14. QED
  BY <1>7, <1>8, <1>9, <1>10, <1>11, <1>12, <1>13 DEF ConnectionInv

\* close() has closed the clients of the manager it works on.
LEMMA ManagerClosedKeeps ==
  ASSUME McpTypeOK, ConnectionInv, NEW k \in Closers, ManagerClosed(k),
         UNCHANGED <<secret, due, client, registered, cached, attempt, met, drops>>,
         row' \in Live => row \in Live
  PROVE  McpTypeOK' /\ ConnectionInv'
<1>1. /\ closing \in [Closers -> Managers \cup {NoManager}]
      /\ closing' \in [Closers -> Managers \cup {NoManager}] /\ closing'[k] = NoManager
      /\ \A j \in Closers : j # k => closing'[j] = closing[j]
      /\ NoClient \notin Clients /\ NoManager \notin Managers /\ k \notin Calls
  BY McpNames DEF McpTypeOK, ManagerClosed
<1>2. /\ manager' \in [Managers -> ManagerTypes]
      /\ \A n \in Managers : /\ manager'[n].made = manager[n].made
                             /\ manager'[n].live = manager[n].live
                             /\ manager'[n].client \in {manager[n].client, NoClient}
                             /\ closing[k] # n => manager'[n] = manager[n]
  BY <1>1, TypesOf DEF ManagerClosed, ManagerTypes
<1>a. \A n \in Managers : acting(n)' \subseteq acting(n)
  BY <1>1 DEF acting
<1>3. ASSUME NEW n \in Managers, n \notin met, closing[k] = n
      PROVE  Spare(manager[n].client)
  <2>1. k \in acting(n)
    BY <1>3 DEF acting
  <2>2. QED
    BY <1>1, <1>3, <2>1, SpareInvOf DEF ConnectionInv
<1>7. McpTypeOK'
  BY <1>1, <1>2 DEF McpTypeOK, ManagerTypes
<1>8. AttemptInv'
  BY DEF ConnectionInv, AttemptInv
<1>9. MadeInv'
  BY <1>2, <1>a DEF ConnectionInv, MadeInv
<1>10. AloneInv'
  BY <1>1, <1>a DEF ConnectionInv, AloneInv
<1>11. SpareInv'
  <2>1. ASSUME NEW n \in Managers, n \notin met
        PROVE  /\ registered # n => SpareNext(manager'[n].client)
               /\ \A q \in acting(n)' :
                    ~ (q \in Calls /\ attempt[q].pc = "connecting") => SpareNext(manager'[n].client)
               /\ manager'[n].live = manager'[n].client \/ ~ OpenNext(manager'[n].live)
    <3>1. /\ registered # n => Spare(manager[n].client)
          /\ \A q \in acting(n) :
               ~ (q \in Calls /\ attempt[q].pc = "connecting") => Spare(manager[n].client)
          /\ manager[n].live = manager[n].client \/ ~ Open(manager[n].live)
      BY <2>1, SpareInvOf DEF ConnectionInv
    <3>2. Spare(manager[n].client) => SpareNext(manager'[n].client)
      BY <1>2 DEF Spare, SpareNext
    <3>3. manager'[n].live = manager'[n].client \/ ~ OpenNext(manager'[n].live)
      BY <2>1, <3>1, <1>2, <1>3 DEF Spare, Open, OpenNext
    <3>4. QED
      BY <3>1, <3>2, <3>3, <1>a
  <2>2. QED
    BY <2>1, SpareInvNext
<1>12. HeldInv'
  <2>1. ASSUME NEW d \in Clients, client[d].state \in {"open", "dropped"}, NEW n \in Managers,
               n \notin met, manager[n].client = d
        PROVE  manager'[n].client = d
    BY <2>1, <1>1, <1>2, <1>3 DEF Spare
  <2>2. QED
    BY <2>1, HeldInvNext DEF ConnectionInv, HeldInv
<1>13. FreshInv'
  BY <1>2 DEF ConnectionInv, FreshInv, Fresh, Open
<1>14. QED
  BY <1>7, <1>8, <1>9, <1>10, <1>11, <1>12, <1>13 DEF ConnectionInv

\* Nothing happens to the connections.
LEMMA ConnectionsUnchanged ==
  ASSUME McpTypeOK, ConnectionInv, UNCHANGED mcpVars, row' \in Live => row \in Live
  PROVE  McpTypeOK' /\ ConnectionInv'
<1>1. \A n \in Managers : acting(n)' = acting(n)
  BY DEF acting, mcpVars
<1>2. FreshInv'
  BY DEF ConnectionInv, FreshInv, Fresh, Open, mcpVars
<1>3. QED
  BY <1>1, <1>2 DEF McpTypeOK, ConnectionInv, AttemptInv, MadeInv, AloneInv, SpareInv, HeldInv,
       Spare, Open, mcpVars

-----------------------------------------------------------------------------
(* The steps of a session. *)

\* Nobody awaits the close of a manager before the step of its cleanup that does.
LEMMA ClosingNone ==
  ASSUME ResourceTypeOK, CleaningInv, NEW k \in Closers, cleaning[k].step # "tools"
  PROVE  closing[k] = NoManager
BY DEF CleaningInv

\* Every step of a session is a step of its connections, or leaves them alone.
LEMMA ConnectionsKept ==
  ASSUME ResourceInv, [ResourceNext]_resourceVars
  PROVE  McpTypeOK' /\ ConnectionInv'
<1> USE DEF ResourceInv, ResourceTypeOK, SandboxInv
<1>1. CASE \/ Accept \/ StartTurn \/ Provisioned \/ Materialized \/ NotMaterialized
           \/ ToolsCached \/ TurnEnds \/ TurnFails \/ TurnPending \/ TurnLosesRow
           \/ Archive \/ ParkedExpires \/ Delete
           \/ (\E k \in Closers : Stopped(k) \/ NotStopped(k))
           \/ UNCHANGED resourceVars
  <2>1. UNCHANGED mcpVars /\ (row' \in Live => row \in Live)
    BY <1>1, SMTT(30)
       DEF Accept, StartTurn, Provisioned, Materialized, NotMaterialized, ToolsCached, TurnEnds,
         TurnFails, TurnPending, TurnLosesRow, Archive, ParkedExpires, Delete, Stopped, NotStopped,
         resourceVars, sessionVars, Live, failures
  <2>2. QED
    BY <2>1, ConnectionsUnchanged
<1>2. CASE ToolsConnect
  <2>1. attempt[Turn].pc = "none"
    BY <1>2 DEF ToolsConnect, CleaningInv, ConnectionInv, AttemptInv, Pcs, Connectors
  <2>2. QED
    BY <1>2, <2>1, ConnectTurnKeeps DEF ToolsConnect
<1>3. CASE ToolsConnected
  BY <1>3, ConnectedKeeps, NotConnectedKeeps DEF ToolsConnected, Connectors
<1>4. CASE Update
  <2>1. "update" \in Closers /\ cleaning["update"].step # "tools"
    BY <1>4, ResourceNames DEF Update, Rest
  <2>2. /\ CloseManager("update") /\ UNCHANGED <<manager, attempt, drops, row>>
        /\ secret' \in 0..MaxRotations /\ secret <= secret' /\ due' \in 0..secret'
    BY <1>4, TypesOf, McpNames DEF Update
  <2>3. closing["update"] = NoManager
    BY <2>1, ClosingNone
  <2>4. QED
    BY <2>1, <2>2, <2>3, CloseMissesKeeps, CloseManagerKeeps
<1>5. ASSUME NEW k \in Closers, SandboxGone(k)
      PROVE  McpTypeOK' /\ ConnectionInv'
  <2>1. cleaning[k].step # "tools"
    BY <1>5 DEF SandboxGone
  <2>2. /\ CloseManager(k) /\ UNCHANGED <<manager, attempt, drops, row>>
        /\ secret' \in 0..MaxRotations /\ secret <= secret' /\ due' \in 0..secret'
    BY <1>5, TypesOf, McpNames DEF SandboxGone, McpTypeOK
  <2>3. closing[k] = NoManager
    BY <2>1, ClosingNone
  <2>4. QED
    BY <2>2, <2>3, CloseMissesKeeps, CloseManagerKeeps
<1>6. ASSUME NEW k \in Closers, Released(k)
      PROVE  McpTypeOK' /\ ConnectionInv'
  BY <1>6, ManagerClosedKeeps DEF Released, Live
<1>7. CASE ToolStep
  <2>1. UNCHANGED row
    BY <1>7 DEF ToolStep, sessionVars
  <2>2. ASSUME NEW p \in Calls, Reconnect(p, tools)
        PROVE  McpTypeOK' /\ ConnectionInv'
    <3>1. tools \in Managers
      BY <2>2 DEF Reconnect
    <3>2. QED
      BY <3>1, <2>1, <2>2, ReconnectKeeps
  <2>3. ASSUME NEW p \in Calls, Connected(p) \/ NotConnected(p) \/ Replaced(p)
        PROVE  McpTypeOK' /\ ConnectionInv'
    BY <2>1, <2>3, CallConnectedKeeps, NotConnectedKeeps, ReplacedKeeps DEF Connectors
  <2>4. ASSUME NEW c \in Clients, Drop(c)
        PROVE  McpTypeOK' /\ ConnectionInv'
    BY <2>1, <2>4, DropKeeps
  <2>5. QED
    BY <1>7, <2>2, <2>3, <2>4 DEF ToolStep
<1>8. CASE RefreshStep
  <2>1. PICK r \in Refreshers :
          \/ Rotate(r, row \notin Live) \/ RefreshSession(r) \/ RefreshClosed(r)
          \/ Connected(r) \/ NotConnected(r)
    BY <1>8 DEF RefreshStep
  <2>2. UNCHANGED row /\ r \in Connectors /\ r \in {Turn} \cup Refreshers
    BY <1>8 DEF RefreshStep, sessionVars, Connectors
  <2>3. CASE Rotate(r, row \notin Live)
    BY <2>2, <2>3, RotateKeeps
  <2>4. CASE RefreshSession(r)
    BY <2>2, <2>4, RefreshMissesKeeps, RefreshSessionKeeps
  <2>5. CASE RefreshClosed(r)
    BY <2>2, <2>5, RefreshClosedKeeps
  <2>6. CASE Connected(r)
    BY <2>2, <2>6, ConnectedKeeps
  <2>7. CASE NotConnected(r)
    BY <2>2, <2>7, NotConnectedKeeps
  <2>8. QED
    BY <2>1, <2>3, <2>4, <2>5, <2>6, <2>7
<1>9. QED
  BY <1>1, <1>2, <1>3, <1>4, <1>5, <1>6, <1>7, <1>8 DEF ResourceNext

-----------------------------------------------------------------------------
(* The session's own variables: their types, and the invariant of the sandbox. *)

SessionTypeOK ==
  /\ row \in Rows /\ messages \in 0..MaxMessages /\ queue \in 0..messages
  /\ turn \in Turns /\ hand \in Boxes \cup {NoBox} /\ tools \in Managers \cup {NoManager}
  /\ bound \in Boxes \cup {NoBox} /\ workdir \in BOOLEAN
  /\ box \in [Boxes -> {"unused", "up", "closing", "gone"}]
  /\ cleaning \in [Closers -> [step : {"none", "stopping", "sandbox", "tools"},
                               box : Boxes \cup {NoBox}]]
  /\ raced \in BOOLEAN /\ unproven \in BOOLEAN /\ leftover \in BOOLEAN

CleaningTypes == [step : {"none", "stopping", "sandbox", "tools"}, box : Boxes \cup {NoBox}]

LEMMA SessionTypesOf ==
  ASSUME SessionTypeOK
  PROVE  /\ cleaning \in [Closers -> CleaningTypes]
         /\ \A k \in Closers : cleaning[k] \in CleaningTypes
         /\ messages \in Nat /\ queue \in Nat /\ queue <= messages /\ messages <= MaxMessages
         /\ {"turn", "archive", "delete", "update"} = Closers
         /\ Rest.step = "none" /\ Rest.box = NoBox /\ Rest \in CleaningTypes
BY ResourceNames DEF SessionTypeOK, CleaningTypes, Rest

\* A cleanup that begins touches nobody else's.
LEMMA ReleaseFacts ==
  ASSUME SessionTypeOK, NEW k \in Closers, Release(k)
  PROVE  /\ cleaning' \in [Closers -> CleaningTypes]
         /\ cleaning'[k].step = "stopping" /\ cleaning'[k].box = NoBox
         /\ \A j \in Closers : j # k => cleaning'[j] = cleaning[j]
<1> DEFINE x == [step |-> "stopping", box |-> NoBox]
<1>1. x = [Rest EXCEPT !.step = "stopping"] /\ x \in CleaningTypes
  BY DEF Rest, CleaningTypes
<1>2. QED
  BY <1>1, SessionTypesOf DEF Release

LEMMA AcceptKeeps ==
  ASSUME SessionTypeOK, SandboxInv, Accept
  PROVE  SessionTypeOK' /\ SandboxInv'
<1>1. SessionTypeOK'
  BY SessionTypesOf, ResourceNames DEF SessionTypeOK, Accept
<1>2. SandboxInv'
  BY DEF Accept, SandboxInv, CleaningInv, TurnInv, WorkdirInv, EndedInv, mcpVars
<1>3. QED
  BY <1>1, <1>2

LEMMA StartTurnKeeps ==
  ASSUME SessionTypeOK, SandboxInv, StartTurn
  PROVE  SessionTypeOK' /\ SandboxInv'
<1>1. /\ turn = "none" /\ queue > 0 /\ queue' = queue - 1
      /\ UNCHANGED <<mcpVars, messages, tools, bound, box, workdir, leftover, cleaning, unproven>>
  BY DEF StartTurn
<1>2. CASE row \in Live
  <2>1. /\ row' = "running" /\ hand' = bound /\ raced' = (raced \/ deleting)
        /\ turn' = IF bound = NoBox THEN "provisioning" ELSE "resolving"
    BY <1>2 DEF StartTurn
  <2>2. SessionTypeOK'
    BY <1>1, <2>1, SessionTypesOf DEF SessionTypeOK, Rows, Live, Turns
  <2>3. CleaningInv'
    <3>1. cleaning["turn"] = Rest /\ cleaning["archive"] = Rest
      BY <1>1, <1>2 DEF SandboxInv, CleaningInv, Live
    <3>2. QED
      BY <1>1, <2>1, <3>1 DEF SandboxInv, CleaningInv, mcpVars
  <2>4. ~ raced' => ~ raced /\ cleaning["delete"].step = "none"
    BY <2>1 DEF deleting
  <2>5. ~ raced' => \A k \in Closers \ {"update"} : cleaning[k] = Rest
    <3>1. cleaning["turn"] = Rest /\ cleaning["archive"] = Rest
      BY <1>1, <1>2 DEF SandboxInv, CleaningInv, Live
    <3>2. ~ raced' => cleaning["delete"] = Rest
      BY <2>4, SessionTypesOf DEF SandboxInv, CleaningInv, CleaningTypes, Rest
    <3>3. QED
      BY <3>1, <3>2, SessionTypesOf
  <2>6. TurnInv'
    BY <1>1, <2>1, <2>4, <2>5 DEF SandboxInv, TurnInv, InTurn
  <2>7. WorkdirInv' /\ EndedInv'
    BY <1>1, <2>1, <2>4 DEF SandboxInv, WorkdirInv, EndedInv, mcpVars
  <2>8. QED
    BY <2>2, <2>3, <2>6, <2>7 DEF SandboxInv
<1>3. CASE row \notin Live
  <2>1. UNCHANGED <<row, turn, hand, raced>>
    BY <1>3 DEF StartTurn
  <2>2. SessionTypeOK'
    BY <1>1, <2>1, SessionTypesOf DEF SessionTypeOK
  <2>3. SandboxInv'
    BY <1>1, <2>1 DEF SandboxInv, CleaningInv, TurnInv, WorkdirInv, EndedInv, mcpVars
  <2>4. QED
    BY <2>2, <2>3
<1>4. QED
  BY <1>2, <1>3

LEMMA ProvisionedKeeps ==
  ASSUME SessionTypeOK, SandboxInv, Provisioned
  PROVE  SessionTypeOK' /\ SandboxInv'
<1> DEFINE b == Min({c \in Boxes : box[c] = "unused"})
<1>1. b \in Boxes
  BY FreshBox DEF Provisioned
<1>2. /\ turn = "provisioning" /\ turn' = "materializing"
      /\ box' = [box EXCEPT ![b] = "up"] /\ hand' = b /\ workdir' = TRUE /\ leftover' = FALSE
      /\ UNCHANGED <<mcpVars, row, messages, queue, tools, bound, cleaning, raced, unproven>>
  BY DEF Provisioned
<1> HIDE DEF b
<1>3. box' \in [Boxes -> {"unused", "up", "closing", "gone"}] /\ box'[b] = "up"
  BY <1>1, <1>2 DEF SessionTypeOK
<1>4. SessionTypeOK'
  BY <1>1, <1>2, <1>3 DEF SessionTypeOK, Turns
<1>5. CleaningInv'
  BY <1>2 DEF SandboxInv, CleaningInv, mcpVars
<1>6. TurnInv'
  BY <1>1, <1>2, <1>3, ResourceNames DEF SandboxInv, TurnInv, InTurn, Turns
<1>7. WorkdirInv' /\ EndedInv'
  BY <1>2 DEF SandboxInv, WorkdirInv, EndedInv, mcpVars
<1>8. QED
  BY <1>4, <1>5, <1>6, <1>7 DEF SandboxInv

LEMMA MaterializedKeeps ==
  ASSUME SessionTypeOK, SandboxInv, Materialized
  PROVE  SessionTypeOK' /\ SandboxInv'
<1>1. /\ turn = "materializing" /\ turn' = "resolving" /\ bound' = hand /\ bound = NoBox
      /\ UNCHANGED <<mcpVars, row, messages, queue, hand, tools, box, workdir, leftover,
                     cleaning, raced, unproven>>
  BY DEF Materialized, SandboxInv, TurnInv
<1>2. SessionTypeOK'
  BY <1>1 DEF SessionTypeOK, Turns
<1>3. CleaningInv'
  BY <1>1 DEF SandboxInv, CleaningInv, mcpVars
<1>4. ~ raced => /\ row = "running" /\ \A k \in Closers \ {"update"} : cleaning[k] = Rest
                 /\ hand # NoBox /\ box[hand] = "up" /\ workdir
  BY <1>1 DEF SandboxInv, TurnInv, InTurn, Turns
<1>5. ~ raced => \A k \in Closers : cleaning[k].box = NoBox
  BY <1>4, SessionTypesOf DEF SandboxInv, CleaningInv
<1>6. TurnInv'
  BY <1>1, <1>4, <1>5 DEF TurnInv, InTurn, Turns
<1>7. WorkdirInv'
  BY <1>1 DEF SandboxInv, TurnInv, WorkdirInv
<1>8. EndedInv'
  BY <1>1, <1>4, SessionTypesOf DEF SandboxInv, EndedInv, mcpVars
<1>9. QED
  BY <1>2, <1>3, <1>6, <1>7, <1>8 DEF SandboxInv

LEMMA NotMaterializedKeeps ==
  ASSUME SessionTypeOK, SandboxInv, NotMaterialized
  PROVE  SessionTypeOK' /\ SandboxInv'
<1>1. /\ turn = "materializing" /\ turn' = "discarding" /\ bound = NoBox
      /\ box' = [box EXCEPT ![hand] = "closing"]
      /\ UNCHANGED <<mcpVars, row, messages, queue, hand, tools, bound, workdir, leftover,
                     cleaning, raced, unproven>>
  BY DEF NotMaterialized, SandboxInv, TurnInv
<1>2. SessionTypeOK'
  BY <1>1 DEF SessionTypeOK, Turns
<1>3. SandboxInv'
  BY <1>1 DEF SandboxInv, CleaningInv, TurnInv, WorkdirInv, EndedInv, mcpVars, InTurn, Turns
<1>4. QED
  BY <1>2, <1>3

\* A turn that stops in one of these ways leaves its sandbox as `discarded` says.
LEMMA DiscardedFacts ==
  ASSUME SessionTypeOK, SandboxInv, discarded, turn \in Stoppable
  PROVE  /\ box' \in [Boxes -> {"unused", "up", "closing", "gone"}]
         /\ workdir' \in BOOLEAN /\ leftover' \in BOOLEAN
         /\ workdir' /\ ~ leftover' =>
           workdir /\ ~ leftover /\ turn \notin {"materializing", "discarding"}
         /\ bound # NoBox => box'[bound] = box[bound] /\ (workdir => workdir')
<1>1. turn # "materializing"
  BY DEF Stoppable
<1>2. CASE turn = "discarding" /\ box' = [box EXCEPT ![hand] = "gone"] /\ workdir' = FALSE
           /\ leftover' = FALSE
  BY <1>2 DEF SessionTypeOK, SandboxInv, TurnInv
<1>3. CASE turn = "provisioning" /\ workdir' = TRUE /\ leftover' = TRUE /\ UNCHANGED box
  BY <1>3 DEF SessionTypeOK, SandboxInv, TurnInv
<1>4. CASE turn # "discarding" /\ UNCHANGED <<box, workdir, leftover>>
  BY <1>1, <1>4 DEF SessionTypeOK
<1>5. QED
  BY <1>2, <1>3, <1>4 DEF discarded

LEMMA TurnStopsKeeps ==
  ASSUME SessionTypeOK, SandboxInv, TurnEnds \/ TurnLosesRow
  PROVE  SessionTypeOK' /\ SandboxInv'
<1>1. /\ turn \in Stoppable /\ discarded /\ turn' = "none" /\ hand' = NoBox /\ tools' = NoManager
      /\ UNCHANGED <<mcpVars, messages, queue, bound, cleaning, raced, unproven>>
      /\ \/ row = "running" /\ row' \in {"idle", "parked"}
         \/ row = "gone" /\ row' = "gone"
  BY DEF TurnEnds, TurnLosesRow
<1>2. /\ box' \in [Boxes -> {"unused", "up", "closing", "gone"}]
      /\ workdir' \in BOOLEAN /\ leftover' \in BOOLEAN
      /\ workdir' /\ ~ leftover' =>
           workdir /\ ~ leftover /\ turn \notin {"materializing", "discarding"}
      /\ bound # NoBox => box'[bound] = box[bound] /\ (workdir => workdir')
  BY <1>1, DiscardedFacts
<1>3. SessionTypeOK'
  BY <1>1, <1>2 DEF SessionTypeOK, Rows, Live, Turns
<1>4. CleaningInv'
  BY <1>1, SessionTypesOf DEF SandboxInv, CleaningInv, mcpVars, Stoppable
<1>5. TurnInv'
  BY <1>1, <1>2 DEF SandboxInv, TurnInv, InTurn, Turns
<1>6. WorkdirInv'
  BY <1>1, <1>2 DEF SandboxInv, WorkdirInv
<1>7. EndedInv'
  BY <1>1 DEF SandboxInv, EndedInv, mcpVars
<1>8. QED
  BY <1>3, <1>4, <1>5, <1>6, <1>7 DEF SandboxInv

LEMMA TurnFailsKeeps ==
  ASSUME SessionTypeOK, SandboxInv, TurnFails
  PROVE  SessionTypeOK' /\ SandboxInv'
<1>1. /\ turn \in Stoppable /\ discarded /\ turn' = "releasing" /\ hand' = NoBox
      /\ tools' = NoManager /\ row = "running" /\ row' \in {"idle", "ended"} /\ Release("turn")
      /\ UNCHANGED <<mcpVars, messages, queue, bound, raced, unproven>>
  BY DEF TurnFails, failures
<1>2. /\ box' \in [Boxes -> {"unused", "up", "closing", "gone"}]
      /\ workdir' \in BOOLEAN /\ leftover' \in BOOLEAN
      /\ workdir' /\ ~ leftover' =>
           workdir /\ ~ leftover /\ turn \notin {"materializing", "discarding"}
      /\ bound # NoBox => box'[bound] = box[bound] /\ (workdir => workdir')
  BY <1>1, DiscardedFacts
<1>t. "turn" \in Closers /\ "archive" \in Closers /\ "update" \in Closers /\ "delete" \in Closers
  BY ResourceNames
<1>3. /\ cleaning' \in [Closers -> CleaningTypes]
      /\ cleaning'["turn"].step = "stopping" /\ cleaning'["turn"].box = NoBox
      /\ \A j \in Closers : j # "turn" => cleaning'[j] = cleaning[j]
  BY <1>1, <1>t, ReleaseFacts
<1>4. cleaning["turn"] = Rest
  BY <1>1 DEF SandboxInv, CleaningInv, Stoppable
<1>5. SessionTypeOK'
  BY <1>1, <1>2, <1>3 DEF SessionTypeOK, Rows, Live, Turns, CleaningTypes
<1>6. CleaningInv'
  <2>1. closing["turn"] = NoManager
    BY <1>4, <1>t, SessionTypesOf DEF SandboxInv, CleaningInv
  <2>2. QED
    BY <1>1, <1>3, <1>t, <2>1 DEF SandboxInv, CleaningInv, mcpVars, Stoppable
<1>7. TurnInv'
  BY <1>1, <1>2, <1>3, <1>t DEF SandboxInv, TurnInv, InTurn, Turns
<1>8. WorkdirInv'
  BY <1>1, <1>2, <1>3, <1>4, SessionTypesOf DEF SandboxInv, WorkdirInv
<1>9. EndedInv'
  BY <1>1, <1>3, <1>t DEF SandboxInv, EndedInv, mcpVars
<1>10. QED
  BY <1>5, <1>6, <1>7, <1>8, <1>9 DEF SandboxInv

LEMMA TurnPendingKeeps ==
  ASSUME SessionTypeOK, SandboxInv, TurnPending
  PROVE  SessionTypeOK' /\ SandboxInv'
<1>1. /\ turn = "working" /\ row = "running" /\ row' = "pending" /\ turn' = "none"
      /\ hand' = NoBox /\ tools' = NoManager
      /\ UNCHANGED <<mcpVars, messages, queue, bound, box, workdir, leftover, cleaning, raced,
                     unproven>>
  BY DEF TurnPending
<1>2. SessionTypeOK'
  BY <1>1 DEF SessionTypeOK, Rows, Live, Turns
<1>3. SandboxInv'
  BY <1>1, SessionTypesOf
     DEF SandboxInv, CleaningInv, TurnInv, WorkdirInv, EndedInv, mcpVars, InTurn, Turns
<1>4. QED
  BY <1>2, <1>3

LEMMA ParkedExpiresKeeps ==
  ASSUME SessionTypeOK, SandboxInv, ParkedExpires
  PROVE  SessionTypeOK' /\ SandboxInv'
<1>1. /\ row = "parked" /\ row' = "expired"
      /\ UNCHANGED <<mcpVars, messages, queue, turn, hand, tools, bound, box, workdir, leftover,
                     cleaning, raced, unproven>>
  BY DEF ParkedExpires
<1>2. SessionTypeOK'
  BY <1>1 DEF SessionTypeOK, Rows, Live
<1>3. SandboxInv'
  BY <1>1, SessionTypesOf DEF SandboxInv, CleaningInv, TurnInv, WorkdirInv, EndedInv, mcpVars
<1>4. QED
  BY <1>2, <1>3

\* An archive and a delete begin where no turn is under way, unless a turn raced.
LEMMA ReleaseBeginsKeeps ==
  ASSUME SessionTypeOK, SandboxInv, NEW k \in {"archive", "delete"},
         (Archive /\ k = "archive") \/ (Delete /\ k = "delete")
  PROVE  SessionTypeOK' /\ SandboxInv'
<1>1. /\ row # "running" /\ cleaning[k].step = "none" /\ Release(k)
      /\ \/ k = "archive" /\ row' = "ended"
         \/ k = "delete" /\ row' = row /\ row # "gone"
      /\ UNCHANGED <<mcpVars, messages, queue, turn, hand, tools, bound, box, workdir, leftover,
                     raced, unproven>>
  BY SessionTypesOf DEF Archive, Delete, deleting
<1>t. k \in Closers /\ "turn" \in Closers /\ "archive" \in Closers /\ "update" \in Closers
      /\ "delete" \in Closers /\ k # "turn" /\ k # "update"
  BY ResourceNames
<1>2. /\ cleaning' \in [Closers -> CleaningTypes]
      /\ cleaning'[k].step = "stopping" /\ cleaning'[k].box = NoBox
      /\ \A j \in Closers : j # k => cleaning'[j] = cleaning[j]
  BY <1>1, <1>t, ReleaseFacts
<1>3. cleaning[k].box = NoBox /\ closing[k] = NoManager
  BY <1>1, <1>t DEF SandboxInv, CleaningInv
<1>4. SessionTypeOK'
  BY <1>1, <1>2 DEF SessionTypeOK, Rows, CleaningTypes
<1>5. CleaningInv'
  <2>1. cleaning'["archive"] # Rest => row' \in {"ended", "gone"}
    BY <1>1, <1>2, <1>t DEF SandboxInv, CleaningInv
  <2>2. QED
    BY <1>1, <1>2, <1>3, <1>t, <2>1 DEF SandboxInv, CleaningInv, mcpVars
<1>6. TurnInv'
  BY <1>1, <1>2, <1>t DEF SandboxInv, TurnInv
<1>7. WorkdirInv'
  BY <1>1, <1>2, <1>3 DEF SandboxInv, WorkdirInv
<1>8. EndedInv'
  BY <1>1, <1>2, <1>t DEF SandboxInv, EndedInv, mcpVars
<1>9. QED
  BY <1>4, <1>5, <1>6, <1>7, <1>8 DEF SandboxInv

LEMMA UpdateKeeps ==
  ASSUME SessionTypeOK, McpTypeOK, SandboxInv, Update
  PROVE  SessionTypeOK' /\ SandboxInv'
<1>t. "update" \in Closers /\ "turn" \in Closers /\ "archive" \in Closers /\ "delete" \in Closers
  BY ResourceNames
<1>1. /\ row \in Live /\ cleaning["update"] = Rest /\ registered' = NoManager
      /\ closing \in [Closers -> Managers \cup {NoManager}]
      /\ closing' = closing \/ closing' = [closing EXCEPT !["update"] = registered]
      /\ cleaning' = [cleaning EXCEPT !["update"].step = "tools"]
      /\ UNCHANGED <<attempt, row, messages, queue, turn, hand, tools, bound, box, workdir,
                     leftover, raced, unproven>>
  BY DEF Update, CloseManager, McpTypeOK
<1>2. /\ cleaning' \in [Closers -> CleaningTypes]
      /\ cleaning'["update"].step = "tools" /\ cleaning'["update"].box = NoBox
      /\ \A j \in Closers : j # "update" => cleaning'[j] = cleaning[j] /\ closing'[j] = closing[j]
  BY <1>1, <1>t, SessionTypesOf DEF CleaningTypes
<1>3. SessionTypeOK'
  BY <1>1, <1>2 DEF SessionTypeOK, CleaningTypes
<1>4. CleaningInv'
  BY <1>1, <1>2, <1>t DEF SandboxInv, CleaningInv
<1>5. TurnInv'
  BY <1>1, <1>2, <1>t DEF SandboxInv, TurnInv
<1>6. WorkdirInv'
  BY <1>1, <1>2, SessionTypesOf DEF SandboxInv, WorkdirInv
<1>7. EndedInv'
  BY <1>1, <1>2, <1>t DEF SandboxInv, EndedInv, Live
<1>8. QED
  BY <1>3, <1>4, <1>5, <1>6, <1>7 DEF SandboxInv

\* The children are stopped: what was bound is what this cleanup removes.
LEMMA StoppedKeeps ==
  ASSUME SessionTypeOK, SandboxInv, NEW k \in Closers, Stopped(k)
  PROVE  SessionTypeOK' /\ SandboxInv'
<1>1. /\ cleaning[k].step = "stopping" /\ bound' = NoBox
      /\ cleaning' = [cleaning EXCEPT ![k] = [step |-> "sandbox", box |-> bound]]
      /\ box' = IF bound = NoBox THEN box ELSE [box EXCEPT ![bound] = "closing"]
      /\ UNCHANGED <<mcpVars, row, messages, queue, turn, hand, tools, workdir, leftover, raced,
                     unproven>>
  BY DEF Stopped
<1>t. "update" \in Closers /\ "turn" \in Closers /\ "archive" \in Closers /\ "delete" \in Closers
      /\ k # "update"
  BY <1>1, ResourceNames DEF SandboxInv, CleaningInv
<1>2. /\ cleaning' \in [Closers -> CleaningTypes]
      /\ cleaning'[k].step = "sandbox" /\ cleaning'[k].box = bound
      /\ \A j \in Closers : j # k => cleaning'[j] = cleaning[j]
      /\ box' \in [Boxes -> {"unused", "up", "closing", "gone"}]
  <2>1. [step |-> "sandbox", box |-> bound] \in CleaningTypes
    BY DEF SessionTypeOK, CleaningTypes
  <2>2. QED
    BY <1>1, <2>1, SessionTypesOf DEF SessionTypeOK
<1>3. /\ cleaning[k].box = NoBox /\ closing[k] = NoManager /\ cleaning[k] # Rest
      /\ k = "turn" => turn = "releasing"
      /\ k = "archive" => row \in {"ended", "gone"}
  BY <1>1, <1>t, SessionTypesOf DEF SandboxInv, CleaningInv
<1>4. ~ raced => turn \notin InTurn
  BY <1>3, <1>t DEF SandboxInv, TurnInv
<1>5. SessionTypeOK'
  BY <1>1, <1>2 DEF SessionTypeOK, CleaningTypes
<1>6. CleaningInv'
  <2>1. \A j \in Closers : /\ cleaning'[j].step # "sandbox" => cleaning'[j].box = NoBox
                           /\ closing[j] # NoManager => cleaning'[j].step = "tools"
    BY <1>2, <1>3 DEF SandboxInv, CleaningInv
  <2>2. /\ cleaning'["turn"] # Rest => turn = "releasing"
        /\ cleaning'["archive"] # Rest => row \in {"ended", "gone"}
        /\ cleaning'["update"].step \in {"none", "tools"}
    BY <1>2, <1>3, <1>t DEF SandboxInv, CleaningInv
  <2>3. QED
    BY <1>1, <2>1, <2>2 DEF SandboxInv, CleaningInv, mcpVars
<1>7. TurnInv'
  BY <1>1, <1>4 DEF SandboxInv, TurnInv, InTurn, Turns
<1>8. WorkdirInv'
  BY <1>1, <1>2, <1>3 DEF SandboxInv, WorkdirInv
<1>9. EndedInv'
  <2>1. (\E j \in Closers : cleaning[j].step \in {"stopping", "sandbox"}) =>
          \E j \in Closers : cleaning'[j].step \in {"stopping", "sandbox"}
    BY <1>2
  <2>2. cleaning'["delete"].step = "tools" => cleaning["delete"].step = "tools"
    BY <1>2, <1>t
  <2>3. QED
    BY <1>1, <2>1, <2>2 DEF SandboxInv, EndedInv, mcpVars
<1>10. QED
  BY <1>5, <1>6, <1>7, <1>8, <1>9 DEF SandboxInv

LEMMA NotStoppedKeeps ==
  ASSUME SessionTypeOK, SandboxInv, NEW k \in Closers, NotStopped(k)
  PROVE  SessionTypeOK' /\ SandboxInv'
<1>1. /\ cleaning[k].step = "stopping" /\ cleaning' = [cleaning EXCEPT ![k] = Rest]
      /\ unproven' = TRUE /\ turn' = IF k = "turn" THEN "none" ELSE turn
      /\ UNCHANGED <<mcpVars, row, messages, queue, hand, tools, bound, box, workdir, leftover,
                     raced>>
  BY DEF NotStopped, concluded
<1>t. "update" \in Closers /\ "turn" \in Closers /\ "archive" \in Closers /\ "delete" \in Closers
  BY ResourceNames
<1>2. /\ cleaning' \in [Closers -> CleaningTypes] /\ cleaning'[k] = Rest
      /\ \A j \in Closers : j # k => cleaning'[j] = cleaning[j]
      /\ Rest.step = "none" /\ Rest.box = NoBox
  BY <1>1, SessionTypesOf
<1>3. /\ cleaning[k].box = NoBox /\ closing[k] = NoManager /\ cleaning[k] # Rest
      /\ k = "turn" => turn = "releasing"
  BY <1>1, <1>t, <1>2 DEF SandboxInv, CleaningInv
<1>4. SessionTypeOK'
  BY <1>1, <1>2 DEF SessionTypeOK, CleaningTypes, Turns
<1>5. CleaningInv'
  <2>1. \A j \in Closers : /\ cleaning'[j].step # "sandbox" => cleaning'[j].box = NoBox
                           /\ closing[j] # NoManager => cleaning'[j].step = "tools"
    BY <1>2, <1>3 DEF SandboxInv, CleaningInv
  <2>2. /\ cleaning'["turn"] # Rest => turn' = "releasing"
        /\ cleaning'["archive"] # Rest => row \in {"ended", "gone"}
        /\ cleaning'["update"].step \in {"none", "tools"}
    BY <1>1, <1>2, <1>3, <1>t DEF SandboxInv, CleaningInv
  <2>3. turn' = "connecting" <=> turn = "connecting"
    BY <1>1, <1>3
  <2>4. QED
    BY <1>1, <2>1, <2>2, <2>3 DEF SandboxInv, CleaningInv, mcpVars
<1>6. TurnInv'
  <2>1. (turn' = turn \/ turn' = "none")
    BY <1>1
  <2>2. \A j \in Closers : /\ cleaning[j] = Rest => cleaning'[j] = Rest
                           /\ cleaning[j].box = NoBox => cleaning'[j].box = NoBox
    BY <1>2
  <2>3. QED
    BY <1>1, <2>1, <2>2 DEF SandboxInv, TurnInv, InTurn, Turns
<1>7. WorkdirInv'
  BY <1>1, <1>2, <1>3 DEF SandboxInv, WorkdirInv
<1>8. EndedInv'
  BY <1>1, <1>2, <1>t DEF SandboxInv, EndedInv, mcpVars
<1>9. QED
  BY <1>4, <1>5, <1>6, <1>7, <1>8 DEF SandboxInv

LEMMA SandboxGoneKeeps ==
  ASSUME SessionTypeOK, McpTypeOK, SandboxInv, NEW k \in Closers, SandboxGone(k)
  PROVE  SessionTypeOK' /\ SandboxInv'
<1>t. "update" \in Closers /\ "turn" \in Closers /\ "archive" \in Closers /\ "delete" \in Closers
  BY ResourceNames
<1> DEFINE x == [step |-> "tools", box |-> NoBox]
<1>x. x = [Rest EXCEPT !.step = "tools"] /\ x \in CleaningTypes
  BY DEF Rest, CleaningTypes
<1>1. /\ cleaning[k].step = "sandbox" /\ registered' = NoManager
      /\ closing \in [Closers -> Managers \cup {NoManager}]
      /\ closing' = closing \/ closing' = [closing EXCEPT ![k] = registered]
      /\ cleaning' = [cleaning EXCEPT ![k] = x]
      /\ cleaning[k].box = NoBox => UNCHANGED <<box, workdir>>
      /\ cleaning[k].box # NoBox => box' = [box EXCEPT ![cleaning[k].box] = "gone"] /\ workdir' = FALSE
      /\ UNCHANGED <<attempt, row, messages, queue, turn, hand, tools, bound, leftover, raced,
                     unproven>>
  BY <1>x DEF SandboxGone, CloseManager, McpTypeOK
<1>2. /\ cleaning' \in [Closers -> CleaningTypes]
      /\ cleaning'[k].step = "tools" /\ cleaning'[k].box = NoBox
      /\ \A j \in Closers : j # k => cleaning'[j] = cleaning[j] /\ closing'[j] = closing[j]
      /\ box' \in [Boxes -> {"unused", "up", "closing", "gone"}] /\ workdir' \in BOOLEAN
  BY <1>1, <1>x, SessionTypesOf DEF SessionTypeOK
<1>3. /\ k # "update" /\ cleaning[k] # Rest
      /\ k = "turn" => turn = "releasing"
      /\ k = "archive" => row \in {"ended", "gone"}
  BY <1>1, <1>t, SessionTypesOf DEF SandboxInv, CleaningInv
<1>4. ~ raced => turn \notin InTurn
  BY <1>3, <1>t DEF SandboxInv, TurnInv
<1>5. SessionTypeOK'
  BY <1>1, <1>2 DEF SessionTypeOK, CleaningTypes
<1>6. CleaningInv'
  <2>1. \A j \in Closers : /\ cleaning'[j].step # "sandbox" => cleaning'[j].box = NoBox
                           /\ closing'[j] # NoManager => cleaning'[j].step = "tools"
    BY <1>2 DEF SandboxInv, CleaningInv
  <2>2. /\ cleaning'["turn"] # Rest => turn = "releasing"
        /\ cleaning'["archive"] # Rest => row \in {"ended", "gone"}
        /\ cleaning'["update"].step \in {"none", "tools"}
    BY <1>2, <1>3, <1>t DEF SandboxInv, CleaningInv
  <2>3. QED
    BY <1>1, <2>1, <2>2 DEF SandboxInv, CleaningInv
<1>7. TurnInv'
  <2>1. ~ raced /\ bound # NoBox => /\ box' = box /\ workdir' = workdir
                                    /\ \A j \in Closers : cleaning'[j].box = NoBox
    BY <1>1, <1>2 DEF SandboxInv, TurnInv
  <2>2. QED
    BY <1>1, <1>4, <2>1 DEF SandboxInv, TurnInv, InTurn, Turns
<1>8. WorkdirInv'
  BY <1>1, <1>2 DEF SandboxInv, WorkdirInv
<1>9. EndedInv'
  <2>1. (\E j \in Closers : cleaning[j].step = "stopping") =>
          \E j \in Closers : cleaning'[j].step = "stopping"
    BY <1>1, <1>2
  <2>2. cleaning'["delete"].step \in {"sandbox", "tools"} => cleaning["delete"].step \in {"sandbox", "tools"}
    BY <1>1, <1>2, <1>t
  <2>3. QED
    BY <1>1, <2>1, <2>2 DEF SandboxInv, EndedInv
<1>10. QED
  BY <1>5, <1>6, <1>7, <1>8, <1>9 DEF SandboxInv

LEMMA ReleasedKeeps ==
  ASSUME SessionTypeOK, McpTypeOK, SandboxInv, NEW k \in Closers, Released(k)
  PROVE  SessionTypeOK' /\ SandboxInv'
<1>t. "update" \in Closers /\ "turn" \in Closers /\ "archive" \in Closers /\ "delete" \in Closers
  BY ResourceNames
<1>1. /\ cleaning[k].step = "tools" /\ cleaning' = [cleaning EXCEPT ![k] = Rest]
      /\ closing' = [closing EXCEPT ![k] = NoManager]
      /\ closing \in [Closers -> Managers \cup {NoManager}]
      /\ row' = IF k = "delete" THEN "gone" ELSE row
      /\ turn' = IF k = "turn" THEN "none" ELSE turn
      /\ UNCHANGED <<attempt, registered, messages, queue, hand, tools, bound, box, workdir,
                     leftover, raced, unproven>>
  BY DEF Released, ManagerClosed, concluded, McpTypeOK
<1>2. /\ cleaning' \in [Closers -> CleaningTypes] /\ cleaning'[k] = Rest /\ closing'[k] = NoManager
      /\ \A j \in Closers : j # k => cleaning'[j] = cleaning[j] /\ closing'[j] = closing[j]
      /\ Rest.step = "none" /\ Rest.box = NoBox
  BY <1>1, SessionTypesOf
<1>3. /\ cleaning[k].box = NoBox /\ cleaning[k] # Rest
      /\ k = "turn" => turn = "releasing"
  BY <1>1, <1>t, <1>2 DEF SandboxInv, CleaningInv
<1>4. SessionTypeOK'
  BY <1>1, <1>2 DEF SessionTypeOK, CleaningTypes, Turns, Rows
<1>5. CleaningInv'
  <2>1. \A j \in Closers : /\ cleaning'[j].step # "sandbox" => cleaning'[j].box = NoBox
                           /\ closing'[j] # NoManager => cleaning'[j].step = "tools"
    BY <1>2, <1>3 DEF SandboxInv, CleaningInv
  <2>2. /\ cleaning'["turn"] # Rest => turn' = "releasing"
        /\ cleaning'["archive"] # Rest => row' \in {"ended", "gone"}
        /\ cleaning'["update"].step \in {"none", "tools"}
    BY <1>1, <1>2, <1>3, <1>t DEF SandboxInv, CleaningInv
  <2>3. turn' = "connecting" <=> turn = "connecting"
    BY <1>1, <1>3
  <2>4. QED
    BY <1>1, <2>1, <2>2, <2>3 DEF SandboxInv, CleaningInv
<1>6. TurnInv'
  <2>1. (turn' = turn \/ turn' = "none")
    BY <1>1
  <2>2. \A j \in Closers : /\ cleaning[j] = Rest => cleaning'[j] = Rest
                           /\ cleaning[j].box = NoBox => cleaning'[j].box = NoBox
    BY <1>2
  <2>3. k = "delete" => raced \/ turn \notin InTurn
    BY <1>3, <1>t DEF SandboxInv, TurnInv
  <2>4. QED
    BY <1>1, <2>1, <2>2, <2>3 DEF SandboxInv, TurnInv, InTurn, Turns
<1>7. WorkdirInv'
  BY <1>1, <1>2, <1>3 DEF SandboxInv, WorkdirInv
<1>8. EndedInv'
  <2>1. CASE k = "delete"
    BY <2>1, <1>1, <1>2, <1>t DEF SandboxInv, EndedInv
  <2>2. CASE k # "delete"
    BY <2>2, <1>1, <1>2, <1>t DEF SandboxInv, EndedInv
  <2>3. QED
    BY <2>1, <2>2
<1>9. QED
  BY <1>4, <1>5, <1>6, <1>7, <1>8 DEF SandboxInv

LEMMA ToolsCachedKeeps ==
  ASSUME SessionTypeOK, McpTypeOK, SandboxInv, ToolsCached
  PROVE  SessionTypeOK' /\ SandboxInv'
<1>1. /\ turn = "resolving" /\ turn' = "working" /\ tools' = cached
      /\ UNCHANGED <<mcpVars, row, messages, queue, hand, bound, box, workdir, leftover, cleaning,
                     raced, unproven>>
  BY DEF ToolsCached
<1>2. SessionTypeOK'
  BY <1>1 DEF SessionTypeOK, McpTypeOK, Turns
<1>3. SandboxInv'
  BY <1>1 DEF SandboxInv, CleaningInv, TurnInv, WorkdirInv, EndedInv, mcpVars, InTurn, Turns
<1>4. QED
  BY <1>2, <1>3

LEMMA ToolsConnectKeeps ==
  ASSUME SessionTypeOK, McpTypeOK, ConnectionInv, SandboxInv, ToolsConnect
  PROVE  SessionTypeOK' /\ SandboxInv'
<1>1. /\ turn = "resolving" /\ turn' = "connecting" /\ registered' = registered
      /\ closing' = closing
      /\ UNCHANGED <<row, messages, queue, hand, tools, bound, box, workdir, leftover, cleaning,
                     raced, unproven>>
  BY DEF ToolsConnect, ConnectTurn
<1>2. attempt'[Turn].pc = "connecting"
  <2>1. Min({n \in Managers : ~ manager[n].made}) \in Managers
    BY FreshManager DEF ToolsConnect, ConnectTurn
  <2>2. QED
    BY <2>1, BeginFacts DEF ToolsConnect, ConnectTurn, Connectors, AttemptStates
<1>3. SessionTypeOK'
  BY <1>1 DEF SessionTypeOK, Turns
<1>4. SandboxInv'
  BY <1>1, <1>2 DEF SandboxInv, CleaningInv, TurnInv, WorkdirInv, EndedInv, InTurn, Turns
<1>5. QED
  BY <1>3, <1>4

LEMMA ToolsConnectedKeeps ==
  ASSUME SessionTypeOK, McpTypeOK, ConnectionInv, SandboxInv, McpTypeOK', ToolsConnected
  PROVE  SessionTypeOK' /\ SandboxInv'
<1>1. /\ turn = "connecting" /\ turn' = "working" /\ tools' = cached' /\ closing' = closing
      /\ UNCHANGED <<row, messages, queue, hand, bound, box, workdir, leftover, cleaning, raced,
                     unproven>>
  BY DEF ToolsConnected, Connected, NotConnected
<1>2. attempt' = [attempt EXCEPT ![Turn] = Idle]
  BY McpNames DEF ToolsConnected, Connected, Concluded, NotConnected
<1>3. attempt'[Turn].pc = "none"
  BY <1>2 DEF McpTypeOK, Connectors, Idle
<1>4. ~ raced => row = "running"
  BY <1>1 DEF SandboxInv, TurnInv, InTurn, Turns
<1>5. \A k \in Closers \ {"update"} : ~ raced => cleaning[k].step = "none"
  BY <1>1, SessionTypesOf DEF SandboxInv, TurnInv, InTurn, Turns
<1>6. SessionTypeOK'
  BY <1>1 DEF SessionTypeOK, McpTypeOK, Turns
<1>7. CleaningInv' /\ TurnInv' /\ WorkdirInv'
  BY <1>1, <1>3 DEF SandboxInv, CleaningInv, TurnInv, WorkdirInv, InTurn, Turns
<1>8. EndedInv'
  BY <1>1, <1>4, <1>5, ResourceNames DEF SandboxInv, EndedInv
<1>9. QED
  BY <1>6, <1>7, <1>8 DEF SandboxInv

\* A tool call and a refresh leave the turn's own attempt and the session's manager.
LEMMA OthersConnect ==
  ASSUME McpTypeOK, ConnectionInv, ToolStep \/ RefreshStep
  PROVE  attempt'[Turn] = attempt[Turn] /\ UNCHANGED <<registered, closing>>
<1>t. attempt \in [Connectors -> AttemptTypes] /\ Turn \in Connectors
  BY TypesOf DEF Connectors
<1>1. CASE ToolStep
  <2>1. ASSUME NEW p \in Calls, NEW m, Reconnect(p, m)
        PROVE  attempt'[Turn] = attempt[Turn] /\ UNCHANGED <<registered, closing>>
    BY <2>1, <1>t, McpNames DEF Reconnect, Begin
  <2>2. ASSUME NEW p \in Calls, Connected(p) \/ NotConnected(p) \/ Replaced(p)
        PROVE  attempt'[Turn] = attempt[Turn] /\ UNCHANGED <<registered, closing>>
    BY <2>2, <1>t, McpNames DEF Connected, Concluded, NotConnected, Replaced
  <2>3. ASSUME NEW c \in Clients, Drop(c)
        PROVE  attempt'[Turn] = attempt[Turn] /\ UNCHANGED <<registered, closing>>
    BY <2>3 DEF Drop
  <2>4. QED
    BY <1>1, <2>1, <2>2, <2>3 DEF ToolStep
<1>2. CASE RefreshStep
  <2>1. PICK r \in Refreshers :
          \/ Rotate(r, row \notin Live) \/ RefreshSession(r) \/ RefreshClosed(r)
          \/ Connected(r) \/ NotConnected(r)
    BY <1>2 DEF RefreshStep
  <2>2. r # Turn /\ r \notin Calls
    BY McpNames
  <2>3. CASE Rotate(r, row \notin Live)
    BY <2>2, <2>3, <1>t DEF Rotate
  <2>4. CASE RefreshSession(r) \/ RefreshClosed(r)
    BY <2>2, <2>4, <1>t DEF RefreshSession, RefreshClosed, Begin
  <2>5. CASE Connected(r) \/ NotConnected(r)
    BY <2>2, <2>5, <1>t DEF Connected, Concluded, NotConnected
  <2>6. QED
    BY <2>1, <2>3, <2>4, <2>5
<1>3. QED
  BY <1>1, <1>2

LEMMA OthersConnectKeeps ==
  ASSUME SessionTypeOK, McpTypeOK, ConnectionInv, SandboxInv, ToolStep \/ RefreshStep
  PROVE  SessionTypeOK' /\ SandboxInv'
<1>1. attempt'[Turn] = attempt[Turn] /\ UNCHANGED <<registered, closing, sessionVars>>
  BY OthersConnect DEF ToolStep, RefreshStep
<1>2. QED
  BY <1>1 DEF sessionVars, SessionTypeOK, SandboxInv, CleaningInv, TurnInv, WorkdirInv, EndedInv

-----------------------------------------------------------------------------
(* The invariant. *)

LEMMA ResourceInvInit == ResourceInit => ResourceInv
<1> SUFFICES ASSUME ResourceInit
             PROVE  ResourceInv
  OBVIOUS
<1> USE McpNames, ResourceNames
<1>i. Idle.pc = "none" /\ Idle.on = NoManager /\ Idle.new = NoClient /\ Idle.asked = 0
      /\ Idle \in AttemptTypes
  BY DEF Idle, AttemptTypes, AttemptStates
<1>u. Unused.state = "unused" /\ Unused \in ClientTypes
  BY DEF Unused, ClientTypes
<1>n. NewManager.made = FALSE /\ NewManager.client = NoClient /\ NewManager.live = NoClient
      /\ NewManager \in ManagerTypes
  BY DEF NewManager, ManagerTypes
<1>r. Rest.step = "none" /\ Rest.box = NoBox /\ Rest \in CleaningTypes
  BY DEF Rest, CleaningTypes
<1>1. McpTypeOK
  BY <1>i, <1>u, <1>n DEF ResourceInit, McpInit, McpTypeOK, AttemptTypes, ClientTypes, ManagerTypes
<1>2. \A p \in Connectors : attempt[p] = Idle
  BY DEF ResourceInit, McpInit
<1>3. \A m \in Managers : manager[m] = NewManager /\ acting(m) = {}
  BY <1>2, <1>i DEF ResourceInit, McpInit, acting
<1>4. \A c \in Clients : client[c] = Unused
  BY DEF ResourceInit, McpInit
<1>5. registered = NoManager /\ met = {} /\ secret = 0
  BY DEF ResourceInit, McpInit
<1>t. Turn \in Connectors /\ Calls \subseteq Connectors
  BY DEF Connectors
<1>6. AttemptInv
  BY <1>2, <1>5, <1>i DEF AttemptInv, Pcs
<1>7. MadeInv /\ AloneInv /\ SpareInv
  <2>1. MadeInv
    BY <1>2, <1>3, <1>5, <1>i, <1>n DEF MadeInv
  <2>2. AloneInv
    <3>1. \A p \in Connectors : attempt[p].on = NoManager /\ attempt[p].pc = "none"
      BY <1>2, <1>i
    <3>2. \A k \in Closers : closing[k] = NoManager
      BY DEF ResourceInit, McpInit
    <3>3. QED
      BY <1>3, <1>5, <1>t, <3>1, <3>2 DEF AloneInv, Connectors
  <2>3. SpareInv
    BY <1>3, <1>n DEF SpareInv, Spare
  <2>4. QED
    BY <2>1, <2>2, <2>3
<1>8. HeldInv /\ FreshInv
  BY <1>2, <1>3, <1>4, <1>i, <1>u, <1>n, <1>t DEF HeldInv, FreshInv, Open
<1>9. SessionTypeOK
  <2>1. /\ row \in Rows /\ messages = 0 /\ queue = 0 /\ turn \in Turns
        /\ hand = NoBox /\ tools = NoManager /\ bound = NoBox
    BY DEF ResourceInit, Rows, Live, Turns
  <2>2. 0 \in 0..MaxMessages /\ 0 \in 0..0
    OBVIOUS
  <2>3. workdir \in BOOLEAN /\ leftover \in BOOLEAN /\ raced \in BOOLEAN /\ unproven \in BOOLEAN
    BY DEF ResourceInit
  <2>4. /\ box \in [Boxes -> {"unused", "up", "closing", "gone"}]
        /\ cleaning \in [Closers -> CleaningTypes]
    BY <1>r DEF ResourceInit
  <2>5. QED
    BY <2>1, <2>2, <2>3, <2>4 DEF SessionTypeOK, CleaningTypes
<1>10. SandboxInv
  <2>1. \A k \in Closers : cleaning[k] = Rest /\ closing[k] = NoManager
    BY DEF ResourceInit, McpInit
  <2>2. QED
    BY <2>1, <1>2, <1>5, <1>i, <1>r, <1>t
       DEF ResourceInit, SandboxInv, CleaningInv, TurnInv, WorkdirInv,
         EndedInv, InTurn
<1>11. QED
  BY <1>1, <1>6, <1>7, <1>8, <1>9, <1>10
     DEF ResourceInv, ResourceTypeOK, SessionTypeOK, ConnectionInv

LEMMA ResourceInvStep == ResourceInv /\ [ResourceNext]_resourceVars => ResourceInv'
<1> SUFFICES ASSUME ResourceInv, [ResourceNext]_resourceVars
             PROVE  ResourceInv'
  OBVIOUS
<1>1. McpTypeOK' /\ ConnectionInv'
  BY ConnectionsKept
<1>2. SessionTypeOK /\ McpTypeOK /\ ConnectionInv /\ SandboxInv
  BY DEF ResourceInv, ResourceTypeOK, SessionTypeOK
<1>3. SessionTypeOK' /\ SandboxInv'
  <2>1. CASE Accept \/ StartTurn \/ Provisioned \/ Materialized \/ NotMaterialized
    BY <1>2, <2>1, AcceptKeeps, StartTurnKeeps, ProvisionedKeeps, MaterializedKeeps,
       NotMaterializedKeeps
  <2>2. CASE ToolsCached \/ ToolsConnect \/ ToolsConnected
    BY <1>1, <1>2, <2>2, ToolsCachedKeeps, ToolsConnectKeeps, ToolsConnectedKeeps
  <2>3. CASE TurnEnds \/ TurnFails \/ TurnPending \/ TurnLosesRow
    BY <1>2, <2>3, TurnStopsKeeps, TurnFailsKeeps, TurnPendingKeeps
  <2>4. CASE Archive \/ ParkedExpires \/ Delete \/ Update
    BY <1>2, <2>4, ReleaseBeginsKeeps, ParkedExpiresKeeps, UpdateKeeps
  <2>5. ASSUME NEW k \in Closers, Stopped(k) \/ NotStopped(k) \/ SandboxGone(k) \/ Released(k)
        PROVE  SessionTypeOK' /\ SandboxInv'
    BY <1>2, <2>5, StoppedKeeps, NotStoppedKeeps, SandboxGoneKeeps, ReleasedKeeps
  <2>6. CASE ToolStep \/ RefreshStep
    BY <1>2, <2>6, OthersConnectKeeps
  <2>7. CASE UNCHANGED resourceVars
    BY <1>2, <2>7 DEF resourceVars, sessionVars, mcpVars, SessionTypeOK, SandboxInv, CleaningInv,
       TurnInv, WorkdirInv, EndedInv
  <2>8. QED
    BY <2>1, <2>2, <2>3, <2>4, <2>5, <2>6, <2>7 DEF ResourceNext
<1>4. QED
  BY <1>1, <1>3 DEF ResourceInv, ResourceTypeOK, SessionTypeOK

\* The invariant of a session's sandbox and connections, whatever turns, calls,
\* rotations, resets, archives and deletes come between its awaits.
THEOREM ResourceSafe == ResourceSpec => []ResourceInv
BY ResourceInvInit, ResourceInvStep, PTL DEF ResourceSpec

\* Every variable of SessionResources and McpConnections keeps its type.
THEOREM ResourceTyped == ResourceSpec => []ResourceTypeOK
<1>1. ResourceInv => ResourceTypeOK
  BY DEF ResourceInv
<1>2. QED
  BY <1>1, ResourceSafe, PTL

\* A turn that met no delete works in a sandbox that is up, in a directory that is
\* there, however many turns, failures and releases came before (session-manager.ts
\* runTurn, sandbox-lifecycle.ts).
THEOREM TurnKeepsItsSandbox == ResourceSpec => []TurnKeepsSandbox
<1>1. ResourceInv => TurnKeepsSandbox
  BY DEF ResourceInv, SandboxInv, TurnInv, TurnKeepsSandbox, AtWork
<1>2. QED
  BY <1>1, ResourceSafe, PTL

\* A session that failed, was archived or deleted holds no sandbox, no directory and
\* no manager once every cleanup is done (executor.ts cleanupSession).
THEOREM EndedSessionHoldsNothing == ResourceSpec => []EndedHoldsNothing
<1>1. ResourceInv => EndedHoldsNothing
  <2> SUFFICES ASSUME ResourceInv, row \in {"ended", "gone"}, turn = "none",
                      \A k \in Closers : cleaning[k] = Rest, ~ excused
               PROVE  bound = NoBox /\ ~ workdir /\ registered = NoManager
    BY DEF EndedHoldsNothing
  <2>1. \A k \in Closers : cleaning[k].step = "none" /\ cleaning[k].box = NoBox
    BY DEF Rest
  <2>2. bound = NoBox /\ registered = NoManager
    BY <2>1 DEF ResourceInv, SandboxInv, EndedInv, excused
  <2>3. ~ workdir
    BY <2>1, <2>2 DEF ResourceInv, SandboxInv, WorkdirInv, excused
  <2>4. QED
    BY <2>2, <2>3
<1>2. QED
  BY <1>1, ResourceSafe, PTL

\* A client that is not closed is held by the session's manager, or by somebody who is
\* about to install it, unless two of connect, reconnect, refresh and reset met on
\* its manager (mcp-manager.ts).
THEOREM EveryClientOwned == ResourceSpec => []ClientsOwned
<1>1. ResourceInv => ClientsOwned
  <2> SUFFICES ASSUME ResourceInv, NEW c \in Clients, client[c].state \in {"open", "dropped"},
                      client[c].of \notin met, \A p \in Calls : attempt[p].new # c
               PROVE  \E m \in Managers : holds(m, c)
    BY DEF ClientsOwned
  <2>1. client[c].of \in Managers /\ manager[client[c].of].client = c
    BY DEF ResourceInv, ConnectionInv, HeldInv
  <2>2. NoClient \notin Clients
    BY McpNames
  <2>3. ~ Spare(c)
    BY <2>2 DEF Spare
  <2>4. registered = client[c].of
    BY <2>1, <2>3, SpareInvOf DEF ResourceInv, ConnectionInv
  <2>5. QED
    BY <2>1, <2>4 DEF holds
<1>2. QED
  BY <1>1, ResourceSafe, PTL

\* Once a rotation is answered no tool call presents an older value, but on a manager
\* where it met a connect (docs/api.md).
THEOREM RotationReachesTools == ResourceSpec => []FreshAfterRotation
<1>1. ResourceInv => FreshAfterRotation
  <2> SUFFICES ASSUME ResourceInv, row = "running", tools # NoManager, tools \notin met,
                      manager[tools].live # NoClient,
                      client[manager[tools].live].state = "open"
               PROVE  client[manager[tools].live].value >= due
    BY DEF FreshAfterRotation
  <2>1. tools \in Managers /\ row \in Live /\ Open(manager[tools].live)
    BY DEF ResourceInv, ResourceTypeOK, Live, Open
  <2>2. Fresh(client[manager[tools].live].value)
    BY <2>1, FreshInvOf DEF ResourceInv, ConnectionInv
  <2>3. manager[tools].live \in Clients
    BY <2>1, TypesOf DEF ResourceInv, ResourceTypeOK, ManagerTypes
  <2>4. client[manager[tools].live].value \in Nat /\ due \in Nat
    BY <2>3, TypesOf DEF ResourceInv, ResourceTypeOK, ClientTypes
  <2>5. QED
    BY <2>2, <2>4 DEF Fresh
<1>2. QED
  BY <1>1, ResourceSafe, PTL
=============================================================================
