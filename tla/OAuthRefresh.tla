------------------------------ MODULE OAuthRefresh -----------------------------
(***************************************************************************)
(* The refresh of one stored OAuth credential against a provider that may  *)
(* hand out a new refresh token with every grant and then refuses the old  *)
(* one.  Two kinds of caller exchange the token: a connection to an MCP    *)
(* server, which refreshes a credential that is due, and the operator's    *)
(* validation, which refreshes when its probe is answered 401.  Each works *)
(* on the row as it read it, across the awaits of a probe, of another      *)
(* credential's refresh, of the exchange and of a webhook; in between the  *)
(* operator may update, archive or delete the credential and the process   *)
(* may die.  Callers of the first kind share one exchange: the map of      *)
(* running refreshes is the variable inflight.                             *)
(*                                                                         *)
(* Refresh tokens are numbered in the order in which the provider issued   *)
(* them; 0 is no token.  Times are positive; 0 is no time.  The access     *)
(* token, which nothing here reads back, and the audit log are left out.   *)
(***************************************************************************)
EXTENDS Naturals, FiniteSets

CONSTANTS
  Connects,     \* connections that refresh before they connect
  Validations,  \* operator requests that validate the credential
  Nobody,       \* no attempt is registered
  Window,       \* how long an attempt suppresses the next one
  Lives,        \* for how long an access token may be said to live; 0: not said
  Patches,      \* bound: the expiries an operator writes
  Together,     \* bound: callers under way at once
  MaxTokens,    \* bound: refresh tokens the provider issues
  MaxTime       \* bound: the clock

Callers == Connects \cup Validations

ASSUME CallersAssumption ==
  /\ Connects \cap Validations = {}
  /\ Nobody \notin Callers

ASSUME NumbersAssumption ==
  /\ Window \in Nat \ {0} /\ Lives \subseteq Nat /\ Patches \subseteq Nat
  /\ MaxTokens \in Nat \ {0} /\ MaxTime \in Nat

VARIABLES
  now,
  row,        \* the credential's row
  inflight,   \* the connection whose attempt inflightRefreshes holds, or Nobody
  pc,         \* per caller: the await it is suspended at
  snap,       \* per caller: the row as it read it
  answer,     \* per caller: the token endpoint's answer
  valid,      \* provider: the refresh tokens it accepts
  issued,     \* provider: how many it has issued
  ended,      \* history: when the last attempt was recorded
  fresh,      \* history: connections that read the row after that
  disturbed,  \* history: callers whose grant overlapped another one, or that
              \* hold a row whose refresh token the operator, or a disturbed
              \* caller, has replaced since
  harmed      \* history: an answer with a new token was lost, or a disturbed
              \* caller wrote its own

providerVars == <<valid, issued>>
callerVars   == <<pc, snap, answer, inflight>>
historyVars  == <<ended, fresh, disturbed, harmed>>
vars == <<now, row, callerVars, providerVars, historyVars>>

Row == [state : {"live", "archived", "deleted"}, endpoint : BOOLEAN,
        refresh : Nat, expires : Nat, last : Nat]
NoRow == [state |-> "deleted", endpoint |-> FALSE, refresh |-> 0, expires |-> 0, last |-> 0]

\* ok: an access token came back; token: a rotated refresh token; expires: when
\* the new access token dies, if the endpoint told.
Answer == [ok : BOOLEAN, token : Nat, expires : Nat]
Refusal == [ok |-> FALSE, token |-> 0, expires |-> 0]

Init ==
  /\ now = 1
  /\ \E held \in {0, 1}, set \in BOOLEAN, at \in {0, 1} :
       row = [state |-> "live", endpoint |-> set, refresh |-> held, expires |-> at, last |-> 0]
  /\ inflight = Nobody
  /\ pc = [a \in Callers |-> "idle"]
  /\ snap = [a \in Callers |-> NoRow]
  /\ answer = [a \in Callers |-> Refusal]
  /\ valid = {1} /\ issued = 1
  /\ ended = 0 /\ fresh = {} /\ disturbed = {} /\ harmed = FALSE

-----------------------------------------------------------------------------
(* What a row says about itself. *)

\* hasRefreshToken is written together with the token's columns.
refreshable(r) == r.endpoint /\ r.refresh # 0

withinWindow(r) == r.last # 0 /\ now - r.last < Window

due(r) == refreshable(r) /\ r.expires \in 1..now /\ ~ withinWindow(r)

-----------------------------------------------------------------------------
(* How a caller begins. *)

suspended == {a \in Callers : pc[a] # "idle"}
roomForOne == Cardinality(suspended) < Together

\* refreshMcpOauthCredentialsForServer reads every matching row at once; it
\* comes to this one after it has awaited the ones before it.
ReadRow(c) ==
  /\ c \in Connects /\ pc[c] = "idle" /\ roomForOne /\ row.state = "live"
  /\ pc' = [pc EXCEPT ![c] = "read"]
  /\ snap' = [snap EXCEPT ![c] = row]
  /\ fresh' = fresh \cup {c}
  /\ UNCHANGED <<now, row, inflight, answer, providerVars, ended, disturbed, harmed>>

\* The route reads the row, then the probe is awaited.
Validate(v) ==
  /\ v \in Validations /\ pc[v] = "idle" /\ roomForOne /\ row.state = "live"
  /\ pc' = [pc EXCEPT ![v] = "read"]
  /\ snap' = [snap EXCEPT ![v] = row]
  /\ UNCHANGED <<now, row, inflight, answer, providerVars, historyVars>>

\* A caller is through: its locals are gone.
Leave(done) ==
  /\ snap' = [a \in Callers |-> IF a \in done THEN NoRow ELSE snap[a]]
  /\ answer' = [a \in Callers |-> IF a \in done THEN Refusal ELSE answer[a]]

\* The row needs no refresh, or the probe was not answered 401.
NothingToDo(a) ==
  /\ pc[a] = "read"
  /\ a \in Connects => inflight = Nobody /\ ~ due(snap[a])
  /\ pc' = [pc EXCEPT ![a] = "idle"]
  /\ Leave({a})
  /\ fresh' = fresh \ {a}
  /\ disturbed' = disturbed \ {a}
  /\ UNCHANGED <<now, row, inflight, providerVars, ended, harmed>>

\* A registered attempt is awaited instead of starting another one.
Join(a) ==
  /\ pc[a] = "read" /\ inflight # Nobody
  /\ a \in Validations => refreshable(snap[a])
  /\ pc' = [pc EXCEPT ![a] = "joined"]
  /\ UNCHANGED <<now, row, inflight, snap, answer, providerVars, historyVars>>

\* A validation that has awaited a failed attempt does not look for another.
MayExchange(a) ==
  IF a \in Connects THEN pc[a] = "read" /\ inflight = Nobody /\ due(snap[a])
  ELSE /\ refreshable(snap[a])
       /\ \/ pc[a] = "read" /\ inflight = Nobody
          \/ pc[a] = "unjoined"

\* Only the connection's attempt is registered.
Register_Nothing(a) == UNCHANGED inflight
Register(a) == inflight' = IF a \in Connects THEN a ELSE inflight

granting == {a \in Callers : pc[a] \in {"sent", "answered"}}

\* The POST of the refresh grant is on its way.
Exchange(a) ==
  /\ MayExchange(a)
  /\ Register(a)
  /\ pc' = [pc EXCEPT ![a] = "sent"]
  /\ disturbed' = IF granting = {} THEN disturbed ELSE disturbed \cup granting \cup {a}
  /\ UNCHANGED <<now, row, snap, answer, providerVars, ended, fresh, harmed>>

-----------------------------------------------------------------------------
(* The provider: a refresh token is good for one rotating grant. *)

Grant(a) ==
  /\ pc[a] = "sent" /\ snap[a].refresh \in valid
  /\ \E rotates \in BOOLEAN, life \in Lives :
       /\ rotates => issued < MaxTokens
       /\ answer' = [answer EXCEPT ![a] = [ok |-> TRUE,
            token |-> IF rotates THEN issued + 1 ELSE 0,
            expires |-> IF life = 0 THEN 0 ELSE now + life]]
       /\ valid' = IF rotates THEN (valid \ {snap[a].refresh}) \cup {issued + 1} ELSE valid
       /\ issued' = IF rotates THEN issued + 1 ELSE issued
  /\ pc' = [pc EXCEPT ![a] = "answered"]
  /\ UNCHANGED <<now, row, snap, inflight, historyVars>>

\* It may refuse for reasons of its own, and must when the token is used up.
Refuse(a) ==
  /\ pc[a] = "sent"
  /\ pc' = [pc EXCEPT ![a] = "answered"]
  /\ answer' = [answer EXCEPT ![a] = Refusal]
  /\ UNCHANGED <<now, row, snap, inflight, providerVars, historyVars>>

-----------------------------------------------------------------------------
(* How an attempt ends. *)

joined == {a \in Callers : pc[a] = "joined"}

\* Who goes on, and where, when the attempt of a settles.  Those that joined a
\* connection's attempt are released with it; a validation among them exchanges
\* the token itself unless the attempt refreshed it.
released(a, refreshed) == IF a \in Connects THEN joined ELSE {}

Settle(a, refreshed) ==
  LET out  == released(a, refreshed)
      self == {v \in out \cap Validations : ~ refreshed}
      done == {a} \cup (out \ self)
  IN /\ pc' = [x \in Callers |-> IF x \in done THEN "idle"
                                 ELSE IF x \in self THEN "unjoined" ELSE pc[x]]
     /\ Leave(done)
     /\ inflight' = IF inflight = a THEN Nobody ELSE inflight
     /\ disturbed' = (IF refreshed /\ a \in disturbed THEN suspended ELSE disturbed) \ done

\* What an attempt writes to a row that still exists: the columns as the caller
\* read them, with what has changed.
Stamped(r) == IF row.state = "deleted" THEN row
              ELSE [r EXCEPT !.state = row.state, !.last = now]
Recorded == /\ ended' = now
            /\ fresh' = {}

\* commitRefreshSuccess: an answer without a refresh token, or without an
\* expiry, leaves the ones the caller had read.
stored_KeepsOld(a) == [snap[a] EXCEPT
  !.expires = IF answer[a].expires # 0 THEN answer[a].expires ELSE snap[a].expires]
stored(a) == [snap[a] EXCEPT
  !.refresh = IF answer[a].token # 0 THEN answer[a].token ELSE snap[a].refresh,
  !.expires = IF answer[a].expires # 0 THEN answer[a].expires ELSE snap[a].expires]

Commit(a) ==
  /\ pc[a] = "answered" /\ answer[a].ok
  /\ row' = Stamped(stored(a))
  /\ Settle(a, TRUE)
  /\ Recorded
  /\ harmed' = (harmed \/ a \in disturbed)
  /\ UNCHANGED <<now, providerVars>>

\* recordRefreshFailure: the state bag of the row is the caller's, the token's
\* column is not written; then the webhook is awaited.  The causes: a token that
\* cannot be decrypted, a refusal, a broken connection, an answer that cannot be
\* read.
failedRow_Columns(a) == snap[a]
failedRow(a) == [snap[a] EXCEPT !.refresh = row.refresh]

Fail(a) ==
  /\ \/ MayExchange(a) /\ Register(a)
     \/ pc[a] \in {"sent", "answered"} /\ UNCHANGED inflight
  /\ row' = Stamped(failedRow(a))
  /\ pc' = [pc EXCEPT ![a] = "publishing"]
  /\ answer' = [answer EXCEPT ![a] = Refusal]
  /\ Recorded
  /\ disturbed' = disturbed \ {a}
  /\ harmed' = (harmed \/ answer[a].token # 0)
  /\ UNCHANGED <<now, snap, providerVars>>

\* A delivery that fails is swallowed.
Published(a) ==
  /\ pc[a] = "publishing"
  /\ Settle(a, FALSE)
  /\ UNCHANGED <<now, row, providerVars, ended, fresh, harmed>>

-----------------------------------------------------------------------------
(* The operator, time and the process. *)

\* An update of the credential: a refresh token the user has consented to anew,
\* the refresh block cleared, the expiry replaced or removed.  It works on the
\* row of the same synchronous block; a cleared endpoint cannot be set again.
patched(held, set, at) == [row EXCEPT !.refresh = held, !.endpoint = set, !.expires = at]

Update ==
  /\ row.state = "live"
  /\ \E anew \in BOOLEAN, set \in {row.endpoint, FALSE}, at \in {row.expires} \cup Patches :
       /\ anew => issued < MaxTokens
       /\ issued' = IF anew THEN issued + 1 ELSE issued
       /\ valid' = IF anew THEN valid \cup {issued + 1} ELSE valid
       /\ row' = patched(IF anew THEN issued + 1 ELSE row.refresh, set, at)
       /\ disturbed' = IF anew THEN disturbed \cup suspended ELSE disturbed
  /\ UNCHANGED <<now, callerVars, ended, fresh, harmed>>

Archive ==
  /\ row.state = "live"
  /\ row' = [row EXCEPT !.state = "archived"]
  /\ UNCHANGED <<now, callerVars, providerVars, historyVars>>

Delete ==
  /\ row.state # "deleted"
  /\ row' = NoRow
  /\ UNCHANGED <<now, callerVars, providerVars, historyVars>>

Tick ==
  /\ now < MaxTime
  /\ now' = now + 1
  /\ UNCHANGED <<row, callerVars, providerVars, historyVars>>

\* The process dies and is started again; what the provider did stays done.
Crash ==
  /\ suspended # {}
  /\ pc' = [a \in Callers |-> "idle"]
  /\ Leave(Callers)
  /\ inflight' = Nobody
  /\ fresh' = {} /\ disturbed' = {}
  /\ harmed' = (harmed \/ \E a \in Callers : answer[a].token # 0)
  /\ UNCHANGED <<now, row, providerVars, ended>>

-----------------------------------------------------------------------------
Next ==
  \/ \E c \in Connects : ReadRow(c)
  \/ \E v \in Validations : Validate(v)
  \/ \E a \in Callers :
       \/ NothingToDo(a) \/ Join(a) \/ Exchange(a)
       \/ Grant(a) \/ Refuse(a) \/ Commit(a) \/ Fail(a) \/ Published(a)
  \/ Update \/ Archive \/ Delete \/ Tick \/ Crash

Spec == Init /\ [][Next]_vars

-----------------------------------------------------------------------------
(* Properties. *)

Stages == {"idle", "read", "joined", "unjoined", "sent", "answered", "publishing"}

\* Types; only a running attempt has an answer, and what is exchanged is a token.
TypeOK ==
  /\ now \in Nat /\ row \in Row
  /\ inflight \in Connects \cup {Nobody}
  /\ pc \in [Callers -> Stages] /\ snap \in [Callers -> Row] /\ answer \in [Callers -> Answer]
  /\ issued \in 1..MaxTokens /\ valid \subseteq 1..issued
  /\ ended \in Nat /\ fresh \subseteq Connects /\ disturbed \subseteq Callers /\ harmed \in BOOLEAN
  /\ \A a \in Callers : pc[a] # "answered" => answer[a] = Refusal
  /\ \A a \in granting : refreshable(snap[a])

\* Two connections never have a grant of one credential under way at once, also
\* not while one is still reporting its failure (inflightRefreshes).
OneBoundaryGrant ==
  \A c, d \in Connects :
    (pc[c] \in {"sent", "answered", "publishing"} /\ pc[d] \in {"sent", "answered", "publishing"})
      => c = d

\* Once an attempt has been recorded, a connection that reads the row sends no
\* grant before the window is over, whatever happens in between: the stamp
\* survives updates, restarts and the writes of callers with older rows.
BackoffHolds ==
  [][\A c \in fresh : pc[c] = "read" /\ pc'[c] = "sent"
       => ended = 0 \/ now - ended >= Window]_vars

\* The stored refresh token is replaced by an older one only by a caller whose
\* grant overlapped another or that had read the row before an operator's update:
\* a row read before another connection's whole refresh does no harm.
TokenGoesBackOnlyDisturbed ==
  [][row'.refresh < row.refresh /\ row'.state # "deleted"
       => \E a \in disturbed : pc[a] = "answered" /\ pc'[a] = "idle"]_vars

\* As long as no answer was lost and no disturbed caller wrote, the stored refresh
\* token is one the provider accepts, or its successor is on the way to the row:
\* the credential is not lost by the runtime's own doing.
TokenStaysUsable ==
  ~ harmed /\ row.refresh # 0
    => \/ row.refresh \in valid
       \/ \E a \in Callers : answer[a].token # 0 /\ snap[a].refresh = row.refresh

\* Who has joined an attempt waits for one that runs: when it ends, whichever
\* way, everybody that joined it is released.
JoinedAwaitsRunning ==
  \A a \in Callers : pc[a] = "joined"
    => inflight # Nobody /\ pc[inflight] \in {"sent", "answered", "publishing"}

=============================================================================
