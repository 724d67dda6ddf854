-------------------------- MODULE OAuthRefresh_proofs --------------------------
(***************************************************************************)
(* Theorems about OAuthRefresh, for any number of callers, tokens and      *)
(* ticks.                                                                  *)
(***************************************************************************)
EXTENDS OAuthRefresh, TLAPS

-------------------------------------------------------------------------------
(* The inductive invariant. *)

Running == {"sent", "answered", "publishing"}

\* A registered attempt runs and is the only one of a connection; who joined it
\* waits for it.
OwnerInv ==
  /\ \A c \in Connects : pc[c] \in Running => inflight = c
  /\ inflight # Nobody => pc[inflight] \in Running
  /\ \A a \in Callers : pc[a] = "joined" => inflight # Nobody

\* The stamp of a credential is the end of the last attempt.
StampInv ==
  /\ row.state # "deleted" => row.last = ended
  /\ \A c \in fresh : pc[c] = "read" => snap[c].last = ended

\* No token is known before it was issued.
IssuedInv ==
  /\ row.refresh <= issued
  /\ row.state = "deleted" => row.refresh = 0
  /\ \A a \in Callers : snap[a].refresh <= issued /\ answer[a].token <= issued

\* Grants that overlap are disturbed.
OverlapInv == \A a, b \in granting : a # b => a \in disturbed

Holding == {a \in Callers : pc[a] \notin {"idle", "publishing"}}

\* The row an undisturbed caller holds has the stored refresh token, or one that
\* has been used up since: its grant would be refused.
HeldInv ==
  row.state # "deleted" =>
    \A a \in Holding \ disturbed :
      snap[a].refresh = row.refresh \/ snap[a].refresh \notin valid

\* What an undisturbed caller was answered belongs to the stored refresh token.
AnswerInv ==
  row.state # "deleted" =>
    \A a \in Callers \ disturbed : answer[a].ok =>
      /\ snap[a].refresh = row.refresh
      /\ answer[a].token # 0 => /\ answer[a].token \in valid
                                /\ snap[a].refresh \notin valid
                                /\ snap[a].refresh < answer[a].token

IInv == TypeOK /\ OwnerInv /\ StampInv /\ IssuedInv /\ OverlapInv /\ HeldInv /\ AnswerInv
        /\ TokenStaysUsable

-------------------------------------------------------------------------------
LEMMA TypeStep ==
  ASSUME TypeOK, [Next]_vars
  PROVE  TypeOK'
  <1> USE CallersAssumption, NumbersAssumption DEF TypeOK, Row, NoRow, Answer, Refusal, Stages, Callers, granting, suspended, refreshable, joined, due
  <1>1. ASSUME NEW c \in Connects, ReadRow(c) PROVE TypeOK'
    BY <1>1 DEF ReadRow, vars, callerVars, providerVars, historyVars
  <1>2. ASSUME NEW v \in Validations, Validate(v) PROVE TypeOK'
    BY <1>2 DEF Validate, vars, callerVars, providerVars, historyVars
  <1>3. ASSUME NEW a \in Callers, NothingToDo(a) PROVE TypeOK'
    BY <1>3 DEF NothingToDo, Leave, vars, callerVars, providerVars, historyVars
  <1>4. ASSUME NEW a \in Callers, Join(a) PROVE TypeOK'
    BY <1>4 DEF Join, vars, callerVars, providerVars, historyVars
  <1>5. ASSUME NEW a \in Callers, Exchange(a) PROVE TypeOK'
    BY <1>5 DEF Exchange, MayExchange, Register, vars, callerVars, providerVars, historyVars
  <1>6. ASSUME NEW a \in Callers, Grant(a) PROVE TypeOK'
    <2> USE <1>6 DEF Grant, vars, callerVars, providerVars, historyVars
    <2>1. PICK rotates \in BOOLEAN, life \in Lives :
            /\ rotates => issued < MaxTokens
            /\ answer' = [answer EXCEPT ![a] = [ok |-> TRUE,
                 token |-> IF rotates THEN issued + 1 ELSE 0,
                 expires |-> IF life = 0 THEN 0 ELSE now + life]]
            /\ valid' = IF rotates THEN (valid \ {snap[a].refresh}) \cup {issued + 1} ELSE valid
            /\ issued' = IF rotates THEN issued + 1 ELSE issued
      OBVIOUS
    <2>2. answer' \in [Callers -> Answer]
      BY <2>1
    <2>3. issued' \in 1..MaxTokens /\ valid' \subseteq 1..issued'
      <3>1. CASE rotates
        <4>1. issued' = issued + 1 /\ issued < MaxTokens /\ valid' \subseteq valid \cup {issued + 1}
          BY <2>1, <3>1
        <4>2. issued \in 1..MaxTokens /\ valid \subseteq 1..issued
          OBVIOUS
        <4>3. 1..issued \subseteq 1..(issued + 1) /\ issued + 1 \in 1..(issued + 1)
          BY <4>2
        <4>4. issued' \in 1..MaxTokens
          BY <4>1, <4>2
        <4>5. valid' \subseteq 1..issued'
          BY <4>1, <4>2, <4>3, Zenon
        <4> QED
          BY <4>4, <4>5
      <3>2. CASE ~ rotates
        BY <2>1, <3>2
      <3> QED
        BY <3>1, <3>2
    <2>4. pc' \in [Callers -> Stages]
      OBVIOUS
    <2>5. \A b \in Callers : pc'[b] # "answered" => answer'[b] = Refusal
      BY <2>1
    <2> QED
      BY <2>2, <2>3, <2>4, <2>5
  <1>7. ASSUME NEW a \in Callers, Refuse(a) PROVE TypeOK'
    BY <1>7 DEF Refuse, vars, callerVars, providerVars, historyVars
  <1>8. ASSUME NEW a \in Callers, Commit(a) PROVE TypeOK'
    <2> USE <1>8 DEF Commit, Settle, Leave, released, Stamped, stored, Recorded, vars, callerVars, providerVars, historyVars
    <2>1. row' \in Row
      <3>1. snap[a] \in Row /\ answer[a] \in Answer
        OBVIOUS
      <3>2. stored(a) \in Row
        BY <3>1
      <3> QED
        BY <3>2
    <2>2. snap' \in [Callers -> Row] /\ answer' \in [Callers -> Answer]
      OBVIOUS
    <2>3. pc' \in [Callers -> Stages] /\ inflight' \in Connects \cup {Nobody}
      OBVIOUS
    <2>4. \A b \in Callers : pc'[b] # "answered" => answer'[b] = Refusal
      OBVIOUS
    <2>5. \A b \in granting' : refreshable(snap'[b])
      OBVIOUS
    <2> QED
      BY <2>1, <2>2, <2>3, <2>4, <2>5
  <1>9. ASSUME NEW a \in Callers, Fail(a) PROVE TypeOK'
    BY <1>9 DEF Fail, MayExchange, Register, Stamped, failedRow, Recorded, vars, callerVars, providerVars, historyVars
  <1>10. ASSUME NEW a \in Callers, Published(a) PROVE TypeOK'
    BY <1>10 DEF Published, Settle, Leave, released, vars, callerVars, providerVars, historyVars
  <1>11. CASE Update
    <2> USE <1>11 DEF Update, patched, vars, callerVars, providerVars, historyVars
    <2>1. PICK anew \in BOOLEAN, set \in {row.endpoint, FALSE}, at \in {row.expires} \cup Patches :
            /\ anew => issued < MaxTokens
            /\ issued' = IF anew THEN issued + 1 ELSE issued
            /\ valid' = IF anew THEN valid \cup {issued + 1} ELSE valid
            /\ row' = patched(IF anew THEN issued + 1 ELSE row.refresh, set, at)
            /\ disturbed' = IF anew THEN disturbed \cup suspended ELSE disturbed
      OBVIOUS
    <2>2. row' \in Row
      <3>1. at \in Nat /\ set \in BOOLEAN
        OBVIOUS
      <3>2. (IF anew THEN issued + 1 ELSE row.refresh) \in Nat
        OBVIOUS
      <3>3. ASSUME NEW held \in Nat PROVE patched(held, set, at) \in Row
        BY <3>1
      <3> QED
        BY <2>1, <3>2, <3>3
    <2>3. issued' \in 1..MaxTokens /\ valid' \subseteq 1..issued'
      BY <2>1
    <2>4. disturbed' \subseteq Callers
      BY <2>1
    <2> QED
      BY <2>2, <2>3, <2>4
  <1>12. CASE Archive
    BY <1>12 DEF Archive, vars, callerVars, providerVars, historyVars
  <1>13. CASE Delete
    BY <1>13 DEF Delete, vars, callerVars, providerVars, historyVars
  <1>14. CASE Tick
    BY <1>14 DEF Tick, vars, callerVars, providerVars, historyVars
  <1>15. CASE Crash
    BY <1>15 DEF Crash, Leave, vars, callerVars, providerVars, historyVars
  <1>16. CASE UNCHANGED vars
    BY <1>16 DEF vars, callerVars, providerVars, historyVars
  <1> QED
    BY <1>1, <1>2, <1>3, <1>4, <1>5, <1>6, <1>7, <1>8, <1>9, <1>10, <1>11, <1>12, <1>13, <1>14, <1>15, <1>16 DEF Next

LEMMA OwnerStep ==
  ASSUME TypeOK, OwnerInv, [Next]_vars
  PROVE  OwnerInv'
  <1> USE CallersAssumption, NumbersAssumption DEF TypeOK, OwnerInv, Running, Callers, joined
  <1>1. ASSUME NEW c \in Connects, ReadRow(c) PROVE OwnerInv'
    BY <1>1 DEF ReadRow, vars, callerVars, providerVars, historyVars
  <1>2. ASSUME NEW v \in Validations, Validate(v) PROVE OwnerInv'
    BY <1>2 DEF Validate, vars, callerVars, providerVars, historyVars
  <1>3. ASSUME NEW a \in Callers, NothingToDo(a) PROVE OwnerInv'
    BY <1>3 DEF NothingToDo, Leave, vars, callerVars, providerVars, historyVars
  <1>4. ASSUME NEW a \in Callers, Join(a) PROVE OwnerInv'
    BY <1>4 DEF Join, vars, callerVars, providerVars, historyVars
  <1>5. ASSUME NEW a \in Callers, Exchange(a) PROVE OwnerInv'
    BY <1>5 DEF Exchange, MayExchange, Register, vars, callerVars, providerVars, historyVars
  <1>6. ASSUME NEW a \in Callers, Grant(a) PROVE OwnerInv'
    BY <1>6 DEF Grant, Answer, vars, callerVars, providerVars, historyVars
  <1>7. ASSUME NEW a \in Callers, Refuse(a) PROVE OwnerInv'
    BY <1>7 DEF Refuse, vars, callerVars, providerVars, historyVars
  <1>8. ASSUME NEW a \in Callers, Commit(a) PROVE OwnerInv'
    BY <1>8 DEF Commit, Settle, Leave, released, Stamped, stored, Recorded, vars, callerVars, providerVars, historyVars
  <1>9. ASSUME NEW a \in Callers, Fail(a) PROVE OwnerInv'
    BY <1>9 DEF Fail, MayExchange, Register, Stamped, failedRow, Recorded, vars, callerVars, providerVars, historyVars
  <1>10. ASSUME NEW a \in Callers, Published(a) PROVE OwnerInv'
    BY <1>10 DEF Published, Settle, Leave, released, vars, callerVars, providerVars, historyVars
  <1>11. CASE Update
    BY <1>11 DEF Update, patched, vars, callerVars, providerVars, historyVars
  <1>12. CASE Archive
    BY <1>12 DEF Archive, vars, callerVars, providerVars, historyVars
  <1>13. CASE Delete
    BY <1>13 DEF Delete, vars, callerVars, providerVars, historyVars
  <1>14. CASE Tick
    BY <1>14 DEF Tick, vars, callerVars, providerVars, historyVars
  <1>15. CASE Crash
    BY <1>15 DEF Crash, Leave, vars, callerVars, providerVars, historyVars
  <1>16. CASE UNCHANGED vars
    BY <1>16 DEF vars, callerVars, providerVars, historyVars
  <1> QED
    BY <1>1, <1>2, <1>3, <1>4, <1>5, <1>6, <1>7, <1>8, <1>9, <1>10, <1>11, <1>12, <1>13, <1>14, <1>15, <1>16 DEF Next

LEMMA StampStep ==
  ASSUME TypeOK, StampInv, [Next]_vars
  PROVE  StampInv'
  <1> USE CallersAssumption, NumbersAssumption DEF TypeOK, StampInv, Callers, NoRow, Row, joined
  <1>1. ASSUME NEW c \in Connects, ReadRow(c) PROVE StampInv'
    BY <1>1 DEF ReadRow, vars, callerVars, providerVars, historyVars
  <1>2. ASSUME NEW v \in Validations, Validate(v) PROVE StampInv'
    BY <1>2 DEF Validate, vars, callerVars, providerVars, historyVars
  <1>3. ASSUME NEW a \in Callers, NothingToDo(a) PROVE StampInv'
    BY <1>3 DEF NothingToDo, Leave, vars, callerVars, providerVars, historyVars
  <1>4. ASSUME NEW a \in Callers, Join(a) PROVE StampInv'
    BY <1>4 DEF Join, vars, callerVars, providerVars, historyVars
  <1>5. ASSUME NEW a \in Callers, Exchange(a) PROVE StampInv'
    BY <1>5 DEF Exchange, MayExchange, Register, vars, callerVars, providerVars, historyVars
  <1>6. ASSUME NEW a \in Callers, Grant(a) PROVE StampInv'
    BY <1>6 DEF Grant, Answer, vars, callerVars, providerVars, historyVars
  <1>7. ASSUME NEW a \in Callers, Refuse(a) PROVE StampInv'
    BY <1>7 DEF Refuse, vars, callerVars, providerVars, historyVars
  <1>8. ASSUME NEW a \in Callers, Commit(a) PROVE StampInv'
    BY <1>8 DEF Commit, Settle, Leave, released, Stamped, stored, Recorded, vars, callerVars, providerVars, historyVars
  <1>9. ASSUME NEW a \in Callers, Fail(a) PROVE StampInv'
    BY <1>9 DEF Fail, MayExchange, Register, Stamped, failedRow, Recorded, vars, callerVars, providerVars, historyVars
  <1>10. ASSUME NEW a \in Callers, Published(a) PROVE StampInv'
    BY <1>10 DEF Published, Settle, Leave, released, vars, callerVars, providerVars, historyVars
  <1>11. CASE Update
    BY <1>11 DEF Update, patched, vars, callerVars, providerVars, historyVars
  <1>12. CASE Archive
    BY <1>12 DEF Archive, vars, callerVars, providerVars, historyVars
  <1>13. CASE Delete
    BY <1>13 DEF Delete, vars, callerVars, providerVars, historyVars
  <1>14. CASE Tick
    BY <1>14 DEF Tick, vars, callerVars, providerVars, historyVars
  <1>15. CASE Crash
    BY <1>15 DEF Crash, Leave, vars, callerVars, providerVars, historyVars
  <1>16. CASE UNCHANGED vars
    BY <1>16 DEF vars, callerVars, providerVars, historyVars
  <1> QED
    BY <1>1, <1>2, <1>3, <1>4, <1>5, <1>6, <1>7, <1>8, <1>9, <1>10, <1>11, <1>12, <1>13, <1>14, <1>15, <1>16 DEF Next

LEMMA IssuedStep ==
  ASSUME TypeOK, IssuedInv, [Next]_vars
  PROVE  IssuedInv'
  <1> USE CallersAssumption, NumbersAssumption DEF TypeOK, IssuedInv, Callers, NoRow, Row, Refusal, Answer
  <1>1. ASSUME NEW c \in Connects, ReadRow(c) PROVE IssuedInv'
    BY <1>1 DEF ReadRow, vars, callerVars, providerVars, historyVars
  <1>2. ASSUME NEW v \in Validations, Validate(v) PROVE IssuedInv'
    BY <1>2 DEF Validate, vars, callerVars, providerVars, historyVars
  <1>3. ASSUME NEW a \in Callers, NothingToDo(a) PROVE IssuedInv'
    BY <1>3 DEF NothingToDo, Leave, vars, callerVars, providerVars, historyVars
  <1>4. ASSUME NEW a \in Callers, Join(a) PROVE IssuedInv'
    BY <1>4 DEF Join, vars, callerVars, providerVars, historyVars
  <1>5. ASSUME NEW a \in Callers, Exchange(a) PROVE IssuedInv'
    BY <1>5 DEF Exchange, MayExchange, Register, vars, callerVars, providerVars, historyVars
  <1>6. ASSUME NEW a \in Callers, Grant(a) PROVE IssuedInv'
    BY <1>6 DEF Grant, Answer, vars, callerVars, providerVars, historyVars
  <1>7. ASSUME NEW a \in Callers, Refuse(a) PROVE IssuedInv'
    BY <1>7 DEF Refuse, vars, callerVars, providerVars, historyVars
  <1>8. ASSUME NEW a \in Callers, Commit(a) PROVE IssuedInv'
    BY <1>8 DEF Commit, Settle, Leave, released, Stamped, stored, Recorded, vars, callerVars, providerVars, historyVars
  <1>9. ASSUME NEW a \in Callers, Fail(a) PROVE IssuedInv'
    BY <1>9 DEF Fail, MayExchange, Register, Stamped, failedRow, Recorded, vars, callerVars, providerVars, historyVars
  <1>10. ASSUME NEW a \in Callers, Published(a) PROVE IssuedInv'
    BY <1>10 DEF Published, Settle, Leave, released, vars, callerVars, providerVars, historyVars
  <1>11. CASE Update
    BY <1>11 DEF Update, patched, vars, callerVars, providerVars, historyVars
  <1>12. CASE Archive
    BY <1>12 DEF Archive, vars, callerVars, providerVars, historyVars
  <1>13. CASE Delete
    BY <1>13 DEF Delete, vars, callerVars, providerVars, historyVars
  <1>14. CASE Tick
    BY <1>14 DEF Tick, vars, callerVars, providerVars, historyVars
  <1>15. CASE Crash
    BY <1>15 DEF Crash, Leave, vars, callerVars, providerVars, historyVars
  <1>16. CASE UNCHANGED vars
    BY <1>16 DEF vars, callerVars, providerVars, historyVars
  <1> QED
    BY <1>1, <1>2, <1>3, <1>4, <1>5, <1>6, <1>7, <1>8, <1>9, <1>10, <1>11, <1>12, <1>13, <1>14, <1>15, <1>16 DEF Next

LEMMA OverlapStep ==
  ASSUME TypeOK, OverlapInv, [Next]_vars
  PROVE  OverlapInv'
  <1> USE CallersAssumption, NumbersAssumption DEF TypeOK, OverlapInv, granting, Callers, joined, suspended
  <1>1. ASSUME NEW c \in Connects, ReadRow(c) PROVE OverlapInv'
    BY <1>1 DEF ReadRow, vars, callerVars, providerVars, historyVars
  <1>2. ASSUME NEW v \in Validations, Validate(v) PROVE OverlapInv'
    BY <1>2 DEF Validate, vars, callerVars, providerVars, historyVars
  <1>3. ASSUME NEW a \in Callers, NothingToDo(a) PROVE OverlapInv'
    BY <1>3 DEF NothingToDo, Leave, vars, callerVars, providerVars, historyVars
  <1>4. ASSUME NEW a \in Callers, Join(a) PROVE OverlapInv'
    BY <1>4 DEF Join, vars, callerVars, providerVars, historyVars
  <1>5. ASSUME NEW a \in Callers, Exchange(a) PROVE OverlapInv'
    BY <1>5 DEF Exchange, MayExchange, Register, vars, callerVars, providerVars, historyVars
  <1>6. ASSUME NEW a \in Callers, Grant(a) PROVE OverlapInv'
    BY <1>6 DEF Grant, Answer, vars, callerVars, providerVars, historyVars
  <1>7. ASSUME NEW a \in Callers, Refuse(a) PROVE OverlapInv'
    BY <1>7 DEF Refuse, vars, callerVars, providerVars, historyVars
  <1>8. ASSUME NEW a \in Callers, Commit(a) PROVE OverlapInv'
    BY <1>8 DEF Commit, Settle, Leave, released, Stamped, stored, Recorded, vars, callerVars, providerVars, historyVars
  <1>9. ASSUME NEW a \in Callers, Fail(a) PROVE OverlapInv'
    BY <1>9 DEF Fail, MayExchange, Register, Stamped, failedRow, Recorded, vars, callerVars, providerVars, historyVars
  <1>10. ASSUME NEW a \in Callers, Published(a) PROVE OverlapInv'
    BY <1>10 DEF Published, Settle, Leave, released, vars, callerVars, providerVars, historyVars
  <1>11. CASE Update
    BY <1>11 DEF Update, patched, vars, callerVars, providerVars, historyVars
  <1>12. CASE Archive
    BY <1>12 DEF Archive, vars, callerVars, providerVars, historyVars
  <1>13. CASE Delete
    BY <1>13 DEF Delete, vars, callerVars, providerVars, historyVars
  <1>14. CASE Tick
    BY <1>14 DEF Tick, vars, callerVars, providerVars, historyVars
  <1>15. CASE Crash
    BY <1>15 DEF Crash, Leave, vars, callerVars, providerVars, historyVars
  <1>16. CASE UNCHANGED vars
    BY <1>16 DEF vars, callerVars, providerVars, historyVars
  <1> QED
    BY <1>1, <1>2, <1>3, <1>4, <1>5, <1>6, <1>7, <1>8, <1>9, <1>10, <1>11, <1>12, <1>13, <1>14, <1>15, <1>16 DEF Next

LEMMA HeldStep ==
  ASSUME TypeOK, IssuedInv, OverlapInv, HeldInv, AnswerInv, [Next]_vars
  PROVE  HeldInv'
  <1> USE CallersAssumption, NumbersAssumption DEF TypeOK, granting, suspended, Holding, Row, NoRow, Answer, Refusal, Callers, joined, Stages, HeldInv, AnswerInv, IssuedInv, OverlapInv
  <1>1. ASSUME NEW c \in Connects, ReadRow(c) PROVE HeldInv'
    BY <1>1 DEF ReadRow, vars, callerVars, providerVars, historyVars
  <1>2. ASSUME NEW v \in Validations, Validate(v) PROVE HeldInv'
    BY <1>2 DEF Validate, vars, callerVars, providerVars, historyVars
  <1>3. ASSUME NEW a \in Callers, NothingToDo(a) PROVE HeldInv'
    BY <1>3 DEF NothingToDo, Leave, vars, callerVars, providerVars, historyVars
  <1>4. ASSUME NEW a \in Callers, Join(a) PROVE HeldInv'
    BY <1>4 DEF Join, vars, callerVars, providerVars, historyVars
  <1>5. ASSUME NEW a \in Callers, Exchange(a) PROVE HeldInv'
    BY <1>5 DEF Exchange, MayExchange, Register, vars, callerVars, providerVars, historyVars
  <1>6. ASSUME NEW a \in Callers, Grant(a) PROVE HeldInv'
    BY <1>6 DEF Grant, Answer, vars, callerVars, providerVars, historyVars
  <1>7. ASSUME NEW a \in Callers, Refuse(a) PROVE HeldInv'
    BY <1>7 DEF Refuse, vars, callerVars, providerVars, historyVars
  <1>8. ASSUME NEW a \in Callers, Commit(a) PROVE HeldInv'
    BY <1>8 DEF Commit, Settle, Leave, released, Stamped, stored, Recorded, vars, callerVars, providerVars, historyVars
  <1>9. ASSUME NEW a \in Callers, Fail(a) PROVE HeldInv'
    BY <1>9 DEF Fail, MayExchange, Register, Stamped, failedRow, Recorded, vars, callerVars, providerVars, historyVars
  <1>10. ASSUME NEW a \in Callers, Published(a) PROVE HeldInv'
    BY <1>10 DEF Published, Settle, Leave, released, vars, callerVars, providerVars, historyVars
  <1>11. CASE Update
    BY <1>11 DEF Update, patched, vars, callerVars, providerVars, historyVars
  <1>12. CASE Archive
    BY <1>12 DEF Archive, vars, callerVars, providerVars, historyVars
  <1>13. CASE Delete
    BY <1>13 DEF Delete, vars, callerVars, providerVars, historyVars
  <1>14. CASE Tick
    BY <1>14 DEF Tick, vars, callerVars, providerVars, historyVars
  <1>15. CASE Crash
    BY <1>15 DEF Crash, Leave, vars, callerVars, providerVars, historyVars
  <1>16. CASE UNCHANGED vars
    BY <1>16 DEF vars, callerVars, providerVars, historyVars
  <1> QED
    BY <1>1, <1>2, <1>3, <1>4, <1>5, <1>6, <1>7, <1>8, <1>9, <1>10, <1>11, <1>12, <1>13, <1>14, <1>15, <1>16 DEF Next

LEMMA AnswerStep ==
  ASSUME TypeOK, IssuedInv, OverlapInv, HeldInv, AnswerInv, [Next]_vars
  PROVE  AnswerInv'
  <1> USE CallersAssumption, NumbersAssumption DEF TypeOK, granting, suspended, Holding, Row, NoRow, Answer, Refusal, Callers, joined, Stages, HeldInv, AnswerInv, IssuedInv, OverlapInv
  <1>1. ASSUME NEW c \in Connects, ReadRow(c) PROVE AnswerInv'
    BY <1>1 DEF ReadRow, vars, callerVars, providerVars, historyVars
  <1>2. ASSUME NEW v \in Validations, Validate(v) PROVE AnswerInv'
    BY <1>2 DEF Validate, vars, callerVars, providerVars, historyVars
  <1>3. ASSUME NEW a \in Callers, NothingToDo(a) PROVE AnswerInv'
    BY <1>3 DEF NothingToDo, Leave, vars, callerVars, providerVars, historyVars
  <1>4. ASSUME NEW a \in Callers, Join(a) PROVE AnswerInv'
    BY <1>4 DEF Join, vars, callerVars, providerVars, historyVars
  <1>5. ASSUME NEW a \in Callers, Exchange(a) PROVE AnswerInv'
    BY <1>5 DEF Exchange, MayExchange, Register, vars, callerVars, providerVars, historyVars
  <1>6. ASSUME NEW a \in Callers, Grant(a) PROVE AnswerInv'
    BY <1>6 DEF Grant, Answer, vars, callerVars, providerVars, historyVars
  <1>7. ASSUME NEW a \in Callers, Refuse(a) PROVE AnswerInv'
    BY <1>7 DEF Refuse, vars, callerVars, providerVars, historyVars
  <1>8. ASSUME NEW a \in Callers, Commit(a) PROVE AnswerInv'
    BY <1>8 DEF Commit, Settle, Leave, released, Stamped, stored, Recorded, vars, callerVars, providerVars, historyVars
  <1>9. ASSUME NEW a \in Callers, Fail(a) PROVE AnswerInv'
    BY <1>9 DEF Fail, MayExchange, Register, Stamped, failedRow, Recorded, vars, callerVars, providerVars, historyVars
  <1>10. ASSUME NEW a \in Callers, Published(a) PROVE AnswerInv'
    BY <1>10 DEF Published, Settle, Leave, released, vars, callerVars, providerVars, historyVars
  <1>11. CASE Update
    BY <1>11 DEF Update, patched, vars, callerVars, providerVars, historyVars
  <1>12. CASE Archive
    BY <1>12 DEF Archive, vars, callerVars, providerVars, historyVars
  <1>13. CASE Delete
    BY <1>13 DEF Delete, vars, callerVars, providerVars, historyVars
  <1>14. CASE Tick
    BY <1>14 DEF Tick, vars, callerVars, providerVars, historyVars
  <1>15. CASE Crash
    BY <1>15 DEF Crash, Leave, vars, callerVars, providerVars, historyVars
  <1>16. CASE UNCHANGED vars
    BY <1>16 DEF vars, callerVars, providerVars, historyVars
  <1> QED
    BY <1>1, <1>2, <1>3, <1>4, <1>5, <1>6, <1>7, <1>8, <1>9, <1>10, <1>11, <1>12, <1>13, <1>14, <1>15, <1>16 DEF Next

LEMMA UsableStep ==
  ASSUME TypeOK, IssuedInv, OverlapInv, AnswerInv, TokenStaysUsable, [Next]_vars
  PROVE  TokenStaysUsable'
  <1> USE CallersAssumption, NumbersAssumption DEF TypeOK, granting, suspended, Holding, Row, NoRow, Answer, Refusal, Callers, joined, Stages, AnswerInv, IssuedInv, OverlapInv, TokenStaysUsable
  <1>1. ASSUME NEW c \in Connects, ReadRow(c) PROVE TokenStaysUsable'
    BY <1>1 DEF ReadRow, vars, callerVars, providerVars, historyVars
  <1>2. ASSUME NEW v \in Validations, Validate(v) PROVE TokenStaysUsable'
    BY <1>2 DEF Validate, vars, callerVars, providerVars, historyVars
  <1>3. ASSUME NEW a \in Callers, NothingToDo(a) PROVE TokenStaysUsable'
    BY <1>3, SMTT(30) DEF NothingToDo, Leave, vars, callerVars, providerVars, historyVars
  <1>4. ASSUME NEW a \in Callers, Join(a) PROVE TokenStaysUsable'
    BY <1>4 DEF Join, vars, callerVars, providerVars, historyVars
  <1>5. ASSUME NEW a \in Callers, Exchange(a) PROVE TokenStaysUsable'
    BY <1>5 DEF Exchange, MayExchange, Register, vars, callerVars, providerVars, historyVars
  <1>6. ASSUME NEW a \in Callers, Grant(a) PROVE TokenStaysUsable'
    BY <1>6 DEF Grant, Answer, vars, callerVars, providerVars, historyVars
  <1>7. ASSUME NEW a \in Callers, Refuse(a) PROVE TokenStaysUsable'
    BY <1>7 DEF Refuse, vars, callerVars, providerVars, historyVars
  <1>8. ASSUME NEW a \in Callers, Commit(a) PROVE TokenStaysUsable'
    <2> USE <1>8 DEF Commit, Settle, Leave, released, Stamped, stored, Recorded, vars, callerVars, providerVars, historyVars
    <2>1. CASE a \in disturbed \/ row.state = "deleted"
      BY <2>1
    <2>2. CASE a \notin disturbed /\ row.state # "deleted" /\ answer[a].token # 0
      <3>1. row'.refresh = answer[a].token
        BY <2>2
      <3>2. answer[a].token \in valid
        BY <2>2
      <3> QED
        BY <3>1, <3>2
    <2>3. CASE a \notin disturbed /\ row.state # "deleted" /\ answer[a].token = 0
      <3>1. row'.refresh = row.refresh
        BY <2>3
      <3>2. ASSUME NEW b \in Callers, answer[b].token # 0, snap[b].refresh = row.refresh
            PROVE  answer'[b].token # 0 /\ snap'[b].refresh = row'.refresh
        <4>1. pc[b] = "answered" /\ b # a
          BY <2>3, <3>2
        <4> QED
          BY <3>1, <3>2, <4>1
      <3>3. ~ harmed' => ~ harmed
        OBVIOUS
      <3>4. valid' = valid
        OBVIOUS
      <3>5. ~ harmed /\ row.refresh # 0
              => row.refresh \in valid
                 \/ \E b \in Callers : answer[b].token # 0 /\ snap[b].refresh = row.refresh
        BY DEF TokenStaysUsable
      <3> QED
        BY <3>1, <3>2, <3>3, <3>4, <3>5 DEF TokenStaysUsable
    <2> QED
      BY <2>1, <2>2, <2>3
  <1>9. ASSUME NEW a \in Callers, Fail(a) PROVE TokenStaysUsable'
    BY <1>9 DEF Fail, MayExchange, Register, Stamped, failedRow, Recorded, vars, callerVars, providerVars, historyVars
  <1>10. ASSUME NEW a \in Callers, Published(a) PROVE TokenStaysUsable'
    BY <1>10 DEF Published, Settle, Leave, released, vars, callerVars, providerVars, historyVars
  <1>11. CASE Update
    BY <1>11 DEF Update, patched, vars, callerVars, providerVars, historyVars
  <1>12. CASE Archive
    BY <1>12 DEF Archive, vars, callerVars, providerVars, historyVars
  <1>13. CASE Delete
    BY <1>13 DEF Delete, vars, callerVars, providerVars, historyVars
  <1>14. CASE Tick
    BY <1>14 DEF Tick, vars, callerVars, providerVars, historyVars
  <1>15. CASE Crash
    BY <1>15 DEF Crash, Leave, vars, callerVars, providerVars, historyVars
  <1>16. CASE UNCHANGED vars
    BY <1>16 DEF vars, callerVars, providerVars, historyVars
  <1> QED
    BY <1>1, <1>2, <1>3, <1>4, <1>5, <1>6, <1>7, <1>8, <1>9, <1>10, <1>11, <1>12, <1>13, <1>14, <1>15, <1>16 DEF Next

LEMMA InitInv == Init => IInv
  <1> SUFFICES ASSUME Init PROVE IInv
    OBVIOUS
  <1> USE CallersAssumption, NumbersAssumption DEF Init, Callers, Refusal, NoRow
  <1>1. TypeOK
    <2>1. row \in Row
      BY DEF Row
    <2>2. NoRow \in Row /\ Refusal \in Answer
      BY DEF Row, Answer
    <2>3. granting = {}
      BY DEF granting
    <2>4. issued \in 1..MaxTokens /\ valid \subseteq 1..issued /\ now \in Nat /\ ended \in Nat
      OBVIOUS
    <2>5. /\ pc \in [Callers -> Stages] /\ snap \in [Callers -> Row]
          /\ answer \in [Callers -> Answer]
      BY <2>2 DEF Stages
    <2>6. \A a \in Callers : pc[a] # "answered" => answer[a] = Refusal
      OBVIOUS
    <2> QED
      BY <2>1, <2>3, <2>4, <2>5, <2>6 DEF TypeOK
  <1>2. OwnerInv
    BY DEF OwnerInv, Running
  <1>3. StampInv /\ IssuedInv
    BY DEF StampInv, IssuedInv
  <1>4. OverlapInv /\ HeldInv /\ AnswerInv
    BY DEF OverlapInv, HeldInv, AnswerInv, granting, Holding
  <1>5. TokenStaysUsable
    BY DEF TokenStaysUsable
  <1> QED
    BY <1>1, <1>2, <1>3, <1>4, <1>5 DEF IInv

LEMMA NextInv == IInv /\ [Next]_vars => IInv'
  BY TypeStep, OwnerStep, StampStep, IssuedStep, OverlapStep, HeldStep, AnswerStep, UsableStep
     DEF IInv

-------------------------------------------------------------------------------
(* Theorems. *)

\* The strengthened invariant holds in every reachable state.
THEOREM Invariance == Spec => []IInv
  <1> QED
    BY InitInv, NextInv, PTL DEF Spec

\* Rows, answers and tokens are well formed, only a running attempt has an
\* answer, and nothing but a token is ever exchanged.
THEOREM TypeCorrect == Spec => []TypeOK
  <1>1. IInv => TypeOK
    BY DEF IInv
  <1> QED
    BY <1>1, Invariance, PTL

\* However many connections share the credential, at most one of them has a
\* grant under way (the join and the registration in
\* refreshMcpOauthCredentialsForServer).
THEOREM SingleFlight == Spec => []OneBoundaryGrant
  <1>1. IInv => OneBoundaryGrant
    BY DEF IInv, OwnerInv, OneBoundaryGrant, Running
  <1> QED
    BY <1>1, Invariance, PTL

\* A joined caller waits for an attempt that runs and will release it.
THEOREM JoinSound == Spec => []JoinedAwaitsRunning
  <1>1. IInv => JoinedAwaitsRunning
    BY DEF IInv, OwnerInv, JoinedAwaitsRunning, Running
  <1> QED
    BY <1>1, Invariance, PTL

\* The credential is lost only with an answer that was lost or by a caller whose
\* grant was disturbed.
THEOREM TokenSurvives == Spec => []TokenStaysUsable
  <1>1. IInv => TokenStaysUsable
    BY DEF IInv
  <1> QED
    BY <1>1, Invariance, PTL

\* The retry window is honoured by every connection that read the row after the
\* last attempt, for every length of the window and every number of restarts.
THEOREM BackoffHonoured == Spec => BackoffHolds
  <1>1. ASSUME IInv, [Next]_vars, NEW c \in fresh, pc[c] = "read", pc'[c] = "sent"
        PROVE  ended = 0 \/ now - ended >= Window
    <2> USE <1>1 DEF IInv, TypeOK
    <2>1. c \in Callers /\ c \in Connects
      BY DEF Callers
    <2>2. Exchange(c)
      BY <2>1 DEF Next, vars, callerVars, ReadRow, Validate, NothingToDo, Join, Exchange, Grant,
         Refuse, Commit, Fail, Published, Settle, released, joined, Update, Archive, Delete, Tick, Crash
    <2>3. snap[c].last = ended /\ due(snap[c])
      BY <2>1, <2>2 DEF StampInv, Exchange, MayExchange
    <2> QED
      BY <2>3, NumbersAssumption DEF due, withinWindow
  <1>2. IInv /\ [Next]_vars =>
          [\A c \in fresh : pc[c] = "read" /\ pc'[c] = "sent"
             => ended = 0 \/ now - ended >= Window]_vars
    BY <1>1
  <1> QED
    BY <1>2, Invariance, PTL DEF Spec, BackoffHolds

\* A refresh token never takes the place of a newer one unless the grant that
\* brought it overlapped another or the operator replaced the token meanwhile.
THEOREM TokenMovesOn == Spec => TokenGoesBackOnlyDisturbed
  <1>1. ASSUME IInv, [Next]_vars, row'.refresh < row.refresh, row'.state # "deleted"
        PROVE  \E a \in disturbed : pc[a] = "answered" /\ pc'[a] = "idle"
    <2> USE <1>1 DEF IInv, TypeOK
    <2>1. PICK a \in Callers : Commit(a)
      <3>1. row.refresh \in Nat /\ issued \in Nat /\ row.refresh <= issued
        BY DEF IssuedInv, Row
      <3>2. ASSUME NEW a \in Callers, Fail(a)
            PROVE  row'.refresh = row.refresh
        BY <3>2 DEF Fail, Stamped, failedRow, Row
      <3>3. ASSUME Update
            PROVE  row'.refresh >= row.refresh
        BY <3>1, <3>3 DEF Update, patched, Row
      <3>4. ASSUME Delete
            PROVE  row'.state = "deleted"
        BY <3>4 DEF Delete, NoRow
      <3>5. ASSUME NEW a \in Callers,
                   ReadRow(a) \/ Validate(a) \/ NothingToDo(a) \/ Join(a) \/ Exchange(a)
                     \/ Grant(a) \/ Refuse(a) \/ Published(a) \/ Tick \/ Crash \/ UNCHANGED vars
            PROVE  row' = row
        BY <3>5 DEF ReadRow, Validate, NothingToDo, Join, Exchange, Grant, Refuse, Published,
           Tick, Crash, vars
      <3>6. ASSUME Tick \/ Crash \/ Archive \/ UNCHANGED vars
            PROVE  row'.refresh = row.refresh
        BY <3>6 DEF Tick, Crash, Archive, vars, Row
      <3>7. ~ (row.refresh < row.refresh) /\ ~ (row'.refresh >= row.refresh)
        <4>1. row'.refresh \in Nat
          BY TypeStep DEF Row, TypeOK
        <4> QED
          BY <3>1, <4>1
      <3> QED
        BY <3>1, <3>2, <3>3, <3>4, <3>5, <3>6, <3>7 DEF Next, Callers
    <2>2. pc[a] = "answered" /\ pc'[a] = "idle" /\ answer[a].ok
      BY <2>1 DEF Commit, Settle
    <2>3. row.state # "deleted"
      BY <2>1 DEF Commit, Stamped
    <2>4. row'.refresh = IF answer[a].token # 0 THEN answer[a].token ELSE snap[a].refresh
      BY <2>1, <2>3 DEF Commit, Stamped, stored, Row
    <2>5. CASE a \notin disturbed
      BY <2>2, <2>3, <2>4, <2>5 DEF AnswerInv, Row, Answer
    <2> QED
      BY <2>2, <2>5
  <1>2. IInv /\ [Next]_vars =>
          [row'.refresh < row.refresh /\ row'.state # "deleted"
             => \E a \in disturbed : pc[a] = "answered" /\ pc'[a] = "idle"]_vars
    BY <1>1
  <1> QED
    BY <1>2, Invariance, PTL DEF Spec, TokenGoesBackOnlyDisturbed
===============================================================================
