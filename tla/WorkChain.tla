------------------------------- MODULE WorkChain -------------------------------
(***************************************************************************)
(* What the worker protocol promises about one work item, whoever polls,   *)
(* dies, retries or answers late: it is offered, somebody may commit to    *)
(* running it, and it settles.  A commitment is exclusive and final: the   *)
(* item is never offered again, and it stays with the caller it was made   *)
(* by.  Only an item that somebody committed to can end unknown.           *)
(***************************************************************************)
CONSTANTS Items, Callers, Nobody

VARIABLES
  stage,  \* per item: how far it is along the chain
  by      \* per item: who committed to it or settled it

Offer(i) ==
  /\ stage[i] = "absent"
  /\ stage' = [stage EXCEPT ![i] = "queued"] /\ UNCHANGED by

Commit(i, c) ==
  /\ stage[i] = "queued"
  /\ stage' = [stage EXCEPT ![i] = "accepted"] /\ by' = [by EXCEPT ![i] = c]

\* A holder may report without having committed first.
Report(i, c, outcome) ==
  /\ stage[i] = "queued" \/ (stage[i] = "accepted" /\ by[i] = c)
  /\ stage' = [stage EXCEPT ![i] = outcome] /\ by' = [by EXCEPT ![i] = c]

\* Several items may lapse at once.
Lapse(S) ==
  /\ \A i \in S : stage[i] = "accepted"
  /\ stage' = [i \in Items |-> IF i \in S THEN "unknown" ELSE stage[i]]
  /\ UNCHANGED by

\* Deleting a session takes all its rows away.
Remove(S) ==
  /\ stage' = [i \in Items |-> IF i \in S THEN "deleted" ELSE stage[i]]
  /\ by' = [i \in Items |-> IF i \in S THEN Nobody ELSE by[i]]

Init == stage = [i \in Items |-> "absent"] /\ by = [i \in Items |-> Nobody]

Next ==
  \/ \E i \in Items : Offer(i)
  \/ \E i \in Items, c \in Callers \cup {Nobody} : Commit(i, c)
  \/ \E i \in Items, c \in Callers, outcome \in {"applied", "failed"} :
       Report(i, c, outcome)
  \/ \E S \in SUBSET Items : Lapse(S) \/ Remove(S)

Spec == Init /\ [][Next]_<<stage, by>>
===============================================================================
