------------------------------ MODULE MCRemotes ------------------------------
(* The parties that work with the server over HTTP: workers that poll the     *)
(* queue, a worker's copy of a memory store, and the client of a session's    *)
(* event stream.  They share no state here, so one run checks them, one at a  *)
(* time: `party` is chosen in the first state, and the others rest.           *)
(* Two workers and a client of the work API compete for one item, whose       *)
(* caller waits for it; the store has one path; connections have previews or  *)
(* none.                                                                      *)
EXTENDS WorkerPoll, WorkerMemory, EventStream

CONSTANTS w1, w2, client, s1, f1

MCWorkers == {w1, w2}
MCCallers == {w1, w2, client}
MCItems == {1}
MCAwaited == {1}
MCSessions == {s1}
MCPaths == {f1}
MCOptIns == {{}, PreviewTypes}

VARIABLE party

remoteVars == <<party, vars, memoryVars, streamVars>>

RemotesInit ==
  /\ Init /\ MemoryInit /\ StreamInit
  /\ party \in {"workers", "memory", "stream"}
  /\ party # "memory" => store = Empty /\ writable

ForWorkers(A) == party = "workers" /\ A /\ UNCHANGED <<party, memoryVars, streamVars>>
ForMemory(A) == party = "memory" /\ A /\ UNCHANGED <<party, vars, streamVars>>
ForStream(A) == party = "stream" /\ A /\ UNCHANGED <<party, vars, memoryVars>>

RemotesNext == ForWorkers(Next) \/ ForMemory(MemoryNext) \/ ForStream(StreamNext)

\* Fairness of the workers; nothing is claimed to happen in the end of the others.
RemotesFairness ==
  /\ \A w \in Workers :
       /\ WF_remoteVars(ForWorkers(PollAnswered(w)))
       /\ WF_remoteVars(ForWorkers(AcceptAnswered(w) \/ AcceptRefused(w)))
       /\ WF_remoteVars(ForWorkers(Reports(w)))
  /\ \A i \in Items : WF_remoteVars(ForWorkers(Ages(i) /\ UNCHANGED workerVars))

RemotesSpec == RemotesInit /\ [][RemotesNext]_remoteVars /\ RemotesFairness
===============================================================================
