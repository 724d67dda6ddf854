----------------------------- MODULE WorkerMemory -----------------------------
(***************************************************************************)
(* The copy of a memory store that a self-hosted worker keeps on its disk. *)
(* Every pass of a timer lists the store, pulls what moved, uploads what   *)
(* the agent edited under a hash precondition, and lists once more for the *)
(* baseline of the next pass.  Other clients write the store at any time,  *)
(* the agent writes the files while it works, requests fail, and the exit  *)
(* runs a last pass that may meet one in flight.                           *)
(*                                                                         *)
(* A content is the number of the write that made it, so no two writes     *)
(* have the same hash.  Left out: read errors and symbolic links on disk,  *)
(* the caps of a store, and an upload that is applied after its timeout.   *)
(***************************************************************************)
EXTENDS Naturals

CONSTANTS
  Paths,       \* the paths of the store
  MaxWrites    \* bound: contents ever written, by clients and by the agent

ASSUME MemoryAssumption == MaxWrites \in Nat \ {0}

Absent == 0
Contents == 1..MaxWrites
Trees == [Paths -> Contents \cup {Absent}]

\* The interval never overlaps itself; the exit's last pass may meet it.
Passes == {"tick", "exit"}

VARIABLES
  store,     \* what the store holds
  writable,  \* the attachment's access
  mount,     \* none, mounted, or released: the directory and its lock are gone
  disk,      \* the files below the mount
  known,     \* the baseline: the store as the last pass left it
  at,        \* per pass: idle, listed, pushing, relisted
  remote,    \* per pass: the listing it works with
  todo,      \* per pass: local files not looked at yet
  writes,    \* contents written so far
  edits,     \* history: contents the agent wrote
  uploaded,  \* history: contents the worker has uploaded
  based,     \* history: the store's content a file was last brought in line with
  foreign,   \* history: paths another client changed while the store was mounted
  lost,      \* history: edits that left the disk before any upload
  spoiled    \* history: a request failed, or the exit met a pass in flight

diskVars == <<disk, known, based>>
passVars == <<at, remote, todo>>
editVars == <<writes, edits>>
pastVars == <<uploaded, lost, spoiled>>
memoryVars == <<store, writable, mount, diskVars, passVars, editVars, pastVars, foreign>>

Empty == [p \in Paths |-> Absent]

MemoryInit ==
  /\ store \in [Paths -> {Absent, 1}] /\ writable \in BOOLEAN
  /\ mount = "none" /\ disk = Empty /\ known = Empty /\ based = Empty
  /\ at = [t \in Passes |-> "idle"] /\ remote = [t \in Passes |-> Empty]
  /\ todo = [t \in Passes |-> {}]
  /\ writes = 1 /\ edits = {} /\ uploaded = {} /\ foreign = {} /\ lost = {}
  /\ spoiled = FALSE

-------------------------------------------------------------------------------
(* The agent and the other clients. *)

exiting == at["exit"] # "idle"
working == mount = "mounted" /\ ~exiting

AgentWrites(p) ==
  /\ working /\ writes < MaxWrites
  /\ writes' = writes + 1 /\ disk' = [disk EXCEPT ![p] = writes + 1]
  /\ edits' = edits \cup {writes + 1}
  /\ UNCHANGED <<store, writable, mount, known, based, passVars, pastVars, foreign>>

AgentDeletes(p) ==
  /\ working /\ disk[p] # Absent
  /\ disk' = [disk EXCEPT ![p] = Absent]
  /\ UNCHANGED <<store, writable, mount, known, based, passVars, editVars, pastVars, foreign>>

touched(p) == foreign' = IF mount = "mounted" THEN foreign \cup {p} ELSE foreign

ClientWrites(p) ==
  /\ writes < MaxWrites /\ writes' = writes + 1
  /\ store' = [store EXCEPT ![p] = writes + 1] /\ touched(p)
  /\ UNCHANGED <<writable, mount, diskVars, passVars, edits, pastVars>>

ClientDeletes(p) ==
  /\ store[p] # Absent /\ store' = [store EXCEPT ![p] = Absent] /\ touched(p)
  /\ UNCHANGED <<writable, mount, diskVars, passVars, editVars, pastVars>>

-------------------------------------------------------------------------------
(* A mount and its passes. *)

\* The first pull, onto an empty disk with an empty baseline.
mountOne ==
  /\ mount = "none" /\ mount' = "mounted"
  /\ disk' = store /\ known' = store /\ based' = store
  /\ UNCHANGED <<store, writable, passVars, editVars, pastVars, foreign>>

enter(t, state) == at' = [at EXCEPT ![t] = state]

\* listRemoteMemories, answered with the store of that moment.
listRemoteMemories(t, from, to) ==
  /\ at[t] = from /\ enter(t, to)
  /\ remote' = [remote EXCEPT ![t] = store]

Start(t) ==
  /\ working /\ listRemoteMemories(t, "idle", "listed")
  /\ spoiled' = (spoiled \/ (t = "exit" /\ at["tick"] # "idle"))
  /\ UNCHANGED <<store, writable, mount, diskVars, todo, editVars, uploaded, lost, foreign>>

\* A file edited since the baseline survives the pull when the store did not
\* move; a file the store lost goes, edited or not; a missing file comes back.
kept(t, p) ==
  IF remote[t][p] = Absent THEN known[p] = Absent
  ELSE disk[p] \notin {Absent, known[p]} /\ remote[t][p] = known[p]

pulled(t) == [p \in Paths |-> IF kept(t, p) THEN disk[p] ELSE remote[t][p]]

\* An edit nobody uploaded goes although the content that prevails is not
\* another client's.
sacrificed(p, content) ==
  /\ writable /\ disk[p] \in edits \ uploaded
  /\ content \in edits \/ p \notin foreign

pullRemoteState(t) ==
  /\ at[t] = "listed" /\ enter(t, "pushing")
  /\ disk' = pulled(t) /\ known' = remote[t]
  /\ based' = [p \in Paths |-> IF kept(t, p) THEN based[p] ELSE remote[t][p]]
  /\ lost' = lost \cup {disk[p] : p \in {q \in Paths : ~kept(t, q) /\ disk[q] # remote[t][q]
                                                        /\ sacrificed(q, remote[t][q])}}
  /\ todo' = [todo EXCEPT ![t] = {p \in Paths : writable /\ pulled(t)[p] # Absent}]
  /\ UNCHANGED <<store, writable, mount, remote, editVars, uploaded, spoiled, foreign>>

\* Each file is read, and compared with listing and baseline, when its turn comes.
outgoing(t, p) ==
  /\ disk[p] # Absent
  /\ remote[t][p] = Absent \/ (remote[t][p] # disk[p] /\ remote[t][p] = known[p])

next(t, p) ==
  /\ at[t] = "pushing" /\ p \in todo[t]
  /\ todo' = [todo EXCEPT ![t] = @ \ {p}]
  /\ UNCHANGED <<writable, mount, disk, known, at, remote, editVars, lost, foreign>>

Skip(t, p) ==
  /\ ~outgoing(t, p) /\ next(t, p) /\ UNCHANGED <<store, based, uploaded, spoiled>>

\* createMemory and updateMemory accept what the listing still describes; the
\* answer, a conflict too, is ignored, and so it may be lost.
accepts(t, p) == store[p] = remote[t][p]

Upload(t, p) ==
  /\ outgoing(t, p) /\ next(t, p) /\ UNCHANGED spoiled
  /\ IF accepts(t, p)
       THEN /\ store' = [store EXCEPT ![p] = disk[p]]
            /\ based' = [based EXCEPT ![p] = disk[p]]
            /\ uploaded' = uploaded \cup {disk[p]}
       ELSE UNCHANGED <<store, based, uploaded>>

UploadFails(t, p) ==
  /\ outgoing(t, p) /\ next(t, p) /\ spoiled' = TRUE /\ UNCHANGED <<store, based, uploaded>>

Relist(t) ==
  /\ todo[t] = {} /\ listRemoteMemories(t, "pushing", "relisted")
  /\ UNCHANGED <<store, writable, mount, diskVars, todo, editVars, pastVars, foreign>>

\* releaseSessionMemoryMounts removes the directory and the lock whether the
\* last pass succeeded or not.
ends(t) ==
  /\ enter(t, "idle")
  /\ todo' = [todo EXCEPT ![t] = {}] /\ remote' = [remote EXCEPT ![t] = Empty]
  /\ IF t = "exit"
       THEN /\ mount' = "released" /\ disk' = Empty
            /\ lost' = lost \cup {disk[p] : p \in {q \in Paths : sacrificed(q, store[q])}}
       ELSE UNCHANGED <<mount, disk, lost>>
  /\ UNCHANGED <<store, writable, based, editVars, uploaded, foreign>>

\* Mutant: the pass keeps the baseline of its pull.
rebase_Forgets(t) == at[t] = "relisted" /\ UNCHANGED known

rebase(t) == at[t] = "relisted" /\ known' = remote[t]

Done(t) == rebase(t) /\ ends(t) /\ UNCHANGED spoiled

\* Either listing fails, which ends the pass.
PassFails(t) ==
  /\ at[t] \in {"listed", "relisted"} /\ ends(t)
  /\ spoiled' = TRUE /\ UNCHANGED known

reconcileMemoryMount(t) ==
  \/ Start(t) \/ pullRemoteState(t) \/ Relist(t) \/ Done(t) \/ PassFails(t)
  \/ \E p \in Paths : Skip(t, p) \/ Upload(t, p) \/ UploadFails(t, p)

MemoryNext ==
  \/ mountOne
  \/ \E p \in Paths : AgentWrites(p) \/ AgentDeletes(p) \/ ClientWrites(p) \/ ClientDeletes(p)
  \/ \E t \in Passes : reconcileMemoryMount(t)

MemorySpec == MemoryInit /\ [][MemoryNext]_memoryVars

-------------------------------------------------------------------------------
(* Properties. *)

MemoryTypeOK ==
  /\ {store, disk, known, based, remote["tick"], remote["exit"]} \subseteq Trees
  /\ writable \in BOOLEAN /\ spoiled \in BOOLEAN
  /\ mount \in {"none", "mounted", "released"}
  /\ at \in [Passes -> {"idle", "listed", "pushing", "relisted"}]
  /\ todo \in [Passes -> SUBSET Paths] /\ foreign \subseteq Paths
  /\ writes \in Contents /\ edits \cup uploaded \cup lost \subseteq Contents

\* What the agent wrote reaches the store: on a writable mount no edit leaves
\* the disk unsaved, by a pull or by the exit, unless another client changed
\* that path and its version prevails ("so a worker exit cannot strand the
\* agent's latest edits"), or a request failed or the exit met a pass in flight.
EditsReachStore == lost = {} \/ spoiled

\* An upload replaces only a content its file was made from: "conflicts resolve
\* in favour of the store's newer version".  The code's baseline may be newer
\* than the file.
StoreWins ==
  [][\A p \in Paths : store'[p] \notin {store[p], Absent} /\ store'[p] = disk[p]
                        => store[p] \in {Absent, based[p]}]_memoryVars
===============================================================================
