-------------------------------- MODULE PiLease -------------------------------
(***************************************************************************)
(* The lease beside a Pi session file, by which the runtimes of one data   *)
(* directory keep two Pi children from writing one conversation.  It is a  *)
(* file: created exclusively, rewritten by a heartbeat, removed by its     *)
(* owner after a look at the name in it, and renamed away by whoever judged *)
(* it expired.  Each file operation is a step of its own; a runtime may    *)
(* stall between any two and go on later, or die.                          *)
(*                                                                         *)
(* A lease that is not written yet is judged by its file's age, so that    *)
(* creation and first write are one step; a heartbeat truncates the file   *)
(* and writes it, which is one step for the same reason.                   *)
(***************************************************************************)
EXTENDS Naturals, FiniteSets

CONSTANTS
  Owners,       \* acquisitions; each has an owner id of its own
  NoOwner,      \* the lease file does not exist
  StaleAfter,   \* staleAfterMs, in ticks
  BeatEvery,    \* the heartbeat's interval
  MaxStalls, MaxDeaths \* bounds

ASSUME LeaseNumbers ==
  /\ BeatEvery \in Nat \ {0} /\ StaleAfter \in Nat /\ BeatEvery < StaleAfter
  /\ MaxStalls \in Nat /\ MaxDeaths \in Nat

ASSUME LeaseNames == NoOwner \notin Owners

VARIABLES
  lease,    \* the lease file: the owner it names, ticks until it is stale
  owner,    \* per acquisition: where it is
  attempt,  \* per acquisition under way: the number of its attempt
  seen,     \* per acquisition: the owner it read before it judged the lease stale
  beat,     \* per holder: ticks since it wrote the lease
  stalled,  \* acquisitions whose runtime may be late from now on
  misled,   \* history: a lease was renamed away that was not the stale one
            \* that had been read
  deaths

leaseVars == <<lease, owner, attempt, seen, beat, stalled, misled, deaths>>

NoLease == [owner |-> NoOwner, left |-> 0]
OwnerStates == {"idle", "opening", "checking", "renaming", "holding", "removing",
                "suspended", "done", "dead"}
MaxAttempts == 3

LeaseInit ==
  /\ lease = NoLease
  /\ owner = [o \in Owners |-> "idle"]
  /\ attempt = [o \in Owners |-> 0] /\ seen = [o \in Owners |-> NoOwner]
  /\ beat = [o \in Owners |-> 0]
  /\ stalled = {} /\ misled = FALSE /\ deaths = 0

Goes(o, state) == owner' = [owner EXCEPT ![o] = state]

\* The record o writes; it expires StaleAfter from now.
Written(o) ==
  /\ lease' = [owner |-> o, left |-> StaleAfter]
  /\ beat' = [beat EXCEPT ![o] = 0]

-----------------------------------------------------------------------------
(* acquirePiSessionFileLease. *)

Acquire(o) ==
  /\ owner[o] = "idle" /\ Goes(o, "opening")
  /\ attempt' = [attempt EXCEPT ![o] = 1]
  /\ UNCHANGED <<lease, seen, beat, stalled, misled, deaths>>

\* open with wx.
creatable_Always == TRUE
creatable == lease = NoLease

OpenLease(o) ==
  /\ owner[o] = "opening"
  /\ \/ /\ creatable /\ Written(o) /\ Goes(o, "holding")
        /\ attempt' = [attempt EXCEPT ![o] = 0]
     \/ ~ creatable /\ Goes(o, "checking") /\ UNCHANGED <<lease, attempt, beat>>
  /\ UNCHANGED <<seen, stalled, misled, deaths>>

\* A lease that cannot be read, gone by now, is stale too; a live one is refused
\* with PiSessionBusyError, which the caller may retry.
isStale_Never == FALSE
isStale == lease.left = 0

ReadLease(o) ==
  /\ owner[o] = "checking"
  /\ \/ isStale /\ Goes(o, "renaming") /\ seen' = [seen EXCEPT ![o] = lease.owner] /\ UNCHANGED attempt
     \/ ~ isStale /\ Goes(o, "idle") /\ attempt' = [attempt EXCEPT ![o] = 0] /\ UNCHANGED seen
  /\ UNCHANGED <<lease, beat, stalled, misled, deaths>>

\* What bears the lease's name now is renamed and removed; a file that is gone is
\* somebody else's recovery.
RenameStale(o) ==
  /\ owner[o] = "renaming"
  /\ lease' = NoLease
  /\ misled' = (misled \/ (lease # NoLease /\ (lease.owner # seen[o] \/ lease.left > 0)))
  /\ seen' = [seen EXCEPT ![o] = NoOwner]
  /\ IF attempt[o] < MaxAttempts
     THEN Goes(o, "opening") /\ attempt' = [attempt EXCEPT ![o] = @ + 1]
     ELSE Goes(o, "idle") /\ attempt' = [attempt EXCEPT ![o] = 0]
  /\ UNCHANGED <<beat, stalled, deaths>>

-----------------------------------------------------------------------------
(* The owner, while its Pi child lives. *)

\* The heartbeat, or renew: the file is written without a look at it.
Heartbeat(o) ==
  /\ owner[o] = "holding" /\ Written(o)
  /\ UNCHANGED <<owner, attempt, seen, stalled, misled, deaths>>

\* release stops the heartbeat and reads the lease; one that names another owner,
\* or cannot be read, stays.
ReleaseLease(o) ==
  /\ owner[o] = "holding"
  /\ Goes(o, IF lease.owner = o THEN "removing" ELSE "done")
  /\ UNCHANGED <<lease, attempt, seen, beat, stalled, misled, deaths>>

RemoveLease(o) ==
  /\ owner[o] = "removing" /\ Goes(o, "done")
  /\ lease' = NoLease
  /\ UNCHANGED <<attempt, seen, beat, stalled, misled, deaths>>

\* The child's process tree could not be proved gone: the lease is left to expire.
suspendHeartbeat(o) ==
  /\ owner[o] = "holding" /\ Goes(o, "suspended")
  /\ UNCHANGED <<lease, attempt, seen, beat, stalled, misled, deaths>>

-----------------------------------------------------------------------------
(* Runtimes and time. *)

holders == {o \in Owners : owner[o] \in {"holding", "removing"}}

Stall(o) ==
  /\ o \in holders \ stalled
  /\ Cardinality(stalled) < MaxStalls /\ stalled' = stalled \cup {o}
  /\ UNCHANGED <<lease, owner, attempt, seen, beat, misled, deaths>>

RuntimeDies(o) ==
  /\ owner[o] \notin {"done", "dead"} /\ Goes(o, "dead")
  /\ deaths < MaxDeaths /\ deaths' = deaths + 1
  /\ UNCHANGED <<lease, attempt, seen, beat, stalled, misled>>

\* Who does not stall writes or removes its lease within the heartbeat's interval.
late(o) == o \in holders \ stalled /\ beat[o] >= BeatEvery

LeaseTick ==
  /\ \A o \in Owners : ~ late(o)
  /\ lease' = [lease EXCEPT !.left = IF @ = 0 THEN 0 ELSE @ - 1]
  /\ beat' = [o \in Owners |-> IF o \in holders /\ beat[o] < BeatEvery THEN beat[o] + 1 ELSE beat[o]]
  /\ UNCHANGED <<owner, attempt, seen, stalled, misled, deaths>>

-----------------------------------------------------------------------------
Acquiring(o) == Acquire(o) \/ OpenLease(o) \/ ReadLease(o) \/ RenameStale(o)

LeaseNext ==
  \/ \E o \in Owners :
       \/ Acquiring(o) \/ Heartbeat(o) \/ ReleaseLease(o) \/ RemoveLease(o)
       \/ suspendHeartbeat(o) \/ Stall(o) \/ RuntimeDies(o)
  \/ LeaseTick

\* File operations end, a refused caller tries again, time passes.
LeaseFairness ==
  /\ \A o \in Owners : WF_leaseVars(Acquiring(o)) /\ WF_leaseVars(RemoveLease(o))
  /\ WF_leaseVars(LeaseTick)

LeaseSpec == LeaseInit /\ [][LeaseNext]_leaseVars /\ LeaseFairness

-----------------------------------------------------------------------------
(* Properties. *)

LeaseTypeOK ==
  /\ lease \in [owner : Owners \cup {NoOwner}, left : 0..StaleAfter]
  /\ owner \in [Owners -> OwnerStates]
  /\ attempt \in [Owners -> 0..MaxAttempts]
  /\ seen \in [Owners -> Owners \cup {NoOwner}]
  /\ beat \in [Owners -> 0..BeatEvery]
  /\ stalled \subseteq Owners /\ misled \in BOOLEAN /\ deaths \in 0..MaxDeaths

\* Exclusion is lost in two ways only: an owner stalled, or a recovery renamed away
\* another lease than the stale one it had read.  Otherwise who holds the lease is
\* alone and the file names it, whatever deaths, expiries and retries came before.
LeaseExclusive ==
  stalled = {} /\ ~ misled =>
    \A o \in holders : lease.owner = o /\ lease.left > 0 /\ holders = {o}

\* A dead, suspended or lost owner locks nobody out for ever: as long as somebody
\* asks for the lease, somebody comes to hold it again.
LeaseComesFree ==
  []<>(\/ \E o \in Owners : owner[o] = "holding"
       \/ \A o \in Owners : owner[o] \in {"removing", "suspended", "done", "dead"}
       \/ lease = NoLease /\ \A o \in Owners : owner[o] = "idle")
=============================================================================
