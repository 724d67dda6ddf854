------------------------------ MODULE EventStream ------------------------------
(***************************************************************************)
(* The event stream of one session: its append-only log, the events it     *)
(* broadcasts to its subscribers, and one client that reads the log and    *)
(* follows it over one SSE connection at a time, resuming where it stopped.*)
(* A connection subscribes, writes what the log holds beyond the cursor it *)
(* was given while it buffers what happens meanwhile, writes the buffer,   *)
(* and then writes every event as it is broadcast, with the previews of    *)
(* text it opted into.                                                     *)
(*                                                                         *)
(* The process is single threaded: a synchronous block of the producer may *)
(* broadcast several events (burst), and nothing else happens before they  *)
(* are out.  A write suspends the code that awaits it; writes settle in    *)
(* the order in which they were made.  What a connection whose client is   *)
(* gone goes on to do reaches nobody and is left out.                      *)
(***************************************************************************)
EXTENDS Naturals, Sequences

CONSTANTS
  MaxLog,     \* bound: events on the log
  MaxSteps,   \* bound: model requests
  MaxChunks,  \* bound: pieces of text a request streams
  OptIns      \* the sets of preview types a connection may ask for

PreviewTypes == {"message", "thinking"}

ASSUME BoundsAssumption ==
  /\ MaxLog \in Nat /\ MaxSteps \in Nat /\ MaxChunks \in Nat
  /\ OptIns \subseteq SUBSET PreviewTypes

VARIABLES
  \* -- the session
  log,       \* what was appended: the kind of event and the step it belongs to
  step,      \* model requests so far
  streaming, \* pieces of text of the request in flight, or Quiet
  burst,     \* events the producer is broadcasting
  \* -- the connection
  phase,     \* none, backfill, flush or live
  enabled,   \* the preview types it opted into
  from,      \* the log position it started at
  upto,      \* the log as it was read for the backfill
  cursor,    \* maxEmittedSeq
  buffer,    \* liveBuffer, as far as it is not flushed
  waiting,   \* suspended writers, oldest write first
  closed,    \* the handler's closed flag
  started,   \* the projector's open previews
  wire,      \* the frames written
  held,      \* history: persisted events that went through the buffer
  \* -- the client
  read       \* the events it has from the log or from earlier connections

sessionVars == <<log, step, streaming>>
cursorVars  == <<cursor, started, wire>>
openVars    == <<enabled, from, upto>>
streamVars == <<sessionVars, burst, phase, openVars, cursorVars, buffer, waiting, closed,
          held, read>>

Quiet == MaxChunks + 1

Event(seq, kind, n) == [seq |-> seq, kind |-> kind, step |-> n]

Deleted == \E s \in 1..Len(log) : log[s].kind = "deleted"

StreamInit ==
  /\ log = <<>> /\ step = 0 /\ streaming = Quiet /\ burst = <<>>
  /\ phase = "none" /\ enabled = {} /\ from = 0 /\ upto = 0
  /\ cursor = 0 /\ started = {} /\ wire = <<>>
  /\ buffer = <<>> /\ waiting = <<>> /\ closed = FALSE /\ held = {}
  /\ read = {}

-------------------------------------------------------------------------------
(* The producer.  Every event is appended and broadcast in one block, except *)
(* the results a session owes for interrupted tool calls, which are appended *)
(* without being broadcast.                                                  *)

Produces(entries, events) ==
  /\ burst = <<>> /\ ~Deleted /\ Len(log) + Len(entries) <= MaxLog
  /\ log' = log \o entries /\ burst' = events

Entry(kind, n) == [kind |-> kind, step |-> n]

Emits(kind) ==
  /\ Produces(<<Entry(kind, 0)>>, <<Event(Len(log) + 1, kind, 0)>>)
  /\ UNCHANGED <<step, streaming>>

\* resolveOrphanedToolUses
Settles ==
  /\ Produces(<<Entry("silent", 0)>>, <<>>) /\ UNCHANGED <<step, streaming>>

\* prepareStep mints the id the request's message will have.
RequestStarts ==
  /\ streaming = Quiet /\ step < MaxSteps
  /\ Produces(<<>>, <<>>) /\ step' = step + 1 /\ streaming' = 0

TextDelta ==
  /\ streaming < MaxChunks /\ streaming' = streaming + 1 /\ UNCHANGED step
  /\ Produces(<<>>, (IF streaming = 0 THEN <<Event(0, "stream_start", step)>> ELSE <<>>)
                      \o <<Event(0, "chunk", step)>>)

\* onStepFinish: the reasoning signal first, its preview after it, then the text;
\* an aborted request leaves neither.
StepFinishes(thinks, speaks) ==
  LET n == Len(log) IN
  /\ streaming # Quiet /\ streaming' = Quiet /\ UNCHANGED step
  /\ Produces(
       (IF thinks THEN <<Entry("thinking", step)>> ELSE <<>>)
         \o (IF speaks THEN <<Entry("message", step)>> ELSE <<>>),
       (IF thinks THEN <<Event(n + 1, "thinking", step), Event(0, "thinking_start", step)>>
        ELSE <<>>)
         \o (IF speaks THEN <<Event(IF thinks THEN n + 2 ELSE n + 1, "message", step)>>
             ELSE <<>>))

Producer ==
  /\ \/ Emits("plain") \/ Emits("deleted") \/ Settles
     \/ RequestStarts \/ TextDelta
     \/ \E thinks, speaks \in BOOLEAN : StepFinishes(thinks, speaks)
  /\ UNCHANGED <<phase, openVars, cursorVars, buffer, waiting, closed, held, read>>

-------------------------------------------------------------------------------
(* writeEvent *)

\* The event a frame is about, as far as a preview can refer to it.
previewTypeFor(kind) ==
  IF kind \in {"stream_start", "chunk"} THEN "message"
  ELSE IF kind = "thinking_start" THEN "thinking" ELSE "none"

Previewed(e) == <<IF e.seq = 0 THEN previewTypeFor(e.kind) ELSE e.kind, e.step>>

Frame(e, name) == [seq |-> e.seq, name |-> name, of |-> Previewed(e)]

\* The first carrier of an id opens its preview; text extends it.
framesFor(e) ==
  IF previewTypeFor(e.kind) \notin enabled THEN <<>>
  ELSE (IF Previewed(e) \in started THEN <<>> ELSE <<Frame(e, "event_start")>>)
         \o (IF e.kind = "chunk" THEN <<Frame(e, "event_delta")>> ELSE <<>>)

Suspended(main, rest, closes) == [main |-> main, rest |-> rest, closes |-> closes]

\* Mutant: persisted events are not deduplicated.
WritePersisted_Again(e, main) ==
  /\ cursor' = e.seq /\ started' = started \ {Previewed(e)}
  /\ wire' = Append(wire, Frame(e, e.kind))
  /\ waiting' = IF main \/ e.kind = "deleted"
                THEN Append(waiting, Suspended(main, <<>>, e.kind = "deleted")) ELSE waiting

\* Up to its first await.  Nothing is left to do after it for a live event, except
\* that session.deleted closes the stream.
WritePersisted(e, main) ==
  IF e.seq <= cursor THEN UNCHANGED <<cursorVars, waiting>>
  ELSE /\ cursor' = e.seq /\ started' = started \ {Previewed(e)}
       /\ wire' = Append(wire, Frame(e, e.kind))
       /\ waiting' = IF main \/ e.kind = "deleted"
                     THEN Append(waiting, Suspended(main, <<>>, e.kind = "deleted"))
                     ELSE waiting

\* Transient events neither move the cursor nor carry an id.
WriteTransient(e, main) ==
  LET frames == framesFor(e) IN
  IF frames = <<>> THEN UNCHANGED <<cursorVars, waiting>>
  ELSE /\ UNCHANGED cursor /\ started' = started \cup {Previewed(e)}
       /\ wire' = Append(wire, Head(frames))
       /\ waiting' = IF main \/ Len(frames) > 1
                     THEN Append(waiting, Suspended(main, Tail(frames), FALSE))
                     ELSE waiting

writeEvent(e, main) == IF e.seq = 0 THEN WriteTransient(e, main) ELSE WritePersisted(e, main)

-------------------------------------------------------------------------------
(* The handler of a connection. *)

\* Mutant: the handler subscribes once the backfill is written.
Hear_Late(e) ==
  IF phase \in {"flush", "live"} /\ ~closed
  THEN writeEvent(e, FALSE) /\ UNCHANGED <<buffer, held>>
  ELSE UNCHANGED <<cursorVars, waiting, buffer, held>>

\* The subscription: buffer during the backfill, write at once afterwards.
Hear(e) ==
  IF phase = "backfill" /\ ~closed
  THEN /\ buffer' = Append(buffer, e)
       /\ held' = IF e.seq = 0 THEN held ELSE held \cup {e.seq}
       /\ UNCHANGED <<cursorVars, waiting>>
  ELSE /\ UNCHANGED <<buffer, held>>
       /\ IF phase = "none" \/ closed THEN UNCHANGED <<cursorVars, waiting>>
          ELSE writeEvent(e, FALSE)

Broadcast ==
  /\ burst # <<>> /\ burst' = Tail(burst) /\ Hear(Head(burst))
  /\ UNCHANGED <<sessionVars, phase, openVars, closed, read>>

\* The handler itself is not suspended in a write.
Running == burst = <<>> /\ \A k \in 1..Len(waiting) : ~waiting[k].main

Backfills ==
  /\ Running /\ phase = "backfill" /\ cursor < upto
  /\ LET s == cursor + 1 IN writeEvent(Event(s, log[s].kind, log[s].step), TRUE)
  /\ UNCHANGED <<sessionVars, burst, phase, openVars, buffer, closed, held, read>>

\* From here on the subscription writes at once, next to this loop.
Flushes ==
  /\ Running
  /\ phase = "flush" \/ (phase = "backfill" /\ cursor >= upto)
  /\ IF closed \/ buffer = <<>>
     THEN phase' = "live" /\ buffer' = <<>> /\ UNCHANGED <<cursorVars, waiting>>
     ELSE phase' = "flush" /\ buffer' = Tail(buffer) /\ writeEvent(Head(buffer), TRUE)
  /\ UNCHANGED <<sessionVars, burst, openVars, closed, held, read>>

\* The oldest write settles: its writer goes on to its next frame, or is done.
WriteSettles ==
  LET w == Head(waiting) IN
  /\ burst = <<>> /\ waiting # <<>>
  /\ IF w.rest = <<>>
     THEN waiting' = Tail(waiting) /\ closed' = (closed \/ w.closes) /\ UNCHANGED wire
     ELSE /\ wire' = Append(wire, Head(w.rest))
          /\ waiting' = Tail(waiting) \o
               (IF w.main \/ Len(w.rest) > 1 THEN <<[w EXCEPT !.rest = Tail(@)]>> ELSE <<>>)
          /\ UNCHANGED closed
  /\ UNCHANGED <<sessionVars, burst, phase, openVars, cursor, started, buffer, held, read>>

-------------------------------------------------------------------------------
(* The client. *)

onWire == {wire[k].seq : k \in 1..Len(wire)} \ {0}
Seen == read \cup onWire

\* c is the highest position up to which nothing is missing.
contiguousSessionSequence(c) == 1..c \subseteq Seen /\ c + 1 \notin Seen

HangsUp ==
  /\ phase' = "none" /\ read' = Seen
  /\ enabled' = {} /\ from' = 0 /\ upto' = 0 /\ cursor' = 0 /\ started' = {}
  /\ wire' = <<>> /\ buffer' = <<>> /\ waiting' = <<>> /\ closed' = FALSE /\ held' = {}
  /\ UNCHANGED <<sessionVars, burst>>

\* The handler leaves its loop and the stream is closed.
StreamEnds == burst = <<>> /\ phase = "live" /\ closed /\ HangsUp

\* The client is gone; what it had not received yet it never will.
Disconnects == burst = <<>> /\ phase # "none" /\ HangsUp

Opens(previews, cursor0, from0, upto0) ==
  /\ burst = <<>> /\ phase = "none" /\ ~Deleted
  /\ enabled' = previews /\ cursor' = cursor0 /\ from' = from0 /\ upto' = upto0
  /\ phase' = IF cursor0 < upto0 THEN "backfill" ELSE "live"
  /\ UNCHANGED <<sessionVars, burst, started, wire, buffer, waiting, closed, held, read>>

\* Mutant: the backfill starts one event too late.
Resumes_Skips(previews) ==
  \E c \in 0..Len(log) : contiguousSessionSequence(c) /\ Opens(previews, c + 1, c, Len(log))

\* With a cursor the log is read in the block that subscribes ...
Resumes(previews) ==
  \E c \in 0..Len(log) : contiguousSessionSequence(c) /\ Opens(previews, c, c, Len(log))

\* ... and without one nothing recorded is replayed.
OpensLive(previews) == Opens(previews, 0, Len(log), 0)

ReadsHistory ==
  /\ burst = <<>> /\ ~Deleted /\ read' = read \cup 1..Len(log)
  /\ UNCHANGED <<sessionVars, burst, phase, openVars, cursorVars, buffer, waiting,
                 closed, held>>

Client ==
  \/ Disconnects \/ ReadsHistory
  \/ \E previews \in OptIns : Resumes(previews) \/ OpensLive(previews)

Handler == Broadcast \/ Backfills \/ Flushes \/ WriteSettles \/ StreamEnds

StreamNext == Producer \/ Handler \/ Client

StreamSpec == StreamInit /\ [][StreamNext]_streamVars

-------------------------------------------------------------------------------
(* Properties *)

Kinds == {"plain", "silent", "message", "thinking", "deleted"}
Carriers == {"stream_start", "chunk", "thinking_start"}
Names == Kinds \cup {"event_start", "event_delta"}
Previews == (Kinds \cup PreviewTypes \cup {"none"}) \X Nat

EventType == [seq : Nat, kind : Kinds \cup Carriers, step : Nat]
FrameType == [seq : Nat, name : Names, of : Previews]
WriterType == [main : BOOLEAN, rest : Seq(FrameType), closes : BOOLEAN]

\* The log and the number of steps are bounded, a live connection has no buffer,
\* and the rest has values of its kind.
StreamTypeOK ==
  /\ log \in Seq([kind : Kinds, step : Nat]) /\ Len(log) <= MaxLog
  /\ step \in 0..MaxSteps /\ streaming \in 0..Quiet /\ burst \in Seq(EventType)
  /\ phase \in {"none", "backfill", "flush", "live"} /\ enabled \subseteq PreviewTypes
  /\ from \in Nat /\ upto \in Nat /\ cursor \in Nat
  /\ buffer \in Seq(EventType) /\ waiting \in Seq(WriterType) /\ closed \in BOOLEAN
  /\ phase \in {"none", "live"} => buffer = <<>>
  /\ started \subseteq Previews /\ wire \in Seq(FrameType)
  /\ held \subseteq Nat /\ read \subseteq Nat

\* A connection writes every logged event at most once and in the order of the log,
\* with the backfill, the flush and live events writing next to each other.
InOrderOnce ==
  \A j, k \in 1..Len(wire) :
    j < k /\ wire[j].seq # 0 /\ wire[k].seq # 0 => wire[j].seq < wire[k].seq

\* Whatever was logged after the point a connection started at is on the wire, about
\* to be written, or one of the events that had to wait in the buffer; only results
\* that are never broadcast are missing besides.
EverythingElseArrives ==
  phase # "none" /\ burst = <<>> =>
    \A s \in from + 1..Len(log) :
      \/ s \in onWire \cup held \/ log[s].kind = "silent"
      \/ phase = "backfill" /\ s <= upto

\* A client that resumes at the highest position without a gap has, once its backfill
\* is written, everything that was logged before it connected: what earlier
\* connections lost, and what was never broadcast, included.
CaughtUp == phase \in {"flush", "live"} => 1..upto \subseteq Seen

\* Text of a preview never arrives before the frame that opens the preview, also for
\* a connection opened in the middle of a message.
DeltaNeedsStart ==
  \A k \in 1..Len(wire) : wire[k].name = "event_delta" =>
    \E j \in 1..k - 1 : wire[j].name = "event_start" /\ wire[j].of = wire[k].of

(* What the code's comments say and the code does not keep. *)

\* "Buffer live events that arrive during backfill so nothing is lost" (stream.ts):
\* what was buffered is on the wire when the buffer is done.
BufferedArrives == phase = "live" /\ ~closed => held \subseteq onWire

===============================================================================
