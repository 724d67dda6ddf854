-------------------------- MODULE EventStream_proofs --------------------------
(***************************************************************************)
(* Theorems about EventStream, for logs, texts and opt-ins of any size.    *)
(***************************************************************************)
EXTENDS EventStream, SequenceTheorems, TLAPS

-------------------------------------------------------------------------------
(* What a sequence holds. *)

Members(s) == {s[k] : k \in 1..Len(s)}

LEMMA AppendMembers ==
  ASSUME NEW S, NEW s \in Seq(S), NEW x \in S
  PROVE  /\ Append(s, x) \in Seq(S) /\ Len(Append(s, x)) = Len(s) + 1
         /\ \A k \in 1..Len(s) : Append(s, x)[k] = s[k]
         /\ Append(s, x)[Len(s) + 1] = x
         /\ Members(Append(s, x)) = Members(s) \cup {x}
  <1>1. /\ Append(s, x) \in Seq(S) /\ Len(Append(s, x)) = Len(s) + 1
        /\ \A k \in 1..Len(s) : Append(s, x)[k] = s[k]
        /\ Append(s, x)[Len(s) + 1] = x
    OBVIOUS
  <1>2. Members(Append(s, x)) = Members(s) \cup {x}
    BY <1>1 DEF Members
  <1> QED
    BY <1>1, <1>2

LEMMA TailMembers ==
  ASSUME NEW S, NEW s \in Seq(S), s # <<>>
  PROVE  /\ Head(s) \in Members(s) /\ Head(s) = s[1] /\ Head(s) \in S
         /\ Tail(s) \in Seq(S) /\ Len(Tail(s)) = Len(s) - 1
         /\ \A k \in 1..Len(s) - 1 : Tail(s)[k] = s[k + 1]
         /\ Members(s) = {Head(s)} \cup Members(Tail(s))
  <1>1. /\ Head(s) \in Members(s) /\ Head(s) = s[1] /\ Head(s) \in S
        /\ Tail(s) \in Seq(S) /\ Len(Tail(s)) = Len(s) - 1
        /\ \A k \in 1..Len(s) - 1 : Tail(s)[k] = s[k + 1]
    BY DEF Members
  <1>2. ASSUME NEW x \in Members(s), x # Head(s)
        PROVE  x \in Members(Tail(s))
    <2>1. PICK k \in 1..Len(s) : x = s[k]
      BY DEF Members
    <2>2. k # 1
      BY <1>1, <1>2, <2>1
    <2>3. k - 1 \in 1..Len(s) - 1 /\ Tail(s)[k - 1] = s[k]
      BY <1>1, <2>2
    <2> QED
      BY <1>1, <2>1, <2>3 DEF Members
  <1>3. Members(Tail(s)) \subseteq Members(s)
    <2> SUFFICES ASSUME NEW k \in 1..Len(Tail(s))
                 PROVE  Tail(s)[k] \in Members(s)
      BY DEF Members
    <2>1. k + 1 \in 1..Len(s) /\ Tail(s)[k] = s[k + 1]
      BY <1>1
    <2> QED
      BY <2>1 DEF Members
  <1> QED
    BY <1>1, <1>2, <1>3

LEMMA EmptyMembers == Members(<<>>) = {} /\ Len(<<>>) = 0
  BY DEF Members

-------------------------------------------------------------------------------
(* The inductive invariant. *)

\* An event is a carrier of a preview, or it is on the log under its number.
EventOK(e) ==
  IF e.seq = 0 THEN e.kind \in Carriers
  ELSE e.seq \in 1..Len(log) /\ e.kind = log[e.seq].kind

EventsInv ==
  /\ \A e \in Members(burst) \cup Members(buffer) : EventOK(e)
  /\ cursor <= Len(log) /\ upto <= Len(log) /\ from <= Len(log)

\* What is being broadcast is newer than what was written, and in order.
BurstInv ==
  /\ \A e \in Members(burst) : e.seq # 0 => cursor < e.seq
  /\ \A j, k \in 1..Len(burst) :
       j < k /\ burst[j].seq # 0 /\ burst[k].seq # 0 => burst[j].seq < burst[k].seq
  /\ closed => Deleted /\ burst = <<>>

Opened(p) == \E j \in 1..Len(wire) : wire[j].name = "event_start" /\ wire[j].of = p

\* A suspended writer has only text left to write, of a preview that is open.
WritersInv ==
  /\ \A w \in Members(waiting) :
       /\ w.closes => Deleted
       /\ \A f \in Members(w.rest) : f.seq = 0 /\ f.name = "event_delta" /\ Opened(f.of)
  /\ \A p \in started : Opened(p)

WireInv ==
  /\ InOrderOnce /\ DeltaNeedsStart
  /\ \A k \in 1..Len(wire) : wire[k].seq <= cursor

\* Nothing is left of a connection that is over.
OverInv ==
  phase = "none" =>
    wire = <<>> /\ waiting = <<>> /\ closed = FALSE /\ held = {} /\ started = {} /\ cursor = 0

ArrivalInv ==
  phase # "none" =>
    \A s \in from + 1..Len(log) :
      \/ s \in onWire \cup held \/ log[s].kind = "silent"
      \/ phase = "backfill" /\ s <= upto
      \/ \E e \in Members(burst) : e.seq = s

BackfillInv ==
  /\ phase = "backfill" => /\ cursor <= upto
                           /\ 1..cursor \subseteq Seen /\ from + 1..cursor \subseteq onWire
  /\ CaughtUp /\ read \subseteq 1..Len(log)

IInv == /\ StreamTypeOK /\ EventsInv /\ BurstInv /\ WritersInv
        /\ WireInv /\ OverInv /\ ArrivalInv /\ BackfillInv

-------------------------------------------------------------------------------
(* Writing a frame. *)

\* A frame that is newer than what was written, or belongs to an open preview, keeps
\* the order of the stream.
LEMMA FrameKeepsOrder ==
  ASSUME NEW f \in FrameType, wire \in Seq(FrameType), cursor \in Nat, cursor' \in Nat,
         WireInv, wire' = Append(wire, f), cursor <= cursor',
         f.seq = 0 \/ (cursor < f.seq /\ f.seq = cursor'),
         f.name = "event_delta" => Opened(f.of)
  PROVE  /\ wire' \in Seq(FrameType) /\ WireInv'
         /\ onWire' = onWire \cup ({f.seq} \ {0})
         /\ \A p : Opened(p) => Opened(p)'
         /\ f.name = "event_start" => Opened(f.of)'
  <1>1. /\ wire' \in Seq(FrameType) /\ Len(wire') = Len(wire) + 1
        /\ \A k \in 1..Len(wire) : wire'[k] = wire[k]
        /\ wire'[Len(wire) + 1] = f /\ Len(wire) \in Nat
    BY AppendMembers, LenProperties
  <1>2. \A k \in 1..Len(wire') : k \in 1..Len(wire) \/ k = Len(wire) + 1
    BY <1>1
  <1>3. \A k \in 1..Len(wire) : wire[k].seq \in Nat
    <2>1. \A k \in 1..Len(wire) : wire[k] \in FrameType
      BY ElementOfSeq
    <2> QED
      BY <2>1 DEF FrameType
  <1>4. f.seq \in Nat
    BY DEF FrameType
  <1>5. \A k \in 1..Len(wire') : wire'[k].seq <= cursor'
    BY <1>1, <1>2, <1>3, <1>4 DEF WireInv
  <1>6. InOrderOnce'
    BY <1>1, <1>2, <1>3, <1>4 DEF WireInv, InOrderOnce
  <1>7. \A p : Opened(p) => Opened(p)'
    BY <1>1 DEF Opened
  <1>8. DeltaNeedsStart'
    <2> SUFFICES ASSUME NEW k \in 1..Len(wire'), wire'[k].name = "event_delta"
                 PROVE  \E j \in 1..k - 1 : /\ wire'[j].name = "event_start"
                                            /\ wire'[j].of = wire'[k].of
      BY DEF DeltaNeedsStart
    <2>1. CASE k \in 1..Len(wire)
      <3>1. wire[k].name = "event_delta"
        BY <1>1, <2>1
      <3>2. PICK j \in 1..k - 1 : wire[j].name = "event_start" /\ wire[j].of = wire[k].of
        BY <2>1, <3>1 DEF WireInv, DeltaNeedsStart
      <3>3. j \in 1..Len(wire) /\ wire'[j] = wire[j] /\ wire'[k] = wire[k]
        BY <1>1, <2>1, <3>2
      <3> QED
        BY <3>2, <3>3
    <2>2. CASE k = Len(wire) + 1
      <3>1. Opened(f.of)
        BY <1>1, <2>2
      <3>2. PICK j \in 1..Len(wire) : wire[j].name = "event_start" /\ wire[j].of = f.of
        BY <3>1 DEF Opened
      <3> QED
        BY <1>1, <2>2, <3>2
    <2> QED
      BY <1>2, <2>1, <2>2
  <1>9. onWire' = onWire \cup ({f.seq} \ {0})
    <2>1. \A x \in onWire' : x \in onWire \cup ({f.seq} \ {0})
      BY <1>1, <1>2 DEF onWire
    <2>2. \A x \in onWire : x \in onWire'
      <3> SUFFICES ASSUME NEW k \in 1..Len(wire), wire[k].seq # 0
                   PROVE  wire[k].seq \in onWire'
        BY DEF onWire
      <3> QED
        BY <1>1 DEF onWire
    <2>3. f.seq # 0 => f.seq \in onWire'
      BY <1>1 DEF onWire
    <2> QED
      BY <2>1, <2>2, <2>3
  <1>10. f.name = "event_start" => Opened(f.of)'
    BY <1>1 DEF Opened
  <1> QED
    BY <1>1, <1>5, <1>6, <1>7, <1>8, <1>9, <1>10 DEF WireInv

\* The part of the type invariant a write touches.
WriterTypes ==
  /\ wire \in Seq(FrameType) /\ waiting \in Seq(WriterType)
  /\ cursor \in Nat /\ started \subseteq Previews

\* Writers that were suspended before stay so, on the previews they had opened.
LEMMA WritersKept ==
  ASSUME WriterTypes, WritersInv, log' = log,
         \A p : Opened(p) => Opened(p)',
         \A w \in Members(waiting') : w \in Members(waiting) \/
            /\ w.closes => Deleted
            /\ \A f \in Members(w.rest) : /\ f.seq = 0 /\ f.name = "event_delta"
                                          /\ Opened(f.of)',
         \A p \in started' : p \in started \/ Opened(p)'
  PROVE  WritersInv'
  <1>1. Deleted' = Deleted
    BY DEF Deleted
  <1> QED
    BY <1>1 DEF WritersInv

\* A write of an event of the log, or of a carrier, keeps the stream in order, moves
\* the cursor to the event, and puts a new event of the log on the wire.
LEMMA WriteLemma ==
  ASSUME WriterTypes, WritersInv, WireInv, log' = log, log \in Seq([kind : Kinds, step : Nat]),
         NEW e \in EventType, EventOK(e), NEW main \in BOOLEAN, writeEvent(e, main)
  PROVE  /\ WriterTypes' /\ WritersInv' /\ WireInv'
         /\ cursor <= cursor' /\ e.seq <= cursor' /\ cursor' \in {cursor, e.seq}
         /\ onWire' = IF e.seq > cursor THEN onWire \cup {e.seq} ELSE onWire
  <1>0. e.seq \in Nat /\ e.kind \in Kinds \cup Carriers /\ e.step \in Nat /\ cursor \in Nat
    BY DEF EventType, WriterTypes
  <1>1. ASSUME UNCHANGED <<cursorVars, waiting>>, e.seq <= cursor
        PROVE  /\ WriterTypes' /\ WritersInv' /\ WireInv' /\ cursor' = cursor
               /\ onWire' = onWire
    BY <1>1 DEF cursorVars, WriterTypes, WritersInv, WireInv, InOrderOnce, DeltaNeedsStart,
                Opened, Members, Deleted, onWire
  <1>2. CASE e.seq # 0 /\ e.seq > cursor
    <2> DEFINE f == Frame(e, e.kind)
               w == Suspended(main, <<>>, e.kind = "deleted")
    <2>1. /\ cursor' = e.seq /\ started' = started \ {Previewed(e)}
          /\ wire' = Append(wire, f)
          /\ waiting' = waiting \/ waiting' = Append(waiting, w)
      BY <1>0, <1>2 DEF writeEvent, WritePersisted
    <2>2. /\ e.kind \in Kinds
          /\ e.seq \in 1..Len(log) /\ e.kind = log[e.seq].kind
      <3>1. e.seq \in 1..Len(log) /\ e.kind = log[e.seq].kind
        BY <1>2 DEF EventOK
      <3>2. log[e.seq] \in [kind : Kinds, step : Nat]
        BY <3>1, ElementOfSeq
      <3> QED
        BY <3>1, <3>2
    <2>3. Previewed(e) \in Previews
      BY <1>0, <1>2, <2>2 DEF Previewed, Previews
    <2>4. f \in FrameType /\ f.seq = e.seq /\ f.name = e.kind
      BY <1>0, <2>2, <2>3 DEF Frame, FrameType, Names
    <2>5. f.name # "event_delta"
      BY <2>2, <2>4 DEF Kinds
    <2>6. /\ wire' \in Seq(FrameType) /\ WireInv' /\ onWire' = onWire \cup ({f.seq} \ {0})
          /\ \A p : Opened(p) => Opened(p)'
      BY <1>0, <1>2, <2>1, <2>4, <2>5, FrameKeepsOrder DEF WriterTypes
    <2>7. w \in WriterType /\ (w.closes => e.kind = "deleted") /\ w.rest = <<>>
      BY EmptySeq DEF Suspended, WriterType
    <2> HIDE DEF w
    <2>8. waiting' \in Seq(WriterType) /\ Members(waiting') \subseteq Members(waiting) \cup {w}
      <3>1. CASE waiting' = waiting
        BY <3>1 DEF WriterTypes, Members
      <3>2. CASE waiting' = Append(waiting, w)
        BY <2>7, <3>2, AppendMembers DEF WriterTypes
      <3> QED
        BY <2>1, <3>1, <3>2
    <2>9. w.closes => Deleted
      BY <2>2, <2>7 DEF Deleted
    <2>10. Members(w.rest) = {}
      BY <2>7, EmptyMembers
    <2>11. WritersInv'
      <3>1. \A p \in started' : p \in started
        BY <2>1
      <3>2. \A v \in Members(waiting') : v \in Members(waiting) \/ v = w
        BY <2>8
      <3> QED
        BY <2>6, <2>9, <2>10, <3>1, <3>2, WritersKept
    <2>12. WriterTypes'
      BY <1>0, <2>1, <2>6, <2>8 DEF WriterTypes
    <2> QED
      BY <1>0, <1>2, <2>1, <2>4, <2>6, <2>11, <2>12
  <1>3. CASE e.seq = 0 /\ framesFor(e) # <<>>
    <2> DEFINE p == Previewed(e)
               start == Frame(e, "event_start")
               delta == Frame(e, "event_delta")
    <2>1. p \in Previews
      <3>1. e.kind \in Carriers /\ previewTypeFor(e.kind) \in PreviewTypes
        BY <1>3 DEF EventOK, previewTypeFor, Carriers, PreviewTypes
      <3> QED
        BY <1>0, <1>3, <3>1 DEF Previewed, Previews
    <2>2. start \in FrameType /\ delta \in FrameType
      BY <1>0, <2>1 DEF Frame, FrameType, Names
    <2>3. /\ start.seq = 0 /\ start.name = "event_start" /\ start.of = p
          /\ delta.seq = 0 /\ delta.name = "event_delta" /\ delta.of = p
      BY <1>3 DEF Frame
    <2>4. \/ framesFor(e) = <<start>> \/ framesFor(e) = <<start, delta>>
          \/ framesFor(e) = <<delta>> /\ p \in started
      <3>1. <<>> \o <<>> = <<>> /\ <<start>> \o <<>> = <<start>>
            /\ <<start>> \o <<delta>> = <<start, delta>> /\ <<>> \o <<delta>> = <<delta>>
        <4> HIDE DEF start, delta
        <4>1. /\ <<>> \in Seq(FrameType) /\ <<start>> \in Seq(FrameType)
              /\ <<delta>> \in Seq(FrameType) /\ <<start, delta>> \in Seq(FrameType)
          BY <2>2
        <4>2. /\ <<start>> \o <<delta>> \in Seq(FrameType)
              /\ Len(<<start>> \o <<delta>>) = 2 /\ Len(<<start, delta>>) = 2
              /\ (<<start>> \o <<delta>>)[1] = start /\ (<<start>> \o <<delta>>)[2] = delta
          BY <4>1, ConcatProperties
        <4>3. \A i \in 1..2 : (<<start>> \o <<delta>>)[i] = <<start, delta>>[i]
          BY <4>2
        <4> QED
          BY <4>1, <4>2, <4>3, ConcatEmptySeq, SeqEqual
      <3> QED
        BY <1>3, <3>1, Zenon DEF framesFor
    <2>5. /\ cursor' = cursor /\ started' = started \cup {p}
          /\ wire' = Append(wire, Head(framesFor(e)))
      BY <1>0, <1>3 DEF writeEvent, WriteTransient
    <2> HIDE DEF p, start, delta
    <2>6. \/ Head(framesFor(e)) = start
          \/ Head(framesFor(e)) = delta /\ Opened(p)
      BY <2>4 DEF WriterTypes, WritersInv
    <2>7. /\ wire' \in Seq(FrameType) /\ WireInv' /\ onWire' = onWire
          /\ (\A q : Opened(q) => Opened(q)') /\ Opened(p)'
      <3>1. CASE Head(framesFor(e)) = start
        <4>1. /\ wire' \in Seq(FrameType) /\ WireInv' /\ onWire' = onWire \cup ({start.seq} \ {0})
              /\ \A q : Opened(q) => Opened(q)'
              /\ start.name = "event_start" => Opened(start.of)'
          BY <1>0, <2>2, <2>3, <2>5, <3>1, FrameKeepsOrder DEF WriterTypes
        <4> QED
          BY <2>3, <4>1
      <3>2. CASE Head(framesFor(e)) = delta /\ Opened(p)
        <4>1. /\ wire' \in Seq(FrameType) /\ WireInv' /\ onWire' = onWire \cup ({delta.seq} \ {0})
              /\ \A q : Opened(q) => Opened(q)'
          BY <1>0, <2>2, <2>3, <2>5, <3>2, FrameKeepsOrder DEF WriterTypes
        <4> QED
          BY <2>3, <3>2, <4>1
      <3> QED
        BY <2>6, <3>1, <3>2
    <2>8. /\ Tail(framesFor(e)) \in Seq(FrameType)
          /\ \A f \in Members(Tail(framesFor(e))) : f = delta
      <3>1. Tail(<<start>>) = <<>> /\ Tail(<<delta>>) = <<>> /\ Tail(<<start, delta>>) = <<delta>>
        OBVIOUS
      <3>2. <<>> \in Seq(FrameType) /\ <<delta>> \in Seq(FrameType)
        BY <2>2
      <3>3. Members(<<delta>>) = {delta}
        BY DEF Members
      <3> QED
        <4>1. Tail(framesFor(e)) \in {<<>>, <<delta>>}
          BY <2>4, <3>1
        <4>2. CASE Tail(framesFor(e)) = <<>>
          BY <3>2, <4>2, EmptyMembers
        <4>3. CASE Tail(framesFor(e)) = <<delta>>
          BY <3>2, <3>3, <4>3
        <4> QED
          BY <4>1, <4>2, <4>3
    <2> DEFINE w == Suspended(main, Tail(framesFor(e)), FALSE)
    <2>9. w \in WriterType /\ ~w.closes /\ w.rest = Tail(framesFor(e))
      BY <2>8 DEF Suspended, WriterType
    <2>10. waiting' = waiting \/ waiting' = Append(waiting, w)
      BY <1>0, <1>3 DEF writeEvent, WriteTransient
    <2> HIDE DEF w
    <2>11. waiting' \in Seq(WriterType) /\ Members(waiting') \subseteq Members(waiting) \cup {w}
      <3>1. CASE waiting' = waiting
        BY <3>1 DEF WriterTypes, Members
      <3>2. CASE waiting' = Append(waiting, w)
        BY <2>9, <3>2, AppendMembers DEF WriterTypes
      <3> QED
        BY <2>10, <3>1, <3>2
    <2>12. WritersInv'
      <3>1. \A q \in started' : q \in started \/ Opened(q)'
        BY <2>5, <2>7
      <3>2. \A v \in Members(waiting') : v \in Members(waiting) \/ v = w
        BY <2>11
      <3>3. \A f \in Members(w.rest) : f.seq = 0 /\ f.name = "event_delta" /\ Opened(f.of)'
        BY <2>3, <2>7, <2>8, <2>9
      <3> QED
        BY <2>7, <2>9, <3>1, <3>2, <3>3, WritersKept
    <2>13. WriterTypes'
      BY <1>0, <2>1, <2>5, <2>7, <2>11 DEF WriterTypes
    <2> QED
      BY <1>0, <1>3, <2>5, <2>7, <2>12, <2>13
  <1>4. CASE e.seq = 0 /\ framesFor(e) = <<>>
    BY <1>0, <1>1, <1>4 DEF writeEvent, WriteTransient
  <1>5. CASE e.seq # 0 /\ e.seq <= cursor
    BY <1>0, <1>1, <1>5 DEF writeEvent, WritePersisted
  <1> QED
    BY <1>0, <1>2, <1>3, <1>4, <1>5

-------------------------------------------------------------------------------
(* The producer. *)

EntryType == [kind : Kinds, step : Nat]

\* A block broadcasts its entries in their order, each under its number, and leaves
\* out silent ones only.
Announces(entries, events) ==
  /\ \A k \in 1..Len(events) :
       IF events[k].seq = 0 THEN events[k].kind \in Carriers
       ELSE \E i \in 1..Len(entries) : /\ events[k].seq = Len(log) + i
                                      /\ events[k].kind = entries[i].kind
  /\ \A j, k \in 1..Len(events) :
       j < k /\ events[j].seq # 0 /\ events[k].seq # 0 => events[j].seq < events[k].seq
  /\ \A i \in 1..Len(entries) :
       entries[i].kind = "silent" \/ \E k \in 1..Len(events) : events[k].seq = Len(log) + i

\* What such a block appends keeps the invariant.
LEMMA ProducesLemma ==
  ASSUME IInv, NEW entries \in Seq(EntryType), NEW events \in Seq(EventType),
         Produces(entries, events), step' \in 0..MaxSteps, streaming' \in 0..Quiet,
         UNCHANGED <<phase, openVars, cursorVars, buffer, waiting, closed, held, read>>,
         Announces(entries, events)
  PROVE  IInv'
  <1> USE DEF openVars, cursorVars
  <1>1. /\ log \in Seq(EntryType) /\ Len(log) \in Nat /\ Len(entries) \in Nat
        /\ burst = <<>> /\ burst' = events /\ ~Deleted /\ log' = log \o entries
        /\ Len(log) + Len(entries) <= MaxLog
    BY LenProperties DEF IInv, StreamTypeOK, EntryType, Produces
  <1>2. /\ log' \in Seq(EntryType) /\ Len(log') = Len(log) + Len(entries)
        /\ \A s \in 1..Len(log) : s \in 1..Len(log') /\ log'[s] = log[s]
        /\ \A i \in 1..Len(entries) : log'[Len(log) + i] = entries[i]
    BY <1>1, ConcatProperties
  <1>3. \A k \in 1..Len(events) : EventOK(events[k])'
    <2> SUFFICES ASSUME NEW k \in 1..Len(events), events[k].seq # 0
                 PROVE  events[k].seq \in 1..Len(log') /\ events[k].kind = log'[events[k].seq].kind
      BY DEF EventOK, Announces
    <2>1. PICK i \in 1..Len(entries) : /\ events[k].seq = Len(log) + i
                                       /\ events[k].kind = entries[i].kind
      BY DEF Announces
    <2> QED
      BY <1>1, <1>2, <2>1
  <1>4. StreamTypeOK'
    BY <1>1, <1>2 DEF IInv, StreamTypeOK, EntryType
  <1>5. EventsInv'
    <2>1. \A e \in Members(buffer) : EventOK(e)'
      BY <1>2 DEF IInv, EventsInv, EventOK
    <2>2. \A e \in Members(burst') : EventOK(e)'
      BY <1>1, <1>3 DEF Members
    <2>3. cursor <= Len(log') /\ upto <= Len(log') /\ from <= Len(log')
      BY <1>1, <1>2 DEF IInv, EventsInv, StreamTypeOK
    <2> QED
      BY <2>1, <2>2, <2>3 DEF EventsInv, Members
  <1>6. BurstInv'
    <2>1. ~closed
      BY <1>1 DEF IInv, BurstInv
    <2>2. \A k \in 1..Len(events) : events[k].seq # 0 => cursor < events[k].seq
      <3> SUFFICES ASSUME NEW k \in 1..Len(events), events[k].seq # 0
                   PROVE  cursor < events[k].seq
        OBVIOUS
      <3>1. PICK i \in 1..Len(entries) : events[k].seq = Len(log) + i
        BY DEF Announces
      <3> QED
        BY <1>1, <3>1 DEF IInv, EventsInv, StreamTypeOK
    <2> QED
      BY <1>1, <2>1, <2>2 DEF BurstInv, Members, Announces
  <1>7. WritersInv'
    <2>1. /\ \A w \in Members(waiting) : ~w.closes
          /\ \A w \in Members(waiting) : \A f \in Members(w.rest) :
               f.seq = 0 /\ f.name = "event_delta" /\ Opened(f.of)
          /\ \A q \in started : Opened(q)
      BY <1>1 DEF IInv, WritersInv
    <2>2. Members(waiting') = Members(waiting) /\ \A q : Opened(q) => Opened(q)'
      BY DEF Members, Opened
    <2> QED
      BY <2>1, <2>2 DEF WritersInv
  <1>8. WireInv' /\ OverInv'
    BY DEF IInv, WireInv, OverInv, InOrderOnce, DeltaNeedsStart
  <1>9. ArrivalInv'
    <2> SUFFICES ASSUME phase # "none", NEW s \in from + 1..Len(log')
                 PROVE  \/ s \in onWire \cup held \/ log'[s].kind = "silent"
                        \/ phase = "backfill" /\ s <= upto
                        \/ \E e \in Members(burst') : e.seq = s
      BY DEF ArrivalInv, onWire
    <2>0. from \in Nat
      BY DEF IInv, StreamTypeOK
    <2>1. CASE s <= Len(log)
      <3>1. s \in from + 1..Len(log) /\ s \in 1..Len(log) /\ Members(burst) = {}
        BY <1>1, <1>2, <2>0, <2>1, EmptyMembers
      <3> QED
        BY <1>2, <3>1 DEF IInv, ArrivalInv
    <2>2. CASE s > Len(log)
      <3>1. PICK i \in 1..Len(entries) : s = Len(log) + i
        <4>1. s - Len(log) \in 1..Len(entries) /\ s = Len(log) + (s - Len(log))
          BY <1>1, <1>2, <2>0, <2>2
        <4> QED
          BY <4>1
      <3> QED
        BY <1>1, <1>2, <3>1 DEF Members, Announces
    <2> QED
      BY <1>1, <1>2, <2>0, <2>1, <2>2
  <1>10. BackfillInv'
    BY <1>1, <1>2 DEF IInv, BackfillInv, CaughtUp, Seen, onWire
  <1> QED
    BY <1>4, <1>5, <1>6, <1>7, <1>8, <1>9, <1>10 DEF IInv

LEMMA ProducerStep ==
  ASSUME IInv, Producer
  PROVE  IInv'
  <1>0. /\ UNCHANGED <<phase, openVars, cursorVars, buffer, waiting, closed, held, read>>
        /\ Len(log) \in Nat /\ step \in Nat /\ streaming \in 0..Quiet /\ step \in 0..MaxSteps
        /\ 0 \in 0..Quiet /\ Quiet \in 0..Quiet
    BY BoundsAssumption, LenProperties DEF Producer, IInv, StreamTypeOK, Quiet
  <1>1. ASSUME NEW kind \in {"plain", "deleted"}, Emits(kind)
        PROVE  IInv'
    <2> DEFINE entries == <<Entry(kind, 0)>>
               events == <<Event(Len(log) + 1, kind, 0)>>
    <2>1. entries \in Seq(EntryType) /\ events \in Seq(EventType)
      BY <1>0 DEF Entry, Event, EntryType, EventType, Kinds
    <2>2. /\ Len(entries) = 1 /\ entries[1].kind = kind
          /\ Len(events) = 1 /\ events[1].seq = Len(log) + 1 /\ events[1].kind = kind
      BY DEF Entry, Event
    <2>3. Produces(entries, events) /\ step' = step /\ streaming' = streaming
      BY <1>1 DEF Emits
    <2> HIDE DEF entries, events
    <2>4. Announces(entries, events)
      BY <1>0, <2>2 DEF Announces
    <2> QED
      BY <1>0, <2>1, <2>3, <2>4, ProducesLemma
  <1>2. CASE Settles
    <2> DEFINE entries == <<Entry("silent", 0)>>
    <2>1. entries \in Seq(EntryType) /\ <<>> \in Seq(EventType) /\ Len(<<>>) = 0
      BY EmptySeq DEF Entry, EntryType, Kinds
    <2>2. Len(entries) = 1 /\ entries[1].kind = "silent"
      BY DEF Entry
    <2>3. Produces(entries, <<>>) /\ step' = step /\ streaming' = streaming
      BY <1>2 DEF Settles
    <2> HIDE DEF entries
    <2>4. Announces(entries, <<>>)
      BY <1>0, <2>1, <2>2 DEF Announces
    <2> QED
      BY <1>0, <2>1, <2>3, <2>4, ProducesLemma
  <1>3. CASE RequestStarts
    <2>1. <<>> \in Seq(EntryType) /\ <<>> \in Seq(EventType) /\ Len(<<>>) = 0
      BY EmptySeq
    <2>2. Produces(<<>>, <<>>) /\ step' \in 0..MaxSteps /\ streaming' \in 0..Quiet
      BY <1>0, <1>3, BoundsAssumption DEF RequestStarts
    <2>3. Announces(<<>>, <<>>)
      BY <2>1 DEF Announces
    <2> QED
      BY <1>0, <2>1, <2>2, <2>3, ProducesLemma
  <1>4. CASE TextDelta
    <2> DEFINE first == Event(0, "stream_start", step)
               text == Event(0, "chunk", step)
               events == (IF streaming = 0 THEN <<first>> ELSE <<>>) \o <<text>>
    <2>1. first \in EventType /\ text \in EventType /\ first.seq = 0 /\ text.seq = 0
          /\ first.kind \in Carriers /\ text.kind \in Carriers
      BY <1>0 DEF Event, EventType, Carriers
    <2>2. Produces(<<>>, events) /\ step' = step /\ streaming' \in 0..Quiet
      BY <1>0, <1>4, BoundsAssumption DEF TextDelta, Quiet
    <2>3. events \in Seq(EventType) /\ \A k \in 1..Len(events) : events[k] \in {first, text}
      <3> HIDE DEF first, text
      <3>1. CASE streaming = 0
        <4>1. <<first>> \in Seq(EventType) /\ <<text>> \in Seq(EventType)
              /\ Len(<<first>>) = 1 /\ Len(<<text>>) = 1
              /\ <<first>>[1] = first /\ <<text>>[1] = text
          BY <2>1
        <4>2. events = <<first>> \o <<text>>
          BY <3>1
        <4> QED
          BY <4>1, <4>2, ConcatProperties
      <3>2. CASE streaming # 0
        <4>1. <<text>> \in Seq(EventType) /\ Len(<<text>>) = 1 /\ <<text>>[1] = text
          BY <2>1
        <4>2. events = <<text>>
          BY <3>2, <4>1, ConcatEmptySeq
        <4> HIDE DEF events
        <4> QED
          BY <4>1, <4>2
      <3> QED
        BY <3>1, <3>2
    <2>4. <<>> \in Seq(EntryType) /\ Len(<<>>) = 0
      BY EmptySeq
    <2>5. \A k \in 1..Len(events) : events[k].seq = 0 /\ events[k].kind \in Carriers
      BY <2>1, <2>3
    <2> HIDE DEF events
    <2>6. Announces(<<>>, events)
      BY <2>4, <2>5 DEF Announces
    <2> QED
      BY <1>0, <2>2, <2>3, <2>4, <2>6, ProducesLemma
  <1>5. ASSUME NEW thinks \in BOOLEAN, NEW speaks \in BOOLEAN, StepFinishes(thinks, speaks)
        PROVE  IInv'
    <2> DEFINE n == Len(log)
               a == Entry("thinking", step)
               b == Entry("message", step)
               x == Event(n + 1, "thinking", step)
               y == Event(0, "thinking_start", step)
               z == Event(IF thinks THEN n + 2 ELSE n + 1, "message", step)
               entries == (IF thinks THEN <<a>> ELSE <<>>) \o (IF speaks THEN <<b>> ELSE <<>>)
               events == (IF thinks THEN <<x, y>> ELSE <<>>) \o (IF speaks THEN <<z>> ELSE <<>>)
    <2>1. /\ a \in EntryType /\ b \in EntryType /\ x \in EventType /\ y \in EventType
          /\ z \in EventType
      BY <1>0 DEF Entry, Event, EntryType, EventType, Kinds, Carriers
    <2>2. /\ a.kind = "thinking" /\ b.kind = "message" /\ x.kind = "thinking"
          /\ y.kind \in Carriers /\ z.kind = "message"
          /\ x.seq = n + 1 /\ y.seq = 0 /\ z.seq = IF thinks THEN n + 2 ELSE n + 1
      BY DEF Entry, Event, Carriers
    <2>3. /\ Produces(entries, events) /\ step' \in 0..MaxSteps /\ streaming' \in 0..Quiet
      BY <1>0, <1>5, Zenon DEF StepFinishes
    <2> HIDE DEF a, b, x, y, z
    <2>4. /\ <<>> \in Seq(EntryType) /\ <<a>> \in Seq(EntryType) /\ <<b>> \in Seq(EntryType)
          /\ <<>> \in Seq(EventType) /\ <<x, y>> \in Seq(EventType) /\ <<z>> \in Seq(EventType)
      BY <2>1, EmptySeq
    <2>5. CASE thinks /\ speaks
      <3>1. entries = <<a>> \o <<b>> /\ events = <<x, y>> \o <<z>>
        BY <2>5
      <3>2. /\ entries \in Seq(EntryType) /\ Len(entries) = 2
            /\ entries[1] = a /\ entries[2] = b
        BY <2>4, <3>1, ConcatProperties
      <3>3. /\ events \in Seq(EventType) /\ Len(events) = 3
            /\ events[1] = x /\ events[2] = y /\ events[3] = z
        BY <2>4, <3>1, ConcatProperties
      <3>4. /\ x.seq = n + 1 /\ x.kind = entries[1].kind
            /\ z.seq = n + 2 /\ z.kind = entries[2].kind
        BY <2>2, <2>5, <3>2
      <3>5. \A k \in 1..Len(events) : k = 1 \/ k = 2 \/ k = 3
        BY <3>3
      <3>6. \A i \in 1..Len(entries) : i = 1 \/ i = 2
        BY <3>2
      <3> HIDE DEF entries, events
      <3>7. Announces(entries, events)
        BY <1>0, <2>2, <3>2, <3>3, <3>4, <3>5, <3>6 DEF Announces
      <3> QED
        BY <1>0, <2>3, <3>2, <3>3, <3>7, ProducesLemma
    <2>6. CASE thinks /\ ~speaks
      <3>1. entries = <<a>> /\ events = <<x, y>>
        BY <2>4, <2>6, ConcatEmptySeq
      <3>2. /\ entries \in Seq(EntryType) /\ Len(entries) = 1 /\ entries[1] = a
            /\ events \in Seq(EventType) /\ Len(events) = 2
            /\ events[1] = x /\ events[2] = y
        <4> HIDE DEF entries, events
        <4> QED
          BY <2>4, <3>1
      <3> HIDE DEF entries, events
      <3>3. Announces(entries, events)
        BY <1>0, <2>2, <3>2 DEF Announces
      <3> QED
        BY <1>0, <2>3, <3>2, <3>3, ProducesLemma
    <2>7. CASE ~thinks /\ speaks
      <3>1. entries = <<b>> /\ events = <<z>>
        BY <2>4, <2>7, ConcatEmptySeq
      <3>2. /\ entries \in Seq(EntryType) /\ Len(entries) = 1 /\ entries[1] = b
            /\ events \in Seq(EventType) /\ Len(events) = 1 /\ events[1] = z
        <4> HIDE DEF entries, events
        <4> QED
          BY <2>4, <3>1
      <3> HIDE DEF entries, events
      <3>3. Announces(entries, events)
        BY <1>0, <2>2, <2>7, <3>2 DEF Announces
      <3> QED
        BY <1>0, <2>3, <3>2, <3>3, ProducesLemma
    <2>8. CASE ~thinks /\ ~speaks
      <3>1. entries = <<>> /\ events = <<>>
        BY <2>4, <2>8, ConcatEmptySeq
      <3>2. /\ entries \in Seq(EntryType) /\ Len(entries) = 0
            /\ events \in Seq(EventType) /\ Len(events) = 0
        BY <2>4, <3>1, EmptySeq
      <3> HIDE DEF entries, events
      <3>3. Announces(entries, events)
        BY <3>2 DEF Announces
      <3> QED
        BY <1>0, <2>3, <3>2, <3>3, ProducesLemma
    <2> QED
      BY <2>5, <2>6, <2>7, <2>8
  <1> QED
    BY <1>1, <1>2, <1>3, <1>4, <1>5 DEF Producer

-------------------------------------------------------------------------------
(* The handler. *)

LEMMA TypeFacts ==
  ASSUME IInv
  PROVE  /\ WriterTypes /\ WritersInv /\ WireInv /\ log \in Seq([kind : Kinds, step : Nat])
         /\ burst \in Seq(EventType) /\ buffer \in Seq(EventType) /\ Len(log) \in Nat
         /\ from \in Nat /\ upto \in Nat /\ cursor \in Nat
         /\ cursor <= Len(log) /\ upto <= Len(log) /\ from <= Len(log)
  BY LenProperties DEF IInv, StreamTypeOK, WriterTypes, EventsInv

\* The events on the wire are on the log, so the client has only events of the log.
LEMMA SeenIsLogged ==
  ASSUME IInv
  PROVE  onWire \subseteq 1..cursor /\ Seen \subseteq 1..Len(log)
  <1>1. \A k \in 1..Len(wire) : wire[k].seq \in Nat /\ wire[k].seq <= cursor
    <2>1. \A k \in 1..Len(wire) : wire[k] \in FrameType
      BY ElementOfSeq DEF IInv, StreamTypeOK
    <2> QED
      BY <2>1 DEF FrameType, IInv, WireInv
  <1>2. onWire \subseteq 1..cursor
    BY <1>1, TypeFacts DEF onWire
  <1> QED
    BY <1>2, TypeFacts DEF Seen, IInv, BackfillInv

LEMMA BroadcastStep ==
  ASSUME IInv, Broadcast
  PROVE  IInv'
  <1> DEFINE e == Head(burst)
  <1>1. /\ e \in EventType /\ e \in Members(burst) /\ e = burst[1]
        /\ burst' = Tail(burst) /\ burst' \in Seq(EventType) /\ Len(burst') = Len(burst) - 1
        /\ \A k \in 1..Len(burst) - 1 : burst'[k] = burst[k + 1]
        /\ Members(burst) = {e} \cup Members(burst') /\ Len(burst) \in Nat /\ burst # <<>>
    BY TypeFacts, TailMembers, LenProperties DEF Broadcast
  <1>2. /\ EventOK(e) /\ e.seq \in Nat /\ ~closed
    BY <1>1 DEF IInv, EventsInv, BurstInv, EventType
  <1>3. /\ Hear(e) /\ UNCHANGED <<log, step, streaming, phase, enabled, from, upto, closed, read>>
    BY DEF Broadcast, sessionVars, openVars
  <1> HIDE DEF e
  <1>4. \A f \in Members(burst') : f.seq # 0 => e.seq < f.seq
    <2> SUFFICES ASSUME NEW k \in 1..Len(burst'), burst'[k].seq # 0
                 PROVE  e.seq < burst'[k].seq
      BY DEF Members
    <2>1. /\ k + 1 \in 1..Len(burst) /\ 1 \in 1..Len(burst) /\ 1 < k + 1
          /\ burst'[k] = burst[k + 1]
      BY <1>1
    <2>2. CASE e.seq # 0
      BY <1>1, <2>1, <2>2 DEF IInv, BurstInv
    <2>3. CASE e.seq = 0
      <3>1. burst[k + 1] \in EventType
        BY <2>1, ElementOfSeq, TypeFacts
      <3> QED
        BY <2>1, <2>3, <3>1 DEF EventType
    <2> QED
      BY <2>2, <2>3
  <1>5. \A j, k \in 1..Len(burst') :
          j < k /\ burst'[j].seq # 0 /\ burst'[k].seq # 0 => burst'[j].seq < burst'[k].seq
    <2> SUFFICES ASSUME NEW j \in 1..Len(burst'), NEW k \in 1..Len(burst'), j < k,
                        burst'[j].seq # 0, burst'[k].seq # 0
                 PROVE  burst'[j].seq < burst'[k].seq
      OBVIOUS
    <2>1. /\ j + 1 \in 1..Len(burst) /\ k + 1 \in 1..Len(burst) /\ j + 1 < k + 1
          /\ burst'[j] = burst[j + 1] /\ burst'[k] = burst[k + 1]
      BY <1>1
    <2> QED
      BY <2>1 DEF IInv, BurstInv
  <1>6. CASE phase = "backfill"
    <2>1. /\ buffer' = Append(buffer, e)
          /\ held' = IF e.seq = 0 THEN held ELSE held \cup {e.seq}
          /\ UNCHANGED <<cursor, started, wire, waiting>>
      BY <1>2, <1>3, <1>6 DEF Hear, cursorVars
    <2>2. buffer' \in Seq(EventType) /\ Members(buffer') = Members(buffer) \cup {e}
      BY <1>1, <2>1, TypeFacts, AppendMembers
    <2>3. StreamTypeOK'
      BY <1>1, <1>2, <1>3, <1>6, <2>1, <2>2 DEF IInv, StreamTypeOK
    <2>4. EventsInv'
      BY <1>1, <1>2, <1>3, <2>1, <2>2 DEF IInv, EventsInv, EventOK
    <2>5. BurstInv'
      BY <1>1, <1>2, <1>3, <1>5, <2>1 DEF IInv, BurstInv
    <2>6. WritersInv' /\ WireInv' /\ OverInv'
      BY <1>3, <1>6, <2>1 DEF IInv, WritersInv, WireInv, OverInv, InOrderOnce, DeltaNeedsStart,
                              Opened, Members, Deleted
    <2>7. ArrivalInv'
      <3>1. \A s \in from + 1..Len(log) : s # 0
        BY TypeFacts
      <3>2. onWire' = onWire
        BY <2>1 DEF onWire
      <3> QED
        BY <1>1, <1>3, <2>1, <3>1, <3>2 DEF IInv, ArrivalInv
    <2>8. BackfillInv'
      BY <1>3, <2>1 DEF IInv, BackfillInv, CaughtUp, Seen, onWire
    <2> QED
      BY <2>3, <2>4, <2>5, <2>6, <2>7, <2>8 DEF IInv
  <1>7. CASE phase = "none"
    <2>1. UNCHANGED <<cursor, started, wire, waiting, buffer, held>>
      BY <1>3, <1>7 DEF Hear, cursorVars
    <2>2. StreamTypeOK'
      BY <1>1, <1>3, <2>1 DEF IInv, StreamTypeOK
    <2>3. EventsInv'
      BY <1>1, <1>3, <2>1 DEF IInv, EventsInv, EventOK, Members
    <2>4. BurstInv'
      BY <1>1, <1>2, <1>3, <1>5, <2>1 DEF IInv, BurstInv
    <2>5. WritersInv' /\ WireInv' /\ OverInv'
      BY <1>3, <1>7, <2>1 DEF IInv, WritersInv, WireInv, OverInv, InOrderOnce, DeltaNeedsStart,
                              Opened, Members, Deleted
    <2>6. ArrivalInv' /\ BackfillInv'
      BY <1>3, <1>7, <2>1 DEF IInv, ArrivalInv, BackfillInv, CaughtUp, Seen, onWire
    <2> QED
      BY <2>2, <2>3, <2>4, <2>5, <2>6 DEF IInv
  <1>8. CASE phase \in {"flush", "live"}
    <2>1. UNCHANGED <<buffer, held>> /\ writeEvent(e, FALSE)
      BY <1>2, <1>3, <1>8 DEF Hear
    <2>2. /\ WriterTypes' /\ WritersInv' /\ WireInv'
          /\ cursor <= cursor' /\ cursor' \in {cursor, e.seq}
          /\ onWire' = IF e.seq > cursor THEN onWire \cup {e.seq} ELSE onWire
      BY <1>1, <1>2, <1>3, <2>1, TypeFacts, WriteLemma
    <2>3. StreamTypeOK'
      BY <1>1, <1>3, <2>1, <2>2 DEF IInv, StreamTypeOK, WriterTypes
    <2>4. EventsInv'
      <3>1. cursor' <= Len(log)
        BY <1>2, <2>2, TypeFacts DEF EventOK
      <3> QED
        BY <1>1, <1>3, <2>1, <3>1 DEF IInv, EventsInv, EventOK, Members
    <2>5. BurstInv'
      <3>1. \A f \in Members(burst') : f.seq # 0 => cursor' < f.seq
        BY <1>1, <1>4, <2>2 DEF IInv, BurstInv
      <3> QED
        BY <1>2, <1>3, <1>5, <3>1 DEF BurstInv
    <2>6. OverInv'
      BY <1>3, <1>8 DEF OverInv
    <2>7. ArrivalInv'
      <3>1. e.seq # 0 => e.seq \in onWire'
        BY <1>1, <1>2, <2>2, TypeFacts DEF IInv, BurstInv
      <3>2. onWire \subseteq onWire'
        BY <2>2
      <3>3. \A s \in from + 1..Len(log) : s # 0
        BY TypeFacts
      <3> QED
        BY <1>1, <1>3, <2>1, <3>1, <3>2, <3>3 DEF IInv, ArrivalInv
    <2>8. BackfillInv'
      BY <1>3, <1>8, <2>2 DEF IInv, BackfillInv, CaughtUp, Seen
    <2> QED
      BY <2>2, <2>3, <2>4, <2>5, <2>6, <2>7, <2>8 DEF IInv
  <1> QED
    BY <1>6, <1>7, <1>8 DEF IInv, StreamTypeOK

\* The handler is suspended in a write of its own or nothing is being broadcast.
LEMMA Quiescent ==
  ASSUME IInv, burst = <<>>, burst' = burst, log' = log,
         cursor' \in Nat, cursor' <= Len(log),
         Members(buffer') \subseteq Members(buffer), UNCHANGED <<from, upto>>,
         closed' => closed \/ Deleted
  PROVE  EventsInv' /\ BurstInv'
  <1>1. Members(burst') = {} /\ Len(burst') = 0
    BY EmptyMembers
  <1>2. \A e \in Members(buffer') : EventOK(e)'
    BY DEF IInv, EventsInv, EventOK
  <1>3. EventsInv'
    BY <1>1, <1>2 DEF IInv, EventsInv
  <1>4. closed' => Deleted'
    BY DEF IInv, BurstInv, Deleted
  <1> QED
    BY <1>1, <1>3, <1>4 DEF BurstInv

LEMMA BackfillsStep ==
  ASSUME IInv, Backfills
  PROVE  IInv'
  <1> DEFINE e == Event(cursor + 1, log[cursor + 1].kind, log[cursor + 1].step)
  <1>1. /\ burst = <<>> /\ phase = "backfill" /\ cursor < upto /\ writeEvent(e, TRUE)
        /\ UNCHANGED <<log, step, streaming, burst, phase, enabled, from, upto, buffer, closed,
                       held, read>>
    BY DEF Backfills, Running, sessionVars, openVars
  <1>2. cursor + 1 \in 1..Len(log) /\ log[cursor + 1] \in [kind : Kinds, step : Nat]
    <2>1. cursor + 1 \in 1..Len(log)
      BY <1>1, TypeFacts
    <2> QED
      BY <2>1, TypeFacts, ElementOfSeq
  <1>3. e \in EventType /\ EventOK(e) /\ e.seq = cursor + 1
    BY <1>2, TypeFacts DEF Event, EventType, EventOK
  <1> HIDE DEF e
  <1>4. /\ WriterTypes' /\ WritersInv' /\ WireInv'
        /\ cursor' = cursor + 1 /\ onWire' = onWire \cup {cursor + 1}
    <2>1. /\ WriterTypes' /\ WritersInv' /\ WireInv' /\ e.seq <= cursor'
          /\ cursor' \in {cursor, e.seq}
          /\ onWire' = IF e.seq > cursor THEN onWire \cup {e.seq} ELSE onWire
      BY <1>1, <1>3, TypeFacts, WriteLemma
    <2> QED
      BY <1>3, <2>1, TypeFacts
  <1>5. StreamTypeOK'
    BY <1>1, <1>4 DEF IInv, StreamTypeOK, WriterTypes
  <1>6. EventsInv' /\ BurstInv'
    BY <1>1, <1>2, <1>4, TypeFacts, Quiescent DEF Members
  <1>7. OverInv' /\ ArrivalInv'
    BY <1>1, <1>4 DEF IInv, OverInv, ArrivalInv
  <1>8. BackfillInv'
    <2>1. 1..cursor' \subseteq 1..cursor \cup {cursor'}
      BY <1>4, TypeFacts
    <2>2. from + 1..cursor' \subseteq from + 1..cursor \cup {cursor'}
      BY <1>4, TypeFacts
    <2> QED
      BY <1>1, <1>4, <2>1, <2>2, TypeFacts DEF IInv, BackfillInv, CaughtUp, Seen
  <1> QED
    BY <1>4, <1>5, <1>6, <1>7, <1>8 DEF IInv

LEMMA FlushesStep ==
  ASSUME IInv, Flushes
  PROVE  IInv'
  <1>1. /\ burst = <<>>
        /\ phase = "flush" \/ (phase = "backfill" /\ cursor >= upto)
        /\ UNCHANGED <<log, step, streaming, burst, enabled, from, upto, closed, held, read>>
    BY DEF Flushes, Running, sessionVars, openVars
  <1>2. \A s \in from + 1..Len(log) : s \in onWire \cup held \/ log[s].kind = "silent"
    <2> SUFFICES ASSUME NEW s \in from + 1..Len(log), s \notin onWire \cup held,
                        log[s].kind # "silent"
                 PROVE  FALSE
      OBVIOUS
    <2>1. phase = "backfill" /\ s <= upto
      <3>1. Members(burst) = {} /\ phase # "none"
        BY <1>1, EmptyMembers
      <3> QED
        BY <3>1 DEF IInv, ArrivalInv
    <2>2. s \in from + 1..cursor
      BY <1>1, <2>1, TypeFacts
    <2> QED
      BY <2>1, <2>2 DEF IInv, BackfillInv
  <1>3. 1..upto \subseteq Seen
    <2>1. CASE phase = "backfill"
      <3>1. 1..upto \subseteq 1..cursor
        BY <1>1, <2>1, TypeFacts
      <3> QED
        BY <2>1, <3>1 DEF IInv, BackfillInv
    <2> QED
      BY <1>1, <2>1 DEF IInv, BackfillInv, CaughtUp
  <1>4. CASE closed \/ buffer = <<>>
    <2>1. phase' = "live" /\ buffer' = <<>> /\ UNCHANGED <<cursor, started, wire, waiting>>
      BY <1>4 DEF Flushes, cursorVars
    <2>2. StreamTypeOK'
      BY <1>1, <2>1, EmptySeq DEF IInv, StreamTypeOK
    <2>3. EventsInv' /\ BurstInv'
      <3>1. Members(buffer') \subseteq Members(buffer)
        BY <2>1, EmptyMembers
      <3>2. UNCHANGED <<from, upto, log, burst, closed, cursor>>
        BY <1>1, <2>1
      <3> QED
        BY <1>1, <3>1, <3>2, TypeFacts, Quiescent
    <2>4. WritersInv' /\ WireInv' /\ OverInv'
      BY <1>1, <2>1 DEF IInv, WritersInv, WireInv, OverInv, InOrderOnce, DeltaNeedsStart,
                        Opened, Members, Deleted
    <2>5. ArrivalInv' /\ BackfillInv'
      BY <1>1, <1>2, <1>3, <2>1 DEF IInv, ArrivalInv, BackfillInv, CaughtUp, Seen, onWire
    <2> QED
      BY <2>2, <2>3, <2>4, <2>5 DEF IInv
  <1>5. CASE ~(closed \/ buffer = <<>>)
    <2> DEFINE e == Head(buffer)
    <2>1. phase' = "flush" /\ buffer' = Tail(buffer) /\ writeEvent(e, TRUE)
      BY <1>5 DEF Flushes
    <2>2. /\ e \in EventType /\ e \in Members(buffer) /\ buffer' \in Seq(EventType)
          /\ Members(buffer') \subseteq Members(buffer)
      BY <1>5, <2>1, TypeFacts, TailMembers
    <2>3. EventOK(e) /\ e.seq \in Nat
      BY <2>2 DEF IInv, EventsInv, EventType
    <2> HIDE DEF e
    <2>4. /\ WriterTypes' /\ WritersInv' /\ WireInv' /\ cursor' \in {cursor, e.seq}
          /\ onWire' = IF e.seq > cursor THEN onWire \cup {e.seq} ELSE onWire
      BY <1>1, <2>1, <2>2, <2>3, TypeFacts, WriteLemma
    <2>5. StreamTypeOK'
      BY <1>1, <2>1, <2>2, <2>4 DEF IInv, StreamTypeOK, WriterTypes
    <2>6. cursor' \in Nat /\ cursor' <= Len(log)
      BY <2>3, <2>4, TypeFacts DEF EventOK
    <2>7. EventsInv' /\ BurstInv'
      <3>1. UNCHANGED <<from, upto, log, burst, closed>>
        BY <1>1
      <3> QED
        BY <1>1, <2>2, <2>6, <3>1, Quiescent
    <2>8. onWire \subseteq onWire'
      BY <2>4
    <2>9. OverInv' /\ ArrivalInv'
      BY <1>1, <1>2, <2>1, <2>8 DEF OverInv, ArrivalInv
    <2>10. BackfillInv'
      BY <1>1, <1>3, <2>1, <2>8 DEF IInv, BackfillInv, CaughtUp, Seen
    <2> QED
      BY <2>4, <2>5, <2>7, <2>9, <2>10 DEF IInv
  <1> QED
    BY <1>4, <1>5

LEMMA WriteSettlesStep ==
  ASSUME IInv, WriteSettles
  PROVE  IInv'
  <1> DEFINE w == Head(waiting)
  <1>1. /\ burst = <<>> /\ waiting # <<>>
        /\ UNCHANGED <<log, step, streaming, burst, phase, enabled, from, upto, cursor, started,
                       buffer, held, read>>
    BY DEF WriteSettles, sessionVars, openVars
  <1>2. /\ w \in WriterType /\ w \in Members(waiting) /\ Tail(waiting) \in Seq(WriterType)
        /\ Members(Tail(waiting)) \subseteq Members(waiting)
    BY <1>1, TypeFacts, TailMembers DEF WriterTypes
  <1>3. /\ w.closes => Deleted
        /\ \A f \in Members(w.rest) : f.seq = 0 /\ f.name = "event_delta" /\ Opened(f.of)
        /\ w.rest \in Seq(FrameType) /\ w.main \in BOOLEAN /\ w.closes \in BOOLEAN
    BY <1>2 DEF IInv, WritersInv, WriterType
  <1>4. phase # "none"
    BY <1>1 DEF IInv, OverInv
  <1>5. CASE w.rest = <<>>
    <2>1. waiting' = Tail(waiting) /\ closed' = (closed \/ w.closes) /\ UNCHANGED wire
      BY <1>5 DEF WriteSettles
    <2> HIDE DEF w
    <2>2. StreamTypeOK'
      BY <1>1, <1>2, <1>3, <2>1 DEF IInv, StreamTypeOK
    <2>3. EventsInv' /\ BurstInv'
      BY <1>1, <1>3, <2>1, TypeFacts, Quiescent DEF Members
    <2>4. WritersInv'
      BY <1>1, <1>2, <2>1, TypeFacts, WritersKept DEF Opened
    <2>5. WireInv' /\ OverInv'
      BY <1>1, <1>4, <2>1 DEF IInv, WireInv, OverInv, InOrderOnce, DeltaNeedsStart
    <2>6. ArrivalInv' /\ BackfillInv'
      BY <1>1, <2>1 DEF IInv, ArrivalInv, BackfillInv, CaughtUp, Seen, onWire
    <2> QED
      BY <2>2, <2>3, <2>4, <2>5, <2>6 DEF IInv
  <1>6. CASE w.rest # <<>>
    <2> DEFINE f == Head(w.rest)
               v == [w EXCEPT !.rest = Tail(@)]
    <2>1. /\ wire' = Append(wire, f) /\ closed' = closed
          /\ waiting' = Tail(waiting) \o
                (IF w.main \/ Len(w.rest) > 1 THEN <<v>> ELSE <<>>)
      BY <1>6 DEF WriteSettles
    <2>2. /\ f \in FrameType /\ f \in Members(w.rest) /\ Tail(w.rest) \in Seq(FrameType)
          /\ Members(Tail(w.rest)) \subseteq Members(w.rest)
      BY <1>3, <1>6, TailMembers
    <2>3. f.seq = 0 /\ Opened(f.of)
      BY <1>3, <2>2
    <2>4. v \in WriterType /\ v.closes = w.closes /\ v.rest = Tail(w.rest)
      BY <1>2, <1>3, <2>2 DEF WriterType
    <2> HIDE DEF f, v, w
    <2>5. /\ wire' \in Seq(FrameType) /\ WireInv' /\ onWire' = onWire \cup ({f.seq} \ {0})
          /\ \A p : Opened(p) => Opened(p)'
      BY <1>1, <2>1, <2>2, <2>3, TypeFacts, FrameKeepsOrder DEF WriterTypes
    <2>6. onWire' = onWire
      BY <2>3, <2>5
    <2>7. waiting' \in Seq(WriterType) /\ Members(waiting') \subseteq Members(waiting) \cup {v}
      <3>1. CASE waiting' = Tail(waiting) \o <<v>>
        <4>1. waiting' = Append(Tail(waiting), v)
          BY <1>2, <2>4, <3>1, AppendIsConcat
        <4>2. waiting' \in Seq(WriterType) /\ Members(waiting') = Members(Tail(waiting)) \cup {v}
          <5>1. \A t \in Seq(WriterType) :
                  /\ Append(t, v) \in Seq(WriterType)
                  /\ Members(Append(t, v)) = Members(t) \cup {v}
            BY <2>4, AppendMembers
          <5> QED
            BY <1>2, <4>1, <5>1
        <4> QED
          BY <1>2, <4>2
      <3>2. CASE waiting' = Tail(waiting) \o <<>>
        BY <1>2, <3>2, ConcatEmptySeq
      <3> QED
        BY <2>1, <3>1, <3>2
    <2>8. WritersInv'
      <3>1. /\ v.closes => Deleted
            /\ \A g \in Members(v.rest) : g.seq = 0 /\ g.name = "event_delta" /\ Opened(g.of)'
        BY <1>3, <2>2, <2>4, <2>5
      <3>2. \A x \in Members(waiting') : x \in Members(waiting) \/ x = v
        BY <2>7
      <3> QED
        BY <1>1, <2>5, <3>1, <3>2, TypeFacts, WritersKept
    <2>9. StreamTypeOK'
      BY <1>1, <2>1, <2>5, <2>7 DEF IInv, StreamTypeOK
    <2>10. EventsInv' /\ BurstInv'
      BY <1>1, <2>1, TypeFacts, Quiescent DEF Members
    <2>11. OverInv' /\ ArrivalInv' /\ BackfillInv'
      BY <1>1, <1>4, <2>6 DEF IInv, OverInv, ArrivalInv, BackfillInv, CaughtUp, Seen
    <2> QED
      BY <2>5, <2>8, <2>9, <2>10, <2>11 DEF IInv
  <1> QED
    BY <1>5, <1>6

-------------------------------------------------------------------------------
(* The client. *)

LEMMA HangsUpStep ==
  ASSUME IInv, HangsUp, burst = <<>>
  PROVE  IInv'
  <1>1. /\ UNCHANGED <<log, step, streaming, burst>> /\ phase' = "none" /\ read' = Seen
        /\ enabled' = {} /\ from' = 0 /\ upto' = 0 /\ cursor' = 0 /\ started' = {}
        /\ wire' = <<>> /\ buffer' = <<>> /\ waiting' = <<>> /\ closed' = FALSE /\ held' = {}
    BY DEF HangsUp, sessionVars
  <1>2. Seen \subseteq 1..Len(log)
    BY SeenIsLogged
  <1>3. StreamTypeOK'
    <2>1. Seen \subseteq Nat
      BY <1>2, TypeFacts
    <2> QED
      BY <1>1, <2>1, EmptySeq, TypeFacts DEF IInv, StreamTypeOK
  <1>4. EventsInv' /\ BurstInv'
    BY <1>1, EmptyMembers, TypeFacts DEF EventsInv, BurstInv
  <1>5. WritersInv'
    BY <1>1, EmptyMembers DEF WritersInv
  <1>6. WireInv' /\ OverInv'
    BY <1>1, EmptyMembers DEF WireInv, OverInv, InOrderOnce, DeltaNeedsStart
  <1>7. ArrivalInv' /\ BackfillInv'
    BY <1>1, <1>2 DEF ArrivalInv, BackfillInv, CaughtUp
  <1> QED
    BY <1>3, <1>4, <1>5, <1>6, <1>7 DEF IInv

\* A connection is opened either where the client has no gap, or at the end of the log.
LEMMA OpensStep ==
  ASSUME IInv, NEW previews \in OptIns, NEW c \in 0..Len(log), NEW from0 \in 0..Len(log),
         NEW upto0 \in 0..Len(log), Opens(previews, c, from0, upto0),
         1..c \subseteq Seen, c <= from0 /\ (from0 = Len(log) \/ upto0 = Len(log)),
         c < upto0 => c = from0, 1..upto0 \subseteq Seen \/ c < upto0
  PROVE  IInv'
  <1>1. /\ UNCHANGED <<log, step, streaming, burst, started, wire, buffer, waiting, closed, held,
                       read>>
        /\ burst = <<>> /\ phase = "none" /\ ~Deleted
        /\ enabled' = previews /\ cursor' = c /\ from' = from0 /\ upto' = upto0
        /\ phase' = IF c < upto0 THEN "backfill" ELSE "live"
    BY DEF Opens, sessionVars
  <1>2. wire = <<>> /\ waiting = <<>> /\ closed = FALSE /\ started = {} /\ buffer = <<>>
    BY <1>1 DEF IInv, OverInv, StreamTypeOK
  <1>3. Seen' = Seen /\ onWire' = onWire
    BY <1>1 DEF Seen, onWire
  <1>4. StreamTypeOK'
    BY <1>1, <1>2, BoundsAssumption, TypeFacts DEF IInv, StreamTypeOK
  <1>5. EventsInv' /\ BurstInv'
    BY <1>1, <1>2, EmptyMembers, TypeFacts DEF EventsInv, BurstInv
  <1>6. WritersInv' /\ WireInv' /\ OverInv'
    <2>1. WritersInv'
      BY <1>1, <1>2, EmptyMembers DEF WritersInv
    <2>2. WireInv'
      BY <1>1, <1>2, EmptyMembers DEF WireInv, InOrderOnce, DeltaNeedsStart
    <2> QED
      BY <1>1, <2>1, <2>2 DEF OverInv
  <1>7. ArrivalInv'
    BY <1>1, TypeFacts DEF ArrivalInv
  <1>8. BackfillInv'
    BY <1>1, <1>3, TypeFacts DEF IInv, BackfillInv, CaughtUp
  <1> QED
    BY <1>4, <1>5, <1>6, <1>7, <1>8 DEF IInv

LEMMA ClientStep ==
  ASSUME IInv, Client
  PROVE  IInv'
  <1>1. CASE Disconnects
    BY <1>1, HangsUpStep DEF Disconnects
  <1>2. CASE ReadsHistory
    <2>1. /\ read' = read \cup 1..Len(log)
          /\ UNCHANGED <<log, step, streaming, burst, phase, enabled, from, upto, cursor, started,
                         wire, buffer, waiting, closed, held>>
      BY <1>2 DEF ReadsHistory, sessionVars, openVars, cursorVars
    <2>2. StreamTypeOK'
      <3>1. 1..Len(log) \subseteq Nat
        BY TypeFacts
      <3> QED
        BY <2>1, <3>1 DEF IInv, StreamTypeOK
    <2>3. EventsInv' /\ BurstInv'
      BY <2>1 DEF IInv, EventsInv, BurstInv, EventOK, Members, Deleted
    <2>4. WritersInv' /\ WireInv' /\ OverInv'
      BY <2>1 DEF IInv, WritersInv, WireInv, OverInv, InOrderOnce, DeltaNeedsStart,
                  Opened, Members, Deleted
    <2>5. onWire' = onWire /\ Seen \subseteq Seen'
      BY <2>1 DEF onWire, Seen
    <2>6. ArrivalInv' /\ BackfillInv'
      <3>1. read' \subseteq 1..Len(log)
        BY <2>1 DEF IInv, BackfillInv
      <3>2. Members(burst') = Members(burst)
        BY <2>1 DEF Members
      <3> QED
        BY <2>1, <2>5, <3>1, <3>2 DEF IInv, ArrivalInv, BackfillInv, CaughtUp
    <2> QED
      BY <2>2, <2>3, <2>4, <2>6 DEF IInv
  <1>3. ASSUME NEW previews \in OptIns, Resumes(previews)
        PROVE  IInv'
    <2>1. PICK c \in 0..Len(log) : /\ 1..c \subseteq Seen
                                   /\ Opens(previews, c, c, Len(log))
      BY <1>3 DEF Resumes, contiguousSessionSequence
    <2>2. Len(log) \in 0..Len(log) /\ (c < Len(log) \/ c = Len(log))
      BY TypeFacts
    <2> QED
      BY <2>1, <2>2, TypeFacts, OpensStep
  <1>4. ASSUME NEW previews \in OptIns, OpensLive(previews)
        PROVE  IInv'
    <2>1. Opens(previews, 0, Len(log), 0)
      BY <1>4 DEF OpensLive
    <2>2. 0 \in 0..Len(log) /\ Len(log) \in 0..Len(log) /\ 1..0 = {}
      BY TypeFacts
    <2> QED
      BY <2>1, <2>2, TypeFacts, OpensStep
  <1> QED
    BY <1>1, <1>2, <1>3, <1>4 DEF Client

-------------------------------------------------------------------------------
(* The theorems. *)

LEMMA InitIInv == StreamInit => IInv
  <1> SUFFICES ASSUME StreamInit PROVE IInv
    OBVIOUS
  <1>1. StreamTypeOK
    <2>1. 0 \in 0..MaxSteps /\ Quiet \in 0..Quiet
      BY BoundsAssumption DEF Quiet
    <2>2. log = <<>> /\ Len(log) <= MaxLog /\ burst = <<>> /\ buffer = <<>> /\ waiting = <<>>
      BY BoundsAssumption, EmptySeq DEF StreamInit
    <2> QED
      BY <2>1, <2>2, EmptySeq DEF StreamInit, StreamTypeOK
  <1>2. EventsInv /\ BurstInv /\ WritersInv
    BY EmptyMembers DEF StreamInit, EventsInv, BurstInv, WritersInv
  <1>3. WireInv /\ OverInv
    BY EmptyMembers DEF StreamInit, WireInv, OverInv, InOrderOnce, DeltaNeedsStart
  <1>4. ArrivalInv /\ BackfillInv
    BY DEF StreamInit, ArrivalInv, BackfillInv, CaughtUp
  <1> QED
    BY <1>1, <1>2, <1>3, <1>4 DEF IInv

LEMMA NextIInv == IInv /\ [StreamNext]_streamVars => IInv'
  <1> SUFFICES ASSUME IInv, [StreamNext]_streamVars PROVE IInv'
    OBVIOUS
  <1>1. CASE Producer
    BY <1>1, ProducerStep
  <1>2. CASE Handler
    BY <1>2, BroadcastStep, BackfillsStep, FlushesStep, WriteSettlesStep, HangsUpStep
       DEF Handler, StreamEnds
  <1>3. CASE Client
    BY <1>3, ClientStep
  <1>4. CASE UNCHANGED streamVars
    <2>1. UNCHANGED <<log, step, streaming, burst, phase, enabled, from, upto, cursor, started, wire,
                     buffer, waiting, closed, held, read>>
      BY <1>4 DEF streamVars, sessionVars, openVars, cursorVars
    <2>2. StreamTypeOK' /\ EventsInv' /\ BurstInv'
      BY <2>1 DEF IInv, StreamTypeOK, EventsInv, BurstInv, EventOK, Members, Deleted
    <2>3. WritersInv' /\ WireInv' /\ OverInv'
      BY <2>1 DEF IInv, WritersInv, WireInv, OverInv, InOrderOnce, DeltaNeedsStart,
                  Opened, Members, Deleted
    <2>4. ArrivalInv' /\ BackfillInv'
      BY <2>1 DEF IInv, ArrivalInv, BackfillInv, CaughtUp, Seen, onWire, Members
    <2> QED
      BY <2>2, <2>3, <2>4 DEF IInv
  <1> QED
    BY <1>1, <1>2, <1>3, <1>4 DEF StreamNext

\* The inductive invariant holds in every reachable state: what is broadcast is newer
\* than what was written, every suspended writer extends an open preview, and what was
\* logged since a connection started is written, buffered or about to be.
THEOREM Invariance == StreamSpec => []IInv
  BY InitIInv, NextIInv, PTL DEF StreamSpec

\* Every variable of session, connection and client keeps its type (append, the handler
\* of stream.ts).
THEOREM TypeCorrect == StreamSpec => []StreamTypeOK
  <1>1. IInv => StreamTypeOK
    BY DEF IInv
  <1> QED
    BY <1>1, Invariance, PTL

\* Backfill, flush and live events, written next to each other by stream.ts, reach the
\* wire in the order of the log and once.
THEOREM OrderedOnce == StreamSpec => []InOrderOnce
  <1>1. IInv => InOrderOnce
    BY DEF IInv, WireInv
  <1> QED
    BY <1>1, Invariance, PTL

\* Nothing that is logged and broadcast while a connection is open is lost, except
\* among the events stream.ts had to buffer during the backfill.
THEOREM OnlyBufferLoses == StreamSpec => []EverythingElseArrives
  <1>1. IInv => EverythingElseArrives
    <2> SUFFICES ASSUME IInv, phase # "none", burst = <<>>, NEW s \in from + 1..Len(log)
                 PROVE  \/ s \in onWire \cup held \/ log[s].kind = "silent"
                        \/ phase = "backfill" /\ s <= upto
      BY DEF EverythingElseArrives
    <2>1. Members(burst) = {}
      BY EmptyMembers
    <2> QED
      BY <2>1 DEF IInv, ArrivalInv
  <1> QED
    BY <1>1, Invariance, PTL

\* A client that resumes at its highest position without a gap has everything logged
\* before it connected once the backfill of stream.ts is written.
THEOREM ResumesComplete == StreamSpec => []CaughtUp
  <1>1. IInv => CaughtUp
    BY DEF IInv, BackfillInv
  <1> QED
    BY <1>1, Invariance, PTL

\* framesFor opens a preview before any text of it, whichever writer is suspended.
THEOREM PreviewsOpened == StreamSpec => []DeltaNeedsStart
  <1>1. IInv => DeltaNeedsStart
    BY DEF IInv, WireInv
  <1> QED
    BY <1>1, Invariance, PTL
===============================================================================
