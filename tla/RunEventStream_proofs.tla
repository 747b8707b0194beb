------------------------ MODULE RunEventStream_proofs ------------------------
(***************************************************************************)
(* Theorems of RunEventStream for every value of its constants: the events *)
(* a client has received are the log's, each once and in order, and a      *)
(* stream that ends has told how the run ended or overflowed.              *)
(*                                                                         *)
(* Neither is inductive.  A frame travels from the queue to the            *)
(* ReadableStream to the client, so both invariants speak of the frames in *)
(* all three places, of their order, and of the cursor behind which they   *)
(* were produced.                                                          *)
(***************************************************************************)
EXTENDS RunEventStream, TLAPS

-------------------------------------------------------------------------------
(* Where the frames of a stream are.                                       *)

Elements(q) == {q[i] : i \in DOMAIN q}

\* The events of the log the stream c carries: received, held and queued.
FramesOf(c) == (Elements(c.got) \cup Elements(c.held) \cup Elements(c.queue)) \ {Heartbeat}

Seen(c) == IF c.got = <<>> THEN 0 ELSE c.got[Len(c.got)].seq

\* The last event that has left the queue.
Base(c) == IF c.held # <<>> /\ c.held[1] # Heartbeat THEN c.held[1].seq ELSE Seen(c)

\* A read waits only for an empty ReadableStream, which holds one frame at most;
\* timers and queued frames are an open stream's; from the client to the cursor the events ascend.
Ascending(c) ==
    /\ Len(c.held) <= 1
    /\ c.reading => c.held = <<>>
    /\ ~c.open => c.queue = <<>>
    /\ c.timers => c.open
    /\ \A i, j \in DOMAIN c.got : i < j => c.got[i].seq < c.got[j].seq
    /\ \A i \in DOMAIN c.got : c.got[i].seq > 0
    /\ Base(c) >= Seen(c)
    /\ Base(c) <= c.cursor
    /\ c.held # <<>> /\ c.held[1] # Heartbeat => c.held[1].seq > Seen(c)
    /\ \A i \in DOMAIN c.queue : c.queue[i] # Heartbeat =>
            Base(c) < c.queue[i].seq /\ c.queue[i].seq <= c.cursor
    /\ \A i, j \in DOMAIN c.queue : i < j /\ c.queue[i] # Heartbeat /\ c.queue[j] # Heartbeat =>
            c.queue[i].seq < c.queue[j].seq

\* Every event up to the cursor is on its way or has arrived.
Contiguous(c) ==
    /\ \A i \in DOMAIN c.got : c.got[i].seq = i
    /\ c.held # <<>> /\ c.held[1] # Heartbeat => c.held[1].seq = Len(c.got) + 1
    /\ c.open => \A n \in 1..c.cursor : \E f \in FramesOf(c) : f.seq = n

Logged(f, events) == f.seq \in DOMAIN events /\ f.type = events[f.seq]

\* The event the cursor is at ends the run.
Tells(c) == \E f \in FramesOf(c) : f.seq = c.cursor /\ f.type \in Terminal

LogEnds ==
    /\ log # <<>>
    /\ \A k \in DOMAIN log : log[k] \in Terminal => k = Len(log) /\ state \in Terminal
    /\ state \in Terminal => log[Len(log)] \in Terminal

Connected ==
    /\ s.open => up /\ ended = "no"
    /\ s.overflow => ~s.open
    /\ ~up => ended = "lost"
    /\ ended # "no" => s.held = <<>> /\ ~s.reading /\ s.pump = "idle"

Cursor ==
    /\ s.open /\ s.cursor > 0 => \E f \in FramesOf(s) : f.seq = s.cursor
    /\ s.open /\ s.pump # "running" => s.cursor >= Len(log)

Ending ==
    /\ s.terminalDrain /\ ended = "no" /\ ~s.overflow => Tells(s)
    /\ s.terminalDrain /\ s.open => state # "queued" /\ s.cursor >= Len(log)
    /\ ended = "no" /\ ~s.open => s.terminalDrain \/ s.overflow
    /\ EndTellsOutcome

Streaming ==
    /\ TypeOK
    /\ LogEnds
    /\ Connected
    /\ Ascending(s)
    /\ Cursor
    /\ \A f \in FramesOf(s) : f.type \in Terminal \/ Logged(f, log)
    /\ Ending
    /\ ~phantom => Contiguous(s) /\ (\A f \in FramesOf(s) : Logged(f, log))

-------------------------------------------------------------------------------
(* What the closures do to the frames.                                     *)

\* The first half of Drained: a frame for the read that waits.
ToReader(c) ==
    IF c.reading /\ c.queue # <<>>
    THEN [c EXCEPT !.got = Received(@, Head(c.queue)), !.queue = Tail(@), !.reading = FALSE]
    ELSE c

\* The second: a frame for the empty ReadableStream.
ToHeld(c) ==
    IF c.queue # <<>> /\ c.held = <<>> /\ ~c.reading
    THEN [c EXCEPT !.held = <<Head(c.queue)>>, !.queue = Tail(@)]
    ELSE c

\* d is c but for where the frames are.
Moved(c, d) ==
    /\ d \in Stream
    /\ d.open = c.open /\ d.started = c.started /\ d.cursor = c.cursor /\ d.pump = c.pump
    /\ d.late = c.late /\ d.timers = c.timers
    /\ d.terminalDrain = c.terminalDrain /\ d.overflow = c.overflow
    /\ FramesOf(d) = FramesOf(c)

\* The order of the frames, as every closure of the route keeps it.
InOrder(c) == c \in Stream /\ Ascending(c)

\* The elements of a sequence are its head and those of its tail.
LEMMA HeadAndTail ==
    ASSUME NEW S, NEW q \in Seq(S), q # <<>>
    PROVE  /\ Head(q) \in S /\ Head(q) = q[1] /\ 1 \in DOMAIN q
           /\ Tail(q) \in Seq(S) /\ Len(Tail(q)) = Len(q) - 1
           /\ \A i \in DOMAIN Tail(q) : i + 1 \in DOMAIN q /\ Tail(q)[i] = q[i + 1]
           /\ Elements(q) = {Head(q)} \cup Elements(Tail(q))
  <1>1. /\ Head(q) \in S /\ Head(q) = q[1] /\ 1 \in DOMAIN q
        /\ Tail(q) \in Seq(S) /\ Len(Tail(q)) = Len(q) - 1
        /\ \A i \in DOMAIN Tail(q) : i + 1 \in DOMAIN q /\ Tail(q)[i] = q[i + 1]
    OBVIOUS
  <1>2. \A i \in DOMAIN q : i = 1 \/ (i - 1 \in DOMAIN Tail(q) /\ Tail(q)[i - 1] = q[i])
    OBVIOUS
  <1>3. \A i \in DOMAIN q : q[i] \in {Head(q)} \cup Elements(Tail(q))
    <2> SUFFICES ASSUME NEW i \in DOMAIN q, i # 1
                 PROVE  q[i] \in Elements(Tail(q))
      BY <1>1
    <2> QED  BY <1>2 DEF Elements
  <1>4. {Head(q)} \cup Elements(Tail(q)) \subseteq Elements(q)
    BY <1>1 DEF Elements
  <1>5. Elements(q) \subseteq {Head(q)} \cup Elements(Tail(q))
    BY <1>3 DEF Elements
  <1> QED  BY <1>1, <1>4, <1>5

\* Appending adds one element, at the end.
LEMMA Appending ==
    ASSUME NEW S, NEW q \in Seq(S), NEW f \in S
    PROVE  /\ Append(q, f) \in Seq(S) /\ Len(Append(q, f)) = Len(q) + 1
           /\ \A i \in DOMAIN q : i \in DOMAIN Append(q, f) /\ Append(q, f)[i] = q[i]
           /\ Append(q, f)[Len(q) + 1] = f
           /\ \A i \in DOMAIN Append(q, f) : i \in DOMAIN q \/ i = Len(q) + 1
           /\ Elements(Append(q, f)) = Elements(q) \cup {f}
  <1>1. /\ Append(q, f) \in Seq(S) /\ Len(Append(q, f)) = Len(q) + 1
        /\ \A i \in DOMAIN q : i \in DOMAIN Append(q, f) /\ Append(q, f)[i] = q[i]
        /\ Append(q, f)[Len(q) + 1] = f
        /\ \A i \in DOMAIN Append(q, f) : i \in DOMAIN q \/ i = Len(q) + 1
    OBVIOUS
  <1>2. Len(q) + 1 \in DOMAIN Append(q, f)
    OBVIOUS
  <1> QED  BY <1>1, <1>2 DEF Elements

\* The fields of a stream have their types.
LEMMA StreamFields ==
    ASSUME NEW c \in Stream
    PROVE  /\ c.open \in BOOLEAN /\ c.started \in BOOLEAN /\ c.cursor \in Nat
           /\ c.queue \in Seq(Frames) /\ c.held \in Seq(Frames) /\ c.got \in Seq(Frames)
           /\ c.reading \in BOOLEAN /\ c.pump \in {"idle", "running", "waiting"}
           /\ c.late \in BOOLEAN /\ c.timers \in BOOLEAN
           /\ c.terminalDrain \in BOOLEAN /\ c.overflow \in BOOLEAN
  BY DEF Stream

\* The last event a client has seen is a number, and the greatest.
LEMMA SeenIsLast ==
    ASSUME NEW c \in Stream, Ascending(c)
    PROVE  /\ Seen(c) \in Nat /\ Base(c) \in Nat
           /\ \A i \in DOMAIN c.got : c.got[i].seq \in Nat /\ c.got[i].seq <= Seen(c)
  <1>1. \A i \in DOMAIN c.got : c.got[i] \in Frames
    BY DEF Stream
  <1>2. \A i \in DOMAIN c.got : c.got[i].seq \in Nat
    BY <1>1 DEF Frames
  <1>3. c.got # <<>> => Len(c.got) \in DOMAIN c.got /\ Len(c.got) \in Nat
    BY DEF Stream
  <1>4. Seen(c) \in Nat
    BY <1>2, <1>3 DEF Seen
  <1>5. Base(c) \in Nat
    <2>1. c.held # <<>> => c.held[1] \in Frames
      BY DEF Stream
    <2> QED  BY <2>1, <1>4 DEF Base, Frames
  <1>6. ASSUME NEW i \in DOMAIN c.got
        PROVE  c.got[i].seq <= Seen(c)
    <2>1. c.got # <<>> /\ i \in 1..Len(c.got)
      BY DEF Stream
    <2>2. i < Len(c.got) \/ i = Len(c.got)
      BY <2>1, <1>3
    <2>3. i < Len(c.got) => c.got[i].seq < c.got[Len(c.got)].seq
      BY <2>1, <1>3 DEF Ascending
    <2> QED  BY <2>1, <2>2, <2>3, <1>2, <1>3 DEF Seen
  <1> QED  BY <1>2, <1>4, <1>5, <1>6

\* Drained is the two moves one after the other.
LEMMA DrainedInTwo ==
    ASSUME NEW c \in Stream
    PROVE  Drained(c) = ToHeld(ToReader(c))
  BY DEF Drained, ToHeld, ToReader

\* A frame for the client is the next one: the order and the gaplessness stay.
LEMMA ReaderMoves ==
    ASSUME NEW c, InOrder(c)
    PROVE  /\ InOrder(ToReader(c)) /\ Moved(c, ToReader(c))
           /\ Contiguous(c) => Contiguous(ToReader(c))
  <1> DEFINE d == ToReader(c)
  <1>1. CASE ~(c.reading /\ c.queue # <<>>)
    <2>1. d = c
      BY <1>1 DEF ToReader
    <2> QED  BY <2>1 DEF InOrder, Moved
  <1>2. CASE c.reading /\ c.queue # <<>>
    <2> DEFINE f == c.queue[1]
    <2>1. /\ c \in Stream /\ Ascending(c)
          /\ d = [c EXCEPT !.got = Received(c.got, f), !.queue = Tail(c.queue), !.reading = FALSE]
          /\ f \in Frames /\ f.seq \in Nat
      <3>1. c.queue \in Seq(Frames)
        BY DEF InOrder, Stream
      <3>2. Head(c.queue) = f /\ f \in Frames
        BY <3>1, <1>2, HeadAndTail
      <3> QED  BY <3>2, <1>2 DEF InOrder, ToReader, Frames
    <2>2. /\ c.got \in Seq(Frames) /\ c.queue \in Seq(Frames)
          /\ c.held = <<>> /\ c.open /\ c.cursor \in Nat
      BY <2>1, <1>2 DEF Stream, Ascending
    <2>3. Received(c.got, f) \in Seq(Frames) /\ Tail(c.queue) \in Seq(Frames)
      BY <2>1, <2>2, <1>2, Appending, HeadAndTail DEF Received
    <2>4. /\ d \in Stream
          /\ d.got = Received(c.got, f) /\ d.queue = Tail(c.queue) /\ d.reading = FALSE
          /\ d.timers = c.timers /\ d.held = c.held /\ d.open = c.open /\ d.cursor = c.cursor
      BY <2>1, <2>3 DEF Stream
    <2>5. FramesOf(d) = FramesOf(c)
      <3>1. Elements(c.queue) = {f} \cup Elements(d.queue)
        BY <2>2, <2>4, <1>2, HeadAndTail
      <3>2. f # Heartbeat => Elements(d.got) = Elements(c.got) \cup {f}
        BY <2>1, <2>2, <2>4, Appending DEF Received
      <3>3. f = Heartbeat => d.got = c.got
        BY <2>4 DEF Received
      <3> QED  BY <3>1, <3>2, <3>3, <2>4 DEF FramesOf
    <2>6. Moved(c, d)
      BY <2>1, <2>3, <2>4, <2>5 DEF Moved, Stream
    <2>7. Seen(d) = IF f = Heartbeat THEN Seen(c) ELSE f.seq
      BY <2>1, <2>2, <2>4, Appending DEF Seen, Received
    <2>8. Base(c) = Seen(c) /\ Base(d) = Seen(d)
      BY <2>2, <2>4 DEF Base
    <2>9. f # Heartbeat => Seen(c) < f.seq /\ f.seq <= c.cursor
      <3>1. 1 \in DOMAIN c.queue
        BY <2>2, <1>2
      <3> QED  BY <3>1, <2>1, <2>8 DEF Ascending
    <2>10. Ascending(d)
      <3>1. /\ \A i, j \in DOMAIN d.got : i < j => d.got[i].seq < d.got[j].seq
            /\ \A i \in DOMAIN d.got : d.got[i].seq > 0
        <4>1. CASE f = Heartbeat
          BY <4>1, <2>1, <2>4 DEF Received, Ascending
        <4>2. CASE f # Heartbeat
          <5>1. d.got = Append(c.got, f)
            BY <4>2, <2>4 DEF Received
          <5>2. \A i \in DOMAIN c.got : c.got[i].seq \in Nat /\ c.got[i].seq < f.seq
            BY <4>2, <2>1, <2>9, SeenIsLast
          <5>3. /\ \A i \in DOMAIN c.got : d.got[i] = c.got[i]
                /\ d.got[Len(c.got) + 1] = f
                /\ \A i \in DOMAIN d.got : i \in DOMAIN c.got \/ i = Len(c.got) + 1
            BY <5>1, <2>1, <2>2, Appending
          <5>4. \A i \in DOMAIN c.got : i \in Nat /\ i < Len(c.got) + 1
            BY <2>2
          <5>5. f.seq > 0
            BY <4>2, <2>1, <2>9, SeenIsLast
          <5> QED  BY <5>2, <5>3, <5>4, <5>5, <2>1 DEF Ascending
        <4> QED  BY <4>1, <4>2
      <3>2. /\ Base(d) >= Seen(d) /\ Base(d) <= d.cursor
        BY <2>1, <2>4, <2>7, <2>8, <2>9, SeenIsLast DEF Ascending
      <3>3. \A i \in DOMAIN d.queue :
                i + 1 \in DOMAIN c.queue /\ d.queue[i] = c.queue[i + 1] /\ i \in Nat /\ i >= 1
        BY <2>2, <2>4, <1>2, HeadAndTail
      <3>4. \A i \in DOMAIN d.queue : d.queue[i] # Heartbeat =>
                Base(d) < d.queue[i].seq /\ d.queue[i].seq <= d.cursor
        <4>1. 1 \in DOMAIN c.queue
          BY <2>2, <1>2
        <4> QED  BY <4>1, <3>3, <2>1, <2>4, <2>7, <2>8 DEF Ascending
      <3>5. \A i, j \in DOMAIN d.queue :
                i < j /\ d.queue[i] # Heartbeat /\ d.queue[j] # Heartbeat =>
                d.queue[i].seq < d.queue[j].seq
        BY <3>3, <2>1 DEF Ascending
      <3> QED  BY <3>1, <3>2, <3>4, <3>5, <2>1, <2>2, <2>4 DEF Ascending
    <2>11. ASSUME Contiguous(c)
           PROVE  Contiguous(d)
      <3>1. ASSUME f # Heartbeat
            PROVE  f.seq = Len(c.got) + 1
        <4>1. Seen(c) = Len(c.got)
          BY <2>11, <2>2 DEF Contiguous, Seen
        <4>2. f.seq >= Len(c.got) + 1 /\ Len(c.got) + 1 \in 1..c.cursor
          BY <4>1, <3>1, <2>1, <2>2, <2>9
        <4>3. PICK g \in FramesOf(c) : g.seq = Len(c.got) + 1
          BY <4>2, <2>11, <2>2 DEF Contiguous
        <4>4. g \notin Elements(c.got)
          BY <4>3, <2>11, <2>2 DEF Elements, Contiguous
        <4>5. PICK i \in DOMAIN c.queue : g = c.queue[i]
          BY <4>3, <4>4, <2>2 DEF FramesOf, Elements
        <4>6. g # Heartbeat /\ i \in Nat /\ i >= 1 /\ 1 \in DOMAIN c.queue
          BY <4>3, <4>5, <2>2 DEF FramesOf
        <4>7. i # 1 => f.seq < g.seq
          BY <4>5, <4>6, <3>1, <2>1 DEF Ascending
        <4> QED  BY <4>2, <4>3, <4>5, <4>7, <2>1, <2>2
      <3>2. \A i \in DOMAIN d.got : d.got[i].seq = i
        <4>1. CASE f = Heartbeat
          BY <4>1, <2>4, <2>11 DEF Received, Contiguous
        <4>2. CASE f # Heartbeat
          <5>1. d.got = Append(c.got, f)
            BY <4>2, <2>4 DEF Received
          <5> QED  BY <5>1, <4>2, <3>1, <2>1, <2>2, <2>11, Appending DEF Contiguous
        <4> QED  BY <4>1, <4>2
      <3> QED  BY <3>2, <2>2, <2>4, <2>5, <2>11 DEF Contiguous
    <2> QED  BY <2>4, <2>6, <2>10, <2>11 DEF InOrder
  <1> QED  BY <1>1, <1>2

\* The same for the frame the ReadableStream takes.
LEMMA HeldMoves ==
    ASSUME NEW c, InOrder(c)
    PROVE  /\ InOrder(ToHeld(c)) /\ Moved(c, ToHeld(c))
           /\ Contiguous(c) => Contiguous(ToHeld(c))
  <1> DEFINE d == ToHeld(c)
  <1>1. CASE ~(c.queue # <<>> /\ c.held = <<>> /\ ~c.reading)
    <2>1. d = c
      BY <1>1 DEF ToHeld
    <2> QED  BY <2>1 DEF InOrder, Moved
  <1>2. CASE c.queue # <<>> /\ c.held = <<>> /\ ~c.reading
    <2> DEFINE f == c.queue[1]
    <2>1. /\ c \in Stream /\ Ascending(c)
          /\ d = [c EXCEPT !.held = <<f>>, !.queue = Tail(c.queue)]
          /\ f \in Frames /\ f.seq \in Nat
      <3>1. c.queue \in Seq(Frames)
        BY DEF InOrder, Stream
      <3>2. Head(c.queue) = f /\ f \in Frames
        BY <3>1, <1>2, HeadAndTail
      <3> QED  BY <3>2, <1>2 DEF InOrder, ToHeld, Frames
    <2>2. /\ c.got \in Seq(Frames) /\ c.queue \in Seq(Frames)
          /\ c.held = <<>> /\ c.open /\ c.cursor \in Nat
      BY <2>1, <1>2 DEF Stream, Ascending
    <2>3. <<f>> \in Seq(Frames) /\ Tail(c.queue) \in Seq(Frames)
      BY <2>1, <2>2, <1>2, HeadAndTail
    <2>4. /\ d \in Stream
          /\ d.got = c.got /\ d.queue = Tail(c.queue) /\ d.reading = c.reading
          /\ d.timers = c.timers /\ d.held = <<f>> /\ d.open = c.open /\ d.cursor = c.cursor
      BY <2>1, <2>3 DEF Stream
    <2>5. FramesOf(d) = FramesOf(c)
      <3>1. Elements(c.queue) = {f} \cup Elements(d.queue)
        BY <2>2, <2>4, <1>2, HeadAndTail
      <3>2. Elements(d.held) = {f} /\ Elements(c.held) = {}
        BY <2>2, <2>4 DEF Elements
      <3> QED  BY <3>1, <3>2, <2>4 DEF FramesOf
    <2>6. Moved(c, d)
      BY <2>1, <2>3, <2>4, <2>5 DEF Moved, Stream
    <2>7. Seen(d) = Seen(c) /\ Base(c) = Seen(c)
      BY <2>2, <2>4 DEF Seen, Base
    <2>8. Base(d) = IF f = Heartbeat THEN Seen(c) ELSE f.seq
      BY <2>4, <2>7 DEF Base
    <2>9. f # Heartbeat => Seen(c) < f.seq /\ f.seq <= c.cursor
      <3>1. 1 \in DOMAIN c.queue
        BY <2>2, <1>2
      <3> QED  BY <3>1, <2>1, <2>7 DEF Ascending
    <2>10. Ascending(d)
      <3>1. /\ Base(d) >= Seen(d) /\ Base(d) <= d.cursor
            /\ d.held # <<>> /\ d.held[1] # Heartbeat => d.held[1].seq > Seen(d)
        BY <2>1, <2>4, <2>7, <2>8, <2>9, SeenIsLast DEF Ascending
      <3>2. \A i \in DOMAIN d.queue :
                i + 1 \in DOMAIN c.queue /\ d.queue[i] = c.queue[i + 1] /\ i \in Nat /\ i >= 1
        BY <2>2, <2>4, <1>2, HeadAndTail
      <3>3. \A i \in DOMAIN d.queue : d.queue[i] # Heartbeat =>
                Base(d) < d.queue[i].seq /\ d.queue[i].seq <= d.cursor
        <4>1. 1 \in DOMAIN c.queue
          BY <2>2, <1>2
        <4> QED  BY <4>1, <3>2, <2>1, <2>4, <2>7, <2>8 DEF Ascending
      <3>4. \A i, j \in DOMAIN d.queue :
                i < j /\ d.queue[i] # Heartbeat /\ d.queue[j] # Heartbeat =>
                d.queue[i].seq < d.queue[j].seq
        BY <3>2, <2>1 DEF Ascending
      <3>5. Len(d.held) <= 1
        BY <2>4
      <3> QED  BY <3>1, <3>3, <3>4, <3>5, <1>2, <2>1, <2>2, <2>4 DEF Ascending
    <2>11. ASSUME Contiguous(c)
           PROVE  Contiguous(d)
      <3>1. ASSUME f # Heartbeat
            PROVE  f.seq = Len(c.got) + 1
        <4>1. Seen(c) = Len(c.got)
          BY <2>11, <2>2 DEF Contiguous, Seen
        <4>2. f.seq >= Len(c.got) + 1 /\ Len(c.got) + 1 \in 1..c.cursor
          BY <4>1, <3>1, <2>1, <2>2, <2>9
        <4>3. PICK g \in FramesOf(c) : g.seq = Len(c.got) + 1
          BY <4>2, <2>11, <2>2 DEF Contiguous
        <4>4. g \notin Elements(c.got)
          BY <4>3, <2>11, <2>2 DEF Elements, Contiguous
        <4>5. PICK i \in DOMAIN c.queue : g = c.queue[i]
          BY <4>3, <4>4, <2>2 DEF FramesOf, Elements
        <4>6. g # Heartbeat /\ i \in Nat /\ i >= 1 /\ 1 \in DOMAIN c.queue
          BY <4>3, <4>5, <2>2 DEF FramesOf
        <4>7. i # 1 => f.seq < g.seq
          BY <4>5, <4>6, <3>1, <2>1 DEF Ascending
        <4> QED  BY <4>2, <4>3, <4>5, <4>7, <2>1, <2>2
      <3> QED  BY <3>1, <2>2, <2>4, <2>5, <2>11 DEF Contiguous
    <2> QED  BY <2>4, <2>6, <2>10, <2>11 DEF InOrder
  <1> QED  BY <1>1, <1>2

\* d is c after closures that add no frame: only a terminal event may have
\* closed it.
Onward(c, d) ==
    /\ InOrder(d)
    /\ FramesOf(d) = FramesOf(c)
    /\ d.started = c.started /\ d.pump = c.pump
    /\ d.cursor = c.cursor /\ d.overflow = c.overflow
    /\ d.open => c.open
    /\ c.terminalDrain => d.terminalDrain
    /\ c.open /\ ~d.open => d.terminalDrain
    /\ Contiguous(c) => Contiguous(d)

\* drain keeps the order and every frame.
LEMMA DrainedKeeps ==
    ASSUME NEW c, InOrder(c)
    PROVE  /\ Onward(c, Drained(c))
           /\ Drained(c).open = c.open
           /\ Drained(c).terminalDrain = c.terminalDrain
  <1> DEFINE a == ToReader(c)
             d == ToHeld(a)
  <1>1. Drained(c) = d
    BY DrainedInTwo DEF InOrder
  <1>2. InOrder(a) /\ Moved(c, a) /\ (Contiguous(c) => Contiguous(a))
    BY ReaderMoves
  <1>3. InOrder(d) /\ Moved(a, d) /\ (Contiguous(a) => Contiguous(d))
    BY <1>2, HeldMoves
  <1> HIDE DEF a, d
  <1>4. c \in Stream
    BY DEF InOrder
  <1> QED  BY <1>1, <1>2, <1>3, <1>4, StreamFields DEF Onward, Moved

\* Closing forgets what is queued, and nothing else.
LEMMA ClosedKeeps ==
    ASSUME NEW c, InOrder(c)
    PROVE  /\ InOrder(Closed(c))
           /\ FramesOf(Closed(c)) \subseteq FramesOf(c)
           /\ c.queue = <<>> => FramesOf(Closed(c)) = FramesOf(c)
           /\ Contiguous(c) => Contiguous(Closed(c))
           /\ ~Closed(c).open /\ Closed(c).started = c.started /\ Closed(c).pump = c.pump
           /\ Closed(c).cursor = c.cursor /\ Closed(c).overflow = c.overflow
           /\ Closed(c).terminalDrain = c.terminalDrain
  <1> DEFINE d == Closed(c)
  <1>1. c \in Stream /\ Ascending(c)
    BY DEF InOrder
  <1>2. d = [c EXCEPT !.open = FALSE, !.queue = <<>>, !.timers = FALSE]
    BY DEF Closed
  <1>3. /\ d \in Stream /\ ~d.open /\ d.queue = <<>> /\ ~d.timers
        /\ d.got = c.got /\ d.held = c.held /\ d.reading = c.reading
        /\ d.started = c.started /\ d.pump = c.pump /\ d.cursor = c.cursor
        /\ d.overflow = c.overflow /\ d.terminalDrain = c.terminalDrain
    <2>1. <<>> \in Seq(Frames)
      OBVIOUS
    <2> QED  BY <2>1, <1>1, <1>2 DEF Stream
  <1>4. Seen(d) = Seen(c) /\ Base(d) = Base(c)
    BY <1>3 DEF Seen, Base
  <1>5. Ascending(d)
    BY <1>1, <1>3, <1>4 DEF Ascending
  <1>6. Elements(d.queue) = {}
    BY <1>3 DEF Elements
  <1>7. FramesOf(d) \subseteq FramesOf(c) /\ (c.queue = <<>> => FramesOf(d) = FramesOf(c))
    BY <1>3, <1>6 DEF FramesOf
  <1>8. Contiguous(c) => Contiguous(d)
    BY <1>3 DEF Contiguous
  <1> QED  BY <1>3, <1>5, <1>7, <1>8 DEF InOrder

\* A frame may join the queue of c when the cursor goes on to n: the next event,
\* or a heartbeat, which leaves the cursor alone.
Joins(c, f, n) ==
    /\ f \in Frames
    /\ n \in Nat
    /\ IF f = Heartbeat THEN n = c.cursor ELSE f.seq = n /\ n > c.cursor

\* d is c with f queued.
Grows(c, f, n, d) ==
    /\ d \in Stream /\ d.open /\ d.queue = Append(c.queue, f) /\ d.timers = c.timers
    /\ d.got = c.got /\ d.held = c.held /\ d.reading = c.reading
    /\ d.started = c.started /\ d.pump = c.pump /\ d.cursor = n
    /\ d.overflow = c.overflow /\ d.terminalDrain = c.terminalDrain

\* A frame at the end of the queue keeps the order, and closes the gap if it is
\* the next.
LEMMA QueueGrows ==
    ASSUME NEW c, NEW f, NEW n, InOrder(c), c.open, Joins(c, f, n),
           NEW d, Grows(c, f, n, d)
    PROVE  /\ InOrder(d)
           /\ FramesOf(d) = FramesOf(c) \cup ({f} \ {Heartbeat})
           /\ d.open /\ d.started = c.started /\ d.pump = c.pump /\ d.cursor = n
           /\ d.overflow = c.overflow /\ d.terminalDrain = c.terminalDrain
           /\ Contiguous(c) /\ n <= c.cursor + 1 => Contiguous(d)
  <1>1. /\ c \in Stream /\ Ascending(c) /\ f \in Frames /\ n \in Nat /\ n >= c.cursor
        /\ f.seq \in Nat /\ c.cursor \in Nat /\ c.queue \in Seq(Frames)
    BY DEF InOrder, Joins, Stream, Frames
  <1>3. /\ d \in Stream /\ d.open /\ d.queue = Append(c.queue, f)
        /\ d.got = c.got /\ d.held = c.held /\ d.reading = c.reading
        /\ d.started = c.started /\ d.pump = c.pump /\ d.cursor = n
        /\ d.overflow = c.overflow /\ d.terminalDrain = c.terminalDrain
    BY DEF Grows
  <1>4. Seen(d) = Seen(c) /\ Base(d) = Base(c)
    BY <1>3 DEF Seen, Base
  <1>5. FramesOf(d) = FramesOf(c) \cup ({f} \ {Heartbeat})
    <2>1. Elements(d.queue) = Elements(c.queue) \cup {f}
      BY <1>1, <1>3, Appending
    <2> QED  BY <2>1, <1>3 DEF FramesOf
  <1>6. Ascending(d)
    <2>1. /\ \A i \in DOMAIN c.queue : d.queue[i] = c.queue[i] /\ i \in Nat /\ i < Len(c.queue) + 1
          /\ d.queue[Len(c.queue) + 1] = f
          /\ \A i \in DOMAIN d.queue : i \in DOMAIN c.queue \/ i = Len(c.queue) + 1
      BY <1>1, <1>3, Appending
    <2>2. f # Heartbeat => c.cursor < f.seq /\ f.seq = n /\ Base(c) < f.seq
      BY <1>1, SeenIsLast DEF Joins, Ascending
    <2>3. Base(c) <= c.cursor /\ Base(c) \in Nat /\ Seen(c) \in Nat /\ Base(c) >= Seen(c)
      BY <1>1, SeenIsLast DEF Ascending
    <2>4. \A i \in DOMAIN c.queue : c.queue[i].seq \in Nat
      <3>1. \A i \in DOMAIN c.queue : c.queue[i] \in Frames
        BY <1>1
      <3> QED  BY <3>1 DEF Frames
    <2>5. \A i \in DOMAIN c.queue : c.queue[i] # Heartbeat =>
                Base(c) < c.queue[i].seq /\ c.queue[i].seq <= c.cursor
      BY <1>1 DEF Ascending
    <2>6. \A i \in DOMAIN d.queue : d.queue[i] # Heartbeat =>
                Base(d) < d.queue[i].seq /\ d.queue[i].seq <= d.cursor
      BY <2>1, <2>2, <2>3, <2>4, <2>5, <1>1, <1>3, <1>4
    <2>7. \A i, j \in DOMAIN c.queue :
                i < j /\ c.queue[i] # Heartbeat /\ c.queue[j] # Heartbeat =>
                c.queue[i].seq < c.queue[j].seq
      BY <1>1 DEF Ascending
    <2>8. ASSUME NEW i \in DOMAIN d.queue, NEW j \in DOMAIN d.queue, i < j,
                 d.queue[i] # Heartbeat, d.queue[j] # Heartbeat
          PROVE  d.queue[i].seq < d.queue[j].seq
      <3>1. i \in DOMAIN c.queue
        BY <2>1, <2>8, <1>1
      <3>2. CASE j \in DOMAIN c.queue
        BY <3>1, <3>2, <2>1, <2>7, <2>8
      <3>3. CASE j = Len(c.queue) + 1
        <4>1. d.queue[i] = c.queue[i] /\ d.queue[j] = f
          BY <3>1, <3>3, <2>1
        <4>2. c.queue[i].seq <= c.cursor /\ c.cursor < f.seq /\ c.queue[i].seq \in Nat
          BY <4>1, <3>1, <2>2, <2>4, <2>5, <2>8
        <4> QED  BY <4>1, <4>2, <1>1
      <3> QED  BY <3>2, <3>3, <2>1
    <2>9. Base(d) >= Seen(d) /\ Base(d) <= d.cursor
      BY <2>3, <1>1, <1>3, <1>4
    <2>10. \A i, j \in DOMAIN d.queue :
                i < j /\ d.queue[i] # Heartbeat /\ d.queue[j] # Heartbeat =>
                d.queue[i].seq < d.queue[j].seq
      BY <2>8
    <2> QED  BY <2>6, <2>9, <2>10, <1>1, <1>3, <1>4 DEF Ascending
  <1>7. ASSUME Contiguous(c), n <= c.cursor + 1
        PROVE  Contiguous(d)
    <2>1. ASSUME NEW m \in 1..n
          PROVE  \E g \in FramesOf(d) : g.seq = m
      <3>1. CASE m <= c.cursor
        <4>1. m \in 1..c.cursor
          BY <3>1, <1>1
        <4> QED  BY <4>1, <1>5, <1>7 DEF Contiguous
      <3>2. CASE m > c.cursor
        <4>1. f # Heartbeat /\ f.seq = m
          BY <3>2, <1>1, <1>7 DEF Joins
        <4> QED  BY <4>1, <1>5
      <3> QED  BY <3>1, <3>2, <1>1
    <2> QED  BY <2>1, <1>3, <1>7 DEF Contiguous
  <1> QED  BY <1>3, <1>5, <1>6, <1>7 DEF InOrder

\* enqueue takes the frame in, or closes the stream on a frame too many.
LEMMA EnqueuedKeeps ==
    ASSUME NEW c, NEW f, NEW n, InOrder(c), c.open, Joins(c, f, n),
           NEW d, d = Enqueued([c EXCEPT !.cursor = n], f)
    PROVE  /\ InOrder(d)
           /\ FramesOf(d) \subseteq FramesOf(c) \cup ({f} \ {Heartbeat})
           /\ \/ d.overflow /\ ~d.open
              \/ /\ d.open /\ d.overflow = c.overflow
                 /\ FramesOf(d) = FramesOf(c) \cup ({f} \ {Heartbeat})
           /\ d.started = c.started /\ d.pump = c.pump /\ d.cursor = n
           /\ d.terminalDrain = c.terminalDrain
           /\ Contiguous(c) /\ n <= c.cursor + 1 => Contiguous(d)
  <1> DEFINE b == [c EXCEPT !.cursor = n]
  <1>1. /\ c \in Stream /\ f \in Frames /\ n \in Nat
        /\ c.queue \in Seq(Frames)
    BY DEF InOrder, Joins, Stream
  <1>2. b.queue = c.queue
    BY <1>1 DEF Stream
  <1>3. CASE Len(c.queue) >= MaxQueued
    <2>1. d = [Closed(b) EXCEPT !.overflow = TRUE]
      BY <1>2, <1>3 DEF Enqueued
    <2>2. d = [c EXCEPT !.cursor = n, !.open = FALSE, !.queue = <<>>, !.timers = FALSE, !.overflow = TRUE]
      BY <2>1, <1>1 DEF Closed, Stream
    <2>3. /\ d \in Stream /\ ~d.open /\ d.overflow /\ d.queue = <<>> /\ ~d.timers
          /\ d.got = c.got /\ d.held = c.held /\ d.reading = c.reading
          /\ d.started = c.started /\ d.pump = c.pump /\ d.cursor = n
          /\ d.terminalDrain = c.terminalDrain
      <3>1. <<>> \in Seq(Frames)
        OBVIOUS
      <3> QED  BY <3>1, <2>2, <1>1 DEF Stream
    <2>4. Seen(d) = Seen(c) /\ Base(d) = Base(c)
      BY <2>3 DEF Seen, Base
    <2>5. n >= c.cursor /\ c.cursor \in Nat /\ Base(c) \in Nat
      BY <1>1, SeenIsLast DEF Joins, Stream, InOrder
    <2>6. Ascending(d)
      BY <1>1, <2>3, <2>4, <2>5 DEF Ascending, InOrder
    <2>7. FramesOf(d) \subseteq FramesOf(c)
      <3>1. Elements(d.queue) = {}
        BY <2>3 DEF Elements
      <3> QED  BY <3>1, <2>3 DEF FramesOf
    <2>8. Contiguous(c) => Contiguous(d)
      BY <2>3 DEF Contiguous
    <2> QED  BY <2>3, <2>6, <2>7, <2>8 DEF InOrder
  <1>4. CASE ~(Len(c.queue) >= MaxQueued)
    <2>1. d = Drained([b EXCEPT !.queue = Append(@, f)])
      BY <1>2, <1>4 DEF Enqueued
    <2>2. PICK g : g = [c EXCEPT !.cursor = n, !.queue = Append(@, f)]
      OBVIOUS
    <2>3. [b EXCEPT !.queue = Append(@, f)] = g
      BY <1>1, <2>2 DEF Stream
    <2> HIDE DEF b
    <2>4. /\ InOrder(g)
          /\ FramesOf(g) = FramesOf(c) \cup ({f} \ {Heartbeat})
          /\ g.open /\ g.started = c.started /\ g.pump = c.pump /\ g.cursor = n
          /\ g.overflow = c.overflow /\ g.terminalDrain = c.terminalDrain
          /\ Contiguous(c) /\ n <= c.cursor + 1 => Contiguous(g)
      <3>1. Append(c.queue, f) \in Seq(Frames)
        BY <1>1, Appending
      <3>2. Grows(c, f, n, g)
        BY <3>1, <2>2, <1>1 DEF Grows, Stream
      <3> QED  BY <3>2, QueueGrows
    <2>5. Onward(g, d) /\ d.open = g.open /\ d.terminalDrain = g.terminalDrain
      BY <2>1, <2>3, <2>4, DrainedKeeps
    <2> QED  BY <2>4, <2>5 DEF Onward
  <1> QED  BY <1>3, <1>4

\* requestTerminalClose closes what has been drained to the end.
LEMMA TerminalCloseKeeps ==
    ASSUME NEW c, InOrder(c)
    PROVE  /\ Onward(c, TerminalClose(c))
           /\ IF c.open THEN TerminalClose(c).terminalDrain ELSE TerminalClose(c) = c
  <1>0. c \in Stream
    BY DEF InOrder
  <1>1. CASE ~c.open
    <2>1. TerminalClose(c) = c
      BY <1>1 DEF TerminalClose
    <2> QED  BY <2>1, <1>1 DEF Onward
  <1>2. CASE c.open
    <2>1. PICK b : b = [c EXCEPT !.terminalDrain = TRUE]
      OBVIOUS
    <2>2. /\ b \in Stream /\ b.open = c.open /\ b.queue = c.queue /\ b.timers = c.timers
          /\ b.got = c.got /\ b.held = c.held /\ b.reading = c.reading
          /\ b.started = c.started /\ b.pump = c.pump /\ b.cursor = c.cursor
          /\ b.overflow = c.overflow /\ b.terminalDrain
      BY <2>1, <1>0 DEF Stream
    <2>3. Seen(b) = Seen(c) /\ Base(b) = Base(c) /\ FramesOf(b) = FramesOf(c)
      BY <2>2 DEF Seen, Base, FramesOf
    <2>4. InOrder(b) /\ (Contiguous(c) => Contiguous(b))
      BY <2>2, <2>3 DEF InOrder, Ascending, Contiguous
    <2>5. PICK d : d = Drained(b)
      OBVIOUS
    <2>6. /\ Onward(b, d) /\ d.open = b.open /\ d.terminalDrain = b.terminalDrain
          /\ TerminalClose(c) = IF d.queue = <<>> THEN Closed(d) ELSE d
      BY <2>1, <2>4, <2>5, <1>2, DrainedKeeps DEF TerminalClose
    <2>7. CASE d.queue = <<>>
      <3>1. PICK e : e = Closed(d)
        OBVIOUS
      <3>2. /\ InOrder(e) /\ FramesOf(e) = FramesOf(d)
            /\ Contiguous(d) => Contiguous(e)
            /\ ~e.open /\ e.started = d.started /\ e.pump = d.pump
            /\ e.cursor = d.cursor /\ e.overflow = d.overflow
            /\ e.terminalDrain = d.terminalDrain
        BY <3>1, <2>6, <2>7, ClosedKeeps DEF Onward
      <3> QED  BY <3>1, <3>2, <2>2, <2>3, <2>4, <2>6, <2>7, <1>2 DEF Onward
    <2>8. CASE d.queue # <<>>
      BY <2>2, <2>3, <2>4, <2>6, <2>8, <1>2 DEF Onward
    <2> QED  BY <2>7, <2>8
  <1> QED  BY <1>1, <1>2

\* pull closes a stream that is drained after its terminal event.
LEMMA PulledKeeps ==
    ASSUME NEW c, InOrder(c)
    PROVE  Onward(c, Pulled(c)) /\ Pulled(c).terminalDrain = c.terminalDrain
  <1>1. CASE ~c.open \/ ~c.started
    <2>1. Pulled(c) = c
      BY <1>1 DEF Pulled
    <2> QED  BY <2>1 DEF Onward
  <1>2. CASE c.open /\ c.started
    <2>1. PICK d : d = Drained(c)
      OBVIOUS
    <2>2. /\ Onward(c, d) /\ d.open = c.open /\ d.terminalDrain = c.terminalDrain
          /\ Pulled(c) = IF d.terminalDrain /\ d.queue = <<>> THEN Closed(d) ELSE d
      BY <2>1, <1>2, DrainedKeeps DEF Pulled
    <2>3. CASE d.terminalDrain /\ d.queue = <<>>
      <3>1. PICK e : e = Closed(d)
        OBVIOUS
      <3>2. InOrder(d)
        BY <2>2 DEF Onward
      <3>3. /\ InOrder(e) /\ FramesOf(e) = FramesOf(d)
            /\ Contiguous(d) => Contiguous(e)
            /\ ~e.open /\ e.started = d.started /\ e.pump = d.pump
            /\ e.cursor = d.cursor /\ e.overflow = d.overflow
            /\ e.terminalDrain = d.terminalDrain
        BY <3>1, <3>2, <2>3, ClosedKeeps DEF Onward
      <3> QED  BY <3>1, <3>3, <2>2, <2>3, <1>2 DEF Onward
    <2>4. CASE ~(d.terminalDrain /\ d.queue = <<>>)
      BY <2>2, <2>4, <1>2 DEF Onward
    <2> QED  BY <2>3, <2>4
  <1> QED  BY <1>1, <1>2

\* The pump's return is pull, once it ends start().
LEMMA PumpEndsKeeps ==
    ASSUME NEW c, InOrder(c), NEW settled \in BOOLEAN,
           NEW d, d = PumpEnds(c, settled)
    PROVE  /\ InOrder(d)
           /\ FramesOf(d) = FramesOf(c)
           /\ d.pump = "idle" /\ d.cursor = c.cursor /\ d.overflow = c.overflow
           /\ d.open => c.open
           /\ d.terminalDrain = c.terminalDrain
           /\ c.open /\ ~d.open => d.terminalDrain
           /\ Contiguous(c) => Contiguous(d)
  <1>0. c \in Stream
    BY DEF InOrder
  <1> DEFINE Stopped(b) ==
                /\ InOrder(b) /\ FramesOf(b) = FramesOf(c)
                /\ b.pump = "idle" /\ b.open = c.open /\ b.cursor = c.cursor
                /\ b.overflow = c.overflow /\ b.terminalDrain = c.terminalDrain
                /\ Contiguous(c) => Contiguous(b)
  <1>1. ASSUME NEW b, b.got = c.got, b.held = c.held, b.queue = c.queue, b.reading = c.reading,
               b.open = c.open, b.cursor = c.cursor, b \in Stream, b.pump = "idle",
               b.timers => b.open,
               b.overflow = c.overflow, b.terminalDrain = c.terminalDrain
        PROVE  Stopped(b)
    <2>1. Seen(b) = Seen(c) /\ Base(b) = Base(c) /\ FramesOf(b) = FramesOf(c)
      BY <1>1 DEF Seen, Base, FramesOf
    <2> QED  BY <1>1, <2>1 DEF InOrder, Ascending, Contiguous
  <1>2. CASE c.started
    <2>1. d = [c EXCEPT !.pump = "idle"]
      BY <1>2 DEF PumpEnds
    <2>2. /\ d.got = c.got /\ d.held = c.held /\ d.queue = c.queue /\ d.reading = c.reading
          /\ d.open = c.open /\ d.cursor = c.cursor /\ d \in Stream /\ d.pump = "idle"
          /\ d.timers = c.timers
          /\ d.overflow = c.overflow /\ d.terminalDrain = c.terminalDrain
      BY <2>1, <1>0 DEF Stream
    <2>3. Stopped(d)
      BY <2>2, <1>1 DEF InOrder, Ascending
    <2> QED  BY <2>3
  <1>3. CASE ~c.started
    <2>1. PICK t : t = [c EXCEPT !.pump = "idle", !.started = TRUE, !.timers = c.open /\ ~settled]
      OBVIOUS
    <2>2. /\ t.got = c.got /\ t.held = c.held /\ t.queue = c.queue /\ t.reading = c.reading
          /\ t.open = c.open /\ t.cursor = c.cursor /\ t \in Stream /\ t.pump = "idle"
          /\ t.timers => t.open
          /\ t.overflow = c.overflow /\ t.terminalDrain = c.terminalDrain
      BY <2>1, <1>0 DEF Stream
    <2>3. Stopped(t)
      BY <2>2, <1>1
    <2>4. d = IF t.held = <<>> THEN Pulled(t) ELSE t
      <3>1. t = [[[c EXCEPT !.pump = "idle"] EXCEPT !.started = TRUE] EXCEPT !.timers = c.open /\ ~settled]
        BY <2>1, <1>0 DEF Stream
      <3>2. [c EXCEPT !.pump = "idle"].started = c.started
        BY <1>0 DEF Stream
      <3> QED  BY <2>1, <3>1, <3>2, <1>0, <1>3 DEF PumpEnds, Stream
    <2>5. (Onward(t, d) /\ d.terminalDrain = t.terminalDrain) \/ d = t
      BY <2>3, <2>4, PulledKeeps
    <2> QED  BY <2>3, <2>5 DEF Onward
  <1> QED  BY <1>2, <1>3

\* The event f has been sent down c, or has been the frame too many.
Sent(c, f, d) ==
    /\ c.open /\ f.seq > c.cursor
    /\ InOrder(d)
    /\ d.started = c.started /\ d.pump = c.pump /\ d.cursor = f.seq
    /\ FramesOf(d) \subseteq FramesOf(c) \cup {f}
    /\ IF d.overflow THEN ~d.open ELSE FramesOf(d) = FramesOf(c) \cup {f}
    /\ c.terminalDrain => d.terminalDrain
    /\ d.terminalDrain => c.terminalDrain \/ f.type \in Terminal
    /\ ~d.open => d.overflow \/ d.terminalDrain
    /\ Contiguous(c) /\ f.seq = c.cursor + 1 => Contiguous(d)

\* emit skips what the cursor has passed, and sends the rest.
LEMMA EmittedKeeps ==
    ASSUME NEW c, InOrder(c), c.overflow => ~c.open, NEW f \in Frames, f # Heartbeat
    PROVE  \/ Emitted(c, f) = c /\ (c.open => f.seq <= c.cursor)
           \/ Sent(c, f, Emitted(c, f))
  <1>1. CASE ~c.open \/ f.seq <= c.cursor
    BY <1>1 DEF Emitted
  <1>2. CASE ~(~c.open \/ f.seq <= c.cursor)
    <2>1. PICK d : d = Enqueued([c EXCEPT !.cursor = f.seq], f)
      OBVIOUS
    <2>2. Emitted(c, f) = IF f.type \in Terminal THEN TerminalClose(d) ELSE d
      BY <2>1, <1>2 DEF Emitted
    <2>3. f.seq \in Nat /\ c.cursor \in Nat
      BY DEF Frames, InOrder, Stream
    <2>4. Joins(c, f, f.seq)
      BY <2>3, <1>2 DEF Joins
    <2>5. /\ InOrder(d)
          /\ FramesOf(d) \subseteq FramesOf(c) \cup {f}
          /\ \/ d.overflow /\ ~d.open
             \/ d.open /\ d.overflow = c.overflow /\ FramesOf(d) = FramesOf(c) \cup {f}
          /\ d.started = c.started /\ d.pump = c.pump /\ d.cursor = f.seq
          /\ d.terminalDrain = c.terminalDrain
          /\ Contiguous(c) /\ f.seq <= c.cursor + 1 => Contiguous(d)
      <3>1. {f} \ {Heartbeat} = {f}
        OBVIOUS
      <3> QED  BY <3>1, <2>1, <2>4, <1>2, EnqueuedKeeps
    <2>6. CASE f.type \notin Terminal
      <3>1. Emitted(c, f) = d
        BY <2>2, <2>6
      <3> QED  BY <3>1, <2>3, <2>5, <1>2 DEF Sent
    <2>7. CASE f.type \in Terminal
      <3>1. PICK e : e = TerminalClose(d)
        OBVIOUS
      <3>2. Onward(d, e) /\ IF d.open THEN e.terminalDrain ELSE e = d
        BY <3>1, <2>5, TerminalCloseKeeps
      <3>3. Emitted(c, f) = e
        BY <3>1, <2>2, <2>7
      <3> QED  BY <3>2, <3>3, <2>3, <2>5, <2>7, <1>2 DEF Sent, Onward
    <2> QED  BY <2>6, <2>7
  <1> QED  BY <1>1, <1>2

\* A stream that differs in nothing the frames are about.
LEMMA SameFrames ==
    ASSUME NEW c, InOrder(c), NEW d \in Stream, d.got = c.got, d.held = c.held,
           d.queue = c.queue, d.reading = c.reading \/ c.held = <<>>, d.open = c.open,
           d.timers = c.timers, d.cursor = c.cursor
    PROVE  /\ InOrder(d) /\ FramesOf(d) = FramesOf(c)
           /\ Contiguous(c) => Contiguous(d)
  <1>1. Seen(d) = Seen(c) /\ Base(d) = Base(c) /\ FramesOf(d) = FramesOf(c)
    BY DEF Seen, Base, FramesOf
  <1> QED  BY <1>1 DEF InOrder, Ascending, Contiguous

\* The client takes the frame the ReadableStream holds.
LEMMA ReadKeeps ==
    ASSUME NEW c, InOrder(c), c.held # <<>>,
           NEW d, d = [c EXCEPT !.got = Received(@, Head(c.held)), !.held = <<>>]
    PROVE  /\ InOrder(d) /\ FramesOf(d) = FramesOf(c)
           /\ d.open = c.open /\ d.started = c.started /\ d.pump = c.pump /\ d.cursor = c.cursor
           /\ d.overflow = c.overflow /\ d.terminalDrain = c.terminalDrain
           /\ Contiguous(c) => Contiguous(d)
  <1>1. c \in Stream /\ Ascending(c) /\ c.got \in Seq(Frames) /\ c.held \in Seq(Frames)
    BY DEF InOrder, Stream
  <1>2. DOMAIN c.held = {1}
    <2>1. 1 \in DOMAIN c.held
      BY <1>1, HeadAndTail
    <2>2. \A i \in DOMAIN c.held : i \in Nat /\ i >= 1 /\ i <= Len(c.held) /\ Len(c.held) \in Nat
      BY <1>1
    <2>3. Len(c.held) <= 1
      BY <1>1 DEF Ascending
    <2>4. \A i \in DOMAIN c.held : i = 1
      BY <2>2, <2>3
    <2> QED  BY <2>1, <2>4
  <1>3. PICK f \in Frames : f = c.held[1] /\ f = Head(c.held)
    BY <1>1, HeadAndTail
  <1>4. Received(c.got, f) \in Seq(Frames) /\ <<>> \in Seq(Frames) /\ f.seq \in Nat
    BY <1>1, <1>3, Appending DEF Received, Frames
  <1>5. /\ d \in Stream /\ d.got = Received(c.got, f) /\ d.held = <<>> /\ d.queue = c.queue
        /\ d.open = c.open /\ d.started = c.started /\ d.pump = c.pump /\ d.cursor = c.cursor
        /\ d.overflow = c.overflow /\ d.terminalDrain = c.terminalDrain
        /\ d.timers = c.timers /\ d.reading = c.reading
    BY <1>1, <1>3, <1>4 DEF Stream
  <1>6. FramesOf(d) = FramesOf(c)
    <2>1. Elements(c.held) = {f} /\ Elements(d.held) = {}
      BY <1>2, <1>3, <1>5 DEF Elements
    <2>2. f # Heartbeat => Elements(d.got) = Elements(c.got) \cup {f}
      BY <1>1, <1>3, <1>5, Appending DEF Received
    <2>3. f = Heartbeat => d.got = c.got
      BY <1>5 DEF Received
    <2> QED  BY <2>1, <2>2, <2>3, <1>5 DEF FramesOf
  <1>7. /\ Base(c) = IF f = Heartbeat THEN Seen(c) ELSE f.seq
        /\ f # Heartbeat => f.seq > Seen(c)
    BY <1>1, <1>3 DEF Base, Ascending
  <1>8. Seen(d) = Base(c) /\ Base(d) = Base(c)
    <2>1. CASE f = Heartbeat
      BY <2>1, <1>5, <1>7 DEF Base, Seen, Received
    <2>2. CASE f # Heartbeat
      <3>1. d.got = Append(c.got, f)
        BY <2>2, <1>5 DEF Received
      <3>2. d.got # <<>> /\ d.got[Len(d.got)] = f
        BY <3>1, <1>1, Appending
      <3> QED  BY <3>2, <2>2, <1>5, <1>7 DEF Base, Seen
    <2> QED  BY <2>1, <2>2
  <1>9. /\ \A i, j \in DOMAIN d.got : i < j => d.got[i].seq < d.got[j].seq
        /\ \A i \in DOMAIN d.got : d.got[i].seq > 0
        /\ Contiguous(c) => \A i \in DOMAIN d.got : d.got[i].seq = i
    <2>1. CASE f = Heartbeat
      BY <2>1, <1>1, <1>5 DEF Received, Ascending, Contiguous
    <2>2. CASE f # Heartbeat
      <3>1. d.got = Append(c.got, f)
        BY <2>2, <1>5 DEF Received
      <3>2. \A i \in DOMAIN c.got : c.got[i].seq \in Nat /\ c.got[i].seq < f.seq
        BY <2>2, <1>1, <1>4, <1>7, SeenIsLast
      <3>3. /\ \A i \in DOMAIN c.got : d.got[i] = c.got[i] /\ i \in Nat /\ i < Len(c.got) + 1
            /\ d.got[Len(c.got) + 1] = f
            /\ \A i \in DOMAIN d.got : i \in DOMAIN c.got \/ i = Len(c.got) + 1
        BY <3>1, <1>1, Appending
      <3>4. f.seq > 0
        BY <2>2, <1>1, <1>4, <1>7, SeenIsLast
      <3>5. Contiguous(c) => f.seq = Len(c.got) + 1
        BY <2>2, <1>3 DEF Contiguous
      <3> QED  BY <3>2, <3>3, <3>4, <3>5, <1>1, <1>4 DEF Ascending, Contiguous
    <2> QED  BY <2>1, <2>2
  <1>10. Ascending(d)
    <2>1. Base(d) >= Seen(d)
      BY <1>1, <1>8, SeenIsLast
    <2> QED  BY <2>1, <1>1, <1>5, <1>8, <1>9 DEF Ascending
  <1>11. Contiguous(c) => Contiguous(d)
    BY <1>5, <1>6, <1>9 DEF Contiguous
  <1> QED  BY <1>5, <1>6, <1>10, <1>11 DEF InOrder

\* What a client that is gone has received, it has.
LEMMA LostKeeps ==
    ASSUME NEW c, InOrder(c), NEW d, d = Lost(c)
    PROVE  /\ InOrder(d) /\ FramesOf(d) \subseteq FramesOf(c)
           /\ ~d.open /\ d.held = <<>> /\ ~d.reading /\ d.pump = "idle"
           /\ Contiguous(c) => Contiguous(d)
  <1>1. c \in Stream /\ Ascending(c)
    BY DEF InOrder
  <1>2. <<>> \in Seq(Frames)
    OBVIOUS
  <1>3. PICK b : b = Closed(c)
    OBVIOUS
  <1>4. b \in Stream /\ b.got = c.got /\ b.cursor = c.cursor /\ ~b.open /\ b.queue = <<>> /\ ~b.timers
    BY <1>1, <1>2, <1>3 DEF Closed, Stream
  <1>5. d = [b EXCEPT !.held = <<>>, !.reading = FALSE, !.pump = "idle"]
    BY <1>3 DEF Lost
  <1>6. /\ d \in Stream /\ d.got = c.got /\ d.queue = <<>> /\ d.held = <<>> /\ ~d.open
        /\ ~d.timers /\ ~d.reading /\ d.pump = "idle" /\ d.cursor = c.cursor
    BY <1>2, <1>4, <1>5 DEF Stream
  <1>7. Seen(d) = Seen(c) /\ Base(d) = Seen(c)
    BY <1>6 DEF Seen, Base
  <1>8. Seen(c) \in Nat /\ Base(c) \in Nat /\ c.cursor \in Nat
    BY <1>1, SeenIsLast DEF Stream
  <1>9. Ascending(d)
    BY <1>1, <1>6, <1>7, <1>8 DEF Ascending
  <1>10. FramesOf(d) \subseteq FramesOf(c)
    BY <1>6 DEF FramesOf, Elements
  <1> QED  BY <1>6, <1>9, <1>10 DEF InOrder, Contiguous

-------------------------------------------------------------------------------
(* The invariant.                                                          *)

LEMMA StreamingInit == Init => Streaming
  <1> SUFFICES ASSUME Init PROVE Streaming
    OBVIOUS
  <1> USE DEF Init
  <1>1. /\ s.open = FALSE /\ s.held = <<>> /\ s.queue = <<>> /\ s.got = <<>> /\ s.reading = FALSE
        /\ s.timers = FALSE /\ s.cursor = 0 /\ s.pump = "idle" /\ s.overflow = FALSE
        /\ s.terminalDrain = FALSE
    OBVIOUS
  <1>2. s \in Stream
    <2>1. <<>> \in Seq(Frames)
      OBVIOUS
    <2> QED  BY <2>1 DEF Stream
  <1>3. TypeOK
    <2>1. <<"accepted">> \in Seq(EventTypes)
      BY DEF EventTypes
    <2>2. 0 \in 0..MaxCrashes /\ 0 \in 0..MaxCancels /\ 0 \in 0..MaxBeats /\ 0 \in 0..MaxRollbacks
      BY StreamAssumption
    <2> QED  BY <1>2, <2>1, <2>2 DEF TypeOK
  <1>4. FramesOf(s) = {}
    BY <1>1 DEF FramesOf, Elements
  <1>5. Ascending(s)
    BY <1>1 DEF Ascending, Base, Seen
  <1>6. LogEnds
    BY DEF LogEnds, Terminal
  <1>7. Contiguous(s)
    BY <1>1 DEF Contiguous
  <1> QED
    BY <1>1, <1>3, <1>4, <1>5, <1>6, <1>7 DEF Streaming, Connected, Cursor, Ending, EndTellsOutcome

\* Events, as frames.
LEMMA EventFrames ==
    ASSUME NEW n \in Nat, NEW t \in EventTypes
    PROVE  /\ [seq |-> n, type |-> t] \in Frames
           /\ [seq |-> n, type |-> t] # Heartbeat
  BY DEF Frames, Heartbeat, EventTypes, Terminal

\* The cursor of an open stream that is at the end of a settled run's log has
\* passed the event that ends it.
LEMMA EndIsTold ==
    ASSUME Streaming, s.open, state \in Terminal, s.cursor >= Len(log)
    PROVE  Tells(s)
  <1>1. log \in Seq(EventTypes) /\ log # <<>> /\ log[Len(log)] \in Terminal /\ s \in Stream
    BY DEF Streaming, TypeOK, LogEnds
  <1>2. Len(log) \in Nat /\ Len(log) > 0 /\ s.cursor \in Nat
    BY <1>1 DEF Stream
  <1>3. PICK f \in FramesOf(s) : f.seq = s.cursor
    BY <1>2 DEF Streaming, Cursor
  <1>4. f.type \in Terminal \/ Logged(f, log)
    BY DEF Streaming
  <1>5. Logged(f, log) => f.type \in Terminal
    BY <1>1, <1>2, <1>3 DEF Logged
  <1> QED  BY <1>3, <1>4, <1>5 DEF Tells


\* A step of the stream that sends nothing.
LEMMA QuietSteps ==
    ASSUME Streaming, TypeOK', UNCHANGED <<log, state, up, ended, phantom>>, ended = "no",
           InOrder(s'), FramesOf(s') = FramesOf(s),
           s'.cursor = s.cursor, s'.overflow = s.overflow,
           s'.open => s.open,
           s.terminalDrain => s'.terminalDrain,
           s'.terminalDrain => s.terminalDrain \/ (state \in Terminal /\ s.cursor >= Len(log) /\ s.open),
           s.open /\ ~s'.open => s'.terminalDrain,
           s'.open /\ s'.pump # "running" => s.pump # "running" \/ s.cursor >= Len(log),
           Contiguous(s) => Contiguous(s')
    PROVE  Streaming'
  <1>1. LogEnds'
    BY DEF Streaming, LogEnds
  <1>2. Connected'
    BY DEF Streaming, Connected
  <1>3. Ascending(s')
    BY DEF InOrder
  <1>4. Cursor'
    BY DEF Streaming, Cursor
  <1>5. \A f \in FramesOf(s') : Logged(f, log) => Logged(f, log')
    BY DEF Logged
  <1>6. Ending'
    <2>1. s'.terminalDrain /\ ~s'.overflow => Tells(s')
      <3>1. s'.terminalDrain /\ ~s'.overflow => Tells(s)
        BY EndIsTold DEF Streaming, Ending
      <3> QED  BY <3>1 DEF Tells
    <2>2. s'.terminalDrain /\ s'.open => state # "queued" /\ s'.cursor >= Len(log)
      BY DEF Streaming, Ending, Terminal
    <2>3. ~s'.open => s'.terminalDrain \/ s'.overflow
      BY DEF Streaming, Ending
    <2> QED  BY <2>1, <2>2, <2>3 DEF Ending, EndTellsOutcome
  <1> QED  BY <1>1, <1>2, <1>3, <1>4, <1>5, <1>6 DEF Streaming

\* A new event of the log, told to the subscriber, if there is one: as it is,
\* or as the end of the run that was rolled back in favour of this one.
LEMMA RecordKeeps ==
    ASSUME Streaming, TypeOK', UNCHANGED <<up, ended>>, phantom => phantom', Idle,
           NEW type \in EventTypes, NEW told \in EventTypes,
           log' = Append(log, type),
           s' = Emitted(s, [seq |-> Len(log) + 1, type |-> told]),
           \/ told = type
           \/ told \in Terminal /\ type \in Terminal /\ (s.open => phantom'),
           \/ type \in Terminal /\ state' = type /\ state = "running"
           \/ type \notin Terminal /\ state' = "running" /\ state = "queued"
    PROVE  Streaming'
  <1> DEFINE f == [seq |-> Len(log) + 1, type |-> told]
  <1>1. /\ log \in Seq(EventTypes) /\ Len(log) \in Nat
        /\ log' = Append(log, type) /\ s' = Emitted(s, f)
        /\ InOrder(s) /\ s \in Stream /\ s.cursor \in Nat
    BY DEF Streaming, TypeOK, InOrder, Stream
  <1>2. /\ \A k \in DOMAIN log : k \in DOMAIN log' /\ log'[k] = log[k] /\ k \in Nat /\ k <= Len(log)
        /\ \A k \in DOMAIN log' : k \in DOMAIN log \/ k = Len(log) + 1
        /\ log'[Len(log) + 1] = type /\ Len(log') = Len(log) + 1 /\ log' # <<>>
        /\ Len(log) + 1 \in DOMAIN log'
    BY <1>1
  <1>3. f \in Frames /\ f # Heartbeat /\ f.seq = Len(log) + 1 /\ f.type = told
    BY <1>1, EventFrames
  <1>4. s.overflow => ~s.open
    BY DEF Streaming, Connected
  <1>5. state \notin Terminal
    BY DEF Terminal
  <1>6. LogEnds'
    <2>1. \A k \in DOMAIN log : log[k] \notin Terminal
      BY <1>5 DEF Streaming, LogEnds
    <2>2. state' \in Terminal => type \in Terminal
      BY DEF Terminal
    <2>3. \A k \in DOMAIN log' : log'[k] \in Terminal => k = Len(log') /\ type \in Terminal
      BY <1>2, <2>1
    <2>4. type \in Terminal => state' \in Terminal
      OBVIOUS
    <2> QED  BY <1>2, <2>2, <2>3, <2>4 DEF LogEnds
  <1>7. \A g : Logged(g, log) => Logged(g, log')
    BY <1>2 DEF Logged
  <1>8. told = type => Logged(f, log')
    BY <1>2, <1>3 DEF Logged
  <1> HIDE DEF f
  <1>9. \/ s' = s /\ (s.open => f.seq <= s.cursor)
        \/ Sent(s, f, s')
    BY <1>1, <1>3, <1>4, EmittedKeeps
  <1>10. CASE s' = s /\ (s.open => f.seq <= s.cursor)
    <2>1. Connected' /\ Ascending(s')
      BY <1>10 DEF Streaming, Connected
    <2>2. Cursor'
      BY <1>1, <1>2, <1>3, <1>10 DEF Streaming, Cursor
    <2>3. Ending'
      <3>1. s.terminalDrain /\ s.open => state' # "queued" /\ s'.cursor >= Len(log')
        BY <1>1, <1>2, <1>3, <1>10 DEF Terminal
      <3> QED  BY <3>1, <1>10 DEF Streaming, Ending, EndTellsOutcome, Tells, Informed
    <2> QED  BY <2>1, <2>2, <2>3, <1>6, <1>7, <1>10 DEF Streaming
  <1>11. CASE Sent(s, f, s')
    <2>1. /\ s.open /\ ended = "no" /\ up /\ s.pump # "running" /\ s'.pump # "running"
          /\ s'.cursor = Len(log) + 1 /\ f.seq = Len(log) + 1
      BY <1>3, <1>11 DEF Sent, Streaming, Connected, Idle
    <2>2. s.cursor = Len(log)
      BY <1>1, <1>3, <1>11, <2>1 DEF Sent, Streaming, Cursor
    <2>3. Connected'
      BY <1>11, <2>1 DEF Connected, Sent
    <2>4. Ascending(s')
      BY <1>11 DEF Sent, InOrder
    <2>5. ~s'.overflow => f \in FramesOf(s')
      BY <1>11 DEF Sent
    <2>6. s'.overflow => ~s'.open
      BY <1>11 DEF Sent
    <2>7. Cursor'
      BY <1>2, <2>1, <2>5, <2>6 DEF Cursor
    <2>8. Ending'
      <3>1. ASSUME s'.terminalDrain PROVE told \in Terminal /\ type \in Terminal
        <4>1. s.terminalDrain => state # "queued"
          BY <2>1 DEF Streaming, Ending
        <4> QED  BY <3>1, <4>1, <1>3, <1>11 DEF Sent
      <3>2. s'.terminalDrain /\ ~s'.overflow => Tells(s')
        BY <3>1, <2>1, <2>5, <1>3 DEF Tells
      <3>3. s'.terminalDrain => state' # "queued"
        BY <3>1 DEF Terminal
      <3>4. ~s'.open => s'.terminalDrain \/ s'.overflow
        BY <1>11 DEF Sent
      <3>5. s'.cursor >= Len(log')
        BY <1>1, <1>2, <2>1
      <3> QED  BY <3>2, <3>3, <3>4, <3>5, <2>1 DEF Ending, EndTellsOutcome
    <2>9. FramesOf(s') \subseteq FramesOf(s) \cup {f}
      BY <1>11 DEF Sent
    <2>10. \A g \in FramesOf(s') : g.type \in Terminal \/ Logged(g, log')
      BY <1>3, <1>7, <1>8, <2>9 DEF Streaming
    <2>11. ~phantom' => Contiguous(s') /\ (\A g \in FramesOf(s') : Logged(g, log'))
      <3>1. Contiguous(s) => Contiguous(s')
        BY <1>11, <2>1, <2>2 DEF Sent
      <3> QED  BY <3>1, <2>1, <1>7, <1>8, <2>9 DEF Streaming
    <2> QED  BY <1>6, <2>3, <2>4, <2>7, <2>8, <2>10, <2>11 DEF Streaming
  <1> QED  BY <1>9, <1>10, <1>11

\* The end of the run, told to the subscriber and rolled back.
LEMMA PhantomKeeps ==
    ASSUME Streaming, TypeOK', UNCHANGED <<log, state, up, ended>>, Idle, state = "running",
           phantom' = (phantom \/ s.open),
           s' = Emitted(s, [seq |-> Len(log) + 1, type |-> "completed"])
    PROVE  Streaming'
  <1> DEFINE f == [seq |-> Len(log) + 1, type |-> "completed"]
  <1>1. /\ log \in Seq(EventTypes) /\ Len(log) \in Nat /\ s' = Emitted(s, f)
        /\ InOrder(s) /\ s \in Stream /\ s.cursor \in Nat
    BY DEF Streaming, TypeOK, InOrder, Stream
  <1>2. "completed" \in EventTypes /\ "completed" \in Terminal /\ state # "queued"
    BY DEF EventTypes, Terminal
  <1>3. f \in Frames /\ f # Heartbeat /\ f.seq = Len(log) + 1 /\ f.type \in Terminal
    BY <1>1, <1>2, EventFrames
  <1>4. s.overflow => ~s.open
    BY DEF Streaming, Connected
  <1>5. LogEnds'
    BY DEF Streaming, LogEnds
  <1> HIDE DEF f
  <1>6. \/ s' = s /\ (s.open => f.seq <= s.cursor)
        \/ Sent(s, f, s')
    BY <1>1, <1>3, <1>4, EmittedKeeps
  <1>7. CASE s' = s
    <2>1. Connected' /\ Ascending(s') /\ Cursor'
      BY <1>7 DEF Streaming, Connected, Cursor
    <2>2. Ending'
      BY <1>7 DEF Streaming, Ending, EndTellsOutcome, Tells, Informed
    <2>3. ~phantom' => ~phantom
      OBVIOUS
    <2> QED  BY <2>1, <2>2, <2>3, <1>5, <1>7 DEF Streaming
  <1>8. CASE Sent(s, f, s')
    <2>1. /\ s.open /\ phantom' /\ ended = "no" /\ up
          /\ s'.cursor = Len(log) + 1 /\ f.seq = Len(log) + 1
      BY <1>3, <1>8 DEF Sent, Streaming, Connected
    <2>2. Connected'
      BY <1>8, <2>1 DEF Connected, Sent
    <2>3. Ascending(s')
      BY <1>8 DEF Sent, InOrder
    <2>4. ~s'.overflow => f \in FramesOf(s')
      BY <1>8 DEF Sent
    <2>5. s'.overflow => ~s'.open
      BY <1>8 DEF Sent
    <2>6. Cursor'
      <3>1. s'.cursor >= Len(log')
        BY <1>1, <2>1
      <3>2. s'.open => \E g \in FramesOf(s') : g.seq = s'.cursor
        BY <2>1, <2>4, <2>5
      <3> QED  BY <3>1, <3>2 DEF Cursor
    <2>7. Ending'
      <3>1. ~s'.overflow => Tells(s')
        BY <2>1, <2>4, <1>3 DEF Tells
      <3>2. ~s'.open => s'.terminalDrain \/ s'.overflow
        BY <1>8 DEF Sent
      <3>3. s'.cursor >= Len(log')
        BY <1>1, <2>1
      <3> QED  BY <3>1, <3>2, <3>3, <2>1, <1>2 DEF Ending, EndTellsOutcome
    <2>8. FramesOf(s') \subseteq FramesOf(s) \cup {f}
      BY <1>8 DEF Sent
    <2>9. \A g \in FramesOf(s') : g.type \in Terminal \/ Logged(g, log')
      <3>1. log' = log
        OBVIOUS
      <3>2. \A g \in FramesOf(s) : g.type \in Terminal \/ Logged(g, log)
        BY DEF Streaming
      <3> QED  BY <3>1, <3>2, <1>3, <2>8
    <2> QED  BY <1>5, <2>1, <2>2, <2>3, <2>6, <2>7, <2>9 DEF Streaming
  <1> QED  BY <1>6, <1>7, <1>8

\* The types of everything but the stream, whatever the step.
LEMMA TypesKept ==
    ASSUME TypeOK, Next, s' \in Stream
    PROVE  TypeOK'
  <1>1. /\ MaxCrashes \in Nat /\ MaxCancels \in Nat /\ MaxBeats \in Nat /\ MaxRollbacks \in Nat
        /\ crashes \in 0..MaxCrashes /\ cancels \in 0..MaxCancels
        /\ beats \in 0..MaxBeats /\ rollbacks \in 0..MaxRollbacks
    BY StreamAssumption DEF TypeOK
  <1>2. /\ crashes' \in 0..MaxCrashes /\ cancels' \in 0..MaxCancels
        /\ beats' \in 0..MaxBeats /\ rollbacks' \in 0..MaxRollbacks
    <2>1. crashes' = crashes \/ (crashes < MaxCrashes /\ crashes' = crashes + 1)
      BY DEF Next, RunSteps, Timers, Start, Settle, SettleRolledBack, Crash, Boot, PumpStep,
             PumpWakes, ReplayTimer, HeartbeatTimer, DrainTimer, Connect, ClientReads,
             ClientSeesEnd, Cancel, budget
    <2>2. cancels' = cancels \/ (cancels < MaxCancels /\ cancels' = cancels + 1)
      BY DEF Next, RunSteps, Timers, Start, Settle, SettleRolledBack, Crash, Boot, PumpStep,
             PumpWakes, ReplayTimer, HeartbeatTimer, DrainTimer, Connect, ClientReads,
             ClientSeesEnd, Cancel, budget
    <2>3. beats' = beats \/ (beats < MaxBeats /\ beats' = beats + 1)
      BY DEF Next, RunSteps, Timers, Start, Settle, SettleRolledBack, Crash, Boot, PumpStep,
             PumpWakes, ReplayTimer, HeartbeatTimer, DrainTimer, Connect, ClientReads,
             ClientSeesEnd, Cancel, budget
    <2>4. rollbacks' = rollbacks \/ (rollbacks < MaxRollbacks /\ rollbacks' = rollbacks + 1)
      BY DEF Next, RunSteps, Timers, Start, Settle, SettleRolledBack, Crash, Boot, PumpStep,
             PumpWakes, ReplayTimer, HeartbeatTimer, DrainTimer, Connect, ClientReads,
             ClientSeesEnd, Cancel, budget
    <2> QED  BY <1>1, <2>1, <2>2, <2>3, <2>4
  <1>3. log' = log \/ \E t \in EventTypes : log' = Append(log, t)
    BY DEF Next, RunSteps, Timers, Start, Settle, SettleRolledBack, Crash, Boot, PumpStep,
           PumpWakes, ReplayTimer, HeartbeatTimer, DrainTimer, Connect, ClientReads,
           ClientSeesEnd, Cancel, run, Record, EventTypes, Terminal
  <1>4. log' \in Seq(EventTypes)
    BY <1>3 DEF TypeOK
  <1>5. /\ state' \in {"queued", "running"} \cup Terminal
        /\ up' \in BOOLEAN
        /\ ended' \in {"no", "end", "lost"}
    BY DEF TypeOK, Next, RunSteps, Timers, Start, Settle, SettleRolledBack, Crash, Boot, PumpStep,
           PumpWakes, ReplayTimer, HeartbeatTimer, DrainTimer, Connect, ClientReads,
           ClientSeesEnd, Cancel, run, Terminal
  <1>6. phantom' \in BOOLEAN
    <2>1. phantom' = phantom \/ phantom' = (phantom \/ s.open)
      BY DEF Next, RunSteps, Timers, Start, Settle, SettleRolledBack, Crash, Boot, PumpStep,
             PumpWakes, ReplayTimer, HeartbeatTimer, DrainTimer, Connect, ClientReads,
             ClientSeesEnd, Cancel
    <2> QED  BY <2>1 DEF TypeOK
  <1> QED  BY <1>2, <1>4, <1>5, <1>6 DEF TypeOK

\* The stream of a client that is gone or of a process that died, and one that a
\* client has seen the end of.
LEMMA LostSteps ==
    ASSUME Streaming, TypeOK', UNCHANGED <<log, state, phantom>>,
           ended' = "lost", s' = Lost(s)
    PROVE  Streaming'
  <1>1. InOrder(s)
    BY DEF Streaming, TypeOK, InOrder
  <1>2. /\ InOrder(s') /\ FramesOf(s') \subseteq FramesOf(s)
        /\ ~s'.open /\ s'.held = <<>> /\ ~s'.reading /\ s'.pump = "idle"
        /\ Contiguous(s) => Contiguous(s')
    BY <1>1, LostKeeps
  <1>3. LogEnds'
    BY DEF Streaming, LogEnds
  <1>4. Connected' /\ Cursor' /\ Ending'
    BY <1>2 DEF Connected, Cursor, Ending, EndTellsOutcome
  <1>5. log' = log /\ phantom' = phantom
    OBVIOUS
  <1>6. \A f \in FramesOf(s) : f.type \in Terminal \/ Logged(f, log)
    BY DEF Streaming
  <1>7. ~phantom => Contiguous(s) /\ \A f \in FramesOf(s) : Logged(f, log)
    BY DEF Streaming
  <1> QED  BY <1>2, <1>3, <1>4, <1>5, <1>6, <1>7 DEF Streaming, InOrder

LEMMA BootKeeps ==
    ASSUME Streaming, TypeOK', Boot
    PROVE  Streaming'
  <1>1. /\ ~up /\ up' /\ s' = s /\ ended' = ended /\ phantom' = phantom
        /\ \/ state = "running" /\ state' = "queued" /\ log' = Append(log, "recovered")
           \/ state' = state /\ log' = log
    BY DEF Boot, run
  <1>2. ended = "lost" /\ ~s.open
    BY <1>1 DEF Streaming, Connected
  <1>3. log \in Seq(EventTypes) /\ "recovered" \in EventTypes
    BY DEF Streaming, TypeOK, EventTypes
  <1>4. /\ \A k \in DOMAIN log : k \in DOMAIN log' /\ log'[k] = log[k]
        /\ \A k \in DOMAIN log' : k \in DOMAIN log \/ log'[k] = "recovered"
    BY <1>1, <1>3
  <1>5. LogEnds'
    <2>1. CASE state' = state /\ log' = log
      BY <2>1 DEF Streaming, LogEnds
    <2>2. CASE state = "running" /\ state' = "queued" /\ log' = Append(log, "recovered")
      <3>1. log' # <<>>
        BY <2>2, <1>3
      <3>2. \A k \in DOMAIN log : log[k] \notin Terminal
        BY <2>2 DEF Streaming, LogEnds, Terminal
      <3>3. \A k \in DOMAIN log' : log'[k] \notin Terminal
        BY <3>2, <1>4 DEF Terminal
      <3> QED  BY <3>1, <3>3, <2>2 DEF LogEnds, Terminal
    <2> QED  BY <2>1, <2>2, <1>1
  <1>6. \A f : Logged(f, log) => Logged(f, log')
    BY <1>4 DEF Logged
  <1>7. Connected' /\ Cursor' /\ Ending' /\ Ascending(s')
    BY <1>1, <1>2 DEF Streaming, Connected, Cursor, Ending, EndTellsOutcome
  <1>8. \A f \in FramesOf(s) : f.type \in Terminal \/ Logged(f, log')
    BY <1>6 DEF Streaming
  <1>9. ~phantom => Contiguous(s) /\ \A f \in FramesOf(s) : Logged(f, log')
    BY <1>6 DEF Streaming
  <1> QED  BY <1>1, <1>5, <1>7, <1>8, <1>9 DEF Streaming

\* A new stream goes on where the client's last one stopped.
LEMMA ConnectKeeps ==
    ASSUME Streaming, Connect, s' \in Stream => TypeOK'
    PROVE  Streaming'
  <1>1. /\ UNCHANGED <<log, state, up, phantom>> /\ ended # "no" /\ ended' = "no" /\ up
        /\ s' = [s EXCEPT !.open = TRUE, !.started = FALSE, !.cursor = LastSeen, !.pump = "running",
                          !.late = FALSE, !.terminalDrain = FALSE, !.overflow = FALSE]
    BY DEF Connect, run, Idle
  <1>2. s \in Stream /\ Ascending(s) /\ s.held = <<>> /\ ~s.reading /\ ~s.open
    BY <1>1 DEF Streaming, TypeOK, Connected
  <1>3. s.queue = <<>> /\ ~s.timers
    BY <1>2 DEF Ascending
  <1>4. LastSeen = Seen(s) /\ Seen(s) \in Nat
    BY <1>2, SeenIsLast DEF LastSeen, Seen
  <1>5. /\ s' \in Stream /\ s'.open /\ s'.cursor = Seen(s) /\ s'.pump = "running"
        /\ s'.terminalDrain = FALSE /\ s'.overflow = FALSE
        /\ s'.got = s.got /\ s'.held = <<>> /\ s'.queue = <<>> /\ ~s'.reading /\ ~s'.timers
    BY <1>1, <1>2, <1>3, <1>4 DEF Stream
  <1>6. Seen(s') = Seen(s) /\ Base(s') = Seen(s) /\ FramesOf(s') = FramesOf(s)
    BY <1>2, <1>3, <1>5 DEF Seen, Base, FramesOf
  <1>7. Ascending(s')
    BY <1>2, <1>4, <1>5, <1>6 DEF Ascending
  <1>8. \A i \in DOMAIN s.got : s.got[i] \in FramesOf(s)
    <2>1. \A i \in DOMAIN s.got : s.got[i].seq > 0
      BY <1>2 DEF Ascending
    <2>2. \A i \in DOMAIN s.got : s.got[i] # Heartbeat
      BY <2>1 DEF Heartbeat
    <2> QED  BY <2>2 DEF FramesOf, Elements
  <1>9. s.got # <<>> => Len(s.got) \in DOMAIN s.got /\ Len(s.got) \in Nat
    BY <1>2 DEF Stream
  <1>10. Cursor'
    <2>1. s'.cursor > 0 => \E f \in FramesOf(s') : f.seq = s'.cursor
      BY <1>4, <1>5, <1>6, <1>8, <1>9 DEF Seen
    <2> QED  BY <2>1, <1>5 DEF Cursor
  <1>11. Connected' /\ Ending'
    BY <1>1, <1>5 DEF Connected, Ending, EndTellsOutcome
  <1>12. Contiguous(s) => Contiguous(s')
    <2> SUFFICES ASSUME Contiguous(s), NEW n \in 1..Seen(s)
                 PROVE  \E f \in FramesOf(s) : f.seq = n
      BY <1>5, <1>6 DEF Contiguous
    <2>1. s.got # <<>> /\ Seen(s) = Len(s.got)
      BY <1>4, <1>9 DEF Seen, Contiguous
    <2>2. n \in DOMAIN s.got
      BY <2>1, <1>2 DEF Stream
    <2> QED  BY <2>2, <1>8 DEF Contiguous
  <1>13. LogEnds'
    BY <1>1 DEF Streaming, LogEnds
  <1>14. log' = log /\ phantom' = phantom
    BY <1>1
  <1>15. \A f \in FramesOf(s) : f.type \in Terminal \/ Logged(f, log)
    BY DEF Streaming
  <1>16. ~phantom => Contiguous(s) /\ \A f \in FramesOf(s) : Logged(f, log)
    BY DEF Streaming
  <1> QED  BY <1>5, <1>6, <1>7, <1>10, <1>11, <1>12, <1>13, <1>14, <1>15, <1>16 DEF Streaming

\* The client sees the end only of a stream that has been drained, or overflowed.
LEMMA SeesEndKeeps ==
    ASSUME Streaming, ClientSeesEnd, s' \in Stream => TypeOK'
    PROVE  Streaming'
  <1>1. /\ UNCHANGED <<log, state, up, phantom>> /\ ended = "no" /\ ended' = "end" /\ up
        /\ ~s.open /\ s.held = <<>> /\ s.pump = "idle"
        /\ s' = [s EXCEPT !.reading = FALSE]
    BY DEF ClientSeesEnd, run, Idle
  <1>2. s \in Stream /\ Ascending(s) /\ InOrder(s) /\ s.queue = <<>>
    BY <1>1 DEF Streaming, TypeOK, Ascending, InOrder
  <1>3. /\ s' \in Stream /\ s'.open = s.open /\ s'.reading = FALSE /\ s'.got = s.got
        /\ s'.held = s.held /\ s'.queue = s.queue /\ s'.cursor = s.cursor /\ s'.pump = s.pump
        /\ s'.timers = s.timers /\ s'.overflow = s.overflow
    BY <1>1, <1>2 DEF Stream
  <1>4. InOrder(s') /\ FramesOf(s') = FramesOf(s) /\ (Contiguous(s) => Contiguous(s'))
    BY <1>1, <1>2, <1>3, SameFrames
  <1>5. Informed \/ s.overflow
    <2> SUFFICES ASSUME ~s.overflow PROVE Informed
      OBVIOUS
    <2>1. Tells(s)
      BY <1>1 DEF Streaming, Ending
    <2>2. PICK f \in FramesOf(s) : f.seq = s.cursor /\ f.type \in Terminal
      BY <2>1 DEF Tells
    <2>3. PICK i \in DOMAIN s.got : f = s.got[i]
      BY <2>2, <1>1, <1>2 DEF FramesOf, Elements
    <2>4. s.got # <<>> /\ i \in 1..Len(s.got) /\ Len(s.got) \in DOMAIN s.got
      BY <2>3, <1>2 DEF Stream
    <2>5. Seen(s) <= s.cursor /\ Seen(s) \in Nat /\ s.cursor \in Nat /\ f.seq <= Seen(s)
      BY <2>3, <1>2, SeenIsLast DEF Ascending, Stream
    <2>6. s.got[Len(s.got)].seq = f.seq
      BY <2>2, <2>4, <2>5 DEF Seen
    <2>7. i = Len(s.got)
      <3>1. i < Len(s.got) => f.seq < s.got[Len(s.got)].seq
        BY <2>3, <2>4, <1>2 DEF Ascending
      <3> QED  BY <3>1, <2>2, <2>4, <2>5, <2>6
    <2> QED  BY <2>2, <2>3, <2>4, <2>7 DEF Informed
  <1>6. Ending'
    BY <1>1, <1>3, <1>5 DEF Ending, EndTellsOutcome, Informed
  <1>7. Connected' /\ Cursor'
    BY <1>1, <1>3 DEF Streaming, Connected, Cursor
  <1>8. LogEnds'
    BY <1>1 DEF Streaming, LogEnds
  <1>9. log' = log /\ phantom' = phantom
    BY <1>1
  <1>10. \A f \in FramesOf(s) : f.type \in Terminal \/ Logged(f, log)
    BY DEF Streaming
  <1>11. ~phantom => Contiguous(s) /\ \A f \in FramesOf(s) : Logged(f, log)
    BY DEF Streaming
  <1> QED  BY <1>3, <1>4, <1>6, <1>7, <1>8, <1>9, <1>10, <1>11 DEF Streaming, InOrder

\* The timers and reads that only move frames, and the pump's steps.
LEMMA QuietActions ==
    ASSUME Streaming, s' \in Stream => TypeOK',
           PumpStep \/ Timers \/ ClientReads
    PROVE  Streaming'
  <1>1. s \in Stream /\ InOrder(s) /\ log \in Seq(EventTypes) /\ Len(log) \in Nat /\ s.cursor \in Nat
    BY DEF Streaming, TypeOK, InOrder, Stream
  <1>2. s.pump # "idle" \/ s.open => ended = "no"
    BY DEF Streaming, Connected
  <1>3. s.timers => s.open
    BY <1>1 DEF InOrder, Ascending
  <1>4. CASE PumpStep
    <2>1. s.pump = "running" /\ UNCHANGED <<log, state, up, ended, phantom>> /\ ended = "no"
      BY <1>2, <1>4 DEF PumpStep, run
    <2>2. CASE ~s.open
      <3>1. s' = PumpEnds(s, TRUE)
        BY <2>2, <1>4 DEF PumpStep
      <3>2. /\ InOrder(s') /\ FramesOf(s') = FramesOf(s)
            /\ s'.pump = "idle" /\ s'.cursor = s.cursor /\ s'.overflow = s.overflow
            /\ s'.open => s.open
            /\ s'.terminalDrain = s.terminalDrain
            /\ s.open /\ ~s'.open => s'.terminalDrain
            /\ Contiguous(s) => Contiguous(s')
        BY <3>1, <1>1, PumpEndsKeeps
      <3>3. TypeOK'
        BY <3>2 DEF InOrder
      <3> QED  BY <3>2, <3>3, <2>1, <2>2, QuietSteps
    <2>3. CASE s.open /\ s.cursor < Len(log)
      <3> DEFINE f == [seq |-> s.cursor + 1, type |-> log[s.cursor + 1]]
      <3>1. s' = Emitted(s, f)
        BY <2>3, <1>4 DEF PumpStep
      <3>2. s.cursor + 1 \in DOMAIN log /\ log[s.cursor + 1] \in EventTypes
        BY <2>3, <1>1
      <3>3. /\ f \in Frames /\ f # Heartbeat /\ f.seq = s.cursor + 1
            /\ f.type = log[s.cursor + 1] /\ Logged(f, log)
        BY <3>2, <1>1, EventFrames DEF Logged
      <3> HIDE DEF f
      <3>4. s.overflow => ~s.open
        BY DEF Streaming, Connected
      <3>5. Sent(s, f, s')
        BY <3>1, <3>3, <3>4, <2>3, <1>1, EmittedKeeps
      <3>6. /\ InOrder(s') /\ s'.pump = "running" /\ s'.cursor = s.cursor + 1
            /\ FramesOf(s') \subseteq FramesOf(s) \cup {f}
            /\ s'.overflow => ~s'.open
            /\ ~s'.overflow => f \in FramesOf(s')
            /\ Contiguous(s) => Contiguous(s')
        BY <3>3, <3>5, <2>1 DEF Sent
      <3>7. TypeOK' /\ Ascending(s')
        BY <3>6 DEF InOrder
      <3>8. LogEnds'
        BY <2>1 DEF Streaming, LogEnds
      <3>9. Connected' /\ Cursor'
        BY <3>3, <3>6, <2>1, <2>3 DEF Streaming, Connected, Cursor
      <3>10. Ending'
        <4>1. ~s.terminalDrain
          BY <2>3, <1>1 DEF Streaming, Ending
        <4>2. s'.terminalDrain => f.type \in Terminal
          BY <4>1, <3>5 DEF Sent
        <4>3. f.type \in Terminal => s.cursor + 1 = Len(log) /\ state \in Terminal
          BY <3>2, <3>3 DEF Streaming, LogEnds
        <4>4. s'.terminalDrain /\ ~s'.overflow => Tells(s')
          BY <4>2, <3>3, <3>6 DEF Tells
        <4>5. s'.terminalDrain => state' # "queued" /\ s'.cursor >= Len(log')
          BY <4>2, <4>3, <3>6, <2>1, <1>1 DEF Terminal
        <4>6. ~s'.open => s'.terminalDrain \/ s'.overflow
          BY <3>5 DEF Sent
        <4> QED  BY <4>4, <4>5, <4>6, <2>1 DEF Ending, EndTellsOutcome
      <3>11. log' = log /\ phantom' = phantom
        BY <2>1
      <3>12. \A g \in FramesOf(s) : g.type \in Terminal \/ Logged(g, log)
        BY DEF Streaming
      <3>13. ~phantom => Contiguous(s) /\ \A g \in FramesOf(s) : Logged(g, log)
        BY DEF Streaming
      <3> QED  BY <3>3, <3>6, <3>7, <3>8, <3>9, <3>10, <3>11, <3>12, <3>13 DEF Streaming
    <2>4. CASE s.open /\ ~(s.cursor < Len(log)) /\ state \notin Terminal
      <3>1. s' = PumpEnds(s, FALSE)
        BY <2>4, <1>4 DEF PumpStep
      <3>2. /\ InOrder(s') /\ FramesOf(s') = FramesOf(s)
            /\ s'.pump = "idle" /\ s'.cursor = s.cursor /\ s'.overflow = s.overflow
            /\ s'.open => s.open
            /\ s'.terminalDrain = s.terminalDrain
            /\ s.open /\ ~s'.open => s'.terminalDrain
            /\ Contiguous(s) => Contiguous(s')
        BY <3>1, <1>1, PumpEndsKeeps
      <3>3. TypeOK'
        BY <3>2 DEF InOrder
      <3>4. s.cursor >= Len(log)
        BY <2>4, <1>1
      <3> QED  BY <3>2, <3>3, <3>4, <2>1, QuietSteps
    <2>5. CASE s.open /\ ~(s.cursor < Len(log)) /\ state \in Terminal /\ s.late
      <3>1. PICK c : c = TerminalClose(s)
        OBVIOUS
      <3>2. s' = PumpEnds(c, TRUE)
        BY <3>1, <2>5, <1>4 DEF PumpStep
      <3>3. Onward(s, c) /\ c.terminalDrain
        BY <3>1, <2>5, <1>1, TerminalCloseKeeps
      <3>4. InOrder(c)
        BY <3>3 DEF Onward
      <3>5. /\ InOrder(s') /\ FramesOf(s') = FramesOf(c)
            /\ s'.pump = "idle" /\ s'.cursor = c.cursor /\ s'.overflow = c.overflow
            /\ s'.open => c.open
            /\ s'.terminalDrain = c.terminalDrain
            /\ c.open /\ ~s'.open => s'.terminalDrain
            /\ Contiguous(c) => Contiguous(s')
        BY <3>2, <3>4, PumpEndsKeeps
      <3>6. TypeOK'
        BY <3>5 DEF InOrder
      <3>7. s.cursor >= Len(log)
        BY <2>5, <1>1
      <3> QED  BY <3>3, <3>5, <3>6, <3>7, <2>1, <2>5, QuietSteps DEF Onward
    <2>6. CASE s.open /\ ~(s.cursor < Len(log)) /\ state \in Terminal /\ ~s.late
      <3>1. s' = [s EXCEPT !.pump = "waiting"]
        BY <2>6, <1>4 DEF PumpStep
      <3>2. /\ s' \in Stream /\ s'.got = s.got /\ s'.held = s.held /\ s'.queue = s.queue
            /\ s'.reading = s.reading /\ s'.open = s.open /\ s'.timers = s.timers
            /\ s'.cursor = s.cursor /\ s'.overflow = s.overflow
            /\ s'.terminalDrain = s.terminalDrain
        BY <3>1, <1>1 DEF Stream
      <3>3. InOrder(s') /\ FramesOf(s') = FramesOf(s) /\ (Contiguous(s) => Contiguous(s'))
        BY <3>2, <1>1, SameFrames
      <3>4. s.cursor >= Len(log)
        BY <2>6, <1>1
      <3> QED  BY <3>2, <3>3, <3>4, <2>1, QuietSteps
    <2> QED  BY <2>2, <2>3, <2>4, <2>5, <2>6
  <1>5. CASE (\E b \in BOOLEAN : PumpWakes(b)) \/ ReplayTimer
    <2>1. /\ UNCHANGED <<log, state, up, ended, phantom>> /\ ended = "no"
          /\ \E b \in BOOLEAN : s' = [s EXCEPT !.pump = "running", !.late = b]
      BY <1>2, <1>3, <1>5 DEF PumpWakes, ReplayTimer, run
    <2>2. /\ s' \in Stream /\ s'.got = s.got /\ s'.held = s.held /\ s'.queue = s.queue
          /\ s'.reading = s.reading /\ s'.open = s.open /\ s'.timers = s.timers
          /\ s'.cursor = s.cursor /\ s'.overflow = s.overflow /\ s'.pump = "running"
          /\ s'.terminalDrain = s.terminalDrain
      BY <2>1, <1>1 DEF Stream
    <2>3. InOrder(s') /\ FramesOf(s') = FramesOf(s) /\ (Contiguous(s) => Contiguous(s'))
      BY <2>2, <1>1, SameFrames
    <2> QED  BY <2>1, <2>2, <2>3, QuietSteps
  <1>6. CASE HeartbeatTimer
    <2>1. /\ UNCHANGED <<log, state, up, ended, phantom>> /\ ended = "no" /\ s.open
          /\ s' = Enqueued(s, Heartbeat) /\ s.pump # "running"
      BY <1>2, <1>3, <1>6 DEF HeartbeatTimer, run, Idle
    <2>2. s = [s EXCEPT !.cursor = s.cursor]
      BY <1>1 DEF Stream
    <2>3. Joins(s, Heartbeat, s.cursor)
      BY <1>1 DEF Joins, Heartbeat, Frames
    <2>4. s' = Enqueued([s EXCEPT !.cursor = s.cursor], Heartbeat)
      BY <2>1, <2>2
    <2>5. /\ InOrder(s')
          /\ FramesOf(s') \subseteq FramesOf(s)
          /\ \/ s'.overflow /\ ~s'.open
             \/ s'.open /\ s'.overflow = s.overflow /\ FramesOf(s') = FramesOf(s)
          /\ s'.pump = s.pump /\ s'.cursor = s.cursor
          /\ s'.terminalDrain = s.terminalDrain
          /\ Contiguous(s) => Contiguous(s')
      <3>1. FramesOf(s) \cup ({Heartbeat} \ {Heartbeat}) = FramesOf(s)
        OBVIOUS
      <3>2. s.cursor <= s.cursor + 1
        BY <1>1
      <3>3. /\ InOrder(s')
            /\ FramesOf(s') \subseteq FramesOf(s) \cup ({Heartbeat} \ {Heartbeat})
            /\ \/ s'.overflow /\ ~s'.open
               \/ /\ s'.open /\ s'.overflow = s.overflow
                  /\ FramesOf(s') = FramesOf(s) \cup ({Heartbeat} \ {Heartbeat})
            /\ s'.started = s.started /\ s'.pump = s.pump /\ s'.cursor = s.cursor
            /\ s'.terminalDrain = s.terminalDrain
            /\ Contiguous(s) /\ s.cursor <= s.cursor + 1 => Contiguous(s')
        BY <2>1, <2>3, <2>4, <1>1, EnqueuedKeeps
      <3> QED  BY <3>1, <3>2, <3>3
    <2>6. CASE s'.open
      <3>1. TypeOK'
        BY <2>5 DEF InOrder
      <3>2. s'.overflow = s.overflow /\ FramesOf(s') = FramesOf(s)
        BY <2>5, <2>6
      <3> QED  BY <3>1, <3>2, <2>1, <2>5, <2>6, QuietSteps
    <2>7. CASE ~s'.open
      <3>1. TypeOK' /\ Ascending(s') /\ s'.overflow
        BY <2>5, <2>7 DEF InOrder
      <3>2. LogEnds'
        BY <2>1 DEF Streaming, LogEnds
      <3>3. Connected' /\ Cursor' /\ Ending'
        BY <3>1, <2>1, <2>7 DEF Streaming, Connected, Cursor, Ending, EndTellsOutcome
      <3>4. log' = log /\ phantom' = phantom
        BY <2>1
      <3>5. \A g \in FramesOf(s) : g.type \in Terminal \/ Logged(g, log)
        BY DEF Streaming
      <3>6. ~phantom => Contiguous(s) /\ \A g \in FramesOf(s) : Logged(g, log)
        BY DEF Streaming
      <3> QED  BY <3>1, <3>2, <3>3, <3>4, <3>5, <3>6, <2>5 DEF Streaming
    <2> QED  BY <2>6, <2>7
  <1>7. CASE DrainTimer
    <2>1. /\ UNCHANGED <<log, state, up, ended, phantom>> /\ ended = "no" /\ s.open
          /\ s' = Drained(s)
      BY <1>2, <1>7 DEF DrainTimer, run
    <2>2. Onward(s, s') /\ s'.open = s.open /\ s'.terminalDrain = s.terminalDrain
      BY <2>1, <1>1, DrainedKeeps
    <2>3. TypeOK'
      BY <2>2 DEF Onward, InOrder
    <2> QED  BY <2>1, <2>2, <2>3, QuietSteps DEF Onward
  <1>8. CASE ClientReads
    <2>1. /\ UNCHANGED <<log, state, up, ended, phantom>> /\ ended = "no"
      BY <1>8 DEF ClientReads, run
    <2>2. PICK c : /\ s' = Pulled(c)
                   /\ c = IF s.held # <<>>
                          THEN [s EXCEPT !.got = Received(@, Head(s.held)), !.held = <<>>]
                          ELSE [s EXCEPT !.reading = TRUE]
      BY <1>8 DEF ClientReads
    <2>3. /\ InOrder(c) /\ FramesOf(c) = FramesOf(s)
          /\ c.open = s.open /\ c.pump = s.pump /\ c.cursor = s.cursor
          /\ c.overflow = s.overflow /\ c.terminalDrain = s.terminalDrain
          /\ Contiguous(s) => Contiguous(c)
      <3>1. CASE s.held # <<>>
        BY <3>1, <2>2, <1>1, ReadKeeps
      <3>2. CASE s.held = <<>>
        <4>1. /\ c \in Stream /\ c.got = s.got /\ c.held = s.held /\ c.queue = s.queue
              /\ c.open = s.open /\ c.timers = s.timers
              /\ c.cursor = s.cursor /\ c.overflow = s.overflow /\ c.pump = s.pump
              /\ c.terminalDrain = s.terminalDrain
          BY <3>2, <2>2, <1>1 DEF Stream
        <4> QED  BY <4>1, <3>2, <1>1, SameFrames
      <3> QED  BY <3>1, <3>2
    <2>4. Onward(c, s') /\ s'.terminalDrain = c.terminalDrain
      BY <2>2, <2>3, PulledKeeps
    <2>5. TypeOK'
      BY <2>4 DEF Onward, InOrder
    <2> QED  BY <2>1, <2>3, <2>4, <2>5, QuietSteps DEF Onward
  <1> QED  BY <1>4, <1>5, <1>6, <1>7, <1>8 DEF Timers

LEMMA StreamingStep == Streaming /\ [Next]_vars => Streaming'
  <1> SUFFICES ASSUME Streaming, [Next]_vars PROVE Streaming'
    OBVIOUS
  <1>1. CASE UNCHANGED vars
    BY <1>1 DEF vars, Streaming, TypeOK, LogEnds, Connected, Cursor, Ending, EndTellsOutcome, Informed
  <1>2. CASE Next
    <2>1. s' \in Stream => TypeOK'
      BY <1>2, TypesKept DEF Streaming
    <2>2. /\ InOrder(s) /\ s \in Stream /\ (s.overflow => ~s.open)
          /\ log \in Seq(EventTypes) /\ Len(log) + 1 \in Nat
      BY DEF Streaming, TypeOK, Connected, InOrder
    <2>3. \A t \in EventTypes :
              LET f == [seq |-> Len(log) + 1, type |-> t]
              IN  /\ f \in Frames /\ f # Heartbeat
                  /\ Emitted(s, f) \in Stream
                  /\ Emitted(s, f) = s \/ Sent(s, f, Emitted(s, f))
      <3> SUFFICES ASSUME NEW t \in EventTypes, NEW f, f = [seq |-> Len(log) + 1, type |-> t]
                   PROVE  /\ f \in Frames /\ f # Heartbeat
                          /\ Emitted(s, f) \in Stream
                          /\ Emitted(s, f) = s \/ Sent(s, f, Emitted(s, f))
        OBVIOUS
      <3>1. f \in Frames /\ f # Heartbeat
        BY <2>2, EventFrames
      <3>2. Emitted(s, f) = s \/ Sent(s, f, Emitted(s, f))
        BY <3>1, <2>2, EmittedKeeps
      <3> QED  BY <3>1, <3>2, <2>2 DEF Sent, InOrder
    <2>4. CASE Start
      <3>1. "started" \in EventTypes /\ "started" \notin Terminal
        BY DEF EventTypes, Terminal
      <3>2. /\ Record("started") /\ state = "queued" /\ state' = "running" /\ Idle
            /\ UNCHANGED <<up, ended, phantom>>
        BY <2>4 DEF Start
      <3>3. TypeOK'
        BY <3>1, <3>2, <2>1, <2>3 DEF Record
      <3> QED  BY <3>1, <3>2, <3>3, RecordKeeps DEF Record
    <2>5. ASSUME NEW t \in Terminal, Settle(t) PROVE Streaming'
      <3>1. t \in EventTypes
        BY DEF EventTypes
      <3>2. /\ Record(t) /\ state = "running" /\ state' = t /\ Idle
            /\ UNCHANGED <<up, ended, phantom>>
        BY <2>5 DEF Settle
      <3>3. TypeOK'
        BY <3>1, <3>2, <2>1, <2>3 DEF Record
      <3> QED  BY <3>1, <3>2, <3>3, RecordKeeps DEF Record
    <2>6. ASSUME NEW caught \in BOOLEAN, SettleRolledBack(caught) PROVE Streaming'
      <3>1. {"completed", "failed"} \subseteq EventTypes \cap Terminal
        BY DEF EventTypes, Terminal
      <3> DEFINE f == [seq |-> Len(log) + 1, type |-> "completed"]
                 g == [seq |-> Len(log) + 1, type |-> "failed"]
      <3>2. /\ Idle /\ state = "running" /\ UNCHANGED <<up, ended>>
            /\ phantom' = (phantom \/ s.open)
            /\ IF caught THEN /\ state' = "failed" /\ log' = Append(log, "failed")
                              /\ s' = Emitted(Emitted(s, f), g)
                         ELSE s' = Emitted(s, f) /\ UNCHANGED <<log, state>>
        BY <2>6 DEF SettleRolledBack, run
      <3>3. /\ Emitted(s, f) \in Stream
            /\ Emitted(s, f) = s \/ Sent(s, f, Emitted(s, f))
            /\ Emitted(s, g) \in Stream
        BY <3>1, <2>3
      <3>4. CASE ~caught
        <4>1. TypeOK'
          BY <3>2, <3>3, <3>4, <2>1
        <4> QED  BY <4>1, <3>2, <3>4, PhantomKeeps
      <3>5. CASE caught
        <4>1. CASE Emitted(s, f) = s
          <5>1. s' = Emitted(s, g)
            BY <4>1, <3>2, <3>5
          <5>2. TypeOK'
            BY <5>1, <3>3, <2>1
          <5> QED  BY <5>1, <5>2, <3>1, <3>2, <3>5, RecordKeeps
        <4>2. CASE Sent(s, f, Emitted(s, f))
          <5>1. Emitted(s, f).cursor = g.seq /\ g.seq \in Nat
            BY <4>2, <2>2 DEF Sent
          <5>2. s' = Emitted(s, f)
            <6>1. PICK d : d = Emitted(s, f)
              OBVIOUS
            <6>2. g.seq <= d.cursor
              BY <6>1, <5>1
            <6>3. Emitted(d, g) = d
              BY <6>2 DEF Emitted
            <6> QED  BY <6>1, <6>3, <3>2, <3>5
          <5>3. TypeOK'
            BY <5>2, <3>3, <2>1
          <5>4. s.open => phantom'
            BY <3>2
          <5> QED  BY <5>2, <5>3, <5>4, <3>1, <3>2, <3>5, RecordKeeps
        <4> QED  BY <4>1, <4>2, <3>3
      <3> QED  BY <3>4, <3>5
    <2>7. CASE Crash \/ Cancel
      <3>1. UNCHANGED <<log, state, phantom>> /\ ended' = "lost" /\ s' = Lost(s)
        BY <2>7 DEF Crash, Cancel, run
      <3>2. TypeOK'
        BY <3>1, <2>1, <2>2, LostKeeps DEF InOrder
      <3> QED  BY <3>1, <3>2, LostSteps
    <2>8. CASE Boot
      <3>1. s' = s
        BY <2>8 DEF Boot
      <3> QED  BY <3>1, <2>1, <2>2, <2>8, BootKeeps
    <2>9. CASE Connect
      BY <2>1, <2>9, ConnectKeeps
    <2>10. CASE ClientSeesEnd
      BY <2>1, <2>10, SeesEndKeeps
    <2>11. CASE PumpStep \/ Timers \/ ClientReads
      BY <2>1, <2>11, QuietActions
    <2> QED  BY <1>2, <2>4, <2>5, <2>6, <2>7, <2>8, <2>9, <2>10, <2>11 DEF Next, RunSteps
  <1> QED  BY <1>1, <1>2

LEMMA StreamingInvariant == Spec => []Streaming
  BY StreamingInit, StreamingStep, PTL DEF Spec

\* The client receives the events of the log, from the first on, each once and
\* in order: across replay and live events, lost streams and restarts.
THEOREM StreamsMatchLogs == Spec => []StreamMatchesLog
  <1>1. Streaming => StreamMatchesLog
    <2> SUFFICES ASSUME Streaming, ~phantom, NEW n \in DOMAIN s.got
                 PROVE  n \in DOMAIN log /\ s.got[n] = [seq |-> n, type |-> log[n]]
      BY DEF Streaming, StreamMatchesLog
    <2>1. s.got \in Seq(Frames) /\ s.got[n] \in Frames
      BY DEF Streaming, TypeOK, Stream
    <2>2. s.got[n].seq = n /\ s.got[n].seq > 0
      BY DEF Streaming, Contiguous, Ascending
    <2>3. s.got[n] \in FramesOf(s)
      BY <2>2 DEF FramesOf, Elements, Heartbeat
    <2>4. Logged(s.got[n], log)
      BY <2>3 DEF Streaming
    <2> QED  BY <2>1, <2>2, <2>4 DEF Logged, Frames
  <1> QED  BY <1>1, StreamingInvariant, PTL

\* A stream that comes to an end has told the client how the run ended, unless
\* the queue overflowed.
THEOREM EndsTellOutcomes == Spec => []EndTellsOutcome
  <1>1. Streaming => EndTellsOutcome
    BY DEF Streaming, Ending
  <1> QED  BY <1>1, StreamingInvariant, PTL

===============================================================================
