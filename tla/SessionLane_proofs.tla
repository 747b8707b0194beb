-------------------------- MODULE SessionLane_proofs --------------------------
(***************************************************************************)
(* Theorems of SessionLane for every value of its constants: a session has *)
(* at most one prompt at OpenCode, its marks say so whenever another task  *)
(* can run, and a queued message is held in exactly one place.             *)
(*                                                                         *)
(* The marks alone do not carry the first two: an inner finally block      *)
(* clears the marks an outer activation still relies on.  What does is the *)
(* shape of the activations, a single chain in which every frame but the   *)
(* last one awaits the next.                                               *)
(***************************************************************************)
EXTENDS SessionLane, FiniteSetTheorems, TLAPS

-------------------------------------------------------------------------------
(* The chain of activations.                                               *)

\* The frames that do not await another one.
Active == {f \in FrameIds : ~Free(f) /\ frames[f].stage # "waiting"}

\* Only the last frame of the chain is active: it has control, or its prompt is
\* at OpenCode and the event loop is free.
OneActive ==
    /\ \A f, g \in Active : f = g
    /\ control # 0 => control \in Active /\ frames[control].stage # "prompt"
    /\ control = 0 => \A f \in Active : frames[f].stage = "prompt"

\* A frame sent by a drain is awaited by that one, and by no other.
Awaited ==
    /\ \A f \in FrameIds : ~Free(f) /\ frames[f].parent # 0 =>
            /\ frames[f].kind = "send"
            /\ ~Free(frames[f].parent)
            /\ frames[frames[f].parent].stage = "waiting"
    /\ \A f, g \in FrameIds : ~Free(f) /\ ~Free(g) /\ frames[f].parent = frames[g].parent
                              /\ frames[f].parent # 0 => f = g

\* maybeDrainSessionQueue sends nothing itself.
Sending ==
    \A f \in FrameIds : ~Free(f) /\ frames[f].stage \in {"prompt", "finally"} =>
        frames[f].kind = "send"

\* While microtasks run, the busy mark can only be that of a send which has not
\* begun to drain.
Marks ==
    /\ control = 0 => (busy <=> Active # {})
    /\ control = 0 /\ draining => \E f \in FrameIds : ~Free(f) /\ frames[f].stage = "waiting"
    /\ control # 0 /\ busy => /\ frames[control].kind = "send"
                              /\ frames[control].stage \in {"finally", "exit"}

Chain == TypeOK /\ OneActive /\ Awaited /\ Sending /\ Marks

-------------------------------------------------------------------------------
(* Where the messages are.                                                 *)

Places == {0} \cup FrameIds

\* What is queued, and what each drain has taken out and not sent yet.
Todo(f) == IF Free(f) THEN <<>> ELSE frames[f].todo
held == [p \in Places |-> IF p = 0 THEN queue ELSE Todo(p)]

Waiting == {m \in Msgs : fate[m] = "queued"}

\* The batches of h hold the messages of Q, each once.
Filed(h, Q) ==
    /\ \A p \in Places : \A i \in DOMAIN h[p] : h[p][i] \subseteq Q
    /\ \A m \in Q : \E p \in Places : \E i \in DOMAIN h[p] : m \in h[p][i]
    /\ \A p, r \in Places : \A i \in DOMAIN h[p], j \in DOMAIN h[r] :
            h[p][i] \cap h[r][j] # {} => p = r /\ i = j

\* Several messages are taken out one by one only in collect mode, when one of
\* them, which then is not new, has an attachment.
Uncoalesced == mode = "collect" /\ \E a \in Attached : fate[a] # "new"

Taken ==
    /\ mode = "replace" => Len(queue) <= 1
    /\ \A f \in FrameIds : ~Free(f) =>
            /\ frames[f].stage \notin {"handler", "waiting"} => frames[f].todo = <<>>
            /\ frames[f].stage = "waiting" /\ frames[f].todo # <<>> => Uncoalesced
            /\ Len(frames[f].todo) > 1 => Uncoalesced

Counted ==
    \A m \in Msgs : /\ prompts[m] = IF fate[m] = "prompted" THEN 1 ELSE 0
                    /\ fate[m] = "dropped" => Uncoalesced

Lane == Chain /\ Filed(held, Waiting) /\ Taken /\ Counted

-------------------------------------------------------------------------------
(* Frames.                                                                 *)

LEMMA FrameFacts ==
    /\ Cardinality(Msgs) \in Nat
    /\ \A f \in FrameIds : f \in Nat /\ f # 0
    /\ 0 \notin FrameIds
    /\ NoFrame \notin Frame
  <1>1. Cardinality(Msgs) \in Nat
    BY SessionLaneAssumption, FS_CardinalityType
  <1>2. \A r \in Frame : r.kind # "none"
    BY DEF Frame
  <1>3. NoFrame.kind = "none"
    BY DEF NoFrame
  <1> QED  BY <1>1, <1>2, <1>3 DEF FrameIds

\* A frame that is not free has its fields.
LEMMA FrameFields ==
    ASSUME frames \in [FrameIds -> Frame \cup {NoFrame}], NEW f \in FrameIds, ~Free(f)
    PROVE  /\ frames[f] \in Frame
           /\ frames[f].kind \in {"send", "maybe"} /\ frames[f].stage \in Stages
           /\ frames[f].ok \in BOOLEAN /\ frames[f].todo \in Seq(Batches)
           /\ frames[f].parent \in {0} \cup FrameIds
  BY DEF Free, Frame

\* The frames a drain or a caller begins with.
LEMMA NewFrames ==
    /\ \A p \in {0} \cup FrameIds :
            /\ SendFrame(p) \in Frame /\ SendFrame(p).kind = "send"
            /\ SendFrame(p).stage = "prompt" /\ SendFrame(p).parent = p
            /\ SendFrame(p).todo = <<>>
    /\ MaybeFrame \in Frame /\ MaybeFrame.kind = "maybe" /\ MaybeFrame.stage = "loop"
    /\ MaybeFrame.parent = 0 /\ MaybeFrame.todo = <<>>
  <1>1. <<>> \in Seq(Batches)
    OBVIOUS
  <1> QED  BY <1>1 DEF SendFrame, MaybeFrame, Frame, Stages

\* The active frame goes on: it has control now, and its place in the chain.
LEMMA GoesOn ==
    ASSUME Chain, TypeOK', NEW f \in Active, NEW r \in Frame,
           frames' = [frames EXCEPT ![f] = r], control' = f,
           r.kind = frames[f].kind, r.parent = frames[f].parent,
           r.stage \in {"finally", "loop", "handler", "exit"},
           r.stage = "finally" => r.kind = "send",
           busy' => r.kind = "send" /\ r.stage \in {"finally", "exit"}
    PROVE  Chain'
  <1>1. /\ f \in FrameIds /\ f # 0 /\ ~Free(f) /\ frames[f].stage # "waiting"
        /\ frames \in [FrameIds -> Frame \cup {NoFrame}]
    BY FrameFacts DEF Active, Chain, TypeOK
  <1>2. /\ frames'[f] = r /\ r # NoFrame
        /\ \A h \in FrameIds : h # f => frames'[h] = frames[h]
    BY <1>1, FrameFacts
  <1>3. OneActive'
    BY <1>1, <1>2 DEF Chain, OneActive, Active, Free
  <1>4. Awaited'
    <2>1. \A h \in FrameIds : /\ Free(h)' <=> Free(h)
                              /\ ~Free(h) => /\ frames'[h].parent = frames[h].parent
                                             /\ frames'[h].kind = frames[h].kind
      BY <1>1, <1>2 DEF Free
    <2>2. \A h \in FrameIds : ~Free(h) /\ frames[h].stage = "waiting" => frames'[h].stage = "waiting"
      BY <1>1, <1>2
    <2>3. \A h \in FrameIds : ~Free(h) => frames[h].parent \in {0} \cup FrameIds
      BY <1>1, FrameFields
    <2> QED  BY <2>1, <2>2, <2>3 DEF Chain, Awaited
  <1>5. Marks'
    BY <1>1, <1>2 DEF Marks
  <1>6. Sending'
    BY <1>1, <1>2 DEF Chain, Sending, Free
  <1> QED  BY <1>3, <1>4, <1>5, <1>6 DEF Chain

\* A chain begins: no frame was active, and a new one is.
LEMMA Begins ==
    ASSUME Chain, TypeOK', control = 0, ~busy, ~draining, NEW f \in FrameIds, Free(f), NEW r \in Frame,
           frames' = [frames EXCEPT ![f] = r], r.parent = 0,
           \/ control' = 0 /\ busy' /\ ~draining' /\ r.stage = "prompt" /\ r.kind = "send"
           \/ control' = f /\ ~busy' /\ r.stage = "loop"
    PROVE  Chain'
  <1>1. frames \in [FrameIds -> Frame \cup {NoFrame}] /\ f # 0
    BY FrameFacts DEF Chain, TypeOK
  <1>2. /\ frames'[f] = r /\ r # NoFrame
        /\ \A h \in FrameIds : h # f => frames'[h] = frames[h]
    BY <1>1, FrameFacts
  <1>3. \A h \in FrameIds : ~Free(h) => h # f /\ frames[h].stage = "waiting"
    BY DEF Chain, Marks, Active
  <1>4. OneActive'
    BY <1>1, <1>2, <1>3 DEF OneActive, Active, Free
  <1>5. Awaited'
    <2>1. \A h \in FrameIds : ~Free(h) => frames[h].parent \in {0} \cup FrameIds
      BY <1>1, FrameFields
    <2> QED  BY <1>2, <1>3, <2>1 DEF Chain, Awaited, Free
  <1>6. Marks'
    BY <1>1, <1>2, <1>3 DEF Marks, Active, Free
  <1>7. Sending'
    BY <1>1, <1>2 DEF Chain, Sending, Free
  <1> QED  BY <1>4, <1>5, <1>6, <1>7 DEF Chain

\* A drain sends a message: its frame waits for a new one.
LEMMA ChainGrows ==
    ASSUME Chain, TypeOK', NEW f \in FrameIds, SendDrained(f)
    PROVE  Chain'
  <1>1. /\ control = f /\ ~Free(f) /\ frames[f].stage = "handler" /\ ~busy
        /\ control' = 0 /\ busy' /\ f # 0
        /\ frames \in [FrameIds -> Frame \cup {NoFrame}]
    BY FrameFacts DEF SendDrained, At, SessionBusy, HandOver, Free, Chain, TypeOK
  <1>2. PICK g \in FrameIds :
            /\ Free(g)
            /\ frames' = [frames EXCEPT ![f].stage = "waiting", ![f].todo = Tail(@),
                                        ![g] = SendFrame(f)]
    BY DEF SendDrained, IsNewFrame
  <1>3. f # g /\ frames[f] \in Frame
    BY <1>1, <1>2, FrameFields DEF Free
  <1>4. /\ frames'[f].stage = "waiting" /\ frames'[f].kind = frames[f].kind
        /\ frames'[f].parent = frames[f].parent
        /\ frames'[g] = SendFrame(f)
        /\ \A h \in FrameIds : h # f /\ h # g => frames'[h] = frames[h]
        /\ frames'[f] \in Frame
    <2>1. frames'[f] \in Frame \cup {NoFrame}
      BY <1>1 DEF TypeOK
    <2>2. frames'[f] = [frames[f] EXCEPT !.stage = "waiting", !.todo = Tail(@)]
      BY <1>1, <1>2, <1>3
    <2>3. /\ frames'[f].stage = "waiting" /\ frames'[f].kind = frames[f].kind
          /\ frames'[f].parent = frames[f].parent
      BY <2>2, <1>3 DEF Frame
    <2>4. frames'[f].kind # "none"
      BY <2>3, <1>3 DEF Frame
    <2>5. frames'[f] \in Frame
      BY <2>1, <2>4 DEF NoFrame
    <2> QED  BY <2>3, <2>5, <1>1, <1>2, <1>3
  <1>5. frames'[f] # NoFrame /\ frames'[g] # NoFrame
    BY <1>2, <1>4, FrameFacts, NewFrames
  <1>6. SendFrame(f).kind = "send" /\ SendFrame(f).stage = "prompt" /\ SendFrame(f).parent = f
    BY NewFrames
  <1>7. \A h \in FrameIds : ~Free(h) /\ h # f => frames[h].stage = "waiting"
    BY <1>1 DEF Chain, OneActive, Active
  <1>8. \A h \in FrameIds : /\ ~Free(h)' => h = g \/ ~Free(h)
                            /\ ~Free(h) => h # g /\ ~Free(h)'
    BY <1>1, <1>2, <1>3, <1>4, <1>5 DEF Free
  <1>9. OneActive'
    BY <1>1, <1>4, <1>6, <1>7, <1>8 DEF OneActive, Active
  <1>10. Awaited'
    <2>1. \A h \in FrameIds : ~Free(h) => frames[h].parent \in {0} \cup FrameIds
      BY <1>1, FrameFields
    <2>2. \A h \in FrameIds : ~Free(h) => /\ frames'[h].parent = frames[h].parent
                                          /\ frames'[h].kind = frames[h].kind
                                          /\ frames'[h].stage = "waiting"
      BY <1>4, <1>7, <1>8
    <2>3. \A h \in FrameIds : ~Free(h) => frames[h].parent # f
      BY <1>1 DEF Chain, Awaited
    <2> QED  BY <2>1, <2>2, <2>3, <1>1, <1>4, <1>6, <1>8 DEF Chain, Awaited
  <1>11. Marks'
    <2>1. ~Free(f)' /\ ~Free(g)' /\ frames'[f].stage = "waiting" /\ frames'[g].stage = "prompt"
      BY <1>4, <1>5, <1>6 DEF Free
    <2>2. g \in Active'
      BY <2>1, <1>2 DEF Active
    <2> QED  BY <2>1, <2>2, <1>1 DEF Marks
  <1>12. Sending'
    BY <1>4, <1>6, <1>8 DEF Chain, Sending
  <1> QED  BY <1>9, <1>10, <1>11, <1>12 DEF Chain

\* An activation ends: the one that awaits it goes on, or the chain is gone.
LEMMA ChainShrinks ==
    ASSUME Chain, TypeOK', NEW f \in FrameIds, Exit(f)
    PROVE  Chain'
  <1>1. /\ control = f /\ ~Free(f) /\ frames[f].stage = "exit" /\ f # 0
        /\ draining' = FALSE /\ busy' = (busy /\ ~ClearsBusy(f))
        /\ control' = frames[f].parent
        /\ frames \in [FrameIds -> Frame \cup {NoFrame}]
    BY FrameFacts DEF Exit, At, Free, Chain, TypeOK
  <1>2. ~busy'
    BY <1>1 DEF Chain, Marks, ClearsBusy
  <1>3. \A h \in FrameIds : ~Free(h) /\ h # f => frames[h].stage = "waiting"
    BY <1>1 DEF Chain, OneActive, Active
  <1>4. \A h \in FrameIds : ~Free(h) => /\ frames[h].parent \in {0} \cup FrameIds
                                        /\ frames[h] \in Frame
    BY <1>1, FrameFields
  <1>5. \A h \in FrameIds : ~Free(h) => frames[h].parent # f
    BY <1>1 DEF Chain, Awaited
  <1>6. CASE frames[f].parent = 0
    <2>1. frames' = [frames EXCEPT ![f] = NoFrame]
      BY <1>6 DEF Exit
    <2>2. Free(f)' /\ \A h \in FrameIds : h # f => frames'[h] = frames[h]
      BY <2>1, <1>1 DEF Free
    <2>3. OneActive' /\ Marks'
      BY <2>2, <1>1, <1>2, <1>3, <1>6 DEF OneActive, Marks, Active, Free
    <2>4. Awaited'
      BY <2>2, <1>4, <1>5 DEF Chain, Awaited, Free
    <2>5. Sending'
      BY <2>2 DEF Chain, Sending, Free
    <2> QED  BY <2>3, <2>4, <2>5 DEF Chain
  <1>7. CASE frames[f].parent # 0
    <2> DEFINE p == frames[f].parent
    <2>1. /\ p \in FrameIds /\ p # f /\ ~Free(p) /\ frames[p].stage = "waiting"
          /\ frames[p] \in Frame
      BY <1>1, <1>4, <1>7 DEF Chain, Awaited
    <2>2. /\ frames'[f] = NoFrame
          /\ frames'[p].stage \in {"handler", "exit"} /\ frames'[p].kind = frames[p].kind
          /\ frames'[p].parent = frames[p].parent
          /\ \A h \in FrameIds : h # f /\ h # p => frames'[h] = frames[h]
      <3>1. CASE frames[f].ok
        <4>1. frames' = [frames EXCEPT ![f] = NoFrame, ![p].stage = "handler"]
          BY <3>1, <1>7 DEF Exit
        <4>2. frames'[p] = [frames[p] EXCEPT !.stage = "handler"]
          BY <4>1, <2>1, <1>1
        <4> QED  BY <4>1, <4>2, <2>1, <1>1 DEF Frame
      <3>2. CASE ~frames[f].ok
        <4>1. frames' = [frames EXCEPT ![f] = NoFrame, ![p].stage = "exit", ![p].todo = <<>>]
          BY <3>2, <1>7 DEF Exit
        <4>2. frames'[p] = [frames[p] EXCEPT !.stage = "exit", !.todo = <<>>]
          BY <4>1, <2>1, <1>1
        <4> QED  BY <4>1, <4>2, <2>1, <1>1 DEF Frame
      <3> QED  BY <3>1, <3>2
    <2>3. frames'[p] # NoFrame
      <3>1. frames'[p].kind # "none"
        BY <2>1, <2>2 DEF Frame
      <3> QED  BY <3>1 DEF NoFrame
    <2> HIDE DEF p
    <2>4. control' = p /\ p # 0
      BY <1>1, <1>7 DEF p
    <2>5. \A h \in FrameIds : /\ ~Free(h)' <=> ~Free(h) /\ h # f
                              /\ ~Free(h) /\ h # f => /\ frames'[h].parent = frames[h].parent
                                                      /\ frames'[h].kind = frames[h].kind
      BY <2>1, <2>2, <2>3 DEF Free
    <2>6. OneActive'
      BY <2>1, <2>2, <2>3, <2>4, <2>5, <1>3 DEF OneActive, Active
    <2>7. Awaited'
      <3>1. ASSUME NEW h \in FrameIds, ~Free(h), h # f, frames[h].parent # 0
            PROVE  /\ frames[h].kind = "send"
                   /\ frames[h].parent \in FrameIds /\ ~Free(frames[h].parent)
                   /\ frames[frames[h].parent].stage = "waiting"
                   /\ frames[h].parent # p /\ frames[h].parent # f
        BY <3>1, <1>1, <1>4, <1>5, <1>7 DEF Chain, Awaited, p
      <3>2. \A h \in FrameIds : ~Free(h) /\ h # f /\ h # p => frames'[h] = frames[h]
        BY <2>2
      <3>3. \A h \in FrameIds : ~Free(h) /\ h # f /\ frames[h].parent # 0 =>
                  frames'[frames[h].parent] = frames[frames[h].parent]
        BY <3>1, <2>2
      <3>4. \A g, h \in FrameIds : ~Free(g) /\ ~Free(h) /\ frames[g].parent = frames[h].parent
                                   /\ frames[g].parent # 0 => g = h
        BY DEF Chain, Awaited
      <3> QED  BY <3>1, <3>3, <3>4, <2>5 DEF Awaited
    <2>8. Marks'
      BY <2>4, <1>2 DEF Marks
    <2>9. Sending'
      BY <2>1, <2>2, <2>5 DEF Chain, Sending
    <2> QED  BY <2>6, <2>7, <2>8, <2>9 DEF Chain
  <1> QED  BY <1>6, <1>7

-------------------------------------------------------------------------------
(* Types.                                                                  *)

\* A batch has a message in it.
LEMMA BatchFacts == \A b : b \in Batches <=> (b \subseteq Msgs /\ \E m : m \in b)
  <1>1. \A b : b # {} <=> \E m : m \in b
    OBVIOUS
  <1>2. \A b : b \in Batches <=> (b \subseteq Msgs /\ b # {})
    <2>1. \A b : b \in {{}} <=> b = {}
      OBVIOUS
    <2>2. \A b : b \in (SUBSET Msgs) \ {{}} <=> b \in SUBSET Msgs /\ b \notin {{}}
      BY Zenon
    <2>3. \A b : b \in SUBSET Msgs <=> b \subseteq Msgs
      BY Zenon
    <2> QED  BY <2>1, <2>2, <2>3, Zenon DEF Batches
  <1> QED  BY <1>1, <1>2

\* The queue's operations stay within sequences of batches.
LEMMA QueueTypes ==
    ASSUME TypeOK
    PROVE  /\ \A b \in Batches : Enqueued(b) \in Seq(Batches)
           /\ queue # <<>> => ToProcess \in Seq(Batches) /\ PutBack \in Seq(Batches)
  <1>1. queue \in Seq(Batches) /\ MaxDepth \in Nat \ {0}
    BY SessionLaneAssumption DEF TypeOK
  <1>2. queue # <<>> => Head(queue) \in Batches /\ Tail(queue) \in Seq(Batches)
    BY <1>1
  <1>3. Len(queue) >= MaxDepth => queue # <<>>
    BY <1>1
  <1>4. \A b \in Batches : Enqueued(b) \in Seq(Batches)
    BY <1>1, <1>2, <1>3 DEF Enqueued
  <1>5. ASSUME queue # <<>> PROVE UNION ToSet(queue) \in Batches
    <2>1. \A i \in DOMAIN queue : queue[i] \in Batches
      BY <1>1
    <2>2. UNION ToSet(queue) \subseteq Msgs
      BY <2>1, BatchFacts DEF ToSet
    <2>3. 1 \in DOMAIN queue
      BY <1>1, <1>5
    <2>4. PICK m : m \in queue[1]
      BY <2>1, <2>3, BatchFacts
    <2>5. m \in UNION ToSet(queue)
      BY <2>3, <2>4 DEF ToSet
    <2> QED  BY <2>2, <2>5, BatchFacts
  <1>6. queue # <<>> => <<UNION ToSet(queue)>> \in Seq(Batches) /\ <<Head(queue)>> \in Seq(Batches)
    BY <1>2, <1>5
  <1>7. queue # <<>> => ToProcess \in Seq(Batches)
    BY <1>1, <1>6 DEF ToProcess
  <1>8. queue # <<>> => PutBack \in Seq(Batches)
    BY <1>2 DEF PutBack
  <1> QED  BY <1>4, <1>7, <1>8

\* A frame with new fields is a frame.
LEMMA FrameUpdates ==
    ASSUME NEW r \in Frame, NEW stage \in Stages, NEW ok \in BOOLEAN, NEW todo \in Seq(Batches)
    PROVE  /\ [r EXCEPT !.stage = stage] \in Frame
           /\ [r EXCEPT !.stage = stage, !.ok = ok] \in Frame
           /\ [r EXCEPT !.stage = stage, !.todo = todo] \in Frame
  BY DEF Frame

LEMMA TypeStep == TypeOK /\ Awaited /\ [Next]_vars => TypeOK'
  <1> SUFFICES ASSUME TypeOK, Awaited, [Next]_vars PROVE TypeOK'
    OBVIOUS
  <1>1. CASE UNCHANGED vars
    BY <1>1 DEF vars, TypeOK
  <1> DEFINE Frames0 == frames \in [FrameIds -> Frame \cup {NoFrame}]
  <1>2. /\ Frames0 /\ MaxChildren \in Nat /\ MaxSpawns \in Nat /\ queue \in Seq(Batches)
        /\ mode \in Modes /\ busy \in BOOLEAN /\ draining \in BOOLEAN
        /\ control \in {0} \cup FrameIds /\ children \in 0..MaxChildren /\ spawns \in 0..MaxSpawns
        /\ fate \in [Msgs -> Fates] /\ silentEnd \in BOOLEAN /\ prompts \in [Msgs -> Nat]
        /\ <<>> \in Seq(Batches)
    BY SessionLaneAssumption DEF TypeOK
  <1> DEFINE Rest == /\ mode' \in Modes
                     /\ busy' \in BOOLEAN /\ draining' \in BOOLEAN
                     /\ control' \in {0} \cup FrameIds
                     /\ children' \in 0..MaxChildren /\ spawns' \in 0..MaxSpawns
                     /\ silentEnd' \in BOOLEAN
             Mail == /\ queue' \in Seq(Batches)
                     /\ fate' \in [Msgs -> Fates] /\ prompts' \in [Msgs -> Nat]
  <1>3. \A ms, v : v \in Fates => SetFate(ms, v) \in [Msgs -> Fates]
    BY <1>2 DEF SetFate
  <1>4. ASSUME NEW m \in Msgs, Submit(m) PROVE TypeOK'
    <2>1. Rest
      BY <1>2, <1>4 DEF Submit, SubmitIdle, SubmitBusy, SubmitRejected, HandOver, Park
    <2>2. Mail
      <3>1. {m} \in Batches
        BY BatchFacts
      <3>2. CASE SubmitIdle(m)
        BY <3>2, <1>2, <1>3 DEF SubmitIdle, HandOver, Fates
      <3>3. CASE SubmitBusy(m)
        BY <3>1, <3>3, <1>2, QueueTypes DEF SubmitBusy, Park, Fates
      <3>4. CASE SubmitRejected(m)
        BY <3>4, <1>2, <1>3 DEF SubmitRejected, Fates
      <3> QED  BY <3>2, <3>3, <3>4, <1>4 DEF Submit
    <2>3. Frames0'
      <3>1. frames' = frames \/ \E f \in FrameIds : frames' = [frames EXCEPT ![f] = SendFrame(0)]
        BY <1>4 DEF Submit, SubmitIdle, SubmitBusy, SubmitRejected
      <3> QED  BY <3>1, <1>2, NewFrames
    <2> QED  BY <2>1, <2>2, <2>3 DEF TypeOK
  <1>5. ASSUME NEW f \in FrameIds, NEW ok \in BOOLEAN, PromptEnds(f, ok) PROVE TypeOK'
    <2>1. frames[f] \in Frame
      BY <1>2, <1>5 DEF PromptEnds
    <2>2. frames' = [frames EXCEPT ![f] = [frames[f] EXCEPT !.stage = "finally", !.ok = ok]]
      BY <1>2, <1>5 DEF PromptEnds
    <2>3. [frames[f] EXCEPT !.stage = "finally", !.ok = ok] \in Frame
      BY <2>1 DEF Frame, Stages
    <2> QED  BY <2>2, <2>3, <1>2, <1>5 DEF PromptEnds, TypeOK
  <1>6. ASSUME NEW f \in FrameIds,
               Finally(f) \/ LoopEnds(f) \/ Drain(f) \/ HandlerEnds(f)
        PROVE  TypeOK'
    <2>1. frames[f] \in Frame
      BY <1>2, <1>6 DEF Finally, LoopEnds, Drain, HandlerEnds, At
    <2>2. \/ \E st \in Stages : frames' = [frames EXCEPT ![f].stage = st]
          \/ /\ queue # <<>>
             /\ frames' = [frames EXCEPT ![f].stage = "handler", ![f].todo = ToProcess]
      BY <1>6 DEF Finally, LoopEnds, Drain, HandlerEnds, Goto, Stages
    <2>3. Frames0'
      <3>1. CASE \E st \in Stages : frames' = [frames EXCEPT ![f].stage = st]
        <4>1. PICK st \in Stages : frames' = [frames EXCEPT ![f].stage = st]
          BY <3>1
        <4>2. [frames[f] EXCEPT !.stage = st] \in Frame
          BY <2>1 DEF Frame
        <4> QED  BY <4>1, <4>2, <1>2
      <3>2. CASE /\ queue # <<>>
                 /\ frames' = [frames EXCEPT ![f].stage = "handler", ![f].todo = ToProcess]
        <4>1. ToProcess \in Seq(Batches)
          BY <3>2, QueueTypes
        <4>2. [frames[f] EXCEPT !.stage = "handler", !.todo = ToProcess] \in Frame
          BY <2>1, <4>1 DEF Frame, Stages
        <4>3. frames' = [frames EXCEPT ![f] = [frames[f] EXCEPT !.stage = "handler", !.todo = ToProcess]]
          BY <3>2, <1>2
        <4> QED  BY <4>2, <4>3, <1>2
      <3> QED  BY <2>2, <3>1, <3>2
    <2>4. queue' \in Seq(Batches)
      BY <1>2, <1>6, QueueTypes DEF Finally, LoopEnds, Drain, HandlerEnds
    <2>5. Rest /\ fate' = fate /\ prompts' = prompts
      BY <1>2, <1>6 DEF Finally, LoopEnds, Drain, HandlerEnds
    <2> QED  BY <2>3, <2>4, <2>5, <1>2 DEF TypeOK
  <1>7. ASSUME NEW f \in FrameIds, SendDrained(f) PROVE TypeOK'
    <2>1. /\ frames[f] \in Frame /\ frames[f].todo \in Seq(Batches) /\ frames[f].todo # <<>>
          /\ ~Free(f)
      BY <1>2, <1>7 DEF SendDrained, At, Frame, Free
    <2>2. Head(frames[f].todo) \in Batches /\ Tail(frames[f].todo) \in Seq(Batches)
      BY <2>1
    <2>3. PICK g \in FrameIds :
              Free(g) /\ frames' = [frames EXCEPT ![f].stage = "waiting", ![f].todo = Tail(@),
                                                  ![g] = SendFrame(f)]
      BY <1>7 DEF SendDrained, IsNewFrame
    <2>4. [frames[f] EXCEPT !.stage = "waiting", !.todo = Tail(frames[f].todo)] \in Frame
      BY <2>1, <2>2 DEF Frame, Stages
    <2>5. frames' = [frames EXCEPT ![f] = [frames[f] EXCEPT !.stage = "waiting", !.todo = Tail(frames[f].todo)],
                                   ![g] = SendFrame(f)]
      BY <2>1, <2>3, <1>2 DEF Free
    <2>6. Frames0'
      BY <2>4, <2>5, <1>2, NewFrames
    <2>7. Rest /\ Mail
      BY <1>2, <1>3, <1>7 DEF SendDrained, HandOver, Fates
    <2> QED  BY <2>6, <2>7 DEF TypeOK
  <1>8. ASSUME NEW f \in FrameIds, ParkDrained(f) PROVE TypeOK'
    <2>1. frames[f] \in Frame /\ frames[f].todo \in Seq(Batches) /\ frames[f].todo # <<>>
      BY <1>2, <1>8 DEF ParkDrained, At, Frame
    <2>2. Head(frames[f].todo) \in Batches
      BY <2>1
    <2>3. [frames[f] EXCEPT !.stage = "exit", !.todo = <<>>] \in Frame
      BY <2>1, <1>2 DEF Frame, Stages
    <2>4. frames' = [frames EXCEPT ![f] = [frames[f] EXCEPT !.stage = "exit", !.todo = <<>>]]
      BY <1>2, <1>8 DEF ParkDrained
    <2>5. Mail
      BY <2>2, <1>2, <1>8, QueueTypes DEF ParkDrained, Fates
    <2> QED  BY <2>3, <2>4, <2>5, <1>2, <1>8 DEF ParkDrained, TypeOK
  <1>9. ASSUME NEW f \in FrameIds, Exit(f) PROVE TypeOK'
    <2>1. frames[f] \in Frame /\ frames[f].parent \in {0} \cup FrameIds
      BY <1>2, <1>9 DEF Exit, At, Frame
    <2>2. ClearsBusy(f) \in BOOLEAN
      BY DEF ClearsBusy
    <2>3. Rest
      BY <2>1, <2>2, <1>2, <1>9 DEF Exit
    <2>4. Mail
      BY <1>2, <1>3, <1>9 DEF Exit, Fates
    <2>5. CASE frames[f].parent = 0
      <3>1. frames' = [frames EXCEPT ![f] = NoFrame]
        BY <2>5, <1>9 DEF Exit
      <3> QED  BY <3>1, <2>3, <2>4, <1>2 DEF TypeOK
    <2>6. CASE frames[f].parent # 0
      <3> DEFINE p == frames[f].parent
      <3>1. p \in FrameIds /\ frames[p] \in Frame /\ frames[f].stage = "exit" /\ p # f
        BY <2>1, <2>6, <1>2, <1>9, FrameFields DEF Exit, At, Awaited, Free
      <3>2. \E r \in Frame : frames' = [frames EXCEPT ![f] = NoFrame, ![p] = r]
        <4>1. CASE frames[f].ok
          <5>1. frames' = [frames EXCEPT ![f] = NoFrame, ![p].stage = "handler"]
            BY <4>1, <2>6, <1>9 DEF Exit
          <5>2. frames' = [frames EXCEPT ![f] = NoFrame, ![p] = [frames[p] EXCEPT !.stage = "handler"]]
            BY <5>1, <3>1, <1>2
          <5>3. [frames[p] EXCEPT !.stage = "handler"] \in Frame
            BY <3>1 DEF Frame, Stages
          <5> QED  BY <5>2, <5>3
        <4>2. CASE ~frames[f].ok
          <5>1. frames' = [frames EXCEPT ![f] = NoFrame, ![p].stage = "exit", ![p].todo = <<>>]
            BY <4>2, <2>6, <1>9 DEF Exit
          <5>2. frames' = [frames EXCEPT ![f] = NoFrame, ![p] = [frames[p] EXCEPT !.stage = "exit", !.todo = <<>>]]
            BY <5>1, <3>1, <1>2
          <5>3. [frames[p] EXCEPT !.stage = "exit", !.todo = <<>>] \in Frame
            BY <3>1, <1>2 DEF Frame, Stages
          <5> QED  BY <5>2, <5>3
        <4> QED  BY <4>1, <4>2
      <3>3. Frames0'
        BY <3>1, <3>2, <1>2
      <3> QED  BY <3>3, <2>3, <2>4 DEF TypeOK
    <2> QED  BY <2>5, <2>6, <2>1
  <1>10. CASE SpawnChild \/ ChildCompletes \/ ChildEndsSilently \/ IdleEvent
    <2>1. /\ queue' = queue /\ fate' = fate /\ prompts' = prompts /\ mode' = mode /\ busy' = busy
          /\ draining' \in BOOLEAN
      BY <1>2, <1>10 DEF SpawnChild, ChildCompletes, ChildEndsSilently, IdleEvent, MaybeDrain
    <2>2. children' \in 0..MaxChildren /\ spawns' \in 0..MaxSpawns
      BY <1>2, <1>10 DEF SpawnChild, ChildCompletes, ChildEndsSilently, IdleEvent
    <2>3. silentEnd' \in BOOLEAN
      <3>1. silentEnd' = silentEnd \/ silentEnd' = (silentEnd \/ queue # <<>>)
        BY <1>10 DEF SpawnChild, ChildCompletes, ChildEndsSilently, IdleEvent
      <3> QED  BY <3>1, <1>2
    <2>4. \/ frames' = frames /\ control' = control
          \/ \E f \in FrameIds : frames' = [frames EXCEPT ![f] = MaybeFrame] /\ control' = f
      BY <1>10 DEF SpawnChild, ChildCompletes, ChildEndsSilently, IdleEvent, MaybeDrain
    <2>5. Frames0' /\ control' \in {0} \cup FrameIds
      BY <2>4, <1>2, NewFrames
    <2> QED  BY <2>1, <2>2, <2>3, <2>5, <1>2 DEF TypeOK
  <1> QED
    BY <1>1, <1>4, <1>5, <1>6, <1>7, <1>8, <1>9, <1>10 DEF Next, Microtask

-------------------------------------------------------------------------------
(* The marks and the prompts.                                              *)

LEMMA ChainInit == Init => Chain
  <1> SUFFICES ASSUME Init PROVE Chain
    OBVIOUS
  <1>1. \A f \in FrameIds : Free(f)
    BY DEF Init, Free
  <1>2. Active = {}
    BY <1>1 DEF Active
  <1>3. TypeOK
    <2>1. 0 \in 0..MaxChildren /\ 0 \in 0..MaxSpawns /\ <<>> \in Seq(Batches)
      BY SessionLaneAssumption
    <2> QED  BY <2>1 DEF Init, TypeOK, Fates
  <1> QED  BY <1>1, <1>2, <1>3 DEF Init, Chain, OneActive, Awaited, Sending, Marks

LEMMA ChainStep == Chain /\ [Next]_vars => Chain'
  <1> SUFFICES ASSUME Chain, [Next]_vars PROVE Chain'
    OBVIOUS
  <1>1. TypeOK'
    BY TypeStep DEF Chain
  <1>2. /\ frames \in [FrameIds -> Frame \cup {NoFrame}]
        /\ \A f \in FrameIds : f # 0
    BY FrameFacts DEF Chain, TypeOK
  <1>3. ASSUME UNCHANGED <<frames, control, busy, draining>>
        PROVE  Chain'
    BY <1>1, <1>3 DEF Chain, OneActive, Awaited, Sending, Marks, Active, Free
  <1>4. ASSUME NEW m \in Msgs, SubmitIdle(m)
        PROVE  Chain'
    <2>1. /\ control = 0 /\ control' = 0 /\ ~busy /\ ~draining /\ busy' /\ ~draining'
      BY <1>4 DEF SubmitIdle, SessionBusy, HandOver
    <2>2. PICK f \in FrameIds : Free(f) /\ frames' = [frames EXCEPT ![f] = SendFrame(0)]
      BY <1>4 DEF SubmitIdle, IsNewFrame
    <2> QED  BY <2>1, <2>2, <1>1, NewFrames, Begins
  <1>5. ASSUME NEW f \in FrameIds, NEW ok \in BOOLEAN, PromptEnds(f, ok)
        PROVE  Chain'
    <2>1. control = 0 /\ control' = f /\ ~Free(f) /\ frames[f].stage = "prompt" /\ f \in Active
      BY <1>5 DEF PromptEnds, Free, Active
    <2>2. frames[f] \in Frame
      BY <2>1, <1>2, FrameFields
    <2>3. PICK r : r = [frames[f] EXCEPT !.stage = "finally", !.ok = ok]
      OBVIOUS
    <2>4. r \in Frame /\ r.stage = "finally" /\ r.kind = frames[f].kind /\ r.parent = frames[f].parent
      BY <2>2, <2>3 DEF Frame, Stages
    <2>5. frames' = [frames EXCEPT ![f] = r]
      BY <2>3, <1>2, <1>5 DEF PromptEnds
    <2>6. r.kind = "send"
      BY <2>1, <2>4 DEF Chain, Sending
    <2> QED  BY <2>1, <2>4, <2>5, <2>6, <1>1, GoesOn

  <1>6. ASSUME NEW f \in FrameIds,
               Finally(f) \/ LoopEnds(f) \/ Drain(f) \/ HandlerEnds(f) \/ ParkDrained(f)
        PROVE  Chain'
    <2>1. control = f /\ control' = f /\ ~Free(f) /\ f \in Active
      BY <1>6 DEF Finally, LoopEnds, Drain, HandlerEnds, ParkDrained, At, Free, Active
    <2>2. frames[f] \in Frame
      BY <2>1, <1>2, FrameFields
    <2>3. PICK r : /\ \/ \E st \in {"loop", "exit"} : r = [frames[f] EXCEPT !.stage = st]
                      \/ r = [frames[f] EXCEPT !.stage = "handler", !.todo = ToProcess]
                      \/ r = [frames[f] EXCEPT !.stage = "exit", !.todo = <<>>]
                   /\ frames' = [frames EXCEPT ![f] = r]
      <3>1. CASE Finally(f) \/ LoopEnds(f) \/ HandlerEnds(f)
        <4>1. \E st \in {"loop", "exit"} : frames' = [frames EXCEPT ![f].stage = st]
          BY <3>1 DEF Finally, LoopEnds, HandlerEnds, Goto
        <4> QED  BY <4>1, <1>2
      <3>2. CASE Drain(f)
        <4>1. frames' = [frames EXCEPT ![f] = [frames[f] EXCEPT !.stage = "handler", !.todo = ToProcess]]
          BY <3>2, <1>2 DEF Drain
        <4> QED  BY <4>1
      <3>3. CASE ParkDrained(f)
        <4>1. frames' = [frames EXCEPT ![f] = [frames[f] EXCEPT !.stage = "exit", !.todo = <<>>]]
          BY <3>3, <1>2 DEF ParkDrained
        <4> QED  BY <4>1
      <3> QED  BY <3>1, <3>2, <3>3, <1>6
    <2>4. /\ r.kind = frames[f].kind /\ r.parent = frames[f].parent
          /\ r.stage \in {"loop", "handler", "exit"}
      BY <2>2, <2>3 DEF Frame
    <2>5. r \in Frame
      <3>1. frames'[f] \in Frame \cup {NoFrame} /\ frames'[f] = r
        BY <2>1, <2>3, <1>1, <1>2 DEF TypeOK
      <3>2. r.kind # "none"
        BY <2>2, <2>4 DEF Frame
      <3> QED  BY <3>1, <3>2 DEF NoFrame
    <2>6. busy' => r.kind = "send" /\ r.stage = "exit"
      <3>1. busy => frames[f].kind = "send" /\ frames[f].stage \in {"finally", "exit"}
        BY <2>1, <1>2 DEF Chain, Marks
      <3>2. CASE Finally(f)
        <4>1. busy' => busy' = busy /\ frames' = [frames EXCEPT ![f].stage = "exit"]
          BY <3>2 DEF Finally, Goto
        <4>2. busy' => frames'[f].stage = "exit"
          BY <4>1, <2>2, <1>2 DEF Frame
        <4>3. frames'[f] = r
          BY <2>3, <1>2
        <4> QED  BY <4>1, <4>2, <4>3, <3>1, <2>4
      <3>3. CASE ~Finally(f)
        <4>1. busy' = busy /\ frames[f].stage \in {"loop", "handler"}
          BY <3>3, <1>6 DEF LoopEnds, Drain, HandlerEnds, ParkDrained, At
        <4> QED  BY <4>1, <3>1
      <3> QED  BY <3>2, <3>3
    <2> QED  BY <2>1, <2>3, <2>4, <2>5, <2>6, <1>1, GoesOn
  <1>7. ASSUME NEW f \in FrameIds, SendDrained(f)
        PROVE  Chain'
    BY <1>1, <1>7, ChainGrows
  <1>8. ASSUME NEW f \in FrameIds, Exit(f)
        PROVE  Chain'
    BY <1>1, <1>8, ChainShrinks
  <1>9. ASSUME NEW n, control = 0, busy' = busy, MaybeDrain(n)
        PROVE  Chain'
    <2>1. CASE MayDrain(n)
      <3>1. control = 0 /\ ~busy /\ ~draining /\ ~busy'
        BY <2>1, <1>9 DEF MayDrain
      <3>2. PICK f \in FrameIds : Free(f) /\ frames' = [frames EXCEPT ![f] = MaybeFrame] /\ control' = f
        BY <2>1, <1>9 DEF MaybeDrain, IsNewFrame
      <3> QED  BY <3>1, <3>2, <1>1, NewFrames, Begins
    <2>2. CASE ~MayDrain(n)
      BY <2>2, <1>3, <1>9 DEF MaybeDrain
    <2> QED  BY <2>1, <2>2
  <1>10. CASE \/ UNCHANGED vars
              \/ SpawnChild \/ ChildEndsSilently
              \/ \E m \in Msgs : SubmitBusy(m) \/ SubmitRejected(m)
    BY <1>3, <1>10 DEF vars, SpawnChild, ChildEndsSilently, SubmitBusy, SubmitRejected
  <1>11. CASE ChildCompletes
    BY <1>9, <1>11 DEF ChildCompletes
  <1>12. CASE IdleEvent
    BY <1>9, <1>12 DEF IdleEvent
  <1> QED
    BY <1>4, <1>5, <1>6, <1>7, <1>8, <1>10, <1>11, <1>12 DEF Next, Submit, Microtask

LEMMA ChainInvariant == Spec => []Chain
  BY ChainInit, ChainStep, PTL DEF Spec

\* A session never has two prompts at OpenCode.
THEOREM PromptsDoNotOverlap == Spec => []OnePromptPerSession
  <1>1. Chain => OnePromptPerSession
    BY DEF Chain, OneActive, Active, OnePromptPerSession, Prompting, Free
  <1> QED  BY <1>1, ChainInvariant, PTL

\* Whenever another task can run, the busy mark says whether a prompt is in
\* flight, and a draining mark is that of an activation that still awaits one.
THEOREM MarksAreOfWork == Spec => []MarksMatchWork
  <1>1. Chain => MarksMatchWork
    <2> SUFFICES ASSUME Chain, control = 0
                 PROVE  /\ busy <=> Prompting # {}
                        /\ draining => \E f \in FrameIds : ~Free(f) /\ frames[f].stage = "waiting"
      BY DEF Chain, MarksMatchWork
    <2>1. Active = Prompting
      BY DEF Chain, OneActive, Active, Prompting, Free
    <2> QED  BY <2>1 DEF Chain, Marks
  <1> QED  BY <1>1, ChainInvariant, PTL

-------------------------------------------------------------------------------
(* Taking batches out of their places, putting them in, and moving them.   *)

Holding == [Places -> Seq(Batches)]

LEMMA FirstOfAll == \A b \in Batches : Append(<<>>, b) = <<b>>
  OBVIOUS

\* Dropping all batches of a place.
LEMMA Clearing ==
    ASSUME NEW h \in Holding, NEW Q, Filed(h, Q), NEW p \in Places
    PROVE  Filed([h EXCEPT ![p] = <<>>], Q \ UNION ToSet(h[p]))
  <1> DEFINE k == [h EXCEPT ![p] = <<>>]
             R == Q \ UNION ToSet(h[p])
  <1>1. k[p] = <<>> /\ DOMAIN k[p] = {} /\ \A r \in Places : r # p => k[r] = h[r]
    BY DEF Holding
  <1>2. \A m : m \in UNION ToSet(h[p]) <=> \E i \in DOMAIN h[p] : m \in h[p][i]
    BY DEF ToSet
  <1> HIDE DEF k
  <1>3. ASSUME NEW r \in Places, NEW i \in DOMAIN k[r], NEW m \in k[r][i]
        PROVE  m \in R
    <2>1. r # p /\ m \in h[r][i] /\ i \in DOMAIN h[r]
      BY <1>1, <1>3
    <2>2. m \in Q
      BY <2>1 DEF Filed
    <2>3. \A j \in DOMAIN h[p] : m \notin h[p][j]
      BY <2>1 DEF Filed
    <2> QED  BY <2>2, <2>3, <1>2
  <1>4. ASSUME NEW m \in R
        PROVE  \E r \in Places : \E i \in DOMAIN k[r] : m \in k[r][i]
    <2>1. PICK r \in Places : \E i \in DOMAIN h[r] : m \in h[r][i]
      BY DEF Filed
    <2>2. r # p
      BY <2>1, <1>2
    <2> QED  BY <2>1, <2>2, <1>1
  <1>5. ASSUME NEW r1 \in Places, NEW r2 \in Places, NEW i1 \in DOMAIN k[r1], NEW i2 \in DOMAIN k[r2],
               k[r1][i1] \cap k[r2][i2] # {}
        PROVE  r1 = r2 /\ i1 = i2
    <2>1. r1 # p /\ r2 # p
      BY <1>1
    <2> QED  BY <2>1, <1>1, <1>5 DEF Filed
  <1>6. Filed(k, R)
    <2> HIDE DEF R
    <2> QED  BY <1>3, <1>4, <1>5 DEF Filed
  <1> QED  BY <1>6 DEF k

\* Taking the first batch of a place out.
LEMMA Popping ==
    ASSUME NEW h \in Holding, NEW Q, Filed(h, Q), NEW p \in Places, h[p] # <<>>
    PROVE  Filed([h EXCEPT ![p] = Tail(h[p])], Q \ Head(h[p]))
  <1> DEFINE k == [h EXCEPT ![p] = Tail(h[p])]
             R == Q \ Head(h[p])
  <1>1. k[p] = Tail(h[p]) /\ \A r \in Places : r # p => k[r] = h[r]
    BY DEF Holding
  <1>2. /\ h[p] \in Seq(Batches) /\ Head(h[p]) = h[p][1] /\ 1 \in DOMAIN h[p]
        /\ \A i \in DOMAIN Tail(h[p]) : i \in Nat /\ i >= 1 /\ i + 1 \in DOMAIN h[p] /\ Tail(h[p])[i] = h[p][i + 1]
        /\ \A i \in DOMAIN h[p] : i = 1 \/ (i - 1 \in DOMAIN Tail(h[p]) /\ Tail(h[p])[i - 1] = h[p][i])
    BY DEF Holding
  <1> HIDE DEF k
  <1>3. ASSUME NEW r \in Places, NEW i \in DOMAIN k[r], NEW m \in k[r][i]
        PROVE  m \in R
    <2>1. CASE r = p
      <3>1. i + 1 \in DOMAIN h[p] /\ m \in h[p][i + 1] /\ i + 1 # 1
        BY <2>1, <1>1, <1>2, <1>3
      <3>2. m \in Q /\ m \notin h[p][1]
        BY <3>1, <1>2 DEF Filed
      <3> QED  BY <3>2, <1>2
    <2>2. CASE r # p
      <3>1. i \in DOMAIN h[r] /\ m \in h[r][i]
        BY <2>2, <1>1, <1>3
      <3>2. m \in Q /\ m \notin h[p][1]
        BY <2>2, <3>1, <1>2 DEF Filed
      <3> QED  BY <3>2, <1>2
    <2> QED  BY <2>1, <2>2
  <1>4. ASSUME NEW m \in R
        PROVE  \E r \in Places : \E i \in DOMAIN k[r] : m \in k[r][i]
    <2>1. PICK r \in Places : \E i \in DOMAIN h[r] : m \in h[r][i]
      BY DEF Filed
    <2>2. PICK i \in DOMAIN h[r] : m \in h[r][i]
      BY <2>1
    <2>3. CASE r = p
      <3>1. i # 1
        BY <2>2, <2>3, <1>2
      <3>2. i - 1 \in DOMAIN k[p] /\ m \in k[p][i - 1]
        BY <2>2, <2>3, <3>1, <1>1, <1>2
      <3> QED  BY <3>2
    <2>4. CASE r # p
      BY <2>2, <2>4, <1>1
    <2> QED  BY <2>3, <2>4
  <1>5. ASSUME NEW r1 \in Places, NEW r2 \in Places, NEW i1 \in DOMAIN k[r1], NEW i2 \in DOMAIN k[r2],
               k[r1][i1] \cap k[r2][i2] # {}
        PROVE  r1 = r2 /\ i1 = i2
    <2>1. CASE r1 = p /\ r2 = p
      <3>1. i1 + 1 \in DOMAIN h[p] /\ i2 + 1 \in DOMAIN h[p] /\ h[p][i1 + 1] \cap h[p][i2 + 1] # {}
        BY <2>1, <1>1, <1>2, <1>5
      <3>2. i1 + 1 = i2 + 1
        BY <3>1 DEF Filed
      <3>3. i1 \in Nat /\ i2 \in Nat
        BY <2>1, <1>1, <1>2
      <3> QED  BY <2>1, <3>2, <3>3
    <2>2. CASE r1 = p /\ r2 # p
      <3>1. i1 + 1 \in DOMAIN h[p] /\ i2 \in DOMAIN h[r2] /\ h[p][i1 + 1] \cap h[r2][i2] # {}
        BY <2>2, <1>1, <1>2, <1>5
      <3> QED  BY <2>2, <3>1 DEF Filed
    <2>3. CASE r1 # p /\ r2 = p
      <3>1. i2 + 1 \in DOMAIN h[p] /\ i1 \in DOMAIN h[r1] /\ h[r1][i1] \cap h[p][i2 + 1] # {}
        BY <2>3, <1>1, <1>2, <1>5
      <3> QED  BY <2>3, <3>1 DEF Filed
    <2>4. CASE r1 # p /\ r2 # p
      BY <2>4, <1>1, <1>5 DEF Filed
    <2> QED  BY <2>1, <2>2, <2>3, <2>4
  <1>6. Filed(k, R)
    <2> HIDE DEF R
    <2> QED  BY <1>3, <1>4, <1>5 DEF Filed
  <1> QED  BY <1>6 DEF k

\* Putting a batch of messages that are nowhere at the end of a place.
LEMMA Adding ==
    ASSUME NEW h \in Holding, NEW Q, Filed(h, Q), NEW p \in Places, NEW b \in Batches, b \cap Q = {}
    PROVE  Filed([h EXCEPT ![p] = Append(h[p], b)], Q \cup b)
  <1> DEFINE k == [h EXCEPT ![p] = Append(h[p], b)]
             n == Len(h[p]) + 1
  <1>1. k[p] = Append(h[p], b) /\ \A r \in Places : r # p => k[r] = h[r]
    BY DEF Holding
  <1>2. /\ h[p] \in Seq(Batches) /\ n \in DOMAIN k[p] /\ k[p][n] = b
        /\ \A i \in DOMAIN h[p] : i \in DOMAIN k[p] /\ k[p][i] = h[p][i] /\ i # n
        /\ \A i \in DOMAIN k[p] : i \in DOMAIN h[p] \/ i = n
    <2>1. h[p] \in Seq(Batches)
      BY DEF Holding
    <2> QED  BY <2>1, <1>1
  <1> HIDE DEF k, n
  <1>3. \A r \in Places : \A i \in DOMAIN k[r] :
            \/ r = p /\ i = n /\ k[r][i] = b
            \/ i \in DOMAIN h[r] /\ k[r][i] = h[r][i] /\ (r = p => i # n)
    BY <1>1, <1>2
  <1>4. ASSUME NEW r \in Places, NEW i \in DOMAIN k[r]
        PROVE  k[r][i] \subseteq Q \cup b
    BY <1>3 DEF Filed
  <1>5. ASSUME NEW m \in Q \cup b
        PROVE  \E r \in Places : \E i \in DOMAIN k[r] : m \in k[r][i]
    <2>1. CASE m \in b
      BY <2>1, <1>2
    <2>2. CASE m \in Q
      <3>1. PICK r \in Places : \E i \in DOMAIN h[r] : m \in h[r][i]
        BY <2>2 DEF Filed
      <3> QED  BY <3>1, <1>1, <1>2
    <2> QED  BY <2>1, <2>2
  <1>6. \A r \in Places : \A i \in DOMAIN h[r] : h[r][i] \cap b = {}
    BY DEF Filed
  <1>7. ASSUME NEW r1 \in Places, NEW r2 \in Places, NEW i1 \in DOMAIN k[r1], NEW i2 \in DOMAIN k[r2],
               k[r1][i1] \cap k[r2][i2] # {}
        PROVE  r1 = r2 /\ i1 = i2
    <2>1. CASE i1 \in DOMAIN h[r1] /\ k[r1][i1] = h[r1][i1] /\ i2 \in DOMAIN h[r2] /\ k[r2][i2] = h[r2][i2]
      BY <2>1, <1>7 DEF Filed
    <2>2. CASE r1 = p /\ i1 = n /\ k[r1][i1] = b /\ i2 \in DOMAIN h[r2] /\ k[r2][i2] = h[r2][i2]
      BY <2>2, <1>6, <1>7
    <2>3. CASE r2 = p /\ i2 = n /\ k[r2][i2] = b /\ i1 \in DOMAIN h[r1] /\ k[r1][i1] = h[r1][i1]
      BY <2>3, <1>6, <1>7
    <2> QED  BY <2>1, <2>2, <2>3, <1>3
  <1>8. Filed(k, Q \cup b)
    BY <1>4, <1>5, <1>7 DEF Filed
  <1> QED  BY <1>8 DEF k

\* Moving the batches of a place to an empty one: all of them, as they are.
LEMMA MovingAll ==
    ASSUME NEW h \in Holding, NEW Q, Filed(h, Q), NEW p \in Places, NEW r \in Places,
           p # r, h[r] = <<>>
    PROVE  Filed([h EXCEPT ![p] = <<>>, ![r] = h[p]], Q)
  <1> DEFINE k == [h EXCEPT ![p] = <<>>, ![r] = h[p]]
  <1>1. k[p] = <<>> /\ k[r] = h[p] /\ \A s \in Places : s # p /\ s # r => k[s] = h[s]
    BY DEF Holding
  <1> HIDE DEF k
  <1>2. DOMAIN k[p] = {} /\ DOMAIN h[r] = {}
    BY <1>1
  <1> DEFINE From(s) == IF s = r THEN p ELSE s
  <1>3. \A s \in Places : \A i \in DOMAIN k[s] :
            s # p /\ From(s) \in Places /\ i \in DOMAIN h[From(s)] /\ k[s][i] = h[From(s)][i]
    BY <1>1, <1>2
  <1>4. \A s \in Places : \A i \in DOMAIN k[s] : k[s][i] \subseteq Q
    BY <1>3 DEF Filed
  <1>5. \A m \in Q : \E s \in Places : \E i \in DOMAIN k[s] : m \in k[s][i]
    <2> SUFFICES ASSUME NEW m \in Q
                 PROVE  \E s \in Places : \E i \in DOMAIN k[s] : m \in k[s][i]
      OBVIOUS
    <2>1. PICK s \in Places : \E i \in DOMAIN h[s] : m \in h[s][i]
      BY DEF Filed
    <2>2. s # r
      BY <2>1, <1>2
    <2> QED  BY <2>1, <2>2, <1>1
  <1>6. ASSUME NEW s1 \in Places, NEW s2 \in Places, NEW i1 \in DOMAIN k[s1], NEW i2 \in DOMAIN k[s2],
               k[s1][i1] \cap k[s2][i2] # {}
        PROVE  s1 = s2 /\ i1 = i2
    <2>1. From(s1) = From(s2) /\ i1 = i2
      BY <1>3, <1>6 DEF Filed
    <2> QED  BY <2>1, <1>3
  <1>7. Filed(k, Q)
    <2> HIDE DEF From
    <2> QED  BY <1>4, <1>5, <1>6 DEF Filed
  <1> QED  BY <1>7 DEF k

\* The first of them only.
LEMMA MovingHead ==
    ASSUME NEW h \in Holding, NEW Q, Filed(h, Q), NEW p \in Places, NEW r \in Places,
           p # r, h[r] = <<>>, h[p] # <<>>
    PROVE  Filed([h EXCEPT ![p] = Tail(h[p]), ![r] = <<Head(h[p])>>], Q)
  <1> DEFINE a == [h EXCEPT ![p] = Tail(h[p])]
             b == Head(h[p])
  <1>1. h[p] \in Seq(Batches) /\ 1 \in DOMAIN h[p] /\ b = h[p][1] /\ b \in Batches
        /\ Tail(h[p]) \in Seq(Batches)
    BY DEF Holding
  <1>2. Filed(a, Q \ b) /\ a \in Holding
    BY <1>1, Popping DEF Holding
  <1>3. Filed([a EXCEPT ![r] = Append(a[r], b)], (Q \ b) \cup b)
    <2>1. b \cap (Q \ b) = {}
      OBVIOUS
    <2> HIDE DEF a, b
    <2> QED  BY <2>1, <1>1, <1>2, Adding
  <1>4. b \subseteq Q
    BY <1>1 DEF Filed
  <1>5. (Q \ b) \cup b = Q
    BY <1>4
  <1>6. [a EXCEPT ![r] = Append(a[r], b)] = [h EXCEPT ![p] = Tail(h[p]), ![r] = <<Head(h[p])>>]
    <2>1. a[r] = <<>>
      BY DEF Holding
    <2>2. Append(a[r], b) = <<b>>
      BY <2>1, <1>1, FirstOfAll
    <2> QED  BY <2>2
  <1> QED  BY <1>3, <1>5, <1>6

\* All of them as one batch.
LEMMA MovingAsOne ==
    ASSUME NEW h \in Holding, NEW Q, Filed(h, Q), NEW p \in Places, NEW r \in Places,
           p # r, h[r] = <<>>, NEW b \in Batches, b = UNION ToSet(h[p])
    PROVE  Filed([h EXCEPT ![p] = <<>>, ![r] = <<b>>], Q)
  <1> DEFINE a == [h EXCEPT ![p] = <<>>]
  <1>1. Filed(a, Q \ b) /\ a \in Holding
    BY Clearing DEF Holding
  <1>2. b \subseteq Q
    BY DEF Filed, ToSet
  <1>3. Filed([a EXCEPT ![r] = Append(a[r], b)], (Q \ b) \cup b)
    <2>1. b \cap (Q \ b) = {}
      OBVIOUS
    <2> HIDE DEF a
    <2> QED  BY <2>1, <1>1, Adding
  <1>4. (Q \ b) \cup b = Q
    BY <1>2
  <1>5. [a EXCEPT ![r] = Append(a[r], b)] = [h EXCEPT ![p] = <<>>, ![r] = <<b>>]
    BY DEF Holding
  <1> QED  BY <1>3, <1>4, <1>5

\* enqueue: the messages it shifts out are nowhere any more, the new ones in the
\* queue.
LEMMA Enqueueing ==
    ASSUME TypeOK, NEW h \in Holding, NEW Q, Filed(h, Q), h[0] = queue,
           NEW b \in Batches, b \cap Q = {}
    PROVE  Filed([h EXCEPT ![0] = Enqueued(b)], (Q \ DisplacedByEnqueue) \cup b)
  <1>1. 0 \in Places /\ queue \in Seq(Batches) /\ MaxDepth \in Nat \ {0}
    BY SessionLaneAssumption DEF Places, TypeOK
  <1>2. ASSUME NEW a \in Holding, NEW S, Filed(a, S), S \subseteq Q
        PROVE  Filed([a EXCEPT ![0] = Append(a[0], b)], S \cup b)
    BY <1>1, <1>2, Adding
  <1>3. CASE mode = "replace"
    <2> DEFINE a == [h EXCEPT ![0] = <<>>]
               S == Q \ UNION ToSet(h[0])
    <2>1. a \in Holding /\ Filed(a, S) /\ S \subseteq Q
      <3>1. <<>> \in Seq(Batches)
        OBVIOUS
      <3>2. a \in Holding
        BY <3>1 DEF Holding
      <3>3. Filed(a, S)
        BY <1>1, Clearing
      <3>4. S \subseteq Q
        OBVIOUS
      <3> QED  BY <3>2, <3>3, <3>4
    <2>2. Filed([a EXCEPT ![0] = Append(a[0], b)], S \cup b)
      <3> HIDE DEF a, S
      <3> QED  BY <2>1, <1>2
    <2>3. a[0] = <<>> /\ Append(a[0], b) = <<b>>
      BY <1>1, FirstOfAll DEF Holding
    <2>4. [a EXCEPT ![0] = Append(a[0], b)] = [h EXCEPT ![0] = Enqueued(b)]
      BY <2>3, <1>3 DEF Enqueued
    <2>5. S = Q \ DisplacedByEnqueue
      BY <1>3 DEF DisplacedByEnqueue
    <2> QED  BY <2>2, <2>4, <2>5
  <1>4. CASE mode # "replace" /\ Len(queue) >= MaxDepth
    <2> DEFINE a == [h EXCEPT ![0] = Tail(h[0])]
               S == Q \ Head(h[0])
    <2>1. h[0] # <<>>
      BY <1>1, <1>4
    <2>2. Tail(h[0]) \in Seq(Batches)
      BY <2>1, <1>1
    <2>3. a \in Holding /\ Filed(a, S) /\ S \subseteq Q
      BY <2>1, <2>2, <1>1, Popping DEF Holding
    <2>4. Filed([a EXCEPT ![0] = Append(a[0], b)], S \cup b)
      <3> HIDE DEF a, S
      <3> QED  BY <2>3, <1>2
    <2>5. a[0] = Tail(queue)
      BY <1>1 DEF Holding
    <2>6. [a EXCEPT ![0] = Append(a[0], b)] = [h EXCEPT ![0] = Enqueued(b)]
      BY <2>5, <1>4 DEF Enqueued
    <2>7. S = Q \ DisplacedByEnqueue
      BY <1>4 DEF DisplacedByEnqueue
    <2> QED  BY <2>4, <2>6, <2>7
  <1>5. CASE mode # "replace" /\ ~(Len(queue) >= MaxDepth)
    <2>1. Filed([h EXCEPT ![0] = Append(h[0], b)], Q \cup b)
      BY <1>2
    <2>2. Enqueued(b) = Append(h[0], b) /\ DisplacedByEnqueue = {}
      BY <1>5 DEF Enqueued, DisplacedByEnqueue
    <2>3. Q \ {} = Q
      OBVIOUS
    <2> QED  BY <2>1, <2>2, <2>3
  <1> QED  BY <1>3, <1>4, <1>5

LEMMA HeldIsHolding ==
    ASSUME TypeOK
    PROVE  /\ held \in Holding /\ held[0] = queue
           /\ \A f \in FrameIds : held[f] = Todo(f)
           /\ \A f \in FrameIds : Todo(f) \in Seq(Batches)
  <1>1. \A f \in FrameIds : Todo(f) \in Seq(Batches)
    <2> SUFFICES ASSUME NEW f \in FrameIds PROVE Todo(f) \in Seq(Batches)
      OBVIOUS
    <2>1. <<>> \in Seq(Batches)
      OBVIOUS
    <2> QED  BY <2>1, FrameFields DEF Todo, TypeOK
  <1>2. queue \in Seq(Batches) /\ 0 \notin FrameIds
    BY FrameFacts DEF TypeOK
  <1> QED  BY <1>1, <1>2 DEF held, Holding, Places

\* What is held is as it was, at every place but those that are named.
LEMMA HeldAfter ==
    ASSUME TypeOK, TypeOK', NEW f \in FrameIds, NEW q, NEW t, queue' = q, Todo(f)' = t,
           \A g \in FrameIds : g # f => Todo(g)' = Todo(g)
    PROVE  held' = [held EXCEPT ![0] = q, ![f] = t]
  <1>1. /\ held \in Holding /\ held[0] = queue /\ 0 \notin FrameIds
        /\ \A g \in FrameIds : held[g] = Todo(g)
    BY HeldIsHolding, FrameFacts
  <1>2. held' = [p \in Places |-> IF p = 0 THEN queue' ELSE Todo(p)']
    BY DEF held
  <1>3. held = [p \in Places |-> IF p = 0 THEN queue ELSE Todo(p)]
    BY DEF held
  <1> QED  BY <1>1, <1>2, <1>3 DEF Places

\* No place changes what it holds.
LEMMA HeldAsBefore ==
    ASSUME queue' = queue, \A f \in FrameIds : Todo(f)' = Todo(f)
    PROVE  held' = held
  BY DEF held, Places

-------------------------------------------------------------------------------
(* The invariant, action by action.                                        *)

LEMMA LaneFacts ==
    ASSUME Lane
    PROVE  /\ TypeOK /\ held \in Holding /\ held[0] = queue /\ 0 \in Places
           /\ \A f \in FrameIds : /\ f \in Places /\ f # 0 /\ held[f] = Todo(f)
                                  /\ Todo(f) \in Seq(Batches)
           /\ \A f \in FrameIds : \A i \in DOMAIN Todo(f) : Todo(f)[i] \subseteq Waiting
           /\ \A i \in DOMAIN queue : queue[i] \subseteq Waiting
  <1>1. TypeOK
    BY DEF Lane, Chain
  <1>2. \A f \in FrameIds : f \in Places /\ f # 0
    BY FrameFacts DEF Places
  <1>3. /\ held \in Holding /\ held[0] = queue /\ 0 \in Places
        /\ \A f \in FrameIds : held[f] = Todo(f) /\ Todo(f) \in Seq(Batches)
    BY <1>1, HeldIsHolding DEF Places
  <1>4. \A p \in Places : \A i \in DOMAIN held[p] : held[p][i] \subseteq Waiting
    BY DEF Lane, Filed
  <1> QED  BY <1>1, <1>2, <1>3, <1>4

LEMMA UncoalescedKept ==
    ASSUME mode' = mode, \A m \in Msgs : fate[m] # "new" => fate'[m] # "new", Uncoalesced
    PROVE  Uncoalesced'
  BY SessionLaneAssumption DEF Uncoalesced

\* What enqueue shifts out was waiting.
LEMMA DisplacedWaits ==
    ASSUME Lane
    PROVE  DisplacedByEnqueue \subseteq Waiting
  <1>1. /\ queue \in Seq(Batches) /\ MaxDepth \in Nat \ {0}
        /\ \A i \in DOMAIN queue : queue[i] \subseteq Waiting
    BY LaneFacts, SessionLaneAssumption DEF TypeOK
  <1>2. UNION ToSet(queue) \subseteq Waiting
    BY <1>1 DEF ToSet
  <1>3. Len(queue) >= MaxDepth => Head(queue) \subseteq Waiting
    BY <1>1
  <1> QED  BY <1>2, <1>3 DEF DisplacedByEnqueue

\* What a step may do to a frame without moving a message.
Undisturbed(f) ==
    \/ frames'[f] = frames[f]
    \/ Todo(f) = <<>> /\ Todo(f)' = <<>>
    \/ /\ ~Free(f) /\ ~Free(f)'
       /\ frames'[f].todo = frames[f].todo /\ frames'[f].stage = "handler"

LEMMA NothingMoves ==
    ASSUME Lane, Chain', mode' = mode, queue' = queue, Counted', Waiting' = Waiting,
           Uncoalesced => Uncoalesced', \A f \in FrameIds : Undisturbed(f)
    PROVE  Lane'
  <1>1. \A f \in FrameIds : Todo(f)' = Todo(f)
    BY DEF Undisturbed, Todo, Free
  <1>2. held' = held
    BY <1>1, HeldAsBefore
  <1>3. Filed(held, Waiting)'
    BY <1>2 DEF Lane, Filed
  <1>4. Taken'
    <2>1. ASSUME NEW f \in FrameIds, ~Free(f)'
          PROVE  /\ frames'[f].stage \notin {"handler", "waiting"} => frames'[f].todo = <<>>
                 /\ frames'[f].stage = "waiting" /\ frames'[f].todo # <<>> => Uncoalesced'
                 /\ Len(frames'[f].todo) > 1 => Uncoalesced'
      <3>1. CASE frames'[f] = frames[f]
        BY <2>1, <3>1 DEF Lane, Taken, Free
      <3>2. CASE Todo(f)' = <<>>
        BY <2>1, <3>2 DEF Todo
      <3>3. CASE /\ ~Free(f) /\ frames'[f].todo = frames[f].todo
                 /\ frames'[f].stage = "handler"
        BY <2>1, <3>3 DEF Lane, Taken
      <3> QED  BY <3>1, <3>2, <3>3 DEF Undisturbed
    <2> QED  BY <2>1 DEF Lane, Taken
  <1> QED  BY <1>3, <1>4 DEF Lane

\* A frame at any other stage than handler and waiting has nothing left to send.
LEMMA NothingToDo ==
    ASSUME Lane, NEW f \in FrameIds, ~Free(f),
           frames[f].stage \notin {"handler", "waiting"} \/ frames[f].todo = <<>>
    PROVE  Todo(f) = <<>>
  BY DEF Lane, Taken, Todo

\* The steps that leave the messages alone, and a message that is sent or
\* refused at once.
LEMMA LaneQuietStep ==
    ASSUME Lane, Chain', mode' = mode, queue' = queue,
           \/ fate' = fate /\ prompts' = prompts
           \/ \E m \in Msgs : /\ fate[m] = "new" /\ fate' = SetFate({m}, "rejected")
                              /\ prompts' = prompts
           \/ \E m \in Msgs : fate[m] = "new" /\ HandOver({m}),
           \A f \in FrameIds : Undisturbed(f)
    PROVE  Lane'
  <1>1. fate \in [Msgs -> Fates] /\ prompts \in [Msgs -> Nat]
    BY DEF Lane, Chain, TypeOK
  <1>2. CASE fate' = fate /\ prompts' = prompts
    <2>1. Counted' /\ Waiting' = Waiting /\ (Uncoalesced => Uncoalesced')
      BY <1>2 DEF Lane, Counted, Waiting, Uncoalesced
    <2> QED  BY <2>1, NothingMoves
  <1>3. ASSUME NEW m \in Msgs, fate[m] = "new", fate' = SetFate({m}, "rejected"), prompts' = prompts
        PROVE  Lane'
    <2>1. fate' = [fate EXCEPT ![m] = "rejected"]
      BY <1>1, <1>3 DEF SetFate
    <2>2. Uncoalesced => Uncoalesced'
      <3>1. \A x \in Msgs : fate[x] # "new" => fate'[x] # "new"
        BY <2>1, <1>1
      <3> QED  BY <3>1, UncoalescedKept
    <2>3. Counted'
      BY <2>1, <2>2, <1>1, <1>3 DEF Lane, Counted
    <2>4. Waiting' = Waiting
      BY <2>1, <1>1, <1>3 DEF Waiting
    <2> QED  BY <2>2, <2>3, <2>4, NothingMoves
  <1>4. ASSUME NEW m \in Msgs, fate[m] = "new", HandOver({m})
        PROVE  Lane'
    <2>1. /\ fate'[m] = "prompted" /\ prompts'[m] = prompts[m] + 1
          /\ \A x \in Msgs : x # m => fate'[x] = fate[x] /\ prompts'[x] = prompts[x]
      BY <1>1, <1>4 DEF HandOver, SetFate
    <2>2. Uncoalesced => Uncoalesced'
      <3>1. \A x \in Msgs : fate[x] # "new" => fate'[x] # "new"
        BY <2>1
      <3> QED  BY <3>1, UncoalescedKept
    <2>3. Counted'
      BY <2>1, <2>2, <1>4 DEF Lane, Counted
    <2>4. Waiting' = Waiting
      BY <2>1, <1>4 DEF Waiting
    <2> QED  BY <2>2, <2>3, <2>4, NothingMoves
  <1> QED  BY <1>2, <1>3, <1>4

\* A busy session queues a message.
LEMMA LaneSubmitBusy ==
    ASSUME Lane, Chain', NEW m \in Msgs, SubmitBusy(m)
    PROVE  Lane'
  <1>1. /\ mode' = mode /\ frames' = frames /\ prompts' = prompts /\ fate[m] = "new"
        /\ queue' = Enqueued({m})
        /\ fate' = [x \in Msgs |-> IF x \in {m} THEN "queued"
                                   ELSE IF x \in DisplacedByEnqueue THEN "displaced" ELSE fate[x]]
    BY DEF SubmitBusy, Park
  <1>2. {m} \in Batches /\ {m} \cap Waiting = {}
    BY <1>1, BatchFacts DEF Waiting
  <1>3. TypeOK /\ held \in Holding /\ held[0] = queue
    BY LaneFacts
  <1>4. Filed([held EXCEPT ![0] = Enqueued({m})], (Waiting \ DisplacedByEnqueue) \cup {m})
    BY <1>2, <1>3, Enqueueing DEF Lane
  <1>5. held' = [held EXCEPT ![0] = Enqueued({m})]
    <2>1. \A f \in FrameIds : Todo(f)' = Todo(f)
      BY <1>1 DEF Todo, Free
    <2> QED  BY <2>1, <1>1 DEF held, Places
  <1>6. Waiting' = (Waiting \ DisplacedByEnqueue) \cup {m}
    BY <1>1 DEF Waiting
  <1>7. DisplacedByEnqueue \subseteq Waiting
    BY DisplacedWaits
  <1>8. Uncoalesced => Uncoalesced'
    <2>1. \A x \in Msgs : fate[x] # "new" => fate'[x] # "new"
      BY <1>1
    <2> QED  BY <2>1, <1>1, UncoalescedKept
  <1>9. Counted'
    <2>1. \A x \in Msgs : fate'[x] = fate[x] \/ (fate[x] \in {"new", "queued"} /\ fate'[x] \in {"queued", "displaced"})
      BY <1>1, <1>7 DEF Waiting
    <2> QED  BY <2>1, <1>1, <1>8 DEF Lane, Counted
  <1>10. Taken'
    <2>1. mode = "replace" => Len(queue') <= 1
      BY <1>1 DEF Enqueued
    <2> QED  BY <2>1, <1>1, <1>8 DEF Lane, Taken, Free
  <1> QED  BY <1>4, <1>5, <1>6, <1>9, <1>10 DEF Lane

\* The drain takes messages out of the queue.
LEMMA LaneDrain ==
    ASSUME Lane, Chain', NEW f \in FrameIds, Drain(f)
    PROVE  Lane'
  <1>1. /\ ~Free(f) /\ frames[f].stage = "loop" /\ queue # <<>> /\ queue' = PutBack
        /\ frames' = [frames EXCEPT ![f].stage = "handler", ![f].todo = ToProcess]
        /\ mode' = mode /\ fate' = fate /\ prompts' = prompts
    BY DEF Drain, At, Free
  <1>2. /\ TypeOK /\ held \in Holding /\ held[0] = queue /\ 0 \in Places
        /\ f \in Places /\ f # 0 /\ held[f] = Todo(f)
        /\ \A i \in DOMAIN queue : queue[i] \subseteq Waiting
    BY LaneFacts
  <1>3. frames \in [FrameIds -> Frame \cup {NoFrame}] /\ frames[f] \in Frame /\ TypeOK'
        /\ queue \in Seq(Batches) /\ mode \in {"collect", "followup", "replace"}
    BY <1>1, <1>2, FrameFields, SessionLaneAssumption DEF TypeOK, Chain
  <1>4. /\ ~Free(f)' /\ frames'[f].todo = ToProcess /\ frames'[f].stage = "handler"
        /\ \A g \in FrameIds : g # f => frames'[g] = frames[g]
    <2>1. frames' = [frames EXCEPT ![f] = [frames[f] EXCEPT !.stage = "handler", !.todo = ToProcess]]
      BY <1>1, <1>3
    <2>2. frames'[f] = [frames[f] EXCEPT !.stage = "handler", !.todo = ToProcess]
      BY <2>1, <1>3
    <2>3. frames'[f].kind # "none" /\ frames'[f].todo = ToProcess /\ frames'[f].stage = "handler"
      BY <2>2, <1>3 DEF Frame
    <2>4. frames'[f] # NoFrame
      BY <2>3 DEF NoFrame
    <2> QED  BY <2>1, <2>3, <2>4, <1>3 DEF Free
  <1>5. held[f] = <<>>
    BY <1>1, <1>2, NothingToDo
  <1>6. held' = [held EXCEPT ![0] = PutBack, ![f] = ToProcess]
    <2>1. Todo(f)' = ToProcess /\ \A g \in FrameIds : g # f => Todo(g)' = Todo(g)
      BY <1>4 DEF Todo, Free
    <2> QED  BY <2>1, <1>1, <1>2, <1>3, HeldAfter
  <1>7. Waiting' = Waiting /\ (Uncoalesced => Uncoalesced') /\ Counted'
    BY <1>1 DEF Waiting, Uncoalesced, Lane, Counted
  <1>8. Filed([held EXCEPT ![0] = PutBack, ![f] = ToProcess], Waiting) /\ (Len(ToProcess) > 1 => Uncoalesced)
    <2>1. CASE mode = "collect" /\ Len(queue) > 1 /\ ~HasAttachments(queue)
      <3>1. ToProcess = <<UNION ToSet(queue)>> /\ PutBack = <<>>
        BY <2>1 DEF ToProcess, PutBack
      <3>2. ToProcess \in Seq(Batches)
        BY <1>1, <1>2, QueueTypes
      <3>3. UNION ToSet(queue) \in Batches
        <4>1. PICK u : u = UNION ToSet(queue)
          OBVIOUS
        <4>2. <<u>> \in Seq(Batches) /\ 1 \in DOMAIN <<u>> /\ <<u>>[1] = u
          BY <4>1, <3>1, <3>2
        <4> QED  BY <4>1, <4>2
      <3>4. Filed([held EXCEPT ![0] = <<>>, ![f] = <<UNION ToSet(queue)>>], Waiting)
        BY <3>3, <1>2, <1>5, MovingAsOne DEF Lane
      <3> QED  BY <3>1, <3>4
    <2>2. CASE mode = "followup"
      <3>1. ToProcess = <<Head(queue)>> /\ PutBack = Tail(queue)
        BY <2>2 DEF ToProcess, PutBack
      <3>2. Filed([held EXCEPT ![0] = Tail(held[0]), ![f] = <<Head(held[0])>>], Waiting)
        BY <1>1, <1>2, <1>5, MovingHead DEF Lane
      <3> QED  BY <3>1, <3>2, <1>2
    <2>3. CASE mode # "followup" /\ ~(mode = "collect" /\ Len(queue) > 1 /\ ~HasAttachments(queue))
      <3>1. ToProcess = queue /\ PutBack = <<>>
        BY <2>3 DEF ToProcess, PutBack
      <3>2. Filed([held EXCEPT ![0] = <<>>, ![f] = held[0]], Waiting)
        BY <1>2, <1>5, MovingAll DEF Lane
      <3>3. ASSUME Len(queue) > 1 PROVE Uncoalesced
        <4>1. mode # "replace"
          BY <3>3, <1>3 DEF Lane, Taken
        <4>2. mode = "collect" /\ HasAttachments(queue)
          BY <4>1, <3>3, <2>3, <1>3
        <4>3. PICK i \in DOMAIN queue, a \in Attached : a \in queue[i]
          BY <4>2 DEF HasAttachments
        <4>4. fate[a] = "queued"
          BY <4>3, <1>2 DEF Waiting
        <4> QED  BY <4>2, <4>4 DEF Uncoalesced
      <3> QED  BY <3>1, <3>2, <3>3, <1>2
    <2> QED  BY <2>1, <2>2, <2>3
  <1>9. Taken'
    <2>1. mode = "replace" => Len(queue') <= 1
      BY <1>1 DEF PutBack
    <2> QED  BY <2>1, <1>1, <1>4, <1>7, <1>8 DEF Lane, Taken, Free
  <1> QED  BY <1>6, <1>7, <1>8, <1>9 DEF Lane

\* The drain hands a message it has taken out over to OpenCode.
LEMMA LaneSendDrained ==
    ASSUME Lane, Chain', NEW f \in FrameIds, SendDrained(f)
    PROVE  Lane'
  <1>1. /\ ~Free(f) /\ frames[f].stage = "handler" /\ frames[f].todo # <<>>
        /\ HandOver(Head(frames[f].todo)) /\ mode' = mode /\ queue' = queue
    BY DEF SendDrained, At, Free
  <1>2. /\ TypeOK /\ held \in Holding /\ f \in Places /\ f # 0 /\ held[f] = Todo(f)
        /\ held[0] = queue /\ Todo(f) \in Seq(Batches) /\ Todo(f) = frames[f].todo
        /\ \A i \in DOMAIN Todo(f) : Todo(f)[i] \subseteq Waiting
    BY <1>1, LaneFacts DEF Todo
  <1>3. frames \in [FrameIds -> Frame \cup {NoFrame}] /\ frames[f] \in Frame /\ TypeOK'
    BY <1>1, <1>2, FrameFields DEF TypeOK, Chain
  <1>4. PICK g \in FrameIds :
            /\ Free(g)
            /\ frames' = [frames EXCEPT ![f].stage = "waiting", ![f].todo = Tail(@),
                                        ![g] = SendFrame(f)]
    BY DEF SendDrained, IsNewFrame
  <1>5. /\ f # g /\ frames'[g] = SendFrame(f) /\ SendFrame(f).todo = <<>>
        /\ SendFrame(f).stage = "prompt"
        /\ frames'[f].stage = "waiting" /\ frames'[f].todo = Tail(frames[f].todo)
        /\ ~Free(f)' /\ ~Free(g)'
        /\ \A h \in FrameIds : h # f /\ h # g => frames'[h] = frames[h]
    <2>1. f # g
      BY <1>1, <1>4
    <2>2. frames' = [frames EXCEPT ![f] = [frames[f] EXCEPT !.stage = "waiting", !.todo = Tail(frames[f].todo)],
                                   ![g] = SendFrame(f)]
      BY <2>1, <1>3, <1>4
    <2>3. frames'[f] = [frames[f] EXCEPT !.stage = "waiting", !.todo = Tail(frames[f].todo)]
      BY <2>1, <2>2, <1>3
    <2>4. /\ frames'[f].stage = "waiting" /\ frames'[f].todo = Tail(frames[f].todo)
          /\ frames'[f].kind # "none"
      BY <2>3, <1>3 DEF Frame
    <2>5. frames'[f] # NoFrame
      BY <2>4 DEF NoFrame
    <2>6. frames'[g] = SendFrame(f) /\ \A h \in FrameIds : h # f /\ h # g => frames'[h] = frames[h]
      BY <2>1, <2>2, <1>3
    <2>7. SendFrame(f).todo = <<>> /\ SendFrame(f).stage = "prompt" /\ SendFrame(f) # NoFrame
      BY NewFrames, FrameFacts
    <2> QED  BY <2>1, <2>4, <2>5, <2>6, <2>7 DEF Free
  <1>6. held' = [held EXCEPT ![f] = Tail(held[f])]
    <2>1. Todo(f)' = Tail(held[f])
      BY <1>2, <1>5 DEF Todo
    <2>2. ASSUME NEW h \in FrameIds, h # f PROVE Todo(h)' = Todo(h)
      <3>1. CASE h = g
        <4>1. Todo(g) = <<>>
          BY <1>4 DEF Todo
        <4>2. Todo(g)' = frames'[g].todo
          BY <1>5 DEF Todo
        <4> QED  BY <3>1, <4>1, <4>2, <1>5
      <3>2. CASE h # g
        BY <2>2, <3>2, <1>5 DEF Todo, Free
      <3> QED  BY <3>1, <3>2
    <2>3. held' = [held EXCEPT ![0] = queue, ![f] = Tail(held[f])]
      BY <2>1, <2>2, <1>1, <1>2, <1>3, HeldAfter
    <2>4. [held EXCEPT ![0] = queue] = held
      BY <1>2 DEF Holding
    <2> QED  BY <2>3, <2>4
  <1>7. PICK b \in Batches : b = Head(Todo(f))
    BY <1>1, <1>2
  <1>8. Filed([held EXCEPT ![f] = Tail(held[f])], Waiting \ b)
    BY <1>1, <1>2, <1>7, Popping DEF Lane
  <1>9. b \subseteq Waiting
    BY <1>1, <1>2, <1>7
  <1>10. \A m \in Msgs : /\ m \in b => fate[m] = "queued" /\ fate'[m] = "prompted" /\ prompts'[m] = prompts[m] + 1
                         /\ m \notin b => fate'[m] = fate[m] /\ prompts'[m] = prompts[m]
    <2>1. fate' = SetFate(b, "prompted") /\ prompts' = [m \in Msgs |-> prompts[m] + (IF m \in b THEN 1 ELSE 0)]
      BY <1>1, <1>2, <1>7 DEF HandOver
    <2>2. \A m \in b : fate[m] = "queued"
      BY <1>9 DEF Waiting
    <2>3. prompts \in [Msgs -> Nat]
      BY <1>2 DEF TypeOK
    <2> QED  BY <2>1, <2>2, <2>3 DEF SetFate
  <1>11. Waiting' = Waiting \ b
    BY <1>10 DEF Waiting
  <1>12. Uncoalesced => Uncoalesced'
    BY <1>1, <1>10, UncoalescedKept
  <1>13. Counted'
    BY <1>10, <1>12 DEF Lane, Counted
  <1>14. Taken'
    <2>1. Len(frames'[f].todo) > 1 \/ frames'[f].todo # <<>> => Len(frames[f].todo) > 1
      BY <1>1, <1>2, <1>5
    <2>2. Len(frames[f].todo) > 1 => Uncoalesced'
      BY <1>1, <1>12 DEF Lane, Taken
    <2>3. Len(<<>>) = 0
      OBVIOUS
    <2> QED  BY <2>1, <2>2, <2>3, <1>1, <1>5, <1>12 DEF Lane, Taken, Free
  <1> QED  BY <1>6, <1>8, <1>11, <1>13, <1>14 DEF Lane

\* The drain is refused: its message goes back to the queue, the others it had
\* taken out are dropped.
LEMMA LaneParkDrained ==
    ASSUME Lane, Chain', NEW f \in FrameIds, ParkDrained(f)
    PROVE  Lane'
  <1>1. /\ ~Free(f) /\ frames[f].todo # <<>> /\ frames[f].stage = "handler"
        /\ mode' = mode /\ prompts' = prompts
        /\ frames' = [frames EXCEPT ![f].stage = "exit", ![f].todo = <<>>]
    BY DEF ParkDrained, At, Free
  <1>2. /\ TypeOK /\ held \in Holding /\ f \in Places /\ f # 0 /\ held[f] = Todo(f)
        /\ held[0] = queue /\ Todo(f) \in Seq(Batches) /\ Todo(f) = frames[f].todo
        /\ \A i \in DOMAIN Todo(f) : Todo(f)[i] \subseteq Waiting
    BY <1>1, LaneFacts DEF Todo
  <1>3. frames \in [FrameIds -> Frame \cup {NoFrame}] /\ frames[f] \in Frame /\ TypeOK'
    BY <1>1, <1>2, FrameFields DEF TypeOK, Chain
  <1>4. PICK b \in Batches : b = Head(Todo(f))
    BY <1>1, <1>2
  <1>5. PICK others : others = UNION ToSet(Tail(Todo(f)))
    OBVIOUS
  <1>6. UNION ToSet(Todo(f)) = b \cup others
    <2>1. \A x : x \in UNION ToSet(Todo(f)) <=> \E i \in DOMAIN Todo(f) : x \in Todo(f)[i]
      BY DEF ToSet
    <2>2. \A x : x \in others <=> \E i \in DOMAIN Tail(Todo(f)) : x \in Tail(Todo(f))[i]
      BY <1>5 DEF ToSet
    <2>3. PICK t \in Seq(Batches) : t = Todo(f)
      BY <1>2
    <2>4. /\ t # <<>> /\ b = t[1] /\ 1 \in DOMAIN t
          /\ \A i \in DOMAIN Tail(t) : i + 1 \in DOMAIN t /\ Tail(t)[i] = t[i + 1]
          /\ \A i \in DOMAIN t : i = 1 \/ (i - 1 \in DOMAIN Tail(t) /\ Tail(t)[i - 1] = t[i])
      BY <2>3, <1>1, <1>2, <1>4
    <2>5. \A x : (\E i \in DOMAIN t : x \in t[i]) <=> x \in b \/ \E i \in DOMAIN Tail(t) : x \in Tail(t)[i]
      BY <2>4
    <2> QED  BY <2>1, <2>2, <2>3, <2>5
  <1>7. UNION ToSet(Todo(f)) \subseteq Waiting
    BY <1>2 DEF ToSet
  <1>8. /\ queue' = Enqueued(b)
        /\ fate' = [m \in Msgs |-> IF m \in b THEN "queued"
                                   ELSE IF m \in others THEN "dropped"
                                   ELSE IF m \in DisplacedByEnqueue THEN "displaced" ELSE fate[m]]
    BY <1>2, <1>4, <1>5 DEF ParkDrained
  <1>9. PICK Q : Q = Waiting \ UNION ToSet(Todo(f))
    OBVIOUS
  <1>10. PICK k : k = [held EXCEPT ![f] = <<>>]
    OBVIOUS
  <1>11. k \in Holding /\ k[0] = queue
    <2>1. <<>> \in Seq(Batches)
      OBVIOUS
    <2> QED  BY <2>1, <1>2, <1>10 DEF Holding
  <1>12. Filed(k, Q)
    BY <1>2, <1>9, <1>10, Clearing DEF Lane
  <1>13. b \cap Q = {}
    BY <1>6, <1>9
  <1>14. Filed([k EXCEPT ![0] = Enqueued(b)], (Q \ DisplacedByEnqueue) \cup b)
    BY <1>2, <1>11, <1>12, <1>13, Enqueueing
  <1>15. held' = [k EXCEPT ![0] = Enqueued(b)] /\ Free(f)' = FALSE /\ Todo(f)' = <<>>
         /\ \A h \in FrameIds : h # f => frames'[h] = frames[h]
    <2>1. frames' = [frames EXCEPT ![f] = [frames[f] EXCEPT !.stage = "exit", !.todo = <<>>]]
      BY <1>1, <1>3
    <2>2. frames'[f] = [frames[f] EXCEPT !.stage = "exit", !.todo = <<>>]
      BY <2>1, <1>3
    <2>3. frames'[f].todo = <<>> /\ frames'[f].kind # "none"
      BY <2>2, <1>3 DEF Frame
    <2>4. frames'[f] # NoFrame
      BY <2>3 DEF NoFrame
    <2>5. \A h \in FrameIds : h # f => frames'[h] = frames[h]
      BY <2>1, <1>3
    <2>6. Todo(f)' = <<>> /\ \A h \in FrameIds : h # f => Todo(h)' = Todo(h)
      BY <2>3, <2>4, <2>5 DEF Todo, Free
    <2>7. held' = [held EXCEPT ![0] = Enqueued(b), ![f] = <<>>]
      BY <2>6, <1>2, <1>3, <1>8, HeldAfter
    <2>8. [held EXCEPT ![0] = Enqueued(b), ![f] = <<>>] = [k EXCEPT ![0] = Enqueued(b)]
      BY <1>2, <1>10 DEF Holding
    <2> QED  BY <2>4, <2>5, <2>6, <2>7, <2>8 DEF Free
  <1>16. DisplacedByEnqueue \subseteq Waiting
    BY DisplacedWaits
  <1>17. Waiting' = (Q \ DisplacedByEnqueue) \cup b
    <2>1. b \subseteq Msgs
      BY <1>4, BatchFacts
    <2> QED  BY <2>1, <1>6, <1>8, <1>9 DEF Waiting
  <1>18. others # {} => Uncoalesced
    <2>1. PICK t \in Seq(Batches) : t = Todo(f)
      BY <1>2
    <2>2. ASSUME others # {} PROVE Len(t) > 1
      <3>1. \E i \in DOMAIN Tail(t) : TRUE
        BY <2>1, <2>2, <1>5 DEF ToSet
      <3> QED  BY <3>1, <2>1, <1>1, <1>2
    <2>3. Len(t) > 1 => Uncoalesced
      BY <2>1, <1>1, <1>2 DEF Lane, Taken
    <2> QED  BY <2>2, <2>3
  <1>19. \A m \in Msgs : \/ fate'[m] = fate[m]
                         \/ /\ fate[m] = "queued" /\ fate'[m] \in {"queued", "displaced", "dropped"}
                            /\ fate'[m] = "dropped" => Uncoalesced
    <2>1. \A m \in b \cup others \cup DisplacedByEnqueue : fate[m] = "queued"
      BY <1>6, <1>7, <1>16 DEF Waiting
    <2> QED  BY <2>1, <1>8, <1>18
  <1>20. Uncoalesced => Uncoalesced'
    <2>1. \A x \in Msgs : fate[x] # "new" => fate'[x] # "new"
      BY <1>19
    <2> QED  BY <2>1, <1>1, UncoalescedKept
  <1>21. Counted'
    BY <1>1, <1>19, <1>20 DEF Lane, Counted
  <1>22. Taken'
    <2>1. mode = "replace" => Len(queue') <= 1
      BY <1>8 DEF Enqueued
    <2>2. frames'[f].todo = <<>> /\ Len(<<>>) = 0
      BY <1>15 DEF Todo
    <2>3. ASSUME NEW h \in FrameIds, ~Free(h)'
          PROVE  /\ frames'[h].stage \notin {"handler", "waiting"} => frames'[h].todo = <<>>
                 /\ frames'[h].stage = "waiting" /\ frames'[h].todo # <<>> => Uncoalesced'
                 /\ Len(frames'[h].todo) > 1 => Uncoalesced'
      <3>1. CASE h = f
        BY <2>2, <3>1
      <3>2. CASE h # f
        BY <2>3, <3>2, <1>15, <1>20 DEF Lane, Taken, Free
      <3> QED  BY <3>1, <3>2
    <2> QED  BY <2>1, <2>3, <1>1 DEF Taken
  <1> QED  BY <1>14, <1>15, <1>17, <1>21, <1>22 DEF Lane

\* An activation ends; if its prompt failed, the one that awaited it loses the
\* messages it has left.
LEMMA LaneExit ==
    ASSUME Lane, Chain', NEW f \in FrameIds, Exit(f)
    PROVE  Lane'
  <1>1. /\ ~Free(f) /\ frames[f].stage = "exit" /\ mode' = mode /\ queue' = queue
        /\ prompts' = prompts
    BY DEF Exit, At, Free
  <1>2. TypeOK /\ TypeOK' /\ frames \in [FrameIds -> Frame \cup {NoFrame}]
    BY DEF Lane, Chain, TypeOK
  <1>3. Todo(f) = <<>>
    BY <1>1, NothingToDo
  <1>4. CASE frames[f].parent = 0
    <2>1. frames' = [frames EXCEPT ![f] = NoFrame] /\ fate' = fate
      BY <1>4 DEF Exit
    <2>2. frames'[f] = NoFrame /\ \A h \in FrameIds : h # f => frames'[h] = frames[h]
      BY <2>1, <1>2
    <2>3. Todo(f)' = <<>>
      BY <2>2 DEF Todo, Free
    <2>4. \A h \in FrameIds : Undisturbed(h)
      BY <2>2, <2>3, <1>3 DEF Undisturbed
    <2> QED  BY <2>1, <2>4, <1>1, LaneQuietStep
  <1>5. CASE frames[f].parent # 0
    <2>1. PICK p : p = frames[f].parent
      OBVIOUS
    <2>2. /\ p \in FrameIds /\ ~Free(p) /\ frames[p].stage = "waiting" /\ p # f
          /\ frames[p] \in Frame
      BY <2>1, <1>1, <1>2, <1>5, FrameFields DEF Lane, Chain, Awaited
    <2>3. CASE frames[f].ok
      <3>1. frames' = [frames EXCEPT ![f] = NoFrame, ![p].stage = "handler"] /\ fate' = fate
        BY <2>1, <2>3, <1>5 DEF Exit
      <3>2. frames'[p] = [frames[p] EXCEPT !.stage = "handler"]
        BY <3>1, <2>2, <1>2
      <3>3. /\ frames'[p].todo = frames[p].todo /\ frames'[p].stage = "handler"
            /\ frames'[p].kind # "none"
        BY <3>2, <2>2 DEF Frame
      <3>4. frames'[p] # NoFrame
        BY <3>3 DEF NoFrame
      <3>5. frames'[f] = NoFrame /\ \A h \in FrameIds : h # f /\ h # p => frames'[h] = frames[h]
        BY <3>1, <2>2, <1>2
      <3>6. Todo(f)' = <<>> /\ ~Free(p)'
        BY <3>4, <3>5 DEF Todo, Free
      <3>7. \A h \in FrameIds : Undisturbed(h)
        BY <3>3, <3>5, <3>6, <2>2, <1>3 DEF Undisturbed
      <3> QED  BY <3>1, <3>7, <1>1, LaneQuietStep
    <2>4. CASE ~frames[f].ok
      <3>1. /\ frames' = [frames EXCEPT ![f] = NoFrame, ![p].stage = "exit", ![p].todo = <<>>]
            /\ fate' = SetFate(UNION ToSet(frames[p].todo), "dropped")
        BY <2>1, <2>4, <1>5 DEF Exit
      <3>2. frames'[p] = [frames[p] EXCEPT !.stage = "exit", !.todo = <<>>]
        BY <3>1, <2>2, <1>2
      <3>3. /\ frames'[p].todo = <<>> /\ frames'[p].stage = "exit"
            /\ frames'[p].kind # "none"
        BY <3>2, <2>2 DEF Frame
      <3>4. frames'[p] # NoFrame
        BY <3>3 DEF NoFrame
      <3>5. frames'[f] = NoFrame /\ \A h \in FrameIds : h # f /\ h # p => frames'[h] = frames[h]
        BY <3>1, <2>2, <1>2
      <3>6. Todo(p)' = <<>> /\ ~Free(p)' /\ Free(f)'
        BY <3>3, <3>4, <3>5 DEF Todo, Free
      <3>7. \A h \in FrameIds : h # p => Todo(h)' = Todo(h)
        <4>1. Todo(f)' = <<>>
          BY <3>6 DEF Todo
        <4>2. \A h \in FrameIds : h # p /\ h # f => Todo(h)' = Todo(h)
          BY <3>5 DEF Todo, Free
        <4> QED  BY <4>1, <4>2, <1>3
      <3>8. /\ held \in Holding /\ held[0] = queue /\ p \in Places /\ p # 0
            /\ held[p] = Todo(p) /\ Todo(p) = frames[p].todo
            /\ \A i \in DOMAIN Todo(p) : Todo(p)[i] \subseteq Waiting
        BY <2>2, LaneFacts DEF Todo
      <3>9. held' = [held EXCEPT ![p] = <<>>]
        <4>1. held' = [held EXCEPT ![0] = queue, ![p] = <<>>]
          BY <3>6, <3>7, <2>2, <1>1, <1>2, HeldAfter
        <4>2. [held EXCEPT ![0] = queue] = held
          BY <3>8 DEF Holding
        <4> QED  BY <4>1, <4>2
      <3>10. PICK lost : lost = UNION ToSet(Todo(p))
        OBVIOUS
      <3>11. Filed([held EXCEPT ![p] = <<>>], Waiting \ lost)
        BY <3>8, <3>10, Clearing DEF Lane
      <3>12. lost \subseteq Waiting /\ (lost # {} => Uncoalesced)
        <4>1. lost # {} => Todo(p) # <<>>
          BY <3>10 DEF ToSet
        <4>2. frames[p].todo # <<>> => Uncoalesced
          BY <2>2 DEF Lane, Taken
        <4> QED  BY <4>1, <4>2, <3>8, <3>10 DEF ToSet
      <3>13. \A m \in Msgs : fate'[m] = IF m \in lost THEN "dropped" ELSE fate[m]
        BY <3>1, <3>8, <3>10 DEF SetFate
      <3>14. Waiting' = Waiting \ lost
        BY <3>13 DEF Waiting
      <3>15. \A m \in lost : m \in Msgs /\ fate[m] = "queued"
        BY <3>12 DEF Waiting
      <3>16. Uncoalesced => Uncoalesced'
        <4>1. \A x \in Msgs : fate[x] # "new" => fate'[x] # "new"
          BY <3>13
        <4> QED  BY <4>1, <1>1, UncoalescedKept
      <3>17. Counted'
        BY <3>12, <3>13, <3>15, <3>16, <1>1 DEF Lane, Counted
      <3>18. Taken'
        <4>1. Len(<<>>) = 0
          OBVIOUS
        <4> QED  BY <4>1, <3>3, <3>5, <3>6, <3>16, <1>1 DEF Lane, Taken, Free
      <3> QED  BY <3>9, <3>11, <3>14, <3>17, <3>18 DEF Lane
    <2> QED  BY <2>3, <2>4
  <1> QED  BY <1>4, <1>5

LEMMA LaneInit == Init => Lane
  <1> SUFFICES ASSUME Init PROVE Lane
    OBVIOUS
  <1>1. Chain /\ \A f \in FrameIds : Free(f)
    BY ChainInit DEF Init, Free
  <1>2. \A p \in Places : held[p] = <<>>
    BY <1>1 DEF Init, held, Todo, Places
  <1>3. Waiting = {} /\ Counted
    BY DEF Init, Waiting, Counted
  <1>4. Filed(held, Waiting)
    BY <1>2, <1>3 DEF Filed
  <1>5. Taken
    <2>1. Len(queue) = 0
      BY DEF Init
    <2> QED  BY <2>1, <1>1 DEF Taken
  <1> QED  BY <1>1, <1>3, <1>4, <1>5 DEF Lane

LEMMA LaneStep == Lane /\ [Next]_vars => Lane'
  <1> SUFFICES ASSUME Lane, [Next]_vars PROVE Lane'
    OBVIOUS
  <1>1. Chain' /\ Chain /\ TypeOK /\ TypeOK'
    BY ChainStep DEF Lane, Chain
  <1>2. frames \in [FrameIds -> Frame \cup {NoFrame}]
    BY <1>1 DEF TypeOK
  <1>3. ASSUME UNCHANGED <<mode, queue, fate, prompts, frames>>
        PROVE  Lane'
    <2>1. \A f \in FrameIds : Undisturbed(f)
      BY <1>3 DEF Undisturbed
    <2> QED  BY <2>1, <1>1, <1>3, LaneQuietStep
  \* A new frame has nothing to do.
  <1>4. ASSUME NEW f \in FrameIds, Free(f), NEW r, r.todo = <<>>,
               frames' = [frames EXCEPT ![f] = r]
        PROVE  \A g \in FrameIds : Undisturbed(g)
    <2>1. frames'[f] = r /\ \A g \in FrameIds : g # f => frames'[g] = frames[g]
      BY <1>2, <1>4
    <2>2. Todo(f) = <<>> /\ Todo(f)' = <<>>
      BY <2>1, <1>4 DEF Todo
    <2> QED  BY <2>1, <2>2 DEF Undisturbed
  \* A frame with nothing to do still has nothing to do.
  <1>5. ASSUME NEW f \in FrameIds, ~Free(f), Todo(f) = <<>>, NEW st, NEW ok,
               \/ frames' = [frames EXCEPT ![f].stage = st]
               \/ frames' = [frames EXCEPT ![f].stage = st, ![f].ok = ok]
        PROVE  \A g \in FrameIds : Undisturbed(g)
    <2>1. frames[f] \in Frame /\ frames[f].todo = <<>>
      BY <1>2, <1>5, FrameFields DEF Todo
    <2>2. /\ \A g \in FrameIds : g # f => frames'[g] = frames[g]
          /\ \/ frames'[f] = [frames[f] EXCEPT !.stage = st]
             \/ frames'[f] = [frames[f] EXCEPT !.stage = st, !.ok = ok]
      BY <1>2, <1>5
    <2>3. frames'[f].todo = <<>>
      BY <2>1, <2>2 DEF Frame
    <2>4. Todo(f)' = <<>>
      BY <2>3 DEF Todo
    <2> QED  BY <2>2, <2>4, <1>5 DEF Undisturbed
  <1>6. ASSUME NEW m \in Msgs, SubmitIdle(m)
        PROVE  Lane'
    <2>1. mode' = mode /\ queue' = queue /\ fate[m] = "new" /\ HandOver({m})
      BY <1>6 DEF SubmitIdle
    <2>2. PICK f \in FrameIds : Free(f) /\ frames' = [frames EXCEPT ![f] = SendFrame(0)]
      BY <1>6 DEF SubmitIdle, IsNewFrame
    <2>3. SendFrame(0).todo = <<>>
      BY NewFrames
    <2>4. \A g \in FrameIds : Undisturbed(g)
      BY <2>2, <2>3, <1>4
    <2> QED  BY <2>1, <2>4, <1>1, LaneQuietStep
  <1>7. ASSUME NEW m \in Msgs, SubmitRejected(m)
        PROVE  Lane'
    <2>1. \A f \in FrameIds : Undisturbed(f)
      BY <1>7 DEF SubmitRejected, Undisturbed
    <2>2. /\ mode' = mode /\ queue' = queue /\ fate[m] = "new" /\ prompts' = prompts
          /\ fate' = SetFate({m}, "rejected")
      BY <1>7 DEF SubmitRejected
    <2> QED  BY <2>1, <2>2, <1>1, LaneQuietStep
  <1>8. ASSUME NEW f \in FrameIds, NEW ok \in BOOLEAN, PromptEnds(f, ok)
        PROVE  Lane'
    <2>1. /\ ~Free(f) /\ frames[f].stage = "prompt" /\ UNCHANGED <<mode, queue, fate, prompts>>
          /\ frames' = [frames EXCEPT ![f].stage = "finally", ![f].ok = ok]
      BY <1>8 DEF PromptEnds, Free
    <2>2. Todo(f) = <<>>
      BY <2>1, NothingToDo
    <2>3. \A g \in FrameIds : Undisturbed(g)
      BY <2>1, <2>2, <1>5
    <2> QED  BY <2>1, <2>3, <1>1, LaneQuietStep
  <1>9. ASSUME NEW f \in FrameIds, Finally(f) \/ LoopEnds(f) \/ HandlerEnds(f)
        PROVE  Lane'
    <2>1. /\ frames[f].stage \notin {"handler", "waiting"} \/ frames[f].todo = <<>>
          /\ UNCHANGED <<mode, queue, fate, prompts>>
          /\ \E st \in Stages : frames' = [frames EXCEPT ![f].stage = st]
      BY <1>9 DEF Finally, LoopEnds, HandlerEnds, At, Goto, Free, Stages
    <2>2. ~Free(f) /\ Todo(f) = <<>>
      <3>1. ~Free(f)
        BY <1>9 DEF Finally, LoopEnds, HandlerEnds, At, Free
      <3> QED  BY <3>1, <2>1, NothingToDo
    <2>3. \A g \in FrameIds : Undisturbed(g)
      BY <2>1, <2>2, <1>5
    <2> QED  BY <2>1, <2>3, <1>1, LaneQuietStep
  <1>10. ASSUME NEW n, MaybeDrain(n), UNCHANGED <<mode, queue, fate, prompts>>
         PROVE  Lane'
    <2>1. CASE MayDrain(n)
      <3>1. PICK f \in FrameIds : Free(f) /\ frames' = [frames EXCEPT ![f] = MaybeFrame]
        BY <2>1, <1>10 DEF MaybeDrain, IsNewFrame
      <3>2. MaybeFrame.todo = <<>>
        BY NewFrames
      <3>3. \A g \in FrameIds : Undisturbed(g)
        BY <3>1, <3>2, <1>4
      <3> QED  BY <3>3, <1>1, <1>10, LaneQuietStep
    <2>2. CASE ~MayDrain(n)
      BY <2>2, <1>3, <1>10 DEF MaybeDrain
    <2> QED  BY <2>1, <2>2
  <1>11. CASE UNCHANGED vars \/ SpawnChild \/ ChildEndsSilently
    BY <1>3, <1>11 DEF vars, SpawnChild, ChildEndsSilently
  <1>12. CASE ChildCompletes \/ IdleEvent
    BY <1>10, <1>12 DEF ChildCompletes, IdleEvent
  <1>13. ASSUME NEW f \in FrameIds, Drain(f) \/ SendDrained(f) \/ ParkDrained(f) \/ Exit(f)
         PROVE  Lane'
    BY <1>1, <1>13, LaneDrain, LaneSendDrained, LaneParkDrained, LaneExit
  <1>14. ASSUME NEW m \in Msgs, SubmitBusy(m)
         PROVE  Lane'
    BY <1>1, <1>14, LaneSubmitBusy
  <1> QED
    BY <1>6, <1>7, <1>8, <1>9, <1>11, <1>12, <1>13, <1>14 DEF Next, Submit, Microtask

LEMMA LaneInvariant == Spec => []Lane
  BY LaneInit, LaneStep, PTL DEF Spec

\* A queued message is held in exactly one place, no message is handed over
\* twice, and a drain drops messages only in collect mode and only when an
\* attachment kept it from making one message of them.
THEOREM MessagesHeldOnce == Spec => []EachMessageOnce
  <1>1. ASSUME Lane, NEW m \in Msgs
        PROVE  Cardinality(Holders(m)) = IF fate[m] = "queued" THEN 1 ELSE 0
    <2>1. \A x : x \in Holders(m) <=>
              \E p \in Places : \E i \in DOMAIN held[p] : m \in held[p][i] /\ x = <<p, i>>
      <3>1. /\ held[0] = queue /\ Places = {0} \cup FrameIds
            /\ \A f \in FrameIds : held[f] = Todo(f)
        BY <1>1, LaneFacts DEF Places
      <3>2. \A f \in FrameIds : HeldByFrame(m, f) = {i \in DOMAIN Todo(f) : m \in Todo(f)[i]}
        <4>1. DOMAIN <<>> = {}
          OBVIOUS
        <4> QED  BY <4>1 DEF HeldByFrame, Todo
      <3> QED  BY <3>1, <3>2 DEF Holders, HeldInQueue
    <2>2. CASE fate[m] = "queued"
      <3>1. m \in Waiting
        BY <2>2 DEF Waiting
      <3>2. PICK p \in Places : \E i \in DOMAIN held[p] : m \in held[p][i]
        BY <3>1, <1>1 DEF Lane, Filed
      <3>3. PICK i \in DOMAIN held[p] : m \in held[p][i]
        BY <3>2
      <3>4. \A r \in Places : \A j \in DOMAIN held[r] : m \in held[r][j] => r = p /\ j = i
        BY <3>3, <1>1 DEF Lane, Filed
      <3>5. Holders(m) = {<<p, i>>}
        BY <2>1, <3>3, <3>4
      <3> QED  BY <3>5, <2>2, FS_Singleton
    <2>3. CASE fate[m] # "queued"
      <3>1. \A p \in Places : \A i \in DOMAIN held[p] : m \notin held[p][i]
        BY <1>1, <2>3 DEF Lane, Filed, Waiting
      <3>2. Holders(m) = {}
        BY <2>1, <3>1
      <3> QED  BY <3>2, <2>3, FS_EmptySet
    <2> QED  BY <2>2, <2>3
  <1>2. Lane => EachMessageOnce
    BY <1>1 DEF Lane, Counted, Uncoalesced, EachMessageOnce
  <1> QED  BY <1>2, LaneInvariant, PTL

===============================================================================
