------------------------ MODULE KeyboardWorkerProof ------------------------
(***************************************************************************)
(* What the injection worker of KeyboardWorker keeps, for any queues,       *)
(* batches, devices, retries and events: what it sends, while three of the  *)
(* windows are closed and the other six may be open; and, while all nine    *)
(* are closed, that no key stays down on the machine.                       *)
(***************************************************************************)
EXTENDS KeyboardWorker, SequenceTheorems, FiniteSetTheorems, TLAPS

(* With one of these windows open WorkerInv is false.                       *)
Steady == Windows \cap {"refill", "split", "lost"} = {}

-----------------------------------------------------------------------------
(* Parts of sequences.                                                     *)

LEMMA FirstOnes ==
    ASSUME NEW S, NEW q \in Seq(S), NEW n \in Nat,
           NEW r, r = SubSeq(q, 1, IF Len(q) < n THEN Len(q) ELSE n)
    PROVE  /\ r \in Seq(S) /\ Len(r) = IF Len(q) < n THEN Len(q) ELSE n
           /\ \A i \in 1 .. Len(r) : r[i] = q[i]
  <1>1. PICK b \in Nat : b = (IF Len(q) < n THEN Len(q) ELSE n) /\ b <= Len(q)
    BY LenProperties
  <1>2. \A i \in 1 .. b : q[i] \in S
    BY <1>1, ElementOfSeq
  <1>3. /\ SubSeq(q, 1, b) \in Seq(S)
        /\ Len(SubSeq(q, 1, b)) = IF 1 <= b THEN b - 1 + 1 ELSE 0
        /\ \A i \in 1 .. b - 1 + 1 : SubSeq(q, 1, b)[i] = q[1 + i - 1]
    BY <1>1, <1>2, SubSeqProperties
  <1>4. r = SubSeq(q, 1, b)
    BY <1>1
  <1>5. Len(r) = b
    BY <1>1, <1>3, <1>4
  <1>6. \A i \in 1 .. b : 1 + i - 1 = i /\ i \in 1 .. b - 1 + 1
    BY <1>1
  <1> QED
    BY <1>1, <1>3, <1>4, <1>5, <1>6

LEMMA OthersStay ==
    ASSUME NEW S, NEW q \in Seq(S), NEW n \in Nat, NEW r, r = SubSeq(q, n + 1, Len(q))
    PROVE  /\ r \in Seq(S) /\ Len(r) = IF Len(q) < n THEN 0 ELSE Len(q) - n
           /\ \A i \in 1 .. Len(r) : n + i \in 1 .. Len(q) /\ r[i] = q[n + i]
  <1>1. PICK m \in Nat : m = Len(q)
    BY LenProperties
  <1>2. PICK a \in Nat : a = n + 1
    OBVIOUS
  <1>3. \A i \in a .. m : q[i] \in S
    BY <1>1, <1>2, ElementOfSeq
  <1>4. /\ SubSeq(q, a, m) \in Seq(S)
        /\ Len(SubSeq(q, a, m)) = IF a <= m THEN m - a + 1 ELSE 0
        /\ \A i \in 1 .. m - a + 1 : SubSeq(q, a, m)[i] = q[a + i - 1]
    BY <1>1, <1>2, <1>3, SubSeqProperties
  <1>5. r = SubSeq(q, a, m)
    BY <1>1, <1>2
  <1>6. Len(r) = IF m < n THEN 0 ELSE m - n
    BY <1>1, <1>2, <1>4, <1>5
  <1>7. \A i \in 1 .. Len(r) : i \in 1 .. m - a + 1 /\ a + i - 1 = n + i /\ n + i \in 1 .. m
    BY <1>1, <1>2, <1>6
  <1> QED
    BY <1>1, <1>4, <1>5, <1>6, <1>7

-----------------------------------------------------------------------------
(* queue_push_many.                                                        *)

Strokes == {"tap", "press", "release"}

(* The queue after keystrokes were put behind it, or refused.               *)
Longer ==
    /\ queue' \in Seq(Keystroke) /\ Len(queue') <= QueueSize
    /\ Len(queue) <= Len(queue')
    /\ \A i \in 1 .. Len(queue) : queue'[i] = queue[i]
    /\ \A i \in Len(queue) + 1 .. Len(queue') :
          /\ queue'[i].id = 2 * events + i - Len(queue)
          /\ i - Len(queue) <= 2

LEMMA Pushed ==
    ASSUME queue \in Seq(Keystroke), Len(queue) <= QueueSize,
           events \in Nat, events < MaxEvents, asleep \in BOOLEAN, excused \in BOOLEAN,
           NEW keys \in Seq(Keys \cup Codes), Len(keys) <= 2, NEW tr \in Strokes,
           PushMany(keys, tr)
    PROVE  Longer /\ asleep' \in BOOLEAN /\ excused' \in BOOLEAN
  <1>1. Len(queue) \in Nat /\ Len(keys) \in Nat
    BY LenProperties
  <1>2. CASE Len(keys) > QueueSize - Len(queue)
    BY <1>1, <1>2 DEF PushMany, Longer
  <1>3. CASE ~(Len(keys) > QueueSize - Len(queue))
    <2> DEFINE more == [i \in 1 .. Len(keys) |->
                           [id |-> 2 * events + i, key |-> keys[i], tr |-> tr]]
    <2>1. \A i \in 1 .. Len(keys) : more[i] \in Keystroke
      <3> TAKE i \in 1 .. Len(keys)
      <3>1. keys[i] \in Keys \cup Codes
        BY ElementOfSeq
      <3>2. 2 * events + i \in 1 .. 2 * MaxEvents
        BY <1>1, KeyboardAssumption
      <3> QED
        BY <3>1, <3>2 DEF Keystroke, Strokes
    <2>2. more \in Seq(Keystroke) /\ Len(more) = Len(keys)
      <3>1. more \in [1 .. Len(keys) -> Keystroke]
        BY <2>1
      <3> HIDE DEF more
      <3>2. more \in Seq(Keystroke)
        BY <1>1, <3>1, SeqDef
      <3>3. DOMAIN more = 1 .. Len(more) /\ Len(more) \in Nat /\ DOMAIN more = 1 .. Len(keys)
        BY <3>1, <3>2, LenProperties
      <3> QED
        BY <1>1, <3>2, <3>3
    <2>3. queue' = queue \o more /\ asleep' = FALSE /\ excused' = excused
      BY <1>3 DEF PushMany
    <2>4. \A i \in 1 .. Len(keys) : more[i].id = 2 * events + i
      OBVIOUS
    <2> HIDE DEF more
    <2>5. /\ queue \o more \in Seq(Keystroke)
          /\ Len(queue \o more) = Len(queue) + Len(more)
          /\ \A i \in 1 .. Len(queue) + Len(more) :
                (queue \o more)[i] = IF i <= Len(queue) THEN queue[i] ELSE more[i - Len(queue)]
      BY <2>2, ConcatProperties
    <2>6. Len(queue') = Len(queue) + Len(keys) /\ Len(queue') <= QueueSize
      BY <1>1, <1>3, <2>2, <2>3, <2>5, KeyboardAssumption
    <2>7. \A i \in 1 .. Len(queue) : queue'[i] = queue[i]
      BY <1>1, <2>2, <2>3, <2>5
    <2>8. ASSUME NEW i \in Len(queue) + 1 .. Len(queue')
          PROVE  queue'[i].id = 2 * events + i - Len(queue) /\ i - Len(queue) <= 2
      <3>1. PICK j \in 1 .. Len(keys) : j = i - Len(queue)
        BY <1>1, <2>6
      <3>2. queue'[i] = more[j]
        BY <1>1, <2>2, <2>3, <2>5, <2>6, <3>1
      <3>3. i \in Int /\ 2 * events + j = 2 * events + i - Len(queue)
        BY <1>1, <3>1
      <3> QED
        BY <1>1, <2>4, <3>1, <3>2, <3>3
    <2>9. queue' \in Seq(Keystroke) /\ Len(queue) <= Len(queue')
      BY <1>1, <2>3, <2>5, <2>6
    <2>10. asleep' \in BOOLEAN /\ excused' \in BOOLEAN
      BY <2>3
    <2> QED
      BY <2>6, <2>7, <2>8, <2>9, <2>10 DEF Longer
  <1> QED
    BY <1>2, <1>3

-----------------------------------------------------------------------------
(* Steps that do the same to the queue and the batch.                       *)

Pushes ==
    \/ \E k \in Keys : KeyDown(k) \/ KeyUp(k)
    \/ \E text \in Texts : Type(text)

(* Commands, the focus, settings, callbacks and the KERNAL.                 *)
Others ==
    \/ \E m \in Modifiers : ModifierDown(m) \/ ModifierUp(m)
    \/ ToggleJoystick \/ LoseFocus \/ GainFocus
    \/ \E t \in Transports : SetTransport(t)
    \/ \E d \in Devices : Retarget(d)
    \/ Destroy \/ ResetNegotiation \/ Broadcast \/ Join \/ Consume

LEMMA StepKinds ==
    ASSUME [Next]_vars
    PROVE  Pushes \/ Others \/ Flush \/ Worker \/ UNCHANGED vars
  BY DEF Next, User, Callback, Pushes, Others

LEMMA PushesQueue ==
    ASSUME TypeOK, VerdictInv, Steady, Pushes
    PROVE  /\ Longer /\ ~Stale /\ events < MaxEvents /\ events' = events + 1
           /\ UNCHANGED <<cmds, settings, worker, machine, last, faults, negotiating, uiPc>>
           /\ asleep' \in BOOLEAN /\ excused' \in BOOLEAN
           /\ focus' \in BOOLEAN /\ joystick' \in BOOLEAN
           /\ tracked' \subseteq Keys \cup Modifiers
  <1>0. /\ queue \in Seq(Keystroke) /\ Len(queue) <= QueueSize
        /\ asleep \in BOOLEAN /\ excused \in BOOLEAN /\ events \in Nat
        /\ focus \in BOOLEAN /\ joystick \in BOOLEAN /\ tracked \subseteq Keys \cup Modifiers
    BY KeyboardAssumption DEF TypeOK, VerdictInv
  <1>1. ASSUME NEW k \in Keys, KeyDown(k) \/ KeyUp(k)
        PROVE  /\ Acts /\ Refills
               /\ \E tr \in Strokes : PushMany(<<k>>, tr)
               /\ UNCHANGED <<focus, joystick, uiPc, cmds>>
               /\ tracked' \subseteq Keys \cup Modifiers
    BY <1>0, <1>1 DEF KeyDown, KeyUp, Strokes
  <1>2. ASSUME NEW text \in Texts, Type(text)
        PROVE  Acts /\ Refills /\ PushMany(text, "tap") /\ UNCHANGED <<ui, cmds>>
    BY <1>2 DEF Type
  <1>3. ASSUME Acts, Refills
        PROVE  /\ ~Stale /\ events < MaxEvents /\ events' = events + 1
               /\ UNCHANGED <<settings, worker, machine, last, faults, negotiating>>
    BY <1>3 DEF Acts, Act, Refills, Steady
  <1>4. \A k \in Keys : <<k>> \in Seq(Keys \cup Codes) /\ Len(<<k>>) <= 2
    OBVIOUS
  <1>5. \A text \in Texts : text \in Seq(Keys \cup Codes) /\ Len(text) <= 2
    BY DEF Texts
  <1>6. CASE \E k \in Keys : KeyDown(k) \/ KeyUp(k)
    <2>1. PICK k \in Keys : KeyDown(k) \/ KeyUp(k)
      BY <1>6
    <2>2. PICK keys \in Seq(Keys \cup Codes) : keys = <<k>> /\ Len(keys) <= 2
      BY <1>4
    <2>3. PICK tr \in Strokes : PushMany(keys, tr)
      BY <1>1, <2>1, <2>2
    <2>4. Acts /\ Refills
      BY <1>1, <2>1
    <2>5. events < MaxEvents
      BY <1>3, <2>4
    <2>6. Longer /\ asleep' \in BOOLEAN /\ excused' \in BOOLEAN
      BY <1>0, <2>2, <2>3, <2>5, Pushed
    <2> QED
      BY <1>0, <1>1, <1>3, <2>1, <2>4, <2>6
  <1>7. CASE \E text \in Texts : Type(text)
    <2>1. PICK text \in Texts : Type(text)
      BY <1>7
    <2>2. PICK keys \in Seq(Keys \cup Codes) : keys = text /\ Len(keys) <= 2
      BY <1>5
    <2>3. Acts /\ Refills /\ PushMany(keys, "tap") /\ UNCHANGED <<ui, cmds>>
      BY <1>2, <2>1, <2>2
    <2>4. events < MaxEvents
      BY <1>3, <2>3
    <2>5. Longer /\ asleep' \in BOOLEAN /\ excused' \in BOOLEAN
      BY <1>0, <2>2, <2>3, <2>4, Pushed DEF Strokes
    <2> QED
      BY <1>0, <1>3, <2>3, <2>5 DEF ui
  <1> QED
    BY <1>6, <1>7 DEF Pushes

LEMMA OthersLeaveBatch ==
    ASSUME VerdictInv, Others
    PROVE  /\ UNCHANGED <<queue, worker, last>>
           /\ events' \in {events, events + 1} /\ events' \in 0 .. MaxEvents
  <1>0. events \in 0 .. MaxEvents /\ MaxEvents \in Nat
    BY KeyboardAssumption DEF VerdictInv
  <1>1. CASE \/ \E m \in Modifiers : ModifierDown(m) \/ ModifierUp(m)
             \/ ToggleJoystick \/ LoseFocus \/ GainFocus
    <2>1. Acts /\ UNCHANGED queue
      BY <1>1 DEF ModifierDown, ModifierUp, ToggleJoystick, LoseFocus, GainFocus, queues
    <2> QED
      BY <1>0, <2>1 DEF Acts, Act
  <1>2. CASE (\E t \in Transports : SetTransport(t)) \/ \E d \in Devices : Retarget(d)
    BY <1>0, <1>2 DEF SetTransport, Retarget, Act, queues
  <1>3. CASE Destroy \/ ResetNegotiation \/ Broadcast \/ Join \/ Consume
    BY <1>0, <1>3 DEF Destroy, ResetNegotiation, Broadcast, Join, Consume, queues, bounds
  <1> QED
    BY <1>1, <1>2, <1>3 DEF Others

-----------------------------------------------------------------------------
(* Types.                                                                  *)

LEMMA CommandQueued ==
    ASSUME cmds \in Seq(Command), Len(cmds) <= CmdQueueSize,
           asleep \in BOOLEAN, excused \in BOOLEAN, NEW c \in Command, QueueCommand(c)
    PROVE  /\ cmds' \in Seq(Command) /\ Len(cmds') <= CmdQueueSize
           /\ asleep' \in BOOLEAN /\ excused' \in BOOLEAN
  <1>1. Append(cmds, c) \in Seq(Command) /\ Len(Append(cmds, c)) = Len(cmds) + 1
    BY AppendProperties
  <1>2. Len(cmds) \in Nat /\ CmdQueueSize \in Nat
    BY LenProperties, KeyboardAssumption
  <1>3. CASE Len(cmds) >= CmdQueueSize
    BY <1>3 DEF QueueCommand
  <1>4. CASE ~(Len(cmds) >= CmdQueueSize)
    <2>1. cmds' = Append(cmds, c) /\ asleep' = FALSE /\ excused' = excused
      BY <1>4 DEF QueueCommand
    <2>2. cmds' \in Seq(Command) /\ Len(cmds') <= CmdQueueSize
      <3>1. PICK q \in Seq(Command) : q = Append(cmds, c) /\ Len(q) = Len(cmds) + 1
        BY <1>1
      <3> QED
        BY <1>2, <1>4, <2>1, <3>1
    <2>3. asleep' \in BOOLEAN /\ excused' \in BOOLEAN
      BY <2>1
    <2> QED
      BY <2>2, <2>3
  <1> QED
    BY <1>3, <1>4

LEMMA CommandsAre ==
    /\ ReleaseAll \in Command
    /\ \A m \in Modifiers : /\ [key |-> m, tr |-> "press"] \in Command
                            /\ [key |-> m, tr |-> "release"] \in Command
    /\ \A c \in Command : c = ReleaseAll \/ c.key \in Modifiers
  BY DEF Command, ReleaseAll

LEMMA OthersKeepTypes ==
    ASSUME TypeOK, VerdictInv, BufferWritten, Others
    PROVE  TypeOK'
  <1>0. TypeOK /\ VerdictInv /\ BufferWritten /\ MaxEvents \in Nat /\ BufferSize \in Nat
    BY KeyboardAssumption
  <1>1. CASE \/ \E m \in Modifiers : ModifierDown(m) \/ ModifierUp(m)
             \/ ToggleJoystick \/ LoseFocus \/ GainFocus
    <2>1. /\ UNCHANGED <<negotiating, settings, worker, machine, queue>>
          /\ tracked' \subseteq Keys \cup Modifiers
          /\ focus' \in BOOLEAN /\ joystick' \in BOOLEAN /\ uiPc' \in {uiPc, "flush"}
      BY <1>0, <1>1 DEF ModifierDown, ModifierUp, ToggleJoystick, LoseFocus, GainFocus, queues,
         Acts, TypeOK
    <2>2. \/ \E c \in Command : QueueCommand(c)
          \/ UNCHANGED <<cmds, asleep, excused>>
      <3>1. CASE \E m \in Modifiers : ModifierDown(m) \/ ModifierUp(m)
        BY <3>1, CommandsAre DEF ModifierDown, ModifierUp
      <3>2. CASE ToggleJoystick \/ LoseFocus \/ GainFocus
        BY <3>2, CommandsAre DEF ToggleJoystick, LoseFocus, GainFocus, queues
      <3> QED
        BY <1>1, <3>1, <3>2
    <2>3. /\ cmds' \in Seq(Command) /\ Len(cmds') <= CmdQueueSize
          /\ asleep' \in BOOLEAN /\ excused' \in BOOLEAN
      <3>1. /\ cmds \in Seq(Command) /\ Len(cmds) <= CmdQueueSize
            /\ asleep \in BOOLEAN /\ excused \in BOOLEAN
        BY <1>0 DEF TypeOK
      <3> QED
        BY <2>2, <3>1, CommandQueued
    <2> QED
      BY <1>0, <2>1, <2>3 DEF TypeOK, settings, worker, machine
  <1>2. CASE \E t \in Transports : SetTransport(t)
    BY <1>0, <1>2 DEF SetTransport, TypeOK, ui, queues, worker, machine
  <1>3. CASE \E d \in Devices : Retarget(d)
    BY <1>0, <1>3 DEF Retarget, TypeOK, ui, queues, settings, worker
  <1>4. CASE ResetNegotiation
    <2>1. generation' \in 0 .. MaxEvents
      BY <1>0, <1>4 DEF ResetNegotiation, TypeOK, VerdictInv
    <2>2. seen' \in 0 .. generation'
      BY <1>0, <1>4 DEF ResetNegotiation, TypeOK, worker
    <2>3. /\ UNCHANGED <<focus, joystick, tracked, uiPc, queue, cmds, asleep>>
          /\ UNCHANGED <<transport, worker_running, pc, state, command>>
          /\ UNCHANGED <<pending, consumed, retries, demoted>>
          /\ UNCHANGED <<device, held, cells, kernal, excused>> /\ negotiating' \in BOOLEAN
      BY <1>4 DEF ResetNegotiation, queues, worker, machine
    <2> QED
      BY <1>0, <2>1, <2>2, <2>3 DEF TypeOK
  <1>5. CASE Destroy \/ Broadcast \/ Join
    <2>1. CASE Destroy
      <3>1. /\ worker_running' = FALSE /\ uiPc' = "broadcast" /\ asleep' = asleep
            /\ UNCHANGED <<focus, joystick, tracked, negotiating, queue, cmds>>
            /\ UNCHANGED <<transport, generation, pc, state, command, pending>>
            /\ UNCHANGED <<consumed, retries, demoted, seen, device, held, kernal, cells, excused>>
        BY <2>1 DEF Destroy, queues, worker, machine
      <3>2. worker_running' \in BOOLEAN /\ asleep' \in BOOLEAN
        BY <3>1, Zenon DEF TypeOK
      <3>3. uiPc' \in {"ready", "flush", "broadcast", "join", "destroyed"}
        BY <3>1
      <3> QED
        BY <1>0, <3>1, <3>2, <3>3 DEF TypeOK
    <2>2. CASE Broadcast
      <3>1. /\ worker_running' = worker_running /\ uiPc' = "join" /\ asleep' = FALSE
            /\ UNCHANGED <<focus, joystick, tracked, negotiating, queue, cmds>>
            /\ UNCHANGED <<transport, generation, pc, state, command, pending>>
            /\ UNCHANGED <<consumed, retries, demoted, seen, device, held, kernal, cells, excused>>
        BY <2>2 DEF Broadcast, settings, worker, machine
      <3>2. worker_running' \in BOOLEAN /\ asleep' \in BOOLEAN
        BY <3>1, Zenon DEF TypeOK
      <3>3. uiPc' \in {"ready", "flush", "broadcast", "join", "destroyed"}
        BY <3>1
      <3> QED
        BY <1>0, <3>1, <3>2, <3>3 DEF TypeOK
    <2>3. CASE Join
      BY <1>0, <2>3 DEF Join, TypeOK, queues, settings, worker, machine
    <2> QED
      BY <1>5, <2>1, <2>2, <2>3
  <1>6. CASE Consume
    <2>1. kernal' \in 0 .. BufferSize
      BY <1>0, <1>6 DEF Consume, TypeOK
    <2>2. cells' \in 0 .. BufferSize
      BY <1>0, <1>6 DEF Consume, TypeOK, BufferWritten
    <2> QED
      BY <1>0, <1>6, <2>1, <2>2 DEF Consume, TypeOK, ui, queues, settings, worker
  <1> QED
    BY <1>1, <1>2, <1>3, <1>4, <1>5, <1>6 DEF Others

-----------------------------------------------------------------------------
(* What the worker's steps do to its batch.                                 *)

(* queue_peek_batch copies the head of the queue.                           *)
LEMMA Peeked ==
    ASSUME TypeOK, NEW none, Peek(none)
    PROVE  /\ pending' \in Seq(Keystroke) /\ Len(pending') <= RestBatch
           /\ consumed' = Len(pending') /\ consumed' \in 0 .. RestBatch
           /\ Len(pending') <= Len(queue)
           /\ \A i \in 1 .. Len(pending') : pending'[i] = queue[i]
           /\ pc' = (IF pending' = <<>> THEN none ELSE "choose")
           /\ UNCHANGED <<ui, queues, settings, state, command, retries, demoted, seen,
                          machine, last, excused, bounds>>
  <1>1. queue \in Seq(Keystroke) /\ RestBatch \in Nat /\ RestBatch >= 1
    BY KeyboardAssumption DEF TypeOK
  <1>2. /\ pending' \in Seq(Keystroke)
        /\ Len(pending') = IF Len(queue) < RestBatch THEN Len(queue) ELSE RestBatch
        /\ \A i \in 1 .. Len(pending') : pending'[i] = queue[i]
    <2>1. PICK r : r = SubSeq(queue, 1, IF Len(queue) < RestBatch THEN Len(queue) ELSE RestBatch)
      OBVIOUS
    <2>2. pending' = r
      BY <2>1 DEF Peek
    <2>3. /\ r \in Seq(Keystroke) /\ Len(r) = IF Len(queue) < RestBatch THEN Len(queue) ELSE RestBatch
          /\ \A i \in 1 .. Len(r) : r[i] = queue[i]
      BY <1>1, <2>1, FirstOnes
    <2> QED
      BY <2>2, <2>3
  <1>3. Len(queue) \in Nat /\ Len(pending') \in Nat
    BY <1>1, <1>2, LenProperties
  <1>4. queue = <<>> <=> pending' = <<>>
    <2>1. (queue = <<>> <=> Len(queue) = 0) /\ (pending' = <<>> <=> Len(pending') = 0)
      BY <1>1, <1>2, EmptySeq
    <2> QED
      BY <1>1, <1>2, <1>3, <2>1
  <1>5. /\ consumed' = Len(pending') /\ pc' = (IF queue = <<>> THEN none ELSE "choose")
        /\ UNCHANGED <<ui, queues, settings, state, command, retries, demoted, seen,
                       machine, last, excused, bounds>>
    BY DEF Peek
  <1> QED
    BY <1>1, <1>2, <1>3, <1>4, <1>5

(* A batch for the KERNAL is cut to its buffer, and one of releases only is *)
(* consumed at once.                                                       *)
LEMMA CutForKernal ==
    ASSUME TypeOK, ToLegacy
    PROVE  /\ pending' \in Seq(Keystroke) /\ Len(pending') <= BufferSize
           /\ consumed' = Len(pending') /\ consumed' \in 0 .. RestBatch
           /\ Len(pending') <= Len(pending)
           /\ \A i \in 1 .. Len(pending') : pending'[i] = pending[i]
           /\ \/ pc' = "discard" /\ state' = state
              \/ pc' = "loop" /\ state' = "empty" /\ Typed' # {}
           /\ retries' = 0
  <1> DEFINE batch == SubSeq(pending, 1, IF Len(pending) < BufferSize
                                         THEN Len(pending) ELSE BufferSize)
  <1>1. pending \in Seq(Keystroke) /\ BufferSize \in Nat /\ RestBatch \in Nat
        /\ BufferSize <= RestBatch
    BY KeyboardAssumption DEF TypeOK
  <1>2. /\ batch \in Seq(Keystroke)
        /\ Len(batch) = IF Len(pending) < BufferSize THEN Len(pending) ELSE BufferSize
        /\ \A i \in 1 .. Len(batch) : batch[i] = pending[i]
    BY <1>1, FirstOnes
  <1>3. /\ pending' = batch /\ consumed' = Len(batch) /\ retries' = 0
        /\ IF \A i \in 1 .. Len(batch) : batch[i].tr = "release"
           THEN pc' = "discard" /\ UNCHANGED state
           ELSE pc' = "loop" /\ state' = "empty"
    BY DEF ToLegacy
  <1> HIDE DEF batch
  <1>4. Len(pending) \in Nat /\ Len(batch) \in Nat
    BY <1>1, <1>2, LenProperties
  <1>5. (\A i \in 1 .. Len(batch) : batch[i].tr = "release") \/ Typed' # {}
    BY <1>3 DEF Typed
  <1> QED
    BY <1>1, <1>2, <1>3, <1>4, <1>5

LEMMA TypedFits ==
    ASSUME TypeOK
    PROVE  IsFiniteSet(Typed) /\ Cardinality(Typed) \in 0 .. Len(pending)
  <1>1. Len(pending) \in Nat
    BY LenProperties DEF TypeOK
  <1>2. IsFiniteSet(1 .. Len(pending)) /\ Cardinality(1 .. Len(pending)) = Len(pending)
    <2>1. PICK n \in Nat : n = Len(pending)
      BY <1>1
    <2>2. n >= 1 => n - 1 + 1 = n
      OBVIOUS
    <2>3. IsFiniteSet(1 .. n) /\ Cardinality(1 .. n) = IF 1 > n THEN 0 ELSE n - 1 + 1
      BY FS_Interval
    <2>4. Cardinality(1 .. n) = n
      BY <2>2, <2>3
    <2> QED
      BY <2>1, <2>3, <2>4
  <1>3. Typed \in SUBSET (1 .. Len(pending))
    BY DEF Typed
  <1>4. IsFiniteSet(Typed) /\ Cardinality(Typed) <= Cardinality(1 .. Len(pending))
    BY <1>2, <1>3, FS_Subset
  <1>5. Cardinality(Typed) \in Nat
    BY <1>4, FS_CardinalityType
  <1> QED
    BY <1>1, <1>2, <1>4, <1>5

(* The last of the keystrokes given is one of the batch.                    *)
LEMMA Given ==
    ASSUME TypeOK, NEW places \in SUBSET (1 .. Len(pending)), Give(places)
    PROVE  \E i \in 1 .. Len(pending) : last' = pending[i].id
  BY DEF Give

LEMMA TakenKeys ==
    ASSUME TypeOK, Take
    PROVE  held' \subseteq Keys \cup Modifiers /\ \E i \in 1 .. Len(pending) : last' = pending[i].id
  <1>1. held' \subseteq Keys \cup Modifiers
    BY DEF Take, TypeOK
  <1>2. Give(1 .. Len(pending))
    BY DEF Take
  <1> QED
    BY <1>1, <1>2, Given

LEMMA Discarded ==
    ASSUME TypeOK, Discard
    PROVE  /\ queue' \in Seq(Keystroke) /\ Len(queue') <= QueueSize
           /\ \A i \in 1 .. Len(queue') : /\ consumed + i \in 1 .. Len(queue)
                                          /\ queue'[i] = queue[consumed + i]
  <1>1. queue \in Seq(Keystroke) /\ consumed \in Nat /\ QueueSize \in Nat /\ Len(queue) <= QueueSize
    BY KeyboardAssumption DEF TypeOK
  <1>2. PICK r : r = SubSeq(queue, consumed + 1, Len(queue))
    OBVIOUS
  <1>3. /\ r \in Seq(Keystroke) /\ Len(r) = IF Len(queue) < consumed THEN 0 ELSE Len(queue) - consumed
        /\ \A i \in 1 .. Len(r) : consumed + i \in 1 .. Len(queue) /\ r[i] = queue[consumed + i]
    BY <1>1, <1>2, OthersStay
  <1>4. Len(queue) \in Nat
    BY <1>1, LenProperties
  <1>5. queue' = r
    BY <1>2 DEF Discard, Remaining
  <1> QED
    BY <1>1, <1>3, <1>4, <1>5

LEMMA WorkerKeepsTypes ==
    ASSUME TypeOK, PlaceInv, BatchInv, KernalInv, Worker
    PROVE  TypeOK'
  <1>0. TypeOK /\ PlaceInv /\ MaxRetries \in Nat /\ MaxRetries # 0 /\ BufferSize \in Nat
    BY KeyboardAssumption
  <1>s. Cardinality(Typed) \in Nat /\ (state \in Prepared => Cardinality(Typed) \in 0 .. BufferSize)
    BY TypedFits, <1>0 DEF BatchInv, TypeOK
  <1>1. CASE Iterate
    BY <1>0, <1>1 DEF Iterate, TypeOK, ui, queues, settings, machine
  <1>2. CASE PopCommand
    <2>1. cmds' \in Seq(Command) /\ Len(cmds') <= CmdQueueSize /\ command' \in Command
      <3>1. CASE cmds = <<>>
        BY <1>0, <1>2, <3>1 DEF PopCommand, TypeOK
      <3>2. CASE cmds # <<>>
        <4>1. cmds \in Seq(Command) /\ Len(cmds) <= CmdQueueSize /\ CmdQueueSize \in Nat
          BY <1>0, KeyboardAssumption DEF TypeOK
        <4>2. Tail(cmds) \in Seq(Command) /\ Len(Tail(cmds)) = Len(cmds) - 1
          BY <3>2, <4>1, HeadTailProperties
        <4>3. Len(cmds) \in Nat /\ 1 \in 1 .. Len(cmds)
          BY <3>2, <4>1, EmptySeq, LenProperties
        <4>4. cmds[1] \in Command
          BY <4>1, <4>3, ElementOfSeq
        <4>5. cmds' = Tail(cmds) /\ command' = cmds[1]
          BY <1>2, <3>2 DEF PopCommand
        <4> QED
          BY <4>1, <4>2, <4>3, <4>4, <4>5
      <3> QED
        BY <3>1, <3>2
    <2>2. pc' \in {"command"} \cup {state}
      BY <1>2 DEF PopCommand
    <2> QED
      BY <1>0, <1>2, <2>1, <2>2 DEF PopCommand, TypeOK, ui, settings, machine, bounds
  <1>3. CASE RunCommand
    <2>1. held' \subseteq Keys \cup Modifiers
      <3>1. After(held, command) \subseteq Keys \cup Modifiers
        <4>1. command = ReleaseAll \/ command.key \in Modifiers
          BY <1>0, CommandsAre DEF TypeOK
        <4>2. CASE command = ReleaseAll
          BY <4>2 DEF After, ReleaseAll
        <4>3. CASE command # ReleaseAll
          <5>1. After(held, command) \in {held \cup {command.key}, held \ {command.key}}
            BY <4>3 DEF After
          <5> QED
            BY <1>0, <4>1, <4>3, <5>1 DEF TypeOK
        <4> QED
          BY <4>2, <4>3
      <3> QED
        BY <1>0, <1>3, <3>1 DEF RunCommand, TypeOK
    <2>2. excused' \in BOOLEAN
      BY <1>0, <1>3 DEF RunCommand, Fails, Answers, TypeOK
    <2>3. pc' = "commands" /\ command' \in Command
      BY <1>3, CommandsAre DEF RunCommand
    <2> QED
      BY <1>0, <1>3, <2>1, <2>2, <2>3 DEF RunCommand, TypeOK, ui, queues, settings
  <1>4. CASE PeekIdle \/ PeekAgain
    <2>1. PICK none \in {"wait", "loop"} : Peek(none)
      BY <1>4 DEF PeekIdle, PeekAgain
    <2>2. /\ pending' \in Seq(Keystroke) /\ Len(pending') <= RestBatch
          /\ consumed' \in 0 .. RestBatch
          /\ pc' = (IF pending' = <<>> THEN none ELSE "choose")
          /\ UNCHANGED <<ui, queues, settings, state, command, retries, demoted, seen,
                         machine, last, excused, bounds>>
      BY <2>1, Peeked
    <2> QED
      BY <1>0, <2>1, <2>2 DEF TypeOK, ui, queues, settings, machine
  <1>5. CASE WaitForWork
    <2>1. asleep' \in BOOLEAN /\ pc' \in {"wait", "loop", "peek"}
      BY <1>0, <1>5 DEF WaitForWork, TypeOK
    <2> QED
      BY <1>0, <1>5, <2>1 DEF WaitForWork, TypeOK, ui, settings, machine
  <1>6. CASE Choose
    <2>1. demoted' \in {"no", "timed", "forever"} /\ seen' = generation /\ excused' \in BOOLEAN
      BY <1>0, <1>6 DEF Choose, TypeOK
    <2>2. /\ pending' \in Seq(Keystroke) /\ Len(pending') <= RestBatch
          /\ consumed' \in 0 .. RestBatch /\ retries' \in 0 .. MaxRetries
          /\ state' \in {state, "empty"}
          /\ pc' \in {"force", "try", "discard", "loop"}
      <3>1. CASE ToLegacy
        BY <1>0, <3>1, CutForKernal, KeyboardAssumption
      <3>2. CASE UNCHANGED <<state, pending, consumed, retries>>
        BY <1>0, <1>6, <3>2 DEF Choose, TypeOK, ToLegacy
      <3> QED
        BY <1>6, <3>1, <3>2 DEF Choose
    <2> QED
      BY <1>0, <1>6, <2>1, <2>2 DEF Choose, TypeOK, ui, queues, settings, machine
  <1>7. CASE Request
    <2>1. held' \subseteq Keys \cup Modifiers
      BY <1>0, <1>7, TakenKeys DEF Request, TypeOK
    <2>2. demoted' \in {"no", "timed", "forever"} /\ excused' \in BOOLEAN
      BY <1>0, <1>7 DEF Request, TypeOK, Fails, Answers
    <2>3. /\ pending' \in Seq(Keystroke) /\ Len(pending') <= RestBatch
          /\ consumed' \in 0 .. RestBatch /\ retries' \in 0 .. MaxRetries
          /\ state' \in {state, "empty"}
          /\ pc' \in {"discard", "loop"}
      <3>1. CASE ToLegacy
        BY <1>0, <3>1, CutForKernal, KeyboardAssumption
      <3>2. CASE UNCHANGED <<state, pending, consumed, retries>> /\ pc' = "discard"
        BY <1>0, <3>2 DEF TypeOK
      <3> QED
        BY <1>7, <3>1, <3>2 DEF Request
    <2> QED
      BY <1>0, <1>7, <2>1, <2>2, <2>3 DEF Request, TypeOK, ui, queues, settings
  <1>8. CASE Discard
    <2>1. queue' \in Seq(Keystroke) /\ Len(queue') <= QueueSize
      BY <1>0, <1>8, Discarded
    <2>2. pending' \in Seq(Keystroke) /\ Len(pending') = 0 /\ RestBatch \in Nat
      BY <1>8, EmptySeq, KeyboardAssumption DEF Discard
    <2> QED
      BY <1>0, <1>8, <2>1, <2>2 DEF Discard, TypeOK, ui, settings, machine
  <1>9. CASE WaitEmpty \/ WriteCells \/ WriteLength \/ Verify
    <2>1. /\ pc' \in {"loop", "length"} /\ state' \in {"write", "verify", "discard", state}
          /\ retries' \in 0 .. MaxRetries
      <3>1. retries < MaxRetries /\ retries \in Nat /\ state \in Prepared
        BY <1>0, <1>9 DEF PlaceInv, TypeOK, WaitEmpty, WriteCells, WriteLength, Verify, Prepared
      <3>2. \/ \E s \in {"write", "verify", "discard"} : Step(s)
            \/ Again \/ (pc' = "length" /\ UNCHANGED <<state, retries>>)
        BY <1>9 DEF WaitEmpty, WriteCells, WriteLength, Verify
      <3> QED
        BY <1>0, <3>1, <3>2 DEF Step, Again
    <2>2. kernal' \in 0 .. BufferSize /\ cells' \in 0 .. BufferSize
      <3>1. state \in Prepared
        BY <1>0, <1>9 DEF PlaceInv, WaitEmpty, WriteCells, WriteLength, Verify, Prepared
      <3>2. kernal' \in {kernal, Cardinality(Typed)} /\ cells' \in {cells, Cardinality(Typed)}
        BY <1>9 DEF WaitEmpty, WriteCells, WriteLength, Verify, Lengthen
      <3> QED
        BY <1>0, <1>s, <3>1, <3>2 DEF TypeOK
    <2>3. excused' \in BOOLEAN
      BY <1>0, <1>9 DEF WaitEmpty, WriteCells, WriteLength, Verify, Fails, Answers, TypeOK
    <2>4. Legacy
      BY <1>9 DEF WaitEmpty, WriteCells, WriteLength, Verify
    <2> QED
      BY <1>0, <2>1, <2>2, <2>3, <2>4 DEF Legacy, TypeOK, ui, queues, settings
  <1> QED
    BY <1>1, <1>2, <1>3, <1>4, <1>5, <1>6, <1>7, <1>8, <1>9 DEF Worker

LEMMA TypesKept ==
    ASSUME IInv, Steady, [Next]_vars
    PROVE  TypeOK'
  <1> USE DEF IInv
  <1>1. CASE Pushes
    <2>1. /\ Longer
          /\ UNCHANGED <<cmds, settings, worker, machine, negotiating, uiPc>>
          /\ asleep' \in BOOLEAN /\ excused' \in BOOLEAN
          /\ focus' \in BOOLEAN /\ joystick' \in BOOLEAN
          /\ tracked' \subseteq Keys \cup Modifiers
      BY <1>1, PushesQueue
    <2> QED
      BY <2>1 DEF Longer, TypeOK, settings, worker, machine
  <1>2. CASE Others
    BY <1>2, OthersKeepTypes DEF KernalInv
  <1>3. CASE Flush
    <2>1. queue' \in Seq(Keystroke) /\ Len(queue') = 0 /\ QueueSize \in Nat
      BY <1>3, EmptySeq, KeyboardAssumption DEF Flush
    <2>2. /\ UNCHANGED <<focus, joystick, tracked, negotiating, cmds, settings, worker, machine,
                         excused>>
          /\ asleep' = FALSE /\ uiPc' = "ready"
      BY <1>3 DEF Flush
    <2>3. /\ focus' \in BOOLEAN /\ joystick' \in BOOLEAN /\ negotiating' \in BOOLEAN
          /\ asleep' \in BOOLEAN /\ excused' \in BOOLEAN /\ worker_running' \in BOOLEAN
      BY <2>2 DEF TypeOK, settings
    <2>4. Len(queue') <= QueueSize
      BY <2>1
    <2> QED
      BY <2>1, <2>2, <2>3, <2>4 DEF TypeOK, settings, worker, machine
  <1>4. CASE Worker
    BY <1>4, WorkerKeepsTypes
  <1>5. CASE UNCHANGED vars
    BY <1>5 DEF vars, TypeOK, ui, queues, settings, worker, machine
  <1> QED
    BY <1>1, <1>2, <1>3, <1>4, <1>5, StepKinds

-----------------------------------------------------------------------------
(* Where the worker stands, and its batch.                                  *)

(* The steps of one batch for the KERNAL.                                   *)
LEMMA LegacySteps ==
    ASSUME WaitEmpty \/ WriteCells \/ WriteLength \/ Verify
    PROVE  /\ Legacy /\ pc \in {"empty", "write", "length", "verify"}
           /\ \/ /\ pc' = "loop" /\ retries' = 0
                 /\ state' = CASE pc = "empty" -> "write" [] pc = "length" -> "verify"
                               [] OTHER -> "discard"
                 /\ pc # "write" /\ (state' = "write" => kernal = 0)
              \/ Again
              \/ pc = "write" /\ pc' = "length" /\ UNCHANGED <<state, retries>>
  BY DEF WaitEmpty, WriteCells, WriteLength, Verify, Step

LEMMA PlaceKept ==
    ASSUME IInv, Steady, [Next]_vars
    PROVE  PlaceInv'
  <1> USE DEF IInv, PlaceInv, Prepared
  <1>0. MaxRetries \in Nat /\ MaxRetries # 0 /\ retries \in Nat
    BY KeyboardAssumption DEF TypeOK
  <1>1. CASE Pushes
    <2>1. UNCHANGED worker
      BY <1>1, PushesQueue
    <2> QED
      BY <2>1 DEF worker
  <1>2. CASE Others
    <2>1. UNCHANGED worker
      BY <1>2, OthersLeaveBatch
    <2> QED
      BY <2>1 DEF worker
  <1>3. CASE Flush
    BY <1>3 DEF Flush, worker
  <1>4. CASE Iterate
    BY <1>4 DEF Iterate
  <1>5. CASE PopCommand
    BY <1>5 DEF PopCommand, TypeOK
  <1>6. CASE RunCommand
    BY <1>6 DEF RunCommand
  <1>7. CASE PeekIdle \/ PeekAgain
    <2>1. /\ pc' \in {"wait", "loop", "choose"} /\ UNCHANGED <<state, retries>> /\ state = "idle"
      BY <1>7 DEF PeekIdle, PeekAgain, Peek
    <2> QED
      BY <2>1
  <1>8. CASE WaitForWork
    BY <1>8 DEF WaitForWork
  <1>9. CASE Choose \/ Request
    <2>1. state = "idle"
      BY <1>9 DEF Choose, Request
    <2>2. \/ ToLegacy
          \/ pc' \in {"force", "try", "discard"} /\ UNCHANGED <<state, retries>>
      BY <1>9 DEF Choose, Request
    <2>3. CASE ToLegacy
      <3>1. \/ pc' = "discard" /\ state' = state
            \/ pc' = "loop" /\ state' = "empty"
        BY <2>3, CutForKernal
      <3>2. retries' = 0
        BY <2>3, CutForKernal
      <3> QED
        BY <1>0, <2>1, <3>1, <3>2
    <2>4. CASE pc' \in {"force", "try", "discard"} /\ UNCHANGED <<state, retries>>
      BY <2>1, <2>4
    <2> QED
      BY <2>2, <2>3, <2>4
  <1>10. CASE Discard
    BY <1>0, <1>10 DEF Discard
  <1>11. CASE WaitEmpty \/ WriteCells \/ WriteLength \/ Verify
    <2>1. /\ pc \in {"empty", "write", "length", "verify"}
          /\ \/ /\ pc' = "loop" /\ retries' = 0
             \/ Again
             \/ pc = "write" /\ pc' = "length" /\ UNCHANGED <<state, retries>>
      BY <1>11, LegacySteps
    <2> QED
      BY <1>0, <2>1 DEF Again
  <1>12. CASE UNCHANGED vars
    BY <1>12 DEF vars, worker
  <1> QED
    BY <1>1, <1>2, <1>3, <1>4, <1>5, <1>6, <1>7, <1>8, <1>9, <1>10, <1>11, <1>12, StepKinds
    DEF Worker

(* As long as queue, batch and place are the same, so is what is known of   *)
(* them.                                                                    *)
LEMMA BatchStays ==
    ASSUME BatchInv, UNCHANGED <<queue, pending, consumed>>,
           state' = "idle" /\ pc' \notin {"choose", "try", "force", "discard"} => pending = <<>>,
           pc' \in {"try", "force"} => Expressible,
           state' \in Prepared => Typed # {} /\ Len(pending) <= BufferSize
    PROVE  BatchInv'
  BY DEF BatchInv, Stale, Expressible, Typed, Prepared

LEMMA BatchKept ==
    ASSUME IInv, Steady, [Next]_vars
    PROVE  BatchInv'
  <1> USE DEF IInv
  <1>0. /\ consumed = Len(pending) /\ Len(queue) \in Nat /\ Len(pending) \in Nat
        /\ pending \in Seq(Keystroke) /\ queue \in Seq(Keystroke)
    BY LenProperties DEF BatchInv, TypeOK
  <1>1. CASE Pushes
    <2>1. /\ Longer /\ ~Stale /\ UNCHANGED worker
      BY <1>1, PushesQueue
    <2>2. Len(queue') \in Nat /\ Len(queue) <= Len(queue')
      BY <2>1, LenProperties DEF Longer
    <2>3. ~Stale' /\ \A i \in 1 .. Len(pending') : pending'[i] = queue'[i]
      <3>1. UNCHANGED <<pending, consumed>>
        BY <2>1 DEF worker
      <3>2. Len(pending) <= Len(queue)
        BY <1>0, <2>1 DEF Stale
      <3>3. ~Stale'
        BY <1>0, <2>2, <3>1, <3>2 DEF Stale
      <3>4. ASSUME NEW i \in 1 .. Len(pending)
            PROVE  pending[i] = queue'[i]
        <4>1. i \in 1 .. Len(queue)
          BY <1>0, <3>2
        <4>2. queue'[i] = queue[i]
          BY <2>1, <4>1 DEF Longer
        <4>3. pending[i] = queue[i]
          BY <2>1 DEF BatchInv
        <4> QED
          BY <4>2, <4>3
      <3> QED
        BY <3>1, <3>3, <3>4
    <2> QED
      BY <2>1, <2>3 DEF BatchInv, worker, Typed, Expressible, Prepared
  <1>2. CASE Others
    <2>1. UNCHANGED <<queue, worker>>
      BY <1>2, OthersLeaveBatch
    <2> QED
      BY <2>1 DEF BatchInv, worker, Typed, Expressible, Prepared, Stale
  <1>3. CASE Flush
    <2>1. queue' = <<>> /\ UNCHANGED worker
      BY <1>3 DEF Flush
    <2>2. ~Stale' => \A i \in 1 .. Len(pending') : pending'[i] = queue'[i]
      BY <1>0, <2>1 DEF Stale, worker
    <2> QED
      BY <2>1, <2>2 DEF BatchInv, worker, Typed, Expressible, Prepared
  <1>4. CASE Iterate \/ RunCommand \/ WaitForWork
    <2>1. /\ UNCHANGED <<queue, pending, consumed, state>>
          /\ pc \in {"loop", "command", "wait"}
          /\ pc' \in {"commands", "done", "wait", "loop", "peek"}
      BY <1>4 DEF Iterate, RunCommand, WaitForWork, queues
    <2> QED
      BY <2>1, BatchStays DEF BatchInv, Prepared
  <1>5. CASE PopCommand
    <2>1. /\ UNCHANGED <<queue, pending, consumed, state>>
          /\ pc = "commands" /\ pc' \in {"command", state}
          /\ state \in {"idle", "empty", "write", "verify", "discard"}
      BY <1>5 DEF PopCommand, TypeOK
    <2> QED
      BY <2>1, BatchStays DEF BatchInv, Prepared
  <1>6. CASE PeekIdle \/ PeekAgain
    <2>1. PICK none \in {"wait", "loop"} : Peek(none)
      BY <1>6 DEF PeekIdle, PeekAgain
    <2>2. /\ pending' \in Seq(Keystroke) /\ consumed' = Len(pending')
          /\ Len(pending') <= Len(queue)
          /\ \A i \in 1 .. Len(pending') : pending'[i] = queue[i]
          /\ pc' = (IF pending' = <<>> THEN none ELSE "choose")
          /\ UNCHANGED <<queue, state>>
      BY <2>1, Peeked DEF queues
    <2>3. state = "idle" /\ Len(pending') \in Nat
      BY <1>6, <2>2, LenProperties DEF PlaceInv, PeekIdle, PeekAgain
    <2>4. ~Stale'
      BY <1>0, <2>2, <2>3 DEF Stale
    <2> QED
      BY <2>1, <2>2, <2>3, <2>4 DEF BatchInv, Prepared
  <1>7. CASE Choose \/ Request
    <2>1. /\ pc \in {"choose", "try", "force"} /\ state = "idle" /\ UNCHANGED queue
      BY <1>7 DEF Choose, Request, PlaceInv, queues
    <2>2. \/ ToLegacy
          \/ /\ pc' \in {"force", "try", "discard"} /\ UNCHANGED <<state, pending, consumed>>
             /\ (pc' # "discard" => Expressible)
      BY <1>7 DEF Choose, Request
    <2>3. CASE ToLegacy
      <3>1. /\ pending' \in Seq(Keystroke) /\ Len(pending') <= BufferSize
            /\ consumed' = Len(pending') /\ Len(pending') <= Len(pending)
            /\ \A i \in 1 .. Len(pending') : pending'[i] = pending[i]
            /\ \/ pc' = "discard" /\ state' = state
               \/ pc' = "loop" /\ state' = "empty" /\ Typed' # {}
        BY <2>3, CutForKernal
      <3>2. Len(pending') \in Nat
        BY <3>1, LenProperties
      <3>3. /\ Stale' => queue' = <<>>
            /\ ~Stale' => \A i \in 1 .. Len(pending') : pending'[i] = queue'[i]
        <4>1. CASE Stale
          <5>1. queue = <<>> /\ Len(queue) = 0
            BY <1>0, <4>1 DEF BatchInv
          <5> QED
            BY <2>1, <3>1, <3>2, <5>1 DEF Stale
        <4>2. CASE ~Stale
          BY <1>0, <2>1, <3>1, <3>2, <4>2 DEF Stale, BatchInv
        <4> QED
          BY <4>1, <4>2
      <3> QED
        BY <2>1, <3>1, <3>3 DEF BatchInv, Prepared
    <2>4. CASE /\ pc' \in {"force", "try", "discard"} /\ UNCHANGED <<state, pending, consumed>>
               /\ (pc' # "discard" => Expressible)
      BY <2>1, <2>4, BatchStays DEF Prepared
    <2> QED
      BY <2>2, <2>3, <2>4
  <1>8. CASE Discard
    <2>1. pending' = <<>> /\ consumed' = 0 /\ state' = "idle" /\ pc' = "loop"
      BY <1>8 DEF Discard
    <2>2. queue' \in Seq(Keystroke)
      BY <1>8, Discarded
    <2>3. Len(queue') \in Nat /\ Len(pending') = 0
      BY <2>1, <2>2, LenProperties, EmptySeq
    <2>4. ~Stale'
      BY <2>1, <2>3 DEF Stale
    <2> QED
      BY <2>1, <2>3, <2>4 DEF BatchInv, Prepared
  <1>9. CASE WaitEmpty \/ WriteCells \/ WriteLength \/ Verify
    <2>1. /\ Legacy /\ pc \in {"empty", "write", "length", "verify"}
          /\ pc' \in {"loop", "length"}
          /\ state' \in {"write", "verify", "discard", state}
      BY <1>9, LegacySteps DEF Again
    <2>2. state \in Prepared
      BY <2>1 DEF PlaceInv, Prepared
    <2>3. state' \in Prepared \cup {"discard"}
      BY <2>1, <2>2 DEF Prepared
    <2> QED
      BY <2>1, <2>2, <2>3, BatchStays DEF BatchInv, Prepared, Legacy, queues
  <1>10. CASE UNCHANGED vars
    BY <1>10 DEF vars, queues, worker, BatchInv, Stale, Typed, Expressible, Prepared
  <1> QED
    BY <1>1, <1>2, <1>3, <1>4, <1>5, <1>6, <1>7, <1>8, <1>9, <1>10, StepKinds DEF Worker

-----------------------------------------------------------------------------
(* Numbers only grow.                                                      *)

LEMMA TwiceGrows ==
    \A m, n, id \in Nat : m <= n /\ id <= 2 * m => id <= 2 * n /\ id \in 0 .. 2 * n
  OBVIOUS

LEMMA OrderStays ==
    ASSUME OrderInv, events \in Nat, events' \in Nat, events <= events',
           \A i \in 1 .. Len(queue) : queue[i].id \in Nat,
           \A i \in 1 .. Len(pending) : pending[i].id \in Nat,
           UNCHANGED <<queue, pending, consumed, last>>,
           pc' # "discard" /\ state' \notin {"verify", "discard"}
              => pc # "discard" /\ state \notin {"verify", "discard"}
    PROVE  OrderInv'
  <1>1. \A id \in Nat : id <= 2 * events => id <= 2 * events' /\ id \in 0 .. 2 * events'
    BY TwiceGrows
  <1>2. last \in Nat /\ last <= 2 * events
    BY DEF OrderInv
  <1>3. last' \in 0 .. 2 * events'
    BY <1>1, <1>2
  <1>4. /\ \A i \in 1 .. Len(queue) : queue[i].id <= 2 * events'
        /\ \A i \in 1 .. Len(pending) : pending[i].id <= 2 * events'
    BY <1>1 DEF OrderInv
  <1> QED
    BY <1>3, <1>4 DEF OrderInv

LEMMA OrderKept ==
    ASSUME IInv, Steady, [Next]_vars
    PROVE  OrderInv'
  <1> USE DEF IInv
  <1>0. /\ consumed = Len(pending) /\ Len(queue) \in Nat /\ Len(pending) \in Nat
        /\ pending \in Seq(Keystroke) /\ queue \in Seq(Keystroke) /\ events \in Nat
        /\ last \in Nat
    BY LenProperties, KeyboardAssumption DEF BatchInv, TypeOK, VerdictInv, OrderInv
  <1>n. /\ \A i \in 1 .. Len(queue) : queue[i].id \in Nat
        /\ \A i \in 1 .. Len(pending) : pending[i].id \in Nat
    <2>1. \A k \in Keystroke : k.id \in Nat
      BY KeyboardAssumption DEF Keystroke
    <2> QED
      BY <1>0, <2>1, ElementOfSeq
  <1>1. CASE Pushes
    <2>1. Longer /\ ~Stale /\ events' = events + 1 /\ UNCHANGED <<worker, last>>
      BY <1>1, PushesQueue
    <2>2. Len(queue') \in Nat /\ Len(queue) <= Len(queue')
      BY <2>1, LenProperties DEF Longer
    <2>3. ASSUME NEW i \in 1 .. Len(queue')
          PROVE  \/ i \in 1 .. Len(queue) /\ queue'[i] = queue[i] /\ queue'[i].id <= 2 * events
                 \/ /\ i > Len(queue)
                    /\ queue'[i].id = 2 * events + i - Len(queue) /\ i - Len(queue) <= 2
      <3>1. CASE i <= Len(queue)
        <4>1. i \in 1 .. Len(queue)
          BY <1>0, <3>1
        <4> QED
          BY <2>1, <4>1 DEF Longer, OrderInv
      <3>2. CASE i > Len(queue)
        <4>1. i \in Len(queue) + 1 .. Len(queue')
          BY <1>0, <2>2, <3>2
        <4> QED
          BY <2>1, <3>2, <4>1 DEF Longer
      <3> QED
        BY <1>0, <2>2, <3>1, <3>2
    <2>4. \A i, j \in 1 .. Len(queue') : i < j => queue'[i].id < queue'[j].id
      <3> TAKE i, j \in 1 .. Len(queue')
      <3> HAVE i < j
      <3>1. CASE j \in 1 .. Len(queue)
        <4>1. i \in 1 .. Len(queue)
          BY <1>0, <2>2, <3>1
        <4>2. queue'[i] = queue[i] /\ queue'[j] = queue[j]
          BY <2>1, <3>1, <4>1 DEF Longer
        <4>3. queue[i].id < queue[j].id
          BY <3>1, <4>1 DEF OrderInv
        <4> QED
          BY <4>2, <4>3
      <3>2. CASE i \in 1 .. Len(queue) /\ j > Len(queue)
        <4>1. queue[i].id \in Nat /\ queue'[i].id = queue[i].id /\ queue[i].id <= 2 * events
          BY <1>0, <1>n, <2>3, <3>2
        <4> QED
          BY <1>0, <2>3, <3>2, <4>1
      <3>3. CASE i > Len(queue)
        <4>1. j > Len(queue)
          BY <1>0, <2>2, <3>3
        <4>2. /\ queue'[i].id = 2 * events + i - Len(queue)
              /\ queue'[j].id = 2 * events + j - Len(queue)
          BY <2>3, <3>3, <4>1
        <4>3. PICK l \in Nat, x \in Nat : l = Len(queue) /\ x = 2 * events
          BY <1>0
        <4>4. i \in Nat /\ j \in Nat /\ queue'[i].id = x + i - l /\ queue'[j].id = x + j - l
          BY <2>2, <4>2, <4>3
        <4> QED
          BY <4>3, <4>4
      <3> QED
        BY <1>0, <2>2, <3>1, <3>2, <3>3
    <2>5. \A i \in 1 .. Len(queue') : queue'[i].id <= 2 * events'
      <3> TAKE i \in 1 .. Len(queue')
      <3>1. CASE i \in 1 .. Len(queue)
        BY <1>0, <1>n, <2>1, <2>3, <3>1
      <3>2. CASE i > Len(queue)
        <4>1. /\ queue'[i].id = 2 * events + (i - Len(queue)) /\ i - Len(queue) \in Int
              /\ i - Len(queue) <= 2
          BY <1>0, <2>3, <3>2
        <4>2. 2 * events' = 2 * events + 2
          BY <1>0, <2>1
        <4> QED
          BY <1>0, <4>1, <4>2
      <3> QED
        BY <1>0, <3>1, <3>2
    <2>6. \A i \in 1 .. Len(queue') : i > consumed' => queue'[i].id > last'
      <3> TAKE i \in 1 .. Len(queue')
      <3> HAVE i > consumed'
      <3>1. CASE i \in 1 .. Len(queue)
        <4>1. consumed' = consumed /\ last' = last
          BY <2>1 DEF worker
        <4>2. queue'[i] = queue[i]
          BY <1>0, <2>3, <3>1
        <4>3. queue[i].id > last
          BY <3>1, <4>1 DEF OrderInv
        <4> QED
          BY <4>1, <4>2, <4>3
      <3>2. CASE i > Len(queue)
        <4>1. last \in 0 .. 2 * events
          BY DEF OrderInv
        <4> QED
          BY <1>0, <2>1, <2>3, <3>2, <4>1
      <3> QED
        BY <1>0, <3>1, <3>2
    <2>7. last' \in 0 .. 2 * events' /\ \A i \in 1 .. Len(pending') : pending'[i].id <= 2 * events'
      <3>1. \A i \in 1 .. Len(pending) : pending[i].id <= 2 * events /\ pending[i].id \in Nat
        BY <1>n DEF OrderInv
      <3>2. last \in 0 .. 2 * events
        BY DEF OrderInv
      <3> QED
        BY <1>0, <2>1, <3>1, <3>2 DEF worker
    <2> QED
      BY <2>1, <2>4, <2>5, <2>6, <2>7 DEF OrderInv, worker
  <1>2. CASE Others
    <2>1. UNCHANGED <<queue, worker, last>> /\ events' \in {events, events + 1}
      BY <1>2, OthersLeaveBatch
    <2> QED
      BY <1>0, <1>n, <2>1, OrderStays DEF worker
  <1>3. CASE Flush
    <2>1. queue' = <<>> /\ UNCHANGED <<worker, last, events>>
      BY <1>3 DEF Flush, bounds
    <2>2. Len(queue') = 0
      BY <2>1
    <2> QED
      BY <2>1, <2>2 DEF OrderInv, worker
  <1>4. CASE Iterate \/ PopCommand \/ RunCommand \/ WaitForWork
    <2>1. /\ UNCHANGED <<queue, pending, consumed, state, last, events>> /\ pc # "discard"
      BY <1>4 DEF Iterate, PopCommand, RunCommand, WaitForWork, queues, bounds
    <2> QED
      BY <1>0, <1>n, <2>1, OrderStays
  <1>5. CASE PeekIdle \/ PeekAgain
    <2>1. PICK none \in {"wait", "loop"} : Peek(none)
      BY <1>5 DEF PeekIdle, PeekAgain
    <2>2. /\ pending' \in Seq(Keystroke) /\ consumed' = Len(pending')
          /\ Len(pending') <= Len(queue)
          /\ \A i \in 1 .. Len(pending') : pending'[i] = queue[i]
          /\ UNCHANGED <<queue, last, events>>
      BY <2>1, Peeked DEF queues, bounds
    <2>3. pending = <<>> /\ Len(pending') \in Nat
      BY <1>5, <2>2, LenProperties DEF PlaceInv, BatchInv, PeekIdle, PeekAgain
    <2>4. \A i \in 1 .. Len(queue) : queue[i].id > last
      <3>1. consumed = 0
        BY <1>0, <2>3, EmptySeq
      <3> QED
        BY <1>0, <3>1 DEF OrderInv
    <2>5. \A i \in 1 .. Len(pending') : i \in 1 .. Len(queue)
      BY <1>0, <2>2, <2>3
    <2> QED
      BY <2>2, <2>4, <2>5 DEF OrderInv
  <1>6. CASE (Choose /\ ToLegacy) \/ (Request /\ ToLegacy /\ UNCHANGED last)
    <2>1. /\ pending' \in Seq(Keystroke) /\ consumed' = Len(pending')
          /\ Len(pending') <= Len(pending)
          /\ \A i \in 1 .. Len(pending') : pending'[i] = pending[i]
      BY <1>6, CutForKernal
    <2>2. UNCHANGED <<queue, last, events>> /\ pc # "discard" /\ state = "idle"
      <3>1. CASE Choose
        BY <3>1 DEF Choose, queues, bounds, PlaceInv
      <3>2. CASE Request /\ UNCHANGED last
        BY <3>2 DEF Request, queues, PlaceInv
      <3> QED
        BY <1>6, <3>1, <3>2
    <2>3. Len(pending') \in Nat
      BY <2>1, LenProperties
    <2>4. \A i \in 1 .. Len(pending') : i \in 1 .. Len(pending)
      BY <1>0, <2>1, <2>3
    <2>5. ASSUME NEW i \in 1 .. Len(queue), i > consumed'
          PROVE  queue[i].id > last
      <3>1. CASE i > consumed
        BY <3>1 DEF OrderInv
      <3>2. CASE i <= consumed
        <4>1. i \in 1 .. Len(pending)
          BY <1>0, <3>2
        <4>2. ~Stale
          <5>1. queue # <<>>
            BY <1>0
          <5> QED
            BY <5>1 DEF BatchInv
        <4>3. pending[i] = queue[i]
          BY <4>1, <4>2 DEF BatchInv
        <4> QED
          BY <2>2, <4>1, <4>3 DEF OrderInv
      <3> QED
        BY <1>0, <3>1, <3>2
    <2> QED
      BY <2>1, <2>2, <2>4, <2>5 DEF OrderInv
  <1>g. ASSUME NEW i \in 1 .. Len(pending), last' = pending[i].id
        PROVE  /\ last' \in 0 .. 2 * events
               /\ \A j \in 1 .. Len(queue) : j > consumed => queue[j].id > last'
    <2>1. last' \in Nat /\ last' <= 2 * events
      BY <1>n, <1>g DEF OrderInv
    <2>2. ASSUME NEW j \in 1 .. Len(queue), j > consumed
          PROVE  queue[j].id > last'
      <3>1. queue # <<>>
        BY <1>0
      <3>2. ~Stale
        BY <3>1 DEF BatchInv
      <3>3. pending[i] = queue[i]
        BY <3>2 DEF BatchInv
      <3>4. i \in 1 .. Len(queue) /\ i < j
        BY <1>0, <2>2
      <3>5. queue[i].id < queue[j].id
        BY <3>4 DEF OrderInv
      <3> QED
        BY <1>n, <1>g, <3>3, <3>4, <3>5
    <2> QED
      BY <1>0, <2>1, <2>2
  <1>7. CASE Request /\ ~(ToLegacy /\ UNCHANGED last)
    <2>1. /\ UNCHANGED <<queue, pending, consumed, state, events>> /\ pc' = "discard"
          /\ pc \in {"try", "force"} /\ (Take \/ UNCHANGED last)
      BY <1>7 DEF Request, queues
    <2>2. CASE Take
      <3>1. PICK i \in 1 .. Len(pending) : last' = pending[i].id
        BY <2>2, TakenKeys
      <3>2. /\ last' \in 0 .. 2 * events
            /\ \A j \in 1 .. Len(queue) : j > consumed => queue[j].id > last'
        BY <1>g, <3>1
      <3> QED
        BY <2>1, <3>2 DEF OrderInv
    <2>3. CASE UNCHANGED last
      BY <1>0, <1>n, <2>1, <2>3, OrderStays
    <2> QED
      BY <2>1, <2>2, <2>3
  <1>8. CASE Choose /\ ~ToLegacy
    <2>1. /\ UNCHANGED <<queue, pending, consumed, state, last, events>>
          /\ pc = "choose"
      BY <1>8 DEF Choose, queues, bounds
    <2> QED
      BY <1>0, <1>n, <2>1, OrderStays
  <1>9. CASE Discard
    <2>1. /\ queue' \in Seq(Keystroke)
          /\ \A i \in 1 .. Len(queue') : /\ consumed + i \in 1 .. Len(queue)
                                         /\ queue'[i] = queue[consumed + i]
      BY <1>9, Discarded
    <2>2. pending' = <<>> /\ consumed' = 0 /\ UNCHANGED <<last, events>>
      BY <1>9 DEF Discard, bounds
    <2>3. Len(queue') \in Nat /\ Len(pending') = 0 /\ consumed \in Nat
      BY <1>0, <2>1, <2>2, LenProperties, EmptySeq
    <2>4. \A i, j \in 1 .. Len(queue') : i < j => queue'[i].id < queue'[j].id
      <3> TAKE i, j \in 1 .. Len(queue')
      <3> HAVE i < j
      <3>1. consumed + i < consumed + j
        BY <2>3
      <3>2. queue[consumed + i].id < queue[consumed + j].id
        BY <2>1, <3>1 DEF OrderInv
      <3> QED
        BY <2>1, <3>2
    <2>5. \A i \in 1 .. Len(queue') : queue'[i].id <= 2 * events /\ queue'[i].id > last
      <3> TAKE i \in 1 .. Len(queue')
      <3>1. consumed + i > consumed
        BY <2>3
      <3>2. queue[consumed + i].id <= 2 * events /\ queue[consumed + i].id > last
        BY <2>1, <3>1 DEF OrderInv
      <3> QED
        BY <2>1, <3>2
    <2> QED
      BY <2>2, <2>3, <2>4, <2>5 DEF OrderInv
  <1>10. CASE WaitEmpty \/ WriteCells \/ WriteLength \/ Verify
    <2>1. /\ UNCHANGED <<queue, pending, consumed, events>>
          /\ pc \in {"empty", "write", "length", "verify"}
      BY <1>10, LegacySteps DEF Legacy, queues
    <2>2. state \in Prepared /\ (pc # "verify" => state # "verify")
      BY <2>1 DEF PlaceInv, Prepared
    <2>3. CASE UNCHANGED last
      <3>1. state' \notin {"verify", "discard"} => state \notin {"verify", "discard"}
        BY <1>10, <2>2, LegacySteps DEF Again, Prepared
      <3> QED
        BY <1>0, <1>n, <2>1, <2>3, <3>1, OrderStays
    <2>4. CASE ~UNCHANGED last
      <3>1. Give(Typed) /\ state' = "verify"
        BY <1>10, <2>4 DEF WaitEmpty, WriteCells, WriteLength, Verify, Lengthen, Step, Steady
      <3>2. Typed \in SUBSET (1 .. Len(pending))
        BY DEF Typed
      <3>3. PICK i \in 1 .. Len(pending) : last' = pending[i].id
        BY <3>1, <3>2, Given
      <3>4. /\ last' \in 0 .. 2 * events
            /\ \A j \in 1 .. Len(queue) : j > consumed => queue[j].id > last'
        BY <1>g, <3>3
      <3> QED
        BY <2>1, <3>1, <3>4 DEF OrderInv
    <2> QED
      BY <2>3, <2>4
  <1>11. CASE UNCHANGED vars
    BY <1>11 DEF vars, queues, worker, bounds, OrderInv
  <1> QED
    BY <1>1, <1>2, <1>3, <1>4, <1>5, <1>6, <1>7, <1>8, <1>9, <1>10, <1>11, StepKinds DEF Worker

-----------------------------------------------------------------------------
(* The KERNAL's buffer, and the verdict on the device.                       *)

(* What steps other than those of a batch for the KERNAL leave alone.       *)
LEMMA SendingElsewhere ==
    ASSUME TypeOK,
           \/ Iterate \/ PopCommand \/ RunCommand \/ PeekIdle \/ WaitForWork \/ PeekAgain
           \/ Choose \/ Request \/ Discard
    PROVE  /\ UNCHANGED <<kernal, cells>> /\ pc' # "length"
           /\ state' \in {state, "idle", "empty"}
  <1>1. CASE Iterate
    BY <1>1 DEF Iterate, machine
  <1>2. CASE PopCommand
    BY <1>2 DEF PopCommand, machine, TypeOK
  <1>3. CASE RunCommand
    BY <1>3 DEF RunCommand
  <1>4. CASE PeekIdle \/ WaitForWork \/ PeekAgain
    BY <1>4 DEF PeekIdle, WaitForWork, PeekAgain, Peek, machine
  <1>5. CASE Choose
    BY <1>5 DEF Choose, ToLegacy, machine
  <1>6. CASE Request
    BY <1>6 DEF Request, ToLegacy
  <1>7. CASE Discard
    BY <1>7 DEF Discard, machine
  <1> QED
    BY <1>1, <1>2, <1>3, <1>4, <1>5, <1>6, <1>7

LEMMA KernalKept ==
    ASSUME IInv, Steady, [Next]_vars
    PROVE  KernalInv'
  <1> USE DEF IInv
  <1>0. /\ kernal \in Nat /\ cells \in Nat /\ Cardinality(Typed) \in Nat /\ kernal <= cells
        /\ (state = "write" => kernal = 0) /\ (pc = "length" => cells = Cardinality(Typed))
    <2>1. Len(pending) \in Nat /\ BufferSize \in Nat
      BY LenProperties, KeyboardAssumption DEF TypeOK
    <2> QED
      BY <2>1, TypedFits DEF TypeOK, KernalInv, BufferWritten
  <1>1. CASE Pushes \/ Flush \/ UNCHANGED vars
    <2>1. UNCHANGED <<worker, machine>>
      BY <1>1, PushesQueue DEF Flush, vars
    <2> QED
      BY <2>1 DEF KernalInv, BufferWritten, worker, machine, Typed
  <1>2. CASE Others
    <2>1. UNCHANGED worker
      BY <1>2, OthersLeaveBatch
    <2>2. CASE \E d \in Devices : Retarget(d)
      <3>1. pc # "length" /\ kernal' = 0 /\ cells' = 0
        BY <2>2 DEF Retarget, Steady
      <3> QED
        BY <2>1, <3>1 DEF KernalInv, BufferWritten, worker
    <2>3. CASE Consume
      <3>1. kernal > 0 /\ kernal' = kernal - 1 /\ cells' = cells - 1
        BY <2>3 DEF Consume
      <3>2. state # "write" /\ pc # "length"
        BY <1>0, <3>1 DEF PlaceInv
      <3>3. kernal' <= cells'
        BY <1>0, <3>1
      <3> QED
        BY <2>1, <3>2, <3>3 DEF KernalInv, BufferWritten, worker
    <2>4. CASE ~Consume /\ ~\E d \in Devices : Retarget(d)
      <3>1. UNCHANGED machine
        BY <1>2, <2>4 DEF Others, ModifierDown, ModifierUp, ToggleJoystick, LoseFocus, GainFocus,
           Acts, SetTransport, Destroy, ResetNegotiation, Broadcast, Join
      <3> QED
        BY <2>1, <3>1 DEF KernalInv, BufferWritten, worker, machine, Typed
    <2> QED
      BY <2>2, <2>3, <2>4
  <1>3. CASE \/ Iterate \/ PopCommand \/ RunCommand \/ PeekIdle \/ WaitForWork \/ PeekAgain
             \/ Choose \/ Request \/ Discard
    <2>1. /\ UNCHANGED <<kernal, cells>> /\ pc' # "length"
          /\ state' \in {state, "idle", "empty"}
      BY <1>3, SendingElsewhere
    <2> QED
      BY <1>0, <2>1 DEF KernalInv, BufferWritten
  <1>4. CASE WaitEmpty
    <2>1. UNCHANGED <<kernal, cells>> /\ pc' = "loop" /\ state = "empty"
          /\ (state' = "write" => kernal = 0)
      BY <1>4 DEF WaitEmpty, Step, Again, PlaceInv, Prepared
    <2> QED
      BY <1>0, <2>1 DEF KernalInv, BufferWritten
  <1>5. CASE WriteCells
    <2>1. UNCHANGED <<kernal, pending>> /\ kernal = 0
      BY <1>0, <1>5 DEF WriteCells, Legacy, PlaceInv, Prepared
    <2>2. \/ cells' = Cardinality(Typed)
          \/ UNCHANGED cells /\ pc' = "loop"
      BY <1>5 DEF WriteCells, Again
    <2>3. Typed' = Typed
      BY <2>1 DEF Typed
    <2> QED
      BY <1>0, <2>1, <2>2, <2>3 DEF KernalInv, BufferWritten
  <1>6. CASE WriteLength
    <2>1. UNCHANGED cells /\ pc' = "loop" /\ state = "write" /\ cells = Cardinality(Typed)
      BY <1>0, <1>6 DEF WriteLength, Step, Again, PlaceInv
    <2>2. \/ kernal' = Cardinality(Typed) /\ state' = "verify"
          \/ UNCHANGED kernal
      BY <1>6 DEF WriteLength, Lengthen, Step, Steady
    <2> QED
      BY <1>0, <2>1, <2>2 DEF KernalInv, BufferWritten
  <1>7. CASE Verify
    <2>1. UNCHANGED <<kernal, cells>> /\ pc' = "loop" /\ state' \in {"verify", "discard"}
      BY <1>7 DEF Verify, Step, Again, PlaceInv, Prepared
    <2> QED
      BY <1>0, <2>1 DEF KernalInv, BufferWritten
  <1> QED
    BY <1>1, <1>2, <1>3, <1>4, <1>5, <1>6, <1>7, StepKinds DEF Worker

LEMMA WorkerLeavesNegotiation ==
    ASSUME Worker
    PROVE  /\ UNCHANGED <<generation, negotiating, events, device>>
           /\ ~Choose /\ ~Request => UNCHANGED <<seen, demoted>>
  <1>1. CASE \/ Iterate \/ PopCommand \/ RunCommand \/ PeekIdle \/ WaitForWork \/ PeekAgain
             \/ Discard
    BY <1>1 DEF Iterate, PopCommand, RunCommand, PeekIdle, WaitForWork, PeekAgain, Peek, Discard,
       ui, settings, machine, bounds
  <1>2. CASE Choose \/ Request
    BY <1>2 DEF Choose, Request, ui, settings, machine, bounds
  <1>3. CASE WaitEmpty \/ WriteCells \/ WriteLength \/ Verify
    <2>1. Legacy
      BY <1>3, LegacySteps
    <2> QED
      BY <2>1 DEF Legacy, ui, settings
  <1> QED
    BY <1>1, <1>2, <1>3 DEF Worker

LEMMA VerdictKept ==
    ASSUME IInv, Steady, [Next]_vars
    PROVE  VerdictInv'
  <1> USE DEF IInv
  <1>0. /\ events \in 0 .. MaxEvents /\ MaxEvents \in Nat /\ generation \in Nat /\ seen \in Nat
        /\ seen <= generation /\ generation <= events /\ (negotiating => generation < events)
    BY KeyboardAssumption DEF TypeOK, VerdictInv
  <1>1. CASE Pushes
    <2>1. events < MaxEvents /\ events' = events + 1
          /\ UNCHANGED <<settings, worker, machine, negotiating>>
      BY <1>1, PushesQueue
    <2> QED
      BY <1>0, <2>1 DEF VerdictInv, DemotionIsOfThisDevice, settings, worker, machine
  <1>2. CASE Others
    <2>1. UNCHANGED worker /\ events' \in {events, events + 1} /\ events' \in 0 .. MaxEvents
      BY <1>2, OthersLeaveBatch
    <2>2. CASE \E d \in Devices : Retarget(d)
      <3>1. negotiating' = TRUE /\ UNCHANGED generation /\ events' = events + 1
        BY <2>2 DEF Retarget, settings
      <3> QED
        BY <1>0, <2>1, <3>1 DEF VerdictInv, DemotionIsOfThisDevice
    <2>3. CASE ResetNegotiation
      <3>1. negotiating /\ generation' = generation + 1 /\ negotiating' = FALSE
            /\ UNCHANGED events
        BY <2>3 DEF ResetNegotiation, bounds
      <3>2. seen' # generation' /\ generation' <= events'
        BY <1>0, <2>1, <3>1 DEF worker
      <3> QED
        BY <2>1, <3>1, <3>2 DEF VerdictInv, DemotionIsOfThisDevice
    <2>4. CASE ~ResetNegotiation /\ ~\E d \in Devices : Retarget(d)
      <3>1. UNCHANGED <<generation, negotiating, device>>
        BY <1>2, <2>4 DEF Others, ModifierDown, ModifierUp, ToggleJoystick, LoseFocus, GainFocus,
           Acts, SetTransport, Destroy, Consume, Broadcast, Join, ui, settings, machine
      <3> QED
        BY <1>0, <2>1, <3>1 DEF VerdictInv, DemotionIsOfThisDevice, worker
    <2> QED
      BY <2>2, <2>3, <2>4
  <1>3. CASE Flush \/ UNCHANGED vars
    <2>1. UNCHANGED <<settings, worker, machine, negotiating, events>>
      BY <1>3 DEF Flush, vars, ui, bounds
    <2> QED
      BY <2>1 DEF VerdictInv, DemotionIsOfThisDevice, settings, worker, machine
  <1>4. CASE Worker
    <2>1. UNCHANGED <<generation, negotiating, events, device>>
      BY <1>4, WorkerLeavesNegotiation
    <2>2. DemotionIsOfThisDevice'
      <3>1. CASE Choose
        <4>1. seen' = generation /\ (demoted' = "forever" => generation = seen /\ demoted = "forever")
          BY <3>1 DEF Choose
        <4> QED
          BY <2>1, <4>1 DEF VerdictInv, DemotionIsOfThisDevice
      <3>2. CASE Request
        <4>1. UNCHANGED seen /\ (demoted' = "forever" => device \notin Capable \/ UNCHANGED demoted)
          BY <3>2 DEF Request
        <4> QED
          BY <2>1, <4>1 DEF VerdictInv, DemotionIsOfThisDevice
      <3>3. CASE ~Choose /\ ~Request
        <4>1. UNCHANGED <<seen, demoted>>
          BY <1>4, <3>3, WorkerLeavesNegotiation
        <4> QED
          BY <2>1, <4>1 DEF VerdictInv, DemotionIsOfThisDevice
      <3> QED
        BY <3>1, <3>2, <3>3
    <2> QED
      BY <2>1, <2>2 DEF VerdictInv
  <1> QED
    BY <1>1, <1>2, <1>3, <1>4, StepKinds

-----------------------------------------------------------------------------
(* The worker's invariant.                                                  *)

LEMMA StartsWell ==
    ASSUME Init
    PROVE  IInv
  <1>1. queue = <<>> /\ pending = <<>> /\ cmds = <<>> /\ Len(queue) = 0 /\ Len(pending) = 0
    BY EmptySeq DEF Init
  <1>2. TypeOK
    <2>1. /\ MaxEvents \in Nat /\ RestBatch \in Nat /\ BufferSize \in Nat /\ QueueSize \in Nat
          /\ CmdQueueSize \in Nat /\ MaxRetries \in Nat
      BY KeyboardAssumption
    <2>2. queue \in Seq(Keystroke) /\ pending \in Seq(Keystroke) /\ cmds \in Seq(Command)
          /\ Len(cmds) = 0
      BY <1>1, EmptySeq
    <2>3. /\ focus \in BOOLEAN /\ joystick \in BOOLEAN /\ negotiating \in BOOLEAN
          /\ worker_running \in BOOLEAN /\ asleep \in BOOLEAN /\ excused \in BOOLEAN
      BY DEF Init
    <2>4. generation \in 0 .. MaxEvents /\ seen \in 0 .. generation /\ consumed \in 0 .. RestBatch
          /\ retries \in 0 .. MaxRetries /\ kernal \in 0 .. BufferSize /\ cells \in 0 .. BufferSize
      BY <2>1 DEF Init
    <2> QED
      BY <1>1, <2>1, <2>2, <2>3, <2>4, CommandsAre DEF Init, TypeOK
  <1>3. PlaceInv
    BY KeyboardAssumption DEF Init, PlaceInv, Prepared
  <1>4. BatchInv
    BY <1>1 DEF Init, BatchInv, Stale, Prepared
  <1>5. OrderInv
    BY <1>1 DEF Init, OrderInv
  <1>6. KernalInv
    BY DEF Init, KernalInv, BufferWritten
  <1>7. VerdictInv
    BY KeyboardAssumption DEF Init, VerdictInv, DemotionIsOfThisDevice
  <1> QED
    BY <1>2, <1>3, <1>4, <1>5, <1>6, <1>7 DEF IInv

LEMMA WhatItDiscards ==
    ASSUME IInv
    PROVE  DiscardsItsBatch
  <1> SUFFICES ASSUME ~Stale
               PROVE  pending = SubSeq(queue, 1, consumed)
    BY DEF DiscardsItsBatch
  <1>1. /\ pending \in Seq(Keystroke) /\ queue \in Seq(Keystroke) /\ consumed = Len(pending)
        /\ \A i \in 1 .. Len(pending) : pending[i] = queue[i]
    BY DEF IInv, TypeOK, BatchInv
  <1>2. Len(pending) \in Nat /\ Len(queue) \in Nat /\ consumed \in Nat /\ consumed <= Len(queue)
    BY <1>1, LenProperties DEF Stale
  <1>3. PICK n \in Nat : n = consumed
    BY <1>2
  <1>4. PICK r : r = SubSeq(queue, 1, IF Len(queue) < n THEN Len(queue) ELSE n)
    OBVIOUS
  <1>5. /\ r \in Seq(Keystroke) /\ Len(r) = IF Len(queue) < n THEN Len(queue) ELSE n
        /\ \A i \in 1 .. Len(r) : r[i] = queue[i]
    BY <1>1, <1>3, <1>4, FirstOnes
  <1>6. ~(Len(queue) < n)
    BY <1>2, <1>3
  <1>7. r = SubSeq(queue, 1, consumed) /\ Len(r) = Len(pending)
    BY <1>1, <1>3, <1>4, <1>5, <1>6
  <1>8. pending = r
    BY <1>1, <1>5, <1>7, SeqEqual
  <1> QED
    BY <1>7, <1>8

LEMMA WhatItSends ==
    ASSUME IInv
    PROVE  SentOnceInOrder
  <1> SUFFICES ASSUME pc \in {"try", "force", "length"}
               PROVE  \A i \in 1 .. Len(pending) : pending[i].id > last
    BY DEF SentOnceInOrder
  <1>1. pc # "discard" /\ state \in {"idle", "write"}
    BY DEF IInv, PlaceInv
  <1> QED
    BY <1>1 DEF IInv, OrderInv

LEMMA InductiveInvariant == Steady => (Spec => []IInv)
  <1> SUFFICES ASSUME Steady
               PROVE  Spec => []IInv
    OBVIOUS
  <1>1. Init => IInv
    BY StartsWell
  <1>2. IInv /\ [Next]_vars => IInv'
    <2> SUFFICES ASSUME IInv, [Next]_vars
                 PROVE  IInv'
      OBVIOUS
    <2>1. TypeOK'
      BY TypesKept
    <2>2. PlaceInv'
      BY PlaceKept
    <2>3. BatchInv'
      BY BatchKept
    <2>4. OrderInv'
      BY OrderKept
    <2>5. KernalInv'
      BY KernalKept
    <2>6. VerdictInv'
      BY VerdictKept
    <2> QED
      BY <2>1, <2>2, <2>3, <2>4, <2>5, <2>6 DEF IInv
  <1> QED
    BY <1>1, <1>2, PTL DEF Spec

(* What the injection worker (c64-keyboard.c, injection_worker) writes is   *)
(* what was queued, once and in order; it takes from the queue exactly the  *)
(* batch it sent; the KERNAL is never told of more characters than were put *)
(* into its buffer; and a device is written off for good only if it has no  *)
(* machine:input.                                                          *)
THEOREM WorkerInvariant == Steady => (Spec => []WorkerInv)
  <1>1. IInv => WorkerInv
    BY WhatItDiscards, WhatItSends DEF IInv, WorkerInv, KernalInv, VerdictInv
  <1> QED
    BY <1>1, InductiveInvariant, PTL

-----------------------------------------------------------------------------
(* Nothing stuck, while all windows are closed.                             *)
AllClosed == Windows = {}

(* What queue_push_many put behind the queue.                               *)
LEMMA PushedKeys ==
    ASSUME queue \in Seq(Keystroke), NEW keys \in Seq(Keys \cup Codes), NEW tr, PushMany(keys, tr)
    PROVE  \/ excused' = TRUE /\ queue' = queue
           \/ /\ excused' = excused /\ Len(queue') = Len(queue) + Len(keys)
              /\ \A i \in 1 .. Len(queue) : queue'[i] = queue[i]
              /\ \A i \in 1 .. Len(keys) : /\ queue'[Len(queue) + i].key = keys[i]
                                           /\ queue'[Len(queue) + i].tr = tr
  <1>1. Len(queue) \in Nat /\ Len(keys) \in Nat
    BY LenProperties
  <1>2. CASE Len(keys) > QueueSize - Len(queue)
    BY <1>2 DEF PushMany
  <1>3. CASE ~(Len(keys) > QueueSize - Len(queue))
    <2> DEFINE more == [i \in 1 .. Len(keys) |-> [id |-> 2 * events + i, key |-> keys[i], tr |-> tr]]
    <2>1. queue' = queue \o more /\ excused' = excused
      BY <1>3 DEF PushMany
    <2>2. \A i \in 1 .. Len(keys) : more[i].key = keys[i] /\ more[i].tr = tr
      OBVIOUS
    <2>3. more \in Seq(Range(more)) /\ Len(more) = Len(keys)
      <3>1. more \in [1 .. Len(keys) -> Range(more)]
        BY DEF Range
      <3> HIDE DEF more
      <3>2. more \in Seq(Range(more))
        BY <1>1, <3>1, SeqDef
      <3>3. DOMAIN more = 1 .. Len(more) /\ Len(more) \in Nat /\ DOMAIN more = 1 .. Len(keys)
        BY <3>1, <3>2, LenProperties
      <3> QED
        BY <1>1, <3>2, <3>3
    <2> HIDE DEF more
    <2>4. PICK S : S = Keystroke \cup Range(more)
      OBVIOUS
    <2>5. queue \in Seq(S) /\ more \in Seq(S)
      BY <2>3, <2>4, SeqMonotonic
    <2>6. /\ Len(queue \o more) = Len(queue) + Len(more)
          /\ \A i \in 1 .. Len(queue) + Len(more) :
                (queue \o more)[i] = IF i <= Len(queue) THEN queue[i] ELSE more[i - Len(queue)]
      BY <2>5, ConcatProperties
    <2>7. \A i \in 1 .. Len(keys) : queue'[Len(queue) + i] = more[i]
      BY <1>1, <2>1, <2>3, <2>6
    <2>8. \A i \in 1 .. Len(queue) : queue'[i] = queue[i]
      BY <1>1, <2>1, <2>3, <2>6
    <2> QED
      BY <2>1, <2>2, <2>3, <2>6, <2>7, <2>8
  <1> QED
    BY <1>2, <1>3

(* c64_keyboard_queue_machine_command, unless the queue is full.             *)
LEMMA CommandLast ==
    ASSUME cmds \in Seq(Command), excused \in BOOLEAN, NEW c \in Command, QueueCommand(c), ~excused'
    PROVE  /\ ~excused /\ Len(cmds) \in Nat /\ Len(cmds') = Len(cmds) + 1
           /\ \A i \in 1 .. Len(cmds) : cmds'[i] = cmds[i]
           /\ cmds'[Len(cmds) + 1] = c
  <1>1. cmds' = Append(cmds, c) /\ excused' = excused
    BY DEF QueueCommand
  <1>2. PICK q \in Seq(Command) : /\ q = Append(cmds, c) /\ Len(q) = Len(cmds) + 1
                                  /\ \A i \in 1 .. Len(cmds) : q[i] = cmds[i]
                                  /\ q[Len(cmds) + 1] = c
    BY AppendProperties
  <1>3. Len(cmds) \in Nat
    BY LenProperties
  <1> QED
    BY <1>1, <1>2, <1>3

(* The first command is taken.                                              *)
LEMMA CommandTaken ==
    ASSUME cmds \in Seq(Command), PopCommand, cmds # <<>>
    PROVE  /\ pc' = "command" /\ command' = cmds[1]
           /\ Len(cmds) \in Nat /\ Len(cmds) >= 1 /\ Len(cmds') = Len(cmds) - 1
           /\ \A i \in 1 .. Len(cmds) - 1 : cmds'[i] = cmds[i + 1]
  <1>1. pc' = "command" /\ command' = cmds[1] /\ cmds' = Tail(cmds)
    BY DEF PopCommand
  <1>2. Len(Tail(cmds)) = Len(cmds) - 1 /\ \A i \in 1 .. Len(Tail(cmds)) : Tail(cmds)[i] = cmds[i + 1]
    BY HeadTailProperties
  <1>3. Len(cmds) \in Nat /\ Len(cmds) >= 1
    BY LenProperties, EmptySeq
  <1> QED
    BY <1>1, <1>2, <1>3

(* What was put behind the queue.                                           *)
Presses(k) ==
    /\ tracked' = tracked \cup {k} /\ Len(queue') = Len(queue) + 1
    /\ queue'[Len(queue) + 1].key = k /\ queue'[Len(queue) + 1].tr = "press"

Releases(k) ==
    /\ tracked' = tracked \ {k} /\ Len(queue') = Len(queue) + 1
    /\ queue'[Len(queue) + 1].key = k /\ queue'[Len(queue) + 1].tr = "release"
    /\ \A i \in 1 .. Len(queue) : queue[i].key \in Keys

Taps ==
    /\ UNCHANGED tracked /\ Len(queue') \in Nat /\ Len(queue) <= Len(queue')
    /\ \A i \in Len(queue) + 1 .. Len(queue') : /\ queue'[i].tr = "tap"
                                                /\ queue'[i].key \in Keys \/ ~Waiting("release")

LEMMA PushKinds ==
    ASSUME TypeOK, AllClosed, Pushes
    PROVE  \/ excused' = TRUE /\ queue' = queue
           \/ /\ excused' = excused /\ \A i \in 1 .. Len(queue) : queue'[i] = queue[i]
              /\ Taps \/ \E k \in Keys : Presses(k) \/ Releases(k)
  <1>0. queue \in Seq(Keystroke) /\ Len(queue) \in Nat
    BY LenProperties DEF TypeOK
  <1>1. ASSUME NEW k \in Keys, NEW tr, PushMany(<<k>>, tr), ~(excused' = TRUE /\ queue' = queue)
        PROVE  /\ excused' = excused /\ Len(queue') = Len(queue) + 1
               /\ \A i \in 1 .. Len(queue) : queue'[i] = queue[i]
               /\ queue'[Len(queue) + 1].key = k /\ queue'[Len(queue) + 1].tr = tr
    <2>0. <<k>> \in Seq(Keys \cup Codes) /\ Len(<<k>>) = 1 /\ <<k>>[1] = k
      OBVIOUS
    <2>1. PICK keys \in Seq(Keys \cup Codes) : keys = <<k>> /\ Len(keys) = 1 /\ keys[1] = k
      BY <2>0
    <2>2. PushMany(keys, tr)
      BY <1>1, <2>1
    <2>3. /\ excused' = excused /\ Len(queue') = Len(queue) + Len(keys)
          /\ \A i \in 1 .. Len(queue) : queue'[i] = queue[i]
          /\ \A i \in 1 .. Len(keys) : /\ queue'[Len(queue) + i].key = keys[i]
                                       /\ queue'[Len(queue) + i].tr = tr
      BY <1>0, <1>1, <2>2, PushedKeys
    <2>4. 1 \in 1 .. Len(keys)
      BY <2>1
    <2> QED
      BY <2>1, <2>3, <2>4
  <1>2. CASE \E k \in Keys : KeyDown(k)
    <2>1. PICK k \in Keys : KeyDown(k)
      BY <1>2
    <2>2. \/ tracked' = tracked \cup {k} /\ PushMany(<<k>>, "press")
          \/ UNCHANGED tracked /\ PushMany(<<k>>, "tap")
      BY <2>1 DEF KeyDown
    <2>3. CASE tracked' = tracked \cup {k} /\ PushMany(<<k>>, "press")
      BY <1>1, <2>3 DEF Presses
    <2>4. CASE UNCHANGED tracked /\ PushMany(<<k>>, "tap")
      <3> SUFFICES ASSUME ~(excused' = TRUE /\ queue' = queue)
                   PROVE  /\ excused' = excused /\ \A i \in 1 .. Len(queue) : queue'[i] = queue[i]
                          /\ Taps
        OBVIOUS
      <3>1. /\ excused' = excused /\ Len(queue') = Len(queue) + 1
            /\ \A i \in 1 .. Len(queue) : queue'[i] = queue[i]
            /\ queue'[Len(queue) + 1].key = k /\ queue'[Len(queue) + 1].tr = "tap"
        BY <1>1, <2>4
      <3>2. \A i \in Len(queue) + 1 .. Len(queue') : i = Len(queue) + 1
        BY <1>0, <3>1
      <3> QED
        BY <1>0, <2>4, <3>1, <3>2 DEF Taps
    <2> QED
      BY <2>2, <2>3, <2>4
  <1>3. CASE \E k \in Keys : KeyUp(k)
    <2>1. PICK k \in Keys : KeyUp(k)
      BY <1>3
    <2>2. /\ tracked' = tracked \ {k} /\ PushMany(<<k>>, "release")
          /\ \A c \in Codes : ~Holds(c)
      BY <2>1 DEF KeyUp, AllClosed
    <2>3. ASSUME NEW i \in 1 .. Len(queue)
          PROVE  queue[i].key \in Keys
      <3>1. queue[i] \in Keystroke
        BY <1>0, ElementOfSeq
      <3> QED
        BY <2>2, <3>1 DEF Holds, Keystroke
    <2> QED
      BY <1>1, <2>2, <2>3 DEF Releases
  <1>4. CASE \E text \in Texts : Type(text)
    <2>1. PICK text \in Texts : Type(text)
      BY <1>4
    <2>0. text \in Seq(Keys \cup Codes)
      <3>1. CASE \E c \in Codes : text = <<c>>
        BY <3>1
      <3>2. CASE \E k \in Keys : text = <<k, k>>
        BY <3>2
      <3> QED
        BY <3>1, <3>2 DEF Texts
    <2>2. PICK keys \in Seq(Keys \cup Codes) : keys = text
      BY <2>0
    <2>3. /\ PushMany(keys, "tap") /\ UNCHANGED tracked
          /\ (\A i \in 1 .. Len(keys) : keys[i] \in Keys) \/ ~Waiting("release")
      BY <2>1, <2>2 DEF Type, AllClosed, ui
    <2>4. \/ excused' = TRUE /\ queue' = queue
          \/ /\ excused' = excused /\ Len(queue') = Len(queue) + Len(keys)
             /\ \A i \in 1 .. Len(queue) : queue'[i] = queue[i]
             /\ \A i \in 1 .. Len(keys) : /\ queue'[Len(queue) + i].key = keys[i]
                                          /\ queue'[Len(queue) + i].tr = "tap"
      BY <1>0, <2>3, PushedKeys
    <2>5. Len(keys) \in Nat
      BY LenProperties
    <2>6. ASSUME NEW i \in Len(queue) + 1 .. Len(queue'), ~(excused' = TRUE /\ queue' = queue)
          PROVE  /\ queue'[i].tr = "tap"
                 /\ queue'[i].key \in Keys \/ ~Waiting("release")
      <3>1. PICK j \in 1 .. Len(keys) : i = Len(queue) + j
        <4>1. i - Len(queue) \in 1 .. Len(keys) /\ i = Len(queue) + (i - Len(queue))
          BY <1>0, <2>4, <2>5, <2>6
        <4> QED
          BY <4>1
      <3> QED
        BY <2>3, <2>4, <2>6, <3>1
    <2>7. CASE Len(queue') = Len(queue) + Len(keys) /\ ~(excused' = TRUE /\ queue' = queue)
      <3>1. Len(queue') \in Nat /\ Len(queue) <= Len(queue')
        BY <1>0, <2>5, <2>7
      <3>2. Taps
        BY <2>3, <2>6, <2>7, <3>1 DEF Taps
      <3> QED
        BY <2>4, <2>7, <3>2
    <2> QED
      BY <2>4, <2>7
  <1> QED
    BY <1>2, <1>3, <1>4 DEF Pushes

(* Keys for the KERNAL only are not queued with releases.                   *)
LEMMA PathKept ==
    ASSUME IInv, PathInv, AllClosed, [Next]_vars
    PROVE  PathInv'
  <1>0. /\ Steady /\ TypeOK /\ VerdictInv /\ PlaceInv /\ BatchInv
        /\ queue \in Seq(Keystroke) /\ Len(queue) \in Nat /\ Len(pending) \in Nat
    BY LenProperties DEF IInv, AllClosed, Steady, TypeOK
  <1>1. CASE Pushes
    <2>1. UNCHANGED <<pc, pending, transport>> /\ Longer
      BY <1>0, <1>1, PushesQueue DEF worker, settings
    <2>2. Waiting("release")' => \A i \in 1 .. Len(queue') : queue'[i].key \in Keys
      <3>1. CASE queue' = queue
        BY <3>1 DEF PathInv, Waiting
      <3>2. CASE Taps /\ \A i \in 1 .. Len(queue) : queue'[i] = queue[i]
        <4>1. ASSUME NEW i \in 1 .. Len(queue'), queue'[i].tr = "release"
              PROVE  Waiting("release")
          <5>1. i \in 1 .. Len(queue)
            BY <1>0, <3>2, <4>1 DEF Taps
          <5> QED
            BY <3>2, <4>1, <5>1 DEF Waiting
        <4>2. ASSUME NEW i \in 1 .. Len(queue'), Waiting("release")
              PROVE  queue'[i].key \in Keys
          <5>1. CASE i \in 1 .. Len(queue)
            BY <3>2, <4>2, <5>1 DEF PathInv
          <5>2. CASE i \in Len(queue) + 1 .. Len(queue')
            BY <3>2, <4>2, <5>2 DEF Taps
          <5> QED
            BY <1>0, <3>2, <5>1, <5>2 DEF Taps
        <4> QED
          BY <4>1, <4>2 DEF Waiting
      <3>3. CASE \E k \in Keys : (Presses(k) \/ Releases(k)) /\ \A i \in 1 .. Len(queue) : queue'[i] = queue[i]
        <4>1. PICK k \in Keys : Presses(k) \/ Releases(k)
          BY <3>3
        <4>2. Len(queue') = Len(queue) + 1 /\ queue'[Len(queue) + 1].key \in Keys
          BY <4>1 DEF Presses, Releases
        <4>3. (\A i \in 1 .. Len(queue) : queue[i].key \in Keys) \/ (~Waiting("release") /\ Presses(k))
          BY <4>1 DEF Releases, PathInv
        <4>4. CASE \A i \in 1 .. Len(queue) : queue[i].key \in Keys
          <5>1. ASSUME NEW i \in 1 .. Len(queue')
                PROVE  queue'[i].key \in Keys
            <6>1. i \in 1 .. Len(queue) \/ i = Len(queue) + 1
              BY <1>0, <4>2
            <6> QED
              BY <3>3, <4>2, <4>4, <6>1
          <5> QED
            BY <5>1
        <4>5. CASE ~Waiting("release") /\ Presses(k)
          <5>1. ASSUME NEW i \in 1 .. Len(queue')
                PROVE  queue'[i].tr # "release"
            <6>1. i \in 1 .. Len(queue) \/ i = Len(queue) + 1
              BY <1>0, <4>2
            <6> QED
              BY <3>3, <4>5, <6>1 DEF Waiting, Presses
          <5> QED
            BY <5>1 DEF Waiting
        <4> QED
          BY <4>3, <4>4, <4>5
      <3> QED
        BY <1>0, <1>1, <3>1, <3>2, <3>3, PushKinds
    <2> QED
      BY <2>1, <2>2 DEF PathInv, InHand, Expressible
  <1>2. CASE Others
    <2>1. UNCHANGED <<queue, pc, pending>>
      BY <1>0, <1>2, OthersLeaveBatch DEF worker
    <2>2. transport' = transport \/ pending = <<>>
      BY <1>2 DEF Others, ModifierDown, ModifierUp, ToggleJoystick, LoseFocus, GainFocus, SetTransport, Retarget,
         Destroy, ResetNegotiation, Broadcast, Join, Consume, Acts, Act, settings, AllClosed
    <2> QED
      BY <2>1, <2>2 DEF PathInv, InHand, Waiting, Expressible
  <1>3. CASE Flush
    <2>1. queue' = <<>> /\ UNCHANGED <<pc, pending, transport>>
      BY <1>3 DEF Flush, worker, settings
    <2>2. ~Waiting("release")'
      BY <2>1 DEF Waiting
    <2> QED
      BY <2>1, <2>2 DEF PathInv, InHand, Expressible
  <1>4. CASE Iterate \/ PopCommand \/ RunCommand \/ WaitForWork \/ WaitEmpty \/ WriteCells \/ WriteLength \/ Verify
    <2>1. UNCHANGED <<queue, pending, transport>>
      BY <1>4 DEF Iterate, PopCommand, RunCommand, WaitForWork, WaitEmpty, WriteCells, WriteLength, Verify, Legacy,
         queues, settings
    <2>2. pc' \notin {"choose", "try", "force"}
      <3>1. CASE Iterate \/ PopCommand \/ RunCommand \/ WaitForWork
        BY <1>0, <3>1 DEF Iterate, PopCommand, RunCommand, WaitForWork, TypeOK
      <3>2. CASE WaitEmpty \/ WriteCells \/ WriteLength \/ Verify
        BY <3>2 DEF WaitEmpty, WriteCells, WriteLength, Verify, Step, Again
      <3> QED
        BY <1>4, <3>1, <3>2
    <2> QED
      BY <2>1, <2>2 DEF PathInv, InHand, Waiting, Expressible
  <1>5. CASE PeekIdle \/ PeekAgain
    <2>1. PICK none \in {"wait", "loop"} : Peek(none)
      BY <1>5 DEF PeekIdle, PeekAgain
    <2>2. /\ Len(pending') <= Len(queue) /\ \A i \in 1 .. Len(pending') : pending'[i] = queue[i]
          /\ pc' = (IF pending' = <<>> THEN none ELSE "choose") /\ pending' \in Seq(Keystroke)
          /\ UNCHANGED <<queue, transport>>
      BY <1>0, <2>1, Peeked DEF queues, settings
    <2>3. Len(pending') \in Nat
      BY <2>2, LenProperties
    <2>4. (\E i \in 1 .. Len(pending') : pending'[i].tr = "release") => Expressible'
      BY <1>0, <2>2, <2>3 DEF Expressible, PathInv, Waiting
    <2>5. /\ InHand' => pending' # <<>>
          /\ pc' \notin {"try", "force"}
      BY <2>1, <2>2 DEF InHand
    <2>6. Waiting("release")' => \A i \in 1 .. Len(queue') : queue'[i].key \in Keys
      BY <2>2 DEF Waiting, PathInv
    <2> QED
      BY <2>4, <2>5, <2>6 DEF PathInv
  <1>6. CASE Choose \/ Request
    <2>1. /\ UNCHANGED <<queue, transport>> /\ pc \in {"choose", "try", "force"}
          /\ \/ ToLegacy
             \/ UNCHANGED pending /\ pc' \in {"try", "force"} /\ transport # "legacy"
             \/ UNCHANGED pending /\ pc' = "discard"
      BY <1>6 DEF Choose, Request, queues, settings
    <2>2. Waiting("release")' => \A i \in 1 .. Len(queue') : queue'[i].key \in Keys
      BY <2>1 DEF Waiting, PathInv
    <2>3. CASE ToLegacy
      <3>1. /\ pending' \in Seq(Keystroke) /\ Len(pending') <= Len(pending)
            /\ \A i \in 1 .. Len(pending') : pending'[i] = pending[i]
            /\ pc' \in {"discard", "loop"}
        BY <1>0, <2>3, CutForKernal
      <3>2. Len(pending') \in Nat
        BY <3>1, LenProperties
      <3>3. (\E i \in 1 .. Len(pending') : pending'[i].tr = "release") => Expressible'
        BY <1>0, <3>1, <3>2 DEF PathInv, Expressible
      <3> QED
        BY <2>2, <3>1, <3>3 DEF PathInv, InHand
    <2>4. CASE UNCHANGED pending /\ pc' \in {"try", "force"} /\ transport # "legacy"
      BY <2>1, <2>2, <2>4 DEF PathInv, InHand, Expressible
    <2>5. CASE UNCHANGED pending /\ pc' = "discard"
      BY <2>2, <2>5 DEF PathInv, InHand, Expressible
    <2> QED
      BY <2>1, <2>3, <2>4, <2>5
  <1>7. CASE Discard
    <2>1. pending' = <<>> /\ pc' = "loop"
      BY <1>7 DEF Discard
    <2>2. \A i \in 1 .. Len(queue') : consumed + i \in 1 .. Len(queue) /\ queue'[i] = queue[consumed + i]
      BY <1>0, <1>7, Discarded
    <2>3. Waiting("release")' => \A i \in 1 .. Len(queue') : queue'[i].key \in Keys
      BY <2>2 DEF Waiting, PathInv
    <2> QED
      BY <2>1, <2>3 DEF PathInv, InHand, Expressible
  <1>8. CASE UNCHANGED vars
    BY <1>8 DEF vars, queues, settings, worker, PathInv, InHand, Waiting, Expressible
  <1> QED
    BY <1>1, <1>2, <1>3, <1>4, <1>5, <1>6, <1>7, <1>8, StepKinds DEF Worker

(* What a request lost or a full queue refused is never made good.          *)
LEMMA NotExcused ==
    ASSUME TypeOK, AllClosed, [Next]_vars, ~excused'
    PROVE  ~excused
  <1>1. CASE Pushes
    BY <1>1, PushKinds
  <1>2. CASE Others
    <2>1. \/ \E c \in Command : QueueCommand(c)
          \/ UNCHANGED excused
      <3>1. CASE \E m \in Modifiers : ModifierDown(m) \/ ModifierUp(m)
        BY <3>1, CommandsAre DEF ModifierDown, ModifierUp
      <3>2. CASE ToggleJoystick \/ LoseFocus \/ GainFocus
        BY <3>2, CommandsAre DEF ToggleJoystick, LoseFocus, GainFocus
      <3>3. CASE \/ \E t \in Transports : SetTransport(t)
                 \/ \E d \in Devices : Retarget(d)
                 \/ Destroy \/ ResetNegotiation \/ Broadcast \/ Join \/ Consume
        BY <3>3 DEF SetTransport, Retarget, Destroy, ResetNegotiation, Broadcast, Join, Consume
      <3> QED
        BY <1>2, <3>1, <3>2, <3>3 DEF Others
    <2> QED
      BY <2>1 DEF QueueCommand
  <1>3. CASE Flush
    BY <1>3 DEF Flush
  <1>4. CASE Worker
    <2>1. CASE Iterate \/ PopCommand \/ RunCommand \/ PeekIdle \/ WaitForWork \/ PeekAgain \/ Discard
      BY <2>1 DEF Iterate, PopCommand, RunCommand, PeekIdle, PeekAgain, Peek, WaitForWork, Discard, Fails, Answers
    <2>2. CASE Choose \/ Request
      BY <2>2 DEF Choose, Request, Fails, Answers
    <2>3. CASE WaitEmpty \/ WriteCells \/ WriteLength \/ Verify
      BY <2>3 DEF WaitEmpty, WriteCells, WriteLength, Verify, Fails, Answers
    <2> QED
      BY <1>4, <2>1, <2>2, <2>3 DEF Worker
  <1>5. CASE UNCHANGED vars
    BY <1>5 DEF vars
  <1> QED
    BY <1>1, <1>2, <1>3, <1>4, <1>5, StepKinds

(* A command about a modifier leaves the keys alone.                        *)
LEMMA CommandAfter ==
    ASSUME TypeOK, pc = "command", RunCommand, ~excused', NEW x
    PROVE  /\ x \in held' => device \in Capable \/ x \in held
           /\ x \in held' /\ device \in Capable => command # ReleaseAll
           /\ x \in held' => x \in held \/ command = [key |-> x, tr |-> "press"]
           /\ x \in held' /\ device \in Capable => command # [key |-> x, tr |-> "release"]
           /\ UNCHANGED device /\ pc' = "commands"
  <1>1. /\ held' = IF device \in Capable THEN After(held, command) ELSE held
        /\ UNCHANGED device /\ pc' = "commands"
    BY DEF RunCommand, Fails
  <1>2. command \in Command
    BY DEF TypeOK
  <1>3. CASE command = ReleaseAll
    <2>1. After(held, command) = {}
      BY <1>3 DEF After, ReleaseAll
    <2> QED
      BY <1>1, <2>1
  <1>4. CASE command # ReleaseAll
    <2>1. PICK m \in Modifiers : \/ command = [key |-> m, tr |-> "press"]
                                 \/ command = [key |-> m, tr |-> "release"]
      BY <1>2, <1>4 DEF Command
    <2>2. CASE command = [key |-> m, tr |-> "press"]
      <3>1. After(held, command) = held \cup {m}
        BY <1>4, <2>2 DEF After
      <3> QED
        BY <1>1, <1>4, <2>2, <3>1
    <2>3. CASE command = [key |-> m, tr |-> "release"]
      <3>1. After(held, command) = held \ {m}
        BY <1>4, <2>3 DEF After
      <3>2. command = [key |-> x, tr |-> "release"] => x = m
        BY <2>3
      <3> QED
        BY <1>1, <1>4, <3>1, <3>2
    <2> QED
      BY <2>1, <2>2, <2>3
  <1> QED
    BY <1>3, <1>4

LEMMA HeldByInputKept ==
    ASSUME IInv, PathInv, HeldByInput, AllClosed, [Next]_vars, ~excused'
    PROVE  HeldByInput'
  <1>0. TypeOK /\ VerdictInv /\ Steady /\ Keys \cap Modifiers = {}
    BY KeyboardAssumption DEF IInv, AllClosed, Steady
  <1>s. ASSUME \A x \in held' : x \in held, UNCHANGED <<device, demoted, transport>>
        PROVE  HeldByInput'
    BY <1>s DEF HeldByInput
  <1>e. ASSUME held' = {}
        PROVE  HeldByInput'
    BY <1>e DEF HeldByInput
  <1>1. CASE Pushes
    <2>1. UNCHANGED <<held, device, demoted, transport>>
      BY <1>0, <1>1, PushesQueue DEF worker, settings, machine
    <2> QED
      BY <1>s, <2>1
  <1>2. CASE Others
    <2>1. CASE \E t \in Transports : SetTransport(t)
      <3>1. held' = {}
        BY <2>1 DEF SetTransport, machine, AllClosed
      <3> QED
        BY <1>e, <3>1
    <2>2. CASE \E d \in Devices : Retarget(d)
      <3>1. held' = {}
        BY <2>2 DEF Retarget
      <3> QED
        BY <1>e, <3>1
    <2>3. CASE \/ \E m \in Modifiers : ModifierDown(m) \/ ModifierUp(m)
               \/ ToggleJoystick \/ LoseFocus \/ GainFocus
               \/ Destroy \/ ResetNegotiation \/ Broadcast \/ Join \/ Consume
      <3>1. UNCHANGED <<held, device, demoted, transport>>
        BY <2>3 DEF ModifierDown, ModifierUp, ToggleJoystick, LoseFocus, GainFocus, Destroy, ResetNegotiation,
           Broadcast, Join, Consume, Acts, machine, worker, settings
      <3> QED
        BY <1>s, <3>1
    <2> QED
      BY <1>2, <2>1, <2>2, <2>3 DEF Others
  <1>3. CASE Flush
    BY <1>s, <1>3 DEF Flush, worker, settings, machine
  <1>4. CASE Iterate \/ PopCommand \/ WaitForWork \/ PeekIdle \/ PeekAgain \/ Discard
             \/ WaitEmpty \/ WriteCells \/ WriteLength \/ Verify
    <2>1. UNCHANGED <<held, device, demoted, transport>>
      BY <1>4 DEF Iterate, PopCommand, WaitForWork, PeekIdle, PeekAgain, Peek, Discard, WaitEmpty, WriteCells,
         WriteLength, Verify, Legacy, machine, worker, settings
    <2> QED
      BY <1>s, <2>1
  <1>5. CASE RunCommand
    <2>1. UNCHANGED <<demoted, transport>> /\ pc = "command"
      BY <1>5 DEF RunCommand, settings
    <2>2. ASSUME NEW x \in held'
          PROVE  device \in Capable
      BY <1>0, <1>5, <2>1, <2>2, CommandAfter DEF HeldByInput
    <2>3. ASSUME NEW x \in held' \cap Keys
          PROVE  x \in held
      <3>1. x \in held \/ command = [key |-> x, tr |-> "press"]
        BY <1>0, <1>5, <2>1, <2>3, CommandAfter
      <3>2. command \in Command /\ x \notin Modifiers
        BY <1>0, <2>3 DEF TypeOK
      <3>3. command # [key |-> x, tr |-> "press"]
        BY <3>2 DEF Command, ReleaseAll
      <3> QED
        BY <3>1, <3>3
    <2>4. UNCHANGED device
      BY <1>5 DEF RunCommand
    <2> QED
      BY <2>1, <2>2, <2>3, <2>4 DEF HeldByInput
  <1>6. CASE Choose
    <2>1. UNCHANGED <<held, device, transport>> /\ (demoted = "no" => demoted' = "no")
      BY <1>6 DEF Choose, machine, settings
    <2> QED
      BY <2>1 DEF HeldByInput
  <1>7. CASE Request
    <2>1. UNCHANGED <<device, transport>> /\ pc \in {"try", "force"}
      BY <1>7 DEF Request, settings
    <2>2. \/ device \in Capable /\ demoted' = "no"
          \/ device \notin Capable /\ UNCHANGED held
      BY <1>7 DEF Request, Fails
    <2> QED
      BY <2>1, <2>2 DEF HeldByInput, PathInv
  <1>8. CASE UNCHANGED vars
    BY <1>s, <1>8 DEF vars, worker, settings, machine
  <1> QED
    BY <1>1, <1>2, <1>3, <1>4, <1>5, <1>6, <1>7, <1>8, StepKinds DEF Worker

-----------------------------------------------------------------------------
(* A key that the user no longer holds.                                     *)
KeyGoes(k) == BatchLetsGo(k) /\ QueueLetsGo(k) /\ MachineLetsGo(k)

(* Steps that only move it along.                                           *)
LEMMA KeyStays ==
    ASSUME NEW k, KeyGoes(k), UNCHANGED <<queue, pending, consumed>>,
           InHand' <=> InHand, uiPc' = "flush" <=> uiPc = "flush",
           InHand /\ AllQueued => AllQueued',
           k \in held' => k \in held /\ (AllQueued \/ AllNow => AllQueued' \/ AllNow')
    PROVE  KeyGoes(k)'
  <1>1. (ReleaseQueued(k) => ReleaseQueued(k)') /\ (ReleaseInHand(k) => ReleaseInHand(k)')
    BY DEF ReleaseQueued, ReleaseInHand, Queued, Does
  <1>2. BatchLetsGo(k)'
    BY <1>1 DEF KeyGoes, BatchLetsGo, Stale, Does
  <1>3. QueueLetsGo(k)'
    BY DEF KeyGoes, QueueLetsGo, Queued
  <1>4. MachineLetsGo(k)'
    BY <1>1 DEF KeyGoes, MachineLetsGo
  <1> QED
    BY <1>2, <1>3, <1>4 DEF KeyGoes

(* Other keystrokes are queued behind.                                      *)
LEMMA QueueGrows ==
    ASSUME NEW k, KeyGoes(k), ~Stale,
           Len(queue) \in Nat, Len(queue') \in Nat, Len(queue) <= Len(queue'),
           \A i \in 1 .. Len(queue) : queue'[i] = queue[i],
           \A i \in Len(queue) + 1 .. Len(queue') : ~(queue'[i].key = k /\ queue'[i].tr = "press"),
           UNCHANGED <<pending, consumed, pc, uiPc, cmds, command, held>>
    PROVE  KeyGoes(k)'
  <1>1. ReleaseQueued(k) => ReleaseQueued(k)'
    BY DEF ReleaseQueued, Queued
  <1>2. /\ InHand' <=> InHand
        /\ AllQueued' <=> AllQueued
        /\ AllNow' <=> AllNow
    BY DEF InHand, AllQueued, AllNow
  <1>3. BatchLetsGo(k)'
    BY <1>1, <1>2 DEF KeyGoes, BatchLetsGo, Does
  <1>4. QueueLetsGo(k)'
    <2> SUFFICES ASSUME uiPc # "flush", NEW i \in 1 .. Len(queue'), i > consumed, Queued(i, k, "press")'
                 PROVE  \E j \in 1 .. Len(queue') : j > i /\ Queued(j, k, "release")'
      BY DEF QueueLetsGo
    <2>1. i \in 1 .. Len(queue)
      BY DEF Queued
    <2>2. PICK j \in 1 .. Len(queue) : j > i /\ Queued(j, k, "release")
      BY <2>1 DEF KeyGoes, QueueLetsGo, Queued
    <2> QED
      BY <2>2 DEF Queued
  <1>5. MachineLetsGo(k)'
    BY <1>1, <1>2 DEF KeyGoes, MachineLetsGo, ReleaseInHand, Does
  <1> QED
    BY <1>3, <1>4, <1>5 DEF KeyGoes

(* Its release is.                                                          *)
LEMMA ReleaseGrows ==
    ASSUME NEW k, ~Stale, uiPc' # "flush", consumed \in Nat,
           Len(queue) \in Nat, Len(queue') = Len(queue) + 1,
           queue'[Len(queue) + 1].key = k, queue'[Len(queue) + 1].tr = "release",
           UNCHANGED consumed
    PROVE  KeyGoes(k)'
  <1>1. PICK n \in 1 .. Len(queue') : n = Len(queue) + 1
    OBVIOUS
  <1>2. Queued(n, k, "release")' /\ n > consumed'
    BY <1>1 DEF Queued, Stale
  <1>3. ReleaseQueued(k)'
    BY <1>2 DEF ReleaseQueued
  <1>4. QueueLetsGo(k)'
    <2> SUFFICES ASSUME NEW i \in 1 .. Len(queue'), Queued(i, k, "press")'
                 PROVE  \E j \in 1 .. Len(queue') : j > i /\ Queued(j, k, "release")'
      BY DEF QueueLetsGo
    <2>1. i # n
      BY <1>1 DEF Queued
    <2> QED
      BY <1>1, <1>2, <2>1
  <1> QED
    BY <1>3, <1>4 DEF KeyGoes, BatchLetsGo, MachineLetsGo

LEMMA PushKeepsKey ==
    ASSUME IInv, KeysLetGo, AllClosed, Pushes, ~excused', NEW k \in Keys, k \notin tracked'
    PROVE  KeyGoes(k)'
  <1>0. TypeOK /\ VerdictInv /\ Steady /\ queue \in Seq(Keystroke) /\ Len(queue) \in Nat /\ consumed \in Nat
    BY LenProperties, KeyboardAssumption DEF IInv, AllClosed, Steady, TypeOK
  <1>1. /\ ~Stale /\ queue' \in Seq(Keystroke) /\ UNCHANGED <<pending, consumed, pc, uiPc, cmds, command, held>>
    BY <1>0, PushesQueue DEF Longer, worker, machine
  <1>2. Len(queue') \in Nat
    BY <1>1, LenProperties
  <1>3. uiPc = "ready"
    BY DEF Pushes, KeyDown, KeyUp, Type, Acts, Act
  <1>4. /\ \A i \in 1 .. Len(queue) : queue'[i] = queue[i]
        /\ Taps \/ \E o \in Keys : Presses(o) \/ Releases(o)
    BY <1>0, PushKinds
  <1>5. CASE Taps
    <2>1. k \notin tracked
      BY <1>5 DEF Taps
    <2>2. KeyGoes(k)
      BY <2>1 DEF KeysLetGo, KeyGoes
    <2>3. \A i \in Len(queue) + 1 .. Len(queue') : ~(queue'[i].key = k /\ queue'[i].tr = "press")
      BY <1>5 DEF Taps
    <2>4. Len(queue) <= Len(queue')
      BY <1>5 DEF Taps
    <2> QED
      BY <1>0, <1>1, <1>2, <1>4, <2>2, <2>3, <2>4, QueueGrows
  <1>6. ASSUME NEW o \in Keys, Presses(o) \/ Releases(o)
        PROVE  KeyGoes(k)'
    <2>1. Len(queue') = Len(queue) + 1 /\ queue'[Len(queue) + 1].key = o
      BY <1>6 DEF Presses, Releases
    <2>2. CASE o # k
      <3>1. k \notin tracked
        BY <1>6, <2>2 DEF Presses, Releases
      <3>2. KeyGoes(k)
        BY <3>1 DEF KeysLetGo, KeyGoes
      <3>3. \A i \in Len(queue) + 1 .. Len(queue') : i = Len(queue) + 1
        BY <1>0, <2>1
      <3>4. \A i \in Len(queue) + 1 .. Len(queue') : ~(queue'[i].key = k /\ queue'[i].tr = "press")
        BY <2>1, <2>2, <3>3
      <3>5. Len(queue) <= Len(queue')
        BY <1>0, <2>1
      <3> QED
        BY <1>0, <1>1, <1>2, <1>4, <3>2, <3>4, <3>5, QueueGrows
    <2>3. CASE o = k
      <3>1. queue'[Len(queue) + 1].tr = "release"
        BY <1>6, <2>3 DEF Presses, Releases
      <3>2. uiPc' # "flush"
        BY <1>1, <1>3
      <3> QED
        BY <1>0, <1>1, <2>1, <2>3, <3>1, <3>2, ReleaseGrows
    <2> QED
      BY <2>2, <2>3
  <1> QED
    BY <1>4, <1>5, <1>6

(* Leaving joystick mode: everything is released by command.                *)
LEMMA ToggleKeepsKey ==
    ASSUME IInv, KeysLetGo, AllClosed, ToggleJoystick, ~excused', NEW k \in Keys, k \notin tracked'
    PROVE  KeyGoes(k)'
  <1>0. /\ cmds \in Seq(Command) /\ excused \in BOOLEAN /\ BatchInv
        /\ ReleaseAll \in Command /\ Len(queue) \in Nat /\ Len(pending) \in Nat /\ consumed = Len(pending)
    BY CommandsAre, LenProperties DEF IInv, TypeOK, BatchInv
  <1>1. UNCHANGED <<uiPc, queue, pending, consumed, pc, command, held>> /\ uiPc = "ready"
    BY DEF ToggleJoystick, Acts, Act, worker, machine
  <1>2. InHand' <=> InHand
    BY <1>1 DEF InHand
  <1>3. CASE ~joystick
    <2>1. UNCHANGED <<tracked, cmds>>
      BY <1>3 DEF ToggleJoystick
    <2>2. KeyGoes(k)
      BY <2>1 DEF KeysLetGo, KeyGoes
    <2>3. (AllQueued' <=> AllQueued) /\ (AllNow' <=> AllNow)
      BY <1>1, <2>1 DEF AllQueued, AllNow
    <2> QED
      BY <1>1, <1>2, <2>2, <2>3, KeyStays
  <1>4. CASE joystick
    <2>1. QueueCommand(ReleaseAll) /\ ~Waiting("press")
      BY <1>4 DEF ToggleJoystick, AllClosed
    <2>2. Len(cmds) \in Nat /\ Len(cmds') = Len(cmds) + 1 /\ cmds'[Len(cmds) + 1] = ReleaseAll
      BY <1>0, <2>1, CommandLast
    <2>3. AllQueued'
      BY <2>2 DEF AllQueued
    <2>4. QueueLetsGo(k)'
      BY <1>1, <2>1 DEF QueueLetsGo, Queued, Waiting
    <2>5. BatchLetsGo(k)'
      <3> SUFFICES ASSUME NEW i \in 1 .. Len(pending), Does(i, k, "press")
                   PROVE  Stale'
        BY <1>1, <2>3 DEF BatchLetsGo, Does
      <3>1. CASE ~Stale
        <4>1. i \in 1 .. Len(queue) /\ queue[i] = pending[i]
          BY <1>0, <3>1 DEF BatchInv, Stale
        <4> QED
          BY <2>1, <4>1 DEF Does, Waiting
      <3>2. CASE Stale
        BY <1>1, <3>2 DEF Stale
      <3> QED
        BY <3>1, <3>2
    <2> QED
      BY <2>3, <2>4, <2>5 DEF KeyGoes, MachineLetsGo
  <1> QED
    BY <1>3, <1>4

(* The focus is lost: everything is released by command, unless nothing is  *)
(* held and no release waits that the flush would take away.                *)
LEMMA FocusKeepsKey ==
    ASSUME IInv, KeysLetGo, AllClosed, LoseFocus, ~excused', NEW k \in Keys, k \notin tracked'
    PROVE  KeyGoes(k)'
  <1>0. cmds \in Seq(Command) /\ excused \in BOOLEAN /\ ReleaseAll \in Command
    BY CommandsAre DEF IInv, TypeOK
  <1>1. UNCHANGED <<queue, pending, consumed, pc, command, held>> /\ uiPc' = "flush"
    BY DEF LoseFocus, Acts, worker, machine
  <1>2. QueueLetsGo(k)'
    BY <1>1 DEF QueueLetsGo
  <1>3. CASE joystick \/ tracked # {}
    <2>1. QueueCommand(ReleaseAll)
      BY <1>3 DEF LoseFocus
    <2>2. Len(cmds) \in Nat /\ Len(cmds') = Len(cmds) + 1 /\ cmds'[Len(cmds) + 1] = ReleaseAll
      BY <1>0, <2>1, CommandLast
    <2>3. AllQueued'
      BY <2>2 DEF AllQueued
    <2> QED
      BY <1>1, <1>2, <2>3 DEF KeyGoes, BatchLetsGo, MachineLetsGo
  <1>4. CASE ~(joystick \/ tracked # {})
    <2>1. UNCHANGED <<tracked, cmds>> /\ ~Waiting("release")
      BY <1>4 DEF LoseFocus, AllClosed
    <2>2. KeyGoes(k)
      BY <2>1 DEF KeysLetGo, KeyGoes
    <2>3. ~ReleaseQueued(k)
      BY <2>1 DEF ReleaseQueued, Queued, Waiting
    <2>4. (AllQueued' <=> AllQueued) /\ (AllNow' <=> AllNow) /\ (InHand' <=> InHand)
      BY <1>1, <2>1 DEF AllQueued, AllNow, InHand
    <2>5. ReleaseInHand(k) => ReleaseInHand(k)'
      BY <1>1, <2>4 DEF ReleaseInHand, Does
    <2>6. BatchLetsGo(k)'
      BY <1>1, <2>2, <2>3, <2>4 DEF KeyGoes, BatchLetsGo, Does
    <2>7. MachineLetsGo(k)'
      BY <1>1, <2>2, <2>3, <2>4, <2>5 DEF KeyGoes, MachineLetsGo
    <2> QED
      BY <1>2, <2>6, <2>7 DEF KeyGoes
  <1> QED
    BY <1>3, <1>4

(* The flush after it takes nothing that the batch in hand waits for.       *)
LEMMA FlushKeepsKey ==
    ASSUME IInv, KeysLetGo, Flush, NEW k \in Keys, k \notin tracked'
    PROVE  KeyGoes(k)'
  <1>1. /\ uiPc = "flush" /\ queue' = <<>>
        /\ UNCHANGED <<tracked, pending, consumed, pc, command, cmds, held>>
    BY DEF Flush, worker, machine
  <1>2. KeyGoes(k) /\ ~ReleaseQueued(k)
    BY <1>1 DEF KeysLetGo, KeyGoes, ReleaseQueued
  <1>3. (AllQueued' <=> AllQueued) /\ (AllNow' <=> AllNow) /\ (InHand' <=> InHand)
    BY <1>1 DEF AllQueued, AllNow, InHand
  <1>4. ReleaseInHand(k) => ReleaseInHand(k)'
    BY <1>1, <1>3 DEF ReleaseInHand, Does
  <1>5. QueueLetsGo(k)'
    BY <1>1 DEF QueueLetsGo
  <1>6. pending # <<>> => Stale'
    <2>1. consumed = Len(pending) /\ pending \in Seq(Keystroke) /\ Len(queue') = 0
      BY <1>1 DEF IInv, BatchInv, TypeOK
    <2>2. Len(pending) \in Nat /\ (pending # <<>> => Len(pending) # 0)
      BY <2>1, LenProperties, EmptySeq
    <2> QED
      BY <1>1, <2>1, <2>2 DEF Stale
  <1>7. BatchLetsGo(k)'
    BY <1>1, <1>2, <1>3, <1>6 DEF KeyGoes, BatchLetsGo, Does
  <1> QED
    BY <1>1, <1>2, <1>3, <1>4, <1>5, <1>7 DEF KeyGoes, MachineLetsGo

LEMMA OthersKeepKey ==
    ASSUME IInv, KeysLetGo, AllClosed, Others, ~excused', NEW k \in Keys, k \notin tracked'
    PROVE  KeyGoes(k)'
  <1>0. cmds \in Seq(Command) /\ excused \in BOOLEAN /\ k \notin Modifiers
    BY KeyboardAssumption DEF IInv, TypeOK
  <1>1. CASE ToggleJoystick
    BY <1>1, ToggleKeepsKey
  <1>2. CASE LoseFocus
    BY <1>2, FocusKeepsKey
  <1>3. CASE \E m \in Modifiers : ModifierDown(m) \/ ModifierUp(m)
    <2>1. PICK m \in Modifiers : ModifierDown(m) \/ ModifierUp(m)
      BY <1>3
    <2>2. /\ UNCHANGED <<uiPc, queue, pending, consumed, pc, command, held>>
          /\ tracked' \in {tracked, tracked \cup {m}, tracked \ {m}}
          /\ \E c \in Command : QueueCommand(c)
      BY <2>1, CommandsAre DEF ModifierDown, ModifierUp, Acts, worker, machine
    <2>3. KeyGoes(k)
      BY <1>0, <2>2 DEF KeysLetGo, KeyGoes
    <2>4. PICK c \in Command : QueueCommand(c)
      BY <2>2
    <2>5. /\ Len(cmds) \in Nat /\ Len(cmds') = Len(cmds) + 1
          /\ \A i \in 1 .. Len(cmds) : cmds'[i] = cmds[i]
      BY <1>0, <2>4, CommandLast
    <2>6. (AllQueued => AllQueued') /\ (AllNow' <=> AllNow) /\ (InHand' <=> InHand)
      BY <2>2, <2>5 DEF AllQueued, AllNow, InHand
    <2> QED
      BY <2>2, <2>3, <2>6, KeyStays
  <1>4. CASE \/ GainFocus \/ (\E t \in Transports : SetTransport(t)) \/ (\E d \in Devices : Retarget(d))
             \/ Destroy \/ ResetNegotiation \/ Broadcast \/ Join \/ Consume
    <2>1. /\ UNCHANGED <<tracked, queue, pending, consumed, pc, command, cmds>>
          /\ k \in held' => k \in held
          /\ uiPc' = "flush" <=> uiPc = "flush"
      BY <1>4 DEF GainFocus, SetTransport, Retarget, Destroy, ResetNegotiation, Broadcast, Join, Consume, Acts, Act,
         ui, queues, worker, machine
    <2>2. (AllQueued' <=> AllQueued) /\ (AllNow' <=> AllNow) /\ (InHand' <=> InHand)
      BY <2>1 DEF AllQueued, AllNow, InHand
    <2>3. KeyGoes(k)
      BY <2>1 DEF KeysLetGo, KeyGoes
    <2> QED
      BY <2>1, <2>2, <2>3, KeyStays
  <1> QED
    BY <1>1, <1>2, <1>3, <1>4 DEF Others

(* A batch is taken: its part of the queue is now in hand.                  *)
LEMMA PeekKeepsKey ==
    ASSUME IInv, AllClosed, PeekIdle \/ PeekAgain, NEW k, KeyGoes(k)
    PROVE  KeyGoes(k)'
  <1>0. TypeOK /\ queue \in Seq(Keystroke) /\ Len(queue) \in Nat
    BY LenProperties DEF IInv, TypeOK
  <1>1. PICK none \in {"wait", "loop"} : Peek(none)
    BY DEF PeekIdle, PeekAgain
  <1>2. /\ pending' \in Seq(Keystroke) /\ consumed' = Len(pending') /\ Len(pending') <= Len(queue)
        /\ \A i \in 1 .. Len(pending') : pending'[i] = queue[i]
        /\ pc' = (IF pending' = <<>> THEN none ELSE "choose")
        /\ UNCHANGED <<uiPc, queue, cmds, command, held>> /\ uiPc # "flush"
    BY <1>0, <1>1, Peeked DEF Peek, AllClosed, ui, queues, machine
  <1>3. Len(pending') \in Nat /\ (pending' = <<>> <=> Len(pending') = 0)
    BY <1>2, LenProperties, EmptySeq
  <1>4. consumed = 0 /\ ~InHand /\ ~AllNow
    <2>1. pc \in {"idle", "peek"} /\ state = "idle"
      BY DEF PeekIdle, PeekAgain, IInv, PlaceInv
    <2>2. pending = <<>> /\ consumed = Len(pending)
      BY <2>1 DEF IInv, BatchInv
    <2>3. Len(pending) = 0
      BY <2>2
    <2> QED
      BY <2>1, <2>2, <2>3 DEF InHand, AllNow
  <1>5. InHand' <=> pending' # <<>>
    BY <1>2 DEF InHand
  <1>6. \A i \in 1 .. Len(queue) : Queued(i, k, "press") =>
           \E j \in 1 .. Len(queue) : j > i /\ Queued(j, k, "release")
    BY <1>2, <1>4 DEF KeyGoes, QueueLetsGo
  <1>7. ASSUME NEW j \in 1 .. Len(queue), Queued(j, k, "release")
        PROVE  \/ ReleaseQueued(k)'
               \/ InHand' /\ j \in 1 .. Len(pending') /\ Does(j, k, "release")'
    <2>1. CASE j > consumed'
      BY <1>2, <1>7, <2>1 DEF ReleaseQueued, Queued
    <2>2. CASE ~(j > consumed')
      <3>1. j \in 1 .. Len(pending') /\ pending' # <<>>
        BY <1>2, <1>3, <2>2
      <3> QED
        BY <1>2, <1>5, <1>7, <3>1 DEF Queued, Does
    <2> QED
      BY <2>1, <2>2
  <1>8. BatchLetsGo(k)'
    <2> SUFFICES ASSUME NEW i \in 1 .. Len(pending'), Does(i, k, "press")'
                 PROVE  \/ \E j \in 1 .. Len(pending') : j > i /\ Does(j, k, "release")'
                        \/ ReleaseQueued(k)'
      BY DEF BatchLetsGo
    <2>1. i \in 1 .. Len(queue) /\ Queued(i, k, "press")
      BY <1>0, <1>2, <1>3 DEF Does, Queued
    <2>2. PICK j \in 1 .. Len(queue) : j > i /\ Queued(j, k, "release")
      BY <1>6, <2>1
    <2> QED
      BY <1>7, <2>2
  <1>9. QueueLetsGo(k)'
    BY <1>2, <1>6 DEF QueueLetsGo, Queued
  <1>10. MachineLetsGo(k)'
    <2> SUFFICES ASSUME k \in held
                 PROVE  ReleaseInHand(k)' \/ ReleaseQueued(k)' \/ AllQueued'
      BY <1>2 DEF MachineLetsGo
    <2>1. ReleaseQueued(k) \/ AllQueued
      BY <1>4 DEF KeyGoes, MachineLetsGo, ReleaseInHand
    <2>2. CASE ReleaseQueued(k)
      <3>1. PICK j \in 1 .. Len(queue) : Queued(j, k, "release")
        BY <2>2 DEF ReleaseQueued
      <3> QED
        BY <1>7, <3>1 DEF ReleaseInHand
    <2>3. CASE AllQueued
      BY <1>2, <2>3 DEF AllQueued
    <2> QED
      BY <2>1, <2>2, <2>3
  <1> QED
    BY <1>8, <1>9, <1>10 DEF KeyGoes

(* A batch goes to the KERNAL, which knows no release: nothing is held, or  *)
(* the batch has none.                                                      *)
LEMMA CutKeepsKey ==
    ASSUME IInv, PathInv, InHand, ToLegacy, UNCHANGED <<queue, cmds, uiPc, held>>,
           held \cap Keys = {} \/ ~Expressible, NEW k \in Keys, KeyGoes(k)
    PROVE  KeyGoes(k)'
  <1>0. /\ TypeOK /\ BatchInv /\ consumed = Len(pending) /\ Len(pending) \in Nat /\ Len(queue) \in Nat
    BY LenProperties DEF IInv, BatchInv, TypeOK
  <1>1. /\ pending' \in Seq(Keystroke) /\ consumed' = Len(pending') /\ Len(pending') <= Len(pending)
        /\ pc' \in {"discard", "loop"}
    BY <1>0, CutForKernal
  <1>2. Len(pending') \in Nat /\ ~InHand'
    BY <1>1, LenProperties DEF InHand
  <1>3. ReleaseQueued(k) => ReleaseQueued(k)'
    BY <1>0, <1>1, <1>2 DEF ReleaseQueued, Queued
  <1>4. BatchLetsGo(k)'
    BY <1>2 DEF BatchLetsGo
  <1>5. MachineLetsGo(k)'
    <2> SUFFICES ASSUME k \in held
                 PROVE  ReleaseQueued(k) \/ AllQueued
      BY <1>3 DEF MachineLetsGo, AllQueued
    <2>1. ~ReleaseInHand(k)
      BY DEF ReleaseInHand, PathInv, Does
    <2>2. ~AllNow
      BY DEF AllNow, InHand
    <2> QED
      BY <2>1, <2>2 DEF KeyGoes, MachineLetsGo
  <1>6. QueueLetsGo(k)'
    <2> SUFFICES ASSUME uiPc # "flush", NEW i \in 1 .. Len(queue), i > consumed', Queued(i, k, "press")
                 PROVE  \E j \in 1 .. Len(queue) : j > i /\ Queued(j, k, "release")
      BY DEF QueueLetsGo, Queued
    <2>1. CASE i > consumed
      BY <2>1 DEF KeyGoes, QueueLetsGo
    <2>2. CASE ~(i > consumed)
      <3>1. ~Stale
        <4>1. Stale => Len(queue) = 0
          BY DEF IInv, BatchInv
        <4> QED
          BY <4>1
      <3>2. \A j \in 1 .. Len(pending) : pending[j] = queue[j] /\ j \in 1 .. Len(queue)
        BY <1>0, <3>1 DEF BatchInv, Stale
      <3>3. i \in 1 .. Len(pending)
        BY <1>0, <2>2
      <3>4. Does(i, k, "press")
        BY <3>2, <3>3 DEF Does, Queued
      <3>5. \/ \E j \in 1 .. Len(pending) : j > i /\ Does(j, k, "release")
            \/ ReleaseQueued(k)
        BY <3>1, <3>3, <3>4 DEF KeyGoes, BatchLetsGo
      <3>6. CASE \E j \in 1 .. Len(pending) : j > i /\ Does(j, k, "release")
        BY <3>2, <3>6 DEF Does, Queued
      <3>7. CASE ReleaseQueued(k)
        <4>1. PICK j \in 1 .. Len(queue) : j > consumed /\ Queued(j, k, "release")
          BY <3>7 DEF ReleaseQueued
        <4> QED
          BY <1>0, <3>3, <4>1
      <3> QED
        BY <3>5, <3>6, <3>7
    <2> QED
      BY <2>1, <2>2
  <1> QED
    BY <1>4, <1>5, <1>6 DEF KeyGoes

(* The machine takes the batch: a key that goes down has its release behind. *)
LEMMA TakeKeepsKey ==
    ASSUME IInv, InHand, Take, pc' = "discard", UNCHANGED <<queue, pending, consumed, cmds, uiPc>>,
           NEW k \in Keys, KeyGoes(k)
    PROVE  KeyGoes(k)'
  <1>1. ~InHand' /\ ~AllNow /\ (AllQueued' <=> AllQueued)
    BY DEF InHand, AllNow, AllQueued
  <1>2. ReleaseQueued(k) => ReleaseQueued(k)'
    BY DEF ReleaseQueued, Queued
  <1>3. QueueLetsGo(k)'
    BY DEF KeyGoes, QueueLetsGo, Queued
  <1>4. BatchLetsGo(k)'
    BY <1>1 DEF BatchLetsGo
  <1>5. MachineLetsGo(k)'
    <2> SUFFICES ASSUME k \in held'
                 PROVE  ReleaseQueued(k) \/ AllQueued
      BY <1>1, <1>2 DEF MachineLetsGo
    <2>1. \/ k \in held /\ \A i \in 1 .. Len(pending) : ~Does(i, k, "release")
          \/ \E i \in 1 .. Len(pending) : /\ Does(i, k, "press")
                                          /\ \A j \in 1 .. Len(pending) : j > i => ~Does(j, k, "release")
      BY DEF Take
    <2>2. CASE k \in held /\ \A i \in 1 .. Len(pending) : ~Does(i, k, "release")
      BY <1>1, <2>2 DEF KeyGoes, MachineLetsGo, ReleaseInHand
    <2>3. CASE \E i \in 1 .. Len(pending) : /\ Does(i, k, "press")
                                            /\ \A j \in 1 .. Len(pending) : j > i => ~Does(j, k, "release")
      BY <2>3 DEF KeyGoes, BatchLetsGo
    <2> QED
      BY <2>1, <2>2, <2>3
  <1> QED
    BY <1>3, <1>4, <1>5 DEF KeyGoes

(* The batch leaves the queue.                                              *)
LEMMA DiscardKeepsKey ==
    ASSUME IInv, Discard, NEW k, KeyGoes(k)
    PROVE  KeyGoes(k)'
  <1>0. TypeOK /\ queue \in Seq(Keystroke) /\ Len(queue) \in Nat /\ consumed \in Nat
    BY LenProperties, KeyboardAssumption DEF IInv, TypeOK
  <1>1. /\ queue' = SubSeq(queue, consumed + 1, Len(queue)) /\ consumed' = 0
        /\ UNCHANGED <<cmds, uiPc, held>> /\ pc = "discard" /\ pc' = "loop"
    BY DEF Discard, Remaining, ui, machine
  <1>2. /\ queue' \in Seq(Keystroke) /\ Len(queue') = IF Len(queue) < consumed THEN 0 ELSE Len(queue) - consumed
        /\ \A i \in 1 .. Len(queue') : consumed + i \in 1 .. Len(queue) /\ queue'[i] = queue[consumed + i]
    <2>1. PICK r : r = SubSeq(queue, consumed + 1, Len(queue))
      OBVIOUS
    <2>2. /\ r \in Seq(Keystroke) /\ Len(r) = IF Len(queue) < consumed THEN 0 ELSE Len(queue) - consumed
          /\ \A i \in 1 .. Len(r) : consumed + i \in 1 .. Len(queue) /\ r[i] = queue[consumed + i]
      BY <1>0, <2>1, OthersStay
    <2> QED
      BY <1>1, <2>1, <2>2
  <1>3. ~InHand /\ ~InHand' /\ ~AllNow /\ (AllQueued' <=> AllQueued)
    BY <1>1 DEF InHand, AllNow, AllQueued
  <1>4. ASSUME NEW j \in 1 .. Len(queue), j > consumed, Queued(j, k, "release")
        PROVE  \E n \in 1 .. Len(queue') : n = j - consumed /\ Queued(n, k, "release")'
    <2>1. Len(queue') \in Nat /\ j - consumed \in 1 .. Len(queue')
      BY <1>0, <1>2, <1>4
    <2>2. PICK n \in 1 .. Len(queue') : n = j - consumed
      BY <2>1
    <2>3. consumed + n = j
      BY <1>0, <2>1, <2>2
    <2>4. queue'[n] = queue[j]
      BY <1>2, <2>3
    <2> QED
      BY <1>4, <2>2, <2>4 DEF Queued
  <1>5. ReleaseQueued(k) => ReleaseQueued(k)'
    <2> SUFFICES ASSUME ReleaseQueued(k)
                 PROVE  ReleaseQueued(k)'
      OBVIOUS
    <2>1. PICK j \in 1 .. Len(queue) : j > consumed /\ Queued(j, k, "release")
      BY DEF ReleaseQueued
    <2>2. PICK n \in 1 .. Len(queue') : n = j - consumed /\ Queued(n, k, "release")'
      BY <1>4, <2>1
    <2>3. n > consumed' /\ uiPc' # "flush"
      BY <1>0, <1>1, <2>1, <2>2 DEF ReleaseQueued
    <2> QED
      BY <2>2, <2>3 DEF ReleaseQueued
  <1>6. QueueLetsGo(k)'
    <2> SUFFICES ASSUME uiPc # "flush", NEW i \in 1 .. Len(queue'), Queued(i, k, "press")'
                 PROVE  \E j \in 1 .. Len(queue') : j > i /\ Queued(j, k, "release")'
      BY <1>1 DEF QueueLetsGo
    <2>1. PICK o \in 1 .. Len(queue) : o = consumed + i /\ queue'[i] = queue[o]
      BY <1>2
    <2>2. o > consumed /\ Queued(o, k, "press") /\ i \in Nat
      BY <1>0, <2>1 DEF Queued
    <2>3. PICK j \in 1 .. Len(queue) : j > o /\ Queued(j, k, "release")
      BY <2>2 DEF KeyGoes, QueueLetsGo
    <2>4. j > consumed
      BY <1>0, <2>1, <2>2, <2>3
    <2>5. PICK n \in 1 .. Len(queue') : n = j - consumed /\ Queued(n, k, "release")'
      BY <1>4, <2>3, <2>4
    <2>6. n > i
      BY <1>0, <2>1, <2>2, <2>3, <2>5
    <2> QED
      BY <2>5, <2>6
  <1>7. BatchLetsGo(k)'
    BY <1>3 DEF BatchLetsGo
  <1> QED
    BY <1>1, <1>3, <1>5, <1>6, <1>7 DEF KeyGoes, MachineLetsGo, ReleaseInHand

LEMMA WorkerKeepsKey ==
    ASSUME IInv, PathInv, HeldByInput, KeysLetGo, AllClosed, Worker, ~excused', NEW k \in Keys, k \notin tracked'
    PROVE  KeyGoes(k)'
  <1>0. TypeOK /\ PlaceInv /\ cmds \in Seq(Command) /\ k \notin Modifiers
    BY KeyboardAssumption DEF IInv, TypeOK
  <1>1. UNCHANGED <<tracked, uiPc>>
    BY DEF Worker, Iterate, PopCommand, RunCommand, PeekIdle, PeekAgain, Peek, WaitForWork, Choose, Request, Discard,
       WaitEmpty, WriteCells, WriteLength, Verify, Legacy, ui
  <1>2. KeyGoes(k)
    BY <1>1 DEF KeysLetGo, KeyGoes
  <1>3. CASE Iterate \/ WaitForWork \/ WaitEmpty \/ WriteCells \/ WriteLength \/ Verify
    <2>1. /\ UNCHANGED <<queue, pending, consumed, cmds, held>>
          /\ pc \in {"loop", "wait", "empty", "write", "length", "verify"}
          /\ pc' \in {"loop", "commands", "done", "wait", "peek", "length"}
      <3>1. CASE Iterate \/ WaitForWork
        BY <3>1 DEF Iterate, WaitForWork, queues, machine
      <3>2. CASE WaitEmpty \/ WriteCells \/ WriteLength \/ Verify
        BY <3>2 DEF WaitEmpty, WriteCells, WriteLength, Verify, Legacy, Step, Again, queues
      <3> QED
        BY <1>3, <3>1, <3>2
    <2>2. ~InHand /\ ~InHand' /\ ~AllNow /\ (AllQueued' <=> AllQueued)
      BY <2>1 DEF InHand, AllNow, AllQueued
    <2> QED
      BY <1>1, <1>2, <2>1, <2>2, KeyStays
  <1>4. CASE PopCommand
    <2>1. UNCHANGED <<queue, pending, consumed, held, state>> /\ pc = "commands" /\ pc' \in {state, "command"}
      BY <1>4 DEF PopCommand, machine
    <2>2. ~InHand /\ ~InHand' /\ ~AllNow
      BY <1>0, <2>1 DEF InHand, AllNow, TypeOK
    <2>3. AllQueued => AllQueued' \/ AllNow'
      <3> SUFFICES ASSUME AllQueued
                   PROVE  AllQueued' \/ AllNow'
        OBVIOUS
      <3>1. PICK i \in 1 .. Len(cmds) : cmds[i] = ReleaseAll
        BY DEF AllQueued
      <3>2. cmds # <<>>
        BY <1>0, <3>1
      <3>3. /\ pc' = "command" /\ command' = cmds[1]
            /\ Len(cmds) \in Nat /\ Len(cmds') = Len(cmds) - 1
            /\ \A j \in 1 .. Len(cmds) - 1 : cmds'[j] = cmds[j + 1]
        BY <1>0, <1>4, <3>2, CommandTaken
      <3>4. CASE i = 1
        BY <3>1, <3>3, <3>4 DEF AllNow
      <3>5. CASE i # 1
        <4>1. PICK j \in 1 .. Len(cmds') : j + 1 = i
          <5>1. i - 1 \in 1 .. Len(cmds') /\ (i - 1) + 1 = i
            BY <3>3, <3>5
          <5> QED
            BY <5>1
        <4>2. cmds'[j] = ReleaseAll
          BY <3>1, <3>3, <4>1
        <4> QED
          BY <4>2 DEF AllQueued, ReleaseAll
      <3> QED
        BY <3>4, <3>5
    <2> QED
      BY <1>1, <1>2, <2>1, <2>2, <2>3, KeyStays
  <1>5. CASE RunCommand
    <2>1. UNCHANGED <<queue, pending, consumed, cmds>> /\ pc = "command" /\ pc' = "commands"
      BY <1>5 DEF RunCommand, queues
    <2>2. ~InHand /\ ~InHand' /\ (AllQueued' <=> AllQueued)
      BY <2>1 DEF InHand, AllQueued
    <2>3. ASSUME k \in held'
          PROVE  k \in held /\ ~AllNow
      <3>1. /\ k \in held \/ command = [key |-> k, tr |-> "press"]
            /\ device \in Capable \/ k \in held
            /\ device \in Capable => command # ReleaseAll
        BY <1>0, <1>5, <2>1, <2>3, CommandAfter
      <3>2. command # [key |-> k, tr |-> "press"]
        BY <1>0 DEF TypeOK, Command, ReleaseAll
      <3>3. device \in Capable
        BY <3>1, <3>2 DEF HeldByInput
      <3> QED
        BY <3>1, <3>2, <3>3 DEF AllNow
    <2> QED
      BY <1>1, <1>2, <2>1, <2>2, <2>3, KeyStays
  <1>6. CASE PeekIdle \/ PeekAgain
    BY <1>2, <1>6, PeekKeepsKey
  <1>7. CASE Choose
    <2>1. UNCHANGED <<queue, cmds, held, transport>> /\ pc = "choose" /\ InHand
      BY <1>7 DEF Choose, queues, settings, machine, InHand
    <2>2. \/ pc' \in {"try", "force"} /\ UNCHANGED <<pending, consumed>>
          \/ ToLegacy /\ (~Expressible \/ transport = "legacy" \/ demoted # "no")
      BY <1>0, <1>7 DEF Choose, TypeOK, Transports
    <2>3. CASE pc' \in {"try", "force"} /\ UNCHANGED <<pending, consumed>>
      <3>1. InHand' /\ ~AllNow /\ (AllQueued' <=> AllQueued)
        BY <2>1, <2>3 DEF InHand, AllNow, AllQueued
      <3> QED
        BY <1>1, <1>2, <2>1, <2>3, <3>1, KeyStays
    <2>4. CASE ToLegacy /\ (~Expressible \/ transport = "legacy" \/ demoted # "no")
      <3>1. held \cap Keys = {} \/ ~Expressible
        BY <2>4 DEF HeldByInput
      <3> QED
        BY <1>1, <1>2, <2>1, <2>4, <3>1, CutKeepsKey
    <2> QED
      BY <2>2, <2>3, <2>4
  <1>8. CASE Request
    <2>1. UNCHANGED <<queue, cmds>> /\ pc \in {"try", "force"} /\ InHand
      BY <1>8 DEF Request, queues, InHand
    <2>2. \/ Take /\ pc' = "discard" /\ UNCHANGED <<pending, consumed>>
          \/ device \notin Capable /\ UNCHANGED held /\ ToLegacy
      BY <1>8 DEF Request, Fails
    <2>3. CASE Take /\ pc' = "discard" /\ UNCHANGED <<pending, consumed>>
      BY <1>1, <1>2, <2>1, <2>3, TakeKeepsKey
    <2>4. CASE device \notin Capable /\ UNCHANGED held /\ ToLegacy
      <3>1. held \cap Keys = {}
        BY <2>4 DEF HeldByInput
      <3> QED
        BY <1>1, <1>2, <2>1, <2>4, <3>1, CutKeepsKey
    <2> QED
      BY <2>2, <2>3, <2>4
  <1>9. CASE Discard
    BY <1>2, <1>9, DiscardKeepsKey
  <1> QED
    BY <1>3, <1>4, <1>5, <1>6, <1>7, <1>8, <1>9 DEF Worker

LEMMA KeysKept ==
    ASSUME IInv, PathInv, HeldByInput, KeysLetGo, AllClosed, [Next]_vars, ~excused'
    PROVE  KeysLetGo'
  <1> SUFFICES ASSUME NEW k \in Keys, k \notin tracked'
               PROVE  KeyGoes(k)'
    BY DEF KeysLetGo, KeyGoes
  <1>1. CASE UNCHANGED vars
    <2>1. /\ UNCHANGED <<tracked, uiPc, queue, pending, consumed, pc, command, cmds, held>>
      BY <1>1 DEF vars, ui, queues, worker, machine
    <2>2. (AllQueued' <=> AllQueued) /\ (AllNow' <=> AllNow) /\ (InHand' <=> InHand)
      BY <2>1 DEF AllQueued, AllNow, InHand
    <2>3. KeyGoes(k)
      BY <2>1 DEF KeysLetGo, KeyGoes
    <2> QED
      BY <2>1, <2>2, <2>3, KeyStays
  <1> QED
    BY <1>1, PushKeepsKey, OthersKeepKey, FlushKeepsKey, WorkerKeepsKey, StepKinds

-----------------------------------------------------------------------------
(* A modifier or joystick direction that the user no longer holds.          *)
ModifierGoes(m) == CommandLetsGo(m) /\ CommandsLetGo(m) /\ ModifierComesUp(m)

LEMMA ModifierStays ==
    ASSUME NEW m, ModifierGoes(m), UNCHANGED <<cmds, command>>, pc' = "command" <=> pc = "command",
           m \in held' => m \in held
    PROVE  ModifierGoes(m)'
  <1>1. CommandLetsGo(m)' /\ CommandsLetGo(m)'
    BY DEF ModifierGoes, CommandLetsGo, CommandsLetGo, LetsGo, ReleaseAll
  <1>2. ModifierComesUp(m)'
    BY DEF ModifierGoes, ModifierComesUp, LetsGo, ReleaseAll
  <1> QED
    BY <1>1, <1>2 DEF ModifierGoes

(* A command is queued that lets it go, or that has nothing to do with it.  *)
LEMMA CommandBehind ==
    ASSUME cmds \in Seq(Command), excused \in BOOLEAN, ~excused',
           NEW c \in Command, QueueCommand(c), UNCHANGED <<pc, command, held>>,
           NEW m, LetsGo(c, m) \/ (ModifierGoes(m) /\ c # [key |-> m, tr |-> "press"])
    PROVE  ModifierGoes(m)'
  <1>1. /\ Len(cmds) \in Nat /\ Len(cmds') = Len(cmds) + 1
        /\ \A i \in 1 .. Len(cmds) : cmds'[i] = cmds[i]
        /\ cmds'[Len(cmds) + 1] = c
    BY CommandLast
  <1>2. PICK n \in 1 .. Len(cmds') : n = Len(cmds) + 1 /\ cmds'[n] = c
    BY <1>1
  <1>3. \A i \in 1 .. Len(cmds') : i \in 1 .. Len(cmds) \/ i = n
    BY <1>1, <1>2
  <1>4. \A i \in 1 .. Len(cmds) : i \in 1 .. Len(cmds') /\ n > i
    BY <1>1, <1>2
  <1>5. CASE LetsGo(c, m)
    <2>1. c # [key |-> m, tr |-> "press"]
      BY <1>5 DEF LetsGo, ReleaseAll
    <2>2. LetsGo(cmds'[n], m)
      BY <1>2, <1>5
    <2>3. CommandsLetGo(m)'
      <3> SUFFICES ASSUME NEW i \in 1 .. Len(cmds'), cmds'[i] = [key |-> m, tr |-> "press"]
                   PROVE  \E j \in 1 .. Len(cmds') : j > i /\ LetsGo(cmds'[j], m)
        BY DEF CommandsLetGo, LetsGo, ReleaseAll
      <3>1. i # n
        BY <1>2, <2>1
      <3> QED
        BY <1>3, <1>4, <2>2, <3>1
    <2>4. CommandLetsGo(m)' /\ ModifierComesUp(m)'
      BY <2>2 DEF CommandLetsGo, ModifierComesUp, LetsGo, ReleaseAll
    <2> QED
      BY <2>3, <2>4 DEF ModifierGoes
  <1>6. CASE ModifierGoes(m) /\ c # [key |-> m, tr |-> "press"]
    <2>1. CommandsLetGo(m)'
      <3> SUFFICES ASSUME NEW i \in 1 .. Len(cmds'), cmds'[i] = [key |-> m, tr |-> "press"]
                   PROVE  \E j \in 1 .. Len(cmds') : j > i /\ LetsGo(cmds'[j], m)
        BY DEF CommandsLetGo, LetsGo, ReleaseAll
      <3>1. i \in 1 .. Len(cmds)
        BY <1>2, <1>3, <1>6
      <3>2. cmds[i] = [key |-> m, tr |-> "press"]
        BY <1>1, <3>1
      <3>3. PICK j \in 1 .. Len(cmds) : j > i /\ LetsGo(cmds[j], m)
        BY <1>6, <3>1, <3>2 DEF ModifierGoes, CommandsLetGo
      <3> QED
        BY <1>1, <1>4, <3>3
    <2>2. (\E j \in 1 .. Len(cmds) : LetsGo(cmds[j], m)) => \E j \in 1 .. Len(cmds') : LetsGo(cmds'[j], m)
      BY <1>1, <1>4
    <2>3. CommandLetsGo(m)'
      BY <1>6, <2>2 DEF ModifierGoes, CommandLetsGo, LetsGo, ReleaseAll
    <2>4. ModifierComesUp(m)'
      BY <1>6, <2>2 DEF ModifierGoes, ModifierComesUp, LetsGo, ReleaseAll
    <2> QED
      BY <2>1, <2>3, <2>4 DEF ModifierGoes
  <1> QED
    BY <1>5, <1>6

(* The worker takes the first command.                                      *)
LEMMA PopKeepsModifier ==
    ASSUME TypeOK, PopCommand, NEW m, ModifierGoes(m)
    PROVE  ModifierGoes(m)'
  <1>0. cmds \in Seq(Command) /\ state # "command"
    BY DEF TypeOK
  <1>1. UNCHANGED held /\ pc = "commands"
    BY DEF PopCommand, machine
  <1>2. CASE cmds = <<>>
    <2>1. pc' = state /\ UNCHANGED <<cmds, command>>
      BY <1>2 DEF PopCommand
    <2> QED
      BY <1>0, <1>1, <2>1, ModifierStays
  <1>3. CASE cmds # <<>>
    <2>1. /\ pc' = "command" /\ command' = cmds[1]
          /\ Len(cmds) \in Nat /\ Len(cmds') = Len(cmds) - 1
          /\ \A i \in 1 .. Len(cmds) - 1 : cmds'[i] = cmds[i + 1]
      BY <1>0, <1>3, CommandTaken
    <2>2. ASSUME NEW j \in 1 .. Len(cmds), j # 1
          PROVE  \E n \in 1 .. Len(cmds') : n + 1 = j /\ cmds'[n] = cmds[j]
      <3>1. PICK n \in 1 .. Len(cmds') : n + 1 = j
        <4>1. j - 1 \in 1 .. Len(cmds') /\ (j - 1) + 1 = j
          BY <2>1, <2>2
        <4> QED
          BY <4>1
      <3> QED
        BY <2>1, <3>1
    <2>3. CommandLetsGo(m)'
      <3> SUFFICES ASSUME cmds[1] = [key |-> m, tr |-> "press"]
                   PROVE  \E n \in 1 .. Len(cmds') : LetsGo(cmds'[n], m)
        BY <2>1 DEF CommandLetsGo, LetsGo, ReleaseAll
      <3>1. PICK j \in 1 .. Len(cmds) : j > 1 /\ LetsGo(cmds[j], m)
        <4>1. 1 \in 1 .. Len(cmds)
          <5>1. Len(cmds) # 0
            BY <1>0, <1>3, EmptySeq
          <5> QED
            BY <2>1, <5>1
        <4> QED
          BY <4>1 DEF ModifierGoes, CommandsLetGo
      <3>2. PICK n \in 1 .. Len(cmds') : cmds'[n] = cmds[j]
        BY <2>2, <3>1
      <3> QED
        BY <3>1, <3>2
    <2>4. CommandsLetGo(m)'
      <3> SUFFICES ASSUME NEW i \in 1 .. Len(cmds'), cmds'[i] = [key |-> m, tr |-> "press"]
                   PROVE  \E n \in 1 .. Len(cmds') : n > i /\ LetsGo(cmds'[n], m)
        BY DEF CommandsLetGo, LetsGo, ReleaseAll
      <3>1. PICK o \in 1 .. Len(cmds) : o = i + 1 /\ cmds[o] = [key |-> m, tr |-> "press"]
        <4>1. i + 1 \in 1 .. Len(cmds)
          BY <2>1
        <4>2. cmds'[i] = cmds[i + 1]
          BY <2>1
        <4> QED
          BY <4>1, <4>2
      <3>2. PICK j \in 1 .. Len(cmds) : j > o /\ LetsGo(cmds[j], m)
        BY <3>1 DEF ModifierGoes, CommandsLetGo
      <3>3. PICK n \in 1 .. Len(cmds') : n + 1 = j /\ cmds'[n] = cmds[j]
        <4>1. j # 1
          BY <2>1, <3>1, <3>2
        <4> QED
          BY <2>2, <4>1
      <3>4. n > i
        BY <2>1, <3>1, <3>2, <3>3
      <3> QED
        BY <3>2, <3>3, <3>4
    <2>5. ModifierComesUp(m)'
      <3> SUFFICES ASSUME m \in held
                   PROVE  (\E n \in 1 .. Len(cmds') : LetsGo(cmds'[n], m)) \/ LetsGo(cmds[1], m)
        BY <1>1, <2>1 DEF ModifierComesUp, LetsGo, ReleaseAll
      <3>1. PICK j \in 1 .. Len(cmds) : LetsGo(cmds[j], m)
        BY <1>1 DEF ModifierGoes, ModifierComesUp
      <3>2. CASE j # 1
        <4>1. PICK n \in 1 .. Len(cmds') : cmds'[n] = cmds[j]
          BY <2>2, <3>2
        <4> QED
          BY <3>1, <4>1
      <3> QED
        BY <3>1, <3>2
    <2> QED
      BY <2>3, <2>4, <2>5 DEF ModifierGoes
  <1> QED
    BY <1>2, <1>3

(* It reaches the machine: only a press brings a modifier down, and its     *)
(* release waits behind it.                                                *)
LEMMA RunKeepsModifier ==
    ASSUME TypeOK, HeldByInput, RunCommand, ~excused', NEW m, ModifierGoes(m)
    PROVE  ModifierGoes(m)'
  <1>1. UNCHANGED cmds /\ pc = "command" /\ pc' = "commands"
    BY DEF RunCommand, queues
  <1>2. CommandLetsGo(m)' /\ CommandsLetGo(m)'
    BY <1>1 DEF ModifierGoes, CommandLetsGo, CommandsLetGo, LetsGo, ReleaseAll
  <1>3. ModifierComesUp(m)'
    <2> SUFFICES ASSUME m \in held'
                 PROVE  \E j \in 1 .. Len(cmds) : LetsGo(cmds[j], m)
      BY <1>1 DEF ModifierComesUp, LetsGo, ReleaseAll
    <2>1. CASE command = [key |-> m, tr |-> "press"]
      BY <1>1, <2>1 DEF ModifierGoes, CommandLetsGo
    <2>2. CASE command # [key |-> m, tr |-> "press"]
      <3>1. m \in held
        BY <1>1, <2>2, CommandAfter
      <3>2. device \in Capable
        BY <3>1 DEF HeldByInput
      <3>3. ~LetsGo(command, m)
        BY <1>1, <3>2, CommandAfter DEF LetsGo
      <3> QED
        BY <3>1, <3>3 DEF ModifierGoes, ModifierComesUp
    <2> QED
      BY <2>1, <2>2
  <1> QED
    BY <1>2, <1>3 DEF ModifierGoes

LEMMA OthersKeepModifier ==
    ASSUME TypeOK, ModifiersLetGo, AllClosed, Others, ~excused', NEW m \in Modifiers, m \notin tracked'
    PROVE  ModifierGoes(m)'
  <1>0. cmds \in Seq(Command) /\ excused \in BOOLEAN
    BY DEF TypeOK
  <1>1. CASE \E o \in Modifiers : ModifierDown(o) \/ ModifierUp(o)
    <2>1. PICK o \in Modifiers : ModifierDown(o) \/ ModifierUp(o)
      BY <1>1
    <2>2. UNCHANGED <<pc, command, held>>
      BY <2>1 DEF ModifierDown, ModifierUp, Acts, worker, machine
    <2>3. PICK c \in Command : /\ QueueCommand(c)
                               /\ \/ tracked' = tracked \cup {o} /\ c = [key |-> o, tr |-> "press"]
                                  \/ tracked' = tracked \ {o} /\ c = [key |-> o, tr |-> "release"]
      BY <2>1, CommandsAre DEF ModifierDown, ModifierUp, AllClosed
    <2>4. CASE m = o
      <3>1. LetsGo(c, m)
        BY <2>3, <2>4 DEF LetsGo
      <3> QED
        BY <1>0, <2>2, <2>3, <3>1, CommandBehind
    <2>5. CASE m # o
      <3>1. ModifierGoes(m)
        BY <2>3, <2>5 DEF ModifiersLetGo, ModifierGoes
      <3>2. c # [key |-> m, tr |-> "press"]
        BY <2>3, <2>5
      <3> QED
        BY <1>0, <2>2, <2>3, <3>1, <3>2, CommandBehind
    <2> QED
      BY <2>4, <2>5
  <1>2. CASE ToggleJoystick \/ LoseFocus
    <2>1. UNCHANGED <<pc, command, held>>
      BY <1>2 DEF ToggleJoystick, LoseFocus, Acts, worker, machine
    <2>2. QueueCommand(ReleaseAll) \/ UNCHANGED <<tracked, cmds>>
      BY <1>2 DEF ToggleJoystick, LoseFocus
    <2>3. CASE QueueCommand(ReleaseAll)
      <3>1. PICK c \in Command : c = ReleaseAll
        BY CommandsAre
      <3>2. LetsGo(c, m) /\ QueueCommand(c)
        BY <2>3, <3>1 DEF LetsGo
      <3> QED
        BY <1>0, <2>1, <3>2, CommandBehind
    <2>4. CASE UNCHANGED <<tracked, cmds>>
      <3>1. ModifierGoes(m)
        BY <2>4 DEF ModifiersLetGo, ModifierGoes
      <3> QED
        BY <2>1, <2>4, <3>1, ModifierStays
    <2> QED
      BY <2>2, <2>3, <2>4
  <1>3. CASE \/ GainFocus \/ (\E t \in Transports : SetTransport(t)) \/ (\E d \in Devices : Retarget(d))
             \/ Destroy \/ ResetNegotiation \/ Broadcast \/ Join \/ Consume
    <2>1. UNCHANGED <<tracked, pc, command, cmds>> /\ (m \in held' => m \in held)
      BY <1>3 DEF GainFocus, SetTransport, Retarget, Destroy, ResetNegotiation, Broadcast, Join, Consume, Acts, Act,
         ui, queues, worker, machine
    <2>2. ModifierGoes(m)
      BY <2>1 DEF ModifiersLetGo, ModifierGoes
    <2> QED
      BY <2>1, <2>2, ModifierStays
  <1> QED
    BY <1>1, <1>2, <1>3 DEF Others

LEMMA ModifiersKept ==
    ASSUME IInv, HeldByInput, ModifiersLetGo, AllClosed, [Next]_vars, ~excused'
    PROVE  ModifiersLetGo'
  <1> SUFFICES ASSUME NEW m \in Modifiers, m \notin tracked'
               PROVE  ModifierGoes(m)'
    BY DEF ModifiersLetGo, ModifierGoes
  <1>0. TypeOK /\ VerdictInv /\ Steady /\ m \notin Keys
    BY KeyboardAssumption DEF IInv, AllClosed, Steady
  <1>1. CASE Pushes
    <2>1. UNCHANGED <<cmds, pc, command, held>>
      BY <1>0, <1>1, PushesQueue DEF worker, machine
    <2>2. m \notin tracked
      <3>1. \/ tracked' = tracked
            \/ \E k \in Keys : tracked' = tracked \cup {k} \/ tracked' = tracked \ {k}
        BY <1>1 DEF Pushes, KeyDown, KeyUp, Type, ui
      <3> QED
        BY <1>0, <3>1
    <2>3. ModifierGoes(m)
      BY <2>2 DEF ModifiersLetGo, ModifierGoes
    <2> QED
      BY <2>1, <2>3, ModifierStays
  <1>2. CASE Flush \/ UNCHANGED vars
    <2>1. UNCHANGED <<tracked, cmds, pc, command, held>>
      BY <1>2 DEF Flush, vars, ui, queues, worker, machine
    <2>2. ModifierGoes(m)
      BY <2>1 DEF ModifiersLetGo, ModifierGoes
    <2> QED
      BY <2>1, <2>2, ModifierStays
  <1>3. CASE Worker
    <2>1. UNCHANGED tracked
      BY <1>3 DEF Worker, Iterate, PopCommand, RunCommand, PeekIdle, PeekAgain, Peek, WaitForWork, Choose, Request,
         Discard, WaitEmpty, WriteCells, WriteLength, Verify, Legacy, ui
    <2>2. ModifierGoes(m)
      BY <2>1 DEF ModifiersLetGo, ModifierGoes
    <2>3. CASE PopCommand \/ RunCommand
      BY <1>0, <2>2, <2>3, PopKeepsModifier, RunKeepsModifier
    <2>4. CASE Iterate \/ PeekIdle \/ PeekAgain \/ WaitForWork \/ Discard
      <3>1. UNCHANGED <<cmds, command, held>> /\ pc # "command" /\ pc' # "command"
        BY <2>4 DEF Iterate, PeekIdle, PeekAgain, Peek, WaitForWork, Discard, queues, machine
      <3> QED
        BY <2>2, <3>1, ModifierStays
    <2>5. CASE Choose \/ Request
      <3>1. UNCHANGED <<cmds, command>> /\ pc # "command" /\ pc' # "command"
        BY <2>5 DEF Choose, Request, ToLegacy, queues
      <3>2. m \in held' => m \in held
        <4>1. held' = held \/ Take
          BY <2>5 DEF Choose, Request, machine
        <4> QED
          BY <1>0, <4>1 DEF Take
      <3> QED
        BY <2>2, <3>1, <3>2, ModifierStays
    <2>6. CASE WaitEmpty \/ WriteCells \/ WriteLength \/ Verify
      <3>1. UNCHANGED <<cmds, command, held>> /\ pc # "command" /\ pc' # "command"
        BY <2>6 DEF WaitEmpty, WriteCells, WriteLength, Verify, Legacy, Step, Again, queues
      <3> QED
        BY <2>2, <3>1, ModifierStays
    <2> QED
      BY <1>3, <2>3, <2>4, <2>5, <2>6 DEF Worker
  <1>4. CASE Others
    BY <1>0, <1>4, OthersKeepModifier
  <1> QED
    BY <1>1, <1>2, <1>3, <1>4, StepKinds

-----------------------------------------------------------------------------
LEMMA StuckStartsWell == AllClosed /\ Init => StuckInv
  <1> SUFFICES ASSUME Init
               PROVE  StuckInv
    OBVIOUS
  <1>1. queue = <<>> /\ pending = <<>> /\ cmds = <<>> /\ held = {} /\ pc = "loop" /\ state = "idle"
    BY DEF Init
  <1>2. PathInv /\ HeldByInput
    BY <1>1 DEF PathInv, InHand, Waiting, Expressible, HeldByInput
  <1>3. KeysLetGo
    BY <1>1 DEF KeysLetGo, BatchLetsGo, QueueLetsGo, MachineLetsGo, InHand
  <1>4. ModifiersLetGo
    BY <1>1 DEF ModifiersLetGo, CommandLetsGo, CommandsLetGo, ModifierComesUp
  <1> QED
    BY <1>2, <1>3, <1>4 DEF StuckInv

LEMMA StuckKept ==
    ASSUME IInv, StuckInv, AllClosed, [Next]_vars
    PROVE  StuckInv'
  <1>1. PathInv'
    BY PathKept DEF StuckInv
  <1>2. ASSUME ~excused'
        PROVE  HeldByInput' /\ KeysLetGo' /\ ModifiersLetGo'
    <2>1. ~excused
      BY <1>2, NotExcused DEF IInv
    <2>2. PathInv /\ HeldByInput /\ KeysLetGo /\ ModifiersLetGo
      BY <2>1 DEF StuckInv
    <2> QED
      BY <1>2, <2>2, HeldByInputKept, KeysKept, ModifiersKept
  <1> QED
    BY <1>1, <1>2 DEF StuckInv

(* At rest no release is on the way, so nothing that waits for one is down. *)
LEMMA NothingIsStuck ==
    ASSUME IInv, StuckInv
    PROVE  NothingStuck
  <1> SUFFICES ASSUME AtRest, ~excused, NEW x \in held, x \notin tracked
               PROVE  FALSE
    BY DEF NothingStuck
  <1>1. queue = <<>> /\ cmds = <<>> /\ pc = "wait" /\ x \in Keys \cup Modifiers
    BY DEF AtRest, IInv, TypeOK
  <1>2. CASE x \in Keys
    <2>1. MachineLetsGo(x)
      BY <1>2 DEF StuckInv, KeysLetGo
    <2> QED
      BY <1>1, <2>1 DEF MachineLetsGo, ReleaseInHand, InHand, ReleaseQueued, AllQueued, AllNow
  <1>3. CASE x \in Modifiers
    <2>1. ModifierComesUp(x)
      BY <1>3 DEF StuckInv, ModifiersLetGo
    <2> QED
      BY <1>1, <2>1 DEF ModifierComesUp
  <1> QED
    BY <1>1, <1>2, <1>3

(* Once everything queued has been worked off, the machine holds no key,    *)
(* modifier or joystick direction that the user does not hold, unless a      *)
(* request failed or a full queue refused a keystroke: every press of        *)
(* c64_key_click that reached it was followed by its release, or by the      *)
(* release of everything that c64_focus and c64_release_joystick_inputs      *)
(* queue.  Steady is what the worker's own invariant needs; each of the     *)
(* other windows is a schedule that leaves a key down.                      *)
THEOREM NothingGetsStuck == AllClosed => (Spec => []NothingStuck)
  <1> SUFFICES ASSUME AllClosed
               PROVE  Spec => []NothingStuck
    OBVIOUS
  <1>1. Spec => []IInv
    BY InductiveInvariant DEF AllClosed, Steady
  <1>2. Init => StuckInv
    BY StuckStartsWell
  <1>3. IInv /\ StuckInv /\ [Next]_vars => StuckInv'
    BY StuckKept
  <1>4. IInv /\ StuckInv => NothingStuck
    BY NothingIsStuck
  <1> QED
    BY <1>1, <1>2, <1>3, <1>4, PTL DEF Spec
=============================================================================
