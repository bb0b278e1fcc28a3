--------------------------- MODULE KeyboardWorker ---------------------------
(***************************************************************************)
(* Keystrokes on their way to the machine (c64-keyboard.c and the key and   *)
(* focus callbacks of c64-source.c): the OBS UI thread queues keystrokes    *)
(* and machine commands, the injection worker sends them in batches over    *)
(* REST (machine:input) or, when the device has none, through the keyboard  *)
(* buffer of the KERNAL.  Keys may be held: a press and its release travel  *)
(* as two keystrokes, and a release of everything as a command.             *)
(*                                                                         *)
(* Windows names the schedules that the code leaves to chance:              *)
(*   "focus"     the worker takes a batch while a loss of focus has queued  *)
(*               the release of everything and not yet flushed the queue    *)
(*   "release"   the focus is lost while a release waits in the queue and   *)
(*               no other key is held                                       *)
(*   "joystick"  joystick mode is left while a press waits in the queue     *)
(*   "refill"    keys are queued again after a flush, before the worker has *)
(*               discarded the batch it took before                         *)
(*   "transport" the transport changes while a key is held                  *)
(*   "mixed"     a code that machine:input cannot express is queued         *)
(*               together with a release                                    *)
(*   "split"     the device changes between the two writes to the KERNAL     *)
(*               buffer                                                     *)
(*   "tracker"   a modifier goes down while the tracker is full             *)
(*   "lost"      the write of the KERNAL buffer's length succeeds and its   *)
(*               answer is lost                                             *)
(* Everywhere else the threads interleave freely.                           *)
(***************************************************************************)
EXTENDS Integers, FiniteSets, Sequences

CONSTANTS
    Keys,           \* keys that can be held
    Codes,          \* codes without a key of their own, always typed
    Modifiers,      \* matrix keys and joystick directions, held by command
    Devices,
    Capable,        \* the devices that have machine:input
    QueueSize,      \* QUEUE_SIZE, 1024 in the code
    CmdQueueSize,   \* CMD_QUEUE_SIZE, 256 in the code
    RestBatch,      \* C64_REST_INPUT_BATCH_SIZE, 64 in the code
    BufferSize,     \* C64_KEYBOARD_BUFFER_SIZE, 10 in the code
    MaxRetries,     \* C64_KEYBOARD_MAX_RETRIES, 20 in the code
    TrackerSize,    \* the slots of held_keys, 16 in the code
    Windows,
    MaxEvents,      \* bound: how often the user or a script acts
    MaxFaults       \* bound: how many requests fail

ASSUME KeyboardAssumption ==
    /\ BufferSize \in 1 .. RestBatch /\ RestBatch \in 1 .. QueueSize
    /\ QueueSize \in Nat /\ MaxEvents \in Nat /\ CmdQueueSize \in Nat \ {0} /\ MaxRetries \in Nat \ {0}
    /\ Capable \subseteq Devices
    /\ Keys \cap Modifiers = {}       \* petscii_to_matrix names no modifier of c64_positional_modifier_input
    /\ Windows \subseteq {"focus", "release", "joystick", "refill", "transport",
                          "mixed", "tracker", "split", "lost"}

VARIABLES
    \* the UI thread (c64_source)
    focus,          \* keyboard_capture_active
    joystick,       \* joystick_mode_active
    tracked,        \* held_keys: the keys the user holds down
    uiPc,
    \* the retry worker
    negotiating,    \* it retargeted the REST client and has not told the keyboard
    \* shared, under queue_mutex
    queue,          \* keystrokes [id, key, tr]
    cmds,           \* cmd_queue
    transport, generation,
    worker_running,
    asleep,         \* the worker waits on queue_cond and was not signalled
    \* the worker
    pc, state, command,
    pending,        \* the keystrokes it took from the queue
    consumed,       \* pending_consumed
    retries,        \* retry_count
    demoted,        \* rest_demoted_until_ns: "no", "timed" or "forever"
    seen,           \* its transport_generation
    \* the devices
    device,         \* the one the REST client talks to
    held,           \* keys down on that device
    cells, kernal,  \* its keyboard buffer: characters in it, and its length
    \* history and bounds
    last,           \* the last keystroke given to a device
    excused,        \* a request failed or a full queue refused a keystroke
    events, faults

ui == <<focus, joystick, tracked, uiPc, negotiating>>
queues == <<queue, cmds, asleep>>
settings == <<transport, generation, worker_running>>
worker == <<pc, state, command, pending, consumed, retries, demoted, seen>>
machine == <<device, held, cells, kernal>>
bounds == <<events, faults>>

vars == <<ui, queues, settings, worker, machine, last, excused, bounds>>

Transports == {"auto", "rest", "legacy"}
Keystroke == [id : 1 .. 2 * MaxEvents, key : Keys \cup Codes,
              tr : {"tap", "press", "release"}]
ReleaseAll == [key |-> "all", tr |-> "release"]
Command == [key : Modifiers, tr : {"press", "release"}] \cup {ReleaseAll}

Init ==
    /\ focus = TRUE /\ joystick = FALSE /\ tracked = {} /\ uiPc = "ready" /\ negotiating = FALSE
    /\ queue = <<>> /\ cmds = <<>> /\ asleep = FALSE
    /\ transport \in Transports /\ generation = 0 /\ worker_running = TRUE
    /\ pc = "loop" /\ state = "idle" /\ command = ReleaseAll
    /\ pending = <<>> /\ consumed = 0 /\ retries = 0 /\ demoted = "no" /\ seen = 0
    /\ device \in Devices /\ held = {} /\ cells = 0 /\ kernal = 0
    /\ last = 0 /\ excused = FALSE
    /\ events = 0 /\ faults = 0

-----------------------------------------------------------------------------
(* The queues.                                                             *)

Waiting(tr) == \E i \in 1 .. Len(queue) : queue[i].tr = tr
Holds(code) == \E i \in 1 .. Len(queue) : queue[i].key = code

(* The queue was flushed under a batch the worker still works on.           *)
Stale == Len(queue) < consumed

\* Mutant: one keystroke too many.
PushManyLate(keys, tr) ==
    IF Len(keys) > QueueSize + 1 - Len(queue)
    THEN excused' = TRUE /\ UNCHANGED <<queue, asleep>>
    ELSE /\ queue' = queue \o [i \in 1 .. Len(keys) |->
                [id |-> 2 * events + i, key |-> keys[i], tr |-> tr]]
         /\ asleep' = FALSE
         /\ UNCHANGED excused

(* queue_push_many: all of the keystrokes or none.                          *)
PushMany(keys, tr) ==
    IF Len(keys) > QueueSize - Len(queue)
    THEN excused' = TRUE /\ UNCHANGED <<queue, asleep>>
    ELSE /\ queue' = queue \o [i \in 1 .. Len(keys) |->
                [id |-> 2 * events + i, key |-> keys[i], tr |-> tr]]
         /\ asleep' = FALSE
         /\ UNCHANGED excused

(* c64_keyboard_queue_machine_command.                                      *)
QueueCommand(cmd) ==
    IF Len(cmds) >= CmdQueueSize
    THEN excused' = TRUE /\ UNCHANGED <<cmds, asleep>>
    ELSE cmds' = Append(cmds, cmd) /\ asleep' = FALSE /\ UNCHANGED excused

(* queue_discard_many: from the head, at most what there is.                *)
Remaining(count) == SubSeq(queue, count + 1, Len(queue))

-----------------------------------------------------------------------------
(* The UI thread and scripts.  Callers have stopped when the keyboard is    *)
(* destroyed.                                                              *)

Act == uiPc = "ready" /\ worker_running /\ events < MaxEvents /\ events' = events + 1

Acts == Act /\ UNCHANGED <<negotiating, settings, worker, machine, last, faults>>

Refills == "refill" \in Windows \/ ~Stale

(* c64_key_click, key down: a key is pressed, or typed if the tracker is    *)
(* full; auto-repeat is ignored.                                           *)
KeyDown(k) ==
    /\ Acts /\ Refills
    /\ focus /\ k \notin tracked
    /\ IF Cardinality(tracked) < TrackerSize
       THEN tracked' = tracked \cup {k} /\ PushMany(<<k>>, "press")
       ELSE UNCHANGED tracked /\ PushMany(<<k>>, "tap")
    /\ UNCHANGED <<focus, joystick, uiPc, cmds>>

(* c64_key_click, key up: the slot is free even if the queue was full.      *)
KeyUp(k) ==
    /\ Acts /\ Refills
    /\ "mixed" \in Windows \/ \A c \in Codes : ~Holds(c)
    /\ focus /\ k \in tracked
    /\ tracked' = tracked \ {k}
    /\ PushMany(<<k>>, "release")
    /\ UNCHANGED <<focus, joystick, uiPc, cmds>>

(* Text from the keyboard or a script (c64_keyboard_queue_output): with or  *)
(* without the focus.                                                      *)
Type(text) ==
    /\ Acts /\ Refills
    /\ "mixed" \in Windows \/ (\A i \in 1 .. Len(text) : text[i] \in Keys) \/ ~Waiting("release")
    /\ PushMany(text, "tap")
    /\ UNCHANGED <<ui, cmds>>

(* A modifier or joystick direction, held through the command queue.        *)
ModifierDown(m) ==
    /\ Acts
    /\ focus /\ m \notin tracked
    /\ "tracker" \in Windows \/ Cardinality(tracked) < TrackerSize
    /\ tracked' = IF Cardinality(tracked) < TrackerSize THEN tracked \cup {m} ELSE tracked
    /\ QueueCommand([key |-> m, tr |-> "press"])
    /\ UNCHANGED <<focus, joystick, uiPc, queue>>

ModifierUp(m) ==
    /\ Acts
    /\ focus /\ m \in tracked
    /\ tracked' = tracked \ {m}
    /\ QueueCommand([key |-> m, tr |-> "release"])
    /\ UNCHANGED <<focus, joystick, uiPc, queue>>

(* F10: leaving joystick mode releases every input of the machine           *)
(* (c64_release_joystick_inputs) and forgets what was held.                 *)
ToggleJoystick ==
    /\ Acts
    /\ "joystick" \in Windows \/ ~joystick \/ ~Waiting("press")
    /\ focus
    /\ joystick' = ~joystick
    /\ IF joystick
       THEN QueueCommand(ReleaseAll) /\ tracked' = {}
       ELSE UNCHANGED <<tracked, cmds, asleep, excused>>
    /\ UNCHANGED <<focus, uiPc, queue>>

\* Mutant: only joystick inputs are released.
LoseFocusJoystick ==
    /\ Acts
    /\ "release" \in Windows \/ joystick \/ tracked # {} \/ ~Waiting("release")
    /\ focus /\ focus' = FALSE
    /\ IF joystick
       THEN QueueCommand(ReleaseAll)
       ELSE UNCHANGED <<cmds, asleep, excused>>
    /\ tracked' = {}
    /\ uiPc' = "flush"
    /\ UNCHANGED <<joystick, queue>>

(* c64_focus: everything held is released by a command, then the queue is   *)
(* flushed (c64_keyboard_set_capture).                                      *)
LoseFocus ==
    /\ Acts
    /\ "release" \in Windows \/ joystick \/ tracked # {} \/ ~Waiting("release")
    /\ focus /\ focus' = FALSE
    /\ IF joystick \/ tracked # {}
       THEN QueueCommand(ReleaseAll) /\ tracked' = {}
       ELSE UNCHANGED <<tracked, cmds, asleep, excused>>
    /\ uiPc' = "flush"
    /\ UNCHANGED <<joystick, queue>>

Flush ==
    /\ uiPc = "flush"
    /\ queue' = <<>> /\ asleep' = FALSE
    /\ uiPc' = "ready"
    /\ UNCHANGED <<focus, joystick, tracked, negotiating, cmds, settings, worker, machine,
                   last, excused, bounds>>

GainFocus ==
    /\ Acts
    /\ ~focus /\ focus' = TRUE
    /\ UNCHANGED <<joystick, tracked, uiPc, queues, excused>>

(* c64_keyboard_set_transport.                                              *)
SetTransport(t) ==
    /\ Act
    /\ t # transport
    /\ "transport" \in Windows \/ (held = {} /\ queue = <<>> /\ pending = <<>>)
    /\ transport' = t
    /\ UNCHANGED <<ui, queues, generation, worker_running, worker, machine,
                   last, excused, faults>>

(* The retry worker retargets the source's REST client and then resets the   *)
(* negotiation (c64_rebuild_rest_client); whoever stops the old device's    *)
(* streams releases what was held there.                                   *)
Retarget(d) ==
    /\ ~negotiating /\ worker_running /\ events < MaxEvents /\ events' = events + 1
    /\ d # device
    /\ "split" \in Windows \/ pc # "length"
    /\ device' = d /\ held' = {} /\ cells' = 0 /\ kernal' = 0
    /\ negotiating' = TRUE
    /\ UNCHANGED <<focus, joystick, tracked, uiPc, queues, settings, worker, last,
                   excused, faults>>

ResetNegotiation ==
    /\ negotiating
    /\ generation' = generation + 1
    /\ negotiating' = FALSE
    /\ UNCHANGED <<focus, joystick, tracked, uiPc, queues, transport, worker_running,
                   worker, machine, last, excused, bounds>>

(* c64_keyboard_destroy: the flag, the broadcast and the join.              *)
Destroy ==
    /\ uiPc = "ready" /\ ~negotiating /\ worker_running
    /\ worker_running' = FALSE
    /\ uiPc' = "broadcast"
    /\ UNCHANGED <<focus, joystick, tracked, negotiating, queues, transport, generation,
                   worker, machine, last, excused, bounds>>

\* Mutant: the sleeping worker is not woken.
BroadcastMissed ==
    /\ uiPc = "broadcast"
    /\ uiPc' = "join"
    /\ UNCHANGED <<focus, joystick, tracked, negotiating, queues, settings, worker,
                   machine, last, excused, bounds>>

Broadcast ==
    /\ uiPc = "broadcast"
    /\ asleep' = FALSE
    /\ uiPc' = "join"
    /\ UNCHANGED <<focus, joystick, tracked, negotiating, queue, cmds, settings, worker,
                   machine, last, excused, bounds>>

Join ==
    /\ uiPc = "join" /\ pc = "done"
    /\ uiPc' = "destroyed"
    /\ UNCHANGED <<focus, joystick, tracked, negotiating, queues, settings, worker, machine,
                   last, excused, bounds>>

-----------------------------------------------------------------------------
(* The worker.  Every iteration of injection_worker runs the machine        *)
(* commands first, whatever state the keystrokes are in.                    *)

Iterate ==
    /\ pc = "loop"
    /\ pc' = IF worker_running THEN "commands" ELSE "done"
    /\ UNCHANGED <<ui, queues, settings, state, command, pending, consumed, retries,
                   demoted, seen, machine, last, excused, bounds>>

PopCommand ==
    /\ pc = "commands"
    /\ IF cmds = <<>>
       THEN pc' = state /\ UNCHANGED <<cmds, command>>
       ELSE pc' = "command" /\ command' = cmds[1] /\ cmds' = Tail(cmds)
    /\ UNCHANGED <<ui, queue, asleep, settings, state, pending, consumed, retries,
                   demoted, seen, machine, last, excused, bounds>>

(* What a command does to the keys of the machine.                          *)
After(keys, cmd) ==
    CASE cmd = ReleaseAll -> {}
      [] cmd.tr = "press" -> keys \cup {cmd.key}
      [] OTHER -> keys \ {cmd.key}

(* A request reaches the device or fails, with or without effect.           *)
Fails == faults < MaxFaults /\ faults' = faults + 1 /\ excused' = TRUE
Answers == UNCHANGED <<faults, excused>>

RunCommand ==
    /\ pc = "command" /\ pc' = "commands" /\ command' = ReleaseAll
    /\ \/ Answers /\ held' = IF device \in Capable THEN After(held, command) ELSE held
       \/ Fails /\ UNCHANGED held
    /\ UNCHANGED <<ui, queues, settings, state, pending, consumed, retries,
                   demoted, seen, device, cells, kernal, last, events>>

(* queue_peek_batch, before and after keyboard_wait_for_work.               *)
Peek(none) ==
    /\ "focus" \in Windows \/ uiPc # "flush"
    /\ pending' = SubSeq(queue, 1, IF Len(queue) < RestBatch THEN Len(queue) ELSE RestBatch)
    /\ consumed' = Len(pending')
    /\ pc' = IF queue = <<>> THEN none ELSE "choose"
    /\ UNCHANGED <<ui, queues, settings, state, command, retries, demoted, seen,
                   machine, last, excused, bounds>>

PeekIdle == pc = "idle" /\ Peek("wait")
PeekAgain == pc = "peek" /\ Peek("loop")

\* Mutant: only keystrokes count as work.
WaitForKeystrokes ==
    /\ pc = "wait" /\ ~asleep
    /\ asleep' = (worker_running /\ queue = <<>>)
    /\ pc' = CASE asleep' -> "wait"
               [] ~worker_running -> "loop"
               [] OTHER -> "peek"
    /\ UNCHANGED <<ui, queue, cmds, settings, state, command, pending, consumed,
                   retries, demoted, seen, machine, last, excused, bounds>>

(* keyboard_wait_for_work tests its predicate under the mutex and sleeps    *)
(* until somebody signals.                                                 *)
WaitForWork ==
    /\ pc = "wait" /\ ~asleep
    /\ LET work == queue # <<>> \/ cmds # <<>>
       IN  /\ asleep' = (worker_running /\ ~work)
           /\ pc' = CASE asleep' -> "wait"
                      [] ~worker_running -> "loop"
                      [] OTHER -> "peek"
    /\ UNCHANGED <<ui, queue, cmds, settings, state, command, pending, consumed,
                   retries, demoted, seen, machine, last, excused, bounds>>

-----------------------------------------------------------------------------
(* A batch is chosen a path for.                                            *)

Expressible == \A i \in 1 .. Len(pending) : pending[i].key \in Keys

\* Mutant: the batch is cut and the count of what it consumes is not.
ToLegacyConsumesAll ==
    LET batch == SubSeq(pending, 1, IF Len(pending) < BufferSize
                                    THEN Len(pending) ELSE BufferSize)
    IN  /\ pending' = batch
        /\ UNCHANGED consumed
        /\ IF \A i \in 1 .. Len(batch) : batch[i].tr = "release"
           THEN pc' = "discard" /\ UNCHANGED state
           ELSE pc' = "loop" /\ state' = "empty"
        /\ retries' = 0

(* Legacy input takes ten bytes; a release only counts as consumed.         *)
ToLegacy ==
    LET batch == SubSeq(pending, 1, IF Len(pending) < BufferSize
                                    THEN Len(pending) ELSE BufferSize)
    IN  /\ pending' = batch
        /\ consumed' = Len(batch)
        /\ IF \A i \in 1 .. Len(batch) : batch[i].tr = "release"
           THEN pc' = "discard" /\ UNCHANGED state
           ELSE pc' = "loop" /\ state' = "empty"
        /\ retries' = 0

\* Mutant: the demotion outlives a new negotiation.
ChooseKeepsDemotion ==
    /\ pc = "choose"
    /\ seen' = generation
    /\ UNCHANGED demoted
    /\ IF Expressible /\ (transport = "rest" \/ (transport = "auto" /\ demoted = "no"))
       THEN /\ pc' = IF transport = "rest" THEN "force" ELSE "try"
            /\ UNCHANGED <<state, pending, consumed, retries, excused>>
       ELSE ToLegacy /\ UNCHANGED excused
    /\ UNCHANGED <<ui, queues, settings, command, machine, last, bounds>>

(* The transport is read under the mutex; a new negotiation forgets the     *)
(* demotion, and a timed one may have run out.                              *)
Choose ==
    /\ pc = "choose"
    /\ seen' = generation
    /\ \E memo \in (IF generation # seen THEN {"no"}
                    ELSE IF demoted = "timed" THEN {"no", "timed"} ELSE {demoted}) :
        /\ demoted' = memo
        /\ IF transport = "rest" \/ (transport = "auto" /\ memo = "no")
           THEN CASE Expressible ->
                        pc' = (IF transport = "rest" THEN "force" ELSE "try")
                        /\ UNCHANGED <<state, pending, consumed, retries, excused>>
                  [] ~Expressible /\ transport = "rest" ->
                        pc' = "discard" /\ excused' = TRUE
                        /\ UNCHANGED <<state, pending, consumed, retries>>
                  [] OTHER -> ToLegacy /\ UNCHANGED excused
           ELSE ToLegacy /\ UNCHANGED excused
    /\ UNCHANGED <<ui, queues, settings, command, machine, last, bounds>>

\* The keystrokes of the batch at these places reach a device.
Give(places) ==
    \E i \in places : (\A j \in places : j <= i) /\ last' = pending[i].id

Does(i, k, tr) == pending[i].key = k /\ pending[i].tr = tr

(* machine:input takes the batch as a whole: a key is down if its last      *)
(* press or release was a press.                                           *)
Take ==
    LET batch == 1 .. Len(pending)
        pressed(k) == \E i \in batch : /\ Does(i, k, "press")
                                       /\ \A j \in batch : j > i => ~Does(j, k, "release")
        stays(k) == \A i \in batch : ~Does(i, k, "release")
    IN  /\ held' = {k \in held : stays(k)} \cup {k \in Keys : pressed(k)}
        /\ Give(batch)

\* Mutant: a batch that failed is kept and sent again.
RequestRepeats ==
    /\ pc \in {"try", "force"}
    /\ \/ device \in Capable /\ Answers /\ Take
          /\ demoted' = "no" /\ pc' = "discard" /\ UNCHANGED <<state, pending, consumed, retries>>
       \/ Fails /\ (Take \/ UNCHANGED <<held, last>>)
          /\ pc' = "loop" /\ UNCHANGED <<demoted, state, pending, consumed, retries>>
       \/ device \notin Capable /\ UNCHANGED <<held, last, faults>>
          /\ IF pc = "force"
             THEN pc' = "discard" /\ excused' = TRUE
                  /\ UNCHANGED <<demoted, state, pending, consumed, retries>>
             ELSE demoted' \in {"timed", "forever"} /\ ToLegacy /\ UNCHANGED excused
    /\ UNCHANGED <<ui, queues, settings, command, seen, device, cells, kernal, events>>

(* One request; whatever comes of it, the batch is discarded unless the     *)
(* device has no machine:input and the transport may fall back.             *)
Request ==
    /\ pc \in {"try", "force"}
    /\ \/ device \in Capable /\ Answers /\ Take
          /\ demoted' = "no" /\ pc' = "discard" /\ UNCHANGED <<state, pending, consumed, retries>>
       \/ Fails /\ (Take \/ UNCHANGED <<held, last>>)
          /\ pc' = "discard" /\ UNCHANGED <<demoted, state, pending, consumed, retries>>
       \/ device \notin Capable /\ UNCHANGED <<held, last, faults>>
          /\ IF pc = "force"
             THEN pc' = "discard" /\ excused' = TRUE
                  /\ UNCHANGED <<demoted, state, pending, consumed, retries>>
             ELSE demoted' \in {"timed", "forever"} /\ ToLegacy /\ UNCHANGED excused
    /\ UNCHANGED <<ui, queues, settings, command, seen, device, cells, kernal, events>>

Discard ==
    /\ pc = "discard" /\ pc' = "loop" /\ state' = "idle"
    /\ queue' = Remaining(consumed)
    /\ pending' = <<>> /\ consumed' = 0 /\ retries' = 0
    /\ UNCHANGED <<ui, cmds, asleep, settings, command, demoted, seen,
                   machine, last, excused, bounds>>

-----------------------------------------------------------------------------
(* Legacy input: wait for an empty KERNAL buffer, write, verify.  Each      *)
(* state is one iteration and is repeated up to MaxRetries times.           *)

\* The places in the batch of what the KERNAL can be given.
Typed == {i \in 1 .. Len(pending) : pending[i].tr # "release"}

Step(next) == pc' = "loop" /\ state' = next /\ retries' = 0

Again ==
    /\ pc' = "loop"
    /\ retries' = retries + 1
    /\ state' = IF retries' >= MaxRetries THEN "discard" ELSE state

Legacy == UNCHANGED <<ui, queues, settings, command, pending, consumed, demoted, seen,
                      device, held, events>>

(* C64_KEYBOARD_STATE_WAIT_BUFFER_EMPTY.                                    *)
WaitEmpty ==
    /\ pc = "empty"
    /\ \/ kernal = 0 /\ Answers /\ Step("write")
       \/ kernal # 0 /\ UNCHANGED faults /\ Again /\ excused' = (excused \/ state' = "discard")
       \/ Fails /\ Again
    /\ Legacy /\ UNCHANGED <<cells, kernal, last>>

(* C64_KEYBOARD_STATE_WRITE: the stop flag and the bytes, then the length.  *)
WriteCells ==
    /\ pc = "write"
    /\ \/ Answers /\ cells' = Cardinality(Typed) /\ pc' = "length" /\ UNCHANGED <<state, retries>>
       \/ Fails /\ Again /\ UNCHANGED cells
    /\ Legacy /\ UNCHANGED <<kernal, last>>

\* Mutant: the releases count.
LengthenByAll == kernal' = Len(pending) /\ Give(Typed)

Lengthen == kernal' = Cardinality(Typed) /\ Give(Typed)

WriteLength ==
    /\ pc = "length"
    /\ \/ Answers /\ Lengthen /\ Step("verify")
       \/ Fails /\ Again
          /\ \/ UNCHANGED <<kernal, last>>
             \/ "lost" \in Windows /\ Lengthen
    /\ Legacy /\ UNCHANGED cells

(* C64_KEYBOARD_STATE_VERIFY; COMPLETE and FAILED discard the batch.        *)
Verify ==
    /\ pc = "verify"
    /\ \/ kernal \in {0, Cardinality(Typed)} /\ Answers /\ Step("discard")
       \/ kernal \notin {0, Cardinality(Typed)} /\ UNCHANGED faults
          /\ Again /\ excused' = (excused \/ state' = "discard")
       \/ Fails /\ Again
    /\ Legacy /\ UNCHANGED <<cells, kernal, last>>

(* The KERNAL of the machine takes a character, when a program reads one.   *)
Consume ==
    /\ kernal > 0
    /\ kernal' = kernal - 1
    /\ cells' = cells - 1
    /\ UNCHANGED <<ui, queues, settings, worker, device, held, last, excused, bounds>>

-----------------------------------------------------------------------------
Texts == {<<c>> : c \in Codes} \cup {<<k, k>> : k \in Keys}

User ==
    \/ \E k \in Keys : KeyDown(k) \/ KeyUp(k)
    \/ \E text \in Texts : Type(text)
    \/ \E m \in Modifiers : ModifierDown(m) \/ ModifierUp(m)
    \/ ToggleJoystick \/ LoseFocus \/ GainFocus
    \/ \E t \in Transports : SetTransport(t)
    \/ \E d \in Devices : Retarget(d)
    \/ Destroy

Callback == Flush \/ ResetNegotiation \/ Broadcast \/ Join

Worker ==
    \/ Iterate \/ PopCommand \/ RunCommand
    \/ PeekIdle \/ WaitForWork \/ PeekAgain
    \/ Choose \/ Request \/ Discard
    \/ WaitEmpty \/ WriteCells \/ WriteLength \/ Verify

Next == User \/ Callback \/ Worker \/ Consume

Spec == Init /\ [][Next]_vars

(* A callback that has begun goes on, and so does the worker: requests time *)
(* out.  Neither the user nor the KERNAL has to do anything.                *)
FairSpec == Spec /\ WF_vars(Callback) /\ WF_vars(Worker)

-----------------------------------------------------------------------------
TypeOK ==
    /\ focus \in BOOLEAN /\ joystick \in BOOLEAN
    /\ tracked \subseteq Keys \cup Modifiers
    /\ uiPc \in {"ready", "flush", "broadcast", "join", "destroyed"} /\ negotiating \in BOOLEAN
    /\ queue \in Seq(Keystroke) /\ Len(queue) <= QueueSize
    /\ cmds \in Seq(Command) /\ Len(cmds) <= CmdQueueSize
    /\ transport \in Transports /\ generation \in 0 .. MaxEvents /\ seen \in 0 .. generation
    /\ worker_running \in BOOLEAN /\ asleep \in BOOLEAN
    /\ pc \in {"loop", "commands", "command", "idle", "wait", "peek", "choose", "try",
               "force", "discard", "empty", "write", "length", "verify", "done"}
    /\ state \in {"idle", "empty", "write", "verify", "discard"}
    /\ command \in Command
    /\ consumed \in 0 .. RestBatch /\ pending \in Seq(Keystroke) /\ Len(pending) <= RestBatch
    /\ retries \in 0 .. MaxRetries
    /\ demoted \in {"no", "timed", "forever"}
    /\ device \in Devices /\ held \subseteq Keys \cup Modifiers
    /\ kernal \in 0 .. BufferSize /\ cells \in 0 .. BufferSize
    /\ excused \in BOOLEAN

(* What the worker discards is the batch it worked on, whether it was sent  *)
(* whole, cut to ten bytes for the KERNAL or stripped of its releases       *)
(* ("Queue entries this batch represents", c64-keyboard.c 1462).            *)
DiscardsItsBatch ==
    (pc = "discard" /\ ~Stale) => pending = SubSeq(queue, 1, consumed)

(* No keystroke reaches a machine twice or before an earlier one, whatever  *)
(* path its batch takes and however often a step of it is repeated.         *)
SentOnceInOrder ==
    pc \in {"try", "force", "length"} => \A i \in 1 .. Len(pending) : pending[i].id > last

(* The KERNAL is never told of more characters than were put into its       *)
(* buffer: no batch overwrites another in mid-flight.                       *)
BufferWritten == kernal <= cells

(* Once everything queued has been worked off, the machine holds no key     *)
(* that the user does not hold: every press that reached it was followed by *)
(* its release or by a release of everything.                               *)
AtRest == uiPc = "ready" /\ ~negotiating /\ queue = <<>> /\ cmds = <<>> /\ pc = "wait"
NothingStuck == AtRest /\ ~excused => held \subseteq tracked

(* A device is written off for good only if it has no machine:input: the    *)
(* verdict on one device never applies to the next.                         *)
DemotionIsOfThisDevice ==
    (demoted = "forever" /\ seen = generation /\ ~negotiating)
        => device \notin Capable

(* What is queued is worked off or flushed, also when the machine never     *)
(* reads its buffer or the device answers nothing.                          *)
QueuesDrain == [](queue # <<>> \/ cmds # <<>> => <>((queue = <<>> /\ cmds = <<>>) \/ ~worker_running))

(* Destroying the keyboard ends, in every state of the worker.              *)
DestroyEnds == ~worker_running ~> uiPc = "destroyed"

(* What the worker writes is what was queued, once and in order; it takes   *)
(* from the queues only what it sent, and falls back to the legacy way only *)
(* for the device that refused (c64_keyboard_worker_main).                  *)
WorkerInv ==
  TypeOK /\ DiscardsItsBatch /\ SentOnceInOrder /\ BufferWritten /\ DemotionIsOfThisDevice

-----------------------------------------------------------------------------
(* Why WorkerInv holds while "refill", "split" and "lost" are closed: what   *)
(* the worker's batch is at each place.                                     *)

Prepared == {"empty", "write", "verify"}    \* states of a batch for the KERNAL

PlaceInv ==
    /\ pc \in {"idle", "wait", "peek", "choose", "try", "force"} => state = "idle"
    /\ pc \in Prepared => state = pc
    /\ pc = "length" => state = "write"
    /\ pc = "discard" => state \in {"idle", "discard"}
    /\ state # "discard" => retries < MaxRetries

\* The batch is the head of the queue, or the queue was flushed under it.
BatchInv ==
    /\ consumed = Len(pending)
    /\ Stale => queue = <<>>
    /\ ~Stale => \A i \in 1 .. Len(pending) : pending[i] = queue[i]
    /\ state = "idle" /\ pc \notin {"choose", "try", "force", "discard"} => pending = <<>>
    /\ pc \in {"try", "force"} => Expressible
    /\ state \in Prepared => Typed # {} /\ Len(pending) <= BufferSize

\* Keystrokes are numbered as they are queued.  Those behind the batch are
\* unsent, and those of the batch while it still has to be given to a device.
OrderInv ==
    /\ \A i, j \in 1 .. Len(queue) : i < j => queue[i].id < queue[j].id
    /\ \A i \in 1 .. Len(queue) : queue[i].id <= 2 * events
    /\ \A i \in 1 .. Len(pending) : pending[i].id <= 2 * events
    /\ last \in 0 .. 2 * events
    /\ \A i \in 1 .. Len(queue) : i > consumed => queue[i].id > last
    /\ pc # "discard" /\ state \notin {"verify", "discard"} =>
          \A i \in 1 .. Len(pending) : pending[i].id > last

\* A batch is written into a buffer that was seen empty.
KernalInv ==
    /\ BufferWritten
    /\ state = "write" => kernal = 0
    /\ pc = "length" => cells = Cardinality(Typed)

\* Each negotiation follows a change of the device.
VerdictInv ==
    /\ events \in 0 .. MaxEvents /\ generation <= events
    /\ negotiating => generation < events
    /\ DemotionIsOfThisDevice

IInv == TypeOK /\ PlaceInv /\ BatchInv /\ OrderInv /\ KernalInv /\ VerdictInv

-----------------------------------------------------------------------------
(* Why nothing gets stuck while all windows are closed: for whatever the    *)
(* user no longer holds, its release is still on the way, behind its press. *)

\* A batch that machine:input may still be given.
InHand == pc \in {"choose", "try", "force"}

Queued(i, k, tr) == queue[i].key = k /\ queue[i].tr = tr

\* The release of a key waits behind the batch and is not about to be flushed.
ReleaseQueued(k) == uiPc # "flush" /\ \E j \in 1 .. Len(queue) : j > consumed /\ Queued(j, k, "release")

ReleaseInHand(k) == InHand /\ \E j \in 1 .. Len(pending) : Does(j, k, "release")

AllQueued == \E i \in 1 .. Len(cmds) : cmds[i] = ReleaseAll
AllNow == pc = "command" /\ command = ReleaseAll

LetsGo(cmd, m) == cmd = ReleaseAll \/ cmd = [key |-> m, tr |-> "release"]

\* What is held is held over machine:input, and is let go by it.
HeldByInput ==
    /\ held # {} => device \in Capable
    /\ held \cap Keys # {} => demoted = "no" /\ transport # "legacy"

\* Commands come before the keystrokes that wait, and after the batch in hand.
BatchLetsGo(k) ==
    InHand => \A i \in 1 .. Len(pending) : Does(i, k, "press") =>
       \/ \E j \in 1 .. Len(pending) : j > i /\ Does(j, k, "release")
       \/ ReleaseQueued(k)
       \/ (Stale \/ uiPc = "flush") /\ AllQueued

QueueLetsGo(k) ==
    uiPc # "flush" => \A i \in 1 .. Len(queue) : i > consumed /\ Queued(i, k, "press") =>
       \E j \in 1 .. Len(queue) : j > i /\ Queued(j, k, "release")

MachineLetsGo(k) ==
    k \in held => ReleaseInHand(k) \/ ReleaseQueued(k) \/ AllQueued \/ AllNow

KeysLetGo == \A k \in Keys \ tracked : BatchLetsGo(k) /\ QueueLetsGo(k) /\ MachineLetsGo(k)

CommandLetsGo(m) ==
    pc = "command" /\ command = [key |-> m, tr |-> "press"] => \E j \in 1 .. Len(cmds) : LetsGo(cmds[j], m)

CommandsLetGo(m) ==
    \A i \in 1 .. Len(cmds) : cmds[i] = [key |-> m, tr |-> "press"] =>
       \E j \in 1 .. Len(cmds) : j > i /\ LetsGo(cmds[j], m)

ModifierComesUp(m) ==
    m \in held => \/ \E j \in 1 .. Len(cmds) : LetsGo(cmds[j], m)
                  \/ pc = "command" /\ LetsGo(command, m)

ModifiersLetGo == \A m \in Modifiers \ tracked : CommandLetsGo(m) /\ CommandsLetGo(m) /\ ModifierComesUp(m)

\* A batch is never empty, and one for machine:input meets no legacy transport;
\* releases are queued with keys only.
PathInv ==
    /\ InHand => pending # <<>>
    /\ pc \in {"try", "force"} => transport # "legacy"
    /\ Waiting("release") => \A i \in 1 .. Len(queue) : queue[i].key \in Keys
    /\ (\E i \in 1 .. Len(pending) : pending[i].tr = "release") => Expressible

StuckInv == PathInv /\ (~excused => HeldByInput /\ KeysLetGo /\ ModifiersLetGo)
=============================================================================
