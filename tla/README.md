# A formal model of c64stream

c64stream is an OBS Studio source plugin: it asks a Commodore 64 Ultimate to send its picture and sound
over UDP, puts the packets back in order, shows and records them, follows the colours of the device, sends
keystrokes and machine commands back over REST, plays lists of files on the device, and runs scripts. Two
things in it are hard. One is what happens *between* its threads when the user switches devices, a device does
not answer, a recording is switched, or OBS destroys the source. The other is sequential code whose parts agree only by
convention: a compiler and a virtual machine, a list and what the user sees of it, a file and its header. Both are
modelled here in TLA+, model-checked with TLC, and in part proved with TLAPS.

Paths are relative to `src/src/`, the plugin's sources, unless they start with `doc/` or `tests/`; `README.md` is the repository's own.

1. [The system](#1-the-system)
2. [The modules](#2-the-modules)
3. [The runs](#3-the-runs)
4. [Windows: the schedules the code leaves to chance](#4-windows-the-schedules-the-code-leaves-to-chance)
5. [Fairness](#5-fairness)
6. [Proofs](#6-proofs)
7. [What is not modelled, and the plan](#7-what-is-not-modelled-and-the-plan)

## 1. The system

### Threads

| thread | created by | runs |
|---|---|---|
| OBS UI thread | OBS | `c64_create`, `c64_update`, `c64_destroy`, key and focus callbacks |
| retry worker | `c64_schedule_retry`, one at a time | starts streams, stops previous devices, rebuilds the REST client |
| video and audio receivers | `c64_start_streaming` | socket to stage-1 FIFO |
| video processor | `c64_start_streaming` | drains both FIFOs, network buffer, frame assembly, output; asks for a retry when packets stop |
| injection worker | `c64_keyboard_create` | keystrokes and machine commands |
| palette worker | `c64_palette_follow_start` | asks the device for its palette and applies the answer |
| record writer | start of a video recording | empties the recorder's queue into the files |
| script executor | start of a script | the virtual machine |
| preload thread, automation worker | `c64_automation_*` | build the playlist; play it |

Most of the shared state is neither atomic nor under one common mutex: flags are `os_atomic_*` or plain
`volatile`, and `config_mutex`, `retry_thread_mutex`, the REST client's mutex and the ring mutexes each
protect a part of it.

### Components

| component | state | operations | correct when | modelled by |
|---|---|---|---|---|
| Stage-1 FIFO (`network/c64-network-fifo.h`) | ring of packets, `head`, `tail` | `reset`, `push_tagged`, `peek`, `commit_pop` | no packet lost, torn or duplicated without a lock | `PacketFifo` |
| Retry scheduling (`c64-source.c` 623-746, 1675-1722) | three atomic flags, a thread handle, a latch | `c64_schedule_retry`, `c64_retry_thread_main`, `c64_destroy` | one worker at a time; requests are served; destruction ends and leaves nobody behind | `RetryWorker` |
| Device switch (`c64-source.c`, `device/c64-device-switch.c`) | configured endpoint, recorded transition, queue of devices to stop | `c64_update`, `c64_start_streaming`, `c64_process_previous_device_stops` | no device left streaming but the selected one; that one streams | `StopQueue`, `DeviceSwitch` |
| Ingest filter and cut-over (`network/c64-ingest-filter.h`, `video/c64-video.c`) | expected and handover peer, flush flag, tags of packets | `c64_packet_admit`, `c64_handover_tag`, `c64_handover_should_drop`, `c64_handover_flush` | two devices' pictures never mix; colours change with the picture | `Handover` |
| Network buffer (`network/c64-network-buffer.c`) | two rings of time-stamped slots | push, pop, flush, `set_delay` | packets leave once, in order, after the delay | `ReorderRing` |
| Keyboard (`ui/c64-keyboard.c`, key callbacks in `c64-source.c`) | keystroke and command queues, the worker's batch, held keys | queueing, REST batches, KERNAL fallback, focus, destruction | keystrokes arrive once, in order; no key stays down | `KeyboardWorker` |
| Frame assembly (`video/c64-video.c`) | the frame under assembly, the last one shown, the clock | packets, completion, format, ideal times, output | a picture is of one frame, shown once, at its time | `FrameAssembly`, `Capture` |
| Audio timeline (`audio/*`) | next index, the last sample | late packets, gaps, concealment | no hole in what is recorded, times advance | `AudioTimeline`, `Capture` |
| Recording (`record/*`) | session folder, open files, a bounded queue and its writer, the mixer's snapshot | start and stop of four kinds of recording, segments, headers, measurement program | files only grow, headers are true, the mixer is left as it was | `Recording`, `Capture` |
| A/V sync measurement (`record/c64-record-av-sync.c`) | unmatched pops, pairs | detection, matching, pruning | a pair is of one pop | `AvSync`, `Capture` |
| Palettes (`video/c64-palette*.c`, `device/c64-device-palette.c`, palette handlers of `ui/c64-properties.c`) | the catalogue all sources share, each source's colours, what is known of the device's palette | select, edit, import, export, remove; polls, stream packets, cut-over | an edit goes where its source looks; the colours are the device's, in the end | `PaletteCatalogue`, `PaletteFollow`, `Palette` |
| Automation (`automation/*`, its handlers in `ui/c64-properties.c`) | playlist, song lengths, flags, worker | scan, preload, play, skip, jump, stop, teardown | the list named by the settings is played; a jump is played; nobody reads what was freed | `SongLengths`, `Playlist`, `Automation` |
| Script language (`script/frontend`, `script/vm`) | tokens, tree, byte code, four stacks | parse, compile, run | a script does what its text means | `ScriptParser`, `ScriptCommands`, `ScriptCompiler`, `ScriptVM`, `ScriptReference`, `ScriptText`, `ScriptLanguage` |
| Script execution (`script/runtime`) | executor status, runtime flags, thread | start, pause, step, resume, stop, reload, transport rebuild | a stop ends the script, a pause parks it, the status tells the truth | `ScriptExecutor` |
| Stream control (`network/c64-stream-control.c`) | REST demotion, `device_palette_request_supported` | start and stop over REST or the legacy port | falls back only when REST is not supported | its outcomes appear in `DeviceSwitch` |
| REST client (`network/c64-rest-client.c`) | a curl handle under a mutex, target, password | requests, retarget | one request at a time to the current target | its outcomes appear in `DeviceSwitch`, `KeyboardWorker`, `Palette`, `Capture`, `Automation` |
| Device registry and scan (`device/c64-device.c`, `-scan.c`) | known devices | scan, merge | no device twice | not modelled |
| Effects, colours, logo, properties, protocol bytes, sockets | | | | not modelled: arithmetic, drawing and I/O |

### How they interact on a switch

`c64_update` (UI thread) records the device to leave (`device_transition`), writes `ip_address`, opens the
handover (`expected_peer_ip`, `handover_peer_ip`), arms the palette cut-over, and schedules a retry. The
retry worker starts the new device, and only then queues and stops the one before (make before break).
Meanwhile both devices send: the receivers admit packets of both, tag those of the previous one, and the
first packet of the new device asks the processor to flush stage 2 and to drop tagged packets behind it.
Three modules each take one of these parts: `RetryWorker` (is the worker there?), `DeviceSwitch` (whom does
it start and stop?), `Handover` (what is shown?). They meet at few places: `DeviceSwitch` uses a flag for
what `RetryWorker` guarantees, and `Handover` a sequence for what `PacketFifo` guarantees.

`Capture` begins where `ReorderRing` ends: with the packets that leave the network buffer, some lost and some late. It
composes assembly, audio timeline, recorder and measurement, since what is shown, heard and
written must agree. `Palette` composes what `Handover` only counts as a colour: the catalogue, the dialog, and the worker that
follows the device. `ScriptExecutor` takes the thread around the virtual machine, `ScriptLanguage` the machine itself.

## 2. The modules

An `MC*` module only instantiates a component's module for TLC (`ScriptExecutor` needs none: its configuration says it all); a `*Proof` module holds its theorems.
Definitions marked `Mutant` are never part of a specification: each is a plausible bug in one
definition, kept beside it to show that a property notices it.

**`BoundedQueue`**, **`DelayQueue`** are abstract specifications: what a FIFO and a delay buffer promise.

**`PacketFifo`** (`network/c64-network-fifo.h`). `entries`, `head`, `tail` as in the code, with two threads
around them: a push is `PushBegin` (test for room), two stores that fill the slot (`header`, `payload`),
and the publication of `head`; a drain copies the slot in two loads and commits `tail`. `Restart` is the
reset between two sessions, after both threads were joined. A slot's fields are two halves, so that a
torn packet is one whose halves differ. Proved to implement `BoundedQueue`.

**`RetryWorker`** (`c64-source.c`). One action per atomic access of `c64_schedule_retry` in two callers
(the UI thread and the video processor), of `c64_retry_thread_main` and of `c64_destroy`. An attempt is
reduced to what the protocol depends on: it joins and recreates the processor thread, itself a caller.
The freed context is the state `destroyPc = "freed"`.

**`StopQueue`**, **`DeviceSwitch`** (`device/c64-device-switch.c`, `c64-source.c`). The stop queue as pure
operators, and around it `c64_update`, the worker's rounds (take the transition, start, scan the queue,
send a stop, yield to newer requests, give up after `MaxAttempts`) and the devices themselves: which
stream to this source, which answer. Streams are controlled over REST, whose client has a target of its own,
or over the legacy port (`transport`, chosen in the initial state). `c64_start_streaming` has its steps and its failing returns: the device
does not answer (`StartUnreachable`), a destination cannot be named (`DestFails`), a command is refused or a thread not created
(`StartFails`, the ones that stop the device again), the sockets cannot be created (`SocketsFail`, which tells the device nothing
and may leave `udp_port_conflict` set, so that the worker stops repeating).

**`Handover`**. The expected and the handover peer, the flush flag, the palette cut-over with its mark, two
receive threads that admit, flush, tag and push a packet in steps, and a processor that drains both FIFOs.
A packet is reduced to its sender and two tags, and stage 2 to the set of senders whose packets it holds.

**`ReorderRing`**. Slots with indices, swaps of payload buffers and the bounded backward search of `rb_push`,
with wrap-around of ring and sequence numbers; `c64_network_buffer_set_delay` in its two critical sections.
A packet's time stamp is its age in ticks. Of the payload buffers one is traced, chosen in the initial state: as
the code treats all alike, that the traced one is in exactly one slot says so of each.

**`KeyboardWorker`**. The two queues under one mutex, the callbacks that fill and flush them, and the worker
between two requests. The machine is reduced to the keys held down on it, the fill of its KERNAL buffer and
the last keystroke it was given. Keystrokes carry the number of the event that queued them.

**`FrameAssembly`**, **`AudioTimeline`**, **`AvSync`**, **`Recording`**, **`Capture`**. The first four are operators on records,
one per function of the code: a strip of a picture is the frame it came from, a chunk of a file what it holds, a header
what it claims. `Capture` has the threads: the processor with its locked sections, the UI thread that changes
the recordings and destroys the source, the writer, the retry worker that sets a device's mixer, and the detached threads that
start and reset the measurement's program. `owed` is what the files are due; the disk, the network and the devices' mixers
are variables. A packet of sound has the time of its index in packets of the format seen last (`SoundTime`), so a change of format gives every index
another time. A WAV header says at most `MaxWav` (`InHeader`).

**`PaletteCatalogue`**, **`PaletteFollow`**, **`Palette`**. Operators on the catalogue (a sorted list, the index of the active entry, the
working copy) and on what `palette_mutex` guards; around them the handlers of the dialog on the UI thread,
`c64_update` on the graphics thread, the follow worker's poll in its steps, and the stream's packets, in two: the sender is tested without a
lock (`AdmitPalette`), the colours are taken under `palette_mutex` (`TakePalette`); `recv` is the packet between them. Two sources share the
catalogue; one of them follows a device. A handler may run while the update it or another asked OBS for is still to come (`pending`).

**`SongLengths`**, **`Playlist`**, **`Automation`**. The walk over folders that links join into loops, the window of the list shown by the
dropdown, the table of song lengths and its two BCD bytes; around them UI thread, preload thread and worker. `auto`, `client` and
`alloc` say whether the object, the REST client and the list's memory are alive. The song lengths are loaded by whoever asks first, UI
or worker, in steps: the test that finds none and the reading (`ReadLengths`), the freeing of the old entries (`FreeLengths`) and the
store of the new ones (`StoreTable`); `loads` is what each of the two has read, `dangling` that the entries are freed and not yet replaced.
A local file may be unreadable any number of times.

**`ScriptParser`**, **`ScriptCompiler`**, **`ScriptVM`**, **`ScriptCommands`** follow the code: a Pratt parser and recursive descent over
tokens, one pass with labels and patches, and one instruction a step on four stacks. `ScriptCommands` holds, for each
command, the operands that the compiler pushes and those that the dispatcher pops: tables from different files that must
agree. **`ScriptReference`** (what a tree means) and **`ScriptText`** (how a tree is written) come
from the language's specification and grammar in `doc/c64script/`, and share nothing with the rest but the operators on values and the names
of tokens. **`ScriptLanguage`** puts them together: a text is parsed, compiled and run, and must yield the tree it was
written from and the effects it means.

**`ScriptExecutor`**. Executor, runtime flags and the loop of the virtual machine at the grain of a source line, with the buttons of
the properties, the transport rebuild of the retry thread, the status monitor, and destruction.

`Handover`, `DeviceSwitch` and `KeyboardWorker` model what happens outside the plugin (devices, KERNAL) only
as far as the code observes it.

### Correspondence of state

Variables keep the names of the fields (`retry_in_progress`, `device_transition_pending`,
`handover_flush_pending`, `palette_cutover_marked`, ...). Program counters (`uiPc`, `workerPc`, `recvPc`,
`callPc`, `destroyPc`, `pc`) stand between two accesses to shared state. History variables, which no code
reads, are `dropped_full` (a statistic in the code), `unserved`, `lost`, `arrived`, `timedOut`, `last`,
`excused`, `asked`, `fault`, `had`, `owed` and `stray`. Bounds on what the environment does are variables that count down
(`left`, `ops`, `fails`), each tested in a guard. `Capture` and `Palette` choose a *scene* in the initial state: a budget for each
kind of event, so that each behaviour is about a few things and all of them are checked in one run. `PROJECT.json` maps each definition to its source lines.

## 3. The runs

| run | module | bounds | shows |
|---|---|---|---|
| `packet_fifo` | `PacketFifo` | 3 slots, 2 packets, 1 counted refusal | no torn packet; refinement of `BoundedQueue`; `IInv` is an invariant |
| `retry_worker` | `RetryWorker` | none: the protocol is finite | one owner of the slot; no stray worker, no use after free; `c64_destroy` ends; a request that leaves the slot owned is followed by an attempt |
| `retry_worker_lost` | `RetryWorker` | none | **violated** `SettingsChangeServed`, see below |
| `device_switch` | `DeviceSwitch` | 3 devices, queue of 2, 2 attempts, 3 settings changes, 1 fault (a refused command, a socket, a destination or a thread that fails) | `SwitchInv`: only the selected device is left streaming, no duplicates in the queue; no stop follows a start; the selected device streams in the end |
| `handover` | `Handover` | 2 devices, FIFOs of 2, 2 switches; orderly, or with `again`, `closed` and `stopped` | nothing of the previous device after the cut-over; if switches are orderly, one device in stage 2 (`StageInv`) and colours that follow the picture |
| `reorder_ring` | `ReorderRing` | 5 slots, numbers modulo 4, 3 packets around the wrap, search depth 2, delays 0 to 2, 1 change | refinement of `DelayQueue`; no hole, no shared payload (`RingInv`); the oldest packet leaves |
| `keyboard` | `KeyboardWorker` | 3 keystrokes in the queue and in a REST batch, 2 in a KERNAL batch, 2 commands, 3 events, 1 failed request | keystrokes once and in order, a batch discarded whole, a verdict of this device (`WorkerInv`); nothing stuck; the queues drain; destruction ends |
| `script_executor` | `ScriptExecutor` | a script of 2 lines; the threads are finite | the status agrees with the thread, the runtime outlives its users, waits are honoured unless stepping (`ExecutorInv`); a stop ends the script, a pause parks it, a resume runs it (`PauseObeyed`) |
| `script_language` | `ScriptLanguage` | families of trees: each command with each choice of clauses, pairs of operators, nested blocks, jumps, functions, arrays, maps, run-time errors; token sequences that need not be scripts; 3 errors, 4 labels, stacks of 2 to 6, 5-bit integers | the tree that was written is parsed back, and what is accepted is grammatical (`ParsesAsWritten`); variables and effects are what the tree means, errors where the meaning has them (`RunsAsWritten`); a run ends |
| `automation` | `Automation` | a tree of 5 folders with two loops and a locked one, lists of 3, depth 2, 3 user actions, any number of failed reads, ticks of 6000 s | the list is the one its settings name, no file twice, no use after free, the view shows what plays, a tune's length fits (`AutomationInv`); it starts on a list for the settings of the moment; a jump is played; the threads return, the worker by itself if files can be read in the end |
| `capture` | `Capture` | frame numbers modulo 8 from 6, sound modulo 16, 1 or 2 strips, segments of 2 frames, queue of 2, WAV headers of up to 3 packets, 2 pops, 2 devices; 9 scenes | pictures of one frame, at the time of their number; splices meet; sound without holes; pairs of one pop (`MediaInv`); true headers, one format a file, nothing lost unreported; the session is the recordings'; the mixer as it was (`RecorderInv`); files only grow; times advance; calls return |
| `palette` | `Palette` | 2 sources, 2 devices, 8 palettes of 2 colours, memory of 2, generations modulo 4, file versions 0 to 2; 11 scenes | list, files, dialog and sources agree, no preset changes, nothing filed under another device (`PaletteInv`); an edit goes into the palette its source shows; a source that follows ends up with its device's palette and says so |

The larger invariants are conjunctions of named parts, each with a comment of its own where it is defined; the first part is the type
invariant.

Why the bounds are enough.

* The FIFO needs a full ring and a wrap of both indices: three slots have both. In the retry protocol nothing is bounded.
* The device switch needs a device left, passed and returned to (three
settings changes, of three devices), a queue that overflows and attempts that run out (both at two). The
handover needs a second switch (there and back) and a FIFO that refuses (two packets).
* The search of the reorder ring never looks at the oldest packet, so only a ring of five slots, with three packets in it, lets a
new one be shifted by one place and also be turned back by the end of the search; the numbers wrap among three packets.
* The keyboard needs a press, a release and one event that disturbs them, and a batch longer than the KERNAL takes.
* A stepped script needs a line to step to after the first.
* The language's operands are checked with answers of the device that show which operand was which; a constant bound (labels, stacks,
errors) is small enough for a script to reach it. Integers of five bits wrap like those of 32.
* The automation's list fills, its walk meets a loop, a locked folder and the depth limit, and the dropdown has a second page. A
tick is so long that the longest song ends in one or two.
* The capture starts two numbers before the wrap, so that a picture, a late packet and a lost stretch cross it; a segment
of two frames rolls and a queue of two overflows. PAL has one strip more than NTSC, which is what tells them apart;
a packet of sound is longer in NTSC, a picture in PAL, as in the code.
* The palette's memory is smaller than the palettes that were seen, and a file can be overwritten in place (version 2 has another
size, versions 0 and 1 the same).

`CHECK_DEADLOCK FALSE` is set where the system really stops: after destruction, or when every bound is used up.

### What the violated run shows

* `retry_worker_lost`: a scheduler reads `retry_thread_active` as 1; the worker releases the slot, looks at
  `retry_requested` a last time and returns; then the scheduler sets `retry_requested`. Nobody looks at it until
  something else schedules a retry, although the comment promises that a settings change "is never lost".
  `OwnedRequestServed`, which holds, is what remains: a request made while an owner is still to look is served.

### Facts met on the way

These follow from the code and were seen in counterexamples or while modelling; no run is about them.

* Device switch: a change of the control port alone is a switch from a host to itself under another port, and the queue compares
  host and port: its stop follows its own new start.
* Reorder ring: the backward search stops at the oldest slot without comparing with it; a packet that belongs between the oldest and
  the rest is appended at the end.
* Frames: only a packet of another frame ends a frame, so the last frame of a stream is never shown, nor a first frame whose number is 0;
  a jump of half the frame numbers breaks the times. Frames that are missing are not filled into the AVI, while the WAV is filled, though
  `audio/c64-audio-timeline.h` speaks of both. A cut-over does not reset the timeline.
* Measurement: without debug logging no pop is seen in a picture.
* Script executor: a script thread that ends by itself is never joined. A parser that stands at a `THEN` of its own line is moved by
  nothing but its error limit. Accepted though the grammar has them not: `IF 1 THEN` at the end of the text, `PRINT 1 PRINT 2`
  on a line, `GOTO THEN`; and an `ELSE` at the end of a line takes the next line's statement.
* Automation: a worker that ended by itself is never joined. `README.md` 619 says a reset follows each item; it does not follow one that
  was skipped or a disk. A file that cannot be read is tried again without end (`automation/c64-automation.c` 437-439).
* Palettes: an export to a place outside the catalogue keeps the old path; of two ids that differ by case the second is written and not
  listed; `PALETTECOLOR` sets settings that nothing reads (`script/vm/c64-script-vm-dispatch-effects.c` 191, against
  `doc/c64script/c64script-spec.md` 506).

## 4. Windows: the schedules the code leaves to chance

Some races break several properties at once, and a run stops at the first. The modules therefore name the places
where the code relies on not being interrupted; a passing run keeps them closed, and everything else interleaves
freely. They are hypotheses, and part of the result: **outside** these windows the properties hold.

| module | window | in the code | opening it |
|---|---|---|---|
| `DeviceSwitch` | `flags` | between the test at `c64-source.c` 2137 and the write of `ip_address` | `NoStrandedDevice`: the worker raises the flag that `c64_update` has just read, and starts the device it is about to leave: nobody stops it |
| | `record` | `device_transition_pending` is set before `ip_address` is written | the worker restarts the old device and cancels its stop |
| | `schedule` | configuration written, retry not yet asked for | over the legacy port, a scan can drop the stop of a device passed through on the way back |
| | `local` | a switch whose sockets cannot be created (2576-2582), also after video was accepted (2534-2540), or that cannot name its destination with no receiver running (2516-2523): `false` without an abort, against the comment "Never leave the device streaming" at 2715-2716 | `NoStrandedDevice`: the new device sends to a source that does not stream, and the next change of the device does not record it |
| | `start` | the worker has looked for a transition and not yet read the endpoint | the start runs under a stale record, or (REST) goes to the client's previous target |
| `Handover` | `update` | a receiver runs between the writes of `c64_update` | `ColorsFollowPicture`: a packet shown in the old colours |
| | `queued` | packets of the old device wait when the switch begins | `NoPacketAfterCutOver`: such packets carry no tag, and follow the new device's first |
| | `again` | a switch before the last was cut over | `OneDeviceInStage2`, `ColorsFollowPicture` |
| | `closed` | the handover is closed before the new device's first packet | `OneDeviceInStage2` |
| | `stopped` | a switch while no receiver runs | `OneDeviceInStage2`: audio of the old device waits in the network buffer |
| `KeyboardWorker` | `release` | focus lost while a release waits | `NothingStuck`: the press is in the worker's batch, the tracker empty, and the flush removes the waiting release |
| | `focus` | a batch is taken between the release of everything and the flush | `NothingStuck`: press after release |
| | `joystick` | joystick mode left while a press waits | `NothingStuck`: the tracker is cleared before the press is sent |
| | `refill` | keys queued after a flush, under an old batch | `DiscardsItsBatch`: keystrokes discarded that nobody sent |
| | `transport` | transport changed to legacy while a key is held | `NothingStuck`: legacy input drops releases |
| | `mixed` | a code without a key in one batch with a release | `NothingStuck`: the whole batch goes to the KERNAL |
| | `tracker` | a modifier pressed with 16 keys already down | `NothingStuck`: pressed and not tracked |
| | `split` | the device changes between the two writes to the KERNAL buffer | `BufferWritten` |
| | `lost` | the length is written and the answer lost | `SentOnceInOrder`: the batch is typed twice |
| `ScriptExecutor` | `early` | stopped before the thread has started | `StopEnds`: the thread clears `should_stop` as it begins |
| | `resume` | resumed between the test of `should_pause` and the pause | `PauseObeyed`: paused with status RUNNING |
| | `step` | resumed before the line of a step was executed | `RunningHonoursWaits`: every later WAIT is skipped |
| | `oneline` | a loop on one source line | `PauseObeyed`: the machine pauses at a new line only |
| | `reload` | a broken file is validated while the script runs | `StatusAgrees` |
| | `restart` | started while the retry thread stops the previous run | `StatusAgrees` |
| | `stops` | both threads stop at once | two threads join one |
| | `rebuild` | started while the retry thread replaces the client | `RuntimeInUse`: the script holds a freed client |
| | `rerun` | the monitor runs while a script is started again | `EndIsOfThisRun` |
| `Automation` | `publish` | an item's pointer is read after the unlock, while a preload publishes (`automation/c64-automation-playlist.c` 748, `-automation.c` 113-136) | `AutomationInv`: use after free |
| | `clear` | the UI clears the list without the lock while a preload runs | `AutomationInv` |
| | `lengths` | the UI unloads the song lengths while the worker loads them or looks one up | `AutomationInv` |
| | `load` | UI and worker both find no song lengths and both load them, without a lock (`automation/c64-automation.c` 162-212, `-hvsc.c` 434-437) | `AutomationInv`: the second frees the table the first looks up in |
| | `ended` | the source is destroyed just as the worker ends by itself (637-640, 689-706) | `AutomationInv`: it reads the freed automation |
| | `rebuild` | the REST client is replaced under the worker (`c64-source.c` 142-153) | `AutomationInv` |
| | `jump` | a jump between the worker's test of the flag and its write of `current_index` (359, 584-626), also after a file that could not be read (435-440) | `JumpIsPlayed`: lost |
| | `elapsed` | a jump in the last interval of an item (583-601) | `JumpIsPlayed`: the next entry is skipped |
| | `ghost` | the dropdown's stored choice is older than what plays (`ui/c64-properties.c` 1509) | `JumpIsPlayed`: a refresh jumps back |
| | `back` | the playing item is chosen while a jump waits (605-609) | `JumpIsPlayed` |
| `Capture` | `reuse` | recording off and on in a session that another recording keeps (`record/c64-record.c` 796-803, against `README.md` 404) | `FilesOnlyGrow`: the files, also those of the network's CSV, are opened for writing from the start |
| | `second` | two sessions in one second | `FilesOnlyGrow`: one folder |
| | `rollfail` | a next segment cannot be opened | `RecorderInv`: picture stops, sound and session stay |
| | `latestop` | `video_file` is tested without the lock (`record/c64-record-video.c` 279-327) | `RecorderInv`: a segment nobody closes |
| | `diskfull` | a chunk cannot be written | `RecorderInv`: the header counts it |
| | `bmp` | a frame is saved without the lock (`record/c64-record-frames.c` 18-66) | `RecorderInv`: outside its session |
| | `mixer` | the retry worker sets 0 dB between the UI's restore and the end of the measurement | `RecorderInv`: the mixer stays at 0 dB |
| | `avfail`, `mixerfail` | the measurement's file cannot be opened; the restore's request fails | `RecorderInv`: the mixer stays at 0 dB |
| | `device` | the device changes while measuring | `RecorderInv`: the snapshot of one is written to the other |
| | `jobs`, `jobfail` | starting and resetting the program are two detached threads (`record/c64-record.c` 360-381) | `RecorderInv`: the program runs on |
| | `format` | the format changes within a stream (`video/c64-video.c` 1485-1519) | `TimesAdvance`: the index times another interval goes back, that of the picture when PAL becomes NTSC, against the comments at `video/c64-video.c` 572, 1238-1241, and that of the sound, whose interval is 4,005,005 ns in NTSC and 4,001,416 ns in PAL (`audio/c64-audio.c` 218-238), when NTSC becomes PAL, some 1,100 packets after the start or later |
| | `leftover` | the source is destroyed while it measures: `c64_record_cleanup` resets no machine (`record/c64-record.c` 956-999) | `RecorderInv`: the program runs on |
| | `collide` | packets lost until the same frame number comes again | `MediaInv`: a picture of two frames |
| `Palette` | `two` | two files are gone (`video/c64-palette.c` 112-180) | `EditsStayHome`: the id read through a pointer into the shifted array is another's |
| | `drop` | validation sorts the list | `PaletteInv`: the active index names another palette |
| | `reset` | another source's active palette is gone when a dialog opens | `EditsStayHome`: this source falls back to Default |
| | `shared` | another source is updated while a dialog is open (`ui/c64-properties.c` 3753-3766) | `PaletteInv`: an edit is saved into the wrong palette |
| | `tick` | `c64_update` between two steps of a save (`video/c64-palette.c` 1251-1257) | `PaletteInv` |
| | `preset` | an export over a shipped id (against `README.md` 548) | `PaletteInv`: the preset changes in memory |
| | `disk` | a file cannot be written | `PaletteInv`: the edit is in no file |
| | `script` | `PALETTE` of a script sets the id only (against `README.md` 687) | `PaletteInv`: the old colours are stored |
| | `hasty` | an edit or a removal comes after an export, before the update that selects the source's palette again (`ui/c64-properties.c` 3597, 3753-3766; `video/c64-palette.c` 519-520) | `EditsStayHome`: it is saved into the exported palette |
| | `away` | a palette's file is removed while the properties are open, and the palette chosen before it was ever read (`ui/c64-properties.c` 3437-3439) | `PaletteInv`: the settings name one palette, the editor edits another |
| | `packet` | a palette packet whose sender was tested before the update of the host is taken after it (`video/c64-video.c` 1033-1034, 1109-1110, 1143-1153; `c64-source.c` 2200-2222; nothing tests again, as 1192-1196 does for pictures) | `PaletteInv`: filed under the new device |
| | `half` | a poll between new id and new host (`c64-source.c` 2004-2010, 2211-2221) | `PaletteInv`, `FollowsDevice`: filed under the wrong device |
| | `slow` | a poll longer than the 5 s for which a stream's palette is fresh | `FollowsDevice`: the stream's colours stay |
| | `rest` | REST comes back before the worker has shown the colours for none | `FollowsDevice`: likewise |

Each line was found by model checking with that window open. `handover` opens three of its windows in half of its
behaviours and states what still holds there.

## 5. Fairness

* `RetryWorker`: every thread that has begun an operation goes on; `pthread_mutex_lock` is granted if the mutex is
  free again and again (strong fairness of the two lock actions only). Nobody is obliged to schedule or to destroy.
  The worker sleeps in slices and tests the latch after each (`c64-source.c` 650), so its wait needs nobody to end.
* `DeviceSwitch`: `c64_update` and the worker go on, a device that was started sends its first packet, the hold time
  passes, and the processor notices that packets stopped. `SelectedStreams` assumes that from some time on every
  device answers, and that settings changes and faults (a refused command, a failed socket) come to an end: both are bounded. A
  port in use is not such a fault: the worker gives up until the user changes the ports, and the property says so.
* `ReorderRing`: time passes and the processor keeps popping (it polls).
* `KeyboardWorker`: a callback that began ends, and the worker goes on, because every REST request has a timeout. No
  fairness for the user, nor for the KERNAL: a program may never read its buffer.
* `ScriptExecutor`: a handler of the UI or the retry thread that began goes on, and the virtual machine executes its next
  line. Nobody has to press a button, nor must the monitor look.
* `ScriptLanguage`: the machine executes its next instruction. `RunEnds` is about scripts whose meaning ends.
* `Automation`: UI handlers, preload and worker go on; the worker's sleep is bounded. Nobody has to click. A UI handler that has to
  wait only because a window is closed gets its turn (strong fairness: in the code nothing makes it wait, while the worker may come by the
  window again and again). `ThreadsReturn` has two parts. Every handler returns, also a stop or a destruction that joins a worker which
  tries an unreadable file for ever: it looks at `should_stop` before each try. That the worker ends by itself is claimed only if from some
  time on no read fails (`<>[][~WLoadFails]_vars`): the code itself does not give up.
* `Capture`: the processor, a UI handler that began, the writer, the retry worker's mixer step and the detached jobs go on; packets need not
  come.
* `Palette`: in the scenes with a follower, UI handlers, `c64_update`, the stream's start and first packet, the packet the receiver is at, the worker's poll, and
  the passing of the freshness, of the grace and of the settling time. In the others nothing is fair, as nothing is promised to
  happen.

The runs that only check safety use `Spec`, without fairness.

## 6. Proofs

TLC checks the instances above; the theorems hold for every value of the constants: any number of devices, scripts,
slots, packets, settings changes and faults. They rest on the assumptions on the constants, which TLC evaluates in the
runs, and, where it is said, on windows of section 4 being closed (`ASSUME` in the theorem): with such a window open
the property, or the invariant its proof rests on, is false. Each inductive invariant was checked by TLC on the run's instance before it was proved.

**`PacketFifoProof`** (`CapacityAssumption`: at least two slots).

* `TypeCorrect`, `RingInvariant`: `TypeOK` and `IInv` are invariants. `NoTornPacket` is not inductive: that a copy is
  whole depends on what the slot held when the copy began, that on the slot staying published while it is copied,
  and that on the producer never writing a published slot. `IInv` says each of these: every published slot is whole
  (`PublishedWhole`), the producer that found room still has it whatever the consumer did since
  (`ProducerHasRoom`), the slot at `head` holds what was stored so far (`ProducerProgress`), and the slot at `tail`
  is the one being copied (`ConsumerProgress`). The proof has one step per action.
* `WholePacketsOnly`: the corollary for `NoTornPacket`.
* `FifoImplementsQueue`: `Spec => Queue!Spec`, with the contents between `tail` and `head` as the abstract queue.
  `PushPublish` appends, the first commit removes the head, a push that finds no room is a refusal of a full queue
  (`Full`), and every other step stutters. The lemmas `SuccIndex` to `Full` are the arithmetic modulo the capacity.

**`RetryWorkerProof`** (`CreateAssumption`).

* `TypeCorrect`, `ProtocolInvariant`. None of the three safety properties is inductive, since ownership of the slot is
  nowhere recorded: it follows from where each thread stands. `IInv` adds who holds the mutex, when a handle is
  stored and when no worker can exist (`HandleInv`), that the flag is set exactly while someone owns the slot, and by
  one owner only, except in the moment when destruction has cleared it under a caller about to give up (`SlotInv`),
  and who may have marked an attempt as running (`ProgressInv`).
* `OneSlotOwner`, `ProgressAlwaysFree`, `FreedIsUnused`, `NoStrayWorkerIsCreated` follow: the last is an action
  property, proved from the invariant for the one action that creates a thread.

**`DeviceSwitchProof`** (`DeviceAssumption`; `Windows = {}`; any number of devices, any queue, any number of attempts).

* `NoneStranded`: `SwitchInv` is an invariant. That no device is left streaming says where the *selected* device is,
  and is silent about how a device that sends got there, so it is not inductive. `IInv` (at the end of `DeviceSwitch`)
  says where each sender is found: it is the selected device, or it is parked, that is, given up on, or waiting for its
  stop in the queue or in the recorded transition (`SendersKnown`). The selected device itself may be parked, and must
  be before `c64_update` may overwrite it without recording it (`SelectedMayGo`, `SelectedParked`,
  `FailedStartSilent`). The rest ties the worker to what it serves: while nothing newer is asked for, `started` is the
  configured endpoint, and a start that
  has its sockets only now serves a source that does not stream (`NothingNewer`, `ServesOne`; a start that fails there, the window
  `local`, leaves a sender that is neither selected nor parked); what `c64_update` decided stays true until it has done it
  (`UpdateOnCourse`); the REST client talks to the selected device or a later step retargets it (`ClientFollows`); a
  recorded transition is taken by a repeat that is already due (`TransitionTaken`). The lemmas about the queue of stops
  (appending, removing, no duplicates, hosts) come first; then one lemma for each conjunct.
* `StopNeverLast`: the action property `NoStopAfterStart`, from the same invariant, if all devices have the same
  control port. With two ports the property is not meant: a change of the port alone makes the old endpoint a previous
  device, and its stop reaches the host that was just started again.

**`HandoverProof`** (`ClosedWindows`: `update` and `queued` are closed in every window set; `again`, `closed` and
`stopped` may be open).

* `TypeCorrect`, without a hypothesis about windows. `NothingAfterCutOver`: once the cut-over has begun no packet of
  the previous device is added to stage 2, also if a handover is begun twice, closed early or begun while no receiver
  runs. `FilterInv` is its reason: what waits in the FIFOs and is not of the selected device carries the handover's tag,
  and a packet of the selected device goes on only after the handover was closed.
* `OneDeviceAtATime`, `ColorsComeWithThePicture`: `StageInv` and `ColorsFollowPicture`, both about orderly switches. In
  those every packet on its way is of the selected or the previous device, and stage 2 is the previous device's until
  the flush and the selected device's after it (`OrderInv`); the mark for the new colours is on the selected device's
  first packet in the FIFO, or still to be given (`ColorInv`).

**`ReorderRingProof`** (`RingAssumption`; no other hypothesis).

* `RingInvariant`: `RingInv` is an invariant, stated for the proof slot by slot, without cardinalities: a slot is valid
  exactly if it is between tail and head (`Valids`), and one slot, whichever, refers to the traced payload buffer
  (`Payloads`). The work is in `rb_push`, whose search may move any number of slots around the end of the ring
  (`ShiftIsShort`, `Swapped`, `PushKeepsValids`, `PushKeepsPayloads`).
* `RingImplementsQueue`: `Spec => Queue!Spec`. The i-th packet of the queue is in the i-th slot from tail. Sorted insertion
  is an arrival behind a packet it may follow and ahead of all it precedes (`ShiftIsInOrder`, `PushedPlaces`), a pop
  takes the head, a trim discards the oldest or stutters (`FirstOnesGo`), the stamp releases, time ages (`AgesChange`),
  and a change of the delay is one whether or not the worker of the UI still has to trim. The lemmas on least and greatest
  numbers (`Min` and `Max` of the community modules) are proved from well-founded induction over the naturals.

**`ScriptExecutorProof`** (`Quiet`: the windows `step`, `reload`, `restart`, `rebuild` and `rerun` are closed; `early`,
`resume`, `oneline` and `stops` may be open).

* `ExecutorInvariant`: `ExecutorInv` is an invariant. It is strengthened by who may run the script's thread (`WhoRuns`),
  that the runtime an executor was given is the current one (`FreshRuntime`), what the monitor has seen (`MonitorInv`) and what a step
  has left behind (`StepInv`); each conjunct has a lemma, with one case per operation.

**`KeyboardWorkerProof`** (`Steady`: the windows `refill`, `split` and `lost` are closed; `focus`, `release`, `joystick`,
`transport`, `mixed` and `tracker` may be open, which concern what is held and not what is sent; the second theorem closes all nine).

* `WorkerInvariant`: `WorkerInv` is an invariant. "Once and in order" speaks of the moment before a batch is given to a
  device, and is not inductive: it rests on where the batch came from. `IInv` (at the end of `KeyboardWorker`) says that
  the batch is the head of the queue, or the queue was flushed under it and is still empty (`BatchInv`; this is what
  `refill` breaks); that keystrokes are numbered as they were queued and those behind the batch are unsent, as are those
  of the batch until it was given (`OrderInv`; a write whose answer was `lost` breaks it); which batch each state of the
  legacy path works on and that its retries are not used up (`PlaceInv`); that a batch for the KERNAL is written into a
  buffer seen empty on the same device (`KernalInv`; `split` breaks it); and that each negotiation follows a change of
  the device (`VerdictInv`). One lemma for each conjunct, from lemmas on the parts of a sequence that queueing, peeking,
  cutting and discarding take.
* `NothingGetsStuck`: `NothingStuck` is an invariant while all nine windows are closed (`AllClosed`). TLC finds a key left down
  with each of `focus`, `release`, `joystick`, `transport`, `mixed` and `tracker` open; the other three are what `WorkerInvariant`
  needs. `NothingStuck` speaks of the moment when the queues are empty, so `StuckInv` (at the end of `KeyboardWorker`) says of every
  other moment why the key will come up: a key the user no longer holds has its release behind its press in the batch in hand, or
  waiting behind the batch, or a release of everything waits as a command (`BatchLetsGo`, `QueueLetsGo`, `MachineLetsGo`). The
  order matters, since commands overtake the keystrokes that wait but not the batch in hand: a release of everything
  counts for a press of the batch only once the queue under it is flushed. Modifiers and joystick
  directions travel as commands only (`ModifiersLetGo`). What is held is held on a device that has machine:input, by a worker
  that has not fallen back to the KERNAL, which knows no release (`HeldByInput`); and a code for the KERNAL alone never shares a
  queue with a release (`PathInv`). Beyond the sizes of the buffers it assumes that no key that is held by keystroke is also a
  modifier held by command: `petscii_to_matrix` names none of the keys of `c64_positional_modifier_input`. One
  lemma for each kind of step and each of keys and modifiers. It excuses what a failed request lost or a full queue refused, as the run does.

**`CaptureProof`** (`RecorderAssumption`; `ClosedWindows`: the windows of `Capture` are closed, but for `format` and `collide`,
which concern pictures and times and may be open). Any devices, any queue, segment and header period, any scene, strips, modulus
and number of faults that are left, so that sessions, files and writer may still fail to start.

* `RecorderKeepsItsInvariant`: `IInv`, at the end of `Capture`, is an invariant. `RecorderInv` is not inductive, since most of it
  speaks of the pauses between calls: that a file is finished, that the session is gone, that the mixer is restored, all "once
  the call is over". `IInv` says what holds at every step of every thread:
  * `ShapeInv`, `LockInv`: the shapes, and where the holder of `recording_mutex` stands;
  * `DiskInv`: each handle names a file of the session that is still growing, and a file that is not open is finished or empty;
    a segment after the first exists only once the first is finished;
  * `WriterInv`: the writer runs exactly while both files are open, and all it has yet to write is of the open segment's format;
  * `CountInv`, `ContentInv`: the counted frames are those written and those under way, none beyond the segment's
    limit; the header on disk is that of the last period, and that of a finished file counts what the file holds, as far as it can say;
  * `SwitchInv`, `SessionInv`: which recordings have been switched on or off, and which files that has opened, at every step of
    `c64_record_update_settings`; a session with no recording is on the way to its end;
  * `NoReuseInv`: a recording about to begin has no finished file in its session;
  * `RollInv`: the processor rolls a segment only while the recording is open;
  * `MachineInv`: a mixer that is not the user's has its snapshot, and a program that will run on a device will be reset.
* `RecorderIsCorrect` and `FilesOnlyEverGrow` are `RecorderInv` and the action property `FilesOnlyGrow`: the second is proved together
  with the invariant, as each action's lemma also says that the disk `Grows`.

The proof goes from the operators on a recorder (what `Open`, `Finish`, `StartVideo`, `RollSegment` ... change and leave, `OpenSays`
to `StopRecord`), over the parts of the invariant that are about the recorder alone and that each of them keeps (`...Record`), to one
lemma for each action (`...Step`) and their union (`NextStep`). Two things came to light in it. `Reuses` looked only at the first of the two CSV files: the
network's may be finished in the session while that of OBS never was, and was then emptied in a behaviour that the
window `reuse` should have excluded. And `SwitchInv` has to follow the two CSV files apart, since one may fail to open.

Model-checked only: of `Capture`, what OBS is shown and what is measured (`MediaInv`, `TimesAdvance`);
`Automation` and `Palette`; and every liveness property. The modules of the script language use recursive
operators and stay with TLC. Liveness under fairness and `ENABLED`, and induction over data, are outside what the installed provers do.

## 7. What is not modelled, and the plan

Left out of the modelled components:

* `DeviceSwitch`: failover to an alias address, adoption of a rejected sender, DNS refresh; changes of settings that are neither the
  device's address nor a UDP port. A start's two commands, video
  and audio, are steps of their own; a stop's two are one.
* `Handover`: learned and alias peers, the mode that admits every sender when none is expected, packets of an invalid
  format. Palette polls may postpone the cut-over; here it waits for a packet or its timeout.
* `ReorderRing`: the pop that paces the audio ring by the video ring, and the direct mode (no delay, no order).
* `KeyboardWorker`: keymaps; the reset, reboot and menu commands and the BASIC warm start; the releases of everything
  that a stop of the stream sends from another thread, past both queues; the machine's own keyboard. A capable
  device always stays capable. REST typing is given to the machine at once; the KERNAL's own queue of it is left out.
  `doc/internals/keyboard-injection.md` differs from the code in two places that the model follows the code in: REST
  failures do demote the device (`ui/c64-keyboard.c` 1536; the document says at 94-96 that they do not), and a batch
  that falls back is cut to ten bytes, the rest going back to a REST attempt or the next legacy batch (the document
  speaks of the entire batch at 72-74).

* `FrameAssembly`, `Capture`: colour conversion, effects, the logo and the black screen, statistics; the rows of the CSV files and the pixels; the
  mixer item by item. How a pop is recognised in a picture or in samples.
* `Palette`: the text of palette files and settings, the pace of polls and its back-off, the rate limit of property refreshes, a cache
  shared by several sources on one device.
* `Automation`: MD5, and the three direct calls (`play_song`, `run_program`, `run_disk`), which keep no state.
* `ScriptLanguage`: the tokenizer, floating point (a division is of a multiple), traces, and what commands do on the device. Left out of the
  families of scripts, because there the machine and the specification's words part, or those are silent: jumps and RETURN out of a FOR
  (its entry stays on the stack of loops), nested GOSUB parameters, GOSUB and GOTO inside a function, a function body that ends in
  `IF ... THEN RETURN` (the compiler takes that RETURN for the function's own, so the other branch runs on into what follows), a map read before
  its first write, a function of one argument called before its definition (taken for an array), an array index that begins with a parenthesis,
  labels inside blocks (rejected), NOT before a comparison (it binds tighter than in the grammar), and expressions deeper than the operand stack.

Not modelled at all, with the reason for each in `components` of `PROJECT.json`: stream control, the REST client, sockets and control
protocol, the device registry and scan, effects, OBS properties.

The plan. The modules are written and checked; what is left is the proofs that the last column still names.

| # | module | composes / refines | properties | proofs |
|---|---|---|---|---|
| 1 | `PacketFifo` | refines `BoundedQueue` | no torn packet, refinement | done |
| 2 | `RetryWorker` | | ownership, destruction | done |
| 3 | `StopQueue`, `DeviceSwitch` | `DeviceSwitch` extends `StopQueue` | nobody left streaming | done |
| 4 | `Handover` | uses the queue of 1 as a sequence | no mixture, colours | done |
| 5 | `ReorderRing` | refines `DelayQueue` | refinement, no hole, no shared payload | done |
| 6 | `KeyboardWorker` | | once, in order, nothing stuck | done |
| 7 | `ScriptExecutor` | | status, stop, pause | done |
| 8 | `ScriptLanguage` | parser, compiler, machine against the reference | the meaning of a script | none (recursive) |
| 9 | `Automation` | `Playlist`, `SongLengths` | the list that is named is played | the lists stay within their bound |
| 10 | `Capture` | `FrameAssembly`, `AudioTimeline`, `Recording`, `AvSync` | pictures, times, files | the recorder: done; indices of the audio timeline advance |
| 11 | `Palette` | `PaletteCatalogue`, `PaletteFollow` | edits and following | the catalogue stays sorted and within its bound |
| 12 | `StreamControl` | | fallback and demotion; a late answer of the old device and the palette capability of the new | invariant |
| 13 | `NetworkBuffer` | two `ReorderRing`s | audio paced by video | |
| 14 | `DeviceRegistry` | | a merge keeps each device once | |
