------------------------------ MODULE Recording ------------------------------
(***************************************************************************)
(* What the recorder keeps, and its operations as functions of it.  All of *)
(* it but the writer's side is under recording_mutex; a function here is   *)
(* what one thread does while it holds it.                                 *)
(*                                                                         *)
(* A session is a folder; a file is named by its session, its kind and,    *)
(* for video, its segment.  A handle is the name of the file it writes.    *)
(* disk maps the files to their content: the chunks, the format of the     *)
(* header, the number of frames or samples the header gives, and whether   *)
(* the file was finished.                                                  *)
(*                                                                         *)
(* Where a call can fail, a function gives the set of its outcomes; each   *)
(* takes one of the faults left.                                           *)
(***************************************************************************)
EXTENDS FrameAssembly, SequencesExt

CONSTANTS
    MaxQueue,       \* C64_RECORD_WRITER_MAX_BYTES, in chunks
    SegmentFrames,  \* frames of a segment within C64_AVI_SEGMENT_LIMIT_BYTES
    MaxWav,         \* UINT32_MAX, in audio chunks: what the header of a WAV file can say
    HeaderPeriod,   \* frames between two updates of the header on disk
    Devices,        \* the devices; each has a mixer
    UserVolume      \* device -> the volume its user has set

ZeroDb == "0 dB"
NoSegment == [index |-> 0, fmt |-> None, frames |-> 0]
NoWriter == [on |-> FALSE, queue |-> <<>>, stopping |-> FALSE, held |-> <<>>, written |-> 0]
NewWriter == [NoWriter EXCEPT !.on = TRUE]
Files == {"video", "audio", "obs", "net", "sync"}

\* A file: its session, its kind, its segment.
Names == Nat \X Files \X Nat

ASSUME RecorderAssumption ==
    /\ MaxQueue \in Nat /\ MaxWav \in Nat /\ SegmentFrames \in Nat \ {0} /\ HeaderPeriod \in Nat \ {0}
    /\ Devices # {} /\ \A d \in Devices : UserVolume[d] # None
    /\ None \notin Names

NoRecording ==
    [frames |-> FALSE, csv |-> FALSE, av |-> FALSE, video |-> FALSE,       \* record_frames ... record_video
     session |-> 0, sessions |-> 0,                                        \* session_folder; folders made
     file |-> [f \in Files |-> None],                                      \* video_file, audio_file, timing_file ...
     segment |-> NoSegment, audioBytes |-> 0,                              \* avi_segment_*, recorded_audio_bytes
     writer |-> NoWriter, drops |-> 0,                                     \* record_writer, record_write_drops
     prg |-> FALSE, snapshot |-> None,                                     \* av_sync_prg_started, the mixer snapshot
     jobs |-> <<>>, playing |-> {},                                        \* detached threads; devices that play pops
     disk |-> <<>>,
     mixer |-> [d \in Devices |-> UserVolume[d]], host |-> CHOOSE d \in Devices : TRUE]

Failing(r, n) == IF n > 0 THEN {[r |-> r, cost |-> 1]} ELSE {}
Working(r)    == {[r |-> r, cost |-> 0]}

AnyActive(r) == r.frames \/ r.video \/ r.csv \/ r.av

\* A folder is named by the second it is made in; renewed says whether that is a new name.
EnsureSession(r, renewed, faults) ==
    IF r.session # 0 THEN Working(r)
    ELSE LET made == IF renewed THEN r.sessions + 1 ELSE r.sessions
         IN  Working([r EXCEPT !.session = made, !.sessions = made]) \cup Failing(r, faults)

Name(r, kind) == <<r.session, kind, 0>>
\* Every segment by the name of the first.
SegmentReused(r, index) == <<r.session, "video", 0>>
Segment(r, index) == <<r.session, "video", index>>

\* Opening a file for writing empties it.
Open(r, kind, name, fmt) ==
    [r EXCEPT !.file[kind] = name,
              !.disk = [n \in DOMAIN @ \cup {name} |->
                          IF n = name THEN [chunks |-> <<>>, fmt |-> fmt, head |-> 0, done |-> FALSE] ELSE @[n]]]

Close(r, kind) ==
    IF r.file[kind] = None THEN r
    ELSE [r EXCEPT !.file[kind] = None, !.disk[r.file[kind]].done = TRUE]

\* A WAV file may outgrow its header, which then says the most it can; a segment ends before it does.
InHeader(kind, count) == IF kind = "audio" /\ count > MaxWav THEN MaxWav ELSE count

Finish(r, kind, count) ==
    IF r.file[kind] = None THEN r
    ELSE Close([r EXCEPT !.disk[r.file[kind]].head = InHeader(kind, count)], kind)

\* A file that was opened and given up.
Forget(r, kind) == [r EXCEPT !.file[kind] = None]

StartCsv(r, kind, renewed, faults) ==
    IF r.file[kind] # None THEN Working(r)
    ELSE UNION {IF o.r.session = 0 THEN {o}
                ELSE {[r |-> Open(o.r, kind, Name(o.r, kind), None), cost |-> o.cost]}
                     \cup {[r |-> x.r, cost |-> o.cost + x.cost] : x \in Failing(o.r, faults - o.cost)}
                : o \in EnsureSession(r, renewed, faults)}

Cleanup(r) == [Close(Close(Close(r, "obs"), "net"), "sync") EXCEPT !.session = 0]

----------------------------------------------------------------------------
(***************************************************************************)
(* Video and audio.                                                        *)
(***************************************************************************)
NewSegment(index, fmt) == [index |-> index, fmt |-> fmt, frames |-> 0]

StartWriter(r, faults) == Working([r EXCEPT !.writer = IF @.on THEN @ ELSE NewWriter]) \cup Failing(r, faults)

\* With CSV on, its files are opened too.
WithCsv(o, renewed, faults) ==
    IF ~o.r.csv THEN {o}
    ELSE UNION {{[r |-> b.r, cost |-> o.cost + a.cost + b.cost]
                  : b \in StartCsv(a.r, "net", renewed, faults - o.cost - a.cost)}
                : a \in StartCsv(o.r, "obs", renewed, faults - o.cost)}

\* Both files of the recording, or none.
OpenBoth(o, fmt, faults) ==
    LET video == Open(o.r, "video", Segment(o.r, 0), fmt)
        audio == Open(o.r, "audio", Name(o.r, "audio"), None)
    IN  {[r |-> Open(video, "audio", Name(video, "audio"), None), cost |-> o.cost]}
        \cup {[r |-> Forget(x.r, "video"), cost |-> o.cost + x.cost] : x \in Failing(video, faults - o.cost)}
        \cup {[r |-> Forget(x.r, "audio"), cost |-> o.cost + x.cost] : x \in Failing(audio, faults - o.cost)}

\* The writer for open files; without it they are given up.
WithWriter(o, fmt, faults) ==
    IF o.r.file["video"] = None THEN {o}
    ELSE {[r |-> IF x.r.writer.on THEN x.r ELSE Forget(Forget(x.r, "video"), "audio"), cost |-> o.cost + x.cost]
          : x \in StartWriter([o.r EXCEPT !.segment = NewSegment(0, fmt), !.audioBytes = 0], faults - o.cost)}

StartVideo(r, fmt, renewed, faults) ==
    UNION {IF s.r.session = 0 THEN {s}
           ELSE UNION {UNION {WithWriter(p, fmt, faults) : p \in OpenBoth(c, fmt, faults)}
                       : c \in WithCsv(s, renewed, faults)}
           : s \in EnsureSession(r, renewed, faults)}

\* A chunk that does not fit is forgotten.
EnqueueSilently(r, chunk) ==
    IF r.writer.on /\ ~r.writer.stopping /\ Len(r.writer.queue) < MaxQueue
    THEN [r EXCEPT !.writer.queue = Append(@, chunk)] ELSE r

\* What is enqueued after the writer was told to stop, or over its limit, is counted as dropped.
Enqueue(r, chunk) ==
    IF ~r.writer.on THEN r
    ELSE IF r.writer.stopping \/ Len(r.writer.queue) >= MaxQueue THEN [r EXCEPT !.drops = @ + 1]
    ELSE [r EXCEPT !.writer.queue = Append(@, chunk)]

Queued(r, chunk) == Enqueue(r, chunk).writer.queue # r.writer.queue

NeedsRoll(r, fmt) == r.segment.fmt # fmt \/ r.segment.frames >= SegmentFrames

RecordFrame(r, fmt, frame) ==
    LET chunk == [kind |-> "video", id |-> frame, fmt |-> fmt, cut |-> FALSE]
    IN  IF Queued(r, chunk) THEN [Enqueue(r, chunk) EXCEPT !.segment.frames = @ + 1] ELSE Enqueue(r, chunk)

\* The writer is joined before it is told.
StopWritingUntold(r) == r
StopWriting(r) == [r EXCEPT !.writer.stopping = TRUE]

\* After the writer has gone: its queue is empty.
FreeWriter(r) == [r EXCEPT !.writer = NoWriter]

\* The next segment, in the format of the frame; a failure ends the recording where it is.
Roll(r, fmt, faults) ==
    LET ended == Finish(FreeWriter(r), "video", r.segment.frames)
        next  == [ended EXCEPT !.segment.index = @ + 1]
        Fails(x) == [x EXCEPT !.video = FALSE]
        opened == [Open(next, "video", Segment(next, next.segment.index), fmt)
                     EXCEPT !.segment = NewSegment(next.segment.index, fmt)]
    IN  {[r |-> Fails(x.r), cost |-> x.cost] : x \in Failing(ended, faults) \cup Failing(next, faults)}
        \cup {[r |-> IF x.r.writer.on THEN x.r ELSE Fails(x.r), cost |-> x.cost] : x \in StartWriter(opened, faults)}

\* The headers are written when the queue is drained and the writer gone.
StopVideo(r) ==
    LET gone == Finish(FreeWriter(r), "video", r.segment.frames)
    IN  Finish(gone, "audio", gone.audioBytes)

CloseAll(r) == Close(Close(Close(StopVideo(r), "obs"), "net"), "sync")

----------------------------------------------------------------------------
(***************************************************************************)
(* The writer's side, without recording_mutex.                             *)
(***************************************************************************)
TakeChunk(r) == [r EXCEPT !.writer.held = <<r.writer.queue[1]>>, !.writer.queue = Tail(@)]

\* The chunk goes to the file its kind has now.  The header follows every HeaderPeriod frames.
WriteChunk(r) ==
    LET chunk == r.writer.held[1]
        file  == r.file[chunk.kind]
        frames == r.writer.written + 1
        done  == [r EXCEPT !.writer.held = <<>>]
        added == [done EXCEPT !.disk[file].chunks = Append(@, chunk)]
    IN  IF file = None THEN [done EXCEPT !.drops = @ + 1]
        ELSE IF chunk.kind = "audio" THEN [added EXCEPT !.audioBytes = @ + 1]
        ELSE IF frames % HeaderPeriod = 0 THEN [added EXCEPT !.writer.written = frames, !.disk[file].head = frames]
        ELSE [added EXCEPT !.writer.written = frames]

\* A disk that is full: part of the chunk may be there, the count goes on.
WriteFails(r) == [r EXCEPT !.writer.held = <<>>, !.drops = @ + 1]

----------------------------------------------------------------------------
(***************************************************************************)
(* The mixer of the device, set to 0 dB for the measurement.  The mixer is *)
(* one value here; the code goes through its items one by one.             *)
(***************************************************************************)
ApplyZeroDb(r, faults) ==
    IF r.snapshot # None THEN Working(r)
    ELSE Working([r EXCEPT !.snapshot = r.mixer[r.host], !.mixer[r.host] = ZeroDb])
         \cup Failing(r, faults) \cup Failing([r EXCEPT !.snapshot = r.mixer[r.host]], faults)

RestoreMixer(r) ==
    IF r.snapshot = None THEN r ELSE [r EXCEPT !.mixer[r.host] = r.snapshot, !.snapshot = None]

\* The device refuses; the snapshot is gone all the same.
RestoreFails(r) == [r EXCEPT !.snapshot = None]

----------------------------------------------------------------------------
(***************************************************************************)
(* The program that plays the pops.  It is started, and the machine is     *)
(* reset after it, by a detached thread for each.                          *)
(***************************************************************************)
Job(action, host) == [action |-> action, host |-> host]

RunPrg(r, faults) ==
    Working([r EXCEPT !.prg = TRUE, !.jobs = Append(@, Job("run", r.host))]) \cup Failing(r, faults)

Reset(r) == IF r.prg THEN [r EXCEPT !.prg = FALSE, !.jobs = Append(@, Job("reset", r.host))] ELSE r

DoJob(r, i) ==
    [r EXCEPT !.jobs = RemoveAt(@, i),
              !.playing = IF r.jobs[i].action = "run" THEN @ \cup {r.jobs[i].host} ELSE @ \ {r.jobs[i].host}]
JobFails(r, i) == [r EXCEPT !.jobs = RemoveAt(@, i)]
=============================================================================
