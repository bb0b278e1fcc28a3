------------------------------- MODULE Capture -------------------------------
(***************************************************************************)
(* From the packets to OBS and to the disk.  The processor thread takes    *)
(* packets, makes pictures and sound of them, and records both; the OBS UI *)
(* thread changes the recording settings and destroys the source; a writer *)
(* thread empties the recorder's queue; the retry worker restarts the      *)
(* stream, follows a change of the device, and sets the mixer of a device  *)
(* that became ready.  recording_mutex is lock; a step that holds it to    *)
(* its end does not name it.                                               *)
(*                                                                         *)
(* A scene bounds what the user, the network and the disk do; one is       *)
(* chosen at the start.  Windows names the schedules and faults that the   *)
(* code leaves open and the properties do not survive; one that is not in  *)
(* the set is closed.                                                      *)
(***************************************************************************)
EXTENDS Recording, AudioTimeline, AvSync

CONSTANTS
    Scenes,       \* what may happen: see left
    SoundInterval,  \* audio_interval_ns: the time of an audio packet of a format
    FirstFrame,   \* the device's frame number when the stream starts
    Levels,       \* bound: the samples a gap lies between
    Spacing,      \* time between two pops of the device
    Skew,         \* how late the packets may show a pop
    Windows

VARIABLES
    vid, clk, snd,       \* video assembly and clock, audio timeline; TRUE in started: stream_start_set
    started,
    proc, ui, ret, lock, alive,   \* the threads and recording_mutex
    setting,             \* the stored recording settings
    rec,                 \* the recorder
    sent, late,          \* where the device is in its stream; packets on their way
    shown, heard,        \* the last picture and packets handed to OBS
    owed, stray,         \* chunks due to the files; a frame was saved outside a session
    popped, popTime, popSeen,     \* the measurement, its time, and which pops were seen where
    left                 \* what the scene still allows

mediaVars == <<vid, clk, snd, started, shown, heard>>
netVars   == <<sent, late>>
threadVars == <<proc, ui, ret, lock, alive>>
popVars   == <<popped, popTime, popSeen>>
vars == <<mediaVars, netVars, threadVars, setting, rec, owed, stray, popVars, left>>

Window(name) == name \in Windows

Blank == [device |-> 0, frame |-> 0]
IdleProc == [pc |-> "idle", packet |-> None, todo |-> <<>>]
IdleUi == [pc |-> "idle", want |-> None, back |-> "idle"]
Flags(r) == [frames |-> r.frames, csv |-> r.csv, av |-> r.av, video |-> r.video]

Init ==
    /\ left \in Scenes
    /\ vid = [cur |-> NewFrame(0), completed |-> 0, detected |-> 0, height |-> PalHeight, format |-> "pal",
              screen |-> [i \in 0 .. PalHeight - 1 |-> Blank]]
    /\ clk = NoClock /\ snd = NoTimeline /\ started = FALSE
    /\ proc = IdleProc /\ ui = IdleUi /\ ret = "idle" /\ lock = "none" /\ alive = TRUE
    /\ rec = NoRecording /\ setting = Flags(NoRecording)
    /\ sent = [device |-> 1, frame |-> FirstFrame, index |-> 0, format |-> None, sound |-> 0, now |-> 0]
    /\ late = {}
    /\ shown = [stream |-> 0, n |-> 0] /\ heard = [stream |-> 0, n |-> 0]
    /\ owed = 0 /\ stray = FALSE
    /\ popped = [o \in Origins |-> NoPops] /\ popTime = 0 /\ popSeen = {}

Spend(what, n) == left' = [left EXCEPT ![what] = @ - n]

----------------------------------------------------------------------------
(***************************************************************************)
(* The device and the network: external.  The device sends the strips of a *)
(* frame in order; the network may keep a packet back, deliver it later,   *)
(* or twice.                                                               *)
(***************************************************************************)
Height(format) == IF format = "pal" THEN PalHeight ELSE NtscHeight

StripOf(s, format) ==
    [num |-> s.frame % FrameMod, index |-> s.index, last |-> s.index = Height(format) - 1,
     strip |-> [device |-> s.device, frame |-> s.frame]]

NextStrip(s, format) ==
    IF s.index = Height(format) - 1 THEN [s EXCEPT !.frame = @ + 1, !.index = 0, !.format = None]
    ELSE [s EXCEPT !.index = @ + 1, !.format = format]

Formats(s) == IF s.format = None THEN left.formats ELSE {s.format}

KeepBack ==
    /\ left.loss > 0 /\ left.packets > 0
    /\ \E format \in Formats(sent) :
          /\ late' = late \cup {StripOf(sent, format)}
          /\ sent' = NextStrip(sent, format)
    /\ Spend("loss", 1)
    /\ UNCHANGED <<mediaVars, threadVars, setting, rec, owed, stray, popVars>>

\* The device loses frames on its own, or is restarted and counts from the start.
Restarted == [sent EXCEPT !.device = @ + 1, !.frame = 0, !.index = 0, !.format = None, !.sound = 0]
Collides == vid.cur.num = Restarted.frame \/ proc.pc # "idle" \/ late # {}
DeviceJumps ==
    /\ left.jumps > 0
    /\ \/ /\ Window("collide") \/ ~Collides
          /\ sent' = Restarted
       \/ /\ sent.index = 0
          /\ \E d \in 1 .. Half - 1 : sent' = [sent EXCEPT !.frame = @ + d]
    /\ Spend("jumps", 1)
    /\ UNCHANGED <<late, mediaVars, threadVars, setting, rec, owed, stray, popVars>>

----------------------------------------------------------------------------
(***************************************************************************)
(* The processor: video.                                                   *)
(***************************************************************************)
\* The first packet starts the stream; both timelines start with it.
StartStream ==
    /\ started' = TRUE
    /\ IF started THEN UNCHANGED snd ELSE snd' = NoTimeline
Clock == IF started THEN clk ELSE NoClock
Stream(before) == IF started THEN before.stream ELSE before.stream + 1

\* The time of the device counts from the start of the stream.
Sent == IF started THEN sent ELSE [sent EXCEPT !.now = 0]

\* A packet that ends no frame, or one that is not shown, is added at once.
Assemble(packet, video) ==
    LET added == Add(video, packet)
    IN  /\ vid' = added
        /\ proc' = IF added.detected # added.height /\ added.detected # 0
                   THEN [IdleProc EXCEPT !.pc = "publish"] ELSE IdleProc

Take(packet) ==
    /\ proc.pc = "idle" /\ alive
    /\ StartStream
    /\ shown' = [shown EXCEPT !.stream = Stream(shown)]
    /\ heard' = [heard EXCEPT !.stream = Stream(heard)]
    /\ IF EndsFrame(vid, packet) /\ IsShown(vid)
       THEN /\ vid' = [vid EXCEPT !.screen = Picture(vid.cur, vid.height, @)]
            /\ clk' = Place(Clock, vid.cur.num)
            /\ proc' = [IdleProc EXCEPT !.pc = "frames", !.packet = packet]
       ELSE /\ clk' = Clock
            /\ Assemble(packet, vid)
    /\ UNCHANGED <<ui, ret, lock, alive, setting, rec, owed, stray, popVars>>

RecvStrip ==
    /\ left.packets > 0
    /\ \E format \in Formats(sent) :
          /\ Take(StripOf(sent, format))
          /\ sent' = NextStrip(Sent, format)
          /\ late' \in {late} \cup (IF left.loss > 0 THEN {late \cup {StripOf(sent, format)}} ELSE {})
          /\ left' = [left EXCEPT !.packets = @ - 1, !.loss = IF late' = late THEN @ ELSE @ - 1]

RecvLate ==
    /\ left.packets > 0
    /\ \E packet \in late : Take(packet) /\ late' = late \ {packet}
    /\ Spend("packets", 1)
    /\ sent' = Sent

\* A packet the frame assembly does not take, or whose height is no picture's.
RecvInvalid ==
    /\ left.packets > 0 /\ left.invalid
    /\ Take([num |-> sent.frame % FrameMod, index |-> PalHeight, last |-> TRUE,
             strip |-> [device |-> sent.device, frame |-> sent.frame]])
    /\ Spend("packets", 1)
    /\ sent' = Sent /\ UNCHANGED late

PublishSize ==
    /\ proc.pc = "publish"
    /\ vid' = Publish(vid) /\ proc' = IdleProc
    /\ UNCHANGED <<clk, snd, started, shown, heard, netVars, ui, ret, lock, alive, setting, rec, owed, stray, popVars, left>>

procFrame == <<mediaVars, netVars, ui, ret, alive, setting, popVars>>
Goto(pc) == proc' = [proc EXCEPT !.pc = pc]
Free == lock = "none"
Renewed == IF Window("second") /\ rec.sessions > 0 THEN BOOLEAN ELSE {TRUE}

TestFrames ==
    /\ proc.pc = "frames"
    /\ Goto(IF rec.frames THEN "shot" ELSE "video")
    /\ UNCHANGED <<procFrame, lock, rec, owed, stray, left>>

SaveShot ==
    /\ proc.pc = "shot" /\ Free
    /\ \E renewed \in Renewed : \E o \in EnsureSession(rec, renewed, left.faults) :
          IF o.r.session = 0
          THEN rec' = o.r /\ Spend("faults", o.cost) /\ Goto("video")
          ELSE \E c \in WithCsv(o, renewed, left.faults) : rec' = c.r /\ Spend("faults", c.cost) /\ Goto("bmp")
    /\ UNCHANGED <<procFrame, lock, owed, stray>>

\* The folder is read again, without the lock.
WriteShot ==
    /\ proc.pc = "bmp"
    /\ stray' = (stray \/ rec.session = 0)
    /\ Goto("video")
    /\ UNCHANGED <<procFrame, lock, rec, owed, left>>

TestVideo ==
    /\ proc.pc = "video"
    /\ Goto(IF rec.video /\ rec.file["video"] # None THEN "frame" ELSE "out")
    /\ UNCHANGED <<procFrame, lock, rec, owed, stray, left>>

Format == <<vid.height, vid.format>>
Due(r, kind) == IF r.file[kind] # None /\ (r.video \/ r.writer.on) THEN owed + 1 ELSE owed
Gone(r) == ~r.writer.on \/ (r.writer.stopping /\ r.writer.queue = <<>> /\ r.writer.held = <<>>)

\* The file was tested without the lock and is not tested again.
Record ==
    /\ proc.pc = "frame" /\ Free
    /\ IF NeedsRoll(rec, Format)
       THEN rec' = StopWriting(rec) /\ lock' = "proc" /\ Goto("roll") /\ UNCHANGED owed
       ELSE /\ rec' = RecordFrame(rec, Format, vid.cur.num) /\ owed' = Due(rec, "video")
            /\ Goto("out") /\ UNCHANGED lock
    /\ UNCHANGED <<procFrame, stray, left>>

RollSegment ==
    /\ proc.pc = "roll" /\ Gone(rec)
    /\ \E o \in Roll(rec, Format, IF Window("rollfail") THEN left.faults ELSE 0) :
          /\ rec' = IF o.r.writer.on THEN RecordFrame(o.r, Format, vid.cur.num) ELSE o.r
          /\ owed' = IF o.r.writer.on THEN Due(o.r, "video") ELSE owed
          /\ Spend("faults", o.cost)
    /\ lock' = "none" /\ Goto("out")
    /\ UNCHANGED <<procFrame, stray>>

\* The picture goes to OBS, then the packet that ended it begins the next.
Submit ==
    /\ proc.pc = "out"
    /\ LET strip == vid.screen[0]
           new == shown.n = 0 \/ shown.of # shown.stream
           ordered == IF new THEN TRUE ELSE shown.ordered /\ strip.device = shown.strip.device
                                            /\ strip.frame - shown.strip.frame \in 1 .. Half - 1
       IN  shown' = [stream |-> shown.stream, of |-> shown.stream, n |-> shown.n + 1, strip |-> strip,
                     strips |-> {vid.screen[i] : i \in 0 .. vid.height - 1},
                     first |-> IF new THEN strip.frame ELSE shown.first, ordered |-> ordered,
                     index |-> clk.index, format |-> vid.format, time |-> IdealTime(clk, vid.format)]
    /\ Assemble(proc.packet, [vid EXCEPT !.completed = vid.cur.num])
    /\ UNCHANGED <<clk, snd, started, heard, netVars, ui, ret, lock, alive, setting, rec, owed, stray, popVars, left>>

----------------------------------------------------------------------------
(***************************************************************************)
(* The processor: audio.                                                   *)
(***************************************************************************)
\* The time of a place is counted in packets of the format that was seen last: every place gets a new
\* time when the format changes.
SoundTime(index) == index * SoundInterval[vid.format]

\* The places of the gap before a packet.
Gap(a) == [k \in 1 .. a.gap |-> a.tl.index - a.gap + k - 1]

\* OBS hears the fill of a gap as far as it is concealed, and the packet.
Hear(a, number, stream) ==
    LET fills   == SubSeq(Gap(a), 1, IF a.gap < MaxConceal THEN a.gap ELSE MaxConceal)
        whole   == Append(fills, a.tl.index)
        new     == heard.n = 0 \/ heard.of # stream
        ordered == IF new THEN TRUE ELSE heard.ordered /\ a.act # "resync" /\ heard.device = sent.device
    IN  heard' = [stream |-> stream, of |-> stream, n |-> heard.n + 1, device |-> sent.device,
                  number |-> number, first |-> IF new THEN number ELSE heard.first, ordered |-> ordered,
                  format |-> vid.format, times |-> [k \in DOMAIN whole |-> SoundTime(whole[k])]]

\* The sequence number of the device's next packet; what it skips is lost, what it repeats is late.
RecvSound ==
    /\ proc.pc = "idle" /\ alive /\ left.sounds > 0
    /\ \E skip \in left.skips :
       LET number == sent.sound + skip
           now    == IF started THEN sent.now + SoundTime(IF skip > 0 THEN skip ELSE 0) ELSE 0
           tl     == IF started THEN snd ELSE NoTimeline
           a      == Advance(tl, number % SoundMod, now \div SoundInterval[vid.format])
           whole  == Append(Gap(a), a.tl.index)
           told   == [k \in 1 .. Len(whole) |-> [id |-> whole[k], cut |-> k = 1 /\ a.act # "play" /\ a.act # "conceal"]]
       IN  /\ number >= 0
           /\ sent' = [sent EXCEPT !.sound = IF number > @ THEN number ELSE @, !.now = now]
           /\ snd' = a.tl /\ started' = TRUE /\ clk' = Clock
           /\ shown' = [shown EXCEPT !.stream = Stream(shown)]
           /\ IF a.act = "drop"
              THEN heard' = [heard EXCEPT !.stream = Stream(heard)] /\ UNCHANGED proc
              ELSE Hear(a, number, Stream(heard)) /\ proc' = [IdleProc EXCEPT !.pc = "sound", !.todo = told]
    /\ Spend("sounds", 1)
    /\ UNCHANGED <<vid, late, ui, ret, lock, alive, setting, rec, owed, stray, popVars>>

TestSound ==
    /\ proc.pc = "sound"
    /\ IF rec.video /\ rec.file["audio"] # None THEN Goto("chunk")
       ELSE proc' = IF Len(proc.todo) = 1 THEN IdleProc ELSE [proc EXCEPT !.todo = Tail(@)]
    /\ UNCHANGED <<procFrame, lock, rec, owed, stray, left>>

RecordSound ==
    /\ proc.pc = "chunk" /\ Free
    /\ rec' = Enqueue(rec, [kind |-> "audio", id |-> proc.todo[1].id, fmt |-> None, cut |-> proc.todo[1].cut])
    /\ owed' = Due(rec, "audio")
    /\ proc' = IF Len(proc.todo) = 1 THEN IdleProc ELSE [proc EXCEPT !.pc = "sound", !.todo = Tail(@)]
    /\ UNCHANGED <<procFrame, lock, stray, left>>

Processor == PublishSize \/ TestFrames \/ SaveShot \/ WriteShot \/ TestVideo \/ Record \/ RollSegment \/ Submit
             \/ TestSound \/ RecordSound

----------------------------------------------------------------------------
(***************************************************************************)
(* The writer thread, and the retry worker.                                *)
(***************************************************************************)
otherVars == <<mediaVars, netVars, popVars, setting>>

TakeFromQueue ==
    /\ rec.writer.on /\ rec.writer.queue # <<>> /\ rec.writer.held = <<>>
    /\ rec' = TakeChunk(rec)
    /\ UNCHANGED <<otherVars, threadVars, owed, stray, left>>

WriteToDisk ==
    /\ rec.writer.held # <<>>
    /\ LET there == rec.file[rec.writer.held[1].kind] # None
       IN  \/ /\ rec' = WriteChunk(rec)
              /\ owed' = IF there THEN owed - 1 ELSE owed
              /\ UNCHANGED left
           \/ /\ Window("diskfull") /\ there /\ left.faults > 0
              /\ rec' = WriteFails(rec) /\ Spend("faults", 1)
              /\ UNCHANGED owed
    /\ UNCHANGED <<otherVars, threadVars, stray>>

Writer == TakeFromQueue \/ WriteToDisk

\* The processor is joined before a new stream begins.
RestartStream ==
    /\ left.restarts > 0 /\ alive /\ proc.pc = "idle" /\ started
    /\ started' = FALSE /\ Spend("restarts", 1)
    /\ UNCHANGED <<vid, clk, snd, shown, heard, netVars, popVars, threadVars, setting, rec, owed, stray>>

\* A device that became ready gets its mixer set, if a measurement runs and none has been set.
ClientReady ==
    /\ ret = "idle" /\ alive /\ left.ready > 0
    /\ Window("mixer") \/ ui.pc # "avoff"
    /\ ret' = IF rec.av /\ rec.snapshot = None THEN "apply" ELSE "idle"
    /\ Spend("ready", 1)
    /\ UNCHANGED <<otherVars, proc, ui, lock, alive, rec, owed, stray>>

SetMixer ==
    /\ ret = "apply"
    /\ \E o \in ApplyZeroDb(rec, left.faults) : rec' = o.r /\ Spend("faults", o.cost)
    /\ ret' = "idle"
    /\ UNCHANGED <<otherVars, proc, ui, lock, alive, owed, stray>>

\* The client of another device; the settings of the recorder are not touched.
SwitchDevice ==
    /\ left.hosts > 0 /\ ret = "idle" /\ alive
    /\ Window("device") \/ (rec.snapshot = None /\ ~rec.prg /\ ui.pc = "idle")
    /\ \E d \in Devices \ {rec.host} : rec' = [rec EXCEPT !.host = d]
    /\ Spend("hosts", 1)
    /\ UNCHANGED <<otherVars, threadVars, owed, stray>>

\* The detached threads.  A request that fails is only logged.
RunJob ==
    \E i \in DOMAIN rec.jobs :
       /\ Window("jobs") \/ i = 1
       /\ \/ rec' = DoJob(rec, i) /\ UNCHANGED left
          \/ /\ Window("jobfail") \/ rec.jobs[i].action = "run"
             /\ left.faults > 0
             /\ rec' = JobFails(rec, i) /\ Spend("faults", 1)
       /\ UNCHANGED <<otherVars, threadVars, owed, stray>>

----------------------------------------------------------------------------
(***************************************************************************)
(* The UI thread: c64_record_update_settings from top to bottom.           *)
(***************************************************************************)
uiVars == <<mediaVars, netVars, popVars, proc, ret, alive, owed, stray>>
UiGoto(pc) == ui' = [ui EXCEPT !.pc = pc]
UiCleanup(back) == ui' = [ui EXCEPT !.pc = "check", !.back = back]
Outcome(outcomes) == \E o \in outcomes : rec' = o.r /\ Spend("faults", o.cost)

\* A stream whose file of this session is finished.
Finished(r, kind) ==
    r.session # 0 /\ Name(r, kind) \in DOMAIN r.disk /\ r.disk[Name(r, kind)].done
Wanted == {[f \in DOMAIN setting |-> IF f \in changed THEN ~setting[f] ELSE setting[f]] : changed \in SUBSET left.toggles}
Reuses(want) == \/ want.video /\ ~rec.video /\ Finished(rec, "video")
                \/ want.csv /\ ~rec.csv /\ (Finished(rec, "obs") \/ Finished(rec, "net"))
                \/ want.av /\ ~rec.av /\ Finished(rec, "sync")

Update ==
    /\ ui.pc = "idle" /\ alive /\ left.ops > 0
    /\ \E want \in Wanted :
          /\ Window("reuse") \/ ~Reuses(want)
          /\ ui' = [IdleUi EXCEPT !.pc = "frames", !.want = want]
          /\ setting' = want
    /\ Spend("ops", 1)
    /\ UNCHANGED <<uiVars, lock, rec>>

UpdateFrames ==
    /\ ui.pc = "frames"
    /\ Window("bmp") \/ proc.pc # "shot" \/ ui.want.frames
    /\ rec' = [rec EXCEPT !.frames = ui.want.frames]
    /\ IF rec.frames /\ ~ui.want.frames THEN UiCleanup("csv") ELSE UiGoto("csv")
    /\ UNCHANGED <<uiVars, lock, setting, left>>

UpdateCsv ==
    /\ ui.pc = "csv"
    /\ IF ui.want.csv = rec.csv THEN UiGoto("av") /\ UNCHANGED rec
       ELSE /\ rec' = [rec EXCEPT !.csv = ui.want.csv]
            /\ UiGoto(IF ui.want.csv THEN "obs" ELSE "obsoff")
    /\ UNCHANGED <<uiVars, lock, setting, left>>

StartCsvFile ==
    /\ ui.pc \in {"obs", "net"} /\ Free
    /\ \E renewed \in Renewed : Outcome(StartCsv(rec, ui.pc, renewed, left.faults))
    /\ UiGoto(IF ui.pc = "obs" THEN "net" ELSE "av")
    /\ UNCHANGED <<uiVars, lock, setting>>

StopCsvFile ==
    /\ ui.pc \in {"obsoff", "netoff"} /\ Free
    /\ rec' = Close(rec, IF ui.pc = "obsoff" THEN "obs" ELSE "net")
    /\ IF ui.pc = "obsoff" THEN UiGoto("netoff") ELSE UiCleanup("av")
    /\ UNCHANGED <<uiVars, lock, setting, left>>

UpdateAvSync ==
    /\ ui.pc = "av"
    /\ IF ui.want.av = rec.av THEN UiGoto("video") /\ UNCHANGED <<rec, left>>
       ELSE IF ui.want.av
       THEN UiGoto("avfile") /\ Outcome(ApplyZeroDb(rec, left.faults))
       ELSE /\ UiGoto("avoff")
            /\ Window("mixer") \/ ret = "idle"
            /\ \/ rec' = RestoreMixer(rec) /\ UNCHANGED left
               \/ /\ Window("mixerfail") /\ left.faults > 0
                  /\ rec' = RestoreFails(rec) /\ Spend("faults", 1)
    /\ UNCHANGED <<uiVars, lock, setting>>

StartSyncFile ==
    /\ ui.pc = "avfile" /\ Free
    /\ \E renewed \in Renewed : Outcome(StartCsv(rec, "sync", renewed, IF Window("avfail") THEN left.faults ELSE 0))
    /\ UiGoto("avset")
    /\ UNCHANGED <<uiVars, lock, setting>>

SetAvSync ==
    /\ ui.pc = "avset" /\ Free
    /\ rec' = [rec EXCEPT !.av = rec.file["sync"] # None]
    /\ UiGoto("run")
    /\ UNCHANGED <<uiVars, lock, setting, left>>

StartProgram ==
    /\ ui.pc = "run"
    /\ Outcome(RunPrg(rec, left.faults)) /\ UiGoto("video")
    /\ UNCHANGED <<uiVars, lock, setting>>

ClearAvSync ==
    /\ ui.pc = "avoff" /\ Free
    /\ rec' = [rec EXCEPT !.av = FALSE]
    /\ UiGoto("avstop")
    /\ UNCHANGED <<uiVars, lock, setting, left>>

StopSyncFile ==
    /\ ui.pc = "avstop" /\ Free
    /\ rec' = Close(rec, "sync")
    /\ UiCleanup("reset")
    /\ UNCHANGED <<uiVars, lock, setting, left>>

ResetMachine ==
    /\ ui.pc = "reset"
    /\ rec' = Reset(rec) /\ UiGoto("video")
    /\ UNCHANGED <<uiVars, lock, setting, left>>

UpdateVideo ==
    /\ ui.pc = "video"
    /\ IF ui.want.video = rec.video THEN ui' = IdleUi /\ UNCHANGED rec
       ELSE /\ rec' = [rec EXCEPT !.video = ui.want.video]
            /\ UiGoto(IF ui.want.video THEN "start" ELSE "stop")
    /\ UNCHANGED <<uiVars, lock, setting, left>>

\* A recording whose file is open counts as started.
TestStart ==
    /\ ui.pc = "start"
    /\ IF rec.file["video"] # None THEN ui' = IdleUi ELSE UiGoto("open")
    /\ UNCHANGED <<uiVars, lock, setting, rec, left>>

StartRecording ==
    /\ ui.pc = "open" /\ Free
    /\ \E renewed \in Renewed : \E o \in StartVideo(rec, Format, renewed, left.faults) :
          /\ Spend("faults", o.cost)
          /\ IF o.r.file["video"] # None
             THEN rec' = o.r /\ ui' = IdleUi /\ UNCHANGED setting
             ELSE /\ rec' = [o.r EXCEPT !.video = FALSE] /\ setting' = [setting EXCEPT !.video = FALSE]
                  /\ UiCleanup("idle")
    /\ UNCHANGED <<uiVars, lock>>

TestStop ==
    /\ ui.pc = "stop"
    /\ IF rec.file["video"] = None THEN UiCleanup("idle") ELSE UiGoto("lock")
    /\ UNCHANGED <<uiVars, lock, setting, rec, left>>

StopRecording ==
    /\ ui.pc = "lock" /\ Free
    /\ Window("latestop") \/ proc.pc # "frame" \/ ~NeedsRoll(rec, Format)
    /\ rec' = StopWriting(rec) /\ lock' = "ui" /\ UiGoto("join")
    /\ UNCHANGED <<uiVars, setting, left>>

JoinWriter ==
    /\ ui.pc = "join" /\ Gone(rec)
    /\ rec' = StopVideo(rec) /\ lock' = "none" /\ UiCleanup("idle")
    /\ UNCHANGED <<uiVars, setting, left>>

\* Whether anything is recorded is asked in one section, and the session ended in another.
CheckSession ==
    /\ ui.pc = "check" /\ Free
    /\ IF AnyActive(rec) THEN ui' = IF ui.back = "idle" THEN IdleUi ELSE [ui EXCEPT !.pc = ui.back, !.back = "idle"]
       ELSE UiGoto("clean")
    /\ UNCHANGED <<uiVars, lock, setting, rec, left>>

EndSession ==
    /\ ui.pc = "clean" /\ Free
    /\ Window("bmp") \/ proc.pc # "bmp"
    /\ rec' = Cleanup(rec)
    /\ ui' = IF ui.back = "idle" THEN IdleUi ELSE [ui EXCEPT !.pc = ui.back, !.back = "idle"]
    /\ UNCHANGED <<uiVars, lock, setting, left>>

\* The other threads are joined first.
Destroy ==
    /\ ui.pc = "idle" /\ alive /\ left.destroy
    /\ alive' = FALSE /\ UiGoto("destroy")
    /\ UNCHANGED <<mediaVars, netVars, popVars, proc, ret, lock, setting, rec, owed, stray, left>>

DestroyRecorder ==
    /\ ui.pc = "destroy" /\ Free /\ proc.pc = "idle" /\ ret = "idle"
    /\ rec' = StopWriting(RestoreMixer(rec)) /\ lock' = "ui" /\ UiGoto("last")
    /\ UNCHANGED <<uiVars, setting, left>>

DestroyFiles ==
    /\ ui.pc = "last" /\ Gone(rec)
    /\ rec' = CloseAll(rec) /\ lock' = "none" /\ UiGoto("end")
    /\ UNCHANGED <<uiVars, setting, left>>

Ui == UpdateFrames \/ UpdateCsv \/ StartCsvFile \/ StopCsvFile \/ UpdateAvSync \/ StartSyncFile \/ SetAvSync
      \/ StartProgram \/ ClearAvSync \/ StopSyncFile \/ ResetMachine \/ UpdateVideo \/ TestStart \/ StartRecording \/ TestStop \/ StopRecording
      \/ JoinWriter \/ CheckSession \/ EndSession \/ DestroyRecorder \/ DestroyFiles

----------------------------------------------------------------------------
(***************************************************************************)
(* The measurement.                                                        *)
(***************************************************************************)
measureVars == <<mediaVars, netVars, threadVars, setting, rec, owed, stray>>

PopTick ==
    /\ popTime < left.popTime /\ popTime' = popTime + 1
    /\ UNCHANGED <<measureVars, popped, popSeen, left>>

\* Pop id is seen in the packets within Skew of when it was played, and by OBS within MaxPath of that.
SeePop ==
    /\ left.pops > 0
    /\ \E origin \in Origins, kind \in Kinds, id \in 0 .. left.popTime \div Spacing :
       LET from == id * Spacing
           until == from + (IF origin = "net" THEN Skew ELSE MaxPath)
       IN  /\ popTime \in from .. until
           /\ <<origin, kind, id>> \notin popSeen
           /\ popSeen' = popSeen \cup {<<origin, kind, id>>}
           /\ popped' = [popped EXCEPT ![origin] = Pop(@, kind, popTime, id, id).pops]
    /\ Spend("pops", 1)
    /\ UNCHANGED <<measureVars, popTime>>

----------------------------------------------------------------------------
Next ==
    \/ KeepBack \/ DeviceJumps \/ RecvStrip \/ RecvLate \/ RecvInvalid \/ RecvSound
    \/ Processor \/ Writer
    \/ RestartStream \/ ClientReady \/ SetMixer \/ SwitchDevice \/ RunJob
    \/ Update \/ Destroy \/ Ui
    \/ PopTick \/ SeePop

Spec == Init /\ [][Next]_vars /\ WF_vars(Processor) /\ WF_vars(Writer) /\ WF_vars(SetMixer) /\ WF_vars(Ui)
        /\ WF_vars(RunJob)

----------------------------------------------------------------------------
(***************************************************************************)
(* What is right.                                                          *)
(***************************************************************************)
TypeOK ==
    /\ lock \in {"none", "ui", "proc"} /\ ret \in {"idle", "apply"} /\ alive \in BOOLEAN
    /\ rec.writer.stopping => lock # "none"
    /\ owed \in Nat /\ rec.drops \in Nat

\* A picture is made of one frame of one device (c64-video.c:691-770, 1412-1446).
PicturesWhole == shown.n > 0 => Cardinality(shown.strips) = 1

\* Lost frames and packets keep their time: a picture stands at its frame number, a sound at its sequence
\* number, in packets of the format (c64-video.c:1221-1268, c64-audio-timeline.c:20-87, c64-audio.c:218-238).
OnTime ==
    /\ shown.n > 0 /\ shown.ordered => shown.index = shown.strip.frame - shown.first
    /\ heard.n > 0 /\ heard.ordered =>
          heard.times[Len(heard.times)] = (heard.number - heard.first) * SoundInterval[heard.format]

Abs(x) == IF x < 0 THEN -x ELSE x
\* The fill meets the sound on both sides without a step (c64-audio-timeline.c:89-130).
SplicesMeet ==
    \A last, next \in Levels, n \in 1 .. MaxFill :
       LET fill == Fill(last, next, n)
           end  == n * PacketFrames - 1
           step == (Abs(last) + Abs(next)) \div (IF n * PacketFrames < RampSamples THEN n * PacketFrames ELSE RampSamples)
                   + Abs(last) \div FadeSamples + 2
       IN  /\ fill[end] = next
           /\ Abs(fill[0] - last) <= step
           /\ \A s \in 0 .. end - 1 : Abs(fill[s + 1] - fill[s]) <= step

Videos == {name \in DOMAIN rec.disk : name[2] = "video"}
Sounds == {name \in DOMAIN rec.disk : name[2] = "audio"}

\* A file on disk never claims frames it does not have, lags by less than a period, and is exact once it is
\* finished, but for a sound file that outgrew its header (c64-record-writer.c:70-82, c64-record-video.c:41-54,
\* c64-record-audio.c:47-66).
HeadersTrue ==
    /\ \A name \in Videos :
          LET file == rec.disk[name]
              frames == Len(file.chunks)
          IN  IF file.done THEN file.head = frames
              ELSE file.head <= frames /\ frames - file.head < HeaderPeriod
    /\ \A name \in Sounds : rec.disk[name].done =>
          LET head == rec.disk[name].head
              sounds == Len(rec.disk[name].chunks)
          IN  head <= sounds /\ (head < sounds => head = MaxWav)

\* A segment holds frames of its header's format, each once and in order, and no more than fit
\* (c64-record-video.c:299-327).
OneFormat ==
    \A name \in Videos :
       LET file == rec.disk[name]
       IN  /\ Len(file.chunks) <= SegmentFrames
           /\ \A i \in DOMAIN file.chunks : file.chunks[i].fmt = file.fmt

\* The sound file has no holes but those of a new start of the device or a counted drop
\* (c64-audio.c:316-338, c64-record-audio.c:70-90).
SoundWithoutHoles ==
    rec.drops = 0 =>
       \A name \in Sounds :
          LET chunks == rec.disk[name].chunks
          IN  \A i \in 1 .. Len(chunks) - 1 : chunks[i + 1].cut \/ chunks[i + 1].id = chunks[i].id + 1
                                              \/ chunks[i + 1].id = 0

\* A frame or a sound that was due to an open file is in it, on its way, or counted as dropped
\* (c64-record-writer.c:31-34, 150-180).
NothingSilentlyLost == owed = rec.drops + Len(rec.writer.queue) + Len(rec.writer.held)

Quiet == ui.pc = "idle" /\ proc.pc = "idle" /\ ret = "idle"

\* Between two calls: files are open exactly for what is recorded, in a session, and the session ends with
\* the last recording (c64-record.c:499-595).
SessionOfRecording ==
    Quiet =>
       /\ rec.session # 0 => AnyActive(rec)
       /\ rec.session = 0 => \A f \in Files : rec.file[f] = None
       /\ \A f \in {"video", "audio"} : rec.video <=> rec.file[f] # None
       /\ rec.video <=> rec.writer.on
       /\ \A f \in {"obs", "net"} : rec.file[f] # None => rec.csv
       /\ rec.av <=> rec.file["sync"] # None
       /\ \A f \in Files : rec.file[f] # None => rec.file[f][1] = rec.session /\ ~rec.disk[rec.file[f]].done

\* No picture is saved outside the session's folder (c64-record-frames.c:42-66).
ShotsInSession == ~stray

\* Outside a measurement every device has the volume its user set, and so it is when the source has been
\* destroyed in one; no file stays open then (c64-record.c:181-217, 956-999, 1083-1107).
MixerRestored ==
    /\ (Quiet \/ ui.pc = "end") /\ ~rec.av => \A d \in Devices : rec.mixer[d] = UserVolume[d]
    /\ ui.pc = "end" => /\ \A d \in Devices : rec.mixer[d] = UserVolume[d]
                        /\ \A f \in Files : rec.file[f] = None

\* No device plays pops that nobody measures (c64-record.c:1075-1110).  A source that is destroyed while it
\* measures resets no machine and leaves its program there (c64-record.c:956-999).
ProgramStopped ==
    /\ Quiet \/ ui.pc = "end"
    /\ ~rec.av \/ (ui.pc = "end" /\ Window("leftover"))
    /\ rec.jobs = <<>>
    => rec.playing = {}

\* Sound and picture of a pair are of one pop, and so are the two pairs of a row (c64-av-sync.c:84-163).
PairsOfOnePop ==
    LET obs == popped["obs"].match
        net == popped["net"].match
    IN  /\ obs.valid => obs.video.id = obs.audio.id
        /\ net.valid => net.video.id = net.audio.id
        /\ Correlates(obs, net) => obs.video.id = net.video.id /\ obs.audio.id = net.audio.id

\* What OBS is given, what the sound file holds, and what is measured (c64-video.c, c64-audio.c,
\* c64-av-sync.c).
MediaInv == PicturesWhole /\ OnTime /\ SplicesMeet /\ SoundWithoutHoles /\ PairsOfOnePop

\* The recorder: its files, its session, and what it does to the machine (c64-record.c, c64-record-video.c,
\* c64-record-writer.c).
RecorderInv ==
    /\ TypeOK /\ HeadersTrue /\ OneFormat /\ NothingSilentlyLost
    /\ SessionOfRecording /\ ShotsInSession /\ MixerRestored /\ ProgramStopped

\* What is on disk stays there: a file only grows, and a finished one is never written again.  The next
\* recording gets a folder of its own, the next segment a name of its own (c64-record.c:444-499, 796-803,
\* c64-record-video.c:29-93; README.md:404).
FilesOnlyGrow ==
    [][\A name \in DOMAIN rec.disk :
          /\ name \in DOMAIN rec'.disk
          /\ IF rec.disk[name].done THEN rec'.disk[name] = rec.disk[name]
             ELSE IsPrefix(rec.disk[name].chunks, rec'.disk[name].chunks)]_rec

\* The times handed to OBS advance within a stream as long as the format stays, from picture to picture and
\* from packet to packet, through every packet of a filled gap (c64-video.c:572, 1238-1241; c64-audio.c:218-238,
\* 292-338).
TimesAdvance ==
    [][/\ shown.n > 0 /\ shown'.n # shown.n /\ shown'.of = shown.of
             /\ (Window("format") \/ shown'.format = shown.format) => shown'.time > shown.time
       /\ heard'.n # heard.n =>
             /\ \A i \in 1 .. Len(heard'.times) - 1 : heard'.times[i] < heard'.times[i + 1]
             /\ heard.n > 0 /\ heard'.of = heard.of /\ (Window("format") \/ heard'.format = heard.format)
                   => heard.times[Len(heard.times)] < heard'.times[1]]_<<shown, heard>>

\* A change of the settings and a destruction come to their end, and what is queued is written; the thread
\* that waits for the writer holds the lock meanwhile (c64-record-writer.c:125-141).
CallsReturn ==
    /\ ui.pc \notin {"idle", "end"} ~> ui.pc \in {"idle", "end"}
    /\ proc.pc # "idle" ~> proc.pc = "idle"
    /\ rec.writer.queue # <<>> ~> rec.writer.queue = <<>>
----------------------------------------------------------------------------
(***************************************************************************)
(* The inductive invariant behind the properties of the recorder: what     *)
(* holds at every step of every thread, where the properties speak of the  *)
(* pauses between the calls.                                               *)
(***************************************************************************)
\* The windows that reach the recorder are closed.
ClosedWindows == {"second", "reuse", "rollfail", "diskfull", "bmp", "latestop", "mixer", "mixerfail", "device",
                  "jobs", "jobfail", "avfail", "leftover"} \cap Windows = {}

IsSeq(s) == s \in Seq(Range(s))
FlagSets == [{"frames", "csv", "av", "video"} -> BOOLEAN]

\* The shape of a file and of the recorder.
IsFile(f) ==
    /\ DOMAIN f = {"chunks", "fmt", "head", "done"}
    /\ IsSeq(f.chunks) /\ f.head \in Nat /\ f.done \in BOOLEAN

IsRecorder(r) ==
    /\ DOMAIN r = {"frames", "csv", "av", "video", "session", "sessions", "file", "segment", "audioBytes", "writer",
                   "drops", "prg", "snapshot", "jobs", "playing", "disk", "mixer", "host"}
    /\ DOMAIN r.file = Files /\ DOMAIN r.segment = {"index", "fmt", "frames"}
    /\ DOMAIN r.writer = {"on", "queue", "stopping", "held", "written"}
    /\ {r.frames, r.csv, r.av, r.video, r.prg, r.writer.on, r.writer.stopping} \subseteq BOOLEAN
    /\ {r.session, r.sessions, r.audioBytes, r.drops, r.segment.index, r.segment.frames, r.writer.written} \subseteq Nat
    /\ IsSeq(r.writer.queue) /\ IsSeq(r.writer.held) /\ Len(r.writer.held) <= 1
    /\ \A n \in DOMAIN r.disk : n \in Names /\ IsFile(r.disk[n])
    /\ IsSeq(r.jobs) /\ \A i \in DOMAIN r.jobs : r.jobs[i] \in {Job(a, d) : a \in {"run", "reset"}, d \in Devices}
    /\ r.playing \subseteq Devices /\ r.host \in Devices /\ DOMAIN r.mixer = Devices

\* Where the UI thread goes when the session has been looked at.
Heading == IF ui.pc \in {"check", "clean"} THEN ui.back ELSE ui.pc
BeforeCsv == {"frames", "csv"}
BeforeAv == BeforeCsv \cup {"obs", "net", "obsoff", "netoff", "av"}
BeforeVideo == BeforeAv \cup {"avfile", "avset", "run", "avoff", "avstop", "reset", "video"}
UiPcs == BeforeVideo \cup {"idle", "start", "open", "stop", "lock", "join", "check", "clean", "destroy", "last", "end"}
ProcPcs == {"idle", "publish", "frames", "shot", "bmp", "video", "frame", "roll", "out", "sound", "chunk"}

ShapeInv ==
    /\ IsRecorder(rec) /\ setting \in FlagSets
    /\ DOMAIN ui = {"pc", "want", "back"} /\ ui.pc \in UiPcs /\ ui.back \in {"idle", "csv", "av", "reset"}
    /\ ui.pc \notin {"idle", "destroy", "last", "end"} => ui.want \in FlagSets
    /\ DOMAIN proc = {"pc", "packet", "todo"} /\ proc.pc \in ProcPcs
    /\ ret \in {"idle", "apply"} /\ lock \in {"none", "ui", "proc"} /\ alive \in BOOLEAN /\ stray \in BOOLEAN

\* Who holds recording_mutex across steps, and what is over when the source is destroyed.
LockInv ==
    /\ lock = "proc" <=> proc.pc = "roll"
    /\ lock = "ui" <=> ui.pc \in {"join", "last"}
    /\ rec.writer.stopping => lock # "none"
    /\ ui.pc \in {"destroy", "last", "end"} => ~alive
    /\ ui.pc \in {"last", "end"} => proc.pc = "idle" /\ ret = "idle"

VideoDone(r, s) == <<s, "video", 0>> \in DOMAIN r.disk /\ r.disk[<<s, "video", 0>>].done
Handle(r, f) == IF f = "video" THEN Segment(r, r.segment.index) ELSE Name(r, f)

\* The names on disk and the open handles.
DiskInv(r) ==
    /\ r.session <= r.sessions
    /\ \A f \in Files : r.file[f] # None =>
          /\ r.session # 0 /\ r.file[f] = Handle(r, f)
          /\ r.file[f] \in DOMAIN r.disk /\ ~r.disk[r.file[f]].done
    /\ \A n \in DOMAIN r.disk :
          /\ n[1] <= r.sessions
          /\ ~r.disk[n].done => r.disk[n].chunks = <<>> \/ r.file[n[2]] = n
          /\ n[2] \notin {"video", "audio"} => r.disk[n].chunks = <<>>
          /\ n[2] = "audio" /\ r.disk[n].done => VideoDone(r, n[1])
          /\ n[2] = "video" /\ n[3] > 0 => VideoDone(r, n[1])
          /\ r.file["video"] # None /\ n[1] = r.session /\ n[2] = "video" => n[3] <= r.segment.index

\* The writer and the frames on their way to it.
Pipeline(r) == r.writer.held \o r.writer.queue
FramesIn(s) == Cardinality({i \in DOMAIN s : s[i].kind = "video"})
WriterInv(r) ==
    /\ r.writer.on <=> r.file["video"] # None
    /\ r.writer.on <=> r.file["audio"] # None
    /\ ~r.writer.on => r.writer.queue = <<>> /\ r.writer.held = <<>>
    /\ \A i \in DOMAIN Pipeline(r) : /\ Pipeline(r)[i].kind \in {"video", "audio"}
                                     /\ Pipeline(r)[i].kind = "video" => Pipeline(r)[i].fmt = r.segment.fmt

\* What the counters of the recorder say of the open files.
CountInv(r) ==
    r.writer.on =>
       LET video == r.disk[r.file["video"]]
       IN  /\ r.writer.written = Len(video.chunks)
           /\ r.segment.frames = r.writer.written + FramesIn(Pipeline(r))
           /\ r.segment.frames <= SegmentFrames /\ r.segment.fmt = video.fmt
           /\ video.head = r.writer.written - (r.writer.written % HeaderPeriod)
           /\ r.audioBytes = Len(r.disk[r.file["audio"]].chunks)

\* The files, open or not.
ContentInv(r) ==
    \A n \in DOMAIN r.disk :
       LET file == r.disk[n]
       IN  /\ n[2] \in {"video", "audio"} /\ file.done => file.head = InHeader(n[2], Len(file.chunks))
           /\ n[2] = "video" => /\ Len(file.chunks) <= SegmentFrames
                                /\ \A i \in DOMAIN file.chunks : file.chunks[i].fmt = file.fmt
           /\ n[2] = "video" /\ ~file.done /\ r.file["video"] # n => file.head = 0

VideoOpen == rec.file["video"] # None

\* What is switched on, and which files that has opened, at every step of the settings.
SwitchInv ==
    /\ IF ui.pc \in {"start", "open"} THEN rec.video /\ ~VideoOpen
       ELSE IF ui.pc \in {"stop", "lock", "join"} THEN ~rec.video /\ VideoOpen
       ELSE ui.pc # "end" => (rec.video <=> VideoOpen)
    /\ rec.file["obs"] # None => rec.csv \/ ui.pc = "obsoff"
    /\ rec.file["net"] # None => rec.csv \/ ui.pc \in {"obsoff", "netoff"}
    /\ ui.pc \in {"obs", "net"} => rec.csv
    /\ ui.pc \in {"obsoff", "netoff"} => ~rec.csv
    /\ IF ui.pc \in {"avset", "avstop"} THEN ~rec.av /\ rec.file["sync"] # None
       ELSE ui.pc # "end" => (rec.av <=> rec.file["sync"] # None)
    /\ ui.pc = "avfile" => ~rec.av
    /\ ui.pc \in {"run", "avoff"} => rec.av
    /\ ui.pc = "end" => \A f \in Files : rec.file[f] = None

\* A session outlives its recordings only on the way to its end.
SessionInv ==
    /\ rec.session # 0 => AnyActive(rec) \/ ui.pc \in {"obsoff", "netoff", "avset", "avstop", "stop", "lock", "join",
                                                      "check", "clean", "destroy", "last", "end"}
    /\ ui.pc = "clean" => ~AnyActive(rec)
    /\ proc.pc = "shot" => rec.frames
    /\ proc.pc = "bmp" => rec.session # 0
    /\ ~stray

\* A recording that is about to begin has no finished file in the session.
NoReuseInv ==
    /\ rec.csv /\ ui.pc # "end" => ~Finished(rec, "obs") /\ ~Finished(rec, "net")
    /\ Heading \in BeforeCsv /\ ui.want.csv /\ ~rec.csv => ~Finished(rec, "obs") /\ ~Finished(rec, "net")
    /\ Heading \in BeforeAv /\ ui.want.av /\ ~rec.av => ~Finished(rec, "sync")
    /\ ui.pc = "avfile" => ~Finished(rec, "sync")
    /\ Heading \in BeforeVideo /\ ui.want.video /\ ~rec.video => ~Finished(rec, "video")
    /\ ui.pc \in {"start", "open"} => ~Finished(rec, "video")

\* The processor rolls a segment only while the recording is open.
RollInv ==
    /\ proc.pc = "roll" => VideoOpen
    /\ proc.pc = "frame" /\ (~VideoOpen \/ ui.pc = "join") => ~NeedsRoll(rec, Format)

\* The mixer of the device and the program on it.
WillPlay(r, d) == \/ \E i \in DOMAIN r.jobs : /\ r.jobs[i] = Job("run", d)
                                              /\ \A j \in DOMAIN r.jobs : j > i => r.jobs[j] # Job("reset", d)
                  \/ d \in r.playing /\ \A j \in DOMAIN r.jobs : r.jobs[j] # Job("reset", d)
MachineInv ==
    /\ \A d \in Devices : rec.snapshot = None \/ d # rec.host => rec.mixer[d] = UserVolume[d]
    /\ rec.snapshot # None => rec.snapshot = UserVolume[rec.host] /\ (rec.av \/ ui.pc \in {"avfile", "avset"})
    /\ ui.pc \in {"avoff", "last", "end"} => rec.snapshot = None /\ ret = "idle"
    /\ ret = "apply" => rec.av
    /\ \A d \in Devices : WillPlay(rec, d) => rec.prg /\ d = rec.host
    /\ rec.prg => rec.av \/ ui.pc = "avstop" \/ Heading = "reset"

IInv ==
    /\ ShapeInv /\ LockInv /\ DiskInv(rec) /\ WriterInv(rec) /\ CountInv(rec) /\ ContentInv(rec)
    /\ SwitchInv /\ SessionInv /\ NoReuseInv /\ RollInv /\ MachineInv /\ NothingSilentlyLost
=============================================================================
