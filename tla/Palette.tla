------------------------------- MODULE Palette -------------------------------
(***************************************************************************)
(* Palettes at work.  The OBS UI thread runs the handlers of the           *)
(* properties dialog, which edit the catalogue all sources share and the   *)
(* source's own settings; the graphics thread runs c64_update for a source *)
(* whose settings changed; a worker of the follower, a source that shows   *)
(* its device's own palette, asks the device for it; the receiver takes    *)
(* palettes from the device's stream.                                      *)
(*                                                                         *)
(* A scene bounds what the user, the disk and the device do; one is chosen *)
(* at the start.  Windows names the schedules and faults that the code     *)
(* leaves open and the properties do not survive; one that is not in the   *)
(* set is closed.                                                          *)
(***************************************************************************)
EXTENDS PaletteFollow, FiniteSetsExt

CONSTANTS
    Scenes,          \* what may happen: see left
    Sources,
    Follower,        \* the source with a device
    FollowId,        \* C64_DEVICE_PALETTE_ID
    Colors,          \* what the user may set a colour to
    Customs,         \* ids a custom palette may have
    Devices,
    FirstDevice,
    FileColors,      \* device, version of its palette file -> its colours
    FileSize,        \* version -> size
    StreamColors,    \* device, generation -> colours of its stream's palette
    MaxVersion,      \* bound: versions of a file
    RecheckPolls,    \* C64_PALETTE_CONTENT_RECHECK_POLLS
    Windows

VARIABLES
    cat, disk,       \* the catalogue; the palette files
    set, pending,    \* each source's settings; sources with an update to come
    pal,             \* what palette_mutex guards in each source
    dialog, ui, tick,   \* source whose properties are open; the UI and graphics thread
    had,             \* the tables each palette has had, Default's while its file is gone
    dev, gen,        \* the follower's device id and host; palette_device_generation
    on, rest,        \* streaming; the transport is not Force Legacy
    wake, reset, settled, stop,   \* flags to the worker; the switch is C64_PALETTE_SWITCH_SETTLE_MS ago
    recv,            \* a palette packet whose sender was tested
    job, st,         \* the worker's poll; its follow_state_t
    cache, verified, \* the cache's files; those compared moments ago
    status,          \* palette_source
    world,           \* each device's palette: setting, version of the file, stream
    left             \* what the scene still allows

catVars    == <<cat, disk, had>>
sourceVars == <<set, pending>>
threadVars == <<dialog, ui, tick>>
deviceVars == <<dev, gen, on, rest>>
flagVars   == <<wake, reset, settled, stop>>
workerVars == <<job, st, cache, verified, status>>
vars == <<catVars, sourceVars, pal, threadVars, deviceVars, flagVars, workerVars, recv, world, left>>

Window(name) == name \in Windows

Paths == [device : Devices, size : Range(FileSize)]     \* of the cache
Path(device, size) == [device |-> device, size |-> size]
Applied(kind, path) == [kind |-> kind, path |-> path]     \* applied_key
NoState == [name |-> FALSE, size |-> None, polls |-> 0, applied |-> Applied("none", None)]
IdleJob == [pc |-> "idle", gen |-> None, key |-> None, host |-> None, changed |-> FALSE, recheck |-> FALSE,
            found |-> None, path |-> None]
IdleUi == [pc |-> "idle", source |-> None]
IdleTick == [pc |-> "idle", source |-> None]
NoPacket == [device |-> None, generation |-> 0]

\* The palettes are read from the disk; then the sources are created.
Files(ids) ==
    [p \in {InFolder(id) : id \in Customs \cup DOMAIN Shipped} \cup {InPlugin(id) : id \in DOMAIN Shipped} |->
        IF p.dir = "data" THEN Shipped[p.id]
        ELSE IF p.id \in DOMAIN ids THEN ids[p.id] ELSE None]

Init ==
    /\ left \in Scenes
    /\ disk = Files(left.files)
    /\ cat = Startup(disk)
    /\ had = [id \in Customs \cup DOMAIN Shipped \cup {"Default"} |->
                 IF id \in DOMAIN left.files THEN {left.files[id].colors}
                 ELSE IF id \in DOMAIN Shipped THEN {Shipped[id].colors}
                 ELSE IF id = "Default" THEN {DefaultColors} ELSE {}]
    /\ set = [s \in Sources |-> [id |-> left.start[s], colors |-> None, device |-> FirstDevice]]
    /\ pal = [s \in Sources |-> NoFollow(DefaultColors, FirstDevice)]
    /\ pending = {s \in Sources : left.start[s] # "Default"} /\ dialog = None /\ ui = IdleUi /\ tick = IdleTick
    /\ dev = [id |-> FirstDevice, host |-> FirstDevice] /\ gen = 0 /\ on = TRUE /\ rest = TRUE
    /\ wake = FALSE /\ reset = FALSE /\ settled = TRUE /\ stop = FALSE
    /\ job = IF left.worker THEN IdleJob ELSE [IdleJob EXCEPT !.pc = "ended"]
    /\ recv = NoPacket /\ st = NoState /\ cache = [p \in Paths |-> None] /\ verified = {} /\ status = "off"
    /\ world = [d \in Devices |-> [name |-> TRUE, version |-> 0, generation |-> GenMod - 1]]

Spend(what) == left[what] > 0 /\ left' = [left EXCEPT ![what] = @ - 1]

----------------------------------------------------------------------------
(***************************************************************************)
(* What a source shows.                                                    *)
(***************************************************************************)
\* c64_source_apply_palette: the source's own colours, where it has them,
\* replace those of its palette.  c and d are the catalogue and the disk.
ColorsOf(c, d, own) == IF own.colors # None THEN own.colors ELSE Resolved(c, d, own.id)
Apply(c, d, s, own) ==
    LET follow == own.id = FollowId
    IN  /\ pal' = [pal EXCEPT ![s] = ApplyPalette(@, follow, IF follow THEN None ELSE ColorsOf(c, d, own))]
        /\ cat' = IF follow THEN c ELSE Resolve(c, d, own.id)
        /\ wake' = (wake \/ (s = Follower /\ follow # pal[s].follow))

\* update_palette_color_properties: the colour pickers show the working colours.
WithPickers(c, own) == [own EXCEPT !.colors = c.working]

Shows(id, colors) == had' = [had EXCEPT ![id] = @ \cup {colors}]

----------------------------------------------------------------------------
(***************************************************************************)
(* The properties dialog.  Each change asks OBS for an update first.       *)
(***************************************************************************)
UiIdle(s) == ui.pc = "idle" /\ dialog = s
Editing(s) == UiIdle(s) /\ set[s].id # FollowId

\* palette_changed, and the colours the dialog shows after it.
PaletteChanged(c, d, s, own) ==
    LET load == own.id # FollowId /\ ActiveId(c) # own.id
        next == IF load THEN Select(c, d, own.id) ELSE c
    IN IF own.id = FollowId \/ (load /\ ~Readable(c, d, own.id))
       THEN set' = [set EXCEPT ![s] = own] /\ cat' = c /\ UNCHANGED <<pal, wake>>
       ELSE LET now == WithPickers(next, own)
            IN set' = [set EXCEPT ![s] = now] /\ Apply(next, d, s, now)

\* c64_palette_validate_filesystem(settings), and Default's colours.
Validated(c, own) ==
    LET stale == own.id # FollowId /\ Find(c, own.id) = 0
    IN IF stale \/ ActiveMissing(cat, disk) THEN [own EXCEPT !.id = "Default"] ELSE own

\* Another source's palette is the active one, and its file is gone.
LosesSelection(s) == ActiveMissing(cat, disk) /\ ActiveId(cat) # set[s].id

\* A file found by the way is sorted in before the active palette.
MovesActive(c) == ~ActiveMissing(cat, disk) /\ ActiveId(c) # ActiveId(cat)

OpenDialog ==
    /\ \E s \in Sources :
          LET c == Validate(cat, disk)
              v == Validated(c, set[s])
              own == IF v.id = "Default" THEN WithPickers(c, v) ELSE v
          IN  /\ dialog = None /\ ui.pc = "idle"
              /\ Window("reset") \/ ~LosesSelection(s)
              /\ Window("drop") \/ ~MovesActive(c)
              /\ Window("shared") \/ pending \cup {tick.source} \subseteq {s, None}
              /\ dialog' = s /\ pending' = pending \cup {s}
              /\ PaletteChanged(c, disk, s, own)
    /\ Spend("dialogs")
    /\ UNCHANGED <<disk, had, ui, tick, deviceVars, reset, settled, stop, workerVars, recv, world>>

CloseDialog ==
    /\ dialog # None /\ ui.pc = "idle"
    /\ dialog' = None
    /\ UNCHANGED <<catVars, sourceVars, pal, ui, tick, deviceVars, flagVars, workerVars, recv, world, left>>

Choose ==
    /\ \E s \in Sources, id \in {e.id : e \in ToSet(cat.list)} \cup {FollowId} :
          /\ UiIdle(s) /\ id # set[s].id
          /\ id = FollowId => s = Follower
          /\ PaletteChanged(cat, disk, s, [set[s] EXCEPT !.id = id])
          /\ pending' = pending \cup {s}
    /\ Spend("choices")
    /\ UNCHANGED <<disk, had, threadVars, deviceVars, reset, settled, stop, workerVars, recv, world>>

\* No update is to come that selects the source's palette again.
Selected(s) == (s \in pending \/ tick.source = s) => ActiveId(cat) = set[s].id

\* palette_color_changed.  OBS has stored the colour; one that the working
\* colours have already is no edit.
Edit ==
    /\ \E s \in Sources, i \in DOMAIN DefaultColors, color \in Colors :
          /\ Editing(s) /\ set[s].colors # None /\ set[s].colors[i] # color
          /\ Window("hasty") \/ Selected(s)
          /\ set' = [set EXCEPT ![s].colors[i] = color]
          /\ pending' = pending \cup {s}
          /\ IF cat.working[i] = color THEN UNCHANGED <<cat, ui>>
             ELSE /\ cat' = [cat EXCEPT !.working[i] = color, !.modified = TRUE]
                  /\ ui' = [pc |-> "save", source |-> s]
    /\ Spend("edits")
    /\ UNCHANGED <<disk, had, pal, dialog, tick, deviceVars, flagVars, workerVars, recv, world>>

\* c64_palette_auto_save, which may fail to write the file.
Save ==
    /\ ui.pc = "save"
    /\ \E written \in {TRUE} \cup {~Window("disk")} :
          IF cat.modified /\ written
          THEN /\ disk' = [disk EXCEPT ![SavePath(cat)] = FileOf(cat, SaveName(cat))]
               /\ cat' = AutoSave(cat, disk')
               /\ Shows(SavePath(cat).id, cat.working)
               /\ ui' = [ui EXCEPT !.pc = IF Edited(cat).shipped THEN "name" ELSE "apply"]
          ELSE ui' = [ui EXCEPT !.pc = "apply"] /\ UNCHANGED catVars
    /\ UNCHANGED <<sourceVars, pal, dialog, tick, deviceVars, flagVars, workerVars, recv, world, left>>

\* The settings name the copy the edit of a shipped palette created.
Name ==
    /\ ui.pc = "name"
    /\ set' = [set EXCEPT ![ui.source].id = ActiveId(cat)]
    /\ ui' = [ui EXCEPT !.pc = "apply"]
    /\ UNCHANGED <<catVars, pending, pal, dialog, tick, deviceVars, flagVars, workerVars, recv, world, left>>

ApplyEdit ==
    /\ ui.pc = "apply"
    /\ Apply(cat, disk, ui.source, set[ui.source])
    /\ ui' = IdleUi
    /\ UNCHANGED <<disk, had, sourceVars, dialog, tick, deviceVars, reset, settled, stop, workerVars, recv, world, left>>

\* palette_import_path_changed: a palette file from elsewhere.
ImportFile ==
    /\ \E s \in Sources, id \in left.imports :
          LET path == InFolder(id)
          IN  /\ Editing(s) /\ Importable(cat, id)
              /\ disk' = [disk EXCEPT ![path] = left.outside[id]]
              /\ cat' = Import(cat, disk', path)
              /\ Shows(id, left.outside[id].colors)
              /\ set' = IF Find(cat', id) = 0 THEN set     \* refused
                         ELSE [set EXCEPT ![s] = WithPickers(cat', [@ EXCEPT !.id = ActiveId(cat')])]
              /\ pending' = pending \cup {s}
    /\ Spend("files1")
    /\ UNCHANGED <<pal, threadVars, deviceVars, flagVars, workerVars, recv, world>>

\* palette_export_path_changed, into the palettes' folder.
Export ==
    /\ \E s \in Sources, id \in left.exports :
          LET path == InFolder(id)
          IN  /\ Editing(s)
              /\ Window("preset") \/ ~Preset(cat, id)
              /\ disk' = [disk EXCEPT ![path] = FileOf(cat, left.outside[id].name)]
              /\ cat' = SaveAs(cat, disk', left.outside[id].name, path)
              /\ Shows(id, cat.working)
              /\ pending' = pending \cup {s}
    /\ Spend("files1")
    /\ UNCHANGED <<set, pal, threadVars, deviceVars, flagVars, workerVars, recv, world>>

\* palette_delete_clicked.
DeletePalette ==
    /\ \E s \in Sources :
          LET id  == set[s].id
              c   == Delete(cat, disk, id)
              own == WithPickers(c, [set[s] EXCEPT !.id = "Default"])
          IN  /\ Editing(s) /\ Find(cat, id) # 0 /\ ~Preset(cat, id)
              /\ Window("hasty") \/ Selected(s)
              /\ disk' = [disk EXCEPT ![cat.list[Find(cat, id)].path] = None]
              /\ set' = [set EXCEPT ![s] = own]
              /\ pending' = pending \cup {s}
              /\ Apply(c, disk', s, own)
    /\ Spend("files1")
    /\ UNCHANGED <<had, threadVars, deviceVars, reset, settled, stop, workerVars, recv, world>>

----------------------------------------------------------------------------
(***************************************************************************)
(* Outside the dialog.                                                     *)
(***************************************************************************)
\* Something else updates a source: a hot key, a script, the effects.
Poke ==
    /\ \E s \in Sources :
          /\ Window("shared") \/ dialog \in {None, s}
          /\ pending' = pending \cup {s}
    /\ Spend("pokes")
    /\ UNCHANGED <<catVars, set, pal, threadVars, deviceVars, flagVars, workerVars, recv, world>>

\* A script selects a palette: only the id changes.
ScriptPalette ==
    /\ \E s \in Sources, e \in ToSet(cat.list) :
          /\ Window("shared") \/ dialog \in {None, s}
          /\ Window("script") \/ set[s].colors = None
          /\ set' = [set EXCEPT ![s].id = e.id]
          /\ pending' = pending \cup {s}
    /\ Spend("pokes")
    /\ UNCHANGED <<catVars, pal, threadVars, deviceVars, flagVars, workerVars, recv, world>>

\* The user removes palette files and puts some into the folder.
Gone == {e \in ToSet(cat.list) : ~e.shipped /\ disk[e.path] = None}
RemoveFile ==
    /\ Window("away") \/ dialog = None
    /\ Window("two") \/ Gone = {}
    /\ \E id \in left.removable :
          /\ disk[InFolder(id)] # None
          /\ disk' = [disk EXCEPT ![InFolder(id)] = None]
          /\ Shows(id, DefaultColors)
    /\ Spend("removes")
    /\ UNCHANGED <<cat, sourceVars, pal, threadVars, deviceVars, flagVars, workerVars, recv, world>>

\* It is found by the next validation that misses a file.
DropFile ==
    /\ \E id \in left.imports :
          /\ disk[InFolder(id)] = None /\ Find(cat, id) = 0
          /\ disk' = [disk EXCEPT ![InFolder(id)] = left.outside[id]]
          /\ Shows(id, left.outside[id].colors)
    /\ Spend("drops")
    /\ UNCHANGED <<cat, sourceVars, pal, threadVars, deviceVars, flagVars, workerVars, recv, world>>

SelectDevice ==
    /\ \E d \in Devices :
          /\ d # set[Follower].device
          /\ Window("shared") \/ dialog \in {None, Follower}
          /\ set' = [set EXCEPT ![Follower].device = d]
    /\ pending' = pending \cup {Follower}
    /\ Spend("switches")
    /\ UNCHANGED <<catVars, pal, threadVars, deviceVars, flagVars, workerVars, recv, world>>

\* Not before the worker has shown that there is no REST to ask with.
Adopted == st.applied.kind \in {"none", "no-rest"}
ToggleRest ==
    /\ Window("rest") \/ rest \/ ~pal[Follower].follow \/ Adopted
    /\ rest' = ~rest
    /\ Spend("toggles")
    /\ UNCHANGED <<catVars, sourceVars, pal, threadVars, dev, gen, on, flagVars, workerVars, recv, world>>

----------------------------------------------------------------------------
(***************************************************************************)
(* c64_update on the graphics thread: the device id, the host, the palette.*)
(***************************************************************************)
Begin(s) == tick.pc = "idle" /\ s \in pending /\ (Window("tick") \/ ui.pc = "idle")

UpdateId ==
    /\ Begin(Follower) /\ dev.id # set[Follower].device
    /\ pending' = pending \ {Follower}
    /\ dev' = [dev EXCEPT !.id = set[Follower].device]
    /\ gen' = gen + 1
    /\ pal' = [pal EXCEPT ![Follower].order = None]
    /\ tick' = [pc |-> "host", source |-> Follower]
    /\ UNCHANGED <<catVars, set, dialog, ui, on, rest, flagVars, workerVars, recv, world, left>>

UpdateHost ==
    /\ tick.pc = "host"
    /\ Window("packet") \/ recv = NoPacket
    /\ dev' = [dev EXCEPT !.host = dev.id]
    /\ gen' = gen + 1
    /\ pal' = [pal EXCEPT ![Follower] = DeviceChanged(@, dev.id)]
    /\ on' = FALSE /\ settled' = FALSE /\ reset' = TRUE /\ wake' = TRUE
    /\ tick' = [tick EXCEPT !.pc = "palette"]
    /\ UNCHANGED <<catVars, sourceVars, dialog, ui, rest, stop, workerVars, recv, world, left>>

\* Mutant: what the dialog has selected, by an export say, stays.
Unselected(own) == cat

\* The source's palette becomes the one that is edited.
Reselected(own) == IF own.id \in {FollowId, ActiveId(cat)} THEN cat ELSE Select(cat, disk, own.id)

UpdatePalette ==
    /\ \E s \in Sources :
          LET own == set[s]
              c   == Reselected(own)
          IN  /\ \/ tick.pc = "palette" /\ s = tick.source /\ UNCHANGED pending
                 \/ Begin(s) /\ (s = Follower => dev.id = own.device) /\ pending' = pending \ {s}
              /\ Apply(c, disk, s, own)
    /\ tick' = IdleTick
    /\ UNCHANGED <<disk, had, set, dialog, ui, deviceVars, reset, settled, stop, workerVars, recv, world, left>>

\* The retry worker starts the stream of the device; its video arrives.
StartStream ==
    /\ ~on /\ tick.pc = "idle" /\ recv = NoPacket
    /\ on' = TRUE /\ wake' = TRUE
    /\ UNCHANGED <<catVars, sourceVars, pal, threadVars, dev, gen, rest, reset, settled, stop, workerVars, recv, world, left>>

FirstPacket ==
    /\ on /\ pal[Follower].cutover # None
    /\ pal' = [pal EXCEPT ![Follower] = CutOver(@)]
    /\ UNCHANGED <<catVars, sourceVars, threadVars, deviceVars, flagVars, workerVars, recv, world, left>>

----------------------------------------------------------------------------
(***************************************************************************)
(* The device's stream, and time.                                          *)
(***************************************************************************)
\* c64_packet_admit, without a lock: only the selected device's palettes pass.
AdmitPalette ==
    /\ on /\ recv = NoPacket
    /\ recv' = [device |-> dev.host, generation |-> world[dev.host].generation]
    /\ Spend("packets")
    /\ UNCHANGED <<catVars, sourceVars, pal, threadVars, deviceVars, flagVars, workerVars, world>>

\* The section under palette_mutex: nothing asks for the sender again.
TakePalette ==
    /\ recv # NoPacket
    /\ pal' = [pal EXCEPT ![Follower] = StreamPacket(@, recv.generation, StreamColors[recv.device][recv.generation])]
    /\ wake' = (wake \/ (pal[Follower].follow /\ ~pal[Follower].fresh))
    /\ recv' = NoPacket
    /\ UNCHANGED <<catVars, sourceVars, threadVars, deviceVars, reset, settled, stop, workerVars, world, left>>

\* The worker looks at the stream's palette while it is fresh: a poll takes
\* less than C64_PALETTE_STREAM_FRESH_NS.
Noticed == st.applied.kind = "none" \/ ~pal[Follower].follow \/ ~rest \/ job.pc = "ended"
Stale ==
    /\ pal[Follower].fresh /\ (Window("slow") \/ Noticed)
    /\ pal' = [pal EXCEPT ![Follower].fresh = FALSE]
    /\ UNCHANGED <<catVars, sourceVars, threadVars, deviceVars, flagVars, workerVars, recv, world, left>>

GraceEnds ==
    /\ pal[Follower].grace
    /\ pal' = [pal EXCEPT ![Follower].grace = FALSE]
    /\ UNCHANGED <<catVars, sourceVars, threadVars, deviceVars, flagVars, workerVars, recv, world, left>>

CutOverOverdue ==
    /\ pal[Follower].cutover # None /\ ~pal[Follower].overdue
    /\ pal' = [pal EXCEPT ![Follower].overdue = TRUE]
    /\ UNCHANGED <<catVars, sourceVars, threadVars, deviceVars, flagVars, workerVars, recv, world, left>>

Settle ==
    /\ ~settled
    /\ settled' = TRUE
    /\ UNCHANGED <<catVars, sourceVars, pal, threadVars, deviceVars, wake, reset, stop, workerVars, recv, world, left>>

Forget ==
    /\ verified # {}
    /\ verified' = {}
    /\ UNCHANGED <<catVars, sourceVars, pal, threadVars, deviceVars, flagVars, job, st, cache, status, recv, world, left>>

Time == Stale \/ GraceEnds \/ CutOverOverdue \/ Settle \/ Forget

\* On the device: another file or none is set, it is overwritten, the
\* palette of the stream changes.
ChangeDevice ==
    /\ \E d \in Devices :
          \/ world' = [world EXCEPT ![d].name = ~@]
          \/ \E v \in 0 .. MaxVersion : v # world[d].version /\ world' = [world EXCEPT ![d].version = v]
          \/ world' = [world EXCEPT ![d].generation = (@ + 1) % GenMod]
    /\ Spend("changes")
    /\ UNCHANGED <<catVars, sourceVars, pal, threadVars, deviceVars, flagVars, workerVars, recv>>

----------------------------------------------------------------------------
(***************************************************************************)
(* The worker.  A poll copies what it needs of the device first; what it   *)
(* finds is for the generation of that copy.                               *)
(***************************************************************************)
Current == job.gen = gen
EndPoll == job' = IdleJob
Succeed(what) == EndPoll /\ status' = IF Current THEN what ELSE status
Fail == EndPoll /\ status' = IF Current /\ ~stop THEN "error" ELSE status
Goto(j, pc) == job' = [j EXCEPT !.pc = pc]

\* apply_polled; kind and path become the applied key if it was shown.
ApplyOnce(kind, path, key, colors) ==
    IF st.applied = Applied(kind, path) \/ ~Applies(pal[Follower], Current)
    THEN UNCHANGED pal /\ st' = st
    ELSE /\ pal' = [pal EXCEPT ![Follower] = ApplyPolled(@, Current, key, colors)]
         /\ st' = [st EXCEPT !.applied = Applied(kind, path)]

\* take_reset; a wake asks for it at once, else its time has come.
BeginPoll ==
    /\ job.pc = "idle" /\ ~stop /\ settled
    /\ wake' = FALSE /\ reset' = FALSE
    /\ st' = IF reset THEN NoState ELSE st
    /\ Goto(IdleJob, "read")
    /\ UNCHANGED <<catVars, sourceVars, pal, threadVars, deviceVars, settled, stop, cache, verified, status, recv, world, left>>

ReadTarget ==
    /\ job.pc = "read"
    /\ Window("half") \/ tick.pc # "host"
    /\ Goto([job EXCEPT !.gen = gen, !.key = dev.id, !.host = dev.host], "check")
    /\ UNCHANGED <<catVars, sourceVars, pal, threadVars, deviceVars, flagVars, st, cache, verified, status, recv, world, left>>

\* Whether to ask the device at all.  A fresh stream's palette is the one to
\* show; the setting is to be applied again once the stream stops.
ClearApplied == st' = [st EXCEPT !.applied = Applied("none", None)]
KeepApplied == st' = st     \* mutant
StreamTakesOver == ClearApplied

Check ==
    LET p == IF pal[Follower].overdue THEN CutOver(pal[Follower]) ELSE pal[Follower]
    IN  /\ job.pc = "check"
        /\ \/ ~p.follow /\ ClearApplied /\ Succeed("off") /\ UNCHANGED pal
           \/ /\ p.follow /\ ~rest
              /\ ApplyOnce("no-rest", None, None, DefaultColors) /\ Succeed("no-rest")
           \/ /\ p.follow /\ rest
              /\ pal' = [pal EXCEPT ![Follower] = p]
              /\ \/ p.fresh /\ StreamTakesOver /\ Succeed("stream")
                 \/ ~p.fresh /\ p.grace /\ Succeed("stream") /\ st' = st
                 \/ ~p.fresh /\ ~p.grace /\ ~on /\ Succeed("waiting") /\ st' = st
                 \/ ~p.fresh /\ ~p.grace /\ on /\ Goto(job, "setting") /\ UNCHANGED status /\ st' = st
        /\ UNCHANGED <<catVars, sourceVars, threadVars, deviceVars, flagVars, cache, verified, recv, world, left>>

\* A request the device does not answer, or one that is cancelled.
Unanswered == (stop /\ UNCHANGED left) \/ (~stop /\ Spend("faults"))

AskSetting ==
    /\ job.pc = "setting"
    /\ \/ /\ Goto([job EXCEPT !.found = world[job.host].name], "named")
          /\ UNCHANGED <<status, left>>
       \/ Unanswered /\ Fail
    /\ UNCHANGED <<catVars, sourceVars, pal, threadVars, deviceVars, flagVars, st, cache, verified, recv, world>>

\* No file is set: the built-in colours.  Else its size is asked for when the
\* setting is new or it is time to look again.
Named ==
    LET changed == ~st.name
        polls   == IF changed THEN st.polls ELSE st.polls + 1
        recheck == ~changed /\ polls >= RecheckPolls
        next    == [job EXCEPT !.changed = changed, !.recheck = recheck, !.found = None]
    IN  /\ job.pc = "named"
        /\ \/ /\ ~job.found
              /\ pal' = [pal EXCEPT ![Follower] =
                           IF st.applied.kind = "builtin" THEN @ ELSE ApplyPolled(@, Current, job.key, DefaultColors)]
              /\ st' = [st EXCEPT !.name = FALSE,
                                  !.applied = IF Applies(pal[Follower], Current) THEN Applied("builtin", None) ELSE @]
              /\ Succeed("builtin")
           \/ /\ job.found
              /\ st' = [st EXCEPT !.polls = polls]
              /\ IF changed \/ st.size = None \/ recheck THEN Goto(next, "size")
                 ELSE Goto([next EXCEPT !.path = Path(job.key, st.size)], "look")
              /\ UNCHANGED <<pal, status>>
        /\ UNCHANGED <<catVars, sourceVars, threadVars, deviceVars, flagVars, cache, verified, recv, world, left>>

AskSize ==
    /\ job.pc = "size"
    /\ \/ LET size == FileSize[world[job.host].version] IN
          /\ st' = [st EXCEPT !.name = TRUE, !.size = size, !.polls = 0]
          /\ Goto([job EXCEPT !.path = Path(job.key, size)], "look")
          /\ UNCHANGED <<status, left>>
       \/ Unanswered /\ Fail /\ st' = [st EXCEPT !.size = None]
    /\ UNCHANGED <<catVars, sourceVars, pal, threadVars, deviceVars, flagVars, cache, verified, recv, world>>

\* A cached file is shown at once; it is fetched and compared if the setting
\* is new, unless that was done moments ago, and every so often.
CachedVersion(path) == IF cache[path] # None /\ FileSize[cache[path].version] = path.size THEN cache[path] ELSE None
Colors16(file) == FileColors[file.device][file.version]

LookInCache ==
    LET file == CachedVersion(job.path) IN
    /\ job.pc = "look"
    /\ IF st.applied = Applied("file", job.path) /\ ~job.recheck
       THEN Succeed("file") /\ UNCHANGED pal /\ st' = st
       ELSE /\ IF file = None THEN UNCHANGED pal /\ st' = st
               ELSE ApplyOnce("file", job.path, job.key, Colors16(file))
            /\ IF file = None \/ job.recheck \/ (job.changed /\ job.path \notin verified)
               THEN Goto([job EXCEPT !.found = file], "fetch") /\ UNCHANGED status
               ELSE Succeed("file")
    /\ UNCHANGED <<catVars, sourceVars, threadVars, deviceVars, flagVars, cache, verified, recv, world, left>>

Fetch ==
    /\ job.pc = "fetch"
    /\ \/ LET file == [device |-> job.host, version |-> world[job.host].version] IN
          IF ~Current THEN EndPoll /\ UNCHANGED <<pal, st, cache, verified, status, left>>
          ELSE /\ verified' = verified \cup {job.path}
               /\ cache' = [cache EXCEPT ![job.path] = file]
               /\ Goto([job EXCEPT !.changed = FALSE, !.found = IF @ = file THEN None ELSE file], "fetched")
               /\ UNCHANGED <<pal, st, status, left>>
       \/ /\ Unanswered
          /\ IF job.found # None THEN Succeed("file") ELSE Fail
          /\ UNCHANGED <<pal, st, cache, verified>>
       \/ Spend("faults") /\ Fail /\ UNCHANGED <<pal, st, cache, verified>>     \* not a palette
    /\ UNCHANGED <<catVars, sourceVars, threadVars, deviceVars, flagVars, recv, world>>

\* A file that is not the cached one is shown.
Fetched ==
    /\ job.pc = "fetched"
    /\ IF job.found = None THEN UNCHANGED <<pal, st>>
       ELSE /\ pal' = [pal EXCEPT ![Follower] = ApplyPolled(@, Current, job.key, Colors16(job.found))]
            /\ st' = IF Applies(pal[Follower], Current) THEN [st EXCEPT !.applied = Applied("file", job.path)] ELSE st
    /\ Succeed("file")
    /\ UNCHANGED <<catVars, sourceVars, threadVars, deviceVars, flagVars, cache, verified, recv, world, left>>

\* c64_palette_follow_stop, which joins the worker.
Stop ==
    /\ ~stop /\ job.pc # "ended"
    /\ stop' = TRUE
    /\ Spend("destroy")
    /\ UNCHANGED <<catVars, sourceVars, pal, threadVars, deviceVars, wake, reset, settled, workerVars, recv, world>>

EndWorker ==
    /\ job.pc = "idle" /\ stop
    /\ job' = [IdleJob EXCEPT !.pc = "ended"]
    /\ UNCHANGED <<catVars, sourceVars, pal, threadVars, deviceVars, flagVars, st, cache, verified, status, recv, world, left>>

Worker ==
    \/ BeginPoll \/ ReadTarget \/ Check \/ AskSetting \/ Named \/ AskSize \/ LookInCache \/ Fetch \/ Fetched
    \/ EndWorker

-----------------------------------------------------------------------------
Dialog == OpenDialog \/ CloseDialog \/ Choose \/ Edit \/ ImportFile \/ Export \/ DeletePalette
Ui == Save \/ Name \/ ApplyEdit
Update == UpdateId \/ UpdateHost \/ UpdatePalette

Next ==
    \/ Dialog \/ Ui \/ Update \/ Worker \/ Time
    \/ Poke \/ ScriptPalette \/ RemoveFile \/ DropFile \/ SelectDevice \/ ToggleRest \/ Stop
    \/ StartStream \/ FirstPacket \/ AdmitPalette \/ TakePalette \/ ChangeDevice

\* Only the follower's scenes ask for progress.
InFollowing(A) == left.worker /\ A
Fairness ==
    /\ WF_vars(InFollowing(Ui)) /\ WF_vars(InFollowing(Update))
    /\ WF_vars(StartStream) /\ WF_vars(FirstPacket) /\ WF_vars(TakePalette)
    /\ WF_vars(Worker) /\ WF_vars(Stale) /\ WF_vars(GraceEnds) /\ WF_vars(Settle)

Spec == Init /\ [][Next]_vars /\ Fairness

-----------------------------------------------------------------------------
(***************************************************************************)
(* Properties.                                                             *)
(***************************************************************************)
Ids == Customs \cup DOMAIN Shipped \cup {"Default"}
Tables == UNION {had[id] : id \in Ids}

TypeOK ==
    /\ pending \subseteq Sources /\ dialog \in Sources \cup {None} /\ DOMAIN set = Sources /\ DOMAIN pal = Sources
    /\ \A s \in Sources : set[s].id \in Ids \cup {FollowId} /\ set[s].device \in Devices
    /\ ui.pc \in {"idle", "save", "name", "apply"} /\ tick.pc \in {"idle", "host", "palette"}
    /\ dev \in [id : Devices, host : Devices] /\ gen \in Nat
    /\ recv = NoPacket \/ recv \in [device : Devices, generation : 0 .. GenMod - 1]
    /\ {on, rest, wake, reset, settled, stop} \subseteq BOOLEAN
    /\ job.pc \in {"idle", "read", "check", "setting", "named", "size", "look", "fetch", "fetched", "ended"}
    /\ status \in {"off", "no-rest", "waiting", "stream", "file", "builtin", "error"}

\* The list keeps each id once, Default first, and the active one in it.
ListKept ==
    /\ cat.active \in DOMAIN cat.list
    /\ cat.list[1].id = "Default"
    /\ \A i, j \in DOMAIN cat.list : Folded[cat.list[i].id] = Folded[cat.list[j].id] => i = j

\* Between two handlers nothing is unsaved: the working colours are the
\* active palette's, and those are in its file.
NothingUnsaved ==
    /\ ui.pc = "idle" => ~cat.modified /\ cat.working = cat.list[cat.active].colors
    /\ \A e \in ToSet(cat.list) :
          ~e.shipped /\ e.loaded /\ disk[e.path] # None => e.colors = disk[e.path].colors

\* "Shipped palettes are always read-only": editing never changes one.
PresetsKept ==
    \A e \in ToSet(cat.list) :
        e.shipped /\ e.loaded => e.colors = IF e.id = "Default" THEN DefaultColors ELSE Shipped[e.id].colors

\* The dialog edits the palette it names.
DialogIsOfActive ==
    dialog # None /\ UiIdle(dialog) /\ dialog \notin pending /\ tick.pc = "idle" /\ set[dialog].id # FollowId =>
        ActiveId(cat) = set[dialog].id

\* A source shows colours its own palette has had, never another source's.
ShowsItsOwn ==
    \A s \in Sources :
        s \notin pending /\ ui.source # s /\ tick.source # s /\ Readable(cat, disk, set[s].id)
            => pal[s].shown \in had[set[s].id]

\* What a device's palette is kept under, and shown for, is that device.
OfDevice(colors, d) == colors = DefaultColors \/ colors \in Range(FileColors[d]) \cup Range(StreamColors[d])
FiledRight ==
    LET p == pal[Follower] IN
    /\ \A m \in ToSet(p.memory) : OfDevice(m.colors, m.key)
    /\ \A path \in Paths : cache[path] # None => cache[path].device = path.device
    /\ p.polled # None => OfDevice(p.polled, p.key)
    /\ p.cutover # None => p.follow /\ OfDevice(p.cutover, p.key)
    /\ p.follow /\ p.cutover = None => OfDevice(p.shown, p.key)

\* The catalogue and what the sources show agree, whatever was edited, saved,
\* imported, deleted or gone from the disk, and whichever device was selected.
PaletteInv ==
    TypeOK /\ ListKept /\ NothingUnsaved /\ PresetsKept /\ DialogIsOfActive /\ ShowsItsOwn /\ FiledRight

\* The file an edit in the dialog of s belongs in.
Home(s) == SavePath([cat EXCEPT !.active = Find(cat, set[s].id)])
Saves(s) ==
    /\ Find(cat, set[s].id) # 0
    /\ \A path \in DOMAIN disk :
          disk'[path] # disk[path] => path = Home(s) /\ disk'[path].colors = set[s].colors
    /\ \A e \in ToSet(cat.list) :
          \/ e.id = Home(s).id
          \/ \E f \in ToSet(cat'.list) : f.id = e.id /\ f.colors = e.colors

\* An edit in a source's dialog is saved to the palette that the source shows,
\* or its custom copy, and to nothing else; when the handler returns the source
\* names that palette, with the edited colours (c64-properties.c:3759-3770).
\* Opening the dialog keeps the selection unless its palette is gone.
EditsStayHome ==
    [][/\ ui.pc = "save" /\ ui'.pc # "save" => Saves(ui.source)
       /\ ui.pc = "apply" /\ ui'.pc = "idle" =>
             LET own == set[ui.source] IN
             Find(cat, own.id) # 0 /\ cat.list[Find(cat, own.id)].colors = own.colors
       /\ dialog = None /\ dialog' # None =>
             \/ set'[dialog'].id = set[dialog'].id
             \/ Find(cat', set[dialog'].id) = 0
      ]_vars

\* The palette of the device the follower shows, and says it shows.
SettingColors == IF world[dev.host].name THEN FileColors[dev.host][world[dev.host].version] ELSE DefaultColors
SaysSo == status = IF world[dev.host].name THEN "file" ELSE "builtin"
Follows ==
    \/ stop \/ ~pal[Follower].follow \/ ~rest
    \/ on /\ dev.host = set[Follower].device /\ pal[Follower].shown = SettingColors /\ SaysSo

\* Once nothing changes any more, a source that follows its device shows the
\* palette set on the device, and says so: also after a switch, a stream with
\* palettes of its own, a file overwritten in place, and failed requests.  A
\* worker that is told to stop ends (c64-palette-follow.c:558-585, 622-631).
FollowsDevice ==
    /\ left.worker => <>[]Follows
    /\ stop ~> job.pc = "ended"
=============================================================================
