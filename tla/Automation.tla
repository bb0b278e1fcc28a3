------------------------------ MODULE Automation ------------------------------
(***************************************************************************)
(* The content automation: a list of files is played on the device, one    *)
(* after the other.  Three threads share it.  The OBS UI thread opens the  *)
(* properties, rebuilds the list, starts, stops, skips and jumps, and      *)
(* destroys the source; a preload thread builds the list in the            *)
(* background; a worker plays it.  status_mutex covers the flags, the      *)
(* index and the publishing of a preloaded list; the list itself, the song *)
(* lengths and the configuration are also used without it.                 *)
(*                                                                         *)
(* One action is one stretch of a thread between two points where another  *)
(* thread can change what it reads.  Indices count from 0 as in the code.  *)
(* Windows names the schedules the code leaves to chance; a window that is *)
(* not in the set is closed by a guard on the schedule.                    *)
(***************************************************************************)
EXTENDS Playlist

CONSTANTS
    Settings,   \* the settings the user chooses from
    Md5,        \* name of a local file -> the MD5 of its content
    TickMs,     \* the worker's sleep between two looks at its flags
    MaxKeys,    \* the keys of the autostart line
    MaxOps,     \* bound: what the user does
    MaxIgnore,  \* the limit of the ignore counter (INT_MAX)
    Windows

VARIABLES
    settings, sel,      \* the stored settings, the selected entry of the dropdown
    view,               \* the page of the dropdown and what the UI remembers of it
    auto, client,       \* the automation object and the REST client it points to
    files, alloc, ready, listed, idx,   \* the list, its memory, its configuration, current_index
    cfg, use,           \* config, use_songlengths
    db, dangling,       \* the loaded song lengths; their entries are freed and not yet replaced
    loads,              \* thread -> the table it has read and not yet stored
    running, stopping, skip,
    preRunning, preValid, pre,          \* the preload's flags and thread
    w, ui,              \* the worker, the UI thread
    refresh,            \* a UI refresh is queued
    asked, fault, ops   \* the entry the user jumped to; history and a bound

setVars  == <<settings, sel, view>>
listVars == <<files, alloc, ready, listed>>
flagVars == <<running, stopping, skip>>
preVars  == <<preRunning, preValid, pre>>
tableVars == <<db, dangling, loads>>
tuneVars == <<cfg, use, tableVars>>
vars == <<setVars, auto, client, listVars, idx, tuneVars, flagVars, preVars, w, ui, refresh, asked, fault, ops>>

Open(name) == name \in Windows

NoUi == [pc |-> "idle", todo |-> <<>>, force |-> FALSE, i |-> 0, end |-> 0, run |-> FALSE, cur |-> 0, ptr |-> "null",
         hold |-> "none"]
NoWork == [pc |-> "gone", i |-> 0, reset |-> FALSE, elapsed |-> 0, ms |-> None, told |-> None,
           next |-> "none", hold |-> "none", keys |-> 0]
NoLoad == [file |-> None, found |-> FALSE, freed |-> FALSE]
NoPre == [pc |-> "gone", cfg |-> None, sel |-> 0, files |-> <<>>]
NoView == [start |-> 0, follow |-> TRUE, pending |-> None, ignore |-> 0, last |-> None]
Prev == -2
Next_  == -3

Init ==
    /\ settings \in Settings /\ sel = 0 /\ view = NoView
    /\ auto = "none" /\ client = "live"
    /\ files = <<>> /\ alloc = "null" /\ ready = FALSE /\ listed = None /\ idx = 0
    /\ cfg = None /\ use = TRUE
    /\ db = None /\ dangling = FALSE /\ loads = [t \in {"ui", "worker"} |-> NoLoad]
    /\ running = FALSE /\ stopping = FALSE /\ skip = FALSE
    /\ preRunning = FALSE /\ preValid = FALSE /\ pre = NoPre
    /\ w = NoWork /\ ui = NoUi /\ refresh = FALSE
    /\ asked = None /\ fault = {} /\ ops = 0

Count == Len(files)
File(i) == files[i + 1]
ClampIndex(i, n) == IF i < 0 \/ i >= n THEN 0 ELSE i

\* What each source, and each folder, yields: constants, evaluated once.
Lists    == <<>> @@ [source \in {Source(c) : c \in Settings \ {None}}, answered \in BOOLEAN |-> Builds(source, answered)]
FoundFor == <<>> @@ [folder \in DOMAIN Tree |-> FindLengths(folder)]
ListsOf(c, answered) == Lists[Source(c), answered]

(***************************************************************************)
(* Song lengths: loaded when first asked for, from the configured file or  *)
(* from one that lies near the folder, by the UI or by the worker.  No lock *)
(* is held from the test of "loaded" to the last store.                    *)
(***************************************************************************)
Other(t) == IF t = "ui" THEN "worker" ELSE "ui"

Wanted ==
    LET direct == IF cfg.lengthsPath = None THEN None ELSE LoadLengths(cfg.lengthsPath)
        found  == FoundFor[cfg.path[1]]
    IN  IF direct # None THEN [NoLoad EXCEPT !.file = direct]
        ELSE IF found = None \/ LoadLengths(found) = None THEN NoLoad
        ELSE [NoLoad EXCEPT !.file = found, !.found = TRUE]

MustLoad == use /\ db = None /\ cfg.source = "local" /\ Wanted # NoLoad
HasLengths  == use /\ db # None

\* The table is not loaded: the thread reads one.
ReadLengths(t) ==
    /\ loads[t] = NoLoad /\ MustLoad
    /\ Open("load") \/ loads[Other(t)] = NoLoad
    /\ loads' = [loads EXCEPT ![t] = Wanted]

\* The entries of the table before are freed ...
FreeLengths(t) ==
    /\ loads[t] # NoLoad /\ ~loads[t].freed
    /\ dangling' = (db # None)
    /\ loads' = [loads EXCEPT ![t].freed = TRUE]
    /\ fault' = IF dangling THEN fault \cup {"song lengths freed twice"} ELSE fault

\* ... and the new ones stored, with the path at which they were found.
StoreTable(t) ==
    /\ loads[t].freed
    /\ db' = loads[t].file /\ dangling' = FALSE
    /\ cfg' = IF loads[t].found THEN [cfg EXCEPT !.lengthsPath = loads[t].file] ELSE cfg
    /\ loads' = [loads EXCEPT ![t] = NoLoad]
    /\ fault' = IF db # None /\ ~dangling THEN fault \cup {"song lengths lost"} ELSE fault

\* A thread that looks a song up in entries that are freed.
Loses(thread) == IF thread.hold = "live" THEN [thread EXCEPT !.hold = "dead"] ELSE thread

Configure(c) ==
    /\ cfg' = c /\ use' = c.lengths
    /\ db' = IF /\ c.lengths /\ c.source = "local" /\ cfg # None /\ use
                /\ cfg.source = c.source /\ cfg.path = c.path /\ cfg.lengthsPath = c.lengthsPath
             THEN db ELSE None
    /\ UNCHANGED <<dangling, loads>>

\* Only these fields change while the list plays.
Runtime(c) == [cfg EXCEPT !.duration = c.duration, !.reset = c.reset, !.lengthsPath = c.lengthsPath]

UpdateRuntime(c) ==
    LET table == IF use = c.lengths /\ cfg.lengthsPath = c.lengthsPath THEN db ELSE None
    IN  /\ Open("lengths") \/ (w.hold # "live" /\ loads["worker"] = NoLoad)
        /\ Open("elapsed") \/ asked = None \/ w.pc # "wait" \/ w.elapsed = 0
        /\ cfg' = Runtime(c) /\ use' = c.lengths /\ db' = table
        /\ w' = IF db # None /\ table # db THEN Loses(w) ELSE w
        /\ dangling' = (dangling /\ table = db)
        /\ UNCHANGED loads

(***************************************************************************)
(* The UI thread.  ui.todo holds what the running handler still has to do. *)
(***************************************************************************)
Goto(pc, todo) == ui' = [NoUi EXCEPT !.pc = pc, !.todo = todo]
Return == IF ui.todo = <<>> THEN ui' = NoUi
          ELSE ui' = [NoUi EXCEPT !.pc = ui.todo[1], !.todo = Tail(ui.todo)]
Then(more) == more \o ui.todo

UserDoes == ui.pc = "idle" /\ auto # "freed" /\ ops < MaxOps /\ ops' = ops + 1

\* Opening the view, or refreshing it, calls the handler of every property once it is built.
BuildView ==
    /\ auto' = IF settings # None /\ auto = "none" /\ client = "live" THEN "live" ELSE auto
    /\ IF settings # None /\ auto' = "live" /\ ~running
       THEN Configure(settings) /\ Goto("preload", <<"list", "refresh", "applied">>)
       ELSE UNCHANGED tuneVars /\ Goto("list", <<"refresh", "applied">>)
    /\ UNCHANGED <<setVars, client, listVars, idx, flagVars, preVars, w, asked, fault>>

OpenView == UserDoes /\ BuildView /\ UNCHANGED refresh
RefreshView == ui.pc = "idle" /\ auto = "live" /\ refresh /\ refresh' = FALSE /\ BuildView /\ UNCHANGED ops

\* The button is disabled while a preload runs.
ClickStartStop ==
    /\ UserDoes /\ auto = "live" /\ (running \/ ~preRunning)
    /\ IF running
       THEN Goto("stop", <<"list">>) /\ UNCHANGED tuneVars
       ELSE IF settings = None
            THEN Goto("refresh", <<"list">>) /\ UNCHANGED tuneVars
            ELSE Goto("refresh", <<"start", "list">>) /\ Configure(settings)
    /\ UNCHANGED <<setVars, auto, client, listVars, idx, flagVars, preVars, w, refresh, asked, fault>>

ClickRefresh ==
    /\ UserDoes /\ auto = "live" /\ ~running /\ ~preRunning
    /\ ui' = [NoUi EXCEPT !.pc = "refresh", !.force = TRUE]
    /\ UNCHANGED <<setVars, auto, client, listVars, idx, tuneVars, flagVars, preVars, w, refresh, asked, fault>>

ClickNext ==
    /\ UserDoes /\ auto = "live"
    /\ skip' = (skip \/ running)
    /\ Goto("list", <<>>)
    /\ UNCHANGED <<setVars, auto, client, listVars, idx, tuneVars, running, stopping, preVars, w, refresh, asked, fault>>

ChangeSettings(c) ==
    /\ UserDoes /\ auto = "live" /\ c # settings
    /\ settings' = c
    /\ Goto("refresh", <<>>)
    /\ UNCHANGED <<sel, view, auto, client, listVars, idx, tuneVars, flagVars, preVars, w, refresh, asked, fault>>

ChangeRuntime(c) ==
    /\ UserDoes /\ auto = "live" /\ c # settings /\ cfg # None
    /\ settings # None /\ c # None
    /\ settings' = [settings EXCEPT !.duration = c.duration, !.reset = c.reset, !.lengths = c.lengths,
                                    !.lengthsPath = c.lengthsPath]
    /\ UpdateRuntime(settings')
    /\ UNCHANGED <<sel, view, auto, client, listVars, idx, flagVars, preVars, ui, refresh, asked, fault>>

Select(v) ==
    /\ UserDoes /\ auto = "live" /\ Count > 0
    /\ \/ v \in view.start..view.start + WindowCount(Count) - 1
       \/ v = Prev /\ ~running /\ Count > UiLimit /\ view.start > 0
       \/ v = Next_ /\ ~running /\ Count > UiLimit /\ view.start + UiLimit < Count
    /\ sel' = v
    /\ Goto("changed", <<>>)
    /\ UNCHANGED <<settings, view, auto, client, listVars, idx, tuneVars, flagVars, preVars, w, refresh, asked, fault>>

(***************************************************************************)
(* c64_automation_preload_playlist_async and its thread.                   *)
(***************************************************************************)
PreloadNot ==
    /\ ui.pc = "preload"
    /\ preRunning \/ (ready /\ listed = settings) \/ running
    /\ ~preRunning /\ preValid => pre.pc = "gone"
    /\ preValid' = (preValid /\ preRunning)
    /\ Return
    /\ UNCHANGED <<setVars, auto, client, listVars, idx, tuneVars, flagVars, preRunning, pre, w, refresh, asked, fault, ops>>

Preload ==
    /\ ui.pc = "preload"
    /\ ~preRunning /\ ~(ready /\ listed = settings) /\ ~running
    /\ preValid => pre.pc = "gone"
    /\ \/ /\ preRunning' = TRUE /\ preValid' = TRUE
          /\ pre' = [NoPre EXCEPT !.pc = "scan", !.cfg = settings, !.sel = sel]
       \/ preRunning' = FALSE /\ preValid' = FALSE /\ pre' = NoPre   \* the thread is not created
    /\ Return
    /\ UNCHANGED <<setVars, auto, client, listVars, idx, tuneVars, flagVars, w, refresh, asked, fault, ops>>

PreScan ==
    /\ pre.pc = "scan"
    /\ \/ \E answered \in BOOLEAN : \E list \in ListsOf(pre.cfg, answered) : pre' = [pre EXCEPT !.pc = "publish", !.files = list]
       \/ /\ \E answered \in BOOLEAN : ListsOf(pre.cfg, answered) = {}
          /\ pre' = [pre EXCEPT !.pc = "publish", !.files = <<>>]
    /\ UNCHANGED <<setVars, auto, client, listVars, idx, tuneVars, flagVars, preRunning, preValid, w, ui, refresh, asked, fault, ops>>

PrePublishAnyTime(built) ==
    /\ files' = built /\ alloc' = "live" /\ ready' = TRUE /\ listed' = pre.cfg
    /\ idx' = IF pre.sel >= 0 /\ pre.sel < Len(built) THEN pre.sel ELSE 0
    /\ pre' = [NoPre EXCEPT !.pc = "notify"]

PrePublish ==
    /\ pre.pc = "publish"
    /\ preRunning' = FALSE
    /\ IF pre.files = <<>>
       THEN pre' = NoPre /\ UNCHANGED <<listVars, idx, ui, fault>>
       ELSE /\ Open("publish") \/ ui.pc \notin {"item", "use", "tuned"}
            /\ PrePublishAnyTime(pre.files)
            /\ fault' = IF alloc = "freed" THEN fault \cup {"list freed twice"} ELSE fault
            /\ ui' = IF ui.ptr = "live" THEN [ui EXCEPT !.ptr = "dead"] ELSE ui
    /\ UNCHANGED <<setVars, auto, client, tuneVars, flagVars, preValid, w, refresh, asked, ops>>

PreNotify ==
    /\ pre.pc = "notify" /\ pre' = NoPre /\ refresh' = TRUE
    /\ UNCHANGED <<setVars, auto, client, listVars, idx, tuneVars, flagVars, preRunning, preValid, w, ui, asked, fault, ops>>

(***************************************************************************)
(* refresh_playlist_from_settings.                                         *)
(***************************************************************************)
RefreshRunning ==
    /\ ui.pc = "refresh" /\ auto = "live" /\ running
    /\ IF settings = None THEN UNCHANGED <<tuneVars, w>> ELSE UpdateRuntime(settings)
    /\ Goto("list", Then(<<"lengths">>))
    /\ UNCHANGED <<setVars, auto, client, listVars, idx, flagVars, preVars, refresh, asked, fault, ops>>

\* The list is freed without the lock.
RefreshInvalid ==
    /\ ui.pc = "refresh" /\ auto = "live" /\ ~running /\ settings = None
    /\ Open("clear") \/ ~preRunning
    /\ alloc' = IF alloc = "live" THEN "freed" ELSE alloc
    /\ Goto("clear", Then(<<"list">>))
    /\ UNCHANGED <<setVars, auto, client, files, ready, listed, idx, tuneVars, flagVars, preVars, w, refresh, asked, fault, ops>>

ClearList ==
    /\ ui.pc = "clear"
    /\ files' = <<>> /\ alloc' = "null" /\ ready' = FALSE /\ listed' = None
    /\ view' = [view EXCEPT !.start = 0, !.follow = TRUE]
    /\ Return
    /\ UNCHANGED <<settings, sel, auto, client, idx, tuneVars, flagVars, preVars, w, refresh, asked, fault, ops>>

RefreshDeferred ==
    /\ ui.pc = "refresh" /\ auto = "live" /\ ~running /\ settings # None /\ preRunning
    /\ Goto("list", ui.todo)
    /\ UNCHANGED <<setVars, auto, client, listVars, idx, tuneVars, flagVars, preVars, w, refresh, asked, fault, ops>>

NeedsRebuildByFlags(force) == force \/ ~ready \/ alloc # "live" \/ files = <<>> \/ settings.shuffle

NeedsRebuild(force) ==
    force \/ ~ready \/ alloc # "live" \/ files = <<>> \/ listed = None \/ listed # settings \/ settings.shuffle

\* The entry that was selected keeps its selection, wherever the new list has it.
Keeps(list) ==
    LET here == IF sel >= 0 /\ sel < Count /\ alloc = "live" THEN File(sel) ELSE None
        at   == {i \in DOMAIN list : list[i] = here}
    IN  IF at # {} THEN (CHOOSE i \in at : \A j \in at : i <= j) - 1 ELSE ClampIndex(sel, Len(list))

UseList(list) ==
    /\ files' = list /\ alloc' = IF list = <<>> THEN "null" ELSE "live"
    /\ ready' = (list # <<>>)
    /\ listed' = IF list = <<>> THEN None ELSE IF NeedsRebuild(ui.force) THEN settings ELSE listed

RefreshRebuild ==
    /\ ui.pc = "refresh" /\ auto = "live" /\ ~running /\ settings # None /\ ~preRunning
    /\ Configure(settings)
    /\ \E answered \in BOOLEAN :
         \E list \in IF ~NeedsRebuild(ui.force) THEN {files}
                     ELSE IF ListsOf(settings, answered) = {} THEN {<<>>} ELSE ListsOf(settings, answered) :
            /\ UseList(list)
            /\ sel' = IF list = <<>> THEN sel ELSE Keeps(list)
            /\ idx' = IF list = <<>> THEN idx ELSE Keeps(list)
            /\ view' = [view EXCEPT !.follow = TRUE,
                                    !.start = IF list = <<>> THEN 0 ELSE ClampStart(Len(list), Keeps(list))]
    /\ Goto("list", Then(<<"lengths">>))
    /\ UNCHANGED <<settings, auto, client, flagVars, preVars, w, refresh, asked, fault, ops>>

RefreshNothing ==
    /\ ui.pc = "refresh" /\ auto = "none" /\ ui' = NoUi
    /\ UNCHANGED <<setVars, auto, client, listVars, idx, tuneVars, flagVars, preVars, w, refresh, asked, fault, ops>>

\* c64_automation_ensure_songlengths_loaded, for the path to store and for the length of an entry.
UiAsks == (ui.pc = "lengths" /\ cfg # None) \/ (ui.pc = "use" /\ ui.ptr # "null")
UiHas(loaded) ==
    ui' = [ui EXCEPT !.pc = IF @ = "use" THEN "tuned" ELSE "store", !.hold = IF loaded THEN "live" ELSE "none"]

UiEnsured ==
    /\ UiAsks /\ loads["ui"] = NoLoad /\ ~MustLoad
    /\ UiHas(HasLengths)
    /\ UNCHANGED <<setVars, auto, client, listVars, idx, tuneVars, flagVars, preVars, w, refresh, asked, fault, ops>>

UiReads ==
    /\ UiAsks /\ ReadLengths("ui")
    /\ UNCHANGED <<setVars, auto, client, listVars, idx, cfg, use, db, dangling, flagVars, preVars, w, ui, refresh, asked, fault, ops>>

UiFrees ==
    /\ UiAsks /\ FreeLengths("ui")
    /\ w' = Loses(w)
    /\ UNCHANGED <<setVars, auto, client, listVars, idx, cfg, use, db, flagVars, preVars, ui, refresh, asked, ops>>

UiLoads ==
    /\ UiAsks /\ StoreTable("ui")
    /\ UiHas(TRUE)
    /\ UNCHANGED <<setVars, auto, client, listVars, idx, use, flagVars, preVars, w, refresh, asked, ops>>

\* A Songlengths file that was found is stored in the settings.
StoreLengths ==
    /\ ui.pc = "store"
    /\ settings' = IF settings # None /\ ui.hold # "none" /\ db # None /\ settings.lengthsPath = None
                   THEN [settings EXCEPT !.lengthsPath = db] ELSE settings
    /\ Return
    /\ UNCHANGED <<sel, view, auto, client, listVars, idx, tuneVars, flagVars, preVars, w, refresh, asked, fault, ops>>

(***************************************************************************)
(* update_playlist_property: the dropdown is filled from a list another    *)
(* thread may replace; each entry is read through a pointer taken under    *)
(* the lock and used after it.                                             *)
(***************************************************************************)
Pending == IF running /\ view.pending # None /\ view.pending < Count /\ view.pending # idx
           THEN view.pending ELSE None

ListNone ==
    /\ ui.pc = "list" /\ (auto = "none" \/ Count = 0)
    /\ sel' = -1
    /\ view' = [view EXCEPT !.last = None, !.pending = IF auto = "none" THEN @ ELSE None,
                            !.start = IF auto = "none" THEN 0 ELSE @]
    /\ Return
    /\ UNCHANGED <<settings, auto, client, listVars, idx, tuneVars, flagVars, preVars, w, refresh, asked, fault, ops>>

Focus ==
    LET wanted == IF Pending # None THEN Pending ELSE IF running THEN idx ELSE sel
    IN  IF wanted >= 0 /\ wanted < Count THEN wanted ELSE ClampIndex(idx, Count)

ListBegin ==
    /\ ui.pc = "list" /\ auto = "live" /\ Count > 0
    /\ LET paged == ~running /\ Count > UiLimit /\ ~view.follow
           start == IF paged THEN ClampStart(Count, view.start) ELSE WindowStart(Count, Focus)
       IN  /\ view' = [view EXCEPT !.pending = Pending, !.start = start]
           /\ ui' = [ui EXCEPT !.pc = "item", !.i = start, !.end = start + WindowCount(Count), !.run = running, !.cur = Focus]
    /\ UNCHANGED <<settings, sel, auto, client, listVars, idx, tuneVars, flagVars, preVars, w, refresh, asked, fault, ops>>

ListItem ==
    /\ ui.pc = "item"
    /\ IF ui.i < ui.end
       THEN ui' = [ui EXCEPT !.pc = "use", !.ptr = IF ui.i < Count /\ alloc = "live" THEN "live" ELSE "null"]
       ELSE ui' = [ui EXCEPT !.pc = "listed"]
    /\ UNCHANGED <<setVars, auto, client, listVars, idx, tuneVars, flagVars, preVars, w, refresh, asked, fault, ops>>

ListNothing ==
    /\ ui.pc = "use" /\ ui.ptr = "null"
    /\ ui' = [ui EXCEPT !.pc = "item", !.i = @ + 1]
    /\ UNCHANGED <<setVars, auto, client, listVars, idx, tuneVars, flagVars, preVars, w, refresh, asked, fault, ops>>

\* The entry's path is read, its song length looked up.
ListUse ==
    /\ ui.pc = "tuned"
    /\ fault' = fault \cup {f \in {"entry of a freed list"} : ui.ptr = "dead"}
                      \cup {f \in {"song lengths of a freed table"} : ui.hold = "dead"}
    /\ ui' = [ui EXCEPT !.pc = "item", !.i = @ + 1, !.ptr = "null", !.hold = "none"]
    /\ UNCHANGED <<setVars, auto, client, listVars, idx, tuneVars, flagVars, preVars, w, refresh, asked, ops>>

ListEnd ==
    /\ ui.pc = "listed"
    /\ sel' = IF view.pending # None THEN view.pending ELSE IF ui.run \/ sel < 0 \/ sel >= Count THEN ui.cur ELSE sel
    /\ view' = [view EXCEPT !.last = sel', !.ignore = IF sel' # sel /\ @ < MaxIgnore THEN @ + 1 ELSE @]
    /\ Return
    /\ UNCHANGED <<settings, auto, client, listVars, idx, tuneVars, flagVars, preVars, w, refresh, asked, fault, ops>>

(***************************************************************************)
(* playlist_changed, called when the user selects ("changed") and when OBS *)
(* applies the settings to a new view ("applied"): a page is turned, or an entry is chosen; the worker   *)
(* is told by current_index and skip_requested.                            *)
(***************************************************************************)
ChangedIgnored ==
    /\ ui.pc \in {"changed", "applied"} /\ (view.ignore > 0 \/ auto # "live" \/ Count = 0)
    /\ view' = IF view.ignore > 0 THEN [view EXCEPT !.ignore = @ - 1] ELSE view
    /\ Return
    /\ UNCHANGED <<settings, sel, auto, client, listVars, idx, tuneVars, flagVars, preVars, w, refresh, asked, fault, ops>>

Changed == ui.pc \in {"changed", "applied"} /\ view.ignore = 0 /\ auto = "live" /\ Count > 0

TurnPage ==
    /\ Changed /\ sel \in {Prev, Next_}
    /\ view' = [view EXCEPT !.start = ClampStart(Count, @ + (IF sel = Prev THEN -UiLimit ELSE UiLimit)), !.follow = FALSE,
                            !.ignore = IF @ < MaxIgnore THEN @ + 1 ELSE @]
    /\ sel' = ClampIndex(IF view.last = None THEN idx ELSE view.last, Count)
    /\ Goto("list", ui.todo)
    /\ UNCHANGED <<settings, auto, client, listVars, idx, tuneVars, flagVars, preVars, w, refresh, asked, fault, ops>>

ChangedToCurrent ==
    /\ Changed /\ sel \notin {Prev, Next_} /\ running /\ sel = idx
    /\ view' = [view EXCEPT !.pending = None]
    /\ Return
    /\ UNCHANGED <<settings, sel, auto, client, listVars, idx, tuneVars, flagVars, preVars, w, refresh, asked, fault, ops>>

\* Where a request reaches the worker: between its pick of an entry and the end of that entry's wait.
DurationMs == IF w.ms # None THEN w.ms ELSE 1000 * cfg.duration
Attends ==
    /\ Open("jump") \/ w.pc \notin {"top", "post", "clear", "end"}
    /\ Open("elapsed") \/ ~(w.pc = "wait" /\ w.elapsed >= DurationMs)

Jump ==
    /\ Changed /\ sel \notin {Prev, Next_} /\ ~(running /\ sel = idx)
    /\ running /\ sel >= 0 /\ sel < Count => Attends /\ (Open("back") \/ ~skip \/ sel # w.i)
    /\ view' = [view EXCEPT !.follow = TRUE, !.pending = IF running /\ sel >= 0 THEN sel ELSE None,
                            !.last = IF sel >= 0 THEN sel ELSE None]
    /\ IF sel >= 0 /\ sel < Count /\ sel # idx
       THEN idx' = sel /\ skip' = (skip \/ running) /\ asked' = IF running THEN sel ELSE None
       ELSE UNCHANGED <<idx, skip, asked>>
    /\ Goto("list", ui.todo)
    /\ UNCHANGED <<settings, sel, auto, client, listVars, tuneVars, running, stopping, preVars, w, refresh, fault, ops>>

(***************************************************************************)
(* c64_automation_start, stop and destroy.                                 *)
(***************************************************************************)
\* A list that is missing is built again, from the configuration.
StartLists(answered) == IF ready /\ alloc = "live" /\ files # <<>> THEN {files} ELSE ListsOf(cfg, answered)

\* The UI has seen that nothing runs: its check (automation.c:862) never fails here.
StartFails ==
    /\ ui.pc = "start" /\ ~preRunning /\ ~running
    /\ preValid => pre.pc = "gone"
    /\ preValid' = FALSE
    /\ \E answered \in BOOLEAN :
         \/ StartLists(answered) = {} /\ files' = <<>> /\ alloc' = "null" /\ ready' = FALSE /\ listed' = None /\ idx' = idx
         \/ \E list \in StartLists(answered) :      \* the worker is not created; the list is freed
              /\ files' = list /\ alloc' = "null" /\ ready' = TRUE /\ idx' = ClampIndex(sel, Len(list))
              /\ listed' = IF ready THEN listed ELSE cfg
    /\ stopping' = FALSE /\ skip' = FALSE /\ running' = FALSE
    /\ Return
    /\ UNCHANGED <<setVars, auto, client, tuneVars, preRunning, pre, w, refresh, asked, fault, ops>>

Start ==
    /\ ui.pc = "start" /\ ~preRunning /\ ~running
    /\ preValid => pre.pc = "gone"
    /\ preValid' = FALSE
    /\ \E answered \in BOOLEAN : \E list \in StartLists(answered) :
         /\ files' = list /\ alloc' = "live" /\ ready' = TRUE /\ idx' = ClampIndex(sel, Len(list))
         /\ listed' = IF files = list /\ ready THEN listed ELSE cfg
    /\ running' = TRUE /\ stopping' = FALSE /\ skip' = FALSE /\ asked' = None
    /\ w' = [NoWork EXCEPT !.pc = "begin"]
    /\ Return
    /\ UNCHANGED <<setVars, auto, client, tuneVars, preRunning, pre, refresh, fault, ops>>

\* A worker that has ended by itself is not joined.
Stop ==
    /\ ui.pc = "stop"
    /\ stopping' = (stopping \/ running)
    /\ IF running THEN Goto("join", ui.todo) ELSE Return
    /\ UNCHANGED <<setVars, auto, client, listVars, idx, tuneVars, running, skip, preVars, w, refresh, asked, fault, ops>>

Join ==
    /\ ui.pc = "join" /\ w.pc = "gone"
    /\ running' = FALSE /\ stopping' = FALSE
    /\ Return
    /\ UNCHANGED <<setVars, auto, client, listVars, idx, tuneVars, skip, preVars, w, refresh, asked, fault, ops>>

Destroy ==
    /\ ui.pc = "idle" /\ auto = "live"
    /\ Goto("leave", <<>>)
    /\ UNCHANGED <<setVars, auto, client, listVars, idx, tuneVars, flagVars, preVars, w, refresh, asked, fault, ops>>

DestroyJoin ==
    /\ ui.pc = "leave" /\ (preValid => pre.pc = "gone")
    /\ preValid' = FALSE
    /\ Goto("stop", <<"free">>)
    /\ UNCHANGED <<setVars, auto, client, listVars, idx, tuneVars, flagVars, preRunning, pre, w, refresh, asked, fault, ops>>

DestroyFree ==
    /\ ui.pc = "free"
    /\ Open("ended") \/ w.pc = "gone"
    /\ auto' = "freed" /\ files' = <<>> /\ alloc' = "null" /\ ready' = FALSE /\ listed' = None /\ db' = None
    /\ ui' = NoUi
    /\ UNCHANGED <<setVars, client, idx, cfg, use, dangling, loads, flagVars, preVars, w, refresh, asked, fault, ops>>

(***************************************************************************)
(* c64_rebuild_rest_client: an address that is cleared frees the client    *)
(* the automation points to.                                               *)
(***************************************************************************)
DropClient ==
    /\ client = "live" /\ (Open("rebuild") \/ auto = "none")
    /\ client' = "freed"
    /\ UNCHANGED <<setVars, auto, listVars, idx, tuneVars, flagVars, preVars, w, ui, refresh, asked, fault, ops>>

MakeClient ==
    /\ client = "freed" /\ auto = "none"
    /\ client' = "live"
    /\ UNCHANGED <<setVars, auto, listVars, idx, tuneVars, flagVars, preVars, w, ui, refresh, asked, fault, ops>>

(***************************************************************************)
(* The worker.                                                             *)
(***************************************************************************)
uiVars == <<setVars, auto, client, listVars, preVars, ui, ops>>

Work(pc) == w' = [w EXCEPT !.pc = pc]
IsDisk == TypeOf(File(w.i)) \in DiskTypes
IsSid == TypeOf(File(w.i)) = "sid"

WBegin ==
    /\ w.pc = "begin"
    /\ w' = [w EXCEPT !.pc = "top", !.i = IF idx >= 0 THEN idx ELSE 0]
    /\ UNCHANGED <<uiVars, idx, tuneVars, flagVars, refresh, asked, fault>>

\* No view is being built that shows the entry the worker is about to leave, or one the user has asked for.
ViewAtRest ==
    Open("ghost") \/ ui.pc = "idle" \/ ("applied" \notin Range(Append(ui.todo, ui.pc)) /\ view.pending = None)

WPick ==
    /\ w.pc = "top" /\ w.i < Count /\ ~stopping
    /\ ViewAtRest
    /\ idx' = w.i /\ refresh' = TRUE /\ asked' = None
    /\ w' = [NoWork EXCEPT !.pc = IF cfg.source = "local" THEN "load" ELSE "play", !.i = w.i, !.reset = cfg.reset]
    /\ UNCHANGED <<uiVars, tuneVars, flagVars, fault>>

WPickNone ==
    /\ w.pc = "top" /\ (w.i >= Count \/ stopping)
    /\ asked' = None
    /\ w' = [NoWork EXCEPT !.pc = "end"]
    /\ UNCHANGED <<uiVars, idx, tuneVars, flagVars, refresh, fault>>

WLoad ==
    /\ w.pc = "load"
    /\ w' = IF IsSid /\ use THEN [w EXCEPT !.pc = "look", !.next = "play"] ELSE [w EXCEPT !.pc = "play"]
    /\ UNCHANGED <<uiVars, idx, tuneVars, flagVars, refresh, asked, fault>>

\* A file that cannot be read is tried again at once, any number of times.
WLoadFails ==
    /\ w.pc = "load" /\ (Open("jump") \/ ~skip)
    /\ Work("top")
    /\ UNCHANGED <<uiVars, idx, tuneVars, flagVars, refresh, asked, fault>>

WLook ==
    /\ w.pc = "look" /\ loads["worker"] = NoLoad /\ ~MustLoad
    /\ w' = IF HasLengths THEN [w EXCEPT !.pc = "found", !.hold = "live"] ELSE [w EXCEPT !.pc = w.next, !.ms = None]
    /\ UNCHANGED <<uiVars, idx, tuneVars, flagVars, refresh, asked, fault>>

WReads ==
    /\ w.pc = "look" /\ ReadLengths("worker")
    /\ UNCHANGED <<uiVars, idx, cfg, use, db, dangling, flagVars, w, refresh, asked, fault>>

WFrees ==
    /\ w.pc = "look" /\ FreeLengths("worker")
    /\ ui' = Loses(ui)
    /\ UNCHANGED <<setVars, auto, client, listVars, preVars, ops, idx, cfg, use, db, flagVars, w, refresh, asked>>

WLoads ==
    /\ w.pc = "look" /\ StoreTable("worker")
    /\ w' = [w EXCEPT !.pc = "found", !.hold = "live"]
    /\ UNCHANGED <<uiVars, idx, use, flagVars, refresh, asked>>

WFound ==
    /\ w.pc = "found"
    /\ fault' = IF w.hold = "dead" THEN fault \cup {"song lengths of a freed table"} ELSE fault
    /\ LET name  == Last(File(w.i))
           found == IF w.hold = "live" /\ db # None /\ name \in DOMAIN Md5 THEN LookupMs(db, Md5[name]) ELSE None
       IN  w' = [w EXCEPT !.pc = w.next, !.hold = "none", !.ms = found,
                          !.told = IF w.next = "play" /\ found # None THEN Announced(found) ELSE @]
    /\ UNCHANGED <<uiVars, idx, tuneVars, flagVars, refresh, asked>>

\* A disk is reset for, mounted and started from the keyboard; the rest is run by one request.
WPlay ==
    /\ w.pc = "play"
    /\ fault' = IF client = "freed" THEN fault \cup {"freed REST client"} ELSE fault
    /\ \/ IsDisk /\ Work("type")
       \/ w' = IF IsSid /\ use THEN [w EXCEPT !.pc = "look", !.next = "wait"] ELSE [w EXCEPT !.pc = "wait", !.ms = None]
    /\ UNCHANGED <<uiVars, idx, tuneVars, flagVars, refresh, asked>>

WType ==
    /\ w.pc = "type"
    /\ w' = IF stopping \/ w.keys >= MaxKeys THEN [w EXCEPT !.pc = "wait", !.ms = None]
            ELSE [w EXCEPT !.keys = @ + 1]
    /\ UNCHANGED <<uiVars, idx, tuneVars, flagVars, refresh, asked, fault>>

TargetIsNext == w.i + 1

Target == IF idx >= 0 /\ idx < Count /\ idx # w.i THEN idx ELSE w.i + 1

\* A request is taken even when the wait is over or the worker is told to stop.
WWait ==
    /\ w.pc = "wait"
    /\ skip' = FALSE
    /\ w' = IF stopping \/ w.elapsed >= DurationMs THEN [w EXCEPT !.pc = "post"]
            ELSE IF skip THEN [w EXCEPT !.pc = "top", !.i = Target]
            ELSE [w EXCEPT !.elapsed = @ + TickMs]
    /\ UNCHANGED <<uiVars, idx, tuneVars, running, stopping, refresh, asked, fault>>

WPost ==
    /\ w.pc = "post"
    /\ fault' = IF client = "freed" /\ w.reset /\ ~IsDisk THEN fault \cup {"freed REST client"} ELSE fault
    /\ w' = [w EXCEPT !.pc = "top", !.i = @ + 1]
    /\ UNCHANGED <<uiVars, idx, tuneVars, flagVars, refresh, asked>>

WEndUntold ==
    /\ w.pc = "end"
    /\ Work("notify")
    /\ UNCHANGED <<uiVars, idx, tuneVars, flagVars, refresh, asked, fault>>

WEnd ==
    /\ w.pc = "end"
    /\ running' = FALSE
    /\ Work("notify")
    /\ UNCHANGED <<uiVars, idx, tuneVars, stopping, skip, refresh, asked, fault>>

\* The worker still reads the automation after it has cleared running.
WNotify ==
    /\ w.pc = "notify"
    /\ fault' = IF auto = "freed" THEN fault \cup {"freed automation"} ELSE fault
    /\ refresh' = (auto = "live")
    /\ w' = NoWork
    /\ UNCHANGED <<uiVars, idx, tuneVars, flagVars, asked>>

(***************************************************************************)
(* The specification.  Every thread that can run does; the user need not.  *)
(***************************************************************************)
User ==
    \/ OpenView \/ ClickStartStop \/ ClickRefresh \/ ClickNext \/ Destroy
    \/ \E c \in Settings : ChangeSettings(c) \/ ChangeRuntime(c)
    \/ \E v \in {Prev, Next_} \cup 0..MaxFiles - 1 : Select(v)
    \/ DropClient \/ MakeClient

UiStep ==
    \/ RefreshView \/ PreloadNot \/ Preload
    \/ RefreshRunning \/ RefreshInvalid \/ ClearList \/ RefreshDeferred \/ RefreshRebuild \/ RefreshNothing
    \/ UiEnsured \/ UiReads \/ UiFrees \/ UiLoads \/ StoreLengths
    \/ ListNone \/ ListBegin \/ ListItem \/ ListNothing \/ ListUse \/ ListEnd
    \/ ChangedIgnored \/ TurnPage \/ ChangedToCurrent \/ Jump
    \/ StartFails \/ Start \/ Stop \/ Join \/ DestroyJoin \/ DestroyFree

PreloadStep == PreScan \/ PrePublish \/ PreNotify

Worker ==
    \/ WBegin \/ WPick \/ WPickNone \/ WLoad \/ WLoadFails \/ WLook \/ WReads \/ WFrees \/ WLoads \/ WFound
    \/ WPlay \/ WType \/ WWait \/ WPost \/ WEnd \/ WNotify

Next == User \/ UiStep \/ PreloadStep \/ Worker

\* A handler of the UI that waits for a moment outside the closed windows gets one.
Fairness == SF_vars(UiStep) /\ WF_vars(PreloadStep) /\ WF_vars(Worker)

Spec == Init /\ [][Next]_vars /\ Fairness

(***************************************************************************)
(* Properties.                                                             *)
(***************************************************************************)
TypeOK ==
    /\ sel \in {Prev, Next_} \cup -1..MaxFiles /\ idx \in 0..MaxFiles
    /\ view.start \in 0..MaxFiles /\ view.ignore \in 0..MaxIgnore
    /\ auto \in {"none", "live", "freed"} /\ client \in {"live", "freed"}
    /\ Count <= MaxFiles /\ alloc \in {"null", "live", "freed"}
    /\ {ready, use, running, stopping, skip, preRunning, preValid, refresh} \subseteq BOOLEAN
    /\ w.i \in 0..MaxFiles /\ w.keys \in 0..MaxKeys /\ ui.ptr \in {"null", "live", "dead"}

\* No thread uses memory another has freed: the list, the table of song lengths, the automation itself,
\* the REST client (c64-automation-playlist.c:748 returns a pointer into the list after the unlock).
NoUseAfterFree == fault = {}

\* A list that is ready holds the files of the folder it was built for, each once, in order.
ListsWhatItNames ==
    ready /\ alloc = "live" /\ listed # None /\ listed.mode = "folder" /\ listed.source = "local" =>
        ListsTheFolder(listed, files)

\* The worker runs only over a list in memory, at an entry the list has.
PlaysTheList ==
    /\ w.pc \notin {"gone", "notify"} => running /\ alloc = "live" /\ Count > 0
    /\ w.pc \in {"load", "look", "found", "play", "type", "wait", "post"} => w.i < Count

\* The page the dropdown shows lies inside the list and holds the entry in focus, unless the user turned pages.
FocusShown ==
    ui.pc = "item" /\ ui.i = view.start =>
        /\ ui.end <= Count /\ ui.end - ui.i = WindowCount(Count)
        /\ ui.run \/ view.follow => ui.i <= ui.cur /\ ui.cur < ui.end

\* The length sent to the device is the one the worker waits for, to half a second, up to 99 minutes.
TuneFits ==
    w.pc = "wait" /\ w.told # None /\ w.ms # None =>
        LET told == 60 * FromBcd(w.told[1]) + FromBcd(w.told[2])
        IN  IF Seconds(w.ms) < 6000 THEN told = Seconds(w.ms) ELSE FromBcd(w.told[1]) = 99

AutomationInv == TypeOK /\ NoUseAfterFree /\ ListsWhatItNames /\ PlaysTheList /\ FocusShown /\ TuneFits

\* The worker starts on a list that was built for the settings of the moment, whether the UI or a
\* preload for earlier settings built it (c64_automation_start).
StartsWhatIsSet ==
    [][~running /\ running' => alloc' = "live" /\ files' # <<>> /\ Source(listed') = Source(settings)]_vars

\* The next entry the worker plays after the user has jumped is the one the user jumped to, and a
\* view that OBS refreshes moves no playback: only the worker and the user do (README.md:621).
JumpIsPlayed ==
    [][/\ asked # None /\ w.pc = "top" /\ w'.pc # "top" /\ ~stopping => idx' = asked
       /\ ui.pc = "applied" /\ running /\ running' /\ w' = w => idx' = idx]_vars

\* A click, a refresh or the teardown, which join the worker or the preload, returns, also while the worker
\* tries a file again that cannot be read (c64-automation.c:435-440); the worker comes to the end of the list by
\* itself if from some time on the files it reads can be read.
PlaybackEnds  == running ~> ~running
UiReturns     == (ui.pc # "idle") ~> (ui.pc = "idle")
ThreadsReturn == UiReturns /\ (<>[][~WLoadFails]_vars => PlaybackEnds)
=============================================================================
