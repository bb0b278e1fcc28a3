--------------------------- MODULE PaletteCatalogue ---------------------------
(***************************************************************************)
(* The catalogue of palettes: one list for all sources, sorted by name,    *)
(* with the index of the active palette and a copy of its colours that the *)
(* colour editor works on.  A palette is known by its id, its file's name  *)
(* without .vpl; shipped palettes are read-only, custom ones are files in  *)
(* the user's folder.  A colour table is a sequence of colours, a file its *)
(* display name and its table.                                             *)
(*                                                                         *)
(* The operators take a catalogue c and give the one after the call.       *)
(***************************************************************************)
EXTENDS Naturals, FiniteSetsExt, SequencesExt

CONSTANTS
    None,
    DefaultColors,    \* the table compiled into the plugin
    Shipped,          \* id of a shipped palette -> its file
    CustomId,         \* id -> id of the copy an edit of it creates
    CustomName,       \* display name -> display name of that copy
    Folded,           \* id -> the id in lower case
    Rank,             \* display name -> its place in the alphabet
    MaxPalettes       \* C64_MAX_PALETTES

ASSUME CatalogueAssumption == MaxPalettes \in Nat \ {0, 1}

Black == [i \in DOMAIN DefaultColors |-> "black"]     \* memset

InFolder(id) == [dir |-> "user", id |-> id]
InPlugin(id) == [dir |-> "data", id |-> id]

DefaultEntry == [id |-> "Default", name |-> "Default", path |-> None, shipped |-> TRUE,
                 colors |-> DefaultColors, loaded |-> TRUE]
NewEntry(path, name, shipped) ==
    [id |-> path.id, name |-> name, path |-> path, shipped |-> shipped, colors |-> Black, loaded |-> FALSE]

Find(c, id) == SelectInSeq(c.list, LAMBDA e : e.id = id)
Preset(c, id) == Find(c, id) # 0 /\ c.list[Find(c, id)].shipped

ActiveId(c) == IF c.active \in DOMAIN c.list THEN c.list[c.active].id ELSE "Default"

-----------------------------------------------------------------------------
(* Selecting.                                                              *)

\* A palette's file is read the first time its colours are needed.
Readable(c, disk, id) ==
    /\ Find(c, id) # 0
    /\ LET e == c.list[Find(c, id)] IN e.loaded \/ disk[e.path] # None

Load(c, disk, id) ==
    LET e == c.list[Find(c, id)] IN
    IF e.loaded THEN c
    ELSE [c EXCEPT !.list[Find(c, id)] =
             [e EXCEPT !.loaded = TRUE, !.colors = disk[e.path].colors, !.name = disk[e.path].name]]

Select(c, disk, id) ==
    IF ~Readable(c, disk, id) THEN c
    ELSE LET l == Load(c, disk, id) IN
         [l EXCEPT !.active = Find(l, id), !.working = l.list[Find(l, id)].colors, !.modified = FALSE]

\* c64_palette_resolve_colors, with the fall back to the default colours.
ResolveId(c, disk, id) == IF Readable(c, disk, id) THEN id ELSE "Default"
Resolve(c, disk, id) == Load(c, disk, ResolveId(c, disk, id))
Resolved(c, disk, id) ==
    LET l == Resolve(c, disk, id) IN l.list[Find(l, ResolveId(c, disk, id))].colors

-----------------------------------------------------------------------------
(* The list.                                                               *)

\* Default first, the rest by name.  The active index is not looked after.
Before(a, b) ==
    /\ b.id # "Default"
    /\ a.id = "Default" \/ Rank[a.name] < Rank[b.name]
Place(list, i) ==
    Cardinality({j \in DOMAIN list : Before(list[j], list[i]) \/ (j <= i /\ ~Before(list[i], list[j]))})
Sort(c) == [c EXCEPT !.list = [n \in DOMAIN @ |-> c.list[CHOOSE i \in DOMAIN c.list : Place(c.list, i) = n]]]

\* Two ids may not differ by case alone.
Fits(c, id) ==
    /\ Len(c.list) < MaxPalettes
    /\ \A i \in DOMAIN c.list : Folded[c.list[i].id] # Folded[id]
Add(c, e) == IF Fits(c, e.id) THEN [c EXCEPT !.list = Append(@, e)] ELSE c

CustomFiles(disk) == {p \in DOMAIN disk : p.dir = "user" /\ disk[p] # None}
Discover(c, disk) ==
    FoldSet(LAMBDA p, d : IF Find(d, p.id) # 0 THEN d ELSE Add(d, NewEntry(p, disk[p].name, FALSE)),
            c, CustomFiles(disk))

Startup(disk) ==
    LET default == [list |-> <<DefaultEntry>>, active |-> 0, working |-> Black, modified |-> FALSE]
        shipped == FoldSet(LAMBDA id, d : Add(d, NewEntry(InPlugin(id), Shipped[id].name, TRUE)),
                           default, DOMAIN Shipped)
    IN Select(Sort(Discover(shipped, disk)), disk, "Default")

\* One turn of the loop that drops the custom palettes whose file is gone.
\* cells are the array's cells, count how many are in use; the id of the
\* active palette is looked up through a pointer to the cell it was in.
DropNext(s) ==
    LET e == s.cells[s.i] IN
    IF e.shipped \/ s.disk[e.path] # None THEN [s EXCEPT !.i = @ + 1]
    ELSE [s EXCEPT
            !.cells = [j \in DOMAIN s.cells |->
                          IF j \in s.i .. s.count - 1 THEN s.cells[j + 1] ELSE s.cells[j]],
            !.count = @ - 1,
            !.active = IF @ > s.i THEN @ - 1 ELSE @,
            !.missing = @ \/ (s.pointer # 0 /\ e.id = s.cells[s.pointer].id)]

DropGone(c, disk) ==
    FoldLeft(LAMBDA s, n : DropNext(s),
             [cells |-> c.list, count |-> Len(c.list), i |-> 1, active |-> c.active, missing |-> FALSE,
              pointer |-> IF c.active \in DOMAIN c.list THEN c.active ELSE 0, disk |-> disk],
             c.list)

\* c64_palette_validate_filesystem.
ActiveMissing(c, disk) == DropGone(c, disk).missing
Validate(c, disk) ==
    LET s    == DropGone(c, disk)
        kept == [c EXCEPT !.list = SubSeq(s.cells, 1, s.count), !.active = s.active]
        all  == IF s.count < Len(c.list) THEN Sort(Discover(kept, disk)) ELSE kept
    IN IF s.missing THEN Select(all, disk, "Default") ELSE all

-----------------------------------------------------------------------------
(* Writing.  Each writes the file first: disk is the disk after that.      *)

\* Mutant: the new palette is not selected, so the active index is that of
\* another one once the list is sorted.
StoredUnselected(c, disk, path, entry) ==
    LET i == Find(c, path.id) IN
    IF i = 0 /\ ~Fits(c, path.id) THEN c
    ELSE Sort(IF i = 0 THEN Add(c, entry) ELSE [c EXCEPT !.list[i] = entry])

\* The entry for a file just written, new or overwritten, becomes the active
\* one.  At the limit, or for an id that differs by case, only the file stays.
Stored(c, disk, path, entry) ==
    LET i == Find(c, path.id) IN
    IF i = 0 /\ ~Fits(c, path.id) THEN c
    ELSE Select(Sort(IF i = 0 THEN Add(c, entry) ELSE [c EXCEPT !.list[i] = entry]), disk, path.id)

FileOf(c, name) == [name |-> name, colors |-> c.working]

SaveAs(c, disk, name, path) ==
    LET i == Find(c, path.id)
        e == IF i = 0 THEN NewEntry(path, name, FALSE) ELSE c.list[i]
    IN Stored(c, disk, path, [e EXCEPT !.colors = c.working, !.loaded = TRUE])

\* A file from anywhere is copied to the folder, unless it has a shipped id.
Importable(c, id) == ~Preset(c, id)
Import(c, disk, path) ==
    LET i == Find(c, path.id)
        e == IF i = 0 THEN NewEntry(path, disk[path].name, FALSE) ELSE c.list[i]
    IN Stored(c, disk, path, [e EXCEPT !.colors = disk[path].colors, !.loaded = TRUE,
                                       !.name = disk[path].name, !.path = path])

\* c64_palette_auto_save: an edit of a shipped palette goes to a copy.
Edited(c) == c.list[c.active]
SavePath(c) == IF Edited(c).shipped THEN InFolder(CustomId[Edited(c).id]) ELSE Edited(c).path
SaveName(c) == IF Edited(c).shipped THEN CustomName[Edited(c).name] ELSE Edited(c).name
AutoSave(c, disk) ==
    IF Edited(c).shipped THEN SaveAs(c, disk, SaveName(c), SavePath(c))
    ELSE [c EXCEPT !.list[c.active].colors = c.working, !.modified = FALSE]

-----------------------------------------------------------------------------
(* Deleting.                                                               *)

Delete(c, disk, id) ==
    LET i == Find(c, id)
        s == IF c.active = i THEN Select(c, disk, "Default") ELSE c
    IN [s EXCEPT !.list = RemoveAt(@, i), !.active = IF @ > i THEN @ - 1 ELSE @]
=============================================================================
