------------------------------- MODULE Playlist -------------------------------
(***************************************************************************)
(* What the automation plays: the files of a folder, listed by a walk over *)
(* local folders that links may join into loops or by one REST request,    *)
(* then sorted or shuffled; and the part of the list the dropdown shows.   *)
(*                                                                         *)
(* A file is the path of names that leads to it.  Each build is the set of *)
(* the lists it may produce: equal names, and the seed of the shuffle,     *)
(* leave the order open.                                                   *)
(***************************************************************************)
EXTENDS SongLengths, TLC

CONSTANTS
    FileTypes,      \* file name -> its type, None when the extension is not known
    Remote,         \* path on the device -> the names the device lists
    Rank,           \* name -> its place in a comparison without case
    MaxFiles,       \* C64_AUTOMATION_PLAYLIST_MAX_FILES
    MaxDepth,       \* C64_AUTOMATION_LOCAL_SCAN_MAX_DEPTH
    UiLimit         \* PLAYLIST_UI_LIMIT

TypeOf(path) == IF Last(path) \in DOMAIN FileTypes THEN FileTypes[Last(path)] ELSE None
DiskTypes == {"d64", "g64", "d71", "g71", "d81"}
IsPlayable(path) == TypeOf(path) # None

(***************************************************************************)
(* The walk.  A folder is on the stack under the path that found it; its   *)
(* identity (device and inode) is remembered when it is read.              *)
(***************************************************************************)
Entry(dir, subfolders, found, e) ==
    LET path == Append(dir.path, e.name)
    IN  IF Len(found.files) >= MaxFiles \/ Len(path) > MaxPath THEN found
        ELSE IF e.kind = "dir"
             THEN IF subfolders /\ Len(dir.path) - 1 < MaxDepth
                  THEN [found EXCEPT !.stack = Append(@, [at |-> e.to, path |-> path])]
                  ELSE found
             ELSE IF e.kind = "file" /\ IsPlayable(path)
                  THEN [found EXCEPT !.files = Append(@, path)]
                  ELSE found

ReadFolder(dir, subfolders, stack, list) ==
    FoldLeft(LAMBDA found, e : Entry(dir, subfolders, found, e),
             [stack |-> stack, files |-> list], Tree[dir.at])

UnvisitedOnPath(at, visited) == TRUE
Unvisited(at, visited) == at \notin visited

RECURSIVE Walk(_, _, _, _)
Walk(subfolders, stack, visited, list) ==
    IF stack = <<>> \/ Len(list) >= MaxFiles THEN list
    ELSE LET dir  == Last(stack)
             rest == Front(stack)
             next == IF Unvisited(dir.at, visited) /\ dir.at \notin Locked
                     THEN ReadFolder(dir, subfolders, rest, list)
                     ELSE [stack |-> rest, files |-> list]
         IN  Walk(subfolders, next.stack, visited \cup {dir.at}, next.files)

IsRootFolder(folder) == Parent[folder] = None

ScanLocal(folder, subfolders) ==
    IF folder \notin DOMAIN Tree \/ IsRootFolder(folder) THEN <<>>
    ELSE Walk(subfolders, <<[at |-> folder, path |-> <<folder>>]>>, {}, <<>>)

\* One REST request lists the device's folder; the request may fail.
ScanC64u(folder) ==
    UpTo(SelectSeq([i \in DOMAIN Remote[folder] |-> <<folder, Remote[folder][i]>>],
                   LAMBDA path : Len(path) <= MaxPath /\ IsPlayable(path)), MaxFiles)

(***************************************************************************)
(* The order.  Paths are compared name by name.                            *)
(***************************************************************************)
Below(a, b) ==
    \E i \in 1..Len(b) :
        /\ \A j \in 1..i - 1 : j <= Len(a) /\ Rank[a[j]] = Rank[b[j]]
        /\ i <= Len(a) => Rank[a[i]] < Rank[b[i]]

InOrder(list) == \A i, j \in DOMAIN list : i < j => ~Below(list[j], list[i])

Orders(list) == {[i \in DOMAIN list |-> list[p[i]]] : p \in Permutations(DOMAIN list)}
Sorted(list) == {s \in Orders(list) : InOrder(s)}
Shuffled(list) == Orders(list)

Scan(c, answered) ==
    IF c.source = "local" THEN ScanLocal(c.path[1], c.subfolders)
    ELSE IF answered THEN ScanC64u(c.path[1]) ELSE <<>>

\* What a list is built from.
Source(c) == [path |-> c.path, mode |-> c.mode, source |-> c.source,
                subfolders |-> c.subfolders, shuffle |-> c.shuffle]

\* The lists a build may produce; none when it fails.
Builds(c, answered) ==
    IF c.mode = "single" THEN IF IsPlayable(c.path) THEN {<<c.path>>} ELSE {}
    ELSE LET list == Scan(c, answered)
         IN  IF list = <<>> THEN {} ELSE IF c.shuffle THEN Shuffled(list) ELSE Sorted(list)

(***************************************************************************)
(* What the list promises: each playable file that the folders reachable   *)
(* from the chosen one hold, once, whatever names lead to it.              *)
(***************************************************************************)
RECURSIVE Reach(_)
Reach(folders) ==
    LET next == folders \cup {e.to : e \in {x \in UNION {Range(Tree[f]) : f \in folders \ Locked} :
                                              x.kind = "dir"}}
    IN  IF next = folders THEN folders ELSE Reach(next)

FilesIn(folder) ==
    IF folder \in Locked THEN {}
    ELSE {<<folder, e.name>> : e \in {x \in Range(Tree[folder]) : x.kind = "file" /\ IsPlayable(<<x.name>>)}}

Promised(c) ==
    UNION {FilesIn(f) : f \in IF c.subfolders THEN Reach({c.path[1]}) ELSE {c.path[1]}}

\* The folder a path leads to.
RECURSIVE FolderOf(_)
FolderOf(path) ==
    IF Len(path) = 1 THEN path[1]
    ELSE (CHOOSE e \in Range(Tree[FolderOf(Front(path))]) : e.kind = "dir" /\ e.name = Last(path)).to

Identity(path) == <<FolderOf(Front(path)), Last(path)>>

ListsTheFolder(c, list) ==
    LET found == [i \in DOMAIN list |-> Identity(list[i])]
    IN  /\ Range(found) \subseteq Promised(c)
        /\ \A i, j \in DOMAIN found : found[i] = found[j] => i = j
        /\ Len(list) < MaxFiles => Range(found) = Promised(c)
        /\ c.shuffle \/ InOrder(list)

(***************************************************************************)
(* The window of the dropdown.                                             *)
(***************************************************************************)
ClampStartLate(count, start) ==
    IF count <= UiLimit \/ start < 0 THEN 0 ELSE IF start >= count THEN count - UiLimit ELSE start

ClampStart(count, start) ==
    IF count <= UiLimit \/ start < 0 THEN 0 ELSE IF start > count - UiLimit THEN count - UiLimit ELSE start

WindowStart(count, focus) == IF count > UiLimit THEN ClampStart(count, focus - UiLimit \div 2) ELSE 0
WindowCount(count) == IF count > UiLimit THEN UiLimit ELSE count
=============================================================================
