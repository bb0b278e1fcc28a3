------------------------------- MODULE MCPalette -------------------------------
(***************************************************************************)
(* Small scenes for Palette: two sources that edit palettes, files that    *)
(* come and go, and a source that follows the palette of its device.       *)
(* Default and Pepto are shipped; tables have two colours.                 *)
(***************************************************************************)
EXTENDS Palette

Table(c) == <<c, c>>
File(name, c) == [name |-> name, colors |-> Table(c)]

MCDefaultColors == Table("d")
MCShipped == ("pepto" :> File("Pepto", "p"))
MCCustoms == {"default-custom", "pepto-custom", "mine", "Mine", "new"}
MCCustomId == ("Default" :> "default-custom" @@ "pepto" :> "pepto-custom")
MCCustomName == ("Default" :> "Default (Custom)" @@ "Pepto" :> "Pepto (Custom)")
MCFolded == [id \in MCCustoms \cup {"Default", "pepto"} |->
                IF id = "Default" THEN "default" ELSE IF id = "Mine" THEN "mine" ELSE id]
MCRank == ("Default" :> 0 @@ "Another" :> 1 @@ "Default (Custom)" :> 2 @@ "Mine" :> 3 @@ "Pepto" :> 4
           @@ "Pepto (Custom)" :> 5)

MCDevices == {"D1", "D2"}
MCFileColors == [d \in MCDevices |-> [v \in 0 .. 2 |-> <<d, <<"f0", "f1", "f2">>[v + 1]>>]]
MCFileSize == (0 :> 1 @@ 1 :> 1 @@ 2 :> 2)
MCStreamColors == [d \in MCDevices |-> [g \in 0 .. 3 |-> <<d, <<"s0", "s1", "s2", "s3">>[g + 1]>>]]

Mine == ("mine" :> File("Mine", "m"))
Copy == ("pepto-custom" :> File("Pepto (Custom)", "q"))
Outside ==
    ("new" :> File("Another", "n") @@ "mine" :> File("Mine", "o") @@ "Mine" :> File("Mine", "o")
     @@ "pepto" :> File("Another", "n"))

Nothing ==
    [worker |-> FALSE, files |-> Mine, start |-> ("A" :> "Default" @@ "B" :> "Default"), outside |-> Outside,
     imports |-> {}, exports |-> {}, removable |-> {}, dialogs |-> 0, choices |-> 0, edits |-> 0, files1 |-> 0,
     pokes |-> 0, removes |-> 0, drops |-> 0, switches |-> 0, toggles |-> 0, packets |-> 0, changes |-> 0,
     faults |-> 0, destroy |-> 0]
Following == [Nothing EXCEPT !.worker = TRUE, !.start["A"] = "device"]

Edits == [Nothing EXCEPT !.start["B"] = "mine", !.dialogs = 2, !.choices = 1, !.edits = 2, !.pokes = 1]
Imports == [Nothing EXCEPT !.start["B"] = "mine", !.dialogs = 1, !.choices = 1, !.edits = 1, !.files1 = 2,
                           !.imports = {"new", "mine", "Mine"}, !.exports = {"new", "mine", "pepto"}, !.pokes = 1]
Removed == [Nothing EXCEPT !.files = Mine @@ Copy, !.start["A"] = "pepto-custom", !.start["B"] = "mine",
                           !.dialogs = 2, !.choices = 1, !.edits = 1, !.removes = 2, !.drops = 1,
                           !.removable = {"mine", "pepto-custom"}, !.imports = {"new"}, !.pokes = 1]
Scripts == [Nothing EXCEPT !.start["A"] = "pepto", !.dialogs = 1, !.edits = 1, !.pokes = 3]

Switches == [Following EXCEPT !.switches = 2]
Returns == [Following EXCEPT !.worker = FALSE, !.switches = 2, !.packets = 2]
Streams == [Following EXCEPT !.switches = 1, !.packets = 2]
Changes == [Following EXCEPT !.changes = 2, !.faults = 1]
Faults == [Following EXCEPT !.changes = 1, !.faults = 2, !.packets = 1, !.destroy = 1]
Chosen == [Following EXCEPT !.dialogs = 1, !.choices = 2, !.packets = 1]
Toggled == [Following EXCEPT !.toggles = 2, !.packets = 1, !.changes = 1]

MCScenes == {Edits, Imports, Removed, Scripts, Switches, Returns, Streams, Changes, Faults, Chosen, Toggled}
=============================================================================
