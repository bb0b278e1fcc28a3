---------------------------- MODULE MCAutomation ----------------------------
EXTENDS Automation

Dir(name, to) == [name |-> name, kind |-> "dir", to |-> to]
Plain(name)   == [name |-> name, kind |-> "file", to |-> name]

\* Two links lead back up, one folder cannot be opened; the list of "music" fills MaxFiles.
MCTree ==
    [root  |-> <<Dir("music", "music")>>,
     music |-> <<Dir("sub", "sub"), Plain("b.sid"), Dir("again", "music"), Plain("notes"), Dir("DOCUMENTS", "docs"),
                 [name |-> "broken", kind |-> "other", to |-> None]>>,
     sub   |-> <<Plain("a.sid"), Dir("up", "music"), Plain("c.d64"), Dir("shut", "shut")>>,
     shut  |-> <<Plain("z.prg")>>,
     docs  |-> <<Plain("Songlengths.txt"), Plain("Songlengths.md5")>>]
MCParent == [root |-> None, music |-> "root", sub |-> "music", shut |-> "sub", docs |-> "music"]
MCLocked == {"shut"}

Value(m, s, f) == [minutes |-> m, colon |-> TRUE, seconds |-> s, point |-> TRUE, fraction |-> f]
Line(key, v)   == [kind |-> "entry", key |-> key, hex |-> TRUE, value |-> v]

\* One tune is listed twice and too short to play, the other is longer than the two bytes can say.
MCLengthLines ==
    ("Songlengths.md5" :> <<[kind |-> "comment", key |-> None, hex |-> FALSE, value |-> Value(<<>>, <<>>, <<>>)],
                            Line("md5 b", Value(<<0>>, <<0>>, <<5>>)), Line("md5 b", Value(<<0>>, <<1>>, <<>>)),
                            Line("md5 a", Value(<<1, 0, 0>>, <<0, 5>>, <<4, 9, 9, 9>>)),
                            [kind |-> "entry", key |-> "short", hex |-> FALSE, value |-> Value(<<1>>, <<1>>, <<>>)]>>)
 @@ ("Songlengths.txt" :> <<>>)
MCMd5 == ("a.sid" :> "md5 a") @@ ("b.sid" :> "md5 b")

MCFileTypes == ("b.sid" :> "sid") @@ ("a.prg" :> "prg") @@ ("a.sid" :> "sid") @@ ("c.d64" :> "d64") @@ ("z.prg" :> "prg")
MCRemote == [usb |-> <<"c.d64", "notes", "a.prg">>]
MCRank ==
    ("music" :> 1) @@ ("usb" :> 1) @@ ("a.prg" :> 2) @@ ("a.sid" :> 2) @@ ("again" :> 3) @@ ("b.sid" :> 4) @@ ("c.d64" :> 4) @@ ("sub" :> 5)
 @@ ("up" :> 6) @@ ("z.prg" :> 7)

MCSettings ==
    LET base == [path |-> <<"music">>, mode |-> "folder", source |-> "local", subfolders |-> TRUE, shuffle |-> FALSE,
                 duration |-> 1, reset |-> TRUE, lengths |-> TRUE, lengthsPath |-> None]
    IN  {base, [base EXCEPT !.subfolders = FALSE, !.lengths = FALSE],
         [base EXCEPT !.mode = "single", !.path = <<"sub", "c.d64">>, !.shuffle = TRUE],
         [base EXCEPT !.source = "c64u", !.path = <<"usb">>, !.reset = FALSE, !.shuffle = TRUE], None}
=============================================================================
