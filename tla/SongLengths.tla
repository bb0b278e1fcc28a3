----------------------------- MODULE SongLengths -----------------------------
(***************************************************************************)
(* How long a SID tune plays: the Songlengths file of the High Voltage SID *)
(* Collection is found, read into a table sorted by MD5, and looked up;    *)
(* the length found is sent to the device as two BCD bytes and bounds the  *)
(* worker's wait.  Times are milliseconds.  A digit string is a sequence   *)
(* of digits; an MD5 of a tune is a model value.                           *)
(***************************************************************************)
EXTENDS Integers, Sequences, FiniteSets, TLC, SequencesExt

CONSTANTS
    LengthLines,    \* Songlengths file -> its lines
    MaxPath,        \* the names a path can hold (C64_AUTOMATION_PATH_MAX)
    Tree,           \* folder -> the entries of its listing
    Parent,         \* folder -> the folder above, None for the root
    Locked,         \* the folders that cannot be opened
    None

Number(digits) == FoldLeft(LAMBDA n, d : 10 * n + d, 0, digits)
UpTo(s, n) == SubSeq(s, 1, IF Len(s) < n THEN Len(s) ELSE n)

\* One to any digits, a colon, one or two digits, a point and up to three; what follows is ignored.
WellFormed(v) == v.minutes # <<>> /\ v.colon /\ v.seconds # <<>>

Fraction(v) == Number(UpTo(v.fraction \o <<0, 0, 0>>, 3))

\* A digit after the second of the seconds ends the value: the fraction is not reached.
Millis(v) ==
    LET fraction == IF v.point /\ Len(v.seconds) <= 2 THEN Fraction(v) ELSE 0
        total    == 60000 * Number(v.minutes) + 1000 * Number(UpTo(v.seconds, 2)) + fraction
    IN  IF total < 1000 THEN 1000 ELSE total

\* Comments, sections, lines without "=" and keys of another length are skipped.
EntriesOf(lines) ==
    {[md5 |-> l.key, ms |-> Millis(l.value)] :
        l \in {k \in Range(lines) : k.kind = "entry" /\ k.hex /\ WellFormed(k.value)}}

Tables == <<>> @@ [file \in DOMAIN LengthLines |-> EntriesOf(LengthLines[file])]     \* a constant, evaluated once

LoadLengths(file) == IF file \notin DOMAIN Tables \/ Tables[file] = {} THEN None ELSE file

\* Of two lines with the same key the table, once sorted, always yields the same one.
LookupMs(table, md5) ==
    LET same == {x \in Tables[table] : x.md5 = md5}
    IN  IF same = {} THEN None ELSE (CHOOSE x \in same : TRUE).ms

\* The md5 file is preferred to the text file.
DocumentsFile(folder) ==
    LET named(n) == SelectSeq(Tree[folder], LAMBDA e : e.kind = "file" /\ e.name = n)
        found    == named("Songlengths.md5") \o named("Songlengths.txt")
    IN  IF found = <<>> THEN None ELSE found[1].to

SubFolders(at, path) ==
    [i \in 1..Len(SelectSeq(Tree[at], LAMBDA e : e.kind = "dir")) |->
        LET e == SelectSeq(Tree[at], LAMBDA d : d.kind = "dir")[i]
        IN  [at |-> e.to, path |-> Append(path, e.name)]]

\* Depth first; no folder is remembered, so only the length of a path ends a loop of links.
RECURSIVE FindBelow(_)
FindBelow(stack) ==
    IF stack = <<>> THEN None
    ELSE LET dir  == Last(stack)
             here == IF Last(dir.path) = "DOCUMENTS" THEN DocumentsFile(dir.at) ELSE None
             more == IF dir.at \in Locked \/ Len(dir.path) >= MaxPath THEN <<>>
                     ELSE SubFolders(dir.at, dir.path)
         IN  IF here # None THEN here ELSE FindBelow(Front(stack) \o more)

RECURSIVE FindAbove(_)
FindAbove(folder) ==
    IF Parent[folder] = None \/ Parent[Parent[folder]] = None THEN None
    ELSE LET docs == {e \in Range(Tree[Parent[folder]]) : e.kind = "dir" /\ e.name = "DOCUMENTS"}
             file == IF docs = {} THEN None ELSE DocumentsFile((CHOOSE e \in docs : TRUE).to)
         IN  IF file # None THEN file ELSE FindAbove(Parent[folder])

FindLengths(folder) ==
    LET below == FindBelow(<<[at |-> folder, path |-> <<folder>>]>>)
    IN  IF below # None THEN below ELSE FindAbove(folder)

\* The seconds of a length, rounded, as the two BCD bytes hold them.
Seconds(ms) == IF (ms + 500) \div 1000 < 1 THEN 1 ELSE (ms + 500) \div 1000
Bcd(n) == (16 * (n \div 10) + (n % 10)) % 256
AnnouncedUnclamped(ms) == <<Bcd(Seconds(ms) \div 60), Bcd(Seconds(ms) % 60)>>
Announced(ms) ==
    LET minutes == IF Seconds(ms) \div 60 > 99 THEN 99 ELSE Seconds(ms) \div 60
    IN  <<Bcd(minutes), Bcd(Seconds(ms) % 60)>>
FromBcd(b) == 10 * (b \div 16) + (b % 16)
=============================================================================
