---------------------------- MODULE FrameAssembly ----------------------------
(***************************************************************************)
(* How the processor thread makes pictures of video packets, and the time  *)
(* it gives them.  A packet carries one strip of a picture; the strips of  *)
(* one frame are collected until a packet of another frame arrives, and    *)
(* the frame is shown then, if it is complete.  The format follows from    *)
(* the position of the last strip.  The time of a picture is not the time  *)
(* it arrived but its place among the 16-bit frame numbers, on a timeline  *)
(* that starts with the first packet of the stream.                        *)
(*                                                                         *)
(* A height is counted in strips; a strip is the frame it came from, so    *)
(* that a picture tells which frames it shows.                             *)
(***************************************************************************)
EXTENDS Integers, Sequences, FiniteSets, TLC

CONSTANTS
    None,
    FrameMod,    \* the frame numbers of the wire, 2^16
    NtscHeight,  \* strips of an NTSC picture
    PalHeight,   \* strips of a PAL picture, and C64_MAX_PACKETS_PER_FRAME
    SplitHeight, \* strips above which a picture is taken for PAL (250 lines)
    Interval     \* "pal", "ntsc" -> the time between two pictures

ASSUME FrameAssumption ==
    /\ FrameMod \in Nat /\ FrameMod % 2 = 0 /\ FrameMod > 0
    /\ NtscHeight \in Nat /\ PalHeight \in Nat /\ 0 < NtscHeight /\ NtscHeight < PalHeight
    /\ SplitHeight \in NtscHeight .. PalHeight - 1

\* The frame under assembly: its number, strip index -> strip, and how many strips it has (0: not known).
NewFrame(num) == [num |-> num, got |-> <<>>, expected |-> 0]

IsComplete(frame) == frame.expected # 0 /\ Cardinality(DOMAIN frame.got) >= frame.expected

\* A packet of another frame ends the one under assembly; nothing else does.
EndsFrame(video, packet) == video.cur.num # packet.num

\* A frame that is not complete is given up, timed out or not; so is one with the number of the last one shown.
IsShown(video) ==
    /\ video.cur.got # <<>>
    /\ IsComplete(video.cur)
    /\ video.completed # video.cur.num

\* Missing strips repeat the one above; above the first strip of the frame the old picture stays.
Picture(frame, height, screen) ==
    LET have == DOMAIN frame.got \cap (0 .. height - 1)
        Above(i) == {j \in have : j <= i}
        Lowest(S) == CHOOSE j \in S : \A k \in S : k <= j
    IN  [i \in 0 .. PalHeight - 1 |->
            IF i >= height THEN screen[i]
            ELSE IF Above(i) # {} THEN frame.got[Lowest(Above(i))]
            ELSE screen[0]]

AddPacket(frame, packet) ==
    IF packet.index < PalHeight /\ packet.index \notin DOMAIN frame.got
    THEN [frame EXCEPT !.got = @ @@ (packet.index :> packet.strip)]
    ELSE frame

Clamp(height) == IF height < NtscHeight THEN NtscHeight ELSE IF height > PalHeight THEN PalHeight ELSE height

\* An unknown height goes with the nearer format.
FormatOf(height) == IF height > SplitHeight THEN "pal" ELSE "ntsc"

\* The first last strip of a frame sets how many it has, and the format if the height is a valid one.
Expect(video, packet) ==
    IF packet.last /\ video.cur.expected = 0
    THEN LET height == packet.index + 1
             known == [video EXCEPT !.cur.expected = packet.index + 1]
         IN  IF Clamp(height) # height \/ video.detected = height THEN known
             ELSE [known EXCEPT !.detected = height, !.format = FormatOf(height)]
    ELSE video

\* The size is published apart from the format, under the lock the graphics thread reads it with.
Publish(video) == IF video.detected # 0 THEN [video EXCEPT !.height = video.detected] ELSE video

Begin(video, packet) == IF EndsFrame(video, packet) THEN [video EXCEPT !.cur = NewFrame(packet.num)] ELSE video
Add(video, packet) == LET begun == Begin(video, packet)
                      IN  Expect([begun EXCEPT !.cur = AddPacket(@, packet)], packet)

----------------------------------------------------------------------------
(***************************************************************************)
(* The timeline.  A clock is set by the first picture of a stream.         *)
(***************************************************************************)
NoClock == [set |-> FALSE, last |-> 0, index |-> 0]

Half == FrameMod \div 2
FrameDiff(from, to) ==
    LET diff == to - from
    IN  IF diff < -Half THEN diff + FrameMod ELSE IF diff > Half THEN diff - FrameMod ELSE diff

\* The numbers compared without the wrap-around.
PlaceUnwrapped(clock, num) ==
    IF ~clock.set THEN [set |-> TRUE, last |-> num, index |-> 0]
    ELSE IF num > clock.last THEN [clock EXCEPT !.index = @ + (num - clock.last), !.last = num]
    ELSE [clock EXCEPT !.index = @ + 1]

\* Lost frames leave their time empty; a number that does not advance takes the next place.
Place(clock, num) ==
    LET diff == FrameDiff(clock.last, num)
    IN  IF ~clock.set THEN [set |-> TRUE, last |-> num, index |-> 0]
        ELSE IF diff > 0 THEN [clock EXCEPT !.index = @ + diff, !.last = num]
        ELSE [clock EXCEPT !.index = @ + 1]

IdealTime(clock, format) == clock.index * Interval[format]
=============================================================================
