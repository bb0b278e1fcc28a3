---------------------------- MODULE PaletteFollow ----------------------------
(***************************************************************************)
(* What palette_mutex guards in a source: the colours on screen, those     *)
(* kept for the cut-over of a device switch, and what is known of the      *)
(* device's palette, from its stream and from its setting.  The operators  *)
(* take such a record p and give the one after the locked section.         *)
(***************************************************************************)
EXTENDS PaletteCatalogue

CONSTANTS
    MaxMemory,       \* C64_PALETTE_MEMORY_MAX
    GenMod           \* a generation is a number modulo this

ASSUME FollowAssumption == MaxMemory \in Nat \ {0} /\ GenMod \in Nat \ {0, 1, 2}

NoFollow(colors, key) ==
    [follow  |-> FALSE,  shown  |-> colors,
     cutover |-> None,      \* palette_cutover_colors while one is pending
     overdue |-> FALSE,     \* it waits longer than C64_PALETTE_CUTOVER_MAX_NS
     memory  |-> <<>>,      \* the last palette of each device, in order of arrival
     polled  |-> None,      \* polled_palette
     key     |-> key,       \* palette_device_key
     fresh   |-> FALSE,     \* the stream carried a palette moments ago
     grace   |-> FALSE,     \* it is expected to do so again
     order   |-> None,      \* generation of the last stream palette, to compare with
     stream  |-> None]      \* its colours

Slot(p, key) == SelectInSeq(p.memory, LAMBDA m : m.key = key)

Remembered(memory, m) ==
    IF \E i \in DOMAIN memory : memory[i].key = m.key
    THEN [i \in DOMAIN memory |-> IF memory[i].key = m.key THEN m ELSE memory[i]]
    ELSE Append(IF Len(memory) = MaxMemory THEN Tail(memory) ELSE memory, m)

Remember(p, key, colors, fromStream) ==
    [p EXCEPT !.memory = Remembered(@, [key |-> key, colors |-> colors, stream |-> fromStream])]

ShowOrDefer(p, colors) ==
    IF p.cutover # None THEN [p EXCEPT !.cutover = colors] ELSE [p EXCEPT !.shown = colors]

CutOver(p) ==
    IF p.cutover = None THEN p ELSE [p EXCEPT !.shown = p.cutover, !.cutover = None, !.overdue = FALSE]

\* apply_polled: the stream's palette and another device's come first.
Applies(p, current) == current /\ p.follow /\ ~p.fresh
ApplyPolled(p, current, key, colors) ==
    IF ~Applies(p, current) THEN p
    ELSE LET q == [p EXCEPT !.polled = colors, !.order = None] IN
         ShowOrDefer(IF key = None THEN q ELSE Remember([q EXCEPT !.key = key], key, colors, FALSE), colors)

\* c64_palette_follow_device_changed.
DeviceChanged(p, key) ==
    LET known  == Slot(p, key) # 0
        colors == IF known THEN p.memory[Slot(p, key)].colors ELSE None
    IN [p EXCEPT !.key = key, !.fresh = FALSE, !.polled = colors,
                 !.grace = known /\ p.memory[Slot(p, key)].stream,
                 !.cutover = IF ~p.follow THEN @ ELSE IF known THEN colors ELSE DefaultColors,
                 !.overdue = FALSE]

\* A palette packet of the stream.
Newer(a, b) == (a + GenMod - b) % GenMod \in 1 .. GenMod \div 2 - 1
Accepts(p, generation) == p.order = None \/ Newer(generation, p.order)
StreamPacket(p, generation, colors) ==
    LET q == [p EXCEPT !.fresh = TRUE] IN
    IF ~p.follow THEN p
    ELSE IF ~Accepts(p, generation) THEN q
    ELSE LET r == ShowOrDefer([q EXCEPT !.order = generation, !.stream = colors], colors)
         IN Remember(r, r.key, colors, TRUE)

\* c64_source_apply_palette: colors are the catalogue's, or the default ones
\* while the palette is the device's.
ApplyPalette(p, follow, colors) ==
    LET table == IF ~follow THEN colors
                 ELSE IF p.stream # None /\ p.fresh THEN p.stream
                 ELSE IF p.polled # None THEN p.polled ELSE DefaultColors
    IN [p EXCEPT !.follow = follow,
                 !.cutover = IF follow THEN @ ELSE None,
                 !.overdue = @ /\ follow,
                 !.shown = IF follow /\ p.follow THEN @ ELSE table]
=============================================================================
