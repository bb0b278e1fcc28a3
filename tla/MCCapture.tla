------------------------------- MODULE MCCapture -------------------------------
(***************************************************************************)
(* Small scenes for Capture, each about one thing: a recording that is     *)
(* switched on and off, everything the user can switch at once, a bad      *)
(* network, the sound of a device, and the measurement.                    *)
(***************************************************************************)
EXTENDS Capture

CONSTANTS A, B

MCInterval == [pal |-> 6, ntsc |-> 5]
MCSoundInterval == [pal |-> 2, ntsc |-> 3]
MCUserVolume == (A :> "loud" @@ B :> "soft")
MCLevels == {-6, -1, 0, 5}

Nothing ==
    [ops |-> 0, toggles |-> {}, packets |-> 0, loss |-> 0, jumps |-> 0, invalid |-> FALSE, formats |-> {"pal"},
     sounds |-> 0, skips |-> {1}, faults |-> 0, restarts |-> 0, ready |-> 0, hosts |-> 0, destroy |-> FALSE,
     pops |-> 0, popTime |-> 0]

Tape     == [Nothing EXCEPT !.ops = 2, !.toggles = {"video"}, !.packets = 4, !.formats = {"ntsc", "pal"},
                            !.sounds = 1, !.faults = 1, !.destroy = TRUE]
Switches == [Nothing EXCEPT !.ops = 3, !.toggles = {"csv", "video"}, !.packets = 3, !.formats = {"ntsc"},
                            !.faults = 1]
Measure  == [Nothing EXCEPT !.ops = 2, !.toggles = {"frames", "av", "csv"}, !.packets = 2, !.formats = {"ntsc"},
                            !.faults = 1, !.ready = 1, !.hosts = 1, !.destroy = TRUE]
Network  == [Nothing EXCEPT !.packets = 8, !.loss = 2, !.invalid = TRUE]
Restarts == [Nothing EXCEPT !.packets = 7, !.formats = {"ntsc", "pal"}, !.jumps = 1, !.restarts = 1]
Sound    == [Nothing EXCEPT !.ops = 2, !.toggles = {"video"}, !.sounds = 3, !.skips = {1, 3, 5}]
Gaps     == [Nothing EXCEPT !.sounds = 5, !.skips = {-2, -1, 0, 1, 3, 5}, !.jumps = 1, !.restarts = 1]
Rates    == [Nothing EXCEPT !.packets = 4, !.formats = {"ntsc", "pal"}, !.sounds = 4, !.skips = {1, 3, 5}]
Pops     == [Nothing EXCEPT !.pops = 5, !.popTime = 8]

MCScenes == {Tape, Switches, Measure, Network, Restarts, Sound, Gaps, Rates, Pops}
=============================================================================
