---------------------------- MODULE AudioTimeline ----------------------------
(***************************************************************************)
(* The audio timeline: what becomes of a packet by its 16-bit sequence     *)
(* number, and the samples that fill a gap.  The place of a packet on the  *)
(* timeline, its index, gives its time; a gap is filled so that the sound  *)
(* and the recording keep their length.                                    *)
(***************************************************************************)
EXTENDS Integers, Sequences

CONSTANTS
    SoundMod,     \* the sequence numbers of the wire, 2^16
    LateWindow,   \* C64_AUDIO_RESYNC_THRESHOLD
    MaxFill,      \* C64_AUDIO_WAV_FILL_MAX_PACKETS: the longest gap that is filled
    MaxConceal,   \* C64_AUDIO_CONCEAL_MAX_PACKETS: how much of it OBS hears
    PacketFrames, \* the samples of a packet, 192
    FadeSamples,  \* C64_AUDIO_CONCEAL_FADE_SAMPLES
    RampSamples   \* C64_AUDIO_CONCEAL_RAMP_SAMPLES

ASSUME TimelineAssumption ==
    /\ SoundMod \in Nat /\ SoundMod % 2 = 0
    /\ LateWindow \in 1 .. SoundMod \div 2 /\ MaxFill \in Nat /\ MaxConceal \in 0 .. MaxFill
    /\ PacketFrames \in Nat \ {0} /\ FadeSamples \in Nat \ {0} /\ RampSamples \in Nat \ {0}

NoTimeline == [set |-> FALSE, last |-> 0, index |-> 0]

\* The difference of two sequence numbers as an int16_t.
SeqDelta(from, to) ==
    LET diff == (to - from) % SoundMod IN IF diff >= SoundMod \div 2 THEN diff - SoundMod ELSE diff

\* A late packet is played where the stream is.
AdvanceLate(tl, seq, slot) ==
    LET delta == SeqDelta(tl.last, seq)
        Act(act, gap, index) == [act |-> act, gap |-> gap, tl |-> [set |-> TRUE, last |-> seq, index |-> index]]
    IN  IF ~tl.set THEN Act("play", 0, 0)
        ELSE IF delta > 1 /\ delta - 1 <= MaxFill THEN Act("conceal", delta - 1, tl.index + delta)
        ELSE IF delta <= 1 /\ delta > -LateWindow THEN Act("play", 0, tl.index + delta)
        ELSE Act("resync", 0, IF slot > tl.index + 1 THEN slot ELSE tl.index + 1)

\* What to do with packet seq while the clock is at slot: the action, the packets of the gap before it,
\* and the timeline after it.
Advance(tl, seq, slot) ==
    LET delta == SeqDelta(tl.last, seq)
        Act(act, gap, index) == [act |-> act, gap |-> gap, tl |-> [set |-> TRUE, last |-> seq, index |-> index]]
    IN  IF ~tl.set THEN Act("play", 0, 0)
        ELSE IF delta = 1 THEN Act("play", 0, tl.index + 1)
        ELSE IF delta <= 0 /\ delta > -LateWindow THEN [act |-> "drop", gap |-> 0, tl |-> tl]
        ELSE IF delta > 1 /\ delta - 1 <= MaxFill THEN Act("conceal", delta - 1, tl.index + delta)
        ELSE Act("resync", 0, IF slot > tl.index + 1 THEN slot ELSE tl.index + 1)

----------------------------------------------------------------------------
\* Division as C has it.
Trunc(a, b) == IF a >= 0 THEN a \div b ELSE -((-a) \div b)

\* The last sample fades out.
Held(last, s) == IF s >= FadeSamples THEN 0 ELSE Trunc(last * (FadeSamples - s), FadeSamples)

\* Sample s, counted from 0, of the n packets between the samples last and next.
FillSample(last, next, n, s) ==
    LET total == n * PacketFrames
        ramp == IF total < RampSamples THEN total ELSE RampSamples
        start == total - ramp
        held == Held(last, s)
    IN  IF s >= start THEN held + Trunc((next - held) * (s - start + 1), ramp) ELSE held

Fill(last, next, n) == [s \in 0 .. n * PacketFrames - 1 |-> FillSample(last, next, n, s)]
=============================================================================
