------------------------------- MODULE AvSync -------------------------------
(***************************************************************************)
(* The measurement of the offset between sound and picture.  The device    *)
(* plays pops, a flash and a tone at once; each is seen twice, in the      *)
(* packets ("net") and when it is handed to OBS ("obs").  A pop of one     *)
(* kind is paired with the nearest one of the other kind, and the pair     *)
(* seen by OBS with the pair seen in the packets.                          *)
(***************************************************************************)
EXTENDS Integers, Sequences, SequencesExt

CONSTANTS
    Debounce,      \* C64_AV_SYNC_DEBOUNCE_NS
    MatchWindow,   \* C64_AV_SYNC_MATCH_WINDOW_NS
    Expire,        \* C64_AV_SYNC_EXPIRE_UNMATCHED_NS
    MaxPath,       \* C64_AV_SYNC_CORRELATION_MAX_NS
    MaxEvents      \* C64_AV_SYNC_EVENT_QUEUE_SIZE

Kinds == {"video", "audio"}
Origins == {"net", "obs"}
Other(kind) == IF kind = "video" THEN "audio" ELSE "video"

NoMatch == [valid |-> FALSE]
NoPops == [events |-> [kind \in Kinds |-> <<>>], count |-> [kind \in Kinds |-> 0],
           seen |-> [kind \in Kinds |-> -1], match |-> NoMatch]

Apart(a, b) == IF a > b THEN a - b ELSE b - a

\* The unused event nearest to t, the first of them; 0 if none is near enough.
BestMatch(events, t) ==
    LET near == {i \in DOMAIN events : ~events[i].used /\ Apart(events[i].t, t) <= MatchWindow}
    IN  IF near = {} THEN 0
        ELSE CHOOSE i \in near : \A j \in near : \/ Apart(events[i].t, t) < Apart(events[j].t, t)
                                                 \/ Apart(events[i].t, t) = Apart(events[j].t, t) /\ i <= j

Prune(events, t) == SelectSeq(events, LAMBDA e : ~e.used /\ ~(t > e.t /\ t - e.t > Expire))
Push(events, e)  == Append(IF Len(events) < MaxEvents THEN events ELSE Tail(events), e)

Debounced(pops, kind, t) == pops.seen[kind] # -1 /\ t - pops.seen[kind] < Debounce

\* A pop of the kind at time t; frame is its frame number (of a tone: none), id the pop of the device it is.
Pop(pops, kind, t, frame, id) ==
    LET seq   == pops.count[kind] + 1
        best  == BestMatch(pops.events[Other(kind)], t)
        event == [t |-> t, seq |-> seq, frame |-> frame, id |-> id, used |-> best # 0]
        other == IF best = 0 THEN pops.events[Other(kind)] ELSE [pops.events[Other(kind)] EXCEPT ![best].used = TRUE]
        pair  == IF best = 0 THEN pops.match
                 ELSE [valid |-> TRUE,
                       video |-> IF kind = "video" THEN event ELSE pops.events["video"][best],
                       audio |-> IF kind = "audio" THEN event ELSE pops.events["audio"][best]]
    IN  IF Debounced(pops, kind, t) THEN [pops |-> pops, matched |-> FALSE]
        ELSE [matched |-> best # 0,
              pops |-> [events |-> [k \in Kinds |-> Prune(IF k = kind THEN Push(pops.events[k], event) ELSE other, t)],
                        count |-> [pops.count EXCEPT ![kind] = seq],
                        seen |-> [pops.seen EXCEPT ![kind] = t],
                        match |-> pair]]

\* Whether the pair of OBS is the pair of the packets, seen later.
Correlates(obs, net) ==
    /\ obs.valid /\ net.valid
    /\ net.video.frame = obs.video.frame
    /\ \A kind \in Kinds : /\ obs[kind].t - net[kind].t \in 0 .. MaxPath
                           /\ Apart(obs[kind].seq, net[kind].seq) <= 1
=============================================================================
