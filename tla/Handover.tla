------------------------------ MODULE Handover ------------------------------
(***************************************************************************)
(* The cut-over of the picture and the sound when a source switches to      *)
(* another device: the ingest filter (network/c64-ingest-filter.h) in the   *)
(* two receive threads, the tags in the stage-1 FIFOs, and the processor    *)
(* thread that drops what the previous device left (video/c64-video.c).     *)
(* Devices have one address each; a FIFO is the bounded queue that module   *)
(* PacketFifo implements.                                                  *)
(*                                                                         *)
(* None of this state is under a lock that the three threads and c64_update *)
(* share.  The schedules that a behaviour admits are named by windows:       *)
(*   "update"  a receive thread runs between the writes of c64_update       *)
(*   "queued"  a switch comes while packets of the old device are in a      *)
(*             receive thread or in a FIFO                                  *)
(*   "again"   a switch comes before the last one has been cut over         *)
(*   "closed"  the retry worker ends the handover, because no device is     *)
(*             left to stop, before the new device has sent a packet        *)
(*   "stopped" a start fails and leaves the source without receivers        *)
(***************************************************************************)
EXTENDS Integers, Sequences, FiniteSets

CONSTANTS
    Device,
    NoDevice,
    FirstDevice,
    FifoMax,        \* packets a stage-1 FIFO holds
    WindowSets,     \* sets of windows, one of which a behaviour keeps to
    MaxSwitches     \* bound: how often the user selects another device

ASSUME HandoverAssumption ==
    /\ FirstDevice \in Device /\ NoDevice \notin Device
    /\ FifoMax \in Nat \ {0}
    /\ WindowSets \subseteq SUBSET {"update", "queued", "again", "closed", "stopped"}

Stream == {"video", "audio"}
Packet == [from : Device, from_handover : BOOLEAN, palette_cutover : BOOLEAN]

VARIABLES
    windows,
    \* c64_update and what it shares with the threads
    expected_peer, handover_peer,   \* NoDevice while no handover is open
    handover_flush_pending,
    palette_cutover_pending, palette_cutover_marked, palette_cutover_flush,
    palette_cutover_colors,         \* the device whose colours wait
    colors,                         \* the device whose colours are shown
    uiPc,
    previous,       \* the device to open a handover for, if any
    \* the receivers, as the retry worker starts and stops them
    streaming, starting,
    \* one receive thread per stream
    recvPc, recvFrom, recvTag,
    fifo,
    \* stage 2: the devices whose packets the processor holds
    reorder,        \* per stream, in the network buffer
    frame,          \* in the frame under assembly
    arrived,        \* the streams of which a packet of the selected device
                    \* has reached stage 2 since it was selected
    timedOut,       \* the colours were shown for want of a packet
    switches

select == <<expected_peer, uiPc, previous, switches>>
cut == <<palette_cutover_pending, palette_cutover_flush, palette_cutover_colors,
         colors, timedOut>>
recv == <<recvPc, recvFrom, recvTag>>
stage2 == <<reorder, frame, arrived>>
life == <<streaming, starting>>

vars == <<windows, select, handover_peer, handover_flush_pending, cut,
          palette_cutover_marked, life, recv, fifo, stage2>>

Init ==
    /\ windows \in WindowSets
    /\ expected_peer = FirstDevice
    /\ handover_peer = NoDevice
    /\ handover_flush_pending = FALSE
    /\ palette_cutover_pending = FALSE
    /\ palette_cutover_marked = FALSE
    /\ palette_cutover_flush = FALSE
    /\ palette_cutover_colors = FirstDevice
    /\ colors = FirstDevice
    /\ uiPc = "idle"
    /\ previous = FirstDevice
    /\ streaming = TRUE
    /\ starting = FALSE
    /\ recvPc = [s \in Stream |-> "idle"]
    /\ recvFrom = [s \in Stream |-> FirstDevice]
    /\ recvTag = [s \in Stream |-> FALSE]
    /\ fifo = [s \in Stream |-> << >>]
    /\ reorder = [s \in Stream |-> {}]
    /\ frame = {}
    /\ arrived = {}
    /\ timedOut = FALSE
    /\ switches = 0

-----------------------------------------------------------------------------
(* c64_update: the user selects another device.  A handover opens if the    *)
(* previous one may be streaming.                                          *)

Quiet == \A s \in Stream : recvPc[s] = "idle" /\ fifo[s] = << >>

UpdateExpected(d) ==
    /\ uiPc = "idle"
    /\ d # expected_peer
    /\ switches < MaxSwitches
    /\ Quiet \/ "queued" \in windows
    /\ \/ handover_peer = NoDevice /\ ~handover_flush_pending
       \/ "again" \in windows
    /\ previous' = IF streaming \/ starting THEN expected_peer ELSE NoDevice
    /\ expected_peer' = d
    /\ uiPc' = "handover"
    /\ switches' = switches + 1
    /\ arrived' = {}
    /\ UNCHANGED <<windows, handover_peer, handover_flush_pending, cut,
                   palette_cutover_marked, life, recv, fifo, reorder, frame>>

UpdateHandover ==
    /\ uiPc = "handover"
    /\ handover_peer' = IF previous # NoDevice THEN previous ELSE handover_peer
    /\ uiPc' = "arm"
    /\ UNCHANGED <<windows, expected_peer, previous, switches, handover_flush_pending,
                   cut, palette_cutover_marked, life, recv, fifo, stage2>>

\* c64_palette_follow_device_changed arms the palette cut-over.
UpdateArm ==
    /\ uiPc = "arm"
    /\ palette_cutover_flush' = (handover_peer = NoDevice)
    /\ palette_cutover_colors' = expected_peer
    /\ palette_cutover_marked' = FALSE
    /\ palette_cutover_pending' = TRUE
    /\ timedOut' = FALSE
    /\ uiPc' = "idle"
    /\ UNCHANGED <<windows, expected_peer, previous, switches, handover_peer,
                   handover_flush_pending, colors, life, recv, fifo, stage2>>

\* c64_update is between two writes, and that window is closed.
UpdateClosed == uiPc # "idle" /\ "update" \notin windows

-----------------------------------------------------------------------------
(* The receive threads.                                                    *)

RecvGoes(s, from, to) ==
    /\ ~UpdateClosed
    /\ recvPc[s] = from
    /\ recvPc' = [recvPc EXCEPT ![s] = to]

\* c64_packet_from_handover, for a packet just received from device d.
RecvTag(s, d) ==
    /\ streaming
    /\ RecvGoes(s, "idle", "admit")
    /\ recvFrom' = [recvFrom EXCEPT ![s] = d]
    /\ recvTag' = [recvTag EXCEPT ![s] = (handover_peer = d)]
    /\ UNCHANGED <<windows, select, handover_peer, handover_flush_pending, cut,
                   palette_cutover_marked, life, fifo, stage2>>

\* c64_packet_admit: which packets pass, and which close the handover.
RecvAdmit(s) ==
    /\ RecvGoes(s, "admit",
                IF recvFrom[s] = expected_peer
                THEN IF handover_peer \notin {NoDevice, recvFrom[s]}
                     THEN "flush" ELSE "push"
                ELSE IF recvFrom[s] = handover_peer THEN "push" ELSE "idle")
    /\ UNCHANGED <<windows, select, handover_peer, handover_flush_pending, cut,
                   palette_cutover_marked, life, recvFrom, recvTag, fifo, stage2>>

\* Mutant: no flush is asked for.
RecvFlushNot(s) ==
    /\ RecvGoes(s, "flush", "close")
    /\ UNCHANGED <<windows, select, handover_peer, handover_flush_pending, cut,
                   palette_cutover_marked, life, recvFrom, recvTag, fifo, stage2>>

RecvFlush(s) ==
    /\ RecvGoes(s, "flush", "close")
    /\ handover_flush_pending' = TRUE
    /\ UNCHANGED <<windows, select, handover_peer, cut, palette_cutover_marked, life,
                   recvFrom, recvTag, fifo, stage2>>

RecvClose(s) ==
    /\ RecvGoes(s, "close", "push")
    /\ handover_peer' = NoDevice
    /\ UNCHANGED <<windows, select, handover_flush_pending, cut, palette_cutover_marked,
                   life, recvFrom, recvTag, fifo, stage2>>

\* The first video packet of the selected device carries the palette cut-over.
Carries(s) ==
    /\ s = "video" /\ ~recvTag[s]
    /\ palette_cutover_pending
    /\ recvFrom[s] = expected_peer
    /\ ~palette_cutover_marked

\* Mutant: off by one.
HasRoomLate(s) == Len(fifo[s]) <= FifoMax

HasRoom(s) == Len(fifo[s]) < FifoMax

\* Mutant: a packet the full FIFO refused uses up the cut-over.
MarkAlways(s) == palette_cutover_marked \/ Carries(s)

\* A packet the FIFO refuses gives the mark back.
Mark(s) == palette_cutover_marked \/ (Carries(s) /\ HasRoom(s))

RecvPush(s) ==
    LET packet == [from |-> recvFrom[s], from_handover |-> recvTag[s],
                   palette_cutover |-> Carries(s)]
    IN  /\ RecvGoes(s, "push", "idle")
        /\ fifo' = IF HasRoom(s) THEN [fifo EXCEPT ![s] = Append(@, packet)] ELSE fifo
        /\ palette_cutover_marked' = Mark(s)
        /\ UNCHANGED <<windows, select, handover_peer, handover_flush_pending, cut, life,
                       recvFrom, recvTag, stage2>>

RecvStep(s) ==
    \/ \E d \in Device : RecvTag(s, d)
    \/ RecvAdmit(s) \/ RecvFlush(s) \/ RecvClose(s) \/ RecvPush(s)

-----------------------------------------------------------------------------
(* The processor thread: c64_stage2_drain_video_fifo and _audio_fifo.      *)

\* Takes the oldest packet of a FIFO, if the processor runs.
Dequeue(s) ==
    /\ ~UpdateClosed
    /\ streaming
    /\ fifo[s] # << >>
    /\ fifo' = [fifo EXCEPT ![s] = Tail(@)]

\* Mutant: what the previous device left queued is used.
ShouldDropNever(p) == FALSE

\* c64_handover_should_drop
ShouldDrop(p) == p.from_handover /\ handover_peer = NoDevice
ShouldFlush(p) == ~p.from_handover /\ handover_flush_pending

DrainDrops(s) ==
    /\ Dequeue(s)
    /\ ShouldDrop(Head(fifo[s]))
    /\ UNCHANGED <<windows, select, handover_peer, handover_flush_pending, cut,
                   palette_cutover_marked, life, recv, stage2>>

\* The packet is inserted into the reorder buffer, after c64_handover_flush
\* when the handover, or else the palette cut-over, calls for it.
DrainInserts(s) ==
    LET p == Head(fifo[s])
        flush == ShouldFlush(p) \/ (p.palette_cutover /\ palette_cutover_flush)
        kept == [t \in Stream |-> IF flush THEN {} ELSE reorder[t]]
    IN  /\ Dequeue(s)
        /\ ~ShouldDrop(p)
        /\ handover_flush_pending' = (handover_flush_pending /\ ~ShouldFlush(p))
        /\ palette_cutover_flush' =
              (palette_cutover_flush /\ ~(p.palette_cutover /\ ~ShouldFlush(p)))
        /\ palette_cutover_pending' = (palette_cutover_pending /\ ~p.palette_cutover)
        /\ colors' = IF p.palette_cutover /\ palette_cutover_pending
                     THEN palette_cutover_colors ELSE colors
        /\ reorder' = [kept EXCEPT ![s] = @ \cup {p.from}]
        /\ frame' = IF flush THEN {} ELSE frame
        /\ arrived' = IF p.from = expected_peer THEN arrived \cup {s} ELSE arrived
        /\ UNCHANGED <<windows, select, handover_peer, palette_cutover_colors, timedOut,
                       palette_cutover_marked, life, recv>>

\* A packet leaves the reorder buffer in an order of its own; it may be the
\* last of its device there.  Video goes into a new frame or the current one.
Pop(s, d) ==
    /\ ~UpdateClosed
    /\ streaming
    /\ d \in reorder[s]
    /\ reorder' \in {reorder, [reorder EXCEPT ![s] = @ \ {d}]}
    /\ frame' \in IF s = "video" THEN {{d}, frame \cup {d}} ELSE {frame}
    /\ UNCHANGED <<windows, select, handover_peer, handover_flush_pending, cut,
                   palette_cutover_marked, life, recv, fifo, arrived>>

ProcStep ==
    \E s \in Stream :
        DrainDrops(s) \/ DrainInserts(s) \/ \E d \in Device : Pop(s, d)

-----------------------------------------------------------------------------
(* The retry worker and the palette worker.                                *)

\* c64_start_streaming raises stream_start_in_flight.
BeginStart ==
    /\ ~starting
    /\ starting' = TRUE
    /\ UNCHANGED <<windows, select, handover_peer, handover_flush_pending, cut,
                   palette_cutover_marked, streaming, recv, fifo, stage2>>

\* The receivers are told to stop and joined.
StopReceivers ==
    /\ streaming /\ starting
    /\ \A s \in Stream : recvPc[s] = "idle"
    /\ streaming' = FALSE
    /\ UNCHANGED <<windows, select, handover_peer, handover_flush_pending, cut,
                   palette_cutover_marked, starting, recv, fifo, stage2>>

\* Fresh receivers, with empty FIFOs.
StartReceivers ==
    /\ ~streaming /\ starting
    /\ streaming' = TRUE
    /\ starting' = FALSE
    /\ fifo' = [s \in Stream |-> << >>]
    /\ palette_cutover_marked' = FALSE
    /\ UNCHANGED <<windows, select, handover_peer, handover_flush_pending, cut, recv, stage2>>

StartFails ==
    /\ "stopped" \in windows
    /\ ~streaming /\ starting
    /\ starting' = FALSE
    /\ UNCHANGED <<windows, select, handover_peer, handover_flush_pending, cut,
                   palette_cutover_marked, streaming, recv, fifo, stage2>>

\* c64_process_previous_device_stops: every previous device has been stopped
\* or given up on.
CloseHandover ==
    /\ "closed" \in windows
    /\ handover_peer # NoDevice
    /\ handover_peer' = NoDevice
    /\ UNCHANGED <<windows, select, handover_flush_pending, cut, palette_cutover_marked,
                   life, recv, fifo, stage2>>

\* C64_PALETTE_CUTOVER_MAX_NS have passed without a packet.
CutoverTimeout ==
    /\ palette_cutover_pending
    /\ palette_cutover_pending' = FALSE
    /\ colors' = palette_cutover_colors
    /\ timedOut' = TRUE
    /\ UNCHANGED <<windows, select, handover_peer, handover_flush_pending,
                   palette_cutover_flush, palette_cutover_colors,
                   palette_cutover_marked, life, recv, fifo, stage2>>

Next ==
    \/ \E d \in Device : UpdateExpected(d)
    \/ UpdateHandover \/ UpdateArm
    \/ \E s \in Stream : RecvStep(s)
    \/ ProcStep
    \/ StopReceivers \/ BeginStart \/ StartReceivers \/ StartFails
    \/ CloseHandover \/ CutoverTimeout

Spec == Init /\ [][Next]_vars

-----------------------------------------------------------------------------
TypeOK ==
    /\ windows \in WindowSets
    /\ expected_peer \in Device /\ previous \in Device \cup {NoDevice}
    /\ handover_peer \in Device \cup {NoDevice}
    /\ colors \in Device /\ palette_cutover_colors \in Device
    /\ {handover_flush_pending, palette_cutover_pending, palette_cutover_marked,
        palette_cutover_flush, streaming, starting, timedOut} \subseteq BOOLEAN
    /\ uiPc \in {"idle", "handover", "arm"}
    /\ recvPc \in [Stream -> {"idle", "admit", "flush", "close", "push"}]
    /\ recvFrom \in [Stream -> Device]
    /\ recvTag \in [Stream -> BOOLEAN]
    /\ fifo \in [Stream -> Seq(Packet)]
    /\ \A s \in Stream : Len(fifo[s]) <= FifoMax
    /\ reorder \in [Stream -> SUBSET Device]
    /\ frame \subseteq Device
    /\ arrived \subseteq Stream

(* One switch is over, and its handover used, before the next begins.       *)
Orderly == windows \cap {"again", "closed", "stopped"} = {}

(* If switches are orderly, the reorder buffer and the frame under assembly *)
(* never hold packets of two devices: c64_handover_flush empties them       *)
(* before the new device's first packet, and nothing of the previous device *)
(* comes after it (c64-video.c: "never let the previous device's packets follow the new    *)
(* device's, whether still queued here or reordered").                      *)
OneDeviceInStage2 ==
    Orderly => /\ Cardinality(reorder["video"] \cup frame) <= 1
               /\ Cardinality(reorder["audio"]) <= 1

(* Once stage 2 has received a packet of the selected device, no packet of  *)
(* a device switched away from reaches it any more, whichever threads and   *)
(* FIFOs they took (c64_packet_admit, c64_handover_should_drop).            *)
NoPacketAfterCutOver ==
    [][arrived # {} /\ arrived' # {} =>
          \A s \in Stream : reorder'[s] \subseteq reorder[s] \cup {expected_peer}]_vars

(* If switches are orderly, no video of the selected device is shown before *)
(* the cut-over to its colours; and when that comes with a packet, not      *)
(* because the wait for one timed out, nothing of the previous device is    *)
(* left to be shown in them: the tag sits on the selected device's first    *)
(* packet, also after the FIFO refused or lost a tagged one                 *)
(* (palette_cutover_marked).                                               *)
ColorsFollowPicture ==
    Orderly /\ uiPc = "idle" =>
        /\ "video" \in arrived => ~palette_cutover_pending /\ colors = expected_peer
        /\ ~palette_cutover_pending /\ ~timedOut
              => reorder["video"] \cup frame \subseteq {expected_peer}

(* One device at a time feeds stage 2, whatever waits in the FIFOs          *)
(* (c64-ingest-filter.h, c64-video.c).                                      *)
StageInv == TypeOK /\ OneDeviceInStage2

-----------------------------------------------------------------------------
(* Why these hold.  What makes them inductive is where packets of each      *)
(* device may be, and what the handover and the colours then are.           *)

(* A switch finds the threads idle and the FIFOs empty, and they stay so    *)
(* while c64_update is between its writes.                                  *)
StillDuringUpdate == uiPc # "idle" => Quiet /\ arrived = {}

(* A packet that is not of the selected device was admitted for an open     *)
(* handover, and carries its tag.                                           *)
Foreign(from, tagged) == from # expected_peer => tagged /\ handover_peer # expected_peer

(* Before a packet of the selected device goes on, the handover is closed.  *)
Own(from) == from = expected_peer => handover_peer \in {NoDevice, expected_peer}

FilterInv ==
    /\ uiPc = "handover" => previous # expected_peer
    /\ \A s \in Stream :
          /\ recvPc[s] = "admit" /\ handover_peer = recvFrom[s] => recvTag[s]
          /\ recvPc[s] \in {"flush", "close"} => recvFrom[s] = expected_peer
          /\ recvPc[s] = "push" => Foreign(recvFrom[s], recvTag[s]) /\ Own(recvFrom[s])
    /\ \A s \in Stream : \A i \in 1 .. Len(fifo[s]) :
          LET p == fifo[s][i] IN
          /\ Foreign(p.from, p.from_handover) /\ Own(p.from)
          /\ p.palette_cutover => p.from = expected_peer /\ ~p.from_handover
    /\ arrived # {} => handover_peer \in {NoDevice, expected_peer}

Stage2 == reorder["video"] \cup reorder["audio"] \cup frame

(* If switches are orderly, a handover is open for the previous device from *)
(* the switch to the selected device's first packet, and what is in stage 2 *)
(* is the previous device's until the flush and the selected device's after *)
(* it.                                                                      *)
OrderInv ==
    /\ streaming \/ starting
    /\ uiPc = "handover" => handover_peer = NoDevice /\ previous # NoDevice
    /\ uiPc = "arm" => handover_peer # NoDevice
    /\ handover_peer # NoDevice => handover_peer = previous /\ previous # expected_peer
    /\ uiPc # "idle" => ~handover_flush_pending
    /\ \A s \in Stream :
          /\ recvPc[s] # "idle" /\ recvFrom[s] = expected_peer => ~recvTag[s]
          /\ recvPc[s] = "push" => recvFrom[s] \in {expected_peer, previous}
          /\ recvPc[s] = "close" => handover_flush_pending \/ handover_peer = NoDevice
          /\ \A i \in 1 .. Len(fifo[s]) :
                /\ fifo[s][i].from \in {expected_peer, previous}
                /\ fifo[s][i].from_handover => fifo[s][i].from # expected_peer
    /\ Stage2 \subseteq {previous} \/ Stage2 \subseteq {expected_peer}
    /\ uiPc # "idle" \/ handover_peer # NoDevice => Stage2 \subseteq {previous}
    /\ uiPc = "idle" /\ handover_peer = NoDevice /\ ~handover_flush_pending
          => Stage2 \subseteq {expected_peer}

(* The mark for the new colours is on the selected device's first packet    *)
(* that the FIFO took, or still to be given.                                *)
Waiting(i) ==
    /\ fifo["video"][i].palette_cutover
    /\ \A j \in 1 .. i - 1 : fifo["video"][j].from # expected_peer

ColorInv ==
    /\ ~palette_cutover_flush
    /\ uiPc = "idle" =>
          /\ palette_cutover_colors = expected_peer
          /\ ~palette_cutover_pending => colors = expected_peer
          /\ ~palette_cutover_pending /\ ~timedOut
                => handover_peer = NoDevice /\ Stage2 \subseteq {expected_peer}
          /\ "video" \in arrived => ~palette_cutover_pending
          /\ palette_cutover_pending /\ palette_cutover_marked =>
                \E i \in 1 .. Len(fifo["video"]) : Waiting(i)
          /\ palette_cutover_pending /\ ~palette_cutover_marked =>
                \A i \in 1 .. Len(fifo["video"]) : fifo["video"][i].from # expected_peer

IInv == TypeOK /\ StillDuringUpdate /\ FilterInv /\ (Orderly => OrderInv /\ ColorInv)
=============================================================================
