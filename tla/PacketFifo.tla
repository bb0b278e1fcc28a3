----------------------------- MODULE PacketFifo -----------------------------
(***************************************************************************)
(* The stage-1 UDP FIFO (network/c64-network-fifo.h): a preallocated ring  *)
(* shared, without a lock, by one socket receive thread (the producer) and *)
(* the video processor thread (the consumer).  The producer fills a slot   *)
(* field by field and publishes it by moving head; the consumer copies a   *)
(* slot field by field and hands it back by moving tail.  Both threads are *)
(* joined before c64_network_fifo_reset runs.                              *)
(*                                                                         *)
(* A packet is a value of Packet.  A slot is a record of two halves: the   *)
(* header (timestamp, size, tags) and the payload, each named after the    *)
(* packet it was written for, so a slot whose halves differ is torn.       *)
(***************************************************************************)
EXTENDS Integers, Sequences

CONSTANTS
    Capacity,   \* number of slots; 8192 for video, 2048 for audio
    Packet      \* the packets the socket may deliver

ASSUME CapacityAssumption == Capacity \in Nat /\ Capacity >= 2

VARIABLES
    entries,    \* the slots
    head,       \* next slot the producer fills
    tail,       \* next slot the consumer reads
    dropped_full,
    thread_active,  \* the receive and processor threads may run
    recvPc,     \* where the receive thread is
    recvPkt,    \* the packet it is pushing
    procPc,     \* where the processor thread is
    procPkt,    \* the processor's copy of the slot
    out         \* the packet the processor took last

vars == <<entries, head, tail, dropped_full, thread_active,
          recvPc, recvPkt, procPc, procPkt, out>>

Index == 0 .. Capacity - 1
Slot == [header : Packet, payload : Packet]
Whole(p) == [header |-> p, payload |-> p]
WholePackets == {Whole(p) : p \in Packet}

\* Mutant: the index does not wrap.
SuccNoWrap(i) == i + 1

\* (i + 1) % capacity for an index i of the ring.
Succ(i) == IF i = Capacity - 1 THEN 0 ELSE i + 1

\* c64_network_fifo_size_approx, for head h and tail t.
Size(h, t) == IF h >= t THEN h - t ELSE Capacity - t + h

\* The slot that holds the i-th packet of the queue, the oldest being 1.
At(t, i) == IF t + i - 1 < Capacity THEN t + i - 1 ELSE t + i - 1 - Capacity

\* The queue the ring represents.
Contents == [i \in 1 .. Size(head, tail) |-> entries[At(tail, i)]]

-----------------------------------------------------------------------------
(* bmalloc leaves the slots uninitialised: any content.  The packet taken  *)
(* last is arbitrary until the first commit_pop.                           *)
Init ==
    /\ entries \in [Index -> Slot]
    /\ head = 0
    /\ tail = 0
    /\ dropped_full = 0
    /\ thread_active = FALSE
    /\ recvPc = "joined"
    /\ recvPkt \in Packet
    /\ procPc = "joined"
    /\ procPkt \in Slot
    /\ out \in WholePackets

-----------------------------------------------------------------------------
(* The receive thread: c64_network_fifo_push_tagged.                       *)

\* Mutant: the room is not tested.
PushBeginNoTest(p) ==
    /\ recvPc = "idle"
    /\ recvPkt' = p
    /\ recvPc' = "header"
    /\ UNCHANGED <<entries, head, tail, dropped_full, thread_active,
                   procPc, procPkt, out>>

\* recvfrom returned a packet; head and tail are loaded and the ring has room.
PushBegin(p) ==
    /\ recvPc = "idle"
    /\ Succ(head) # tail
    /\ recvPkt' = p
    /\ recvPc' = "header"
    /\ UNCHANGED <<entries, head, tail, dropped_full, thread_active,
                   procPc, procPkt, out>>

PushFull ==
    /\ recvPc = "idle"
    /\ Succ(head) = tail
    /\ dropped_full' = dropped_full + 1
    /\ UNCHANGED <<entries, head, tail, thread_active,
                   recvPc, recvPkt, procPc, procPkt, out>>

PushHeader ==
    /\ recvPc = "header"
    /\ entries' = [entries EXCEPT ![head].header = recvPkt]
    /\ recvPc' = "payload"
    /\ UNCHANGED <<head, tail, dropped_full, thread_active,
                   recvPkt, procPc, procPkt, out>>

PushPayload ==
    /\ recvPc = "payload"
    /\ entries' = [entries EXCEPT ![head].payload = recvPkt]
    /\ recvPc' = "publish"
    /\ UNCHANGED <<head, tail, dropped_full, thread_active,
                   recvPkt, procPc, procPkt, out>>

PushPublish ==
    /\ recvPc = "publish"
    /\ head' = Succ(head)
    /\ recvPc' = "idle"
    /\ UNCHANGED <<entries, tail, dropped_full, thread_active,
                   recvPkt, procPc, procPkt, out>>

-----------------------------------------------------------------------------
(* The processor thread: peek, copy, commit_pop, as in                     *)
(* c64_stage2_drain_video_fifo and c64_stage2_drain_audio_fifo.            *)

\* Mutant: an empty ring is read.
PeekNoTest ==
    /\ procPc = "idle"
    /\ procPc' = "header"
    /\ UNCHANGED <<entries, head, tail, dropped_full, thread_active,
                   recvPc, recvPkt, procPkt, out>>

Peek ==
    /\ procPc = "idle"
    /\ head # tail
    /\ procPc' = "header"
    /\ UNCHANGED <<entries, head, tail, dropped_full, thread_active,
                   recvPc, recvPkt, procPkt, out>>

CopyHeader ==
    /\ procPc = "header"
    /\ procPkt' = [procPkt EXCEPT !.header = entries[tail].header]
    /\ procPc' = "payload"
    /\ UNCHANGED <<entries, head, tail, dropped_full, thread_active,
                   recvPc, recvPkt, out>>

CopyPayload ==
    /\ procPc = "payload"
    /\ procPkt' = [procPkt EXCEPT !.payload = entries[tail].payload]
    /\ procPc' = "commit"
    /\ UNCHANGED <<entries, head, tail, dropped_full, thread_active,
                   recvPc, recvPkt, out>>

CommitPop ==
    /\ procPc = "commit"
    /\ tail' = Succ(tail)
    /\ out' = procPkt
    /\ procPc' = "idle"
    /\ UNCHANGED <<entries, head, dropped_full, thread_active,
                   recvPc, recvPkt, procPkt>>

-----------------------------------------------------------------------------
(* The session around them: thread_active is cleared, each thread leaves   *)
(* its loop when it next tests it and is joined; the ring is reset and     *)
(* fresh threads are created (c64_start_streaming_inner).                  *)

StopRequest ==
    /\ thread_active
    /\ thread_active' = FALSE
    /\ UNCHANGED <<entries, head, tail, dropped_full,
                   recvPc, recvPkt, procPc, procPkt, out>>

RecvExit ==
    /\ ~thread_active
    /\ recvPc = "idle"
    /\ recvPc' = "joined"
    /\ UNCHANGED <<entries, head, tail, dropped_full, thread_active,
                   recvPkt, procPc, procPkt, out>>

ProcExit ==
    /\ ~thread_active
    /\ procPc = "idle"
    /\ procPc' = "joined"
    /\ UNCHANGED <<entries, head, tail, dropped_full, thread_active,
                   recvPc, recvPkt, procPkt, out>>

\* Mutant: the indices of the last session are kept.
RestartNoReset ==
    /\ ~thread_active
    /\ recvPc = "joined"
    /\ procPc = "joined"
    /\ dropped_full' = 0
    /\ thread_active' = TRUE
    /\ recvPc' = "idle"
    /\ procPc' = "idle"
    /\ UNCHANGED <<entries, head, tail, recvPkt, procPkt, out>>

Restart ==
    /\ ~thread_active
    /\ recvPc = "joined"
    /\ procPc = "joined"
    /\ head' = 0
    /\ tail' = 0
    /\ dropped_full' = 0
    /\ thread_active' = TRUE
    /\ recvPc' = "idle"
    /\ procPc' = "idle"
    /\ UNCHANGED <<entries, recvPkt, procPkt, out>>

Next ==
    \/ \E p \in Packet : PushBegin(p)
    \/ PushFull \/ PushHeader \/ PushPayload \/ PushPublish
    \/ Peek \/ CopyHeader \/ CopyPayload \/ CommitPop
    \/ StopRequest \/ RecvExit \/ ProcExit \/ Restart

Spec == Init /\ [][Next]_vars

-----------------------------------------------------------------------------
(* Every variable keeps its type; in particular head and tail always index *)
(* a slot, so no push or peek reaches outside entries.                     *)
TypeOK ==
    /\ entries \in [Index -> Slot]
    /\ head \in Index
    /\ tail \in Index
    /\ dropped_full \in Nat
    /\ thread_active \in BOOLEAN
    /\ recvPc \in {"joined", "idle", "header", "payload", "publish"}
    /\ recvPkt \in Packet
    /\ procPc \in {"joined", "idle", "header", "payload", "commit"}
    /\ procPkt \in Slot
    /\ out \in Slot

\* Every published slot is whole: no reader can see half of a packet.
PublishedWhole ==
    \A i \in 1 .. Size(head, tail) : Contents[i].header = Contents[i].payload

\* The producer that found room still has room, however the consumer moved.
ProducerHasRoom ==
    recvPc \in {"header", "payload", "publish"} => Succ(head) # tail

\* The halves the producer has written belong to the packet it is pushing.
ProducerProgress ==
    /\ recvPc \in {"payload", "publish"} => entries[head].header = recvPkt
    /\ recvPc = "publish" => entries[head].payload = recvPkt

\* The slot the consumer is copying is still published and still the same.
ConsumerProgress ==
    /\ procPc \in {"header", "payload", "commit"} => head # tail
    /\ procPc \in {"payload", "commit"} => procPkt.header = entries[tail].header
    /\ procPc = "commit" => procPkt.payload = entries[tail].payload

IInv ==
    /\ TypeOK
    /\ PublishedWhole
    /\ ProducerHasRoom
    /\ ProducerProgress
    /\ ConsumerProgress

(* The packet handed to stage 2 is one the socket received, never a mix of *)
(* two: although the slots are filled and copied without a lock            *)
(* (push_tagged and drain_*_fifo), the out record is whole after the first *)
(* commit_pop.  Stated on the copy at the point of commit_pop.             *)
NoTornPacket == procPc = "commit" => procPkt.header = procPkt.payload

(* The ring implements the bounded queue: accepted packets come out once,  *)
(* whole and in order, and one is refused only while Capacity - 1 packets  *)
(* wait (one slot tells a full ring from an empty one).                    *)
Queue == INSTANCE BoundedQueue
            WITH Bound <- Capacity - 1, Item <- WholePackets,
                 queue <- Contents, refused <- dropped_full

ImplementsQueue == Queue!Spec
=============================================================================
