-------------------------- MODULE PacketFifoProof --------------------------
(***************************************************************************)
(* Proofs about PacketFifo, for every capacity and every set of packets.   *)
(***************************************************************************)
EXTENDS PacketFifo, SequenceTheorems, TLAPS

\* The next index of an index of the ring is again one, and differs from it.
LEMMA SuccIndex ==
    ASSUME NEW i \in Index
    PROVE  Succ(i) \in Index /\ Succ(i) # i
BY CapacityAssumption DEF Index, Succ

\* The queue's slots lie inside the ring; none is the slot the producer fills.
LEMMA AtIndex ==
    ASSUME NEW h \in Index, NEW t \in Index, NEW i \in 1 .. Size(h, t)
    PROVE  At(t, i) \in Index /\ At(t, i) # h
BY CapacityAssumption DEF Index, At, Size

\* The oldest packet of a non-empty ring is in the slot at tail.
LEMMA Oldest ==
    ASSUME NEW h \in Index, NEW t \in Index
    PROVE  /\ Size(h, t) \in Nat
           /\ h # t => Size(h, t) # 0 /\ At(t, 1) = t
BY CapacityAssumption DEF Index, At, Size

\* Moving head publishes exactly the slot it pointed to, as the newest.
LEMMA Published ==
    ASSUME NEW h \in Index, NEW t \in Index, Succ(h) # t
    PROVE  /\ Size(Succ(h), t) = Size(h, t) + 1
           /\ At(t, Size(h, t) + 1) = h
           /\ Size(h, t) < Capacity - 1
BY CapacityAssumption DEF Index, At, Size, Succ

\* Moving tail removes exactly the oldest slot.
LEMMA Popped ==
    ASSUME NEW h \in Index, NEW t \in Index, h # t
    PROVE  /\ Size(h, Succ(t)) = Size(h, t) - 1
           /\ \A i \in 1 .. Size(h, Succ(t)) : At(Succ(t), i) = At(t, i + 1)
BY CapacityAssumption DEF Index, At, Size, Succ

\* A ring that looks full to the producer holds Capacity - 1 packets.
LEMMA Full ==
    ASSUME NEW h \in Index, NEW t \in Index, Succ(h) = t
    PROVE  Size(h, t) = Capacity - 1
BY CapacityAssumption DEF Index, Size, Succ

\* A whole packet fits a slot.
LEMMA WholeIsSlot == WholePackets \subseteq Slot
BY DEF WholePackets, Whole, Slot

\* The initial states are well typed.
LEMMA InitType == Init => TypeOK
<1> SUFFICES ASSUME Init
             PROVE  TypeOK
  OBVIOUS
<1>1. head \in Index /\ tail \in Index /\ dropped_full \in Nat
  BY CapacityAssumption DEF Init, Index
<1>2. out \in Slot
  BY WholeIsSlot DEF Init
<1>3. QED
  BY <1>1, <1>2, Zenon DEF Init, TypeOK

(* Type correctness: head and tail never leave the ring, whatever the     *)
(* interleaving of c64_network_fifo_push_tagged, peek and commit_pop.      *)
THEOREM TypeCorrect == Spec => []TypeOK
<1>1. Init => TypeOK
  BY InitType
<1>2. TypeOK /\ [Next]_vars => TypeOK'
  <2> SUFFICES ASSUME TypeOK, [Next]_vars
               PROVE  TypeOK'
    OBVIOUS
  <2> USE DEF TypeOK
  <2>1. CASE \E p \in Packet : PushBegin(p)
    BY <2>1 DEF PushBegin
  <2>2. CASE PushFull
    BY <2>2 DEF PushFull
  <2>3. CASE PushHeader
    BY <2>3 DEF PushHeader, Slot
  <2>4. CASE PushPayload
    BY <2>4 DEF PushPayload, Slot
  <2>5. CASE PushPublish
    BY <2>5, SuccIndex DEF PushPublish
  <2>6. CASE Peek
    BY <2>6 DEF Peek
  <2>7. CASE CopyHeader
    BY <2>7 DEF CopyHeader, Slot
  <2>8. CASE CopyPayload
    BY <2>8 DEF CopyPayload, Slot
  <2>9. CASE CommitPop
    BY <2>9, SuccIndex DEF CommitPop
  <2>10. CASE StopRequest
    BY <2>10 DEF StopRequest
  <2>11. CASE RecvExit
    BY <2>11 DEF RecvExit
  <2>12. CASE ProcExit
    BY <2>12 DEF ProcExit
  <2>13. CASE Restart
    BY <2>13, CapacityAssumption DEF Restart, Index
  <2>14. CASE UNCHANGED vars
    BY <2>14 DEF vars
  <2>15. QED
    BY <2>1, <2>2, <2>3, <2>4, <2>5, <2>6, <2>7, <2>8, <2>9, <2>10,
       <2>11, <2>12, <2>13, <2>14 DEF Next
<1>3. QED
  BY <1>1, <1>2, PTL DEF Spec

(* The ring's own invariant: what is published is whole, the producer only *)
(* writes a slot nobody may read, and the slot the consumer copies stays    *)
(* published and unchanged until its commit_pop.                           *)
THEOREM RingInvariant == Spec => []IInv
<1>1. Init => IInv
  <2> SUFFICES ASSUME Init
               PROVE  PublishedWhole /\ ProducerHasRoom /\ ProducerProgress
                      /\ ConsumerProgress
    BY InitType DEF IInv
  <2>1. Size(head, tail) = 0
    BY DEF Init, Size
  <2>2. PublishedWhole
    BY <2>1 DEF PublishedWhole
  <2>3. recvPc = "joined" /\ procPc = "joined"
    BY Zenon DEF Init
  <2>4. QED
    BY <2>2, <2>3 DEF ProducerHasRoom, ProducerProgress, ConsumerProgress
<1>2. IInv /\ TypeOK' /\ [Next]_vars => IInv'
  <2> SUFFICES ASSUME IInv, TypeOK', [Next]_vars
               PROVE  (PublishedWhole /\ ProducerHasRoom /\ ProducerProgress
                       /\ ConsumerProgress)'
    BY DEF IInv
  <2>t. /\ head \in Index /\ tail \in Index
        /\ entries \in [Index -> Slot] /\ recvPkt \in Packet
    BY DEF IInv, TypeOK
  <2>w. \A i \in 1 .. Size(head, tail) :
           entries[At(tail, i)].header = entries[At(tail, i)].payload
    BY DEF IInv, PublishedWhole, Contents
  <2>o. head # tail => /\ Size(head, tail) \in Nat
                       /\ 1 \in 1 .. Size(head, tail)
                       /\ At(tail, 1) = tail
    BY <2>t, Oldest
  <2> USE DEF PublishedWhole, Contents, ProducerHasRoom, ProducerProgress,
              ConsumerProgress, IInv
  <2>1. CASE \E p \in Packet : PushBegin(p)
    BY <2>1 DEF PushBegin
  <2>2. CASE PushFull
    BY <2>2 DEF PushFull
  <2>3. CASE PushHeader
    <3>1. \A i \in 1 .. Size(head, tail) :
             entries'[At(tail, i)] = entries[At(tail, i)]
      BY <2>3, <2>t, AtIndex DEF PushHeader
    <3>2. PublishedWhole'
      <4>1. head' = head /\ tail' = tail
        BY <2>3 DEF PushHeader
      <4>2. \A i \in 1 .. Size(head, tail) :
               entries'[At(tail, i)].header = entries'[At(tail, i)].payload
        BY <3>1, <2>w
      <4>3. QED
        BY <4>1, <4>2
    <3>3. entries'[head].header = recvPkt
      BY <2>3, <2>t DEF PushHeader, Slot
    <3>4. head # tail => entries'[tail] = entries[tail]
      BY <2>3, <2>t DEF PushHeader
    <3>5. QED
      BY <3>2, <3>3, <3>4, <2>3 DEF PushHeader
  <2>4. CASE PushPayload
    <3>1. \A i \in 1 .. Size(head, tail) :
             entries'[At(tail, i)] = entries[At(tail, i)]
      BY <2>4, <2>t, AtIndex DEF PushPayload
    <3>2. PublishedWhole'
      <4>1. head' = head /\ tail' = tail
        BY <2>4 DEF PushPayload
      <4>2. \A i \in 1 .. Size(head, tail) :
               entries'[At(tail, i)].header = entries'[At(tail, i)].payload
        BY <3>1, <2>w
      <4>3. QED
        BY <4>1, <4>2
    <3>3. entries'[head].header = recvPkt /\ entries'[head].payload = recvPkt
      BY <2>4, <2>t DEF PushPayload, Slot
    <3>4. head # tail => entries'[tail] = entries[tail]
      BY <2>4, <2>t DEF PushPayload
    <3>5. QED
      BY <3>2, <3>3, <3>4, <2>4 DEF PushPayload
  <2>5. CASE PushPublish
    <3>1. Succ(head) # tail
      BY <2>5 DEF PushPublish
    <3>2. /\ Size(head', tail') = Size(head, tail) + 1
          /\ At(tail, Size(head, tail) + 1) = head
          /\ Size(head, tail) \in Nat
      BY <2>5, <2>t, <3>1, Published, Oldest DEF PushPublish
    <3>3. PublishedWhole'
      <4> SUFFICES ASSUME NEW i \in 1 .. Size(head, tail) + 1
                   PROVE  entries[At(tail, i)].header = entries[At(tail, i)].payload
        BY <2>5, <3>2 DEF PushPublish
      <4>1. CASE i = Size(head, tail) + 1
        BY <4>1, <3>2, <2>5 DEF PushPublish
      <4>2. CASE i \in 1 .. Size(head, tail)
        BY <4>2, <2>w
      <4>3. QED
        BY <4>1, <4>2, <3>2
    <3>4. ConsumerProgress'
      BY <2>5, <3>1 DEF PushPublish
    <3>5. QED
      BY <3>3, <3>4, <2>5 DEF PushPublish
  <2>6. CASE Peek
    BY <2>6 DEF Peek
  <2>7. CASE CopyHeader
    <3>1. procPkt'.header = entries[tail].header
      BY <2>7 DEF CopyHeader, TypeOK, Slot
    <3>2. QED
      BY <3>1, <2>7 DEF CopyHeader
  <2>8. CASE CopyPayload
    <3>1. /\ procPkt'.payload = entries[tail].payload
          /\ procPkt'.header = procPkt.header
      BY <2>8 DEF CopyPayload, TypeOK, Slot
    <3>2. QED
      BY <3>1, <2>8 DEF CopyPayload
  <2>9. CASE CommitPop
    <3>1. head # tail
      BY <2>9 DEF CommitPop
    <3>2. /\ Size(head', tail') = Size(head, tail) - 1
          /\ \A i \in 1 .. Size(head', tail') : At(tail', i) = At(tail, i + 1)
          /\ Size(head, tail) \in Nat
      BY <2>9, <2>t, <3>1, Popped, Oldest DEF CommitPop
    <3>3. PublishedWhole'
      BY <2>9, <3>2, <2>w DEF CommitPop
    <3>4. ProducerHasRoom'
      <4>1. recvPc \in {"header", "payload", "publish"} => Succ(head) # Succ(tail)
        BY <2>t, <3>1, CapacityAssumption DEF Index, Succ
      <4>2. QED
        BY <4>1, <2>9 DEF CommitPop
    <3>5. QED
      BY <3>3, <3>4, <2>9 DEF CommitPop
  <2>10. CASE StopRequest
    BY <2>10 DEF StopRequest
  <2>11. CASE RecvExit
    BY <2>11 DEF RecvExit
  <2>12. CASE ProcExit
    BY <2>12 DEF ProcExit
  <2>13. CASE Restart
    <3>1. Size(head', tail') = 0
      BY <2>13 DEF Restart, Size
    <3>2. QED
      BY <3>1, <2>13 DEF Restart
  <2>14. CASE UNCHANGED vars
    BY <2>14 DEF vars
  <2>15. QED
    BY <2>1, <2>2, <2>3, <2>4, <2>5, <2>6, <2>7, <2>8, <2>9, <2>10,
       <2>11, <2>12, <2>13, <2>14 DEF Next
<1>3. QED
  BY <1>1, <1>2, TypeCorrect, PTL DEF Spec

(* Stage 2 never works on a mix of two packets, although slots are filled  *)
(* and copied without a lock (c64_network_fifo_push_tagged against the     *)
(* copy in c64_stage2_drain_video_fifo).                                   *)
THEOREM WholePacketsOnly == Spec => []NoTornPacket
<1>1. IInv => NoTornPacket
  <2> SUFFICES ASSUME IInv, procPc = "commit"
               PROVE  procPkt.header = procPkt.payload
    BY DEF NoTornPacket
  <2>1. /\ head # tail
        /\ procPkt.header = entries[tail].header
        /\ procPkt.payload = entries[tail].payload
    BY DEF IInv, ConsumerProgress
  <2>2. 1 \in 1 .. Size(head, tail) /\ At(tail, 1) = tail
    BY <2>1, Oldest DEF IInv, TypeOK
  <2>3. entries[At(tail, 1)].header = entries[At(tail, 1)].payload
    BY <2>2 DEF IInv, PublishedWhole, Contents
  <2>4. QED
    BY <2>1, <2>2, <2>3
<1>2. QED
  BY <1>1, RingInvariant, PTL

-----------------------------------------------------------------------------
(* A slot whose halves agree is the whole packet they are named after.     *)
LEMMA AgreeingHalves ==
    ASSUME NEW s \in Slot, s.header = s.payload
    PROVE  s \in WholePackets
BY DEF Slot, WholePackets, Whole

ContentsFacts ==
    /\ Size(head, tail) \in Nat
    /\ Contents \in Seq(Slot)
    /\ Len(Contents) = Size(head, tail)
    /\ \A i \in 1 .. Size(head, tail) : Contents[i] = entries[At(tail, i)]

\* The represented queue is a sequence of slots as long as the ring is filled.
LEMMA ContentsSeq == TypeOK => ContentsFacts
<1> SUFFICES ASSUME TypeOK
             PROVE  ContentsFacts
  OBVIOUS
<1>1. Size(head, tail) \in Nat
  BY Oldest DEF TypeOK
<1>2. \A i \in 1 .. Size(head, tail) : entries[At(tail, i)] \in Slot
  BY AtIndex DEF TypeOK
<1>3. Contents \in [1 .. Size(head, tail) -> Slot]
  BY <1>2 DEF Contents
<1>4. QED
  BY <1>1, <1>3 DEF Contents, ContentsFacts

(* The lock-free ring implements the bounded queue: packets leave in the   *)
(* order they were accepted, each once and whole, and one is refused only  *)
(* while Capacity - 1 packets wait.                                        *)
THEOREM FifoImplementsQueue == Spec => ImplementsQueue
<1>1. Init => Queue!Init
  <2> SUFFICES ASSUME Init
               PROVE  Queue!Init
    OBVIOUS
  <2>1. Size(head, tail) = 0
    BY DEF Init, Size
  <2>2. Len(Contents) = 0 /\ Contents \in Seq(Slot)
    BY <2>1, InitType, ContentsSeq DEF ContentsFacts
  <2>3. Contents = << >>
    BY <2>2
  <2>4. QED
    BY <2>3 DEF Init, Queue!Init
<1>2. IInv /\ IInv' /\ [Next]_vars => [Queue!Next]_(Queue!qvars)
  <2> SUFFICES ASSUME IInv, IInv', [Next]_vars
               PROVE  Queue!Next \/ UNCHANGED Queue!qvars
    OBVIOUS
  <2>t. TypeOK /\ TypeOK'
    BY DEF IInv
  <2>s. /\ Size(head, tail) \in Nat /\ Contents \in Seq(Slot)
        /\ Len(Contents) = Size(head, tail)
        /\ \A i \in 1 .. Size(head, tail) : Contents[i] = entries[At(tail, i)]
    BY <2>t, ContentsSeq DEF ContentsFacts
  <2>p. /\ Size(head', tail') \in Nat /\ Contents' \in Seq(Slot)
        /\ Len(Contents') = Size(head', tail')
        /\ \A i \in 1 .. Size(head', tail') : Contents'[i] = entries'[At(tail', i)]
    <3>1. ContentsFacts'
      BY <2>t, ContentsSeq, PTL
    <3>2. QED
      BY <3>1 DEF ContentsFacts
  <2>n. head \in Index /\ tail \in Index
    BY <2>t DEF TypeOK
  <2>q. \* A step that leaves the ring's published part alone stutters.
        ASSUME UNCHANGED <<head, tail, dropped_full, out>>,
               \A i \in 1 .. Size(head, tail) :
                  entries'[At(tail, i)] = entries[At(tail, i)]
        PROVE  UNCHANGED Queue!qvars
    <3>1. Contents' = Contents
      BY <2>q DEF Contents
    <3>2. QED
      BY <2>q, <3>1 DEF Queue!qvars
  <2>1. CASE \E p \in Packet : PushBegin(p)
    BY <2>1, <2>q DEF PushBegin
  <2>2. CASE PushFull
    <3>1. Len(Contents) = Capacity - 1
      BY <2>2, <2>n, <2>s, Full DEF PushFull
    <3>2. Contents' = Contents
      BY <2>2 DEF PushFull, Contents
    <3>3. Queue!Refuse
      BY <2>2, <3>1, <3>2 DEF PushFull, Queue!Refuse
    <3>4. QED
      BY <3>3 DEF Queue!Next
  <2>3. CASE PushHeader
    BY <2>3, <2>n, <2>t, AtIndex, <2>q DEF PushHeader, TypeOK
  <2>4. CASE PushPayload
    BY <2>4, <2>n, <2>t, AtIndex, <2>q DEF PushPayload, TypeOK
  <2>5. CASE PushPublish
    <3>1. /\ Succ(head) # tail
          /\ entries[head].header = recvPkt
          /\ entries[head].payload = recvPkt
      BY <2>5 DEF PushPublish, IInv, ProducerHasRoom, ProducerProgress
    <3>2. entries[head] \in WholePackets
      BY <3>1, <2>t, <2>n, AgreeingHalves DEF TypeOK
    <3>3. /\ Size(head', tail') = Size(head, tail) + 1
          /\ At(tail, Size(head, tail) + 1) = head
          /\ Size(head, tail) < Capacity - 1
      BY <2>5, <2>n, <3>1, Published DEF PushPublish
    <3>4. Contents' = Append(Contents, entries[head])
      <4>1. Len(Contents') = Len(Append(Contents, entries[head]))
        BY <3>3, <2>s, <2>p
      <4>2. ASSUME NEW i \in 1 .. Len(Contents')
            PROVE  Contents'[i] = Append(Contents, entries[head])[i]
        <5>1. Contents'[i] = entries[At(tail, i)]
          BY <2>p, <2>5 DEF PushPublish
        <5>2. CASE i = Size(head, tail) + 1
          BY <5>1, <5>2, <3>3, <2>s
        <5>3. CASE i \in 1 .. Size(head, tail)
          BY <5>1, <5>3, <2>s
        <5>4. QED
          BY <5>2, <5>3, <3>3, <2>p, <2>s
      <4>3. entries[head] \in Slot
        BY <2>t, <2>n DEF TypeOK
      <4>4. Append(Contents, entries[head]) \in Seq(Slot)
        BY <4>3, <2>s
      <4>5. QED
        BY <4>1, <4>2, <4>4, <2>p, SeqEqual
    <3>5. Queue!Accept(entries[head])
      BY <3>3, <3>4, <2>s, <2>5 DEF PushPublish, Queue!Accept
    <3>6. QED
      BY <3>2, <3>5 DEF Queue!Next
  <2>6. CASE Peek
    BY <2>6, <2>q DEF Peek
  <2>7. CASE CopyHeader
    BY <2>7, <2>q DEF CopyHeader
  <2>8. CASE CopyPayload
    BY <2>8, <2>q DEF CopyPayload
  <2>9. CASE CommitPop
    <3>1. /\ head # tail
          /\ procPkt.header = entries[tail].header
          /\ procPkt.payload = entries[tail].payload
      BY <2>9 DEF CommitPop, IInv, ConsumerProgress
    <3>2. procPkt = entries[tail]
      BY <3>1, <2>t, <2>n DEF TypeOK, Slot
    <3>3. /\ Size(head', tail') = Size(head, tail) - 1
          /\ \A i \in 1 .. Size(head', tail') : At(tail', i) = At(tail, i + 1)
      BY <2>9, <2>n, <3>1, Popped DEF CommitPop
    <3>4. Size(head, tail) # 0 /\ At(tail, 1) = tail
      BY <2>n, <3>1, Oldest
    <3>5. Contents # << >> /\ Head(Contents) = procPkt
      BY <3>2, <3>4, <2>s
    <3>6. Contents' = Tail(Contents)
      <4>1. Tail(Contents) \in Seq(Slot) /\ Len(Tail(Contents)) = Size(head, tail) - 1
        BY <2>s, <3>5, HeadTailProperties
      <4>2. ASSUME NEW i \in 1 .. Len(Contents')
            PROVE  Contents'[i] = Tail(Contents)[i]
        <5>1. Contents'[i] = entries[At(tail, i + 1)]
          BY <2>p, <3>3, <2>9 DEF CommitPop
        <5>2. i + 1 \in 1 .. Size(head, tail)
          BY <2>p, <2>s, <3>3
        <5>3. Tail(Contents)[i] = Contents[i + 1]
          BY <2>s, <2>p, <3>3, <3>5, <5>2, HeadTailProperties
        <5>4. QED
          BY <5>1, <5>2, <5>3, <2>s
      <4>3. QED
        BY <4>1, <4>2, <2>p, <3>3, SeqEqual
    <3>7. Queue!Take
      BY <3>5, <3>6, <2>9 DEF CommitPop, Queue!Take
    <3>8. QED
      BY <3>7 DEF Queue!Next
  <2>10. CASE StopRequest
    BY <2>10, <2>q DEF StopRequest
  <2>11. CASE RecvExit
    BY <2>11, <2>q DEF RecvExit
  <2>12. CASE ProcExit
    BY <2>12, <2>q DEF ProcExit
  <2>13. CASE Restart
    <3>1. Size(head', tail') = 0
      BY <2>13 DEF Restart, Size
    <3>2. Contents' = << >>
      BY <3>1, <2>p
    <3>3. Queue!Clear
      BY <3>2, <2>13 DEF Restart, Queue!Clear
    <3>4. QED
      BY <3>3 DEF Queue!Next
  <2>14. CASE UNCHANGED vars
    BY <2>14, <2>q DEF vars
  <2>15. QED
    BY <2>1, <2>2, <2>3, <2>4, <2>5, <2>6, <2>7, <2>8, <2>9, <2>10,
       <2>11, <2>12, <2>13, <2>14 DEF Next
<1>3. QED
  BY <1>1, <1>2, RingInvariant, PTL DEF Spec, ImplementsQueue, Queue!Spec
=============================================================================
