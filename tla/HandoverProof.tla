--------------------------- MODULE HandoverProof ---------------------------
(***************************************************************************)
(* What Handover promises, for any set of devices, any capacity of the      *)
(* FIFOs and any number of switches.  The windows "update" and "queued",    *)
(* in which the code does not keep the promise, are excluded by a           *)
(* hypothesis; "again", "closed" and "stopped" may be open wherever the     *)
(* property itself does not exclude them.                                  *)
(***************************************************************************)
EXTENDS Handover, SequenceTheorems, FiniteSetTheorems, TLAPS

USE DEF Stream

-----------------------------------------------------------------------------
(* The FIFOs.                                                              *)

FifoTyped == /\ fifo \in [Stream -> Seq(Packet)]
             /\ \A s \in Stream : Len(fifo[s]) <= FifoMax

(* Taking the oldest packet leaves the others in their order (Tail is what  *)
(* c64_packet_fifo's pop does).                                            *)
LEMMA TailShifts ==
    ASSUME NEW q \in Seq(Packet), q # << >>
    PROVE  /\ Tail(q) \in Seq(Packet)
           /\ Len(q) \in Nat \ {0}
           /\ Len(Tail(q)) = Len(q) - 1
           /\ \A i \in 1 .. Len(q) - 1 : Tail(q)[i] = q[i + 1]
           /\ Head(q) = q[1] /\ Head(q) \in Packet
  <1>1. Tail(q) \in Seq(Packet) /\ Head(q) \in Packet
    BY HeadTailProperties
  <1>2. Len(Tail(q)) = Len(q) - 1 /\ \A i \in 1 .. Len(q) - 1 : Tail(q)[i] = q[i + 1]
    BY HeadTailProperties
  <1>3. Len(q) \in Nat \ {0}
    BY LenProperties, EmptySeq
  <1> QED
    BY <1>1, <1>2, <1>3

(* Pushing a packet puts it last and leaves the others where they are.      *)
LEMMA AppendLast ==
    ASSUME NEW q \in Seq(Packet), NEW p \in Packet
    PROVE  /\ Append(q, p) \in Seq(Packet)
           /\ Len(q) \in Nat
           /\ Len(Append(q, p)) = Len(q) + 1
           /\ \A i \in 1 .. Len(q) : Append(q, p)[i] = q[i]
           /\ Append(q, p)[Len(q) + 1] = p
  BY AppendProperties, LenProperties

(* A FIFO after a dequeue: that of s has lost its oldest packet.            *)
LEMMA Dequeued ==
    ASSUME FifoTyped, NEW s \in Stream, Dequeue(s)
    PROVE  /\ FifoTyped'
           /\ fifo'[s] = Tail(fifo[s])
           /\ \A t \in Stream \ {s} : fifo'[t] = fifo[t]
           /\ Head(fifo[s]) \in Packet
  <1> USE HandoverAssumption
  <1>1. fifo[s] \in Seq(Packet) /\ fifo[s] # << >> /\ fifo' = [fifo EXCEPT ![s] = Tail(@)]
    BY DEF FifoTyped, Dequeue
  <1>2. /\ Tail(fifo[s]) \in Seq(Packet) /\ Len(fifo[s]) \in Nat
        /\ Len(Tail(fifo[s])) = Len(fifo[s]) - 1 /\ Head(fifo[s]) \in Packet
    BY <1>1, TailShifts
  <1>3. /\ fifo'[s] = Tail(fifo[s])
        /\ \A t \in Stream \ {s} : fifo'[t] = fifo[t]
        /\ fifo' \in [Stream -> Seq(Packet)]
    BY <1>1, <1>2 DEF FifoTyped
  <1>4. \A t \in Stream : Len(fifo'[t]) <= FifoMax
    <2>1. Len(fifo[s]) <= FifoMax /\ FifoMax \in Nat
      BY DEF FifoTyped
    <2>2. Len(fifo'[s]) <= FifoMax
      BY <1>2, <1>3, <2>1
    <2>3. \A t \in Stream \ {s} : Len(fifo'[t]) <= FifoMax
      BY <1>3 DEF FifoTyped
    <2> QED
      BY <2>2, <2>3
  <1> QED
    BY <1>2, <1>3, <1>4 DEF FifoTyped

Pushed(s) == [from |-> recvFrom[s], from_handover |-> recvTag[s],
              palette_cutover |-> Carries(s)]

(* A FIFO after a push: that of s has the packet last, if it had room.      *)
LEMMA PushedLast ==
    ASSUME FifoTyped, recvFrom \in [Stream -> Device], recvTag \in [Stream -> BOOLEAN],
           palette_cutover_pending \in BOOLEAN, palette_cutover_marked \in BOOLEAN,
           NEW s \in Stream, RecvPush(s)
    PROVE  /\ FifoTyped'
           /\ fifo'[s] = IF HasRoom(s) THEN Append(fifo[s], Pushed(s)) ELSE fifo[s]
           /\ \A t \in Stream \ {s} : fifo'[t] = fifo[t]
           /\ Pushed(s) \in Packet
  <1> USE HandoverAssumption
  <1>1. Pushed(s) \in Packet
    <2>1. Carries(s) \in BOOLEAN
      BY DEF Carries
    <2> QED
      BY <2>1 DEF Pushed, Packet
  <1>2. fifo' = IF HasRoom(s) THEN [fifo EXCEPT ![s] = Append(@, Pushed(s))] ELSE fifo
    BY DEF RecvPush, Pushed
  <1>3. fifo[s] \in Seq(Packet) /\ Len(fifo[s]) \in Nat
    BY LenProperties DEF FifoTyped
  <1>4. /\ Append(fifo[s], Pushed(s)) \in Seq(Packet)
        /\ Len(Append(fifo[s], Pushed(s))) = Len(fifo[s]) + 1
    BY <1>1, <1>3, AppendLast
  <1>5. CASE HasRoom(s)
    <2>1. /\ fifo'[s] = Append(fifo[s], Pushed(s))
          /\ \A t \in Stream \ {s} : fifo'[t] = fifo[t]
          /\ fifo' \in [Stream -> Seq(Packet)]
      BY <1>2, <1>4, <1>5 DEF FifoTyped
    <2>2. \A t \in Stream : Len(fifo'[t]) <= FifoMax
      BY <2>1, <1>3, <1>4, <1>5 DEF FifoTyped, HasRoom
    <2> QED
      BY <2>1, <2>2, <1>1, <1>5 DEF FifoTyped
  <1>6. CASE ~HasRoom(s)
    BY <1>1, <1>2, <1>6 DEF FifoTyped
  <1> QED
    BY <1>5, <1>6

-----------------------------------------------------------------------------
(* Types.                                                                  *)

(* The receive threads keep their types.                                   *)
LEMMA RecvStaysTyped ==
    ASSUME TypeOK, [Next]_vars
    PROVE  /\ recvPc' \in [Stream -> {"idle", "admit", "flush", "close", "push"}]
           /\ recvFrom' \in [Stream -> Device]
           /\ recvTag' \in [Stream -> BOOLEAN]
  <1>1. CASE \E s \in Stream, d \in Device : RecvTag(s, d)
    <2> PICK s \in Stream, d \in Device : RecvTag(s, d)
      BY <1>1
    <2>1. (handover_peer = d) \in BOOLEAN
      OBVIOUS
    <2> QED
      BY <2>1 DEF RecvTag, RecvGoes, TypeOK
  <1>2. CASE \E s \in Stream : RecvAdmit(s)
    BY <1>2 DEF RecvAdmit, RecvGoes, TypeOK
  <1>3. CASE \E s \in Stream : RecvFlush(s) \/ RecvClose(s) \/ RecvPush(s)
    BY <1>3 DEF RecvFlush, RecvClose, RecvPush, RecvGoes, TypeOK
  <1>4. CASE UNCHANGED recv
    BY <1>4 DEF recv, TypeOK
  <1> QED
    BY <1>1, <1>2, <1>3, <1>4
    DEF Next, vars, UpdateExpected, UpdateHandover, UpdateArm, RecvStep, ProcStep,
        DrainDrops, DrainInserts, Pop, StopReceivers, BeginStart, StartReceivers,
        StartFails, CloseHandover, CutoverTimeout

(* The FIFOs keep their types and never overflow.                           *)
LEMMA FifoStaysTyped ==
    ASSUME TypeOK, [Next]_vars
    PROVE  FifoTyped'
  <1>1. FifoTyped
    BY DEF TypeOK, FifoTyped
  <1>2. CASE \E s \in Stream : RecvPush(s)
    BY <1>1, <1>2, PushedLast DEF TypeOK
  <1>3. CASE \E s \in Stream : Dequeue(s)
    BY <1>1, <1>3, Dequeued
  <1>4. CASE StartReceivers
    <2>1. \A s \in Stream : fifo'[s] = << >> /\ Len(fifo'[s]) = 0
      BY <1>4, EmptySeq DEF StartReceivers
    <2>2. fifo' \in [Stream -> Seq(Packet)]
      BY <1>4, EmptySeq DEF StartReceivers
    <2> QED
      BY <2>1, <2>2, HandoverAssumption DEF FifoTyped
  <1>5. CASE UNCHANGED fifo
    BY <1>1, <1>5 DEF FifoTyped
  <1> QED
    BY <1>2, <1>3, <1>4, <1>5
    DEF Next, vars, select, cut, recv, stage2, life, UpdateExpected, UpdateHandover,
        UpdateArm, RecvStep, RecvTag, RecvAdmit, RecvFlush, RecvClose,
        ProcStep, DrainDrops, DrainInserts, Pop, StopReceivers, BeginStart,
        StartFails, CloseHandover, CutoverTimeout

(* Stage 2 keeps its types.                                                *)
LEMMA Stage2StaysTyped ==
    ASSUME TypeOK, [Next]_vars
    PROVE  /\ reorder' \in [Stream -> SUBSET Device]
           /\ frame' \subseteq Device
           /\ arrived' \subseteq Stream
  <1>1. CASE \E s \in Stream : DrainInserts(s)
    <2> PICK s \in Stream : DrainInserts(s)
      BY <1>1
    <2>1. Head(fifo[s]) \in Packet
      BY Dequeued DEF DrainInserts, TypeOK, FifoTyped
    <2>2. Head(fifo[s]).from \in Device
      BY <2>1 DEF Packet
    <2> QED
      BY <2>2 DEF DrainInserts, TypeOK
  <1>2. CASE \E s \in Stream, d \in Device : Pop(s, d)
    BY <1>2 DEF Pop, TypeOK
  <1>3. CASE \E d \in Device : UpdateExpected(d)
    BY <1>3 DEF UpdateExpected, TypeOK
  <1>4. CASE UNCHANGED <<reorder, frame, arrived>>
    BY <1>4 DEF TypeOK
  <1> QED
    BY <1>1, <1>2, <1>3, <1>4
    DEF Next, vars, select, cut, recv, stage2, life, UpdateHandover,
        UpdateArm, RecvStep, RecvTag, RecvAdmit, RecvFlush, RecvClose, RecvPush,
        ProcStep, DrainDrops, StopReceivers, BeginStart, StartReceivers,
        StartFails, CloseHandover, CutoverTimeout

(* Every step keeps the types.                                             *)
LEMMA TypesStay ==
    ASSUME TypeOK, [Next]_vars
    PROVE  TypeOK'
  <1>1. CASE \E s \in Stream : DrainInserts(s)
    <2> PICK s \in Stream : DrainInserts(s)
      BY <1>1
    <2>1. Head(fifo[s]) \in Packet
      BY Dequeued DEF DrainInserts, TypeOK, FifoTyped
    <2>2. Head(fifo[s]).palette_cutover \in BOOLEAN /\ Head(fifo[s]).from_handover \in BOOLEAN
      BY <2>1 DEF Packet
    <2> HIDE DEF Stream
    <2> QED
      BY <2>2, RecvStaysTyped, FifoStaysTyped, Stage2StaysTyped
      DEF TypeOK, FifoTyped, DrainInserts, ShouldFlush, select, recv, life
  <1> HIDE DEF Stream
  <1>2. CASE ~\E s \in Stream : DrainInserts(s)
    <2>1. /\ windows' \in WindowSets
          /\ expected_peer' \in Device /\ previous' \in Device \cup {NoDevice}
          /\ handover_peer' \in Device \cup {NoDevice}
          /\ colors' \in Device /\ palette_cutover_colors' \in Device
          /\ uiPc' \in {"idle", "handover", "arm"}
      BY <1>2 DEF TypeOK, Next, vars, select, cut, recv, stage2, life, UpdateExpected,
             UpdateHandover, UpdateArm, RecvStep, RecvTag, RecvAdmit, RecvFlush, RecvClose,
             RecvPush, ProcStep, DrainDrops, Pop, StopReceivers, BeginStart,
             StartReceivers, StartFails, CloseHandover, CutoverTimeout
    <2>2. {handover_flush_pending, palette_cutover_pending, palette_cutover_marked,
           palette_cutover_flush, streaming, starting, timedOut}' \subseteq BOOLEAN
      BY <1>2 DEF TypeOK, Next, vars, select, cut, recv, stage2, life, UpdateExpected,
             UpdateHandover, UpdateArm, RecvStep, RecvTag, RecvAdmit, RecvFlush, RecvClose,
             RecvPush, Mark, Carries, HasRoom, ProcStep, DrainDrops, Pop, StopReceivers,
             BeginStart, StartReceivers, StartFails, CloseHandover, CutoverTimeout
    <2> QED
      BY <2>1, <2>2, RecvStaysTyped, FifoStaysTyped, Stage2StaysTyped DEF TypeOK, FifoTyped
  <1> QED
    BY <1>1, <1>2

LEMMA TypedAtFirst == ASSUME Init PROVE TypeOK
  <1> USE HandoverAssumption DEF Init
  <1>1. fifo \in [Stream -> Seq(Packet)] /\ \A s \in Stream : Len(fifo[s]) <= FifoMax
    <2>1. << >> \in Seq(Packet) /\ Len(<< >>) = 0
      BY EmptySeq
    <2> QED
      BY <2>1
  <1>2. recvPc \in [Stream -> {"idle", "admit", "flush", "close", "push"}]
    OBVIOUS
  <1>3. /\ recvFrom \in [Stream -> Device] /\ recvTag \in [Stream -> BOOLEAN]
        /\ reorder \in [Stream -> SUBSET Device]
    OBVIOUS
  <1> HIDE DEF Stream
  <1> QED
    BY <1>1, <1>2, <1>3 DEF TypeOK

(* The FIFOs never hold more than they have room for, and every variable    *)
(* keeps its type, in every schedule, with any window open.                *)
THEOREM TypeCorrect == Spec => []TypeOK
  BY TypedAtFirst, TypesStay, PTL DEF Spec

-----------------------------------------------------------------------------
(* The filter.                                                             *)

(* The windows that this code does not close by itself are closed: a switch *)
(* finds the receive threads idle and the FIFOs empty, and they run again    *)
(* when c64_update has made all of its writes.                             *)
Closed == windows \cap {"update", "queued"} = {}

(* Between the writes of c64_update nothing is received or taken.           *)
LEMMA StillKept ==
    ASSUME TypeOK, StillDuringUpdate, Closed, [Next]_vars
    PROVE  StillDuringUpdate'
  <1>1. ASSUME NEW s \in Stream, NEW from, NEW to, RecvGoes(s, from, to)
        PROVE  uiPc = "idle"
    BY <1>1 DEF RecvGoes, UpdateClosed, Closed
  <1>2. ASSUME NEW s \in Stream, Dequeue(s) \/ \E d \in Device : Pop(s, d)
        PROVE  uiPc = "idle"
    BY <1>2 DEF Dequeue, Pop, UpdateClosed, Closed
  <1>3. CASE (\E s \in Stream : RecvStep(s)) \/ ProcStep
    <2>1. uiPc = "idle"
      BY <1>1, <1>2, <1>3 DEF RecvStep, RecvTag, RecvAdmit, RecvFlush, RecvClose, RecvPush,
             ProcStep, DrainDrops, DrainInserts
    <2>2. uiPc' = uiPc
      BY <1>3 DEF RecvStep, RecvTag, RecvAdmit, RecvFlush, RecvClose, RecvPush, ProcStep,
             DrainDrops, DrainInserts, Pop, select
    <2> QED
      BY <2>1, <2>2 DEF StillDuringUpdate
  <1>4. CASE \E d \in Device : UpdateExpected(d)
    BY <1>4 DEF UpdateExpected, Closed, StillDuringUpdate, Quiet, recv
  <1>5. CASE StartReceivers
    BY <1>5 DEF StartReceivers, StillDuringUpdate, Quiet, recv, select, stage2
  <1>6. CASE UpdateHandover \/ UpdateArm \/ StopReceivers \/ BeginStart \/ StartFails
             \/ CloseHandover \/ CutoverTimeout \/ UNCHANGED vars
    <2>1. /\ fifo' = fifo /\ recvPc' = recvPc /\ arrived' = arrived
          /\ uiPc' # "idle" => uiPc # "idle"
      BY <1>6 DEF UpdateHandover, UpdateArm, StopReceivers, BeginStart, StartFails,
             CloseHandover, CutoverTimeout, vars, recv, select, stage2
    <2> QED
      BY <2>1 DEF StillDuringUpdate, Quiet
  <1> QED
    BY <1>3, <1>4, <1>5, <1>6 DEF Next

(* The two addresses of the filter change while the threads and the FIFOs   *)
(* are quiet; else a handover is closed at most.                           *)
LEMMA AddressesChangeWhenQuiet ==
    ASSUME TypeOK, StillDuringUpdate, Closed, [Next]_vars
    PROVE  \/ /\ Quiet /\ Quiet'
              /\ arrived' = {} /\ recvPc' = recvPc /\ fifo' = fifo
              /\ (\E d \in Device : UpdateExpected(d)) \/ UpdateHandover
           \/ /\ expected_peer' = expected_peer
              /\ previous' = previous
              /\ handover_peer' = handover_peer \/ handover_peer' = NoDevice
              /\ ~UpdateHandover
  <1>1. CASE \E d \in Device : UpdateExpected(d)
    BY <1>1 DEF UpdateExpected, Closed, Quiet, recv
  <1>2. CASE UpdateHandover
    BY <1>2 DEF UpdateHandover, StillDuringUpdate, Quiet, recv, stage2
  <1>3. CASE ~UpdateHandover /\ ~\E d \in Device : UpdateExpected(d)
    <2> HIDE DEF Stream
    <2> QED
      BY <1>3 DEF Next, vars, select, UpdateArm, RecvStep, RecvTag, RecvAdmit, RecvFlush,
             RecvClose, RecvPush, ProcStep, DrainDrops, DrainInserts, Pop, StopReceivers,
             BeginStart, StartReceivers, StartFails, CloseHandover, CutoverTimeout
  <1> QED
    BY <1>1, <1>2, <1>3

(* What is in a FIFO was there before or has just been pushed.              *)
LEMMA WhereFrom ==
    ASSUME TypeOK, [Next]_vars, NEW s \in Stream, NEW i \in 1 .. Len(fifo'[s])
    PROVE  \/ \E j \in 1 .. Len(fifo[s]) : fifo'[s][i] = fifo[s][j]
           \/ RecvPush(s) /\ fifo'[s][i] = Pushed(s)
  <1> DEFINE Old == \E j \in 1 .. Len(fifo[s]) : fifo'[s][i] = fifo[s][j]
  <1>1. FifoTyped
    BY DEF TypeOK, FifoTyped
  <1>0. fifo[s] \in Seq(Packet) /\ Len(fifo[s]) \in Nat
    BY <1>1, LenProperties DEF FifoTyped
  <1>2. CASE \E t \in Stream : RecvPush(t)
    <2> PICK t \in Stream : RecvPush(t)
      BY <1>2
    <2>1. /\ fifo'[t] = IF HasRoom(t) THEN Append(fifo[t], Pushed(t)) ELSE fifo[t]
          /\ \A u \in Stream \ {t} : fifo'[u] = fifo[u]
          /\ Pushed(t) \in Packet
      BY <1>1, PushedLast DEF TypeOK
    <2>2. CASE s = t /\ HasRoom(t)
      <3>1. fifo'[s] = Append(fifo[s], Pushed(s)) /\ Pushed(s) \in Packet
        BY <2>1, <2>2
      <3>2. /\ Len(fifo'[s]) = Len(fifo[s]) + 1
            /\ \A j \in 1 .. Len(fifo[s]) : fifo'[s][j] = fifo[s][j]
            /\ fifo'[s][Len(fifo[s]) + 1] = Pushed(s)
        BY <3>1, <1>0, AppendLast
      <3>3. i \in 1 .. Len(fifo[s]) \/ i = Len(fifo[s]) + 1
        BY <3>2, <1>0
      <3> QED
        BY <3>2, <3>3, <2>2
    <2>3. CASE ~(s = t /\ HasRoom(t))
      <3>1. fifo'[s] = fifo[s]
        BY <2>1, <2>3
      <3> QED
        BY <3>1
    <2> QED
      BY <2>2, <2>3
  <1>3. CASE \E t \in Stream : Dequeue(t)
    <2> PICK t \in Stream : Dequeue(t)
      BY <1>3
    <2>1. fifo'[t] = Tail(fifo[t]) /\ \A u \in Stream \ {t} : fifo'[u] = fifo[u]
      BY <1>1, Dequeued
    <2>2. CASE s = t
      <3>1. fifo[s] # << >>
        BY <2>2 DEF Dequeue
      <3>2. /\ Len(fifo'[s]) = Len(fifo[s]) - 1
            /\ \A j \in 1 .. Len(fifo[s]) - 1 : fifo'[s][j] = fifo[s][j + 1]
        BY <3>1, <2>1, <2>2, <1>0, TailShifts
      <3>3. i \in 1 .. Len(fifo[s]) - 1 /\ i + 1 \in 1 .. Len(fifo[s])
        BY <3>2, <1>0
      <3> QED
        BY <3>2, <3>3
    <2>3. CASE s # t
      <3>1. fifo'[s] = fifo[s]
        BY <2>1, <2>3
      <3> QED
        BY <3>1
    <2> QED
      BY <2>2, <2>3
  <1>4. CASE StartReceivers
    <2>1. Len(fifo'[s]) = 0
      BY <1>4, EmptySeq DEF StartReceivers
    <2> QED
      BY <2>1
  <1>5. CASE UNCHANGED fifo
    BY <1>5
  <1> QED
    BY <1>2, <1>3, <1>4, <1>5
    DEF Next, vars, select, cut, recv, stage2, life, UpdateExpected, UpdateHandover,
        UpdateArm, RecvStep, RecvTag, RecvAdmit, RecvFlush, RecvClose,
        ProcStep, DrainDrops, DrainInserts, Pop, StopReceivers, BeginStart,
        StartFails, CloseHandover, CutoverTimeout

(* The receive threads let through what the filter admits.                  *)
LEMMA ThreadsKept ==
    ASSUME TypeOK, StillDuringUpdate, FilterInv, Closed, [Next]_vars, NEW s \in Stream
    PROVE  /\ recvPc'[s] = "admit" /\ handover_peer' = recvFrom'[s] => recvTag'[s]
           /\ recvPc'[s] \in {"flush", "close"} => recvFrom'[s] = expected_peer'
           /\ recvPc'[s] = "push" => /\ Foreign(recvFrom[s], recvTag[s])'
                                     /\ Own(recvFrom[s])'
  <1> DEFINE Kept == /\ recvPc[s] = "admit" /\ handover_peer = recvFrom[s] => recvTag[s]
                     /\ recvPc[s] \in {"flush", "close"} => recvFrom[s] = expected_peer
                     /\ recvPc[s] = "push" => /\ Foreign(recvFrom[s], recvTag[s])
                                              /\ Own(recvFrom[s])
  <1>1. Kept
    BY DEF FilterInv
  <1>2. /\ recvPc \in [Stream -> {"idle", "admit", "flush", "close", "push"}]
        /\ recvFrom \in [Stream -> Device] /\ recvTag \in [Stream -> BOOLEAN]
        /\ expected_peer \in Device /\ NoDevice \notin Device
    BY HandoverAssumption DEF TypeOK
  <1>3. CASE Quiet /\ Quiet' /\ recvPc' = recvPc
    BY <1>3 DEF Quiet
  <1>4. CASE /\ expected_peer' = expected_peer
             /\ handover_peer' = handover_peer \/ handover_peer' = NoDevice
             /\ ~UpdateHandover
    <2>1. CASE \E t \in Stream, d \in Device : RecvTag(t, d)
      BY <1>1, <1>2, <1>4, <2>1 DEF RecvTag, RecvGoes, Foreign, Own, select
    <2>2. CASE \E t \in Stream : RecvAdmit(t)
      BY <1>1, <1>2, <1>4, <2>2 DEF RecvAdmit, RecvGoes, Foreign, Own, select
    <2>3. CASE \E t \in Stream : RecvFlush(t) \/ RecvPush(t)
      BY <1>1, <1>2, <1>4, <2>3 DEF RecvFlush, RecvPush, RecvGoes, Foreign, Own, select
    <2>4. CASE \E t \in Stream : RecvClose(t)
      BY <1>1, <1>2, <1>4, <2>4 DEF RecvClose, RecvGoes, Foreign, Own, select
    <2>5. CASE recv' = recv
      BY <1>1, <1>2, <1>4, <2>5 DEF recv, Foreign, Own
    <2> QED
      BY <2>1, <2>2, <2>3, <2>4, <2>5
      DEF Next, vars, UpdateExpected, UpdateHandover, UpdateArm, RecvStep, ProcStep,
          DrainDrops, DrainInserts, Pop, StopReceivers, BeginStart, StartReceivers,
          StartFails, CloseHandover, CutoverTimeout
  <1> QED
    BY <1>3, <1>4, AddressesChangeWhenQuiet

Admitted(p) == /\ Foreign(p.from, p.from_handover) /\ Own(p.from)
               /\ p.palette_cutover => p.from = expected_peer /\ ~p.from_handover

(* The FIFOs hold what the filter admits.                                  *)
LEMMA FifosKept ==
    ASSUME TypeOK, StillDuringUpdate, FilterInv, Closed, [Next]_vars,
           NEW s \in Stream, NEW i \in 1 .. Len(fifo'[s])
    PROVE  Admitted(fifo[s][i])'
  <1>1. expected_peer \in Device /\ NoDevice \notin Device
    BY HandoverAssumption DEF TypeOK
  <1>2. CASE Quiet'
    <2>1. Len(fifo'[s]) = 0
      BY <1>2, EmptySeq DEF Quiet
    <2> QED
      BY <2>1
  <1>3. CASE /\ expected_peer' = expected_peer
             /\ handover_peer' = handover_peer \/ handover_peer' = NoDevice
    <2>1. ASSUME NEW j \in 1 .. Len(fifo[s]), fifo'[s][i] = fifo[s][j]
          PROVE  Admitted(fifo[s][i])'
      <3>1. Admitted(fifo[s][j])
        BY DEF FilterInv, Admitted
      <3> QED
        BY <1>1, <1>3, <2>1, <3>1 DEF Admitted, Foreign, Own
    <2>2. ASSUME RecvPush(s), fifo'[s][i] = Pushed(s)
          PROVE  Admitted(fifo[s][i])'
      <3>1. Foreign(recvFrom[s], recvTag[s]) /\ Own(recvFrom[s])
        BY <2>2 DEF FilterInv, RecvPush, RecvGoes
      <3>2. handover_peer' = handover_peer
        BY <2>2 DEF RecvPush
      <3>3. /\ fifo'[s][i].from = recvFrom[s] /\ fifo'[s][i].from_handover = recvTag[s]
            /\ fifo'[s][i].palette_cutover = Carries(s)
        BY <2>2 DEF Pushed
      <3> QED
        BY <1>3, <3>1, <3>2, <3>3 DEF Admitted, Foreign, Own, Carries
    <2> QED
      BY <2>1, <2>2, WhereFrom
  <1> QED
    BY <1>2, <1>3, AddressesChangeWhenQuiet

LEMMA FilterKept ==
    ASSUME TypeOK, StillDuringUpdate, FilterInv, Closed, [Next]_vars
    PROVE  FilterInv'
  <1>1. (uiPc = "handover" => previous # expected_peer)'
    <2>1. CASE \E d \in Device : UpdateExpected(d)
      BY <2>1, HandoverAssumption DEF UpdateExpected, TypeOK
    <2>2. CASE UpdateHandover
      BY <2>2 DEF UpdateHandover
    <2>3. CASE /\ expected_peer' = expected_peer /\ previous' = previous
               /\ uiPc' = "handover" => uiPc = "handover"
      BY <2>3 DEF FilterInv
    <2>4. uiPc' = "handover" => uiPc = "handover" \/ \E d \in Device : UpdateExpected(d)
      <3> HIDE DEF Stream
      <3> QED
        BY DEF Next, vars, select, UpdateHandover, UpdateArm, RecvStep, RecvTag, RecvAdmit,
               RecvFlush, RecvClose, RecvPush, ProcStep, DrainDrops, DrainInserts, Pop,
               StopReceivers, BeginStart, StartReceivers, StartFails, CloseHandover,
               CutoverTimeout
    <2> QED
      BY <2>1, <2>2, <2>3, <2>4, AddressesChangeWhenQuiet
  <1>2. (arrived # {} => handover_peer \in {NoDevice, expected_peer})'
    <2>1. CASE arrived' = {}
      BY <2>1
    <2>2. CASE /\ expected_peer' = expected_peer
               /\ handover_peer' = handover_peer \/ handover_peer' = NoDevice
      <3>1. CASE \E s \in Stream : DrainInserts(s)
        <4> PICK s \in Stream : DrainInserts(s)
          BY <3>1
        <4>1. Own(Head(fifo[s]).from)
          <5>1. fifo[s] \in Seq(Packet) /\ fifo[s] # << >>
            BY DEF TypeOK, DrainInserts, Dequeue
          <5>2. Head(fifo[s]) = fifo[s][1] /\ 1 \in 1 .. Len(fifo[s])
            BY <5>1, TailShifts
          <5> QED
            BY <5>2 DEF FilterInv
        <4>2. handover_peer' = handover_peer
          BY DEF DrainInserts
        <4>3. arrived' = arrived \/ Head(fifo[s]).from = expected_peer
          BY DEF DrainInserts
        <4> QED
          BY <2>2, <4>1, <4>2, <4>3 DEF Own, FilterInv
      <3>2. CASE arrived' = arrived \/ arrived' = {}
        BY <2>2, <3>2 DEF FilterInv
      <3> QED
        BY <3>1, <3>2
        DEF Next, vars, stage2, UpdateExpected, UpdateHandover, UpdateArm, RecvStep, RecvTag,
            RecvAdmit, RecvFlush, RecvClose, RecvPush, ProcStep, DrainDrops, Pop,
            StopReceivers, BeginStart, StartReceivers, StartFails, CloseHandover,
            CutoverTimeout
    <2> QED
      BY <2>1, <2>2, AddressesChangeWhenQuiet
  <1> HIDE DEF Stream
  <1> QED
    BY <1>1, <1>2, ThreadsKept, FifosKept DEF FilterInv, Admitted

(* In the schedules the theorems are about, the two windows stay closed.    *)
ClosedWindows == \A w \in WindowSets : w \cap {"update", "queued"} = {}

LEMMA FilterAtFirst == ASSUME Init PROVE StillDuringUpdate /\ FilterInv
  <1>1. \A s \in Stream : recvPc[s] = "idle" /\ Len(fifo[s]) = 0
    BY EmptySeq DEF Init
  <1>2. uiPc = "idle" /\ arrived = {}
    BY DEF Init
  <1> HIDE DEF Stream
  <1> QED
    BY <1>1, <1>2 DEF StillDuringUpdate, FilterInv

LEMMA FilterInvariant ==
    ASSUME ClosedWindows
    PROVE  Spec => [](TypeOK /\ StillDuringUpdate /\ FilterInv /\ Closed)
  <1>1. TypeOK => Closed
    BY DEF ClosedWindows, Closed, TypeOK
  <1>2. Init => TypeOK /\ StillDuringUpdate /\ FilterInv
    BY TypedAtFirst, FilterAtFirst
  <1>3. /\ TypeOK /\ StillDuringUpdate /\ FilterInv /\ [Next]_vars
        => (TypeOK /\ StillDuringUpdate /\ FilterInv)'
    BY <1>1, TypesStay, StillKept, FilterKept
  <1> QED
    BY <1>1, <1>2, <1>3, PTL DEF Spec

LEMMA HeadIsInFifo ==
    ASSUME TypeOK, NEW s \in Stream, Dequeue(s)
    PROVE  /\ Head(fifo[s]) = fifo[s][1] /\ 1 \in 1 .. Len(fifo[s])
           /\ Head(fifo[s]) \in Packet
  <1>1. fifo[s] \in Seq(Packet) /\ fifo[s] # << >>
    BY DEF TypeOK, Dequeue
  <1> QED
    BY <1>1, TailShifts

(* Once a packet of the selected device has reached stage 2, none of        *)
(* another device does: the tag of c64_packet_from_handover and the closed   *)
(* handover make c64_handover_should_drop take each of them out, in any      *)
(* order of the threads' steps and also if the retry worker closes the      *)
(* handover or the next switch comes early.                                *)
THEOREM NothingAfterCutOver ==
    ASSUME ClosedWindows
    PROVE  Spec => NoPacketAfterCutOver
  <1>1. ASSUME TypeOK, FilterInv, [Next]_vars, arrived # {}, NEW s \in Stream
        PROVE  reorder'[s] \subseteq reorder[s] \cup {expected_peer}
    <2>1. ASSUME NEW t \in Stream, DrainInserts(t)
          PROVE  Head(fifo[t]).from = expected_peer
      <3> DEFINE p == Head(fifo[t])
      <3>1. p = fifo[t][1] /\ 1 \in 1 .. Len(fifo[t])
        BY <1>1, <2>1, HeadIsInFifo DEF DrainInserts
      <3>2. Foreign(p.from, p.from_handover)
        BY <1>1, <3>1 DEF FilterInv
      <3>3. handover_peer \in {NoDevice, expected_peer}
        BY <1>1 DEF FilterInv
      <3>4. ~ShouldDrop(p)
        BY <2>1 DEF DrainInserts
      <3> HIDE DEF p
      <3> SUFFICES p.from = expected_peer
        BY DEF p
      <3> QED
        BY <3>2, <3>3, <3>4 DEF Foreign, ShouldDrop
    <2>2. CASE \E t \in Stream : DrainInserts(t)
      <3> PICK t \in Stream : DrainInserts(t)
        BY <2>2
      <3>1. Head(fifo[t]).from = expected_peer
        BY <2>1
      <3>2. reorder \in [Stream -> SUBSET Device]
        BY <1>1 DEF TypeOK
      <3> QED
        BY <3>1, <3>2 DEF DrainInserts
    <2>3. CASE \E t \in Stream, d \in Device : Pop(t, d)
      <3>1. reorder \in [Stream -> SUBSET Device]
        BY <1>1 DEF TypeOK
      <3> QED
        BY <2>3, <3>1 DEF Pop
    <2>4. CASE reorder' = reorder
      BY <2>4
    <2> QED
      BY <1>1, <2>2, <2>3, <2>4
      DEF Next, vars, stage2, UpdateExpected, UpdateHandover, UpdateArm, RecvStep, RecvTag,
          RecvAdmit, RecvFlush, RecvClose, RecvPush, ProcStep, DrainDrops,
          StopReceivers, BeginStart, StartReceivers, StartFails, CloseHandover, CutoverTimeout
  <1>2. TypeOK /\ FilterInv /\ [Next]_vars
        => [arrived # {} /\ arrived' # {} =>
               \A s \in Stream : reorder'[s] \subseteq reorder[s] \cup {expected_peer}]_vars
    BY <1>1
  <1> QED
    BY <1>2, FilterInvariant, PTL DEF Spec, NoPacketAfterCutOver

-----------------------------------------------------------------------------
(* The order of the devices in stage 2, if switches are orderly.            *)

(* What the processor inserts: a packet of the selected device after the    *)
(* handover, with the flush it asks for, or one of the previous device       *)
(* during it.                                                              *)
LEMMA InsertedInOrder ==
    ASSUME TypeOK, FilterInv, OrderInv, Closed, NEW s \in Stream, DrainInserts(s)
    PROVE  /\ uiPc = "idle"
           /\ \/ /\ Head(fifo[s]).from = expected_peer /\ handover_peer = NoDevice
                 /\ Stage2' \subseteq {expected_peer}
              \/ /\ Head(fifo[s]).from = previous /\ handover_peer # NoDevice
                 /\ Head(fifo[s]).from # expected_peer
                 /\ handover_flush_pending' = handover_flush_pending
                 /\ ~Head(fifo[s]).palette_cutover
                 /\ Stage2' \subseteq {previous}
  <1> DEFINE p == Head(fifo[s])
  <1>1. p = fifo[s][1] /\ 1 \in 1 .. Len(fifo[s]) /\ p \in Packet
    BY HeadIsInFifo DEF DrainInserts
  <1>2. uiPc = "idle"
    BY DEF DrainInserts, Dequeue, UpdateClosed, Closed
  <1>3. Admitted(p)
    BY <1>1 DEF FilterInv, Admitted
  <1>4. /\ p.from \in {expected_peer, previous}
        /\ p.from_handover => p.from # expected_peer
    BY <1>1 DEF OrderInv
  <1>5. ~ShouldDrop(p)
    BY DEF DrainInserts
  <1>6. \/ Stage2' \subseteq {p.from}
        \/ ~ShouldFlush(p) /\ Stage2' \subseteq Stage2 \cup {p.from}
    <2>1. reorder \in [Stream -> SUBSET Device]
      BY DEF TypeOK
    <2>2. CASE ShouldFlush(p) \/ (p.palette_cutover /\ palette_cutover_flush)
      <3>1. /\ reorder' = [[t \in Stream |-> {}] EXCEPT ![s] = @ \cup {p.from}]
            /\ frame' = {}
        BY <2>2 DEF DrainInserts
      <3>2. Stage2' \subseteq {p.from}
        BY <3>1 DEF Stage2
      <3> QED
        BY <3>2
    <2>3. CASE ~(ShouldFlush(p) \/ (p.palette_cutover /\ palette_cutover_flush))
      <3>1. reorder' = [reorder EXCEPT ![s] = @ \cup {p.from}] /\ frame' = frame
        BY <2>1, <2>3 DEF DrainInserts
      <3>2. Stage2' \subseteq Stage2 \cup {p.from}
        BY <2>1, <3>1 DEF Stage2
      <3> QED
        BY <2>3, <3>2
    <2> QED
      BY <2>2, <2>3
  <1>7. handover_flush_pending' = (handover_flush_pending /\ ~ShouldFlush(p))
    BY DEF DrainInserts
  <1>8. handover_flush_pending \in BOOLEAN
    BY DEF TypeOK
  <1>9. /\ handover_peer # NoDevice => handover_peer = previous /\ previous # expected_peer
        /\ handover_peer # NoDevice => Stage2 \subseteq {previous}
        /\ handover_peer = NoDevice /\ ~handover_flush_pending
              => Stage2 \subseteq {expected_peer}
    BY <1>2 DEF OrderInv
  <1> HIDE DEF p
  <1>10. CASE p.from = expected_peer
    <2>1. ~p.from_handover /\ handover_peer = NoDevice
      BY <1>3, <1>4, <1>9, <1>10 DEF Admitted, Own
    <2>2. ~ShouldFlush(p) => ~handover_flush_pending
      BY <2>1 DEF ShouldFlush
    <2> QED
      BY <1>2, <1>6, <1>9, <1>10, <2>1, <2>2 DEF p
  <1>11. CASE p.from # expected_peer
    <2>1. p.from_handover /\ p.from = previous /\ ~p.palette_cutover
      BY <1>3, <1>4, <1>11 DEF Admitted, Foreign
    <2>2. handover_peer # NoDevice /\ ~ShouldFlush(p)
      BY <1>5, <2>1 DEF ShouldDrop, ShouldFlush
    <2> QED
      BY <1>2, <1>6, <1>7, <1>8, <1>9, <1>11, <2>1, <2>2 DEF p
  <1> QED
    BY <1>10, <1>11

(* Nothing else adds to stage 2.                                           *)
LEMMA OnlyInsertsAdd ==
    ASSUME TypeOK, [Next]_vars, ~\E s \in Stream : DrainInserts(s)
    PROVE  Stage2' \subseteq Stage2 /\ (arrived' = arrived \/ arrived' = {})
  <1>1. CASE \E s \in Stream, d \in Device : Pop(s, d)
    <2> PICK s \in Stream, d \in Device : Pop(s, d)
      BY <1>1
    <2>1. \A t \in Stream : reorder'[t] \subseteq reorder[t]
      BY DEF Pop, TypeOK
    <2>2. d \in Stage2 /\ frame' \subseteq frame \cup {d}
      BY DEF Pop, Stage2
    <2> QED
      BY <2>1, <2>2 DEF Stage2, Pop
  <1>2. CASE \E d \in Device : UpdateExpected(d)
    BY <1>2 DEF UpdateExpected, Stage2
  <1>3. CASE UNCHANGED stage2
    BY <1>3 DEF stage2, Stage2
  <1> QED
    BY <1>1, <1>2, <1>3
    DEF Next, vars, UpdateHandover, UpdateArm, RecvStep, RecvTag, RecvAdmit, RecvFlush,
        RecvClose, RecvPush, ProcStep, DrainDrops, StopReceivers, BeginStart,
        StartReceivers, StartFails, CloseHandover, CutoverTimeout

OrderOfUpdate ==
    /\ streaming \/ starting
    /\ uiPc = "handover" => handover_peer = NoDevice /\ previous # NoDevice
    /\ uiPc = "arm" => handover_peer # NoDevice
    /\ handover_peer # NoDevice => handover_peer = previous /\ previous # expected_peer
    /\ uiPc # "idle" => ~handover_flush_pending

(* A handover is open from c64_update to the first packet of the selected   *)
(* device, and a flush is asked for after that update only.                 *)
LEMMA UpdateKept ==
    ASSUME TypeOK, FilterInv, OrderInv, Closed, Orderly, [Next]_vars
    PROVE  OrderOfUpdate'
  <1>0. OrderOfUpdate /\ (uiPc = "handover" => previous # expected_peer)
    BY DEF OrderOfUpdate, OrderInv, FilterInv
  <1>a. /\ expected_peer \in Device /\ NoDevice \notin Device
        /\ uiPc \in {"idle", "handover", "arm"}
        /\ handover_flush_pending \in BOOLEAN
    BY HandoverAssumption DEF TypeOK
  <1>1. CASE \E d \in Device : UpdateExpected(d)
    BY <1>0, <1>a, <1>1 DEF UpdateExpected, Orderly, OrderOfUpdate, life
  <1>2. CASE UpdateHandover
    BY <1>0, <1>a, <1>2 DEF UpdateHandover, OrderOfUpdate, life
  <1>3. CASE UpdateArm
    BY <1>0, <1>a, <1>3 DEF UpdateArm, OrderOfUpdate, life
  <1>4. CASE \E s \in Stream : RecvStep(s)
    <2>1. PICK s \in Stream : RecvStep(s)
      BY <1>4
    <2>2. uiPc = "idle"
      BY <2>1 DEF RecvStep, RecvTag, RecvAdmit, RecvFlush, RecvClose, RecvPush, RecvGoes,
             UpdateClosed, Closed
    <2>3. /\ UNCHANGED <<select, life>>
          /\ handover_peer' = handover_peer \/ handover_peer' = NoDevice
      BY <2>1 DEF RecvStep, RecvTag, RecvAdmit, RecvFlush, RecvClose, RecvPush
    <2> QED
      BY <1>0, <2>2, <2>3 DEF OrderOfUpdate, select, life
  <1>5. CASE \E s \in Stream : DrainInserts(s)
    <2>1. UNCHANGED <<select, life, handover_peer>> /\ uiPc = "idle"
      BY <1>5, InsertedInOrder DEF DrainInserts
    <2> QED
      BY <1>0, <2>1 DEF OrderOfUpdate, select, life
  <1>6. CASE \/ \E s \in Stream : DrainDrops(s) \/ \E d \in Device : Pop(s, d)
             \/ CutoverTimeout \/ UNCHANGED vars
    <2>1. UNCHANGED <<select, life, handover_peer, handover_flush_pending>>
      BY <1>6 DEF DrainDrops, Pop, CutoverTimeout, vars
    <2> QED
      BY <1>0, <2>1 DEF OrderOfUpdate, select, life
  <1>7. CASE StopReceivers \/ BeginStart \/ StartReceivers
    <2>1. /\ UNCHANGED <<select, handover_peer, handover_flush_pending>>
          /\ streaming' \/ starting'
      BY <1>7 DEF StopReceivers, BeginStart, StartReceivers
    <2> QED
      BY <1>0, <2>1 DEF OrderOfUpdate, select
  <1>8. ~StartFails /\ ~CloseHandover
    BY DEF StartFails, CloseHandover, Orderly
  <1> HIDE DEF Stream
  <1> QED
    BY <1>1, <1>2, <1>3, <1>4, <1>5, <1>6, <1>7, <1>8 DEF Next, ProcStep

OrderOfThread(s) ==
    /\ recvPc[s] # "idle" /\ recvFrom[s] = expected_peer => ~recvTag[s]
    /\ recvPc[s] = "push" => recvFrom[s] \in {expected_peer, previous}
    /\ recvPc[s] = "close" => handover_flush_pending \/ handover_peer = NoDevice

(* No packet of the selected device is tagged, and who closes the handover  *)
(* has asked for the flush.                                                *)
LEMMA ThreadOrderKept ==
    ASSUME TypeOK, StillDuringUpdate, FilterInv, OrderInv, Closed, Orderly, [Next]_vars,
           NEW s \in Stream
    PROVE  OrderOfThread(s)'
  <1>0. /\ OrderOfThread(s)
        /\ handover_peer # NoDevice => handover_peer = previous /\ previous # expected_peer
        /\ recvPc[s] \in {"flush", "close"} => recvFrom[s] = expected_peer
    BY DEF OrderOfThread, OrderInv, FilterInv
  <1>a. /\ recvPc \in [Stream -> {"idle", "admit", "flush", "close", "push"}]
        /\ recvFrom \in [Stream -> Device] /\ recvTag \in [Stream -> BOOLEAN]
        /\ expected_peer \in Device /\ NoDevice \notin Device
    BY HandoverAssumption DEF TypeOK
  <1>1. CASE Quiet /\ Quiet' /\ recvPc' = recvPc
    BY <1>1 DEF Quiet, OrderOfThread
  <1>2. CASE /\ expected_peer' = expected_peer /\ previous' = previous
             /\ handover_peer' = handover_peer \/ handover_peer' = NoDevice
    <2>1. CASE \E t \in Stream, d \in Device : RecvTag(t, d)
      <3> PICK t \in Stream, d \in Device : RecvTag(t, d)
        BY <2>1
      <3>1. UNCHANGED <<select, handover_peer, handover_flush_pending>>
        BY DEF RecvTag
      <3>2. CASE t = s
        <4>1. recvPc'[s] = "admit" /\ recvFrom'[s] = d /\ recvTag'[s] = (handover_peer = d)
          BY <1>a, <3>2 DEF RecvTag, RecvGoes
        <4>2. d = expected_peer => handover_peer # d
          BY <1>0, <1>a
        <4> QED
          BY <3>1, <4>1, <4>2 DEF OrderOfThread, select
      <3>3. CASE t # s
        <4>1. recvPc'[s] = recvPc[s] /\ recvFrom'[s] = recvFrom[s] /\ recvTag'[s] = recvTag[s]
          BY <1>a, <3>3 DEF RecvTag, RecvGoes
        <4> QED
          BY <1>0, <3>1, <4>1 DEF OrderOfThread, select
      <3> QED
        BY <3>2, <3>3
    <2>2. CASE \E t \in Stream : RecvAdmit(t)
      BY <1>0, <1>a, <1>2, <2>2 DEF RecvAdmit, RecvGoes, OrderOfThread
    <2>3. CASE \E t \in Stream : RecvFlush(t)
      BY <1>0, <1>a, <1>2, <2>3 DEF RecvFlush, RecvGoes, OrderOfThread
    <2>4. CASE \E t \in Stream : RecvClose(t)
      BY <1>0, <1>a, <1>2, <2>4 DEF RecvClose, RecvGoes, OrderOfThread
    <2>5. CASE \E t \in Stream : RecvPush(t)
      BY <1>0, <1>a, <1>2, <2>5 DEF RecvPush, RecvGoes, OrderOfThread
    <2>6. CASE \E t \in Stream : DrainInserts(t)
      <3> PICK t \in Stream : DrainInserts(t)
        BY <2>6
      <3>1. handover_peer = NoDevice \/ handover_flush_pending' = handover_flush_pending
        BY InsertedInOrder
      <3>2. UNCHANGED <<recv, handover_peer>>
        BY DEF DrainInserts
      <3> QED
        BY <1>0, <1>2, <3>1, <3>2 DEF OrderOfThread, recv
    <2>7. CASE UNCHANGED <<recv, handover_flush_pending>>
      BY <1>0, <1>2, <2>7 DEF OrderOfThread, recv
    <2>8. ~(\E d \in Device : UpdateExpected(d))
      BY <1>2 DEF UpdateExpected
    <2> QED
      BY <2>1, <2>2, <2>3, <2>4, <2>5, <2>6, <2>7, <2>8
      DEF Next, vars, UpdateHandover, UpdateArm, RecvStep, ProcStep, DrainDrops, Pop,
          StopReceivers, BeginStart, StartReceivers, StartFails, CloseHandover, CutoverTimeout
  <1> QED
    BY <1>1, <1>2, AddressesChangeWhenQuiet

OrderedPacket(p) == /\ p.from \in {expected_peer, previous}
                    /\ p.from_handover => p.from # expected_peer

LEMMA FifoOrderKept ==
    ASSUME TypeOK, StillDuringUpdate, FilterInv, OrderInv, Closed, [Next]_vars,
           NEW s \in Stream, NEW i \in 1 .. Len(fifo'[s])
    PROVE  OrderedPacket(fifo[s][i])'
  <1>1. CASE Quiet'
    <2>1. Len(fifo'[s]) = 0
      BY <1>1, EmptySeq DEF Quiet
    <2> QED
      BY <2>1
  <1>2. CASE expected_peer' = expected_peer /\ previous' = previous
    <2>1. ASSUME NEW j \in 1 .. Len(fifo[s]), fifo'[s][i] = fifo[s][j]
          PROVE  OrderedPacket(fifo[s][i])'
      <3>1. OrderedPacket(fifo[s][j])
        BY DEF OrderInv, OrderedPacket
      <3> QED
        BY <1>2, <2>1, <3>1 DEF OrderedPacket
    <2>2. ASSUME RecvPush(s), fifo'[s][i] = Pushed(s)
          PROVE  OrderedPacket(fifo[s][i])'
      <3>1. recvPc[s] = "push"
        BY <2>2 DEF RecvPush, RecvGoes
      <3>2. /\ recvFrom[s] \in {expected_peer, previous}
            /\ recvTag[s] => recvFrom[s] # expected_peer
        BY <3>1 DEF OrderInv
      <3>3. fifo'[s][i].from = recvFrom[s] /\ fifo'[s][i].from_handover = recvTag[s]
        BY <2>2 DEF Pushed
      <3> QED
        BY <1>2, <3>2, <3>3 DEF OrderedPacket
    <2> QED
      BY <2>1, <2>2, WhereFrom
  <1> QED
    BY <1>1, <1>2, AddressesChangeWhenQuiet

OrderOfStage2 ==
    /\ Stage2 \subseteq {previous} \/ Stage2 \subseteq {expected_peer}
    /\ uiPc # "idle" \/ handover_peer # NoDevice => Stage2 \subseteq {previous}
    /\ uiPc = "idle" /\ handover_peer = NoDevice /\ ~handover_flush_pending
          => Stage2 \subseteq {expected_peer}

(* Stage 2 holds packets of the previous device up to the flush and of the  *)
(* selected device from then on.                                           *)
LEMMA Stage2OrderKept ==
    ASSUME TypeOK, StillDuringUpdate, FilterInv, OrderInv, Closed, Orderly, [Next]_vars
    PROVE  OrderOfStage2'
  <1>0. /\ OrderOfStage2
        /\ uiPc = "arm" => handover_peer # NoDevice
        /\ handover_peer # NoDevice => previous # expected_peer
    BY DEF OrderOfStage2, OrderInv
  <1>1. CASE \E s \in Stream : DrainInserts(s)
    <2> PICK s \in Stream : DrainInserts(s)
      BY <1>1
    <2>1. UNCHANGED <<select, handover_peer>>
      BY DEF DrainInserts
    <2>2. \/ handover_peer = NoDevice /\ Stage2' \subseteq {expected_peer}
          \/ handover_peer # NoDevice /\ Stage2' \subseteq {previous}
      BY InsertedInOrder
    <2>3. uiPc = "idle"
      BY InsertedInOrder
    <2> QED
      BY <2>1, <2>2, <2>3 DEF OrderOfStage2, select
  <1>2. CASE ~\E s \in Stream : DrainInserts(s)
    <2>0. Stage2' \subseteq Stage2
      BY <1>2, OnlyInsertsAdd
    <2>1. CASE \E d \in Device : UpdateExpected(d)
      <3>1. /\ uiPc = "idle" /\ handover_peer = NoDevice /\ ~handover_flush_pending
            /\ uiPc' = "handover" /\ (previous' = expected_peer)
        BY <2>1 DEF UpdateExpected, Orderly, OrderInv
      <3> QED
        BY <1>0, <2>0, <3>1 DEF OrderOfStage2
    <2>2. CASE UpdateHandover \/ UpdateArm
      <3>1. /\ uiPc # "idle" /\ previous' = previous
            /\ uiPc' # "idle" \/ handover_peer' # NoDevice
        BY <1>0, <2>2 DEF UpdateHandover, UpdateArm
      <3> QED
        BY <1>0, <2>0, <3>1 DEF OrderOfStage2
    <2>3. CASE \E s \in Stream : RecvFlush(s)
      <3>1. UNCHANGED <<select, handover_peer>> /\ handover_flush_pending'
        BY <2>3 DEF RecvFlush
      <3> QED
        BY <1>0, <2>0, <3>1 DEF OrderOfStage2, select
    <2>4. CASE \E s \in Stream : RecvClose(s)
      <3>1. /\ UNCHANGED <<select, handover_flush_pending>> /\ handover_peer' = NoDevice
            /\ handover_flush_pending \/ handover_peer = NoDevice
        BY <2>4 DEF RecvClose, RecvGoes, OrderInv
      <3> QED
        BY <1>0, <2>0, <3>1 DEF OrderOfStage2, select
    <2>5. CASE UNCHANGED <<select, handover_peer, handover_flush_pending>>
      BY <1>0, <2>0, <2>5 DEF OrderOfStage2, select
    <2>6. ~CloseHandover
      BY DEF CloseHandover, Orderly
    <2> HIDE DEF Stream
    <2> QED
      BY <1>2, <2>1, <2>2, <2>3, <2>4, <2>5, <2>6
      DEF Next, vars, RecvStep, RecvTag, RecvAdmit, RecvPush, ProcStep, DrainDrops, Pop,
          StopReceivers, BeginStart, StartReceivers, StartFails, CutoverTimeout
  <1> QED
    BY <1>1, <1>2

LEMMA OrderKept ==
    ASSUME TypeOK, StillDuringUpdate, FilterInv, OrderInv, Closed, Orderly, [Next]_vars
    PROVE  OrderInv'
  <1>1. OrderOfUpdate'
    BY UpdateKept
  <1>2. \A s \in Stream : OrderOfThread(s)'
    BY ThreadOrderKept
  <1>3. \A s \in Stream : \A i \in 1 .. Len(fifo'[s]) : OrderedPacket(fifo[s][i])'
    BY FifoOrderKept
  <1>4. OrderOfStage2'
    BY Stage2OrderKept
  <1> HIDE DEF Stream
  <1> QED
    BY <1>1, <1>2, <1>3, <1>4
    DEF OrderInv, OrderOfUpdate, OrderOfThread, OrderedPacket, OrderOfStage2

-----------------------------------------------------------------------------
(* The colours, if switches are orderly.                                    *)

NewColors ==
    /\ ~palette_cutover_flush
    /\ uiPc = "idle" =>
          /\ palette_cutover_colors = expected_peer
          /\ ~palette_cutover_pending => colors = expected_peer

(* The colours that wait are the selected device's, and are shown when the  *)
(* wait is over.                                                           *)
LEMMA NewColorsKept ==
    ASSUME TypeOK, OrderInv, NewColors, Closed, [Next]_vars
    PROVE  NewColors'
  <1>0. palette_cutover_flush \in BOOLEAN /\ palette_cutover_pending \in BOOLEAN
    BY DEF TypeOK
  <1>1. CASE \E s \in Stream : DrainInserts(s)
    <2> PICK s \in Stream : DrainInserts(s)
      BY <1>1
    <2>1. UNCHANGED <<select, palette_cutover_colors>>
      BY DEF DrainInserts
    <2>2. ~palette_cutover_flush'
      BY DEF DrainInserts, NewColors
    <2>3. uiPc = "idle"
      BY DEF DrainInserts, Dequeue, UpdateClosed, Closed
    <2>4. ~palette_cutover_pending' => colors' = expected_peer
      <3>1. palette_cutover_pending' = (palette_cutover_pending /\ ~Head(fifo[s]).palette_cutover)
        BY DEF DrainInserts
      <3>2. colors' = IF Head(fifo[s]).palette_cutover /\ palette_cutover_pending
                      THEN palette_cutover_colors ELSE colors
        BY DEF DrainInserts
      <3>3. Head(fifo[s]).palette_cutover \in BOOLEAN
        BY HeadIsInFifo DEF DrainInserts, Packet
      <3> QED
        BY <1>0, <2>3, <3>1, <3>2, <3>3 DEF NewColors
    <2> QED
      BY <2>1, <2>2, <2>3, <2>4 DEF NewColors, select
  <1>2. CASE UpdateArm
    <2>1. handover_peer # NoDevice
      BY <1>2 DEF UpdateArm, OrderInv
    <2> QED
      BY <1>2, <2>1 DEF UpdateArm, NewColors
  <1>3. CASE UpdateHandover \/ \E d \in Device : UpdateExpected(d)
    <2>1. uiPc' # "idle" /\ palette_cutover_flush' = palette_cutover_flush
      BY <1>3 DEF UpdateHandover, UpdateExpected, cut
    <2> QED
      BY <2>1 DEF NewColors
  <1>4. CASE CutoverTimeout
    BY <1>4 DEF CutoverTimeout, NewColors, select
  <1>5. CASE UNCHANGED <<select, cut>>
    BY <1>5 DEF NewColors, select, cut
  <1> HIDE DEF Stream
  <1> QED
    BY <1>1, <1>2, <1>3, <1>4, <1>5
    DEF Next, vars, RecvStep, RecvTag, RecvAdmit, RecvFlush, RecvClose, RecvPush, ProcStep,
        DrainDrops, Pop, StopReceivers, BeginStart, StartReceivers, StartFails, CloseHandover

TaggedFirst ==
    uiPc = "idle" =>
        /\ palette_cutover_pending /\ palette_cutover_marked =>
              \E i \in 1 .. Len(fifo["video"]) : Waiting(i)
        /\ palette_cutover_pending /\ ~palette_cutover_marked =>
              \A i \in 1 .. Len(fifo["video"]) : fifo["video"][i].from # expected_peer

(* While the colours wait, the first packet of the selected device in the   *)
(* FIFO carries the cut-over; so if the oldest packet does not, it is not   *)
(* of that device.                                                         *)
LEMMA HeadIsTagged ==
    ASSUME TypeOK, TaggedFirst, uiPc = "idle", palette_cutover_pending, Dequeue("video"),
           ~Head(fifo["video"]).palette_cutover
    PROVE  Head(fifo["video"]).from # expected_peer
  <1>1. /\ Head(fifo["video"]) = fifo["video"][1] /\ 1 \in 1 .. Len(fifo["video"])
    BY HeadIsInFifo
  <1>2. CASE palette_cutover_marked
    <2>1. PICK i \in 1 .. Len(fifo["video"]) : Waiting(i)
      BY <1>2 DEF TaggedFirst
    <2>2. i # 1
      BY <1>1, <2>1 DEF Waiting
    <2>3. 1 \in 1 .. i - 1
      BY <2>2
    <2> QED
      BY <1>1, <2>1, <2>3 DEF Waiting
  <1>3. CASE ~palette_cutover_marked
    BY <1>1, <1>3 DEF TaggedFirst
  <1> QED
    BY <1>2, <1>3

(* Taking a packet that does not carry the cut-over keeps the mark first.   *)
LEMMA TaggedFirstAfterDequeue ==
    ASSUME TypeOK, TaggedFirst, Dequeue("video"),
           UNCHANGED <<uiPc, expected_peer, palette_cutover_marked>>,
           palette_cutover_pending' => /\ palette_cutover_pending
                                       /\ ~Head(fifo["video"]).palette_cutover
    PROVE  TaggedFirst'
  <1> DEFINE q == fifo["video"]
  <1>1. q \in Seq(Packet) /\ q # << >> /\ fifo'["video"] = Tail(q)
    BY DEF TypeOK, Dequeue
  <1>2. /\ Len(q) \in Nat \ {0} /\ Len(fifo'["video"]) = Len(q) - 1
        /\ \A i \in 1 .. Len(q) - 1 : fifo'["video"][i] = q[i + 1]
        /\ Head(q) = q[1]
    BY <1>1, TailShifts
  <1> SUFFICES ASSUME uiPc = "idle", palette_cutover_pending, ~q[1].palette_cutover
               PROVE  /\ palette_cutover_marked =>
                            \E i \in 1 .. Len(fifo'["video"]) : Waiting(i)'
                      /\ ~palette_cutover_marked =>
                            \A i \in 1 .. Len(fifo'["video"]) :
                               fifo'["video"][i].from # expected_peer
    BY <1>2 DEF TaggedFirst
  <1> HIDE DEF q
  <1>3. CASE palette_cutover_marked
    <2>1. PICK i \in 1 .. Len(q) : Waiting(i)
      BY <1>3 DEF TaggedFirst, q
    <2>2. i # 1
      BY <2>1 DEF Waiting, q
    <2>3. i - 1 \in 1 .. Len(q) - 1 /\ (i - 1) + 1 = i
      BY <1>2, <2>2
    <2>4. fifo'["video"][i - 1] = q[i]
      BY <1>2, <2>3
    <2>5. \A j \in 1 .. (i - 1) - 1 : fifo'["video"][j].from # expected_peer
      <3> TAKE j \in 1 .. (i - 1) - 1
      <3>1. j \in 1 .. Len(q) - 1 /\ j + 1 \in 1 .. i - 1
        BY <1>2, <2>3
      <3> QED
        BY <1>2, <2>1, <3>1 DEF Waiting, q
    <2>6. Waiting(i - 1)'
      BY <2>1, <2>4, <2>5 DEF Waiting, q
    <2> QED
      BY <1>2, <1>3, <2>3, <2>6
  <1>4. CASE ~palette_cutover_marked
    <2>1. \A i \in 1 .. Len(q) : q[i].from # expected_peer
      BY <1>4 DEF TaggedFirst, q
    <2>2. \A i \in 1 .. Len(q) - 1 : i + 1 \in 1 .. Len(q)
      BY <1>2
    <2> QED
      BY <1>2, <1>4, <2>1, <2>2
  <1> QED
    BY <1>3, <1>4

(* Pushing a packet tags the selected device's first one.                   *)
LEMMA TaggedFirstAfterPush ==
    ASSUME TypeOK, TaggedFirst, OrderInv, RecvPush("video")
    PROVE  TaggedFirst'
  <1> DEFINE q == fifo["video"]
  <1>0. FifoTyped
    BY DEF TypeOK, FifoTyped
  <1>1. /\ fifo'["video"] = IF HasRoom("video") THEN Append(q, Pushed("video")) ELSE q
        /\ Pushed("video") \in Packet
    BY <1>0, PushedLast DEF TypeOK
  <1>2. q \in Seq(Packet) /\ Len(q) \in Nat
    BY <1>0, LenProperties DEF FifoTyped
  <1>3. UNCHANGED <<uiPc, expected_peer, palette_cutover_pending>>
    BY DEF RecvPush, select, cut
  <1>4. palette_cutover_marked' = Mark("video")
    BY DEF RecvPush
  <1>5. recvFrom["video"] = expected_peer => ~recvTag["video"]
    BY DEF OrderInv, RecvPush, RecvGoes
  <1>a. SUFFICES ASSUME uiPc = "idle", palette_cutover_pending
                 PROVE  /\ palette_cutover_marked' =>
                              \E i \in 1 .. Len(fifo'["video"]) : Waiting(i)'
                        /\ ~palette_cutover_marked' =>
                              \A i \in 1 .. Len(fifo'["video"]) :
                                 fifo'["video"][i].from # expected_peer
    BY <1>3 DEF TaggedFirst
  <1>b. /\ palette_cutover_marked => \E i \in 1 .. Len(q) : Waiting(i)
        /\ ~palette_cutover_marked => \A i \in 1 .. Len(q) : q[i].from # expected_peer
    BY <1>a DEF TaggedFirst
  <1>6. CASE ~HasRoom("video")
    <2>1. fifo'["video"] = q /\ (palette_cutover_marked' <=> palette_cutover_marked)
      BY <1>1, <1>4, <1>6 DEF Mark
    <2> QED
      BY <1>3, <1>b, <2>1 DEF Waiting
  <1>7. CASE HasRoom("video")
    <2>1. /\ Len(fifo'["video"]) = Len(q) + 1
          /\ \A i \in 1 .. Len(q) : fifo'["video"][i] = q[i]
          /\ fifo'["video"][Len(q) + 1] = Pushed("video")
      BY <1>1, <1>2, <1>7, AppendLast
    <2>2. CASE palette_cutover_marked
      <3>1. PICK i \in 1 .. Len(q) : Waiting(i)
        BY <1>b, <2>2
      <3>2. i \in 1 .. Len(fifo'["video"]) /\ \A j \in 1 .. i - 1 : j \in 1 .. Len(q)
        BY <1>2, <2>1
      <3>3. Waiting(i)'
        BY <1>3, <2>1, <3>1, <3>2 DEF Waiting
      <3>4. palette_cutover_marked'
        BY <1>4, <2>2 DEF Mark
      <3> QED
        BY <3>2, <3>3, <3>4
    <2>3. CASE ~palette_cutover_marked /\ Carries("video")
      <3>1. palette_cutover_marked'
        BY <1>4, <1>7, <2>3 DEF Mark
      <3>2. PICK n \in 1 .. Len(fifo'["video"]) : n = Len(q) + 1 /\ n - 1 = Len(q)
        BY <1>2, <2>1
      <3>3. fifo'["video"][n].palette_cutover
        BY <2>1, <2>3, <3>2 DEF Pushed
      <3>4. Waiting(n)'
        BY <1>3, <1>b, <2>1, <2>3, <3>2, <3>3 DEF Waiting
      <3> QED
        BY <3>1, <3>2, <3>4
    <2>4. CASE ~palette_cutover_marked /\ ~Carries("video")
      <3>1. ~palette_cutover_marked'
        BY <1>4, <2>4 DEF Mark
      <3>2. Pushed("video").from # expected_peer
        BY <1>5, <1>a, <2>4 DEF Carries, Pushed
      <3>3. \A i \in 1 .. Len(fifo'["video"]) : i \in 1 .. Len(q) \/ i = Len(q) + 1
        BY <1>2, <2>1
      <3> QED
        BY <1>b, <2>1, <2>4, <3>1, <3>2, <3>3
    <2> QED
      BY <2>2, <2>3, <2>4
  <1> QED
    BY <1>6, <1>7

(* The mark for the new colours stays on the selected device's first packet. *)
LEMMA TaggedFirstKept ==
    ASSUME TypeOK, StillDuringUpdate, FilterInv, OrderInv, TaggedFirst, Closed, [Next]_vars
    PROVE  TaggedFirst'
  <1>1. CASE UpdateArm
    <2>1. Len(fifo'["video"]) = 0 /\ ~palette_cutover_marked'
      BY <1>1, EmptySeq DEF UpdateArm, StillDuringUpdate, Quiet
    <2> QED
      BY <2>1 DEF TaggedFirst
  <1>2. CASE UpdateHandover \/ \E d \in Device : UpdateExpected(d)
    BY <1>2 DEF UpdateHandover, UpdateExpected, TaggedFirst
  <1>3. CASE RecvPush("video")
    BY <1>3, TaggedFirstAfterPush
  <1>4. CASE RecvPush("audio")
    <2>1. UNCHANGED <<select, cut>>
      BY <1>4 DEF RecvPush
    <2>2. fifo'["video"] = fifo["video"]
      BY <1>4 DEF RecvPush, TypeOK
    <2>3. palette_cutover_marked' <=> palette_cutover_marked
      BY <1>4 DEF RecvPush, Mark, Carries
    <2> QED
      BY <2>1, <2>2, <2>3 DEF TaggedFirst, Waiting, select, cut
  <1>5. CASE DrainDrops("video")
    <2>1. ~Head(fifo["video"]).palette_cutover
      <3>1. Head(fifo["video"]) = fifo["video"][1] /\ 1 \in 1 .. Len(fifo["video"])
        BY <1>5, HeadIsInFifo DEF DrainDrops
      <3>2. Admitted(Head(fifo["video"]))
        BY <3>1 DEF FilterInv, Admitted
      <3> QED
        BY <1>5, <3>2 DEF Admitted, DrainDrops, ShouldDrop
    <2>2. UNCHANGED <<select, cut, palette_cutover_marked>> /\ Dequeue("video")
      BY <1>5 DEF DrainDrops
    <2> QED
      BY <2>1, <2>2, TaggedFirstAfterDequeue DEF select, cut
  <1>6. CASE DrainInserts("video")
    <2>1. UNCHANGED <<select, palette_cutover_marked>> /\ Dequeue("video")
      BY <1>6 DEF DrainInserts
    <2>2. palette_cutover_pending'
             = (palette_cutover_pending /\ ~Head(fifo["video"]).palette_cutover)
      BY <1>6 DEF DrainInserts
    <2> QED
      BY <2>1, <2>2, TaggedFirstAfterDequeue DEF select
  <1>7. CASE DrainDrops("audio") \/ DrainInserts("audio")
    <2>1. fifo'["video"] = fifo["video"]
      BY <1>7 DEF DrainDrops, DrainInserts, Dequeue, TypeOK
    <2>2. UNCHANGED <<select, palette_cutover_marked>>
      BY <1>7 DEF DrainDrops, DrainInserts
    <2>3. palette_cutover_pending' => palette_cutover_pending
      BY <1>7 DEF DrainDrops, DrainInserts, cut
    <2> QED
      BY <2>1, <2>2, <2>3 DEF TaggedFirst, Waiting, select
  <1>8. CASE StartReceivers
    <2>1. Len(fifo'["video"]) = 0 /\ ~palette_cutover_marked'
      BY <1>8, EmptySeq DEF StartReceivers
    <2> QED
      BY <2>1 DEF TaggedFirst
  <1>9. CASE CutoverTimeout
    BY <1>9 DEF CutoverTimeout, TaggedFirst
  <1>10. CASE UNCHANGED <<select, cut, palette_cutover_marked, fifo>>
    BY <1>10 DEF TaggedFirst, Waiting, select, cut
  <1> QED
    BY <1>1, <1>2, <1>3, <1>4, <1>5, <1>6, <1>7, <1>8, <1>9, <1>10
    DEF Next, vars, RecvStep, RecvTag, RecvAdmit, RecvFlush, RecvClose, ProcStep, Pop,
        StopReceivers, BeginStart, StartFails, CloseHandover

PictureFollows ==
    uiPc = "idle" =>
        /\ ~palette_cutover_pending /\ ~timedOut
              => handover_peer = NoDevice /\ Stage2 \subseteq {expected_peer}
        /\ "video" \in arrived => ~palette_cutover_pending

(* The colours change with the first packet of the selected device, when    *)
(* stage 2 is rid of the previous one.                                      *)
LEMMA PictureKept ==
    ASSUME TypeOK, StillDuringUpdate, FilterInv, OrderInv, TaggedFirst, PictureFollows,
           Closed, Orderly, [Next]_vars
    PROVE  PictureFollows'
  <1>1. CASE UpdateArm
    BY <1>1 DEF UpdateArm, PictureFollows, StillDuringUpdate, stage2
  <1>2. CASE UpdateHandover \/ \E d \in Device : UpdateExpected(d)
    BY <1>2 DEF UpdateHandover, UpdateExpected, PictureFollows
  <1>3. CASE \E s \in Stream : DrainInserts(s)
    <2> PICK s \in Stream : DrainInserts(s)
      BY <1>3
    <2> DEFINE p == Head(fifo[s])
    <2>1. /\ uiPc = "idle"
          /\ \/ /\ p.from = expected_peer /\ handover_peer = NoDevice
                /\ Stage2' \subseteq {expected_peer}
             \/ p.from # expected_peer /\ handover_peer # NoDevice /\ ~p.palette_cutover
      BY InsertedInOrder
    <2>2. /\ UNCHANGED <<select, handover_peer, timedOut>>
          /\ palette_cutover_pending' = (palette_cutover_pending /\ ~p.palette_cutover)
          /\ arrived' = IF p.from = expected_peer THEN arrived \cup {s} ELSE arrived
      BY DEF DrainInserts
    <2>3. s = "video" /\ palette_cutover_pending /\ ~p.palette_cutover
             => p.from # expected_peer
      BY <2>1, HeadIsTagged DEF DrainInserts
    <2>4. p.palette_cutover \in BOOLEAN /\ palette_cutover_pending \in BOOLEAN
      BY HeadIsInFifo DEF DrainInserts, Packet, TypeOK
    <2> HIDE DEF p
    <2>5. ~palette_cutover_pending' /\ ~timedOut
             => handover_peer = NoDevice /\ Stage2' \subseteq {expected_peer}
      BY <2>1, <2>2, <2>4 DEF PictureFollows
    <2>6. "video" \in arrived' => ~palette_cutover_pending'
      BY <2>1, <2>2, <2>3, <2>4 DEF PictureFollows
    <2> QED
      BY <2>1, <2>2, <2>5, <2>6 DEF PictureFollows, select
  <1>4. CASE /\ ~\E s \in Stream : DrainInserts(s)
             /\ ~UpdateArm /\ ~UpdateHandover /\ ~\E d \in Device : UpdateExpected(d)
    <2>1. Stage2' \subseteq Stage2
      BY <1>4, OnlyInsertsAdd
    <2> HIDE DEF Stream
    <2>2. /\ UNCHANGED select /\ arrived' = arrived
          /\ handover_peer' = handover_peer \/ handover_peer' = NoDevice
          /\ \/ palette_cutover_pending' = palette_cutover_pending /\ timedOut' = timedOut
             \/ ~palette_cutover_pending' /\ timedOut'
      BY <1>4 DEF Next, vars, cut, stage2, RecvStep, RecvTag, RecvAdmit, RecvFlush,
             RecvClose, RecvPush, ProcStep, DrainDrops, Pop, StopReceivers, BeginStart,
             StartReceivers, StartFails, CloseHandover, CutoverTimeout
    <2> QED
      BY <2>1, <2>2 DEF PictureFollows, select
  <1> QED
    BY <1>1, <1>2, <1>3, <1>4

LEMMA ColorKept ==
    ASSUME TypeOK, StillDuringUpdate, FilterInv, OrderInv, ColorInv, Closed, Orderly,
           [Next]_vars
    PROVE  ColorInv'
  <1>1. NewColors /\ TaggedFirst /\ PictureFollows
    BY DEF ColorInv, NewColors, TaggedFirst, PictureFollows
  <1>2. NewColors' /\ TaggedFirst' /\ PictureFollows'
    BY <1>1, NewColorsKept, TaggedFirstKept, PictureKept
  <1> QED
    BY <1>2 DEF ColorInv, NewColors, TaggedFirst, PictureFollows

-----------------------------------------------------------------------------
(* The invariant and what follows from it.                                  *)

LEMMA HandoverAtFirst == ASSUME Init PROVE OrderInv /\ ColorInv
  <1>1. \A s \in Stream : recvPc[s] = "idle" /\ Len(fifo[s]) = 0
    BY EmptySeq DEF Init
  <1>2. Stage2 = {}
    BY DEF Init, Stage2
  <1>3. OrderInv
    <2>1. /\ uiPc = "idle" /\ handover_peer = NoDevice /\ streaming
      BY DEF Init
    <2> HIDE DEF Stream
    <2> QED
      BY <1>1, <1>2, <2>1 DEF OrderInv
  <1>4. ColorInv
    BY <1>1, <1>2, HandoverAssumption DEF Init, ColorInv
  <1> QED
    BY <1>3, <1>4

LEMMA InductiveInvariant ==
    ASSUME ClosedWindows
    PROVE  Spec => []IInv
  <1>1. Init => IInv
    BY TypedAtFirst, FilterAtFirst, HandoverAtFirst DEF IInv
  <1>2. TypeOK => Closed
    BY DEF ClosedWindows, Closed, TypeOK
  <1>3. IInv /\ [Next]_vars => IInv'
    <2> SUFFICES ASSUME IInv, [Next]_vars PROVE IInv'
      OBVIOUS
    <2>1. TypeOK' /\ StillDuringUpdate' /\ FilterInv'
      BY <1>2, TypesStay, StillKept, FilterKept DEF IInv
    <2>2. windows' = windows
      <3> HIDE DEF Stream
      <3> QED
        BY DEF Next, vars, UpdateExpected, UpdateHandover, UpdateArm, RecvStep, RecvTag,
               RecvAdmit, RecvFlush, RecvClose, RecvPush, ProcStep, DrainDrops,
               DrainInserts, Pop, StopReceivers, BeginStart, StartReceivers, StartFails,
               CloseHandover, CutoverTimeout
    <2>3. Orderly' => OrderInv' /\ ColorInv'
      BY <1>2, <2>2, OrderKept, ColorKept DEF IInv, Orderly
    <2> QED
      BY <2>1, <2>3 DEF IInv
  <1> QED
    BY <1>1, <1>3, PTL DEF Spec

(* The receive threads, the retry worker and the processor interleave in    *)
(* any way: the reorder buffer and the frame under assembly hold packets of *)
(* one device.  c64_handover_flush comes before the selected device's first *)
(* packet, and the filter lets nothing of another device follow it.         *)
THEOREM OneDeviceAtATime ==
    ASSUME ClosedWindows
    PROVE  Spec => []StageInv
  <1>1. ASSUME NEW S, NEW d, S \subseteq {d}
        PROVE  Cardinality(S) <= 1
    <2>1. S = {} \/ S = {d}
      BY <1>1
    <2>2. Cardinality({}) = 0 /\ Cardinality({d}) = 1
      BY FS_EmptySet, FS_Singleton
    <2> QED
      BY <2>1, <2>2
  <1>2. IInv => StageInv
    <2> SUFFICES ASSUME IInv, Orderly
                 PROVE  /\ Cardinality(reorder["video"] \cup frame) <= 1
                        /\ Cardinality(reorder["audio"]) <= 1
      BY DEF IInv, StageInv, OneDeviceInStage2
    <2>1. PICK d : Stage2 \subseteq {d}
      BY DEF IInv, OrderInv
    <2>2. reorder["video"] \cup frame \subseteq {d} /\ reorder["audio"] \subseteq {d}
      BY <2>1 DEF Stage2
    <2> QED
      BY <1>1, <2>2
  <1> QED
    BY <1>2, InductiveInvariant, PTL

(* The colours of the selected device come with its first picture and are   *)
(* never on a picture of the previous one, unless the wait for a packet     *)
(* timed out; a FIFO that is full, or is replaced while the colours wait,   *)
(* changes nothing in that.                                                *)
THEOREM ColorsComeWithThePicture ==
    ASSUME ClosedWindows
    PROVE  Spec => []ColorsFollowPicture
  <1>1. IInv => ColorsFollowPicture
    <2> SUFFICES ASSUME IInv, Orderly, uiPc = "idle"
                 PROVE  /\ "video" \in arrived =>
                              ~palette_cutover_pending /\ colors = expected_peer
                        /\ ~palette_cutover_pending /\ ~timedOut =>
                              reorder["video"] \cup frame \subseteq {expected_peer}
      BY DEF ColorsFollowPicture
    <2> QED
      BY DEF IInv, ColorInv, Stage2
  <1> QED
    BY <1>1, InductiveInvariant, PTL
=============================================================================
