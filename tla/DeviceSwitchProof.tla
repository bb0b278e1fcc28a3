------------------------- MODULE DeviceSwitchProof -------------------------
(***************************************************************************)
(* What the switch between devices keeps, for any devices, ports and        *)
(* lengths of the stop queue, when the places where one of the two threads  *)
(* may be preempted by the other are closed (Windows = {}).                 *)
(***************************************************************************)
EXTENDS DeviceSwitch, SequenceTheorems, FiniteSetTheorems, WellFoundedInduction, TLAPS

-----------------------------------------------------------------------------
(* The stop queue.                                                         *)

LEMMA LeastExists ==
    ASSUME NEW S \in SUBSET Nat, S # {}
    PROVE  \E n \in S : \A m \in S : n <= m
  <1> DEFINE R == OpToRel(<, Nat)
  <1>1. IsWellFoundedOn(R, Nat)
    BY NatLessThanWellFounded
  <1>2. \A x, y \in Nat : <<y, x>> \in R <=> y < x
    BY DEF OpToRel
  <1> HIDE DEF R
  <1>3. PICK x \in S : \A y \in S : ~(<<y, x>> \in R)
    BY <1>1, WFMin
  <1>4. \A y \in S : x <= y
    <2> TAKE y \in S
    <2>1. x \in Nat /\ y \in Nat /\ ~(<<y, x>> \in R)
      BY <1>3
    <2> QED
      BY <1>2, <2>1
  <1> QED
    BY <1>4

(* c64_stop_queue_find finds an entry for the endpoint if there is one.     *)
LEMMA FindFinds ==
    ASSUME NEW S, NEW q \in Seq(S), NEW ep
    PROVE  \/ Find(q, ep) = 0 /\ \A i \in 1 .. Len(q) : q[i].ep # ep
           \/ Find(q, ep) \in 1 .. Len(q) /\ q[Find(q, ep)].ep = ep
  <1> DEFINE I == {i \in 1 .. Len(q) : q[i].ep = ep}
  <1>1. Find(q, ep) = IF I # {} THEN Min(I) ELSE 0
    BY DEF Find, SelectInSeq
  <1>2. I # {} => Min(I) \in I
    <2>1. I \in SUBSET Nat
      BY LenProperties
    <2> QED
      BY <2>1, LeastExists DEF Min
  <1> QED
    BY <1>1, <1>2

LEMMA RemoveDrops ==
    ASSUME NEW S, NEW q \in Seq(S), NEW i \in 1 .. Len(q)
    PROVE  /\ RemoveAt(q, i) \in Seq(S)
           /\ Len(q) \in Nat
           /\ Len(RemoveAt(q, i)) = Len(q) - 1
           /\ \A j \in 1 .. Len(q) - 1 :
                 RemoveAt(q, i)[j] = IF j < i THEN q[j] ELSE q[j + 1]
  <1>0. Len(q) \in Nat
    BY LenProperties
  <1>1. /\ SubSeq(q, 1, i - 1) \in Seq(S) /\ Len(SubSeq(q, 1, i - 1)) = i - 1
        /\ \A j \in 1 .. i - 1 : SubSeq(q, 1, i - 1)[j] = q[j]
    BY <1>0, SubSeqProperties
  <1>2. /\ SubSeq(q, i + 1, Len(q)) \in Seq(S) /\ Len(SubSeq(q, i + 1, Len(q))) = Len(q) - i
        /\ \A j \in 1 .. Len(q) - i : SubSeq(q, i + 1, Len(q))[j] = q[i + j]
    BY <1>0, SubSeqProperties
  <1>3. /\ RemoveAt(q, i) \in Seq(S) /\ Len(RemoveAt(q, i)) = (i - 1) + (Len(q) - i)
        /\ \A j \in 1 .. (i - 1) + (Len(q) - i) :
              RemoveAt(q, i)[j] = IF j <= i - 1 THEN SubSeq(q, 1, i - 1)[j]
                                  ELSE SubSeq(q, i + 1, Len(q))[j - (i - 1)]
    BY <1>1, <1>2, ConcatProperties DEF RemoveAt
  <1>4. (i - 1) + (Len(q) - i) = Len(q) - 1
    BY <1>0
  <1>5. ASSUME NEW j \in 1 .. Len(q) - 1
        PROVE  RemoveAt(q, i)[j] = IF j < i THEN q[j] ELSE q[j + 1]
    <2>1. CASE j < i
      BY <1>0, <1>1, <1>3, <1>4, <2>1
    <2>2. CASE ~(j < i)
      <3>1. j - (i - 1) \in 1 .. Len(q) - i /\ i + (j - (i - 1)) = j + 1
        BY <1>0, <2>2
      <3>2. RemoveAt(q, i)[j] = SubSeq(q, i + 1, Len(q))[j - (i - 1)]
        BY <1>0, <1>3, <1>4, <2>2
      <3> QED
        BY <1>2, <2>2, <3>1, <3>2
    <2> QED
      BY <2>1, <2>2
  <1> QED
    BY <1>0, <1>3, <1>4, <1>5

(* An entry of the stop queue, and a queue the switch may hold: bounded, and *)
(* without two entries for one endpoint.                                    *)
StopEntry == [ep : Endpoint, attempts : 0 .. MaxAttempts - 1]

WellFormed(q) ==
    /\ q \in Seq(StopEntry)
    /\ Len(q) <= QueueMax
    /\ \A i, j \in 1 .. Len(q) : q[i].ep = q[j].ep => i = j

(* Every host of queue q waits in queue r, or is one of H.                  *)
KeepsBut(q, r, H) == \A h \in HostsIn(q) : h \in HostsIn(r) \/ h \in H

LEMMA HostsAreIndexed ==
    ASSUME NEW S, NEW q \in Seq(S), NEW h
    PROVE  h \in HostsIn(q) <=> \E i \in 1 .. Len(q) : q[i].ep.host = h
  BY LenProperties DEF HostsIn

(* SequencesExt's RemoveAt, at an entry whose stop is done or given up.     *)
LEMMA RemoveKeeps ==
    ASSUME NEW q, WellFormed(q), NEW i \in 1 .. Len(q)
    PROVE  /\ WellFormed(RemoveAt(q, i))
           /\ Len(RemoveAt(q, i)) = Len(q) - 1
           /\ KeepsBut(q, RemoveAt(q, i), {q[i].ep.host})
  <1> DEFINE r == RemoveAt(q, i)
  <1>1. /\ q \in Seq(StopEntry) /\ Len(q) \in Nat /\ Len(q) <= QueueMax
        /\ \A a, b \in 1 .. Len(q) : q[a].ep = q[b].ep => a = b
    BY LenProperties DEF WellFormed
  <1>2. /\ r \in Seq(StopEntry) /\ Len(r) = Len(q) - 1
        /\ \A j \in 1 .. Len(q) - 1 : r[j] = IF j < i THEN q[j] ELSE q[j + 1]
    BY <1>1, RemoveDrops
  <1> HIDE DEF r
  <1>3. ASSUME NEW a \in 1 .. Len(r), NEW b \in 1 .. Len(r), r[a].ep = r[b].ep
        PROVE  a = b
    <2>1. PICK c \in 1 .. Len(q) : c = (IF a < i THEN a ELSE a + 1) /\ r[a] = q[c]
      BY <1>1, <1>2
    <2>2. PICK d \in 1 .. Len(q) : d = (IF b < i THEN b ELSE b + 1) /\ r[b] = q[d]
      BY <1>1, <1>2
    <2>3. c = d
      BY <1>1, <1>3, <2>1, <2>2
    <2> QED
      BY <1>1, <1>2, <2>1, <2>2, <2>3
  <1>4. ASSUME NEW h \in HostsIn(q), h # q[i].ep.host
        PROVE  h \in HostsIn(r)
    <2>1. PICK c \in 1 .. Len(q) : q[c].ep.host = h
      BY <1>1, HostsAreIndexed
    <2>2. c # i
      BY <1>4, <2>1
    <2>3. \E j \in 1 .. Len(r) : r[j] = q[c]
      <3>1. CASE c < i
        BY <1>1, <1>2, <3>1
      <3>2. CASE c > i
        <4>1. c - 1 \in 1 .. Len(r) /\ ~(c - 1 < i) /\ (c - 1) + 1 = c
          BY <1>1, <1>2, <3>2
        <4> QED
          BY <1>2, <4>1
      <3> QED
        BY <1>1, <2>2, <3>1, <3>2
    <2> QED
      BY <1>2, <2>1, <2>3, HostsAreIndexed
  <1> QED
    BY <1>1, <1>2, <1>3, <1>4, QueueMaxAssumption DEF WellFormed, KeepsBut, r

(* A failed attempt that is not the last one changes only its own count.    *)
LEMMA FailKeeps ==
    ASSUME NEW q, WellFormed(q), NEW i \in 1 .. Len(q), ~GivesUp(q, i, MaxAttempts)
    PROVE  /\ WellFormed(Failed(q, i))
           /\ Len(Failed(q, i)) = Len(q)
           /\ \A j \in 1 .. Len(q) : Failed(q, i)[j].ep = q[j].ep
           /\ KeepsBut(q, Failed(q, i), {})
  <1> DEFINE e == [q[i] EXCEPT !.attempts = @ + 1]
             r == [q EXCEPT ![i] = e]
  <1>1. /\ q \in Seq(StopEntry) /\ Len(q) \in Nat /\ Len(q) <= QueueMax
        /\ \A a, b \in 1 .. Len(q) : q[a].ep = q[b].ep => a = b
    BY LenProperties DEF WellFormed
  <1>2. q[i] \in StopEntry
    BY <1>1, ElementOfSeq
  <1>3. e \in StopEntry /\ e.ep = q[i].ep
    BY <1>2, DeviceAssumption DEF StopEntry, GivesUp
  <1>4. Failed(q, i) = r
    BY <1>1, LenProperties DEF Failed
  <1> HIDE DEF e
  <1>5. /\ r \in Seq(StopEntry) /\ Len(r) = Len(q)
        /\ \A j \in 1 .. Len(q) : r[j] = IF j = i THEN e ELSE q[j]
    BY <1>1, <1>3, ExceptSeq
  <1> HIDE DEF r
  <1>6. \A j \in 1 .. Len(q) : r[j].ep = q[j].ep
    BY <1>3, <1>5
  <1>7. \A h \in HostsIn(q) : h \in HostsIn(r)
    BY <1>1, <1>5, <1>6, HostsAreIndexed
  <1> QED
    BY <1>1, <1>4, <1>5, <1>6, <1>7 DEF WellFormed, KeepsBut

(* c64_stop_queue_cancel drops at most the entry for the endpoint.          *)
LEMMA CancelKeeps ==
    ASSUME NEW q, WellFormed(q), NEW ep
    PROVE  /\ WellFormed(Cancel(q, ep))
           /\ KeepsBut(q, Cancel(q, ep), {ep.host})
  <1>1. q \in Seq(StopEntry)
    BY DEF WellFormed
  <1>2. CASE Find(q, ep) = 0
    BY <1>2 DEF Cancel, KeepsBut
  <1>3. CASE Find(q, ep) \in 1 .. Len(q) /\ q[Find(q, ep)].ep = ep
    <2>1. Len(q) \in Nat
      BY <1>1, LenProperties
    <2>2. Cancel(q, ep) = RemoveAt(q, Find(q, ep))
      BY <1>3, <2>1 DEF Cancel
    <2> QED
      BY <1>3, <2>2, RemoveKeeps
  <1> QED
    BY <1>1, <1>2, <1>3, FindFinds

(* c64_stop_queue_add: the endpoint waits for its stop, and a host that does *)
(* no longer wait is reported as dropped.                                   *)
LEMMA AddKeeps ==
    ASSUME NEW q, WellFormed(q), NEW ep \in Endpoint
    PROVE  /\ WellFormed(Add(q, ep))
           /\ ep.host \in HostsIn(Add(q, ep))
           /\ KeepsBut(q, Add(q, ep), {e.host : e \in Dropped(q, ep)})
           /\ Dropped(q, ep) \subseteq Endpoint
  <1> DEFINE fresh == [ep |-> ep, attempts |-> 0]
             i == Find(q, ep)
             t == IF Len(q) = QueueMax THEN Tail(q) ELSE q
  <1>1. /\ q \in Seq(StopEntry) /\ Len(q) \in Nat /\ Len(q) <= QueueMax
        /\ \A a, b \in 1 .. Len(q) : q[a].ep = q[b].ep => a = b
        /\ QueueMax \in Nat /\ QueueMax > 0
    BY LenProperties, QueueMaxAssumption DEF WellFormed
  <1>2. fresh \in StopEntry /\ fresh.ep = ep
    BY DeviceAssumption DEF StopEntry
  <1>3. /\ i # 0 => Add(q, ep) = [q EXCEPT ![i] = fresh] /\ Dropped(q, ep) = {}
        /\ i = 0 => /\ Add(q, ep) = Append(t, fresh)
                    /\ Dropped(q, ep) = IF Len(q) = QueueMax THEN {q[1].ep} ELSE {}
    BY DEF Add, Dropped, ReplaceAt
  <1> HIDE DEF fresh
  <1>4. CASE i \in 1 .. Len(q) /\ q[i].ep = ep
    <2> DEFINE r == [q EXCEPT ![i] = fresh]
    <2> HIDE DEF i
    <2>1. /\ r \in Seq(StopEntry) /\ Len(r) = Len(q)
          /\ \A j \in 1 .. Len(q) : r[j] = IF j = i THEN fresh ELSE q[j]
      BY <1>1, <1>2, <1>4, ExceptSeq
    <2>2. i # 0
      BY <1>1, <1>4
    <2> HIDE DEF r
    <2>3. \A j \in 1 .. Len(q) : r[j].ep = q[j].ep
      BY <1>2, <1>4, <2>1
    <2>4. WellFormed(r)
      BY <1>1, <2>1, <2>3 DEF WellFormed
    <2>5. ep.host \in HostsIn(r) /\ \A h \in HostsIn(q) : h \in HostsIn(r)
      BY <1>1, <1>4, <2>1, <2>3, HostsAreIndexed
    <2> QED
      BY <1>3, <2>2, <2>4, <2>5 DEF KeepsBut, r
  <1>5. CASE i = 0 /\ \A j \in 1 .. Len(q) : q[j].ep # ep
    <2> DEFINE r == Append(t, fresh)
    <2> HIDE DEF i
    <2>1. /\ t \in Seq(StopEntry) /\ Len(t) \in Nat /\ Len(t) < QueueMax
          /\ \E k \in {0, 1} :
                /\ Len(t) = Len(q) - k /\ k = (IF Len(q) = QueueMax THEN 1 ELSE 0)
                /\ \A j \in 1 .. Len(t) : t[j] = q[j + k]
      <3>1. CASE Len(q) = QueueMax
        <4>1. q # << >>
          BY <1>1, <3>1, EmptySeq
        <4>2. /\ Tail(q) \in Seq(StopEntry) /\ Len(Tail(q)) = Len(q) - 1
              /\ \A j \in 1 .. Len(Tail(q)) : Tail(q)[j] = q[j + 1]
          BY <1>1, <4>1, HeadTailProperties
        <4> QED
          BY <1>1, <3>1, <4>2
      <3>2. CASE Len(q) # QueueMax
        <4>1. t = q /\ \A j \in 1 .. Len(q) : q[j] = q[j + 0]
          BY <1>1, <3>2
        <4> QED
          BY <1>1, <3>2, <4>1
      <3> QED
        BY <3>1, <3>2
    <2> HIDE DEF t
    <2>2. /\ r \in Seq(StopEntry) /\ Len(r) = Len(t) + 1
          /\ \A j \in 1 .. Len(t) : r[j] = t[j]
          /\ r[Len(t) + 1] = fresh
      BY <1>2, <2>1, AppendProperties
    <2> HIDE DEF r
    <2>3. PICK k \in {0, 1} : /\ Len(t) = Len(q) - k
                              /\ k = (IF Len(q) = QueueMax THEN 1 ELSE 0)
                              /\ \A j \in 1 .. Len(t) : t[j] = q[j + k]
      BY <2>1
    <2>4. ASSUME NEW a \in 1 .. Len(r), NEW b \in 1 .. Len(r), r[a].ep = r[b].ep
          PROVE  a = b
      <3>1. ASSUME NEW c \in 1 .. Len(t)
            PROVE  c + k \in 1 .. Len(q) /\ r[c] = q[c + k] /\ r[c].ep # ep
        <4>1. Len(q) \in Nat
          BY <1>1
        <4>2. c + k \in 1 .. Len(q)
          BY <2>3, <4>1
        <4>3. r[c] = t[c] /\ t[c] = q[c + k]
          BY <2>2, <2>3
        <4> QED
          BY <1>5, <2>1, <4>2, <4>3
      <3>2. r[Len(t) + 1].ep = ep
        BY <1>2, <2>2
      <3>0. Len(t) \in Nat /\ Len(r) = Len(t) + 1 /\ a \in 1 .. Len(r) /\ b \in 1 .. Len(r)
        BY <2>1, <2>2
      <3>3. CASE a \in 1 .. Len(t) /\ b \in 1 .. Len(t)
        <4>1. a + k = b + k
          BY <1>1, <2>4, <3>1, <3>3
        <4> QED
          BY <4>1, <2>1, <3>3
      <3>4. CASE ~(a \in 1 .. Len(t) /\ b \in 1 .. Len(t))
        <4>1. \A c \in 1 .. Len(r) : c \in 1 .. Len(t) \/ c = Len(t) + 1
          BY <3>0
        <4>2. r[a].ep = r[b].ep
          BY <2>4
        <4> QED
          BY <3>0, <3>1, <3>2, <3>4, <4>1, <4>2
      <3> QED
        BY <3>3, <3>4
    <2>5. WellFormed(r)
      BY <1>1, <2>1, <2>2, <2>4 DEF WellFormed
    <2>6. ep.host \in HostsIn(r)
      BY <1>2, <2>1, <2>2, HostsAreIndexed
    <2>7. ASSUME NEW h \in HostsIn(q), ~(h \in HostsIn(r))
          PROVE  Len(q) = QueueMax /\ h = q[1].ep.host
      <3>1. PICK c \in 1 .. Len(q) : q[c].ep.host = h
        BY <1>1, HostsAreIndexed
      <3>2. \A j \in 1 .. Len(t) : q[j + k].ep.host # h
        <4>1. \A j \in 1 .. Len(r) : r[j].ep.host # h
          BY <2>2, <2>7, HostsAreIndexed
        <4>2. Len(t) \in Nat /\ Len(r) = Len(t) + 1
          BY <2>1, <2>2
        <4>3. \A j \in 1 .. Len(t) : r[j] = q[j + k]
          BY <2>2, <2>3
        <4> QED
          BY <4>1, <4>2, <4>3
      <3>3. ~(c - k \in 1 .. Len(t))
        <4>1. (c - k) + k = c
          BY <1>1
        <4> QED
          BY <3>1, <3>2, <4>1
      <3> QED
        BY <1>1, <2>3, <3>1, <3>3
    <2>8. Len(q) = QueueMax => q[1] \in StopEntry
      BY <1>1, ElementOfSeq
    <2> QED
      BY <1>3, <1>5, <2>5, <2>6, <2>7, <2>8 DEF KeepsBut, r, StopEntry
  <1> QED
    BY <1>1, <1>4, <1>5, FindFinds

-----------------------------------------------------------------------------
(* Who may move.  With every window closed, c64_update and the worker never *)
(* are in the middle of what they share.                                    *)

USE DEF vars, ui, config, worker, flight, handover, devices, bounds

LEMMA WorkerAlone ==
    ASSUME Windows = {}, TypeOK, NEW pc, WorkerAt(pc)
    PROVE  workerPc = pc /\ uiPc = "idle"
  BY DEF WorkerAt, UpdateClosed, TypeOK

LEMMA UpdateAlone ==
    ASSUME Windows = {}, ~WorkerClosed
    PROVE  workerPc \notin Taking
  BY DEF WorkerClosed, Taking

LEMMA QueueIsWellFormed ==
    ASSUME TypeOK, NoDuplicateStops
    PROVE  WellFormed(pending_stops) /\ Len(pending_stops) \in Nat
  <1>1. pending_stops \in Seq(StopEntry)
    BY DEF TypeOK, StopEntry
  <1> QED
    BY <1>1, LenProperties DEF TypeOK, WellFormed, NoDuplicateStops

(* One more failed attempt: the entry stays, or its host is given up on.    *)
LEMMA StopFailsKeeps ==
    ASSUME TypeOK, NoDuplicateStops, index \in 1 .. Len(pending_stops), StopFails
    PROVE  /\ WellFormed(pending_stops')
           /\ index' \in 1 .. QueueMax + 1
           /\ lost \subseteq lost' /\ lost' \subseteq Hosts
           /\ KeepsBut(pending_stops, pending_stops', lost')
  <1>1. WellFormed(pending_stops) /\ Len(pending_stops) \in Nat
        /\ Len(pending_stops) <= QueueMax /\ QueueMax \in Nat
    BY QueueIsWellFormed, QueueMaxAssumption DEF WellFormed
  <1>2. pending_stops[index].ep.host \in Hosts
    <2>1. pending_stops[index] \in StopEntry
      BY <1>1, ElementOfSeq DEF WellFormed
    <2> QED
      BY <2>1 DEF StopEntry, Endpoint
  <1>3. lost \subseteq Hosts
    BY DEF TypeOK
  <1>4. CASE GivesUp(pending_stops, index, MaxAttempts)
    <2>1. /\ pending_stops' = RemoveAt(pending_stops, index)
          /\ lost' = lost \cup {pending_stops[index].ep.host} /\ index' = index
      BY <1>4 DEF StopFails, Entry
    <2> QED
      BY <1>1, <1>2, <1>3, <2>1, RemoveKeeps DEF KeepsBut
  <1>5. CASE ~GivesUp(pending_stops, index, MaxAttempts)
    <2>1. /\ pending_stops' = Failed(pending_stops, index)
          /\ lost' = lost /\ index' = index + 1
      BY <1>5 DEF StopFails
    <2> QED
      BY <1>1, <1>3, <1>5, <2>1, FailKeeps DEF KeepsBut
  <1> QED
    BY <1>4, <1>5

(* What one step does to the stop queue: it stays well formed, and a host   *)
(* leaves it only given up on or dropped, told to stop, or selected again.  *)
LEMMA QueueMoves ==
    ASSUME Windows = {}, TypeOK, NoDuplicateStops, WorkerPlace, [Next]_vars
    PROVE  /\ WellFormed(pending_stops')
           /\ index' \in 1 .. QueueMax + 1
           /\ lost' \subseteq Hosts
           /\ \A h \in HostsIn(pending_stops) :
                 \/ h \in HostsIn(pending_stops') \/ h \in lost'
                 \/ (TakeCancel \/ ScanSelected) /\ h = ip_address.host
                 \/ SendStop /\ h \notin sending'
  <1>1. /\ WellFormed(pending_stops) /\ Len(pending_stops) \in Nat
        /\ Len(pending_stops) <= QueueMax /\ QueueMax \in Nat
    BY QueueIsWellFormed, QueueMaxAssumption DEF WellFormed
  <1>2. lost \subseteq Hosts /\ index \in 1 .. QueueMax + 1
        /\ started \in Endpoint /\ ip_address \in Endpoint /\ rest_client \in Hosts
    BY DEF TypeOK
  <1>3. started.host \in Hosts /\ Target(ip_address) \in Hosts
    BY <1>2 DEF Endpoint, Target
  <1>4. CASE TakeTransition
    <2>1. CASE device_transition.host = NoHost
      BY <1>1, <1>2, <1>4, <2>1 DEF TakeTransition
    <2>2. CASE device_transition.host # NoHost
      <3>1. device_transition \in Endpoint
        BY <2>2 DEF TypeOK, NoEndpoint
      <3>2. /\ pending_stops' = Add(pending_stops, device_transition)
            /\ lost' = lost \cup {e.host : e \in Dropped(pending_stops, device_transition)}
            /\ index' = index
        BY <1>4, <2>2 DEF TakeTransition
      <3>3. \A e \in Dropped(pending_stops, device_transition) : e.host \in Hosts
        <4>1. Dropped(pending_stops, device_transition) \subseteq Endpoint
          BY <1>1, <3>1, AddKeeps
        <4> QED
          BY <4>1 DEF Endpoint
      <3> QED
        BY <1>1, <1>2, <3>1, <3>2, <3>3, AddKeeps DEF KeepsBut
    <2> QED
      BY <2>1, <2>2
  <1>5. CASE TakeCancel
    <2>1. pending_stops' = Cancel(pending_stops, ip_address) /\ index' = index /\ lost' = lost
      BY <1>5 DEF TakeCancel
    <2> QED
      BY <1>1, <1>2, <1>5, <2>1, CancelKeeps DEF KeepsBut
  <1>6. CASE ScanSelected
    <2>1. /\ pending_stops' = RemoveAt(pending_stops, index) /\ index' = index /\ lost' = lost
          /\ index \in 1 .. Len(pending_stops)
          /\ pending_stops[index].ep.host = ip_address.host
      BY <1>1, <1>2, <1>6 DEF ScanSelected, ScanEntry, Entry
    <2> QED
      BY <1>1, <1>2, <1>6, <2>1, RemoveKeeps DEF KeepsBut
  <1>7. CASE SendStop
    <2>1. /\ pending_stops' = RemoveAt(pending_stops, index) /\ index' = index /\ lost' = lost
          /\ index \in 1 .. Len(pending_stops)
          /\ sending' = sending \ {pending_stops[index].ep.host}
      BY <1>1, <1>2, <1>7, WorkerAlone DEF SendStop, Entry, WorkerPlace
    <2> QED
      BY <1>1, <1>2, <1>7, <2>1, RemoveKeeps DEF KeepsBut
  <1>8. CASE ScanUnreachable \/ SendFails
    <2>1. index \in 1 .. Len(pending_stops) /\ StopFails
      BY <1>1, <1>2, <1>8, WorkerAlone DEF ScanUnreachable, ScanEntry, SendFails, WorkerPlace
    <2> QED
      BY <2>1, StopFailsKeeps DEF KeepsBut
  <1>9. CASE Hold
    BY <1>1, <1>2, <1>9 DEF Hold
  <1>10. CASE /\ pending_stops' = pending_stops /\ index' = index
              /\ lost' \subseteq lost \cup {started.host, Target(ip_address)}
    BY <1>1, <1>2, <1>3, <1>10
  <1>11. CASE StartStep
    BY <1>10, <1>11
    DEF StartStep, RaiseInFlight, ReadEndpoint, StartUnreachable, StartReachable,
        DestFails, StartFirst, JoinReceivers,
        CreateSockets, SocketsFail, VideoAccepted, StartVideo, StartAudio,
        StartFails, Abort, ClearInFlight
  <1>12. CASE StopStep
    BY <1>6, <1>7, <1>8, <1>9, <1>10, <1>12
    DEF StopStep, ScanEnds, ScanReachable, SendYields
  <1>13. CASE WorkerStep
    BY <1>4, <1>5, <1>10, <1>11, <1>12, <1>13
    DEF WorkerStep, Wake, Rebuild, TakeNothing, TakePending, TakeRetarget,
        Snapshot, Resend, ResendFails, Repeat, RepeatStops, Sleep
  <1>14. CASE \/ \E ep \in Endpoint : UpdateTest(ep)
              \/ UpdateStep \/ FirstPacket \/ HoldExpires \/ Stall
              \/ \E h \in Hosts : Unplug(h) \/ Plug(h)
              \/ UNCHANGED vars
    BY <1>10, <1>14
    DEF UpdateTest, UpdateStep, UpdateRecord, UpdatePend, UpdateWrite,
        UpdateSchedule, FirstPacket, HoldExpires, Stall, Unplug, Plug
  <1> QED
    BY <1>13, <1>14 DEF Next

-----------------------------------------------------------------------------
(* The parts of the invariant, one after the other.                         *)

Flags ==
    /\ streaming \in BOOLEAN /\ stream_start_in_flight \in BOOLEAN
    /\ udp_port_conflict \in BOOLEAN
    /\ rest_rebuild_pending \in BOOLEAN /\ retry_requested \in BOOLEAN
    /\ hold_over \in BOOLEAN /\ device_transition_pending \in BOOLEAN
    /\ needs_transition \in BOOLEAN /\ switching_device \in BOOLEAN

Places ==
    /\ uiPc \in {"idle", "record", "pend", "write", "schedule"}
    /\ workerPc \in {"idle", "rebuild", "take", "taken", "cleared", "cancel",
                     "snapshot", "resend", "raise", "read", "reach", "first",
                     "join", "recycle", "sockets", "video", "audio", "abort",
                     "landed", "hold", "scan", "send", "loop"}
    /\ transport \in Transports

Endpoints ==
    /\ ip_address \in Endpoint /\ old \in Endpoint /\ new \in Endpoint
    /\ started \in Endpoint
    /\ device_transition \in Endpoint \cup {NoEndpoint}
    /\ handover_peer \in Hosts \cup {NoHost}
    /\ rest_client \in Hosts
    /\ sending \subseteq Hosts /\ reachable \subseteq Hosts

LEMMA TypeParts ==
    ASSUME TypeOK PROVE Flags /\ Places /\ Endpoints
  <1>1. Flags
    BY Zenon DEF TypeOK, Flags
  <1>2. Places
    BY DEF TypeOK, Places
  <1>3. Endpoints
    BY DEF TypeOK, Endpoints
  <1> QED
    BY <1>1, <1>2, <1>3

LEMMA PlacesKept ==
    ASSUME Places, [Next]_vars PROVE Places'
  <1>1. CASE StartStep
    BY <1>1 DEF Places, StartStep, RaiseInFlight, ReadEndpoint, StartUnreachable,
        StartReachable, DestFails, StartFirst, JoinReceivers,
        CreateSockets, SocketsFail, VideoAccepted, StartVideo, StartAudio,
        StartFails, Abort, ClearInFlight
  <1>2. CASE StopStep
    BY <1>2 DEF Places, StopStep, Hold, ScanEnds, ScanSelected, ScanUnreachable,
        ScanReachable, SendYields, SendStop, SendFails
  <1>3. CASE WorkerStep
    BY <1>1, <1>2, <1>3 DEF Places, WorkerStep, Wake, Rebuild, TakeNothing,
        TakeTransition, TakePending, TakeRetarget, TakeCancel, Snapshot, Resend, ResendFails,
        Repeat, RepeatStops, Sleep
  <1>4. CASE (\E ep \in Endpoint : UpdateTest(ep)) \/ UpdateStep
    BY <1>4 DEF Places, UpdateTest, UpdateStep, UpdateRecord, UpdatePend,
        UpdateWrite, UpdateSchedule
  <1>5. CASE \/ FirstPacket \/ HoldExpires \/ Stall
             \/ \E h \in Hosts : Unplug(h) \/ Plug(h)
             \/ UNCHANGED vars
    BY <1>5 DEF Places, FirstPacket, HoldExpires, Stall, Unplug, Plug
  <1> QED
    BY <1>3, <1>4, <1>5 DEF Next

LEMMA FlagsKept ==
    ASSUME Flags, [Next]_vars PROVE Flags'
  <1>1. CASE StartStep
    <2>1. CASE RaiseInFlight \/ ReadEndpoint
      BY <2>1, Zenon DEF Flags, RaiseInFlight, ReadEndpoint
    <2>2. CASE StartUnreachable \/ StartReachable
      BY <2>2, Zenon DEF Flags, StartUnreachable, StartReachable
    <2>3. CASE StartVideo \/ StartAudio
      BY <2>3, Zenon DEF Flags, StartVideo, StartAudio
    <2>6. CASE DestFails \/ StartFirst
      BY <2>6, Zenon DEF Flags, DestFails, StartFirst
    <2>7. CASE JoinReceivers
      BY <2>7, Zenon DEF Flags, JoinReceivers
    <2>8. CASE CreateSockets
      <3>1. streaming' \in BOOLEAN
        BY <2>8, Zenon DEF CreateSockets
      <3> QED
        BY <2>8, <3>1, Zenon DEF Flags, CreateSockets
    <2>9. CASE SocketsFail
      BY <2>9, Zenon DEF Flags, SocketsFail
    <2>4. CASE StartFails \/ Abort
      BY <2>4, Zenon DEF Flags, StartFails, Abort
    <2>5. CASE ClearInFlight
      BY <2>5, Zenon DEF Flags, ClearInFlight
    <2> QED
      BY <1>1, <2>1, <2>2, <2>3, <2>4, <2>5, <2>6, <2>7, <2>8, <2>9 DEF StartStep
  <1>2. CASE StopStep
    <2>1. CASE Hold \/ ScanEnds
      BY <2>1, Zenon DEF Flags, Hold, ScanEnds
    <2>4. CASE ScanSelected \/ ScanUnreachable
      BY <2>4, Zenon DEF Flags, ScanSelected, ScanUnreachable
    <2>2. CASE ScanReachable \/ SendYields
      BY <2>2, Zenon DEF Flags, ScanReachable, SendYields
    <2>3. CASE SendStop \/ SendFails
      BY <2>3, Zenon DEF Flags, SendStop, SendFails
    <2> QED
      BY <1>2, <2>1, <2>2, <2>3, <2>4 DEF StopStep
  <1>3. CASE WorkerStep
    <2>1. CASE Wake \/ Rebuild
      BY <2>1, Zenon DEF Flags, Wake, Rebuild
    <2>2. CASE TakeNothing \/ TakeTransition
      BY <2>2, Zenon DEF Flags, TakeNothing, TakeTransition
    <2>3. CASE TakePending \/ TakeRetarget
      BY <2>3, Zenon DEF Flags, TakePending, TakeRetarget
    <2>4. CASE TakeCancel \/ Snapshot
      BY <2>4, Zenon DEF Flags, TakeCancel, Snapshot
    <2>5. CASE Resend \/ ResendFails
      BY <2>5, Zenon DEF Flags, Resend, ResendFails
    <2>7. CASE Repeat
      BY <2>7, Zenon DEF Flags, Repeat
    <2>6. CASE RepeatStops \/ Sleep
      BY <2>6, Zenon DEF Flags, RepeatStops, Sleep
    <2> QED
      BY <1>1, <1>2, <1>3, <2>1, <2>2, <2>3, <2>4, <2>5, <2>6, <2>7 DEF WorkerStep
  <1>4. CASE (\E ep \in Endpoint : UpdateTest(ep)) \/ UpdateStep
    <2>1. CASE \E ep \in Endpoint : UpdateTest(ep)
      BY <2>1, Zenon DEF Flags, UpdateTest
    <2>2. CASE UpdateRecord \/ UpdatePend
      BY <2>2, Zenon DEF Flags, UpdateRecord, UpdatePend
    <2>3. CASE UpdateWrite \/ UpdateSchedule
      BY <2>3, Zenon DEF Flags, UpdateWrite, UpdateSchedule
    <2> QED
      BY <1>4, <2>1, <2>2, <2>3 DEF UpdateStep
  <1>5. CASE \/ FirstPacket \/ HoldExpires \/ Stall
             \/ \E h \in Hosts : Unplug(h) \/ Plug(h)
             \/ UNCHANGED vars
    <2>1. CASE FirstPacket \/ HoldExpires \/ Stall
      BY <2>1, Zenon DEF Flags, FirstPacket, HoldExpires, Stall
    <2>2. CASE \E h \in Hosts : Unplug(h) \/ Plug(h)
      BY <2>2, Zenon DEF Flags, Unplug, Plug
    <2>3. CASE UNCHANGED vars
      BY <2>3, Zenon DEF Flags
    <2> QED
      BY <1>5, <2>1, <2>2, <2>3
  <1> QED
    BY <1>3, <1>4, <1>5 DEF Next

LEMMA EndpointsKept ==
    ASSUME Endpoints, [Next]_vars PROVE Endpoints'
  <1>1. Target(started) \in Hosts /\ old.host \in Hosts
    BY DEF Endpoints, Target, Endpoint
  <1>2. CASE StartStep
    BY <1>1, <1>2 DEF Endpoints, StartStep, RaiseInFlight, ReadEndpoint,
        StartUnreachable, StartReachable, DestFails, StartFirst, JoinReceivers,
        CreateSockets, SocketsFail, VideoAccepted, StartVideo, StartAudio, StartFails,
        Abort, ClearInFlight
  <1>3. CASE StopStep
    BY <1>3 DEF Endpoints, StopStep, Hold, ScanEnds, ScanSelected, ScanUnreachable,
        ScanReachable, SendYields, SendStop, SendFails
  <1>4. CASE WorkerStep
    <2>1. ip_address.host \in Hosts
      BY DEF Endpoints, Endpoint
    <2> QED
      BY <1>1, <1>2, <1>3, <1>4, <2>1 DEF Endpoints, WorkerStep, Wake, Rebuild,
          TakeNothing, TakeTransition, TakePending, TakeRetarget, TakeCancel,
          Snapshot, Resend, ResendFails, Repeat, RepeatStops, Sleep
  <1>5. CASE (\E ep \in Endpoint : UpdateTest(ep)) \/ UpdateStep
    BY <1>1, <1>5 DEF Endpoints, UpdateTest, UpdateStep, UpdateRecord, UpdatePend,
        UpdateWrite, UpdateSchedule
  <1>6. CASE \/ FirstPacket \/ HoldExpires \/ Stall
             \/ \E h \in Hosts : Unplug(h) \/ Plug(h)
             \/ UNCHANGED vars
    BY <1>6 DEF Endpoints, FirstPacket, HoldExpires, Stall, Unplug, Plug
  <1> QED
    BY <1>4, <1>5, <1>6 DEF Next

LEMMA TypeKept ==
    ASSUME Windows = {}, TypeOK, NoDuplicateStops, WorkerPlace, [Next]_vars
    PROVE  TypeOK' /\ NoDuplicateStops'
  <1>1. /\ WellFormed(pending_stops') /\ index' \in 1 .. QueueMax + 1
        /\ lost' \subseteq Hosts
    BY QueueMoves
  <1>2. /\ pending_stops' \in Seq([ep : Endpoint, attempts : 0 .. MaxAttempts - 1])
        /\ Len(pending_stops') <= QueueMax
        /\ NoDuplicateStops'
    BY <1>1, LenProperties DEF WellFormed, StopEntry, NoDuplicateStops
  <1>3. Flags' /\ Places' /\ Endpoints'
    BY TypeParts, FlagsKept, PlacesKept, EndpointsKept
  <1>4. {streaming, stream_start_in_flight, rest_rebuild_pending, udp_port_conflict,
         retry_requested, hold_over, device_transition_pending, needs_transition,
         switching_device}' \subseteq BOOLEAN
    BY <1>3, Zenon DEF Flags
  <1> QED
    BY <1>1, <1>2, <1>3, <1>4 DEF TypeOK, Places, Endpoints

LEMMA PlaceKept ==
    ASSUME Windows = {}, TypeOK, NoDuplicateStops, WorkerPlace, [Next]_vars
    PROVE  WorkerPlace'
  <1>1. /\ pending_stops \in Seq(StopEntry) /\ Len(pending_stops) \in Nat
        /\ index \in Nat
    BY QueueIsWellFormed DEF TypeOK, WellFormed
  <1>2. CASE StartStep
    BY <1>2 DEF WorkerPlace, WorkerAt,
        StartStep, RaiseInFlight, ReadEndpoint, StartUnreachable, StartReachable,
        DestFails, StartFirst, JoinReceivers,
        CreateSockets, SocketsFail, VideoAccepted, StartVideo, StartAudio,
        StartFails, Abort, ClearInFlight
  <1>3. CASE StopStep
    BY <1>3 DEF WorkerPlace, WorkerAt,
        StopStep, Hold, ScanEnds, ScanSelected, ScanUnreachable, ScanReachable,
        ScanEntry, SendYields, SendStop, SendFails
  <1>4. CASE WorkerStep
    BY <1>2, <1>3, <1>4 DEF WorkerPlace, WorkerAt,
        WorkerStep, Wake, Rebuild, TakeNothing, TakeTransition, TakePending,
        TakeRetarget, TakeCancel, Snapshot, Resend, ResendFails, Repeat, RepeatStops, Sleep
  <1>5. CASE \/ \E ep \in Endpoint : UpdateTest(ep)
             \/ UpdateStep
             \/ FirstPacket \/ HoldExpires \/ Stall
             \/ \E h \in Hosts : Unplug(h) \/ Plug(h)
             \/ UNCHANGED vars
    BY <1>5 DEF WorkerPlace,
        UpdateTest, UpdateStep, UpdateRecord, UpdatePend, UpdateWrite,
        UpdateSchedule, FirstPacket, HoldExpires, Stall, Unplug, Plug
  <1> QED
    BY <1>4, <1>5 DEF Next

(* A worker step that c64_update may observe changes neither the endpoint   *)
(* nor the transition; and while it works for a start, one flag is up.      *)
LEMMA UpdateKept ==
    ASSUME Windows = {}, TypeOK, TypeOK', UpdateOnCourse, [Next]_vars
    PROVE  UpdateOnCourse'
  <1>1. ASSUME uiPc = "idle", uiPc' = "idle"
        PROVE  UpdateOnCourse'
    BY <1>1 DEF UpdateOnCourse
  <1>2. CASE \E ep \in Endpoint : UpdateTest(ep)
    <2>1. workerPc \notin Taking
      BY <1>2, UpdateAlone DEF UpdateTest
    <2> QED
      BY <1>2, <2>1 DEF UpdateTest, UpdateOnCourse, TypeOK
  <1>3. CASE UpdateStep
    BY <1>3 DEF UpdateOnCourse, TypeOK,
        UpdateStep, UpdateRecord, UpdatePend, UpdateWrite, UpdateSchedule
  <1>4. CASE WorkerStep
    <2>1. uiPc = "idle"
      BY <1>4 DEF WorkerStep, StartStep, StopStep, RaiseInFlight, ReadEndpoint,
          StartUnreachable, StartReachable, DestFails, StartFirst, JoinReceivers,
        CreateSockets, SocketsFail, VideoAccepted, StartVideo, StartAudio, StartFails,
          Abort, ClearInFlight, Hold, ScanEnds, ScanSelected, ScanUnreachable,
          ScanReachable, ScanEntry, SendYields, SendStop, SendFails, Wake, Rebuild,
          TakeNothing, TakeTransition, TakePending, TakeRetarget, TakeCancel,
          Snapshot, Resend, ResendFails, Repeat, RepeatStops, Sleep, WorkerAt, UpdateClosed, TypeOK
    <2>2. uiPc' = uiPc
      BY <1>4 DEF WorkerStep, StartStep, StopStep, RaiseInFlight, ReadEndpoint,
          StartUnreachable, StartReachable, DestFails, StartFirst, JoinReceivers,
        CreateSockets, SocketsFail, VideoAccepted, StartVideo, StartAudio, StartFails,
          Abort, ClearInFlight, Hold, ScanEnds, ScanSelected, ScanUnreachable,
          ScanReachable, ScanEntry, SendYields, SendStop, SendFails, Wake, Rebuild,
          TakeNothing, TakeTransition, TakePending, TakeRetarget, TakeCancel,
          Snapshot, Resend, ResendFails, Repeat, RepeatStops, Sleep
    <2> QED
      BY <1>1, <2>1, <2>2
  <1>5. CASE \/ FirstPacket \/ HoldExpires \/ Stall
             \/ \E h \in Hosts : Unplug(h) \/ Plug(h)
             \/ UNCHANGED vars
    BY <1>5 DEF UpdateOnCourse, FirstPacket, HoldExpires, Stall, Unplug, Plug
  <1> QED
    BY <1>2, <1>3, <1>4, <1>5 DEF Next

LEMMA TransitionKept ==
    ASSUME Windows = {}, TypeOK, NoDuplicateStops, UpdateOnCourse, TransitionTaken,
           [Next]_vars
    PROVE  TransitionTaken'
  <1>1. CASE StartStep
    BY <1>1, WorkerAlone DEF TransitionTaken, Taking, WorkerAt, StartStep, RaiseInFlight,
        ReadEndpoint, StartUnreachable, StartReachable, DestFails, StartFirst, JoinReceivers,
        CreateSockets, SocketsFail, VideoAccepted, StartVideo, StartAudio,
        StartFails, Abort, ClearInFlight
  <1>2. CASE StopStep
    BY <1>2, WorkerAlone DEF TransitionTaken, Taking, WorkerAt, StopStep, Hold, ScanEnds,
        ScanSelected, ScanUnreachable, ScanReachable, ScanEntry, SendYields,
        SendStop, SendFails
  <1>3. CASE TakeTransition
    <2>1. workerPc = "take" /\ device_transition_pending /\ workerPc' = "taken"
          /\ UNCHANGED config
      BY <1>3 DEF TakeTransition, WorkerAt
    <2>2. device_transition \in Endpoint /\ device_transition.host # NoHost
      BY <2>1, DeviceAssumption DEF TransitionTaken, Endpoint
    <2>3. pending_stops' = Add(pending_stops, device_transition)
      BY <1>3, <2>2 DEF TakeTransition
    <2>4. device_transition.host \in HostsIn(Add(pending_stops, device_transition))
      BY <2>2, AddKeeps, QueueIsWellFormed
    <2> QED
      BY <2>1, <2>2, <2>3, <2>4 DEF TransitionTaken, Taking, HostsIn
  <1>4. CASE \/ Wake \/ Rebuild \/ TakeNothing \/ TakePending \/ TakeRetarget
             \/ TakeCancel \/ Snapshot \/ Resend \/ ResendFails \/ Repeat \/ RepeatStops \/ Sleep
    BY <1>4 DEF TransitionTaken, Taking, WorkerAt, Wake, Rebuild, TakeNothing,
        TakePending, TakeRetarget, TakeCancel, Snapshot, Resend, ResendFails, Repeat,
        RepeatStops, Sleep
  <1>5. CASE \E ep \in Endpoint : UpdateTest(ep)
    BY <1>5 DEF TransitionTaken, UpdateTest
  <1>6. CASE UpdateStep
    <2>1. workerPc \notin Taking
      BY <1>6, UpdateAlone DEF UpdateStep
    <2> QED
      BY <1>6, <2>1 DEF TransitionTaken, UpdateOnCourse, TypeOK, Taking,
          UpdateStep, UpdateRecord, UpdatePend, UpdateWrite, UpdateSchedule
  <1>7. CASE \/ FirstPacket \/ HoldExpires \/ Stall
             \/ \E h \in Hosts : Unplug(h) \/ Plug(h)
             \/ UNCHANGED vars
    BY <1>7 DEF TransitionTaken, FirstPacket, HoldExpires, Stall, Unplug, Plug
  <1> QED
    BY <1>1, <1>2, <1>3, <1>4, <1>5, <1>6, <1>7 DEF Next, WorkerStep

(* Whatever the transport, a command of the worker reaches its own device.  *)
LEMMA TargetIsStarted ==
    ASSUME ServesOne, workerPc \in Serving
    PROVE  /\ Target(started) = started.host
           /\ ~device_transition_pending =>
                 started = ip_address /\ Target(ip_address) = ip_address.host
  BY DEF ServesOne, Target

LEMMA ServesKept ==
    ASSUME Windows = {}, TypeOK, UpdateOnCourse, TransitionTaken, ServesOne,
           ClientFollows, [Next]_vars
    PROVE  ServesOne'
  <1>1. CASE StartStep
    <2>1. CASE RaiseInFlight \/ ReadEndpoint
      BY <2>1 DEF ServesOne, TransitionTaken, ClientFollows, Serving, Starting, Taking,
          WorkerAt, RaiseInFlight, ReadEndpoint
    <2>2. CASE StartReachable
      <3>1. Target(started) = started.host
        BY <2>2, TargetIsStarted DEF StartReachable, WorkerAt, Serving, Starting
      <3> QED
        BY <2>2, <3>1 DEF ServesOne, Serving, Starting, WorkerAt, StartReachable
    <2>3. CASE StartUnreachable \/ DestFails \/ StartFirst \/ JoinReceivers
      BY <2>3 DEF ServesOne, Serving, Starting, WorkerAt, StartUnreachable, DestFails,
          StartFirst, VideoAccepted, JoinReceivers
    <2>4. CASE CreateSockets
      <3>1. workerPc = "recycle" \/ workerPc = "sockets"
        BY <2>4 DEF CreateSockets, WorkerAt
      <3>2. CASE workerPc = "recycle"
        <4>1. workerPc' = "audio" /\ streaming' = TRUE
          BY <2>4, <3>2 DEF CreateSockets
        <4> QED
          BY <2>4, <3>2, <4>1 DEF ServesOne, Serving, Starting, CreateSockets
      <3>3. CASE workerPc = "sockets"
        <4>1. workerPc' = "video"
          BY <2>4, <3>3 DEF CreateSockets
        <4>2. ~streaming'
          BY <2>4, <3>3 DEF CreateSockets
        <4> QED
          BY <2>4, <3>3, <4>1, <4>2 DEF ServesOne, Serving, Starting, CreateSockets
      <3> QED
        BY <3>1, <3>2, <3>3
    <2>6. CASE SocketsFail
      BY <2>6 DEF ServesOne, Serving, Starting, WorkerAt, SocketsFail
    <2>7. CASE StartVideo \/ StartAudio
      BY <2>7 DEF ServesOne, Serving, Starting, WorkerAt, StartVideo, VideoAccepted,
          StartAudio
    <2>5. CASE StartFails \/ Abort \/ ClearInFlight
      BY <2>5 DEF ServesOne, Serving, Starting, WorkerAt, StartFails, Abort, ClearInFlight
    <2> QED
      BY <1>1, <2>1, <2>2, <2>3, <2>4, <2>5, <2>6, <2>7 DEF StartStep
  <1>2. CASE StopStep
    BY <1>2 DEF ServesOne, Serving, Starting, WorkerAt, StopStep, Hold, ScanEnds,
        ScanSelected, ScanUnreachable, ScanReachable, ScanEntry, SendYields,
        SendStop, SendFails
  <1>3. CASE \/ Wake \/ Rebuild \/ TakeNothing \/ TakeTransition \/ TakePending
             \/ TakeRetarget \/ TakeCancel \/ Snapshot \/ Resend \/ ResendFails
             \/ Repeat \/ RepeatStops \/ Sleep
    BY <1>3 DEF ServesOne, TransitionTaken, ClientFollows, Serving, Starting, Taking,
        WorkerAt, Wake, Rebuild, TakeNothing, TakeTransition, TakePending,
        TakeRetarget, TakeCancel, Snapshot, Resend, ResendFails, Repeat, RepeatStops, Sleep
  <1>4. CASE \E ep \in Endpoint : UpdateTest(ep)
    BY <1>4 DEF ServesOne, UpdateTest
  <1>5. CASE UpdateStep
    BY <1>5 DEF ServesOne, UpdateOnCourse, Serving, Starting, UpdateStep,
        UpdateRecord, UpdatePend, UpdateWrite, UpdateSchedule
  <1>6. CASE \/ FirstPacket \/ HoldExpires \/ Stall
             \/ \E h \in Hosts : Unplug(h) \/ Plug(h)
             \/ UNCHANGED vars
    BY <1>6 DEF ServesOne, FirstPacket, HoldExpires, Stall, Unplug, Plug
  <1> QED
    BY <1>1, <1>2, <1>3, <1>4, <1>5, <1>6 DEF Next, WorkerStep

LEMMA ClientKept ==
    ASSUME Windows = {}, TypeOK, UpdateOnCourse, TransitionTaken, ClientFollows,
           [Next]_vars
    PROVE  ClientFollows'
  <1>1. CASE StartStep
    BY <1>1 DEF ClientFollows, Taking, WorkerAt, StartStep, RaiseInFlight,
        ReadEndpoint, StartUnreachable, StartReachable, DestFails, StartFirst, JoinReceivers,
        CreateSockets, SocketsFail, VideoAccepted, StartVideo, StartAudio,
        StartFails, Abort, ClearInFlight
  <1>2. CASE StopStep
    BY <1>2 DEF ClientFollows, Taking, WorkerAt, StopStep, Hold, ScanEnds,
        ScanSelected, ScanUnreachable, ScanReachable, ScanEntry, SendYields,
        SendStop, SendFails
  <1>3. CASE \/ Wake \/ Rebuild \/ TakeNothing \/ TakeTransition \/ TakePending
             \/ TakeRetarget \/ TakeCancel \/ Snapshot \/ Resend \/ ResendFails
             \/ Repeat \/ RepeatStops \/ Sleep
    <2>1. uiPc = "idle"
      BY <1>3, WorkerAlone DEF Wake, Rebuild, TakeNothing, TakeTransition,
          TakePending, TakeRetarget, TakeCancel, Snapshot, Resend, ResendFails, Repeat,
          RepeatStops, Sleep
    <2> QED
      BY <1>3, <2>1 DEF ClientFollows, TransitionTaken, Taking, WorkerAt, Wake,
          Rebuild, TakeNothing, TakeTransition, TakePending, TakeRetarget,
          TakeCancel, Snapshot, Resend, ResendFails, Repeat, RepeatStops, Sleep
  <1>4. CASE \E ep \in Endpoint : UpdateTest(ep)
    BY <1>4 DEF ClientFollows, UpdateTest
  <1>5. CASE UpdateStep
    <2>1. workerPc \notin Taking
      BY <1>5, UpdateAlone DEF UpdateStep
    <2>2. CASE UpdateRecord \/ UpdatePend
      BY <2>1, <2>2 DEF ClientFollows, Taking, UpdateRecord, UpdatePend
    <2>3. CASE UpdateWrite
      BY <2>1, <2>3 DEF ClientFollows, UpdateOnCourse, Taking, UpdateWrite
    <2>4. CASE UpdateSchedule
      <3>1. /\ uiPc' = "idle" /\ workerPc' = workerPc /\ ip_address' = ip_address
            /\ rest_client' = rest_client
            /\ device_transition_pending' = device_transition_pending
            /\ rest_rebuild_pending => rest_rebuild_pending'
            /\ new.host # old.host /\ ~needs_transition => rest_rebuild_pending'
        BY <2>4 DEF UpdateSchedule
      <3>2. /\ uiPc = "schedule" /\ ip_address = new
            /\ needs_transition => device_transition_pending
        BY <2>4 DEF UpdateSchedule, UpdateOnCourse
      <3> QED
        BY <2>1, <3>1, <3>2 DEF ClientFollows, Taking
    <2> QED
      BY <1>5, <2>2, <2>3, <2>4 DEF UpdateStep
  <1>6. CASE \/ FirstPacket \/ HoldExpires \/ Stall
             \/ \E h \in Hosts : Unplug(h) \/ Plug(h)
             \/ UNCHANGED vars
    BY <1>6 DEF ClientFollows, FirstPacket, HoldExpires, Stall, Unplug, Plug
  <1> QED
    BY <1>1, <1>2, <1>3, <1>4, <1>5, <1>6 DEF Next, WorkerStep

LEMMA NothingNewerKept ==
    ASSUME Windows = {}, TypeOK, UpdateOnCourse, TransitionTaken, NothingNewer,
           [Next]_vars
    PROVE  NothingNewer'
  <1>1. CASE StartStep
    BY <1>1 DEF NothingNewer, TransitionTaken, Serving, Starting, Stopping, Taking,
        WorkerAt, StartStep, RaiseInFlight, ReadEndpoint, StartUnreachable,
        StartReachable, DestFails, StartFirst, JoinReceivers,
        CreateSockets, SocketsFail, VideoAccepted, StartVideo, StartAudio,
        StartFails, Abort, ClearInFlight
  <1>2. CASE StopStep
    BY <1>2 DEF NothingNewer, Serving, Starting, Stopping, Entry,
        WorkerAt, StopStep, Hold, ScanEnds, ScanSelected, ScanUnreachable,
        ScanReachable, ScanEntry, SendYields, SendStop, SendFails
  <1>3. CASE \/ Wake \/ Rebuild \/ TakeNothing \/ TakeTransition \/ TakePending
             \/ TakeRetarget \/ TakeCancel \/ Snapshot \/ Resend \/ ResendFails
             \/ Repeat \/ RepeatStops \/ Sleep
    BY <1>3 DEF NothingNewer, TransitionTaken, Serving, Starting, Stopping, Taking,
        WorkerAt, Wake, Rebuild, TakeNothing, TakeTransition, TakePending,
        TakeRetarget, TakeCancel, Snapshot, Resend, ResendFails, Repeat, RepeatStops, Sleep
  <1>4. CASE \E ep \in Endpoint : UpdateTest(ep)
    BY <1>4 DEF NothingNewer, UpdateTest
  <1>5. CASE UpdateStep
    BY <1>5 DEF NothingNewer, UpdateStep, UpdateRecord, UpdatePend, UpdateWrite,
        UpdateSchedule
  <1>6. CASE \/ FirstPacket \/ HoldExpires \/ Stall
             \/ \E h \in Hosts : Unplug(h) \/ Plug(h)
             \/ UNCHANGED vars
    BY <1>6 DEF NothingNewer, Entry, FirstPacket, HoldExpires, Stall, Unplug, Plug
  <1> QED
    BY <1>1, <1>2, <1>3, <1>4, <1>5, <1>6 DEF Next, WorkerStep

-----------------------------------------------------------------------------
(* The devices that send.  Each lemma singles out what one step may change. *)

LEMMA EndpointMoves ==
    ASSUME [Next]_vars
    PROVE  UpdateWrite \/ ip_address' = ip_address
  <1>1. CASE StartStep
    BY <1>1 DEF StartStep, RaiseInFlight, ReadEndpoint, StartUnreachable,
        StartReachable, DestFails, StartFirst, JoinReceivers,
        CreateSockets, SocketsFail, VideoAccepted, StartVideo, StartAudio,
        StartFails, Abort, ClearInFlight
  <1>2. CASE StopStep
    BY <1>2 DEF StopStep, Hold, ScanEnds, ScanSelected, ScanUnreachable,
        ScanReachable, SendYields, SendStop, SendFails
  <1>3. CASE WorkerStep
    BY <1>1, <1>2, <1>3 DEF WorkerStep, Wake, Rebuild, TakeNothing,
        TakeTransition, TakePending, TakeRetarget, TakeCancel, Snapshot, Resend, ResendFails,
        Repeat, RepeatStops, Sleep
  <1>4. CASE (\E ep \in Endpoint : UpdateTest(ep)) \/ UpdateStep
    BY <1>4 DEF UpdateTest, UpdateStep, UpdateRecord, UpdatePend, UpdateSchedule
  <1>5. CASE \/ FirstPacket \/ HoldExpires \/ Stall
             \/ \E h \in Hosts : Unplug(h) \/ Plug(h)
             \/ UNCHANGED vars
    BY <1>5 DEF FirstPacket, HoldExpires, Stall, Unplug, Plug
  <1> QED
    BY <1>3, <1>4, <1>5 DEF Next

(* Only a start makes a device send, and only a start takes one off `lost'. *)
LEMMA SendersMove ==
    ASSUME [Next]_vars, NEW h
    PROVE  /\ h \in sending' =>
                 h \in sending \/ ((Resend \/ StartFirst \/ StartVideo) /\ h = Target(started))
           /\ h \in lost => h \in lost' \/ ((StartFirst \/ StartVideo) /\ h = Target(started))
  <1>1. CASE StartStep
    BY <1>1 DEF StartStep, RaiseInFlight, ReadEndpoint, StartUnreachable,
        StartReachable, DestFails, StartFirst, JoinReceivers,
        CreateSockets, SocketsFail, VideoAccepted, StartVideo, StartAudio,
        StartFails, Abort, ClearInFlight
  <1>2. CASE StopStep
    BY <1>2 DEF StopStep, Hold, ScanEnds, ScanSelected, ScanUnreachable,
        ScanReachable, SendYields, SendStop, SendFails, StopFails
  <1>3. CASE TakeTransition
    BY <1>3 DEF TakeTransition
  <1>4. CASE Resend \/ ResendFails
    BY <1>4 DEF Resend, ResendFails
  <1>5. CASE WorkerStep
    BY <1>1, <1>2, <1>3, <1>4, <1>5 DEF WorkerStep, Wake, Rebuild, TakeNothing,
        TakePending, TakeRetarget, TakeCancel, Snapshot,
        Repeat, RepeatStops, Sleep
  <1>6. CASE (\E ep \in Endpoint : UpdateTest(ep)) \/ UpdateStep
    BY <1>6 DEF UpdateTest, UpdateStep, UpdateRecord, UpdatePend, UpdateWrite, UpdateSchedule
  <1>7. CASE \/ FirstPacket \/ HoldExpires \/ Stall
             \/ \E d \in Hosts : Unplug(d) \/ Plug(d)
             \/ UNCHANGED vars
    BY <1>7 DEF FirstPacket, HoldExpires, Stall, Unplug, Plug
  <1> QED
    BY <1>5, <1>6, <1>7 DEF Next

(* A recorded transition stands until the worker has queued its device.     *)
LEMMA RecordStands ==
    ASSUME UpdateOnCourse, TransitionTaken, [Next]_vars, device_transition_pending
    PROVE  \/ device_transition_pending' /\ device_transition' = device_transition
           \/ TakePending
  <1>1. CASE StartStep
    BY <1>1 DEF StartStep, RaiseInFlight, ReadEndpoint, StartUnreachable,
        StartReachable, DestFails, StartFirst, JoinReceivers,
        CreateSockets, SocketsFail, VideoAccepted, StartVideo, StartAudio,
        StartFails, Abort, ClearInFlight
  <1>2. CASE StopStep
    BY <1>2 DEF StopStep, Hold, ScanEnds, ScanSelected, ScanUnreachable,
        ScanReachable, SendYields, SendStop, SendFails
  <1>3. CASE TakeRetarget
    BY <1>3 DEF TakeRetarget, WorkerAt, TransitionTaken, Taking
  <1>4. CASE WorkerStep
    BY <1>1, <1>2, <1>3, <1>4 DEF WorkerStep, Wake, Rebuild, TakeNothing,
        TakeTransition, TakeCancel, Snapshot, Resend, ResendFails, Repeat, RepeatStops, Sleep
  <1>5. CASE (\E ep \in Endpoint : UpdateTest(ep)) \/ UpdateStep
    BY <1>5 DEF UpdateTest, UpdateStep, UpdateRecord, UpdatePend, UpdateWrite,
        UpdateSchedule, UpdateOnCourse
  <1>6. CASE \/ FirstPacket \/ HoldExpires \/ Stall
             \/ \E h \in Hosts : Unplug(h) \/ Plug(h)
             \/ UNCHANGED vars
    BY <1>6 DEF FirstPacket, HoldExpires, Stall, Unplug, Plug
  <1> QED
    BY <1>4, <1>5, <1>6 DEF Next

(* A device that goes on sending stays parked, unless it is started again or *)
(* selected again.                                                          *)
LEMMA ParkedStays ==
    ASSUME Windows = {}, TypeOK, NoDuplicateStops, WorkerPlace, UpdateOnCourse,
           TransitionTaken, ServesOne, [Next]_vars,
           NEW h, h \in sending', Parked(h)
    PROVE  \/ Parked(h)'
           \/ (StartFirst \/ StartVideo) /\ h = started.host
           \/ (TakeCancel \/ ScanSelected) /\ h = ip_address.host
  <1>1. CASE h \in lost
    <2>1. StartFirst \/ StartVideo => Target(started) = started.host
      BY TargetIsStarted DEF StartFirst, StartVideo, WorkerAt, Serving, Starting
    <2>2. h \in lost' \/ ((StartFirst \/ StartVideo) /\ h = Target(started))
      BY <1>1, SendersMove
    <2> QED
      BY <2>1, <2>2 DEF Parked
  <1>2. CASE h \in HostsIn(pending_stops)
    BY <1>2, QueueMoves DEF Parked
  <1>3. CASE device_transition_pending /\ device_transition.host = h
    <2>1. CASE device_transition_pending' /\ device_transition' = device_transition
      BY <1>3, <2>1 DEF Parked
    <2>2. CASE TakePending
      <3>1. h \in HostsIn(pending_stops) /\ pending_stops' = pending_stops
        BY <1>3, <2>2 DEF TakePending, WorkerAt, TransitionTaken
      <3> QED
        BY <3>1 DEF Parked
    <2> QED
      BY <1>3, <2>1, <2>2, RecordStands
  <1> QED
    BY <1>1, <1>2, <1>3 DEF Parked

(* What the worker starts is the selected device or the recorded one.       *)
LEMMA StartedIsKnown ==
    ASSUME ServesOne, Resend \/ StartFirst \/ StartVideo, NEW h, h = started.host
    PROVE  /\ h = ip_address'.host \/ Parked(h)'
           /\ device_transition_pending => Parked(h)'
  <1>1. /\ workerPc \in Serving /\ UNCHANGED config
    BY DEF Resend, StartFirst, StartVideo, WorkerAt, Serving, Starting
  <1>2. CASE device_transition_pending
    BY <1>1, <1>2 DEF ServesOne, Parked
  <1>3. CASE ~device_transition_pending
    BY <1>1, <1>3 DEF ServesOne
  <1> QED
    BY <1>2, <1>3

LEMMA SendersKept ==
    ASSUME Windows = {}, TypeOK, NoDuplicateStops, WorkerPlace, UpdateOnCourse,
           TransitionTaken, ServesOne, SelectedParked, SendersKnown, [Next]_vars
    PROVE  SendersKnown'
  <1> SUFFICES ASSUME NEW h, h \in sending'
               PROVE  h = ip_address'.host \/ Parked(h)'
    BY DEF SendersKnown
  <1>1. CASE UpdateWrite
    <2>1. workerPc \notin Taking /\ SelectedMayGo /\ uiPc = "write"
      BY <1>1 DEF UpdateOnCourse, UpdateWrite, SelectedMayGo
    <2>2. h \in sending
      BY <1>1 DEF UpdateWrite
    <2>3. Parked(h)
      BY <2>1, <2>2 DEF SendersKnown, SelectedParked
    <2> QED
      BY <1>1, <2>3 DEF Parked, UpdateWrite
  <1>2. CASE ip_address' = ip_address
    <2>1. CASE h \in sending
      <3>1. CASE h = ip_address.host
        BY <1>2, <3>1
      <3>2. CASE Parked(h) /\ h # ip_address.host
        <4>1. \/ Parked(h)'
              \/ (StartFirst \/ StartVideo) /\ h = started.host
              \/ (TakeCancel \/ ScanSelected) /\ h = ip_address.host
          BY <3>2, ParkedStays
        <4> QED
          BY <3>2, <4>1, StartedIsKnown
      <3> QED
        BY <2>1, <3>1, <3>2 DEF SendersKnown
    <2>2. CASE h \notin sending
      <3>1. (Resend \/ StartFirst \/ StartVideo) /\ h = Target(started)
        BY <2>2, SendersMove
      <3>2. Target(started) = started.host
        BY <3>1, TargetIsStarted DEF Resend, StartFirst, StartVideo, WorkerAt, Serving, Starting
      <3> QED
        BY <3>1, <3>2, StartedIsKnown
    <2> QED
      BY <2>1, <2>2
  <1> QED
    BY <1>1, <1>2, EndpointMoves

LEMMA FailedKept ==
    ASSUME Windows = {}, TypeOK, UpdateOnCourse, ServesOne, NothingNewer,
           FailedStartSilent, [Next]_vars
    PROVE  FailedStartSilent'
  <1> SUFFICES ASSUME uiPc' = "idle", ~retry_requested', ~streaming',
                      workerPc' \in {"landed"} \cup Stopping,
                      ip_address'.host \in sending'
               PROVE  ip_address'.host \in lost'
    BY DEF FailedStartSilent
  <1>1. CASE StartUnreachable \/ StartAudio \/ Abort
    <2>1. /\ workerPc \in Starting /\ uiPc = "idle" /\ ~retry_requested
          /\ UNCHANGED config
      BY <1>1 DEF StartUnreachable, StartAudio, Abort, WorkerAt, Starting
    <2>2. /\ ~device_transition_pending /\ started = ip_address
          /\ Target(ip_address) = ip_address.host
      BY <2>1, TargetIsStarted DEF NothingNewer, Serving
    <2> QED
      BY <1>1, <2>1, <2>2
      DEF StartUnreachable, StartAudio, Abort, WorkerAt, ServesOne
  <1>2. CASE \/ RaiseInFlight \/ ReadEndpoint \/ StartReachable \/ StartFirst
             \/ JoinReceivers \/ CreateSockets \/ StartVideo
             \/ StartFails \/ ClearInFlight
    BY <1>2 DEF RaiseInFlight, ReadEndpoint, StartReachable, StartFirst,
        JoinReceivers, CreateSockets, StartVideo, StartFails,
        ClearInFlight, WorkerAt, Stopping, FailedStartSilent
  <1>7. CASE DestFails \/ SocketsFail
    <2>1. /\ workerPc = "sockets" /\ ~switching_device
          /\ uiPc = "idle" /\ ~retry_requested /\ UNCHANGED <<config, sending>>
      BY <1>7 DEF DestFails, SocketsFail, WorkerAt, ServesOne
    <2>2. started = ip_address
      BY <2>1 DEF NothingNewer, Serving, Starting
    <2> QED
      BY <2>1, <2>2 DEF ServesOne
  <1>3. CASE StopStep
    <2>1. /\ workerPc \in Stopping /\ uiPc = "idle" /\ ~retry_requested /\ ~streaming
          /\ ip_address' = ip_address /\ sending' \subseteq sending
      BY <1>3 DEF StopStep, Hold, ScanEnds, ScanSelected, ScanUnreachable,
          ScanReachable, ScanEntry, SendYields, SendStop, SendFails, WorkerAt, Stopping
    <2>2. \A h \in lost : h \in lost'
      <3>1. ~StartFirst /\ ~StartVideo
        BY <2>1 DEF StartFirst, StartVideo, WorkerAt, Stopping
      <3> QED
        BY <3>1, SendersMove
    <2> QED
      BY <2>1, <2>2 DEF FailedStartSilent
  <1>4. CASE \/ Wake \/ Rebuild \/ TakeNothing \/ TakeTransition \/ TakePending
             \/ TakeRetarget \/ TakeCancel \/ Snapshot \/ Resend \/ ResendFails
             \/ Repeat \/ Sleep
    BY <1>4 DEF Wake, Rebuild, TakeNothing, TakeTransition, TakePending,
        TakeRetarget, TakeCancel, Snapshot, Resend, ResendFails, Repeat, Sleep,
        WorkerAt, Stopping, ServesOne
  <1>8. CASE RepeatStops
    BY <1>8 DEF RepeatStops, WorkerAt, Stopping, FailedStartSilent
  <1>5. CASE (\E ep \in Endpoint : UpdateTest(ep)) \/ UpdateStep
    BY <1>5 DEF UpdateTest, UpdateStep, UpdateRecord, UpdatePend, UpdateWrite,
        UpdateSchedule
  <1>6. CASE \/ FirstPacket \/ HoldExpires \/ Stall
             \/ \E h \in Hosts : Unplug(h) \/ Plug(h)
             \/ UNCHANGED vars
    BY <1>6 DEF FirstPacket, HoldExpires, Stall, Unplug, Plug, FailedStartSilent
  <1> QED
    BY <1>1, <1>2, <1>3, <1>4, <1>5, <1>6, <1>7, <1>8
    DEF Next, WorkerStep, StartStep

(* The heart of the matter: as long as a settings change may overwrite the  *)
(* selected endpoint without recording it, its device is silent or parked.  *)
LEMMA SelectedKept ==
    ASSUME Windows = {}, TypeOK, NoDuplicateStops, WorkerPlace, UpdateOnCourse,
           TransitionTaken, ServesOne, NothingNewer, FailedStartSilent,
           SendersKnown, SelectedParked, [Next]_vars
    PROVE  SelectedParked'
  <1>0. SUFFICES ASSUME SelectedMayGo', workerPc' \notin Taking \ {"take", "taken"},
                        NEW h, h = ip_address'.host, h \in sending'
                 PROVE  Parked(h)'
    BY DEF SelectedParked
  <1>1. CASE UpdateWrite
    <2>1. workerPc \notin Taking /\ SelectedMayGo /\ uiPc = "write"
      BY <1>1 DEF UpdateOnCourse, UpdateWrite, SelectedMayGo
    <2>2. h \in sending
      BY <1>0, <1>1 DEF UpdateWrite
    <2>3. Parked(h)
      BY <2>1, <2>2 DEF SendersKnown, SelectedParked
    <2> QED
      BY <1>1, <2>3 DEF Parked, UpdateWrite
  <1> DEFINE Before == /\ SelectedMayGo /\ workerPc \notin Taking \ {"take", "taken"}
                       /\ ip_address' = ip_address /\ sending' \subseteq sending
                       /\ ~StartFirst /\ ~StartVideo /\ ~TakeCancel
  <1>2. CASE Before /\ ~ScanSelected
    <2>1. Parked(h)
      BY <1>0, <1>2 DEF SelectedParked
    <2> QED
      BY <1>0, <1>2, <2>1, ParkedStays
  <1>3. CASE StartUnreachable \/ Abort
    <2>1. /\ workerPc \in Starting /\ ip_address' = ip_address
          /\ workerPc \in Serving
      BY <1>3 DEF StartUnreachable, Abort, WorkerAt, Starting, Serving
    <2>2. CASE device_transition_pending
      BY <1>2, <1>3, <2>1, <2>2
      DEF StartUnreachable, Abort, WorkerAt, SelectedMayGo, Taking, StartFirst, StartVideo,
          TakeCancel, ScanSelected, ScanEntry
    <2>3. CASE ~device_transition_pending
      <3>1. started = ip_address /\ Target(ip_address) = ip_address.host
        BY <2>1, <2>3, TargetIsStarted
      <3>2. h \in lost'
        BY <1>0, <1>3, <2>1, <3>1 DEF StartUnreachable, Abort
      <3> QED
        BY <3>2 DEF Parked
    <2> QED
      BY <2>2, <2>3
  <1>4. CASE StartFirst \/ StartVideo \/ Resend
    <2>1. /\ device_transition_pending /\ ip_address' = ip_address
          /\ workerPc \in Serving /\ workerPc \notin Taking
      BY <1>0, <1>4 DEF StartFirst, StartVideo, Resend, WorkerAt, ServesOne, SelectedMayGo,
          Serving, Starting, Taking
    <2>2. CASE h \in sending
      <3>1. Parked(h)
        BY <1>0, <2>1, <2>2 DEF SelectedParked, SelectedMayGo
      <3>2. ~TakeCancel /\ ~ScanSelected
        BY <2>1 DEF TakeCancel, ScanSelected, ScanEntry, WorkerAt, Serving, Starting
      <3>3. Parked(h)' \/ ((StartFirst \/ StartVideo) /\ h = started.host)
        BY <1>0, <3>1, <3>2, ParkedStays
      <3> QED
        BY <2>1, <3>3, StartedIsKnown
    <2>3. CASE h \notin sending
      <3>1. h = started.host
        BY <1>0, <2>1, <2>3, SendersMove, TargetIsStarted
      <3> QED
        BY <1>4, <2>1, <3>1, StartedIsKnown
    <2> QED
      BY <2>2, <2>3
  <1>5. CASE RaiseInFlight \/ ReadEndpoint
    BY <1>0, <1>5 DEF RaiseInFlight, ReadEndpoint, WorkerAt, SelectedMayGo, Taking,
        TransitionTaken, ServesOne
  <1>6. CASE \/ StartReachable \/ JoinReceivers \/ CreateSockets \/ StartAudio
             \/ StartFails \/ ClearInFlight
    <2>1. Before /\ ~ScanSelected
      BY <1>0, <1>6 DEF StartReachable, JoinReceivers, CreateSockets, StartAudio,
          StartFails, ClearInFlight, WorkerAt, SelectedMayGo, ServesOne, Starting,
          Taking, StartFirst, StartVideo, TakeCancel, ScanSelected, ScanEntry
    <2> QED
      BY <1>2, <2>1
  <1>13. CASE DestFails \/ SocketsFail
    <2>1. /\ workerPc \in {"first", "sockets"} /\ workerPc' = "landed"
          /\ UNCHANGED config /\ UNCHANGED devices
          /\ UNCHANGED <<streaming, stream_start_in_flight>>
          /\ ~switching_device \/ streaming
      BY <1>13 DEF DestFails, SocketsFail, WorkerAt, ServesOne
    <2>2. CASE device_transition_pending
      BY <1>2, <1>13, <2>1, <2>2
      DEF DestFails, SocketsFail, WorkerAt, SelectedMayGo, Taking, StartFirst,
          StartVideo, TakeCancel, ScanSelected, ScanEntry
    <2>3. CASE ~device_transition_pending
      <3>1. started = ip_address /\ ~streaming
        BY <1>0, <2>1, <2>3 DEF ServesOne, Serving, Starting, SelectedMayGo
      <3> QED
        BY <1>0, <2>1, <3>1 DEF ServesOne
    <2> QED
      BY <2>2, <2>3
  <1>7. CASE ScanSelected
    <2>1. /\ workerPc = "scan" /\ uiPc = "idle" /\ ~retry_requested
          /\ UNCHANGED config /\ UNCHANGED flight /\ UNCHANGED devices
          /\ workerPc' = workerPc
      BY <1>7, WorkerAlone DEF ScanSelected, ScanEntry
    <2>2. ~device_transition_pending
      BY <2>1 DEF NothingNewer, Stopping
    <2>3. ~streaming
      BY <1>0, <2>1, <2>2 DEF SelectedMayGo
    <2>4. h \in lost'
      BY <1>0, <2>1, <2>3 DEF FailedStartSilent, Stopping
    <2> QED
      BY <2>4 DEF Parked
  <1>8. CASE StopStep /\ ~ScanSelected
    <2>1. Before
      BY <1>0, <1>8 DEF StopStep, Hold, ScanEnds, ScanUnreachable,
          ScanReachable, ScanEntry, SendYields, SendStop, SendFails,
          WorkerAt, SelectedMayGo, Taking, StartFirst, StartVideo, TakeCancel
    <2> QED
      BY <1>2, <1>8, <2>1
  <1>9. CASE TakeNothing \/ TakePending \/ TakeRetarget \/ TakeCancel \/ Snapshot
    BY <1>0, <1>9 DEF TakeNothing, TakePending, TakeRetarget, TakeCancel, Snapshot,
        WorkerAt, Taking, SelectedMayGo, TransitionTaken
  <1>10. CASE \/ Wake \/ Rebuild \/ TakeTransition \/ ResendFails
              \/ Repeat \/ RepeatStops \/ Sleep
    <2>1. Before /\ ~ScanSelected
      BY <1>0, <1>10 DEF Wake, Rebuild, TakeTransition, ResendFails, Repeat,
          RepeatStops, Sleep, WorkerAt, SelectedMayGo, Taking, StartFirst, StartVideo,
          TakeCancel, ScanSelected, ScanEntry
    <2> QED
      BY <1>2, <2>1
  <1>11. CASE UpdatePend
    BY <1>0, <1>11 DEF UpdatePend, UpdateOnCourse, Parked
  <1>12. CASE \/ \E ep \in Endpoint : UpdateTest(ep)
              \/ UpdateRecord \/ UpdateSchedule
              \/ FirstPacket \/ HoldExpires \/ Stall
              \/ \E d \in Hosts : Unplug(d) \/ Plug(d)
              \/ UNCHANGED vars
    <2>1. /\ UNCHANGED <<workerPc, pending_stops, lost, streaming,
                        stream_start_in_flight>>
          /\ device_transition_pending' = device_transition_pending
          /\ ip_address' = ip_address /\ sending' \subseteq sending
          /\ UpdateRecord \/ device_transition' = device_transition
      BY <1>12 DEF UpdateTest, UpdateRecord, UpdateSchedule, FirstPacket,
          HoldExpires, Stall, Unplug, Plug
    <2>2. Parked(h)
      BY <1>0, <2>1 DEF SelectedParked, SelectedMayGo
    <2>3. device_transition_pending => device_transition' = device_transition
      BY <2>1 DEF UpdateRecord, UpdateOnCourse
    <2> QED
      BY <2>1, <2>2, <2>3 DEF Parked
  <1> QED
    BY <1>1, <1>3, <1>4, <1>5, <1>6, <1>7, <1>8, <1>9, <1>10, <1>11, <1>12,
       <1>13
    DEF Next, WorkerStep, StartStep, UpdateStep

-----------------------------------------------------------------------------
LEMMA InitHolds ==
    ASSUME Init PROVE IInv
  <1>1. TypeOK
    <2>1. Flags /\ Places
      BY DEF Init, Flags, Places
    <2>2. Endpoints
      BY DeviceAssumption DEF Init, Endpoints, Endpoint
    <2>3. /\ pending_stops \in Seq([ep : Endpoint, attempts : 0 .. MaxAttempts - 1])
          /\ Len(pending_stops) <= QueueMax /\ index \in 1 .. QueueMax + 1
          /\ lost \subseteq Hosts
      BY QueueMaxAssumption, EmptySeq DEF Init
    <2>4. {streaming, stream_start_in_flight, rest_rebuild_pending, udp_port_conflict,
           retry_requested, hold_over, device_transition_pending, needs_transition,
           switching_device} \subseteq BOOLEAN
      BY <2>1, Zenon DEF Flags
    <2> QED
      BY <2>1, <2>2, <2>3, <2>4 DEF TypeOK, Places, Endpoints
  <1>2. /\ sending = {} /\ pending_stops = << >> /\ lost = {}
        /\ uiPc = "idle" /\ workerPc = "idle" /\ retry_requested
        /\ device_transition_pending = FALSE /\ rest_client = ip_address.host
    BY DEF Init
  <1>3. NoDuplicateStops /\ WorkerPlace
    BY <1>2, EmptySeq DEF NoDuplicateStops, WorkerPlace
  <1>4. UpdateOnCourse /\ TransitionTaken /\ ServesOne /\ ClientFollows
    BY <1>2 DEF UpdateOnCourse, TransitionTaken, ServesOne, ClientFollows,
        Serving, Starting, Taking
  <1>5. NothingNewer /\ SendersKnown /\ SelectedParked /\ FailedStartSilent
    BY <1>2 DEF NothingNewer, SendersKnown, SelectedParked, FailedStartSilent,
        Serving, Starting, Stopping
  <1> QED
    BY <1>1, <1>3, <1>4, <1>5 DEF IInv

LEMMA StepHolds ==
    ASSUME Windows = {}, IInv, [Next]_vars PROVE IInv'
  <1>1. /\ TypeOK /\ NoDuplicateStops /\ WorkerPlace
        /\ UpdateOnCourse /\ TransitionTaken /\ ServesOne /\ ClientFollows
        /\ NothingNewer /\ SendersKnown /\ SelectedParked /\ FailedStartSilent
    BY DEF IInv
  <1>2. TypeOK' /\ NoDuplicateStops'
    BY <1>1, TypeKept
  <1>3. WorkerPlace'
    BY <1>1, PlaceKept
  <1>4. UpdateOnCourse'
    BY <1>1, <1>2, UpdateKept
  <1>5. TransitionTaken'
    BY <1>1, TransitionKept
  <1>6. ServesOne'
    BY <1>1, ServesKept
  <1>7. ClientFollows'
    BY <1>1, ClientKept
  <1>8. NothingNewer'
    BY <1>1, NothingNewerKept
  <1>9. SendersKnown'
    BY <1>1, SendersKept
  <1>10. SelectedParked'
    BY <1>1, SelectedKept
  <1>11. FailedStartSilent'
    BY <1>1, FailedKept
  <1> QED
    BY <1>2, <1>3, <1>4, <1>5, <1>6, <1>7, <1>8, <1>9, <1>10, <1>11 DEF IInv

LEMMA InvariantImplies ==
    ASSUME IInv PROVE SwitchInv
  <1>1. NoStrandedDevice
    <2> SUFFICES ASSUME Quiescent
                 PROVE  sending \subseteq {ip_address.host} \cup lost
                        /\ ~device_transition_pending
      BY DEF NoStrandedDevice
    <2>1. ~device_transition_pending
      BY DEF Quiescent, IInv, TransitionTaken
    <2>2. HostsIn(pending_stops) = {}
      BY EmptySeq DEF Quiescent, IInv, WorkerPlace, HostsIn
    <2> QED
      BY <2>1, <2>2 DEF IInv, SendersKnown, Parked
  <1> QED
    BY <1>1 DEF IInv, SwitchInv

(* Whatever the devices, their failures, the settings changes and the size  *)
(* of the stop queue: while c64_update and the worker do not preempt each   *)
(* other inside the places named by Windows, a source at rest leaves no     *)
(* device streaming but the selected one and those given up on, no recorded *)
(* switch is forgotten, and no device waits twice for its stop.             *)
THEOREM NoneStranded ==
    ASSUME Windows = {} PROVE Spec => []SwitchInv
  <1>1. Init => IInv
    BY InitHolds
  <1>2. IInv /\ [Next]_vars => IInv'
    BY StepHolds
  <1>3. IInv => SwitchInv
    BY InvariantImplies
  <1> QED
    BY <1>1, <1>2, <1>3, PTL DEF Spec

LEMMA OnlySendStopStops ==
    ASSUME Windows = {}, IInv, [Next]_vars, StopsSelected PROVE SendStop
  <1>1. workerPc = "send" /\ workerPc' = "scan" /\ sending' # sending
    BY DEF StopsSelected
  <1>2. CASE WorkerStep
    BY <1>1, <1>2 DEF WorkerStep, WorkerAt, Wake, Rebuild, TakeNothing, TakeTransition,
        TakePending, TakeRetarget, TakeCancel, Snapshot, Resend, ResendFails, Repeat,
        RepeatStops, Sleep, StartStep, RaiseInFlight, ReadEndpoint,
        StartUnreachable, StartReachable, DestFails, StartFirst, JoinReceivers,
        CreateSockets, SocketsFail, VideoAccepted, StartVideo, StartAudio, StartFails,
        Abort, ClearInFlight, StopStep, Hold, ScanEnds, ScanSelected,
        ScanUnreachable, ScanReachable, ScanEntry, SendYields, SendFails
  <1>3. CASE \/ \E ep \in Endpoint : UpdateTest(ep)
             \/ UpdateStep \/ FirstPacket \/ HoldExpires \/ Stall
             \/ \E h \in Hosts : Unplug(h) \/ Plug(h)
             \/ UNCHANGED vars
    BY <1>1, <1>3 DEF UpdateTest, UpdateStep, UpdateRecord, UpdatePend, UpdateWrite,
        UpdateSchedule, FirstPacket, HoldExpires, Stall, Unplug, Plug
  <1> QED
    BY <1>2, <1>3 DEF Next

(* When the devices are told apart by their host alone, a stop request of   *)
(* c64_process_previous_device_stops reaches the selected device only when  *)
(* another start is already due.                                            *)
THEOREM StopNeverLast ==
    ASSUME Windows = {}, \E p : Ports = {p} PROVE Spec => NoStopAfterStart
  <1> DEFINE Justified == StopsSelected => \/ uiPc # "idle" \/ retry_requested
                                           \/ device_transition_pending
  <1>1. Init => IInv
    BY InitHolds
  <1>2. IInv /\ [Next]_vars => IInv'
    BY StepHolds
  <1>3. ASSUME IInv, [Next]_vars PROVE Justified
    <2> SUFFICES ASSUME StopsSelected PROVE FALSE
      OBVIOUS
    <2>1. SendStop
      BY <1>3, OnlySendStopStops
    <2>2. /\ workerPc = "send" /\ uiPc = "idle" /\ ~retry_requested
          /\ Entry.ep.host = ip_address.host
      BY <1>3, <2>1, WorkerAlone DEF SendStop, StopsSelected, IInv
    <2>3. Entry.ep # ip_address
      BY <1>3, <2>2 DEF IInv, NothingNewer, Stopping
    <2>4. Entry.ep \in Endpoint /\ ip_address \in Endpoint
      <3>1. index \in 1 .. Len(pending_stops) /\ pending_stops \in Seq(StopEntry)
        BY <1>3, <2>2, QueueIsWellFormed DEF IInv, WorkerPlace, WellFormed, TypeOK
      <3>2. Entry \in StopEntry
        BY <3>1, ElementOfSeq DEF Entry
      <3> QED
        BY <1>3, <3>2 DEF IInv, TypeOK, StopEntry
    <2>5. Entry.ep = ip_address
      BY <2>2, <2>4 DEF Endpoint
    <2> QED
      BY <2>3, <2>5
  <1> QED
    BY <1>1, <1>2, <1>3, PTL DEF Spec, NoStopAfterStart
=============================================================================
