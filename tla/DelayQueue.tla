----------------------------- MODULE DelayQueue -----------------------------
(***************************************************************************)
(* What one ring of the network buffer promises (c64-network-buffer.c): a   *)
(* bounded queue that holds each packet for the buffer delay.  A packet     *)
(* enters behind the newest one it may follow and ahead of all those it     *)
(* precedes, or else at the end; it leaves from the front, and only when    *)
(* the delay has passed, unless the delay was reduced or all are flushed.   *)
(***************************************************************************)
EXTENDS Integers, SequencesExt

CONSTANTS
    Bound,          \* the largest number of packets held
    Packet,
    Delays,
    MaxAge,
    MayFollow(_, _) \* MayFollow(p, q): packet p is in order right behind q

VARIABLES
    queue,          \* records of a packet and its age
    delay,
    reduced         \* the delay was reduced and the queue is still to follow

dvars == <<queue, delay, reduced>>

Entry(p, a) == [packet |-> p, age |-> a]
Older(a) == IF a < MaxAge THEN a + 1 ELSE a

Init == queue = << >> /\ delay \in Delays /\ ~reduced

Arrive(p) ==
    /\ Len(queue) < Bound
    /\ \E i \in 1 .. Len(queue) + 1 :
          /\ i = Len(queue) + 1 \/ (i > 1 /\ MayFollow(p, queue[i - 1].packet))
          /\ i <= Len(queue) =>
                \A j \in i .. Len(queue) : ~MayFollow(p, queue[j].packet)
          /\ queue' = InsertAt(queue, i, Entry(p, 0))
    /\ UNCHANGED <<delay, reduced>>

Leave ==
    /\ queue # << >>
    /\ queue[1].age >= delay
    /\ queue' = Tail(queue)
    /\ UNCHANGED <<delay, reduced>>

\* The oldest packets are given up for a smaller delay.
Discard ==
    /\ reduced
    /\ \E n \in 1 .. Len(queue) : queue' = SubSeq(queue, n + 1, Len(queue))
    /\ UNCHANGED <<delay, reduced>>

\* Every packet held may leave as soon as it is the first.
Release ==
    /\ reduced
    /\ queue' = [i \in DOMAIN queue |-> Entry(queue[i].packet, delay)]
    /\ reduced' = FALSE
    /\ UNCHANGED delay

Flush ==
    /\ queue' = << >>
    /\ reduced' \in {FALSE, reduced}
    /\ UNCHANGED delay

SetDelay ==
    /\ ~reduced
    /\ delay' \in Delays
    /\ reduced' = (delay' < delay)
    /\ UNCHANGED queue

Tick ==
    /\ queue' = [i \in DOMAIN queue |-> Entry(queue[i].packet, Older(queue[i].age))]
    /\ UNCHANGED <<delay, reduced>>

Next ==
    \/ \E p \in Packet : Arrive(p)
    \/ Leave \/ Discard \/ Release \/ Flush \/ SetDelay \/ Tick

Spec == Init /\ [][Next]_dvars
=============================================================================
