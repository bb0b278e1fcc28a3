---------------------------- MODULE BoundedQueue ----------------------------
(***************************************************************************)
(* What the stage-1 packet FIFO of c64-network-fifo.h promises to the      *)
(* receive thread and to the processor: a bounded first-in first-out queue *)
(* of whole packets.  A packet is refused, and counted, only while the     *)
(* queue is full; the queue is emptied only between two streaming          *)
(* sessions, when neither thread is running.                               *)
(***************************************************************************)
EXTENDS Integers, Sequences

CONSTANTS
    Bound,      \* the largest number of packets held
    Item        \* the packets

VARIABLES
    queue,      \* the packets accepted and not yet taken, oldest first
    out,        \* the packet taken last
    refused     \* how many packets were refused since the last Clear

qvars == <<queue, out, refused>>

Init ==
    /\ queue = << >>
    /\ out \in Item
    /\ refused = 0

Accept(p) ==
    /\ Len(queue) < Bound
    /\ queue' = Append(queue, p)
    /\ UNCHANGED <<out, refused>>

Refuse ==
    /\ Len(queue) = Bound
    /\ refused' = refused + 1
    /\ UNCHANGED <<queue, out>>

Take ==
    /\ queue # << >>
    /\ out' = Head(queue)
    /\ queue' = Tail(queue)
    /\ UNCHANGED refused

Clear ==
    /\ queue' = << >>
    /\ refused' = 0
    /\ UNCHANGED out

Next == (\E p \in Item : Accept(p)) \/ Refuse \/ Take \/ Clear

Spec == Init /\ [][Next]_qvars
=============================================================================
