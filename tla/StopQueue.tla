------------------------------ MODULE StopQueue ------------------------------
(***************************************************************************)
(* The queue of devices that a source has switched away from and still has  *)
(* to tell to stop streaming (device/c64-device-switch.c): a bounded        *)
(* sequence of entries keyed by endpoint, each counting its failed stop     *)
(* attempts.  Passwords and the REST demotion deadline are left out.        *)
(***************************************************************************)
EXTENDS Integers, SequencesExt

CONSTANT QueueMax   \* C64_STOP_QUEUE_MAX, 4 in the code

ASSUME QueueMaxAssumption == QueueMax \in Nat \ {0}

\* The index of the entry for endpoint ep, 0 when there is none.
Find(q, ep) == SelectInSeq(q, LAMBDA e : e.ep = ep)

\* Mutant: an entry for the endpoint is not looked for.
AddAlways(q, ep) ==
    Append(IF Len(q) = QueueMax THEN Tail(q) ELSE q, [ep |-> ep, attempts |-> 0])

\* c64_stop_queue_add refreshes an entry, appends one, or, when the queue is
\* full, drops the oldest one to make room.
Add(q, ep) ==
    LET fresh == [ep |-> ep, attempts |-> 0]
        i == Find(q, ep)
    IN  IF i # 0 THEN ReplaceAt(q, i, fresh)
        ELSE Append(IF Len(q) = QueueMax THEN Tail(q) ELSE q, fresh)

\* The endpoints Add reports as dropped.
Dropped(q, ep) ==
    IF Find(q, ep) = 0 /\ Len(q) = QueueMax THEN {q[1].ep} ELSE {}

\* c64_stop_queue_cancel
Cancel(q, ep) ==
    LET i == Find(q, ep) IN IF i = 0 THEN q ELSE RemoveAt(q, i)

\* c64_stop_queue_record_failure: one more failed attempt, and whether the
\* entry has used up max of them.
Failed(q, i) == [q EXCEPT ![i].attempts = @ + 1]
\* Mutant: one attempt too many.
GivesUpLate(q, i, max) == q[i].attempts + 1 > max

GivesUp(q, i, max) == q[i].attempts + 1 >= max
=============================================================================
