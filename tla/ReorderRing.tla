---------------------------- MODULE ReorderRing ----------------------------
(***************************************************************************)
(* One ring of the network buffer (network/c64-network-buffer.c): the       *)
(* processor thread inserts the packets it drained from stage 1 in sequence *)
(* order and pops them when they are old enough, and flushes the ring when  *)
(* the picture is cut over to another device; the UI thread changes the     *)
(* delay.  Each section under the ring's mutex is one action; the UI thread *)
(* takes the mutex once to trim and once more to stamp.                     *)
(*                                                                         *)
(* Of the payload buffers that the slots refer to one is traced, any one.   *)
(* Time is the age of a packet, in ticks, up to MaxAge.  The audio ring is the case of one  *)
(* line: its key is the sequence number.                                   *)
(***************************************************************************)
EXTENDS Integers, FiniteSets, FiniteSetsExt

CONSTANTS
    Capacity,       \* slots; one stays empty
    SeqMod,         \* frame and sequence numbers wrap here, 2^16 in the code
    Packet,         \* the packets that may arrive: frame and line number
    MaxSearch,      \* MAX_SEARCH_DEPTH and MAX_SHIFT_COUNT
    Delays,         \* the delays a user may set, in ticks
    FlushAbove,     \* 50 ms: a larger delay reduced to none flushes
    Rate,           \* packets that arrive in a tick
    MaxSets         \* bound: how often the delay is changed

ASSUME RingAssumption ==
    /\ Capacity \in Nat /\ Capacity >= 2
    /\ SeqMod \in Nat /\ SeqMod % 2 = 0
    /\ MaxSearch \in Nat \ {0}
    /\ Packet \subseteq [frame : 0 .. SeqMod - 1, line : Nat]
    /\ Delays \subseteq Nat /\ IsFiniteSet(Delays)
    /\ Rate \in Nat /\ MaxSets \in Nat

VARIABLES slots, head, tail, delay, uiPc, sets

vars == <<slots, head, tail, delay, uiPc, sets>>

Index == 0 .. Capacity - 1
MaxAge == Max(Delays)

At(i) == i % Capacity
Size == IF head >= tail THEN head - tail ELSE Capacity - tail + head

\* (int16_t)(a - b)
Diff(a, b) ==
    LET d == (a - b + SeqMod) % SeqMod IN IF d >= SeqMod \div 2 THEN d - SeqMod ELSE d

\* Packet p may be inserted right behind packet q.
MayFollow(p, q) ==
    LET d == Diff(p.frame, q.frame) IN d > 0 \/ (d = 0 /\ p.line >= q.line)

NoPacket == [frame |-> 0, line |-> 0]
\* The metadata of an invalid slot is never looked at and is blanked here.
Empty(s) == [s EXCEPT !.valid = FALSE, !.packet = NoPacket, !.age = 0]

Init ==
    /\ \E t \in Index :
          slots = [i \in Index |-> [traced |-> i = t, valid |-> FALSE,
                                    packet |-> NoPacket, age |-> 0]]
    /\ head = 0
    /\ tail = 0
    /\ delay \in Delays
    /\ uiPc = "idle"
    /\ sets = 0

-----------------------------------------------------------------------------
(* rb_push                                                                 *)

PushFull ==
    /\ At(head + 1) = tail
    /\ UNCHANGED vars

\* How far p moves back from the head: past the packets it precedes, when the
\* search finds one it may follow; the search stops short of the oldest slot.
Shift(p) ==
    LET stops == {j \in 0 .. Min({Size - 2, MaxSearch - 1}) :
                    LET s == slots[At(head - 1 - j + Capacity)]
                    IN  s.valid /\ MayFollow(p, s.packet)}
    IN  IF Size < 2 \/ stops = {} THEN 0 ELSE Min(stops)

\* Mutant: the slots are copied down, payload buffers included.
CopyDown(n, s) ==
    LET pos(i) == (head - i + Capacity) % Capacity
    IN  [k \in Index |->
            IF k = pos(n) THEN s
            ELSE IF \E i \in 0 .. n - 1 : k = pos(i)
                 THEN slots[At(k - 1 + Capacity)] ELSE slots[k]]

\* The head slot is swapped back n places; the packet of slot s goes there,
\* into the payload buffer of the head slot.
SwapDown(n, s) ==
    LET pos(i) == At(head - i + Capacity)
    IN  [k \in Index |->
            IF k = pos(n) THEN [s EXCEPT !.traced = slots[head].traced]
            ELSE IF \E i \in 0 .. n - 1 : k = pos(i)
                 THEN slots[At(k - 1 + Capacity)] ELSE slots[k]]

Push(p) ==
    LET n == Shift(p)
        s == [slots[At(head - n + Capacity)] EXCEPT
                 !.valid = TRUE, !.packet = p, !.age = 0]
    IN  /\ At(head + 1) # tail
        /\ slots' = SwapDown(n, s)
        /\ head' = At(head + 1)
        /\ UNCHANGED <<tail, delay, uiPc, sets>>

-----------------------------------------------------------------------------
(* c64_network_buffer_pop, rb_pop_oldest_locked                            *)

\* Mutant: the delay is not waited for.
PopAtOnce ==
    /\ head # tail
    /\ slots[tail].valid
    /\ slots' = [slots EXCEPT ![tail] = Empty(@)]
    /\ tail' = At(tail + 1)
    /\ UNCHANGED <<head, delay, uiPc, sets>>

Pop ==
    /\ head # tail
    /\ slots[tail].valid
    /\ slots[tail].age >= delay
    /\ slots' = [slots EXCEPT ![tail] = Empty(@)]
    /\ tail' = At(tail + 1)
    /\ UNCHANGED <<head, delay, uiPc, sets>>

\* rb_reset_locked
Reset ==
    /\ slots' = [i \in Index |-> Empty(slots[i])]
    /\ head' = 0
    /\ tail' = 0

\* c64_network_buffer_flush, from c64_handover_flush.
Flush ==
    /\ Reset
    /\ UNCHANGED <<delay, uiPc, sets>>

-----------------------------------------------------------------------------
(* c64_network_buffer_set_delay                                            *)

\* The delay takes effect at once, without the mutex.
SetDelay(d) ==
    /\ uiPc = "idle"
    /\ sets < MaxSets
    /\ d # delay
    /\ delay' = d
    /\ uiPc' = IF d > delay THEN "idle"
               ELSE IF d = 0 /\ delay > FlushAbove THEN "flush" ELSE "trim"
    /\ sets' = sets + 1
    /\ UNCHANGED <<slots, head, tail>>

FlushReduced ==
    /\ uiPc = "flush"
    /\ Reset
    /\ uiPc' = "idle"
    /\ UNCHANGED <<delay, sets>>

\* The packets above what the new delay holds.
Excess == Max({0, Size - Min({Capacity, delay * Rate})})

\* Mutant: tail stays behind, at an emptied slot.
TrimInPlace ==
    LET gone == {At(tail + i) : i \in 0 .. Excess - 1}
    IN  /\ uiPc = "trim"
        /\ slots' = [i \in Index |-> IF i \in gone THEN Empty(slots[i]) ELSE slots[i]]
        /\ uiPc' = "stamp"
        /\ UNCHANGED <<head, tail, delay, sets>>

\* The oldest are discarded.  The slots from tail to head are all valid, so
\* the loop that counts valid ones ends after Excess slots.
Trim ==
    LET gone == {At(tail + i) : i \in 0 .. Excess - 1}
    IN  /\ uiPc = "trim"
        /\ slots' = [i \in Index |-> IF i \in gone THEN Empty(slots[i]) ELSE slots[i]]
        /\ tail' = At(tail + Excess)
        /\ uiPc' = "stamp"
        /\ UNCHANGED <<head, delay, sets>>

\* Every packet left is made old enough for the new delay.
Stamp ==
    /\ uiPc = "stamp"
    /\ slots' = [i \in Index |->
                    IF slots[i].valid THEN [slots[i] EXCEPT !.age = delay] ELSE slots[i]]
    /\ uiPc' = "idle"
    /\ UNCHANGED <<head, tail, delay, sets>>

-----------------------------------------------------------------------------
\* Mutant: a packet ages without bound.
TickBeyond ==
    /\ slots' = [i \in Index |->
                    IF slots[i].valid THEN [slots[i] EXCEPT !.age = @ + 1] ELSE slots[i]]
    /\ UNCHANGED <<head, tail, delay, uiPc, sets>>

Tick ==
    /\ \E i \in Index : slots[i].valid /\ slots[i].age < MaxAge
    /\ slots' = [i \in Index |->
                    IF slots[i].valid /\ slots[i].age < MaxAge
                    THEN [slots[i] EXCEPT !.age = @ + 1] ELSE slots[i]]
    /\ UNCHANGED <<head, tail, delay, uiPc, sets>>

Next ==
    \/ \E p \in Packet : Push(p)
    \/ PushFull \/ Pop \/ Flush
    \/ \E d \in Delays : SetDelay(d)
    \/ FlushReduced \/ Trim \/ Stamp
    \/ Tick

Spec == Init /\ [][Next]_vars

(* Time passes and the processor thread keeps popping; nobody has to send   *)
(* packets or change the delay.                                            *)
Fairness == WF_vars(Tick) /\ WF_vars(Pop)

FairSpec == Spec /\ Fairness

-----------------------------------------------------------------------------
TypeOK ==
    /\ slots \in [Index -> [traced : BOOLEAN, valid : BOOLEAN,
                            packet : Packet \cup {NoPacket}, age : 0 .. MaxAge]]
    /\ head \in Index /\ tail \in Index
    /\ delay \in Delays
    /\ uiPc \in {"idle", "flush", "trim", "stamp"}
    /\ sets \in 0 .. MaxSets

(* Exactly the slots from tail to head are valid: a hole among them would   *)
(* stop the consumer for ever at an invalid slot (c64_network_buffer_pop    *)
(* tests it), and a valid slot outside would be stamped after its packet    *)
(* was handed out (c64_network_buffer_set_delay stamps all valid slots).    *)
OccupiedAreValid ==
    {i \in Index : slots[i].valid} = {At(tail + i) : i \in 0 .. Size - 1}

(* No two slots share a payload buffer, however often rb_push swaps them:   *)
(* else one packet would overwrite the pixels or samples of another.  The  *)
(* traced buffer stands for each of them.                                  *)
PayloadsDistinct == Cardinality({i \in Index : slots[i].traced}) = 1

(* The ring implements the delay queue: nothing is lost, duplicated or      *)
(* overtaken by the shifts, the wrap-around and the changes of the delay.   *)
Contents ==
    [i \in 1 .. Size |->
        [packet |-> slots[At(tail + i - 1)].packet, age |-> slots[At(tail + i - 1)].age]]
Queue == INSTANCE DelayQueue
            WITH Bound <- Capacity - 1, queue <- Contents, reduced <- uiPc # "idle"
ImplementsQueue == Queue!Spec

(* Whatever is buffered leaves in the end, although later packets may be    *)
(* inserted behind the oldest and the delay may change meanwhile.           *)
OldestLeaves ==
    \A i \in Index : (head # tail /\ tail = i) ~> (head = tail \/ tail # i)

(* The ring's slots: those between tail and head are valid, and the payload *)
(* buffers are permuted by a sorted insertion, never shared or lost         *)
(* (c64-network-buffer.c).                                                  *)
RingInv == TypeOK /\ OccupiedAreValid /\ PayloadsDistinct
=============================================================================
