----------------------------- MODULE RetryWorker -----------------------------
(***************************************************************************)
(* The background retry worker of a source (c64-source.c) and the lock-free *)
(* protocol by which it is scheduled, kept to at most one thread, and       *)
(* joined by c64_destroy.                                                  *)
(*                                                                         *)
(* Two threads schedule it: "ui", which runs c64_update, and "proc", the    *)
(* video processor thread, which asks for a retry when video packets stop   *)
(* and which exists only while the receivers run.  The attempt itself is    *)
(* abstracted to what the protocol depends on: it may restart the receivers *)
(* (joining and recreating "proc"), and it leaves the source streaming or   *)
(* not, with or without a port conflict and devices still to be stopped.    *)
(***************************************************************************)
EXTENDS Integers

CONSTANT CreateMayFail  \* whether pthread_create may fail

ASSUME CreateAssumption == CreateMayFail \in BOOLEAN

Schedulers == {"ui", "proc"}

VARIABLES
    retry_in_progress,   \* os_atomic long: an attempt is running
    retry_thread_active, \* os_atomic long: the worker slot is taken
    retry_requested,     \* os_atomic long: repeat when done
    retry_thread_valid,  \* a joinable thread handle is stored
    retry_shutting_down, \* c64_destroy has begun
    mutex,               \* holder of retry_thread_mutex, or "free"
    workerPc,            \* the worker; "returned" until joined, then "none"
    requested,           \* the worker's local copy of retry_requested
    run_task,            \* the worker's local decision to run an attempt
    callPc,              \* c64_schedule_retry in each scheduler
    destroyPc,           \* c64_destroy
    streaming,           \* context->streaming and the receivers' thread_active
    udp_port_conflict,
    pendingStops,        \* pending_stops.count != 0
    unserved             \* schedulers whose call no attempt has followed yet

vars == <<retry_in_progress, retry_thread_active, retry_requested,
          retry_thread_valid, retry_shutting_down, mutex, workerPc, requested,
          run_task, callPc, destroyPc, streaming, udp_port_conflict,
          pendingStops, unserved>>

flags == <<retry_in_progress, retry_thread_active, retry_requested>>
handle == <<retry_thread_valid, retry_shutting_down, mutex>>
local == <<requested, run_task>>
stream == <<streaming, udp_port_conflict, pendingStops>>

(* A thread's step from one program counter to another.                    *)
WorkerGoes(from, to) == workerPc = from /\ workerPc' = to
CallGoes(s, from, to) == callPc[s] = from /\ callPc' = [callPc EXCEPT ![s] = to]
DestroyGoes(from, to) == destroyPc = from /\ destroyPc' = to

Init ==
    /\ retry_in_progress = 0
    /\ retry_thread_active = 0
    /\ retry_requested = 0
    /\ retry_thread_valid = FALSE
    /\ retry_shutting_down = FALSE
    /\ mutex = "free"
    /\ workerPc = "none"
    /\ requested = 0
    /\ run_task = TRUE
    /\ callPc = [s \in Schedulers |-> IF s = "ui" THEN "idle" ELSE "none"]
    /\ destroyPc = "alive"
    /\ streaming = FALSE
    /\ udp_port_conflict = FALSE
    /\ pendingStops = FALSE
    /\ unserved = {}

-----------------------------------------------------------------------------
(* c64_schedule_retry, in scheduler s.                                     *)

\* c64_update has applied its settings, or the processor saw video stop.
\* OBS makes no c64_update once it has called c64_destroy; the processor
\* tests thread_active, retry_in_progress and the conflict first.
Call(s) ==
    /\ s = "ui" => destroyPc = "alive"
    /\ s = "proc" => streaming /\ retry_in_progress = 0 /\ ~udp_port_conflict
    /\ CallGoes(s, "idle", "test_progress")
    /\ unserved' = unserved \cup {s}
    /\ UNCHANGED <<flags, handle, workerPc, local, destroyPc, stream>>

TestProgress(s) ==
    /\ CallGoes(s, "test_progress",
                IF retry_in_progress = 1 THEN "request" ELSE "test_active")
    /\ UNCHANGED <<flags, handle, workerPc, local, destroyPc, stream, unserved>>

TestActive(s) ==
    /\ CallGoes(s, "test_active",
                IF retry_thread_active = 1 THEN "request" ELSE "cas_active")
    /\ UNCHANGED <<flags, handle, workerPc, local, destroyPc, stream, unserved>>

Request(s) ==
    /\ CallGoes(s, "request", "idle")
    /\ retry_requested' = 1
    /\ UNCHANGED <<retry_in_progress, retry_thread_active, handle, workerPc,
                   local, destroyPc, stream, unserved>>

\* The slot was taken since the test: the call returns and leaves no request.
CasActiveLost(s) ==
    /\ retry_thread_active = 1
    /\ CallGoes(s, "cas_active", "idle")
    /\ UNCHANGED <<flags, handle, workerPc, local, destroyPc, stream, unserved>>

\* Mutant: a store in place of the compare-and-swap.
CasActiveStore(s) ==
    /\ CallGoes(s, "cas_active", "cas_progress")
    /\ retry_thread_active' = 1
    /\ UNCHANGED <<retry_in_progress, retry_requested, handle, workerPc, local,
                   destroyPc, stream, unserved>>

CasActive(s) ==
    /\ retry_thread_active = 0
    /\ CallGoes(s, "cas_active", "cas_progress")
    /\ retry_thread_active' = 1
    /\ UNCHANGED <<retry_in_progress, retry_requested, handle, workerPc, local,
                   destroyPc, stream, unserved>>

\* The failing branch (another attempt in progress) gives the slot back.
CasProgress(s) ==
    /\ CallGoes(s, "cas_progress",
                IF retry_in_progress = 0 THEN "lock" ELSE "free_active")
    /\ retry_in_progress' = 1
    /\ UNCHANGED <<retry_thread_active, retry_requested, handle, workerPc,
                   local, destroyPc, stream, unserved>>

\* Mutant: the latch of c64_destroy is not tested.
LockRetryNoLatch(s) ==
    /\ mutex = "free"
    /\ CallGoes(s, "lock", IF retry_thread_valid THEN "join" ELSE "create")
    /\ mutex' = s
    /\ UNCHANGED <<flags, retry_thread_valid, retry_shutting_down, workerPc,
                   local, destroyPc, stream, unserved>>

LockRetry(s) ==
    /\ mutex = "free"
    /\ CallGoes(s, "lock",
                CASE retry_shutting_down -> "free_progress"
                  [] ~retry_shutting_down /\ retry_thread_valid -> "join"
                  [] OTHER -> "create")
    \* the shutting-down branch unlocks before it clears the flags
    /\ mutex' = IF retry_shutting_down THEN "free" ELSE s
    /\ UNCHANGED <<flags, retry_thread_valid, retry_shutting_down, workerPc,
                   local, destroyPc, stream, unserved>>

JoinOld(s) ==
    /\ workerPc = "returned"
    /\ CallGoes(s, "join", "create")
    /\ workerPc' = "none"
    /\ retry_thread_valid' = FALSE
    /\ UNCHANGED <<flags, retry_shutting_down, mutex, local, destroyPc, stream,
                   unserved>>

\* The new thread starts at once; it sees retry_thread_valid only through the
\* mutex, which s still holds.
Create(s) ==
    /\ CallGoes(s, "create", "idle")
    /\ workerPc' = "clear"
    /\ run_task' = TRUE
    /\ requested' = 0
    /\ retry_thread_valid' = TRUE
    /\ mutex' = "free"
    /\ UNCHANGED <<flags, retry_shutting_down, destroyPc, stream, unserved>>

CreateFails(s) ==
    /\ CreateMayFail
    /\ CallGoes(s, "create", "free_progress")
    /\ mutex' = "free"
    /\ UNCHANGED <<flags, retry_thread_valid, retry_shutting_down, workerPc,
                   local, destroyPc, stream, unserved>>

FreeProgress(s) ==
    /\ CallGoes(s, "free_progress", "free_active")
    /\ retry_in_progress' = 0
    /\ UNCHANGED <<retry_thread_active, retry_requested, handle, workerPc,
                   local, destroyPc, stream, unserved>>

\* Mutant: the flag is counted down instead of cleared.
FreeActiveCounting(s) ==
    /\ CallGoes(s, "free_active", "idle")
    /\ retry_thread_active' = retry_thread_active - 1
    /\ UNCHANGED <<retry_in_progress, retry_requested, handle, workerPc, local,
                   destroyPc, stream, unserved>>

FreeActive(s) ==
    /\ CallGoes(s, "free_active", "idle")
    /\ retry_thread_active' = 0
    /\ UNCHANGED <<retry_in_progress, retry_requested, handle, workerPc, local,
                   destroyPc, stream, unserved>>

\* c64_update clears the port conflict when the user picks other ports; it
\* then schedules a retry (Call).
PortsChanged ==
    /\ destroyPc = "alive"
    /\ callPc["ui"] = "idle"
    /\ udp_port_conflict
    /\ udp_port_conflict' = FALSE
    /\ callPc' = [callPc EXCEPT !["ui"] = "test_progress"]
    /\ unserved' = unserved \cup {"ui"}
    /\ UNCHANGED <<flags, handle, workerPc, local, destroyPc, streaming,
                   pendingStops>>

\* The processor thread leaves its loop once the receivers are told to stop.
ProcExit ==
    /\ ~streaming
    /\ CallGoes("proc", "idle", "none")
    /\ UNCHANGED <<flags, handle, workerPc, local, destroyPc, stream, unserved>>

CallStep(s) ==
    \/ TestProgress(s) \/ TestActive(s) \/ Request(s)
    \/ CasActiveLost(s) \/ CasActive(s) \/ CasProgress(s)
    \/ LockRetry(s) \/ JoinOld(s) \/ Create(s) \/ CreateFails(s)
    \/ FreeProgress(s) \/ FreeActive(s)

-----------------------------------------------------------------------------
(* c64_retry_thread_main and c64_async_retry_task.                         *)

ClearRequest ==
    /\ WorkerGoes("clear", "read")
    /\ retry_requested' = 0
    /\ UNCHANGED <<retry_in_progress, retry_thread_active, handle, local,
                   callPc, destroyPc, stream, unserved>>

\* The attempt reads the configuration: every call so far is served.  A
\* device switch it takes over queues a stop.
ReadConfig ==
    /\ WorkerGoes("read", "attempt")
    /\ unserved' = {}
    /\ pendingStops' \in {pendingStops, TRUE}
    /\ UNCHANGED <<flags, handle, local, callPc, destroyPc, streaming,
                   udp_port_conflict>>

\* Already streaming the right device: start commands only.
AttemptSendStarts ==
    /\ streaming
    /\ WorkerGoes("attempt", "stops")
    /\ UNCHANGED <<flags, handle, local, callPc, destroyPc, stream, unserved>>

\* A device switch: the receivers are told to stop and are joined.
AttemptStopReceivers ==
    /\ streaming
    /\ streaming' = FALSE
    /\ WorkerGoes("attempt", "join_receivers")
    /\ UNCHANGED <<flags, handle, local, callPc, destroyPc, udp_port_conflict,
                   pendingStops, unserved>>

AttemptJoinReceivers ==
    /\ callPc["proc"] = "none"
    /\ \/ WorkerGoes("join_receivers", "attempt")
       \/ WorkerGoes("abort_join", "stops")
    /\ UNCHANGED <<flags, handle, local, callPc, destroyPc, stream, unserved>>

\* The new device accepted the video start: fresh receivers run.
AttemptStarts ==
    /\ ~streaming
    /\ WorkerGoes("attempt", "start_audio")
    /\ streaming' = TRUE
    /\ udp_port_conflict' = FALSE
    /\ callPc' = [callPc EXCEPT !["proc"] = "idle"]
    /\ UNCHANGED <<flags, handle, local, destroyPc, pendingStops, unserved>>

AttemptStartsAudio ==
    /\ WorkerGoes("start_audio", "stops")
    /\ UNCHANGED <<flags, handle, local, callPc, destroyPc, stream, unserved>>

\* The audio start failed: c64_join_receivers and c64_abort_stream_start.
AttemptAborts ==
    /\ WorkerGoes("start_audio", "abort_join")
    /\ streaming' = FALSE
    /\ UNCHANGED <<flags, handle, local, callPc, destroyPc, udp_port_conflict,
                   pendingStops, unserved>>

\* Unreachable device, failed command, or a UDP port in use by another source.
AttemptFails ==
    /\ ~streaming
    /\ WorkerGoes("attempt", "stops")
    /\ udp_port_conflict' \in BOOLEAN
    /\ UNCHANGED <<flags, handle, local, callPc, destroyPc, streaming,
                   pendingStops, unserved>>

\* c64_process_previous_device_stops, as the tail of an attempt ("stops") or
\* on its own ("only_stops"); it may stop early or leave entries to retry.
ProcessStops ==
    /\ \/ WorkerGoes("stops", "end_attempt")
       \/ WorkerGoes("only_stops", "check_shutdown")
    /\ pendingStops' \in {pendingStops, FALSE}
    /\ UNCHANGED <<flags, handle, local, callPc, destroyPc, streaming,
                   udp_port_conflict, unserved>>

\* Mutant: the attempt stays marked as running.
EndAttemptNoClear ==
    /\ WorkerGoes("end_attempt", "check_shutdown")
    /\ UNCHANGED <<flags, handle, local, callPc, destroyPc, stream, unserved>>

EndAttempt ==
    /\ WorkerGoes("end_attempt", "check_shutdown")
    /\ retry_in_progress' = 0
    /\ UNCHANGED <<retry_thread_active, retry_requested, handle, local, callPc,
                   destroyPc, stream, unserved>>

CheckShutdown ==
    /\ WorkerGoes("check_shutdown",
                  IF retry_shutting_down THEN "exit" ELSE "test_request")
    /\ UNCHANGED <<flags, handle, local, callPc, destroyPc, stream, unserved>>

needStart == ~streaming /\ ~udp_port_conflict

TestRequest ==
    /\ requested' = retry_requested
    /\ WorkerGoes("test_request",
                  IF retry_requested = 0 /\ (needStart \/ pendingStops)
                  THEN "wait" ELSE "decide")
    /\ run_task' = FALSE
    /\ UNCHANGED <<flags, handle, callPc, destroyPc, stream, unserved>>

\* The back-off ends because of a request or because its time is over; during
\* a handover the attempt may be repeated (resend).
WaitEnds ==
    /\ ~retry_shutting_down
    /\ WorkerGoes("wait", "decide")
    /\ requested' = retry_requested
    /\ run_task' \in IF pendingStops /\ streaming THEN BOOLEAN ELSE {FALSE}
    /\ UNCHANGED <<flags, handle, callPc, destroyPc, stream, unserved>>

\* Mutant: the back-off does not look at the shutdown flag.
WaitShutdownMissed ==
    /\ retry_shutting_down
    /\ WorkerGoes("wait", "wait")
    /\ UNCHANGED <<flags, handle, local, callPc, destroyPc, stream, unserved>>

WaitShutdown ==
    /\ retry_shutting_down
    /\ WorkerGoes("wait", "exit")
    /\ UNCHANGED <<flags, handle, local, callPc, destroyPc, stream, unserved>>

Decide ==
    /\ run_task' = (requested = 1 \/ needStart \/ run_task)
    /\ WorkerGoes("decide",
                  IF requested = 1 \/ needStart \/ run_task THEN "retake"
                  ELSE IF pendingStops THEN "only_stops" ELSE "release")
    /\ UNCHANGED <<flags, handle, requested, callPc, destroyPc, stream, unserved>>

Release ==
    /\ WorkerGoes("release", "look_again")
    /\ retry_thread_active' = 0
    /\ UNCHANGED <<retry_in_progress, retry_requested, handle, local, callPc,
                   destroyPc, stream, unserved>>

\* Mutant: no second look after the slot was handed back.
LookAgainNot ==
    /\ WorkerGoes("look_again", "returned")
    /\ UNCHANGED <<flags, handle, local, callPc, destroyPc, stream, unserved>>

LookAgain ==
    /\ WorkerGoes("look_again",
                  IF retry_requested = 0 \/ retry_shutting_down
                  THEN "returned" ELSE "retake_active")
    /\ UNCHANGED <<flags, handle, local, callPc, destroyPc, stream, unserved>>

RetakeActiveLost ==
    /\ retry_thread_active = 1
    /\ WorkerGoes("retake_active", "returned")
    /\ UNCHANGED <<flags, handle, local, callPc, destroyPc, stream, unserved>>

RetakeActive ==
    /\ retry_thread_active = 0
    /\ WorkerGoes("retake_active", "retake")
    /\ retry_thread_active' = 1
    /\ run_task' = TRUE
    /\ UNCHANGED <<retry_in_progress, retry_requested, handle, requested,
                   callPc, destroyPc, stream, unserved>>

\* The compare-and-swap of retry_in_progress before an attempt; losing it
\* ends the worker.
Retake ==
    /\ WorkerGoes("retake", IF retry_in_progress = 0 THEN "clear" ELSE "exit")
    /\ retry_in_progress' = 1
    /\ UNCHANGED <<retry_thread_active, retry_requested, handle, local, callPc,
                   destroyPc, stream, unserved>>

Exit ==
    /\ WorkerGoes("exit", "returned")
    /\ retry_thread_active' = 0
    /\ UNCHANGED <<retry_in_progress, retry_requested, handle, local, callPc,
                   destroyPc, stream, unserved>>

WorkerStep ==
    \/ ClearRequest \/ ReadConfig
    \/ AttemptSendStarts \/ AttemptStopReceivers \/ AttemptJoinReceivers
    \/ AttemptStarts \/ AttemptStartsAudio \/ AttemptAborts \/ AttemptFails
    \/ ProcessStops \/ EndAttempt
    \/ CheckShutdown \/ TestRequest \/ WaitEnds \/ WaitShutdown \/ Decide
    \/ Release \/ LookAgain \/ RetakeActiveLost \/ RetakeActive \/ Retake \/ Exit

-----------------------------------------------------------------------------
(* c64_destroy, as far as the worker and the receivers are concerned.      *)

DestroyBegin ==
    /\ callPc["ui"] = "idle"
    /\ DestroyGoes("alive", "lock")
    /\ UNCHANGED <<flags, handle, workerPc, local, callPc, stream, unserved>>

\* Mutant: the shutdown flag is not latched.
DestroyLockNoLatch ==
    /\ mutex = "free"
    /\ DestroyGoes("lock", IF retry_thread_valid THEN "join" ELSE "unlock")
    /\ mutex' = "destroy"
    /\ UNCHANGED <<flags, retry_thread_valid, retry_shutting_down, workerPc,
                   local, callPc, stream, unserved>>

\* Latches the flag under the mutex and looks for a worker to join.
DestroyLock ==
    /\ mutex = "free"
    /\ DestroyGoes("lock", IF retry_thread_valid THEN "join" ELSE "unlock")
    /\ mutex' = "destroy"
    /\ retry_shutting_down' = TRUE
    /\ UNCHANGED <<flags, retry_thread_valid, workerPc, local, callPc, stream,
                   unserved>>

DestroyJoin ==
    /\ workerPc = "returned"
    /\ DestroyGoes("join", "unlock")
    /\ workerPc' = "none"
    /\ retry_thread_valid' = FALSE
    /\ retry_thread_active' = 0
    /\ retry_in_progress' = 0
    /\ UNCHANGED <<retry_requested, retry_shutting_down, mutex, local, callPc,
                   stream, unserved>>

DestroyUnlock ==
    /\ DestroyGoes("unlock", "stops")
    /\ mutex' = "free"
    /\ UNCHANGED <<flags, retry_thread_valid, retry_shutting_down, workerPc,
                   local, callPc, stream, unserved>>

\* Last stops, without holding for a handover; then the receivers are told to
\* stop if they run (c64_stop_streaming).
DestroyStops ==
    /\ DestroyGoes("stops", "join_receivers")
    /\ retry_requested' = 0
    /\ pendingStops' \in {pendingStops, FALSE}
    /\ streaming' = FALSE
    /\ UNCHANGED <<retry_in_progress, retry_thread_active, handle, workerPc,
                   local, callPc, udp_port_conflict, unserved>>

\* Mutant: the receivers are not joined.
DestroyFreeNoJoin ==
    /\ DestroyGoes("join_receivers", "freed")
    /\ UNCHANGED <<flags, handle, workerPc, local, callPc, stream, unserved>>

\* The receivers are joined; the context is freed.
DestroyFree ==
    /\ callPc["proc"] = "none"
    /\ DestroyGoes("join_receivers", "freed")
    /\ UNCHANGED <<flags, handle, workerPc, local, callPc, stream, unserved>>

DestroyStep ==
    DestroyLock \/ DestroyJoin \/ DestroyUnlock \/ DestroyStops \/ DestroyFree

\* Nothing happens to a freed context.
Freed == destroyPc = "freed" /\ UNCHANGED vars

Next ==
    \/ \E s \in Schedulers : Call(s) \/ CallStep(s)
    \/ PortsChanged
    \/ ProcExit
    \/ WorkerStep
    \/ DestroyBegin
    \/ DestroyStep
    \/ Freed

Spec == Init /\ [][Next]_vars

(* Every thread that has begun something goes on running; nobody is obliged *)
(* to schedule a retry or to destroy the source, and a lock or a join is    *)
(* granted when it stays available.                                        *)
Fairness ==
    /\ \A s \in Schedulers : WF_vars(CallStep(s))
    /\ \A s \in Schedulers : SF_vars(LockRetry(s))
    /\ WF_vars(ProcExit)
    /\ WF_vars(WorkerStep)
    /\ WF_vars(DestroyStep)
    /\ SF_vars(DestroyLock)

FairSpec == Spec /\ Fairness

-----------------------------------------------------------------------------
WorkerPcs ==
    {"none", "clear", "read", "attempt", "join_receivers", "start_audio",
     "abort_join", "stops", "end_attempt", "check_shutdown", "test_request",
     "wait", "decide", "only_stops", "release", "look_again", "retake_active",
     "retake", "exit", "returned"}

CallPcs ==
    {"none", "idle", "test_progress", "test_active", "request", "cas_active",
     "cas_progress", "lock", "join", "create", "free_progress", "free_active"}

DestroyPcs == {"alive", "lock", "join", "unlock", "stops", "join_receivers", "freed"}

(* Every variable keeps its type.                                          *)
TypeOK ==
    /\ retry_in_progress \in {0, 1}
    /\ retry_thread_active \in {0, 1}
    /\ retry_requested \in {0, 1}
    /\ retry_thread_valid \in BOOLEAN
    /\ retry_shutting_down \in BOOLEAN
    /\ mutex \in Schedulers \cup {"free", "destroy"}
    /\ workerPc \in WorkerPcs
    /\ requested \in {0, 1}
    /\ run_task \in BOOLEAN
    /\ callPc \in [Schedulers -> CallPcs]
    /\ destroyPc \in DestroyPcs
    /\ streaming \in BOOLEAN
    /\ udp_port_conflict \in BOOLEAN
    /\ pendingStops \in BOOLEAN
    /\ unserved \subseteq Schedulers

(* Who owns the worker slot: a scheduler between its compare-and-swap and  *)
(* the thread's creation, or the worker until it hands the slot back.      *)
CallHolds(s) ==
    callPc[s] \in {"cas_progress", "lock", "join", "create", "free_progress",
                   "free_active"}
WorkerHolds ==
    workerPc \notin {"none", "look_again", "retake_active", "returned"}

(* The slot has one owner: two schedulers, or a scheduler and the worker,   *)
(* never both believe they may start an attempt, although the flags are    *)
(* tested and set by separate atomic operations (c64_schedule_retry).      *)
SlotExclusive ==
    /\ \A s \in Schedulers : CallHolds(s) => ~WorkerHolds
    /\ ~(CallHolds("ui") /\ CallHolds("proc"))
    /\ ~retry_shutting_down =>
          (retry_thread_active = 1
              <=> (WorkerHolds \/ \E s \in Schedulers : CallHolds(s)))

(* The compare-and-swap of retry_in_progress finds it clear: the branches   *)
(* that give up on a busy attempt are never taken (c64_schedule_retry and   *)
(* the end of c64_retry_thread_main), so no call and no repetition is lost  *)
(* there.                                                                  *)
ProgressFree ==
    /\ \A s \in Schedulers : callPc[s] = "cas_progress" => retry_in_progress = 0
    /\ workerPc = "retake" => retry_in_progress = 0

(* A thread is created only when the previous one has been joined and       *)
(* destruction has not begun (C64STR-001).                                 *)
CreateStep == \E s \in Schedulers : callPc[s] = "create" /\ workerPc' = "clear"
NoStrayWorker ==
    [][CreateStep => workerPc = "none" /\ ~retry_shutting_down]_vars

(* c64_destroy frees the context only when no thread can touch it again.    *)
NoUseAfterFree ==
    destroyPc = "freed" =>
        /\ workerPc = "none"
        /\ callPc["ui"] = "idle" /\ callPc["proc"] = "none"
        /\ mutex = "free"

(* c64_destroy ends: it never waits for a thread that waits for it, though  *)
(* it joins the worker while it holds retry_thread_mutex, and the worker    *)
(* joins the processor thread, which takes that mutex.                     *)
DestroyEnds == destroyPc # "alive" ~> destroyPc = "freed"

(* A call that returned while somebody owns the slot is followed by an      *)
(* attempt that reads the configuration afterwards (c64_retry_thread_main   *)
(* repeats the attempt), unless the source is being destroyed or the owner  *)
(* gives up because its thread cannot be created.                          *)
Returned(s) == callPc[s] \in {"idle", "none"}
GivesUp == \E s \in Schedulers : callPc[s] \in {"free_progress", "free_active"}
OwnedRequestServed ==
    \A s \in Schedulers :
        (s \in unserved /\ Returned(s) /\ retry_thread_active = 1)
            ~> (s \notin unserved \/ retry_shutting_down \/ GivesUp)

(* A settings change is always followed by such an attempt: the request it  *)
(* leaves while an attempt runs "is never lost" (c64_schedule_retry).      *)
SettingsChangeServed ==
    "ui" \in unserved ~> ("ui" \notin unserved \/ retry_shutting_down)

-----------------------------------------------------------------------------
(* The inductive invariant behind SlotExclusive, ProgressFree, NoStrayWorker*)
(* and NoUseAfterFree.                                                     *)

Attempting ==
    workerPc \in {"clear", "read", "attempt", "join_receivers", "start_audio",
                  "abort_join", "stops", "end_attempt"}

\* The mutex, the thread handle and the progress of c64_destroy agree.
HandleInv ==
    /\ \A s \in Schedulers : mutex = s <=> callPc[s] \in {"join", "create"}
    /\ mutex = "destroy" <=> destroyPc \in {"join", "unlock"}
    /\ retry_shutting_down <=> destroyPc \notin {"alive", "lock"}
    /\ retry_shutting_down => mutex \in {"free", "destroy"}
    /\ destroyPc # "alive" => callPc["ui"] = "idle"
    /\ retry_thread_valid <=> workerPc # "none"
    /\ \A s \in Schedulers : callPc[s] = "create" => workerPc = "none"
    /\ destroyPc \in {"unlock", "stops", "join_receivers", "freed"} => workerPc = "none"
    /\ destroyPc = "freed" => callPc["proc"] = "none"

\* The slot flag is set while somebody owns the slot; c64_destroy clears it
\* only when nobody but a call about to give up can own it.
SlotInv ==
    /\ \A s \in Schedulers : CallHolds(s) => ~WorkerHolds
    /\ ~(CallHolds("ui") /\ CallHolds("proc"))
    /\ WorkerHolds => retry_thread_active = 1
    /\ \A s \in Schedulers :
          CallHolds(s) /\ (workerPc # "none" \/ ~retry_shutting_down)
              => retry_thread_active = 1
    /\ retry_thread_active = 1 => WorkerHolds \/ \E s \in Schedulers : CallHolds(s)

\* An attempt is marked as running only by an owner that has got that far.
ProgressInv ==
    retry_in_progress = 1 =>
        \/ Attempting
        \/ \E s \in Schedulers :
              callPc[s] \in {"lock", "join", "create", "free_progress"}

IInv == TypeOK /\ HandleInv /\ SlotInv /\ ProgressInv
=============================================================================
