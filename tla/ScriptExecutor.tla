--------------------------- MODULE ScriptExecutor ---------------------------
(***************************************************************************)
(* The thread that runs a C64Script and the threads that drive it           *)
(* (c64-script-executor.c, the loop of c64-script-vm.c, the script buttons  *)
(* of c64-properties.c, the transport rebuild and the status monitor of     *)
(* c64-source.c).  The UI thread starts, pauses, steps, resumes, stops,     *)
(* validates and destroys; the retry thread stops a script before it frees  *)
(* the REST client the script holds; the graphics thread watches the status.*)
(* The flags of the runtime are plain fields, read and written without the  *)
(* executor's mutex.                                                        *)
(*                                                                         *)
(* Windows names the schedules that the code leaves to chance:              *)
(*   "early"    the script is stopped before its thread has started: the    *)
(*              thread clears should_stop as it begins                      *)
(*   "resume"   it is resumed between the VM's test of should_pause and the *)
(*              pause itself                                                *)
(*   "step"     it is resumed before the line of a step has been executed   *)
(*   "oneline"  it loops on one source line, where the VM never pauses      *)
(*   "reload"   a broken file is validated while the script runs            *)
(*   "restart"  it is started while the retry thread is stopping the        *)
(*              previous one                                                *)
(*   "stops"    both threads stop it at once                                *)
(*   "rebuild"  it is started while the retry thread replaces the client    *)
(*   "rerun"    the monitor runs while a script is being started again      *)
(***************************************************************************)
EXTENDS Integers, FiniteSets

CONSTANTS
    Lines,      \* the script's source lines, one instruction each
    Windows

ASSUME ScriptExecutorAssumption ==
    /\ Lines \subseteq Nat \ {0} /\ IsFiniteSet(Lines) /\ Lines # {}
    /\ Windows \subseteq {"early", "resume", "step", "oneline", "reload",
                          "restart", "stops", "rebuild", "rerun"}

VARIABLES
    \* the executor, under its mutex
    status, thread_running, stop_requested,
    runtime,        \* NoRuntime, or the flags of c64script_runtime_t, and whether
                    \* a step has not come to rest (history)
    \* the virtual machine
    line,           \* source line of the instruction at ip, 0 past the end
    lastLine,       \* last_executed_line
    \* the source
    client,         \* it has a REST client
    monitor,        \* last_script_status, script_end_time # 0
    \* the threads
    pc,             \* "ui", "retry", "tick" and "vm"
    seen,           \* the status and the last status a thread has read
    paused,         \* start_paused
    destroying

vars == <<status, thread_running, stop_requested, runtime, line, lastLine,
          client, monitor, pc, seen, paused, destroying>>
executor == <<status, thread_running, stop_requested>>
vm == <<line, lastLine>>

Status == {"IDLE", "RUNNING", "PAUSED", "ERROR", "COMPLETED"}
Active == {"RUNNING", "PAUSED"}
NoRuntime == [made |-> FALSE, should_stop |-> FALSE, should_pause |-> FALSE,
              is_paused |-> FALSE, step_mode |-> FALSE, skip_waits |-> FALSE,
              stepping |-> FALSE, client |-> "none"]
Starting == {"compile", "lock", "create", "mark"}
Stopping == {"flag", "join", "joined"}
VMAlive == {"born", "loop", "pausing", "parked", "slept", "exec", "wait",
            "poll", "ok", "failed"}

At(t, here, there) == pc[t] = here /\ pc' = [pc EXCEPT ![t] = there]
Allowed(w) == w \in Windows

(* A thread's local variables end with its handler.                        *)
Forget(t) == seen' = [seen EXCEPT ![t] = "IDLE", !.last = IF t = "tick" THEN "IDLE" ELSE @]

Runtimes ==
    [made : BOOLEAN, should_stop : BOOLEAN, should_pause : BOOLEAN,
     is_paused : BOOLEAN, step_mode : BOOLEAN, skip_waits : BOOLEAN,
     stepping : BOOLEAN, client : {"none", "live", "freed"}]

PcTyped ==
    /\ DOMAIN pc = {"ui", "retry", "tick", "vm"}
    /\ pc["ui"] \in {"idle", "toggle", "pauseResume", "start", "stop"}
                    \union Starting \union Stopping \union {"stopped"}
    /\ pc["retry"] \in {"idle", "stop", "free"} \union Stopping
    /\ pc["tick"] \in {"idle", "write"}
    /\ pc["vm"] \in {"none"} \union VMAlive

TypeOK ==
    /\ status \in Status /\ thread_running \in BOOLEAN /\ stop_requested \in BOOLEAN
    /\ runtime \in Runtimes
    /\ line \in Lines \union {0} /\ lastLine \in Lines \union {0}
    /\ client \in BOOLEAN
    /\ monitor \in [last : Status, ended : BOOLEAN]
    /\ seen \in [ui : Status, tick : Status, last : Status]
    /\ paused \in BOOLEAN /\ destroying \in BOOLEAN
    /\ PcTyped

(* c64_script_executor_create, on the first use by a source                *)
Init ==
    /\ status = "IDLE" /\ thread_running = FALSE /\ stop_requested = FALSE
    /\ runtime = NoRuntime
    /\ line = 0 /\ lastLine = 0
    /\ client \in BOOLEAN
    /\ monitor = [last |-> "IDLE", ended |-> FALSE]
    /\ pc = [t \in {"ui", "retry", "tick", "vm"} |->
                IF t = "vm" THEN "none" ELSE "idle"]
    /\ seen = [ui |-> "IDLE", tick |-> "IDLE", last |-> "IDLE"]
    /\ paused = FALSE /\ destroying = FALSE

-----------------------------------------------------------------------------
(* The buttons of the properties view, on the UI thread                    *)

(* Start and stop: the status is read first, then thread_running           *)
ClickStartStop ==
    /\ At("ui", "idle", "toggle")
    /\ seen' = [seen EXCEPT !.ui = status]
    /\ UNCHANGED <<executor, runtime, vm, client, monitor, paused, destroying>>

Toggle ==
    /\ IF seen.ui \in Active \/ thread_running
         THEN At("ui", "toggle", "stop") /\ UNCHANGED paused
         ELSE At("ui", "toggle", "start") /\ paused' = FALSE
    /\ Forget("ui")
    /\ UNCHANGED <<executor, runtime, vm, client, monitor, destroying>>

ClickPauseResume ==
    /\ At("ui", "idle", "pauseResume")
    /\ seen' = [seen EXCEPT !.ui = status]
    /\ UNCHANGED <<executor, runtime, vm, client, monitor, paused, destroying>>

PauseUntested ==
    /\ seen.ui = "RUNNING" /\ At("ui", "pauseResume", "idle")
    /\ IF runtime.made
         THEN /\ runtime' = [runtime EXCEPT !.should_pause = TRUE]
              /\ status' = "PAUSED"
         ELSE UNCHANGED <<runtime, status>>
    /\ Forget("ui")
    /\ UNCHANGED <<thread_running, stop_requested, vm, client, monitor, paused, destroying>>

(* c64_script_executor_pause, unless the script has ended meanwhile        *)
Pause ==
    /\ seen.ui = "RUNNING" /\ At("ui", "pauseResume", "idle")
    /\ IF runtime.made /\ status = "RUNNING"
         THEN /\ runtime' = [runtime EXCEPT !.should_pause = TRUE]
              /\ status' = "PAUSED"
         ELSE UNCHANGED <<runtime, status>>
    /\ Forget("ui")
    /\ UNCHANGED <<thread_running, stop_requested, vm, client, monitor, paused, destroying>>

ResumeKeepsPaused ==
    /\ seen.ui = "PAUSED" /\ At("ui", "pauseResume", "idle")
    /\ Allowed("resume") \/ pc["vm"] # "pausing"
    /\ Allowed("step") \/ ~runtime.stepping
    /\ IF runtime.made /\ status = "PAUSED"
         THEN /\ runtime' = [runtime EXCEPT !.should_pause = FALSE]
              /\ status' = "RUNNING"
         ELSE UNCHANGED <<runtime, status>>
    /\ Forget("ui")
    /\ UNCHANGED <<thread_running, stop_requested, vm, client, monitor, paused, destroying>>

(* c64_script_executor_resume; it leaves step_mode and step_skip_waits      *)
Resume ==
    /\ seen.ui = "PAUSED" /\ At("ui", "pauseResume", "idle")
    /\ Allowed("resume") \/ pc["vm"] # "pausing"
    /\ Allowed("step") \/ ~runtime.stepping
    /\ IF runtime.made /\ status = "PAUSED"
         THEN /\ runtime' = [runtime EXCEPT !.is_paused = FALSE, !.should_pause = FALSE]
              /\ status' = "RUNNING"
         ELSE UNCHANGED <<runtime, status>>
    /\ Forget("ui")
    /\ UNCHANGED <<thread_running, stop_requested, vm, client, monitor, paused, destroying>>

(* The pause button starts a script that does not run, in debug mode       *)
StartDebug ==
    /\ seen.ui \notin Active /\ At("ui", "pauseResume", "start")
    /\ paused' = TRUE
    /\ Forget("ui")
    /\ UNCHANGED <<executor, runtime, vm, client, monitor, destroying>>

(* c64_script_executor_step: the script stays PAUSED                       *)
ClickStep ==
    /\ pc["ui"] = "idle" /\ runtime.made /\ status = "PAUSED"
    /\ runtime' = [runtime EXCEPT !.step_mode = TRUE, !.skip_waits = TRUE,
                                  !.stepping = TRUE]
    /\ UNCHANGED <<executor, vm, client, monitor, pc, seen, paused, destroying>>

(* c64_script_executor_validate_file: a throw-away compilation             *)
ClickReload ==
    /\ pc["ui"] = "idle"
    /\ Allowed("reload") \/ ~thread_running
    /\ \E ok \in BOOLEAN :
         status' = IF ~ok THEN "ERROR" ELSE IF status = "ERROR" THEN "IDLE" ELSE status
    /\ UNCHANGED <<thread_running, stop_requested, runtime, vm, client, monitor,
                   pc, seen, paused, destroying>>

(* c64_attempt_script_autostart, when the settings change                  *)
Autostart ==
    /\ status \notin Active /\ At("ui", "idle", "start")
    /\ paused' = FALSE
    /\ UNCHANGED <<executor, runtime, vm, client, monitor, seen, destroying>>

-----------------------------------------------------------------------------
(* c64_script_executor_start_internal                                      *)

StartTestKeepsEnd ==
    /\ IF thread_running
         THEN /\ At("ui", "start", "idle")
              /\ monitor' = [monitor EXCEPT !.last = "IDLE", !.ended = TRUE]
         ELSE /\ At("ui", "start", "compile")
              /\ monitor' = [monitor EXCEPT !.last = "IDLE"]
    /\ Allowed("restart") \/ pc["retry"] \notin Stopping
    /\ Allowed("rebuild") \/ pc["retry"] \notin {"stop", "free"}
    /\ Allowed("rerun") \/ pc["tick"] = "idle"
    /\ UNCHANGED <<executor, runtime, vm, client, seen, paused, destroying>>

(* The caller has forgotten the last run; a running script refuses.        *)
StartTest ==
    /\ IF thread_running
         THEN /\ At("ui", "start", "idle")
              /\ monitor' = [monitor EXCEPT !.last = "IDLE", !.ended = TRUE]
         ELSE /\ At("ui", "start", "compile")
              /\ monitor' = [monitor EXCEPT !.last = "IDLE", !.ended = FALSE]
    /\ Allowed("restart") \/ pc["retry"] \notin Stopping
    /\ Allowed("rebuild") \/ pc["retry"] \notin {"stop", "free"}
    /\ Allowed("rerun") \/ pc["tick"] = "idle"
    /\ UNCHANGED <<executor, runtime, vm, client, seen, paused, destroying>>

(* The old runtime is destroyed; the new one takes the source's transport. *)
StartCompile ==
    \/ /\ At("ui", "compile", "lock")
       /\ runtime' = [NoRuntime EXCEPT !.made = TRUE, !.should_pause = paused,
                        !.client = IF client THEN "live" ELSE "none"]
       /\ UNCHANGED <<executor, vm, client, monitor, seen, paused, destroying>>
    \/ /\ At("ui", "compile", "idle")
       /\ runtime' = NoRuntime
       /\ status' = "ERROR"
       /\ monitor' = [monitor EXCEPT !.ended = TRUE]
       /\ UNCHANGED <<thread_running, stop_requested, vm, client, seen, paused, destroying>>

StartLock ==
    /\ At("ui", "lock", "create")
    /\ status' = IF paused THEN "PAUSED" ELSE "RUNNING"
    /\ thread_running' = TRUE /\ stop_requested' = FALSE
    /\ UNCHANGED <<runtime, vm, client, monitor, seen, paused, destroying>>

StartCreate ==
    \/ /\ pc["ui"] = "create"
       /\ pc' = [pc EXCEPT !["ui"] = "mark", !["vm"] = "born"]
       /\ UNCHANGED <<executor, runtime, vm, client, monitor, seen, paused, destroying>>
    \/ /\ At("ui", "create", "idle")        \* pthread_create fails
       /\ thread_running' = FALSE /\ status' = "ERROR"
       /\ runtime' = NoRuntime
       /\ monitor' = [monitor EXCEPT !.ended = TRUE]
       /\ UNCHANGED <<stop_requested, vm, client, seen, paused, destroying>>

StartMark ==
    /\ At("ui", "mark", "idle")
    /\ monitor' = [monitor EXCEPT !.last = IF paused THEN "PAUSED" ELSE "RUNNING"]
    /\ paused' = FALSE
    /\ UNCHANGED <<executor, runtime, vm, client, seen, destroying>>

-----------------------------------------------------------------------------
(* c64_script_executor_stop, by the UI thread or by the retry thread       *)

StopLock(t) ==
    /\ IF thread_running
         THEN At(t, "stop", "flag")
         ELSE At(t, "stop", IF t = "ui" THEN "stopped" ELSE "free")
    /\ Allowed("stops") \/ \A u \in {"ui", "retry"} : pc[u] \notin Stopping
    /\ stop_requested' = thread_running
    /\ UNCHANGED <<status, thread_running, runtime, vm, client, monitor, seen,
                   paused, destroying>>

StopFlagForgotten(t) ==
    /\ At(t, "flag", "join")
    /\ Allowed("early") \/ pc["vm"] # "born"
    /\ UNCHANGED <<executor, runtime, vm, client, monitor, seen, paused, destroying>>

StopFlag(t) ==
    /\ At(t, "flag", "join")
    /\ Allowed("early") \/ pc["vm"] # "born"
    /\ runtime' = [runtime EXCEPT !.should_stop = runtime.made]
    /\ UNCHANGED <<executor, vm, client, monitor, seen, paused, destroying>>

StopJoin(t) ==
    /\ pc["vm"] = "none"
    /\ At(t, "join", "joined")
    /\ UNCHANGED <<executor, runtime, vm, client, monitor, seen, paused, destroying>>

StopEnd(t) ==
    /\ At(t, "joined", IF t = "ui" THEN "stopped" ELSE "free")
    /\ thread_running' = FALSE
    /\ status' = IF status = "RUNNING" THEN "IDLE" ELSE status
    /\ UNCHANGED <<stop_requested, runtime, vm, client, monitor, seen, paused, destroying>>

(* The button's handler ends, or c64_destroy frees the executor; a source   *)
(* that is created again begins anew.                                       *)
Stopped ==
    /\ At("ui", "stopped", "idle")
    /\ IF destroying
         THEN /\ status' = "IDLE" /\ stop_requested' = FALSE /\ runtime' = NoRuntime
              /\ monitor' = [last |-> "IDLE", ended |-> FALSE]
         ELSE /\ monitor' = [monitor EXCEPT !.ended = TRUE]
              /\ UNCHANGED <<status, stop_requested, runtime>>
    /\ destroying' = FALSE
    /\ UNCHANGED <<thread_running, vm, client, seen, paused>>

(* c64_destroy has joined the retry thread before it destroys the executor *)
Destroy ==
    /\ pc["retry"] = "idle" /\ pc["tick"] = "idle"
    /\ At("ui", "idle", "stop")
    /\ destroying' = TRUE
    /\ UNCHANGED <<executor, runtime, vm, client, monitor, seen, paused>>

-----------------------------------------------------------------------------
(* c64_rebuild_rest_client on the retry thread                             *)

RebuildByStatus ==
    /\ ~destroying
    /\ At("retry", "idle", IF status = "RUNNING" THEN "stop" ELSE "free")
    /\ Allowed("rebuild") \/ pc["ui"] \notin Starting
    /\ UNCHANGED <<executor, runtime, vm, client, monitor, seen, paused, destroying>>

(* A valid target is given to the client there is, and the script goes on;  *)
(* without one, or when that fails, a running script is stopped and the     *)
(* client freed.                                                            *)
Rebuild ==
    /\ ~destroying
    /\ At("retry", "idle", IF thread_running THEN "stop" ELSE "free")
    /\ Allowed("rebuild") \/ pc["ui"] \notin Starting
    /\ UNCHANGED <<executor, runtime, vm, client, monitor, seen, paused, destroying>>

RebuildFree ==
    /\ At("retry", "free", "idle")
    /\ runtime' = [runtime EXCEPT !.client = IF @ = "live" THEN "freed" ELSE @]
    /\ client' \in BOOLEAN           \* a valid address gets a new client
    /\ UNCHANGED <<executor, vm, monitor, seen, paused, destroying>>

-----------------------------------------------------------------------------
(* The monitor of c64_video_tick                                           *)

TickRead ==
    /\ ~destroying /\ status # monitor.last
    /\ Allowed("rerun") \/ pc["ui"] \notin Starting
    /\ At("tick", "idle", "write")
    /\ seen' = [seen EXCEPT !.tick = status, !.last = monitor.last]
    /\ UNCHANGED <<executor, runtime, vm, client, monitor, paused, destroying>>

TickWrite ==
    /\ At("tick", "write", "idle")
    /\ LET ends == \/ seen.tick \in {"COMPLETED", "ERROR"}
                   \/ seen.tick = "IDLE" /\ seen.last = "RUNNING"
       IN  monitor' = [last |-> seen.tick, ended |-> monitor.ended \/ ends]
    /\ Forget("tick")
    /\ UNCHANGED <<executor, runtime, vm, client, paused, destroying>>

-----------------------------------------------------------------------------
(* The script's thread: script_thread_main and c64script_vm_execute        *)

VMStart ==
    /\ At("vm", "born", "loop")
    /\ runtime' = [runtime EXCEPT !.should_stop = FALSE]
    /\ line' \in Lines /\ lastLine' = 0
    /\ UNCHANGED <<executor, client, monitor, seen, paused, destroying>>

(* Pausing waits for the first instruction of another source line.         *)
Pauses == runtime.should_pause /\ line # lastLine

VMLoop ==
    /\ At("vm", "loop", CASE runtime.should_stop \/ line = 0 -> "ok"
                          [] ~runtime.should_stop /\ line # 0 /\ Pauses -> "pausing"
                          [] OTHER -> "exec")
    /\ UNCHANGED <<executor, runtime, vm, client, monitor, seen, paused, destroying>>

VMPauseKeepsSkip ==
    /\ At("vm", "pausing", "parked")
    /\ runtime' = [runtime EXCEPT !.is_paused = TRUE, !.should_pause = FALSE,
                                  !.stepping = runtime.step_mode]
    /\ UNCHANGED <<executor, vm, client, monitor, seen, paused, destroying>>

VMPause ==
    /\ At("vm", "pausing", "parked")
    /\ runtime' = [runtime EXCEPT !.is_paused = TRUE, !.should_pause = FALSE,
                                  !.skip_waits = FALSE, !.stepping = runtime.step_mode]
    /\ UNCHANGED <<executor, vm, client, monitor, seen, paused, destroying>>

VMParked ==
    /\ At("vm", "parked", CASE runtime.should_stop -> "ok"
                            [] ~runtime.should_stop /\ runtime.is_paused -> "slept"
                            [] OTHER -> "exec")
    /\ UNCHANGED <<executor, runtime, vm, client, monitor, seen, paused, destroying>>

(* After 10 ms: a step leaves the pause and asks for the next one.         *)
VMSlept ==
    /\ IF runtime.step_mode
         THEN /\ At("vm", "slept", IF runtime.should_stop THEN "ok" ELSE "exec")
              /\ runtime' = [runtime EXCEPT !.step_mode = FALSE, !.skip_waits = TRUE,
                                            !.is_paused = FALSE, !.should_pause = TRUE]
         ELSE At("vm", "slept", "parked") /\ UNCHANGED runtime
    /\ UNCHANGED <<executor, vm, client, monitor, seen, paused, destroying>>

VMExecRunsOn ==
    /\ At("vm", "exec", "loop")
    /\ lastLine' = line /\ line' = line + 1
    /\ UNCHANGED runtime

(* An instruction fails, waits (unless waits are skipped) or goes on with  *)
(* the next line, another one or the end.                                  *)
VMExec ==
    \/ At("vm", "exec", "failed") /\ UNCHANGED <<runtime, vm>>
    \/ /\ At("vm", "exec", "wait") \/ At("vm", "exec", "poll")
       /\ ~(runtime.is_paused \/ runtime.step_mode \/ runtime.skip_waits)
       /\ UNCHANGED <<runtime, vm>>
    \/ /\ At("vm", "exec", "loop")
       /\ lastLine' = line
       /\ line' \in {l \in Lines \union {0} : l # line \/ Allowed("oneline")}
       /\ UNCHANGED runtime

VMStep == VMExec /\ UNCHANGED <<executor, client, monitor, seen, paused, destroying>>

(* WAIT sleeps in slices of 50 ms, and looks at should_stop only; WAIT for   *)
(* a memory cell polls until it matches, for ever if it must.               *)
AfterWait(here) ==
    /\ At("vm", here, "loop")
    /\ lastLine' = line /\ line' \in (Lines \union {0}) \ {line}
    /\ UNCHANGED <<executor, runtime, client, monitor, seen, paused, destroying>>

VMWait == AfterWait("wait") \/ (runtime.should_stop /\ AfterWait("poll"))
VMMatch == AfterWait("poll")

VMEnd ==
    /\ pc["vm"] \in {"ok", "failed"}
    /\ pc' = [pc EXCEPT !["vm"] = "none"]
    /\ thread_running' = FALSE
    /\ status' = CASE stop_requested -> "IDLE"
                   [] ~stop_requested /\ pc["vm"] = "failed" -> "ERROR"
                   [] OTHER -> "COMPLETED"
    /\ line' = 0 /\ lastLine' = 0
    /\ UNCHANGED <<stop_requested, runtime, client, monitor, seen, paused, destroying>>

-----------------------------------------------------------------------------
Click == ClickStartStop \/ ClickPauseResume \/ ClickStep \/ ClickReload
         \/ Autostart \/ Destroy
Handle == Toggle \/ Pause \/ Resume \/ StartDebug \/ StartTest \/ StartCompile
          \/ StartLock \/ StartCreate \/ StartMark \/ Stopped
StopBy(t) == StopLock(t) \/ StopFlag(t) \/ StopJoin(t) \/ StopEnd(t)
Tick == TickRead \/ TickWrite
VM == VMStart \/ VMLoop \/ VMPause \/ VMParked \/ VMSlept \/ VMStep \/ VMWait \/ VMEnd

Next == \/ Click \/ Handle \/ Rebuild \/ RebuildFree \/ Tick \/ VM \/ VMMatch
        \/ \E t \in {"ui", "retry"} : StopBy(t)

Spec == Init /\ [][Next]_vars

(* Every thread that can take a step takes one; users click when they like, *)
(* a WAIT ends, but a memory cell need never match.                         *)
Fairness ==
    /\ WF_vars(Handle) /\ WF_vars(StopBy("ui")) /\ WF_vars(StopBy("retry"))
    /\ WF_vars(RebuildFree) /\ WF_vars(TickWrite)
    /\ WF_vars(VM)

FairSpec == Spec /\ Fairness

-----------------------------------------------------------------------------
(* The status tells whether a script's thread is there: the buttons decide  *)
(* by it whether to start or to stop, and pausing needs RUNNING.            *)
StatusAgrees == thread_running <=> status \in Active

(* Nobody frees the runtime, or the REST client it points to, while the VM  *)
(* uses it: starting destroys the old runtime when thread_running is clear,  *)
(* a rebuild stops the script first.                                        *)
RuntimeInUse ==
    pc["vm"] \in VMAlive => thread_running /\ runtime.made /\ runtime.client # "freed"

(* pthread_join on one thread is never called by two threads at once: the   *)
(* window "stops" is where it is.                                            *)
OneJoiner == ~(pc["ui"] = "join" /\ pc["retry"] = "join")

(* With no handler under way, the properties do not show the end of an      *)
(* earlier run for a script that is running.                                *)
EndIsOfThisRun ==
    thread_running /\ pc["ui"] = "idle" /\ pc["tick"] = "idle" => ~monitor.ended

(* A script shown as running honours its WAITs and has no step left over.   *)
RunningHonoursWaits ==
    status = "RUNNING" => ~runtime.skip_waits /\ ~runtime.step_mode

(* Stopping ends: the join of the script's thread returns, also when the    *)
(* script is paused or waits.                                               *)
StopEnds == \A t \in {"ui", "retry"} : pc[t] = "join" ~> pc[t] # "join"

(* A paused script comes to rest on a line unless it waits for memory, ends, *)
(* or is told otherwise.                                                     *)
PauseParks == status = "PAUSED" ~> \/ pc["vm"] \in {"parked", "slept", "poll"}
                                   \/ status # "PAUSED"

(* A resumed script goes on.                                                *)
ResumeRuns == status = "RUNNING" ~> pc["vm"] \notin {"parked", "slept"} \/ status # "RUNNING"

(* Pausing and resuming take effect (c64-script-executor.c:638-666,         *)
(* c64-script-vm.c:58-75).                                                  *)
PauseObeyed == PauseParks /\ ResumeRuns

(* The status is that of the thread there is, the thread's runtime lives    *)
(* while it is used, the end that is reported is this run's, and waits are  *)
(* skipped only while stepping (c64-script-executor.c).                     *)
ExecutorInv == TypeOK /\ StatusAgrees /\ RuntimeInUse /\ EndIsOfThisRun /\ RunningHonoursWaits

-----------------------------------------------------------------------------
(* ExecutorInv is not inductive: that the flags, the status and the runtime *)
(* agree is nowhere recorded, it follows from where the threads stand.      *)

(* Only the UI thread starts a script, after it has seen that none runs;    *)
(* the script's own end and the end of a stop clear thread_running.         *)
WhoRuns ==
    /\ pc["vm"] = "none" /\ thread_running => pc["ui"] = "create"
    /\ pc["ui"] \in {"start", "compile", "lock", "joined", "stopped"} => ~thread_running
    /\ pc["ui"] = "pauseResume" /\ seen.ui \notin Active => ~thread_running
    /\ pc["ui"] = "create" => thread_running /\ pc["vm"] = "none"
    /\ pc["retry"] \in {"joined", "free"} => ~thread_running
    /\ pc["ui"] \in Starting => pc["retry"] = "idle" /\ pc["tick"] = "idle"

(* A runtime that a thread is about to be created for is whole and new.     *)
FreshRuntime ==
    pc["ui"] \in {"lock", "create"} =>
        runtime.made /\ runtime.client # "freed" /\ ~runtime.stepping

(* The monitor has seen nothing but this run while it runs.                 *)
MonitorInv ==
    /\ pc["ui"] \in Starting => ~monitor.ended
    /\ thread_running => ~monitor.ended /\ (pc["tick"] = "write" => seen.tick \in Active)

(* The marks of a step are gone when the step has come to rest.             *)
StepInv ==
    /\ ~runtime.stepping => ~runtime.skip_waits /\ ~runtime.step_mode
    /\ status = "RUNNING" => ~runtime.stepping

IInv == ExecutorInv /\ WhoRuns /\ FreshRuntime /\ MonitorInv /\ StepInv
=============================================================================
