------------------------ MODULE ScriptExecutorProof ------------------------
(***************************************************************************)
(* Proofs about ScriptExecutor: what its status, runtime and monitor say    *)
(* of the script's thread holds for every script, in every interleaving     *)
(* that keeps five of its windows closed; the other four may be open.       *)
(***************************************************************************)
EXTENDS ScriptExecutor, TLAPS

(* The windows with which ExecutorInv is false are closed in this proof.    *)
Quiet == Windows \cap {"step", "reload", "restart", "rebuild", "rerun"} = {}

(* A new runtime has the fields of one, whatever it is made with.           *)
LEMMA NewRuntimeTyped ==
    /\ NoRuntime \in Runtimes
    /\ \A p \in BOOLEAN, c \in {"none", "live"} :
          [NoRuntime EXCEPT !.made = TRUE, !.should_pause = p, !.client = c] \in Runtimes
BY DEF NoRuntime, Runtimes

(* Every thread stays within its own points. *)
LEMMA PcStaysTyped ==
    ASSUME PcTyped, [Next]_vars
    PROVE  PcTyped'
<1> USE DEF PcTyped, VMAlive, At, Allowed, executor, vm, Starting, Stopping
<1>1. CASE ClickStartStop
  BY <1>1 DEF ClickStartStop
<1>2. CASE Toggle
  BY <1>2 DEF Toggle
<1>3. CASE ClickPauseResume
  BY <1>3 DEF ClickPauseResume
<1>4. CASE Pause
  BY <1>4 DEF Pause
<1>5. CASE Resume
  BY <1>5 DEF Resume
<1>6. CASE StartDebug
  BY <1>6 DEF StartDebug
<1>7. CASE ClickStep
  BY <1>7 DEF ClickStep
<1>8. CASE ClickReload
  BY <1>8 DEF ClickReload
<1>9. CASE Autostart
  BY <1>9 DEF Autostart
<1>10. CASE StartTest
  BY <1>10 DEF StartTest
<1>11. CASE StartCompile
  BY <1>11 DEF StartCompile
<1>12. CASE StartLock
  BY <1>12 DEF StartLock
<1>13. CASE StartCreate
  BY <1>13 DEF StartCreate
<1>14. CASE StartMark
  BY <1>14 DEF StartMark
<1>15. CASE Stopped
  BY <1>15 DEF Stopped
<1>16. CASE Destroy
  BY <1>16 DEF Destroy
<1>17. CASE Rebuild
  BY <1>17 DEF Rebuild
<1>18. CASE RebuildFree
  BY <1>18 DEF RebuildFree
<1>19. CASE TickRead
  BY <1>19 DEF TickRead
<1>20. CASE TickWrite
  BY <1>20 DEF TickWrite
<1>21. CASE VMStart
  BY <1>21 DEF VMStart
<1>22. CASE VMLoop
  BY <1>22 DEF VMLoop, Pauses
<1>23. CASE VMPause
  BY <1>23 DEF VMPause
<1>24. CASE VMParked
  BY <1>24 DEF VMParked
<1>25. CASE VMSlept
  BY <1>25 DEF VMSlept
<1>26. CASE VMStep
  BY <1>26 DEF VMStep, VMExec
<1>27. CASE VMWait
  BY <1>27 DEF VMWait, AfterWait
<1>28. CASE VMMatch
  BY <1>28 DEF VMMatch, AfterWait
<1>29. CASE VMEnd
  BY <1>29 DEF VMEnd
<1>30. CASE StopLock("ui")
  BY <1>30 DEF StopLock
<1>31. CASE StopLock("retry")
  BY <1>31 DEF StopLock
<1>32. CASE StopFlag("ui")
  BY <1>32 DEF StopFlag
<1>33. CASE StopFlag("retry")
  BY <1>33 DEF StopFlag
<1>34. CASE StopJoin("ui")
  BY <1>34 DEF StopJoin
<1>35. CASE StopJoin("retry")
  BY <1>35 DEF StopJoin
<1>36. CASE StopEnd("ui")
  BY <1>36 DEF StopEnd
<1>37. CASE StopEnd("retry")
  BY <1>37 DEF StopEnd
<1>38. CASE UNCHANGED vars
  BY <1>38 DEF vars
<1> QED
  BY <1>1, <1>2, <1>3, <1>4, <1>5, <1>6, <1>7, <1>8, <1>9, <1>10, <1>11, <1>12, <1>13, <1>14, <1>15,
     <1>16, <1>17, <1>18, <1>19, <1>20, <1>21, <1>22, <1>23, <1>24, <1>25, <1>26, <1>27, <1>28,
     <1>29, <1>30, <1>31, <1>32, <1>33, <1>34, <1>35, <1>36, <1>37, <1>38 DEF Next, Click, Handle,
     StopBy, Tick, VM

(* A pause ends: these fields of the runtime are left alone.                *)
LEMMA Unpaused ==
    ASSUME runtime \in Runtimes,
           \/ UNCHANGED runtime
           \/ runtime' = [runtime EXCEPT !.is_paused = FALSE, !.should_pause = FALSE]
           \/ runtime' = [runtime EXCEPT !.step_mode = FALSE, !.skip_waits = TRUE,
                                         !.is_paused = FALSE, !.should_pause = TRUE]
    PROVE  /\ runtime' \in Runtimes /\ runtime'.made = runtime.made
           /\ runtime'.client = runtime.client /\ runtime'.stepping = runtime.stepping
<1>1. CASE UNCHANGED runtime
  BY <1>1
<1>2. CASE runtime' = [runtime EXCEPT !.is_paused = FALSE, !.should_pause = FALSE]
  BY <1>2 DEF Runtimes
<1>3. CASE runtime' = [runtime EXCEPT !.step_mode = FALSE, !.skip_waits = TRUE,
                                      !.is_paused = FALSE, !.should_pause = TRUE]
  BY <1>3 DEF Runtimes
<1> QED
  BY <1>1, <1>2, <1>3

(* The runtime keeps its fields. *)
LEMMA RuntimeStaysTyped ==
    ASSUME TypeOK, [Next]_vars
    PROVE  runtime' \in Runtimes
<1> USE DEF TypeOK, Runtimes, NoRuntime, Allowed, executor, vm
<1>1. CASE Pause
  BY <1>1 DEF Pause
<1>2. CASE Resume
  <2>1. \/ UNCHANGED runtime
        \/ runtime' = [runtime EXCEPT !.is_paused = FALSE, !.should_pause = FALSE]
    BY <1>2 DEF Resume
  <2> HIDE DEF Runtimes
  <2> QED
    BY <2>1, Unpaused
<1>3. CASE ClickStep
  BY <1>3 DEF ClickStep
<1>4. CASE StartCompile
  <2>1. \/ runtime' = NoRuntime
        \/ \E p \in BOOLEAN, c \in {"none", "live"} :
              runtime' = [NoRuntime EXCEPT !.made = TRUE, !.should_pause = p, !.client = c]
    <3> HIDE DEF Runtimes, NoRuntime
    <3> QED
      BY <1>4 DEF StartCompile
  <2> HIDE DEF Runtimes, NoRuntime
  <2> QED
    BY <2>1, NewRuntimeTyped
<1>5. CASE StartCreate
  <2>1. runtime' = NoRuntime \/ runtime' = runtime
    BY <1>5 DEF StartCreate
  <2> HIDE DEF Runtimes, NoRuntime
  <2> QED
    BY <2>1, NewRuntimeTyped
<1>6. CASE Stopped
  <2>1. runtime' = NoRuntime \/ runtime' = runtime
    BY <1>6 DEF Stopped
  <2> HIDE DEF Runtimes, NoRuntime
  <2> QED
    BY <2>1, NewRuntimeTyped
<1>7. CASE RebuildFree
  BY <1>7 DEF RebuildFree
<1>8. CASE VMStart
  BY <1>8 DEF VMStart
<1>9. CASE VMPause
  BY <1>9 DEF VMPause
<1>10. CASE VMSlept
  <2>1. \/ UNCHANGED runtime
        \/ runtime' = [runtime EXCEPT !.step_mode = FALSE, !.skip_waits = TRUE,
                                      !.is_paused = FALSE, !.should_pause = TRUE]
    BY <1>10 DEF VMSlept
  <2> HIDE DEF Runtimes
  <2> QED
    BY <2>1, Unpaused
<1>11. CASE StopFlag("ui")
  BY <1>11 DEF StopFlag
<1>12. CASE StopFlag("retry")
  BY <1>12 DEF StopFlag
<1>13. CASE ClickStartStop \/ Toggle \/ ClickPauseResume \/ StartDebug \/ ClickReload \/ Autostart
          \/ StartTest \/ StartLock
  BY <1>13 DEF ClickStartStop, Toggle, ClickPauseResume, StartDebug, ClickReload, Autostart,
     StartTest, StartLock
<1>14. CASE StartMark \/ Destroy \/ Rebuild \/ TickRead \/ TickWrite \/ VMLoop \/ VMParked \/ VMStep
  BY <1>14 DEF StartMark, Destroy, Rebuild, TickRead, TickWrite, VMLoop, Pauses, VMParked, VMStep,
     VMExec
<1>15. CASE VMWait \/ VMMatch \/ VMEnd
  BY <1>15 DEF VMWait, AfterWait, VMMatch, VMEnd
<1>16. CASE StopLock("ui") \/ StopLock("retry")
  BY <1>16 DEF StopLock
<1>17. CASE StopJoin("ui") \/ StopJoin("retry")
  BY <1>17 DEF StopJoin
<1>18. CASE StopEnd("ui") \/ StopEnd("retry")
  BY <1>18 DEF StopEnd
<1>19. CASE UNCHANGED vars
  BY <1>19 DEF vars
<1> QED
  BY <1>1, <1>2, <1>3, <1>4, <1>5, <1>6, <1>7, <1>8, <1>9, <1>10, <1>11, <1>12, <1>13, <1>14, <1>15,
     <1>16, <1>17, <1>18, <1>19 DEF Next, Click, Handle, StopBy, Tick, VM

(* So do the other variables. *)
LEMMA TypesStay ==
    ASSUME TypeOK, runtime' \in Runtimes, PcTyped', [Next]_vars
    PROVE  TypeOK'
<1> USE DEF TypeOK, Status, At, Allowed, Forget, executor, vm, Active, Starting, Stopping
<1>1. CASE ClickStartStop
  <2>1. status' \in Status /\ seen' \in [ui : Status, tick : Status, last : Status]
    BY <1>1 DEF ClickStartStop
  <2>2. monitor' \in [last : Status, ended : BOOLEAN]
    BY <1>1 DEF ClickStartStop
  <2>3. /\ thread_running' \in BOOLEAN /\ stop_requested' \in BOOLEAN /\ client' \in BOOLEAN
        /\ paused' \in BOOLEAN /\ destroying' \in BOOLEAN
        /\ line' \in Lines \union {0} /\ lastLine' \in Lines \union {0}
    BY <1>1 DEF ClickStartStop
  <2> QED
    BY <2>1, <2>2, <2>3
<1>2. CASE Toggle
  <2>1. status' \in Status /\ seen' \in [ui : Status, tick : Status, last : Status]
    BY <1>2 DEF Toggle
  <2>2. monitor' \in [last : Status, ended : BOOLEAN]
    BY <1>2 DEF Toggle
  <2>3. /\ thread_running' \in BOOLEAN /\ stop_requested' \in BOOLEAN /\ client' \in BOOLEAN
        /\ paused' \in BOOLEAN /\ destroying' \in BOOLEAN
        /\ line' \in Lines \union {0} /\ lastLine' \in Lines \union {0}
    BY <1>2 DEF Toggle
  <2> QED
    BY <2>1, <2>2, <2>3
<1>3. CASE ClickPauseResume
  <2>1. status' \in Status /\ seen' \in [ui : Status, tick : Status, last : Status]
    BY <1>3 DEF ClickPauseResume
  <2>2. monitor' \in [last : Status, ended : BOOLEAN]
    BY <1>3 DEF ClickPauseResume
  <2>3. /\ thread_running' \in BOOLEAN /\ stop_requested' \in BOOLEAN /\ client' \in BOOLEAN
        /\ paused' \in BOOLEAN /\ destroying' \in BOOLEAN
        /\ line' \in Lines \union {0} /\ lastLine' \in Lines \union {0}
    BY <1>3 DEF ClickPauseResume
  <2> QED
    BY <2>1, <2>2, <2>3
<1>4. CASE Pause
  <2>1. status' \in Status /\ seen' \in [ui : Status, tick : Status, last : Status]
    BY <1>4 DEF Pause
  <2>2. monitor' \in [last : Status, ended : BOOLEAN]
    BY <1>4 DEF Pause
  <2>3. /\ thread_running' \in BOOLEAN /\ stop_requested' \in BOOLEAN /\ client' \in BOOLEAN
        /\ paused' \in BOOLEAN /\ destroying' \in BOOLEAN
        /\ line' \in Lines \union {0} /\ lastLine' \in Lines \union {0}
    BY <1>4 DEF Pause
  <2> QED
    BY <2>1, <2>2, <2>3
<1>5. CASE Resume
  <2>1. status' \in Status /\ seen' \in [ui : Status, tick : Status, last : Status]
    BY <1>5 DEF Resume
  <2>2. monitor' \in [last : Status, ended : BOOLEAN]
    BY <1>5 DEF Resume
  <2>3. /\ thread_running' \in BOOLEAN /\ stop_requested' \in BOOLEAN /\ client' \in BOOLEAN
        /\ paused' \in BOOLEAN /\ destroying' \in BOOLEAN
        /\ line' \in Lines \union {0} /\ lastLine' \in Lines \union {0}
    BY <1>5 DEF Resume
  <2> QED
    BY <2>1, <2>2, <2>3
<1>6. CASE StartDebug
  <2>1. status' \in Status /\ seen' \in [ui : Status, tick : Status, last : Status]
    BY <1>6 DEF StartDebug
  <2>2. monitor' \in [last : Status, ended : BOOLEAN]
    BY <1>6 DEF StartDebug
  <2>3. /\ thread_running' \in BOOLEAN /\ stop_requested' \in BOOLEAN /\ client' \in BOOLEAN
        /\ paused' \in BOOLEAN /\ destroying' \in BOOLEAN
        /\ line' \in Lines \union {0} /\ lastLine' \in Lines \union {0}
    BY <1>6 DEF StartDebug
  <2> QED
    BY <2>1, <2>2, <2>3
<1>7. CASE ClickStep
  <2>1. status' \in Status /\ seen' \in [ui : Status, tick : Status, last : Status]
    BY <1>7 DEF ClickStep
  <2>2. monitor' \in [last : Status, ended : BOOLEAN]
    BY <1>7 DEF ClickStep
  <2>3. /\ thread_running' \in BOOLEAN /\ stop_requested' \in BOOLEAN /\ client' \in BOOLEAN
        /\ paused' \in BOOLEAN /\ destroying' \in BOOLEAN
        /\ line' \in Lines \union {0} /\ lastLine' \in Lines \union {0}
    BY <1>7 DEF ClickStep
  <2> QED
    BY <2>1, <2>2, <2>3
<1>8. CASE ClickReload
  <2>1. status' \in Status /\ seen' \in [ui : Status, tick : Status, last : Status]
    BY <1>8 DEF ClickReload
  <2>2. monitor' \in [last : Status, ended : BOOLEAN]
    BY <1>8 DEF ClickReload
  <2>3. /\ thread_running' \in BOOLEAN /\ stop_requested' \in BOOLEAN /\ client' \in BOOLEAN
        /\ paused' \in BOOLEAN /\ destroying' \in BOOLEAN
        /\ line' \in Lines \union {0} /\ lastLine' \in Lines \union {0}
    BY <1>8 DEF ClickReload
  <2> QED
    BY <2>1, <2>2, <2>3
<1>9. CASE Autostart
  <2>1. status' \in Status /\ seen' \in [ui : Status, tick : Status, last : Status]
    BY <1>9 DEF Autostart
  <2>2. monitor' \in [last : Status, ended : BOOLEAN]
    BY <1>9 DEF Autostart
  <2>3. /\ thread_running' \in BOOLEAN /\ stop_requested' \in BOOLEAN /\ client' \in BOOLEAN
        /\ paused' \in BOOLEAN /\ destroying' \in BOOLEAN
        /\ line' \in Lines \union {0} /\ lastLine' \in Lines \union {0}
    BY <1>9 DEF Autostart
  <2> QED
    BY <2>1, <2>2, <2>3
<1>10. CASE StartTest
  <2>1. status' \in Status /\ seen' \in [ui : Status, tick : Status, last : Status]
    BY <1>10 DEF StartTest
  <2>2. monitor' \in [last : Status, ended : BOOLEAN]
    <3>1. \E e \in BOOLEAN : monitor' = [monitor EXCEPT !.last = "IDLE", !.ended = e]
      BY <1>10 DEF StartTest
    <3> QED
      BY <3>1
  <2>3. /\ thread_running' \in BOOLEAN /\ stop_requested' \in BOOLEAN /\ client' \in BOOLEAN
        /\ paused' \in BOOLEAN /\ destroying' \in BOOLEAN
        /\ line' \in Lines \union {0} /\ lastLine' \in Lines \union {0}
    BY <1>10 DEF StartTest
  <2> QED
    BY <2>1, <2>2, <2>3
<1>11. CASE StartCompile
  <2>1. status' \in Status /\ seen' \in [ui : Status, tick : Status, last : Status]
    BY <1>11 DEF StartCompile
  <2>2. monitor' \in [last : Status, ended : BOOLEAN]
    BY <1>11 DEF StartCompile
  <2>3. /\ thread_running' \in BOOLEAN /\ stop_requested' \in BOOLEAN /\ client' \in BOOLEAN
        /\ paused' \in BOOLEAN /\ destroying' \in BOOLEAN
        /\ line' \in Lines \union {0} /\ lastLine' \in Lines \union {0}
    BY <1>11 DEF StartCompile
  <2> QED
    BY <2>1, <2>2, <2>3
<1>12. CASE StartLock
  <2>1. status' \in Status /\ seen' \in [ui : Status, tick : Status, last : Status]
    BY <1>12 DEF StartLock
  <2>2. monitor' \in [last : Status, ended : BOOLEAN]
    BY <1>12 DEF StartLock
  <2>3. /\ thread_running' \in BOOLEAN /\ stop_requested' \in BOOLEAN /\ client' \in BOOLEAN
        /\ paused' \in BOOLEAN /\ destroying' \in BOOLEAN
        /\ line' \in Lines \union {0} /\ lastLine' \in Lines \union {0}
    BY <1>12 DEF StartLock
  <2> QED
    BY <2>1, <2>2, <2>3
<1>13. CASE StartCreate
  <2>1. status' \in Status /\ seen' \in [ui : Status, tick : Status, last : Status]
    BY <1>13 DEF StartCreate
  <2>2. monitor' \in [last : Status, ended : BOOLEAN]
    BY <1>13 DEF StartCreate
  <2>3. /\ thread_running' \in BOOLEAN /\ stop_requested' \in BOOLEAN /\ client' \in BOOLEAN
        /\ paused' \in BOOLEAN /\ destroying' \in BOOLEAN
        /\ line' \in Lines \union {0} /\ lastLine' \in Lines \union {0}
    BY <1>13 DEF StartCreate
  <2> QED
    BY <2>1, <2>2, <2>3
<1>14. CASE StartMark
  <2>1. status' \in Status /\ seen' \in [ui : Status, tick : Status, last : Status]
    BY <1>14 DEF StartMark
  <2>2. monitor' \in [last : Status, ended : BOOLEAN]
    BY <1>14 DEF StartMark
  <2>3. /\ thread_running' \in BOOLEAN /\ stop_requested' \in BOOLEAN /\ client' \in BOOLEAN
        /\ paused' \in BOOLEAN /\ destroying' \in BOOLEAN
        /\ line' \in Lines \union {0} /\ lastLine' \in Lines \union {0}
    BY <1>14 DEF StartMark
  <2> QED
    BY <2>1, <2>2, <2>3
<1>15. CASE Stopped
  <2>1. status' \in Status /\ seen' \in [ui : Status, tick : Status, last : Status]
    BY <1>15 DEF Stopped
  <2>2. monitor' \in [last : Status, ended : BOOLEAN]
    <3>1. CASE destroying
      <4>1. monitor' = [last |-> "IDLE", ended |-> FALSE]
        BY <1>15, <3>1 DEF Stopped
      <4> QED
        BY <4>1, Zenon
    <3>2. CASE ~destroying
      BY <1>15, <3>2 DEF Stopped
    <3> QED
      BY <3>1, <3>2
  <2>3. /\ thread_running' \in BOOLEAN /\ stop_requested' \in BOOLEAN /\ client' \in BOOLEAN
        /\ paused' \in BOOLEAN /\ destroying' \in BOOLEAN
        /\ line' \in Lines \union {0} /\ lastLine' \in Lines \union {0}
    BY <1>15 DEF Stopped
  <2> QED
    BY <2>1, <2>2, <2>3
<1>16. CASE Destroy
  BY <1>16 DEF Destroy
<1>17. CASE Rebuild
  BY <1>17 DEF Rebuild
<1>18. CASE RebuildFree
  BY <1>18 DEF RebuildFree
<1>19. CASE TickRead
  <2>1. status' \in Status /\ seen' \in [ui : Status, tick : Status, last : Status]
    BY <1>19 DEF TickRead
  <2>2. monitor' \in [last : Status, ended : BOOLEAN]
    BY <1>19 DEF TickRead
  <2>3. /\ thread_running' \in BOOLEAN /\ stop_requested' \in BOOLEAN /\ client' \in BOOLEAN
        /\ paused' \in BOOLEAN /\ destroying' \in BOOLEAN
        /\ line' \in Lines \union {0} /\ lastLine' \in Lines \union {0}
    BY <1>19 DEF TickRead
  <2> QED
    BY <2>1, <2>2, <2>3
<1>20. CASE TickWrite
  <2>1. status' \in Status /\ seen' \in [ui : Status, tick : Status, last : Status]
    BY <1>20 DEF TickWrite
  <2>2. monitor' \in [last : Status, ended : BOOLEAN]
    BY <1>20 DEF TickWrite
  <2>3. /\ thread_running' \in BOOLEAN /\ stop_requested' \in BOOLEAN /\ client' \in BOOLEAN
        /\ paused' \in BOOLEAN /\ destroying' \in BOOLEAN
        /\ line' \in Lines \union {0} /\ lastLine' \in Lines \union {0}
    BY <1>20 DEF TickWrite
  <2> QED
    BY <2>1, <2>2, <2>3
<1>21. CASE VMStart
  BY <1>21 DEF VMStart
<1>22. CASE VMLoop
  BY <1>22 DEF VMLoop, Pauses
<1>23. CASE VMPause
  BY <1>23 DEF VMPause
<1>24. CASE VMParked
  BY <1>24 DEF VMParked
<1>25. CASE VMSlept
  BY <1>25 DEF VMSlept
<1>26. CASE VMStep
  BY <1>26 DEF VMStep, VMExec
<1>27. CASE VMWait
  BY <1>27 DEF VMWait, AfterWait
<1>28. CASE VMMatch
  BY <1>28 DEF VMMatch, AfterWait
<1>29. CASE VMEnd
  <2>1. status' \in Status /\ seen' \in [ui : Status, tick : Status, last : Status]
    BY <1>29 DEF VMEnd
  <2>2. monitor' \in [last : Status, ended : BOOLEAN]
    BY <1>29 DEF VMEnd
  <2>3. /\ thread_running' \in BOOLEAN /\ stop_requested' \in BOOLEAN /\ client' \in BOOLEAN
        /\ paused' \in BOOLEAN /\ destroying' \in BOOLEAN
        /\ line' \in Lines \union {0} /\ lastLine' \in Lines \union {0}
    BY <1>29 DEF VMEnd
  <2> QED
    BY <2>1, <2>2, <2>3
<1>30. CASE StopLock("ui")
  BY <1>30 DEF StopLock
<1>31. CASE StopLock("retry")
  BY <1>31 DEF StopLock
<1>32. CASE StopFlag("ui")
  BY <1>32 DEF StopFlag
<1>33. CASE StopFlag("retry")
  BY <1>33 DEF StopFlag
<1>34. CASE StopJoin("ui")
  BY <1>34 DEF StopJoin
<1>35. CASE StopJoin("retry")
  BY <1>35 DEF StopJoin
<1>36. CASE StopEnd("ui")
  <2>1. status' \in Status /\ seen' \in [ui : Status, tick : Status, last : Status]
    BY <1>36 DEF StopEnd
  <2>2. monitor' \in [last : Status, ended : BOOLEAN]
    BY <1>36 DEF StopEnd
  <2>3. /\ thread_running' \in BOOLEAN /\ stop_requested' \in BOOLEAN /\ client' \in BOOLEAN
        /\ paused' \in BOOLEAN /\ destroying' \in BOOLEAN
        /\ line' \in Lines \union {0} /\ lastLine' \in Lines \union {0}
    BY <1>36 DEF StopEnd
  <2> QED
    BY <2>1, <2>2, <2>3
<1>37. CASE StopEnd("retry")
  <2>1. status' \in Status /\ seen' \in [ui : Status, tick : Status, last : Status]
    BY <1>37 DEF StopEnd
  <2>2. monitor' \in [last : Status, ended : BOOLEAN]
    BY <1>37 DEF StopEnd
  <2>3. /\ thread_running' \in BOOLEAN /\ stop_requested' \in BOOLEAN /\ client' \in BOOLEAN
        /\ paused' \in BOOLEAN /\ destroying' \in BOOLEAN
        /\ line' \in Lines \union {0} /\ lastLine' \in Lines \union {0}
    BY <1>37 DEF StopEnd
  <2> QED
    BY <2>1, <2>2, <2>3
<1>38. CASE UNCHANGED vars
  BY <1>38 DEF vars
<1> QED
  BY <1>1, <1>2, <1>3, <1>4, <1>5, <1>6, <1>7, <1>8, <1>9, <1>10, <1>11, <1>12, <1>13, <1>14, <1>15,
     <1>16, <1>17, <1>18, <1>19, <1>20, <1>21, <1>22, <1>23, <1>24, <1>25, <1>26, <1>27, <1>28,
     <1>29, <1>30, <1>31, <1>32, <1>33, <1>34, <1>35, <1>36, <1>37, <1>38 DEF Next, Click, Handle,
     StopBy, Tick, VM

(* A status that is not active and a thread that has ended are written together. *)
LEMMA StatusKept ==
    ASSUME Quiet, status \in Status, PcTyped, StatusAgrees, WhoRuns, [Next]_vars
    PROVE  StatusAgrees'
<1> USE DEF Quiet, StatusAgrees, Status, Active, VMAlive, PcTyped, WhoRuns, At, Allowed, executor,
            vm, Starting, Stopping
<1>1. CASE Pause
  BY <1>1 DEF Pause
<1>2. CASE Resume
  BY <1>2 DEF Resume
<1>3. CASE ClickReload
  BY <1>3 DEF ClickReload
<1>4. CASE StartCompile
  BY <1>4 DEF StartCompile
<1>5. CASE StartLock
  BY <1>5 DEF StartLock
<1>6. CASE StartCreate
  BY <1>6 DEF StartCreate
<1>7. CASE Stopped
  BY <1>7 DEF Stopped
<1>8. CASE VMEnd
  BY <1>8 DEF VMEnd
<1>9. CASE StopEnd("ui")
  BY <1>9 DEF StopEnd
<1>10. CASE StopEnd("retry")
  BY <1>10 DEF StopEnd
<1>11. CASE ClickStartStop \/ Toggle \/ ClickPauseResume \/ StartDebug \/ ClickStep \/ Autostart \/
          StartTest \/ StartMark
  BY <1>11 DEF ClickStartStop, Toggle, ClickPauseResume, StartDebug, ClickStep, Autostart,
     StartTest, StartMark
<1>12. CASE Destroy \/ Rebuild \/ RebuildFree \/ TickRead \/ TickWrite \/ VMStart \/ VMLoop \/
          VMPause
  BY <1>12 DEF Destroy, Rebuild, RebuildFree, TickRead, TickWrite, VMStart, VMLoop, Pauses, VMPause
<1>13. CASE VMParked \/ VMSlept \/ VMStep \/ VMWait \/ VMMatch
  BY <1>13 DEF VMParked, VMSlept, VMStep, VMExec, VMWait, AfterWait, VMMatch
<1>14. CASE StopLock("ui") \/ StopLock("retry")
  BY <1>14 DEF StopLock
<1>15. CASE StopFlag("ui") \/ StopFlag("retry")
  BY <1>15 DEF StopFlag
<1>16. CASE StopJoin("ui") \/ StopJoin("retry")
  BY <1>16 DEF StopJoin
<1>17. CASE UNCHANGED vars
  BY <1>17 DEF vars
<1> QED
  BY <1>1, <1>2, <1>3, <1>4, <1>5, <1>6, <1>7, <1>8, <1>9, <1>10, <1>11, <1>12, <1>13, <1>14, <1>15,
     <1>16, <1>17 DEF Next, Click, Handle, StopBy, Tick, VM

(* Who runs follows from who may start and who has joined. *)
LEMMA WhoRunsKept ==
    ASSUME Quiet, PcTyped, StatusAgrees, RuntimeInUse, WhoRuns, seen \in [ui : Status, tick :
           Status, last : Status], [Next]_vars
    PROVE  WhoRuns'
<1> USE DEF Quiet, StatusAgrees, RuntimeInUse, Forget, Active, VMAlive, PcTyped, WhoRuns, At,
            Allowed, executor, vm, Starting, Stopping
<1>1. CASE ClickStartStop
  BY <1>1 DEF ClickStartStop
<1>2. CASE Toggle
  <2>1. CASE seen.ui \in Active \/ thread_running
    <3>1. At("ui", "toggle", "stop") /\ UNCHANGED <<thread_running, monitor>> /\ Forget("ui")
      BY <1>2, <2>1, Zenon DEF Toggle
    <3> QED
      BY <3>1
  <2>2. CASE ~(seen.ui \in Active \/ thread_running)
    <3>1. At("ui", "toggle", "start") /\ UNCHANGED <<thread_running, monitor>> /\ Forget("ui")
      BY <1>2, <2>2, Zenon DEF Toggle
    <3> QED
      BY <2>2, <3>1
  <2> QED
    BY <2>1, <2>2
<1>3. CASE ClickPauseResume
  BY <1>3 DEF ClickPauseResume
<1>4. CASE Pause
  BY <1>4 DEF Pause
<1>5. CASE Resume
  BY <1>5 DEF Resume
<1>6. CASE StartDebug
  BY <1>6 DEF StartDebug
<1>7. CASE ClickStep
  BY <1>7 DEF ClickStep
<1>8. CASE ClickReload
  BY <1>8 DEF ClickReload
<1>9. CASE Autostart
  BY <1>9 DEF Autostart
<1>10. CASE StartTest
  BY <1>10 DEF StartTest
<1>11. CASE StartCompile
  BY <1>11 DEF StartCompile
<1>12. CASE StartLock
  BY <1>12 DEF StartLock
<1>13. CASE StartCreate
  BY <1>13 DEF StartCreate
<1>14. CASE StartMark
  BY <1>14 DEF StartMark
<1>15. CASE Stopped
  BY <1>15 DEF Stopped
<1>16. CASE Destroy
  BY <1>16 DEF Destroy
<1>17. CASE Rebuild
  BY <1>17 DEF Rebuild
<1>18. CASE RebuildFree
  BY <1>18 DEF RebuildFree
<1>19. CASE TickRead
  BY <1>19 DEF TickRead
<1>20. CASE TickWrite
  BY <1>20 DEF TickWrite
<1>21. CASE VMStart
  BY <1>21 DEF VMStart
<1>22. CASE VMLoop
  BY <1>22 DEF VMLoop, Pauses
<1>23. CASE VMPause
  BY <1>23 DEF VMPause
<1>24. CASE VMParked
  BY <1>24 DEF VMParked
<1>25. CASE VMSlept
  BY <1>25 DEF VMSlept
<1>26. CASE VMStep
  BY <1>26 DEF VMStep, VMExec
<1>27. CASE VMWait
  BY <1>27 DEF VMWait, AfterWait
<1>28. CASE VMMatch
  BY <1>28 DEF VMMatch, AfterWait
<1>29. CASE VMEnd
  BY <1>29 DEF VMEnd
<1>30. CASE StopLock("ui")
  BY <1>30 DEF StopLock
<1>31. CASE StopLock("retry")
  BY <1>31 DEF StopLock
<1>32. CASE StopFlag("ui")
  BY <1>32 DEF StopFlag
<1>33. CASE StopFlag("retry")
  BY <1>33 DEF StopFlag
<1>34. CASE StopJoin("ui")
  BY <1>34 DEF StopJoin
<1>35. CASE StopJoin("retry")
  BY <1>35 DEF StopJoin
<1>36. CASE StopEnd("ui")
  BY <1>36 DEF StopEnd
<1>37. CASE StopEnd("retry")
  BY <1>37 DEF StopEnd
<1>38. CASE UNCHANGED vars
  BY <1>38 DEF vars
<1> QED
  BY <1>1, <1>2, <1>3, <1>4, <1>5, <1>6, <1>7, <1>8, <1>9, <1>10, <1>11, <1>12, <1>13, <1>14, <1>15,
     <1>16, <1>17, <1>18, <1>19, <1>20, <1>21, <1>22, <1>23, <1>24, <1>25, <1>26, <1>27, <1>28,
     <1>29, <1>30, <1>31, <1>32, <1>33, <1>34, <1>35, <1>36, <1>37, <1>38 DEF Next, Click, Handle,
     StopBy, Tick, VM

(* The runtime is replaced, and its client freed, only while no script's thread is there. *)
LEMMA RuntimeKept ==
    ASSUME Quiet, PcTyped, runtime \in Runtimes, RuntimeInUse, FreshRuntime, WhoRuns, [Next]_vars
    PROVE  RuntimeInUse' /\ FreshRuntime'
<1> USE DEF Quiet, Runtimes, NoRuntime, RuntimeInUse, FreshRuntime, VMAlive, PcTyped, WhoRuns, At,
            Allowed, executor, vm, Starting, Stopping
<1>1. CASE ClickStartStop
  BY <1>1 DEF ClickStartStop
<1>2. CASE Toggle
  BY <1>2 DEF Toggle
<1>3. CASE ClickPauseResume
  BY <1>3 DEF ClickPauseResume
<1>4. CASE Pause
  BY <1>4 DEF Pause
<1>5. CASE Resume
  <2>1. \/ UNCHANGED runtime
        \/ runtime' = [runtime EXCEPT !.is_paused = FALSE, !.should_pause = FALSE]
    BY <1>5 DEF Resume
  <2>2. UNCHANGED <<pc["vm"], thread_running>> /\ pc'["ui"] = "idle"
    BY <1>5 DEF Resume
  <2> HIDE DEF Runtimes
  <2> QED
    BY <2>1, <2>2, Unpaused DEF RuntimeInUse, FreshRuntime
<1>6. CASE StartDebug
  BY <1>6 DEF StartDebug
<1>7. CASE ClickStep
  BY <1>7 DEF ClickStep
<1>8. CASE ClickReload
  BY <1>8 DEF ClickReload
<1>9. CASE Autostart
  BY <1>9 DEF Autostart
<1>10. CASE StartTest
  BY <1>10 DEF StartTest
<1>11. CASE StartCompile
  BY <1>11 DEF StartCompile
<1>12. CASE StartLock
  BY <1>12 DEF StartLock
<1>13. CASE StartCreate
  BY <1>13 DEF StartCreate
<1>14. CASE StartMark
  BY <1>14 DEF StartMark
<1>15. CASE Stopped
  BY <1>15 DEF Stopped
<1>16. CASE Destroy
  BY <1>16 DEF Destroy
<1>17. CASE Rebuild
  BY <1>17 DEF Rebuild
<1>18. CASE RebuildFree
  BY <1>18 DEF RebuildFree
<1>19. CASE TickRead
  BY <1>19 DEF TickRead
<1>20. CASE TickWrite
  BY <1>20 DEF TickWrite
<1>21. CASE VMStart
  BY <1>21 DEF VMStart
<1>22. CASE VMLoop
  BY <1>22 DEF VMLoop, Pauses
<1>23. CASE VMPause
  BY <1>23 DEF VMPause
<1>24. CASE VMParked
  BY <1>24 DEF VMParked
<1>25. CASE VMSlept
  <2>1. \/ UNCHANGED runtime
        \/ runtime' = [runtime EXCEPT !.step_mode = FALSE, !.skip_waits = TRUE,
                                      !.is_paused = FALSE, !.should_pause = TRUE]
    BY <1>25 DEF VMSlept
  <2>2. UNCHANGED <<pc["ui"], thread_running>> /\ pc["vm"] = "slept"
    BY <1>25 DEF VMSlept
  <2> HIDE DEF Runtimes
  <2> QED
    BY <2>1, <2>2, Unpaused DEF RuntimeInUse, FreshRuntime
<1>26. CASE VMStep
  BY <1>26 DEF VMStep, VMExec
<1>27. CASE VMWait
  BY <1>27 DEF VMWait, AfterWait
<1>28. CASE VMMatch
  BY <1>28 DEF VMMatch, AfterWait
<1>29. CASE VMEnd
  BY <1>29 DEF VMEnd
<1>30. CASE StopLock("ui")
  BY <1>30 DEF StopLock
<1>31. CASE StopLock("retry")
  BY <1>31 DEF StopLock
<1>32. CASE StopFlag("ui")
  BY <1>32 DEF StopFlag
<1>33. CASE StopFlag("retry")
  BY <1>33 DEF StopFlag
<1>34. CASE StopJoin("ui")
  BY <1>34 DEF StopJoin
<1>35. CASE StopJoin("retry")
  BY <1>35 DEF StopJoin
<1>36. CASE StopEnd("ui")
  BY <1>36 DEF StopEnd
<1>37. CASE StopEnd("retry")
  BY <1>37 DEF StopEnd
<1>38. CASE UNCHANGED vars
  BY <1>38 DEF vars
<1> QED
  BY <1>1, <1>2, <1>3, <1>4, <1>5, <1>6, <1>7, <1>8, <1>9, <1>10, <1>11, <1>12, <1>13, <1>14, <1>15,
     <1>16, <1>17, <1>18, <1>19, <1>20, <1>21, <1>22, <1>23, <1>24, <1>25, <1>26, <1>27, <1>28,
     <1>29, <1>30, <1>31, <1>32, <1>33, <1>34, <1>35, <1>36, <1>37, <1>38 DEF Next, Click, Handle,
     StopBy, Tick, VM

(* The monitor writes the end of a run only when it has read it in this run. *)
LEMMA MonitorKept ==
    ASSUME Quiet, PcTyped, seen \in [ui : Status, tick : Status, last : Status], monitor \in [last :
           Status, ended : BOOLEAN], StatusAgrees, WhoRuns, MonitorInv, [Next]_vars
    PROVE  MonitorInv'
<1> USE DEF Quiet, StatusAgrees, MonitorInv, Forget, Active, VMAlive, PcTyped, WhoRuns, At, Allowed,
            executor, vm, Starting, Stopping
<1>1. CASE Toggle
  <2>1. CASE seen.ui \in Active \/ thread_running
    <3>1. At("ui", "toggle", "stop") /\ UNCHANGED <<thread_running, monitor>> /\ Forget("ui")
      BY <1>1, <2>1, Zenon DEF Toggle
    <3> QED
      BY <3>1
  <2>2. CASE ~(seen.ui \in Active \/ thread_running)
    <3>1. At("ui", "toggle", "start") /\ UNCHANGED <<thread_running, monitor>> /\ Forget("ui")
      BY <1>1, <2>2, Zenon DEF Toggle
    <3> QED
      BY <2>2, <3>1
  <2> QED
    BY <2>1, <2>2
<1>2. CASE ClickPauseResume
  BY <1>2 DEF ClickPauseResume
<1>3. CASE StartTest
  BY <1>3 DEF StartTest
<1>4. CASE StartCompile
  BY <1>4 DEF StartCompile
<1>5. CASE StartLock
  BY <1>5 DEF StartLock
<1>6. CASE StartCreate
  BY <1>6 DEF StartCreate
<1>7. CASE StartMark
  BY <1>7 DEF StartMark
<1>8. CASE Stopped
  BY <1>8 DEF Stopped
<1>9. CASE Rebuild
  BY <1>9 DEF Rebuild
<1>10. CASE TickRead
  BY <1>10 DEF TickRead
<1>11. CASE TickWrite
  BY <1>11 DEF TickWrite
<1>12. CASE VMEnd
  BY <1>12 DEF VMEnd
<1>13. CASE StopEnd("ui")
  BY <1>13 DEF StopEnd
<1>14. CASE StopEnd("retry")
  BY <1>14 DEF StopEnd
<1>15. CASE ClickStartStop \/ Pause \/ Resume \/ StartDebug \/ ClickStep \/ ClickReload \/ Autostart
          \/ Destroy
  <2>1. CASE ClickStartStop \/ StartDebug \/ Destroy
    BY <2>1 DEF ClickStartStop, StartDebug, Destroy
  <2>2. CASE Pause \/ Resume
    BY <2>2 DEF Pause, Resume
  <2>3. CASE ClickStep \/ ClickReload
    BY <2>3 DEF ClickStep, ClickReload
  <2>4. CASE Autostart
    BY <2>4 DEF Autostart
  <2> QED
    BY <1>15, <2>1, <2>2, <2>3, <2>4
<1>16. CASE RebuildFree \/ VMStart \/ VMLoop \/ VMPause \/ VMParked \/ VMSlept \/ VMStep \/ VMWait
  BY <1>16 DEF RebuildFree, VMStart, VMLoop, Pauses, VMPause, VMParked, VMSlept, VMStep, VMExec,
     VMWait, AfterWait
<1>17. CASE VMMatch
  BY <1>17 DEF VMMatch, AfterWait
<1>18. CASE StopLock("ui") \/ StopLock("retry")
  BY <1>18 DEF StopLock
<1>19. CASE StopFlag("ui") \/ StopFlag("retry")
  BY <1>19 DEF StopFlag
<1>20. CASE StopJoin("ui") \/ StopJoin("retry")
  BY <1>20 DEF StopJoin
<1>21. CASE UNCHANGED vars
  BY <1>21 DEF vars
<1> QED
  BY <1>1, <1>2, <1>3, <1>4, <1>5, <1>6, <1>7, <1>8, <1>9, <1>10, <1>11, <1>12, <1>13, <1>14, <1>15,
     <1>16, <1>17, <1>18, <1>19, <1>20, <1>21 DEF Next, Click, Handle, StopBy, Tick, VM

(* A step marks the runtime before it asks for anything. *)
LEMMA StepKept ==
    ASSUME Quiet, PcTyped, runtime \in Runtimes, FreshRuntime, StepInv, [Next]_vars
    PROVE  StepInv'
<1> USE DEF Quiet, Runtimes, NoRuntime, FreshRuntime, StepInv, PcTyped, At, Allowed, executor, vm,
            Starting, Stopping
<1>1. CASE Pause
  BY <1>1 DEF Pause
<1>2. CASE Resume
  BY <1>2 DEF Resume
<1>3. CASE ClickStep
  BY <1>3 DEF ClickStep
<1>4. CASE ClickReload
  BY <1>4 DEF ClickReload
<1>5. CASE StartCompile
  <2>1. runtime' = NoRuntime \/ (~runtime'.stepping /\ ~runtime'.skip_waits /\ ~runtime'.step_mode)
    <3>1. \/ runtime' = NoRuntime
          \/ \E p, c : runtime' = [NoRuntime EXCEPT !.made = TRUE, !.should_pause = p, !.client = c]
      <4> HIDE DEF Quiet, Runtimes, NoRuntime, FreshRuntime, StepInv, PcTyped, At, Allowed, executor, vm, Starting, Stopping
      <4> QED
        BY <1>5, Zenon DEF StartCompile
    <3> QED
      BY <3>1
  <2>2. status' # "RUNNING" \/ status' = status
    BY <1>5 DEF StartCompile
  <2> QED
    BY <2>1, <2>2
<1>6. CASE StartLock
  BY <1>6 DEF StartLock
<1>7. CASE StartCreate
  BY <1>7 DEF StartCreate
<1>8. CASE Stopped
  BY <1>8 DEF Stopped
<1>9. CASE RebuildFree
  BY <1>9 DEF RebuildFree
<1>10. CASE VMStart
  BY <1>10 DEF VMStart
<1>11. CASE VMPause
  BY <1>11 DEF VMPause
<1>12. CASE VMSlept
  BY <1>12 DEF VMSlept
<1>13. CASE VMEnd
  BY <1>13 DEF VMEnd
<1>14. CASE StopFlag("ui")
  BY <1>14 DEF StopFlag
<1>15. CASE StopFlag("retry")
  BY <1>15 DEF StopFlag
<1>16. CASE StopEnd("ui")
  BY <1>16 DEF StopEnd
<1>17. CASE StopEnd("retry")
  BY <1>17 DEF StopEnd
<1>18. CASE ClickStartStop \/ Toggle \/ ClickPauseResume \/ StartDebug \/ Autostart \/ StartTest \/
          StartMark \/ Destroy
  BY <1>18 DEF ClickStartStop, Toggle, ClickPauseResume, StartDebug, Autostart, StartTest,
     StartMark, Destroy
<1>19. CASE Rebuild \/ TickRead \/ TickWrite \/ VMLoop \/ VMParked \/ VMStep \/ VMWait \/ VMMatch
  BY <1>19 DEF Rebuild, TickRead, TickWrite, VMLoop, Pauses, VMParked, VMStep, VMExec, VMWait,
     AfterWait, VMMatch
<1>20. CASE StopLock("ui") \/ StopLock("retry")
  BY <1>20 DEF StopLock
<1>21. CASE StopJoin("ui") \/ StopJoin("retry")
  BY <1>21 DEF StopJoin
<1>22. CASE UNCHANGED vars
  BY <1>22 DEF vars
<1> QED
  BY <1>1, <1>2, <1>3, <1>4, <1>5, <1>6, <1>7, <1>8, <1>9, <1>10, <1>11, <1>12, <1>13, <1>14, <1>15,
     <1>16, <1>17, <1>18, <1>19, <1>20, <1>21, <1>22 DEF Next, Click, Handle, StopBy, Tick, VM

(* The invariant holds at first and every step keeps it.                    *)
LEMMA InductiveInvariant ==
    ASSUME Quiet
    PROVE  (Init => IInv) /\ (IInv /\ [Next]_vars => IInv')
<1>1. Init => IInv
  <2> SUFFICES ASSUME Init
               PROVE  IInv
    OBVIOUS
  <2>1. runtime \in Runtimes
    BY NewRuntimeTyped DEF Init
  <2>2. pc["ui"] = "idle" /\ pc["retry"] = "idle" /\ pc["tick"] = "idle" /\ pc["vm"] = "none" /\ PcTyped
    BY DEF Init, PcTyped
  <2>3. TypeOK
    BY <2>1, <2>2 DEF Init, TypeOK, Status
  <2>4. StatusAgrees /\ RuntimeInUse /\ EndIsOfThisRun /\ RunningHonoursWaits
    BY <2>2 DEF Init, Active, VMAlive, StatusAgrees, RuntimeInUse, EndIsOfThisRun, RunningHonoursWaits
  <2>5. WhoRuns /\ FreshRuntime /\ MonitorInv /\ StepInv
    BY <2>2 DEF Init, NoRuntime, Starting, WhoRuns, FreshRuntime, MonitorInv, StepInv
  <2> QED
    BY <2>3, <2>4, <2>5 DEF IInv, ExecutorInv
<1>2. ASSUME IInv, [Next]_vars
      PROVE  IInv'
  <2>1. TypeOK /\ StatusAgrees /\ RuntimeInUse /\ WhoRuns /\ FreshRuntime /\ MonitorInv /\ StepInv
    BY <1>2 DEF IInv, ExecutorInv
  <2>2. /\ PcTyped /\ status \in Status /\ runtime \in Runtimes
        /\ seen \in [ui : Status, tick : Status, last : Status]
        /\ monitor \in [last : Status, ended : BOOLEAN]
    BY <2>1 DEF TypeOK
  <2>3. TypeOK'
    BY <1>2, <2>1, <2>2, PcStaysTyped, RuntimeStaysTyped, TypesStay
  <2>4. StatusAgrees' /\ WhoRuns'
    BY <1>2, <2>1, <2>2, StatusKept, WhoRunsKept
  <2>5. RuntimeInUse' /\ FreshRuntime'
    BY <1>2, <2>1, <2>2, RuntimeKept
  <2>6. MonitorInv'
    BY <1>2, <2>1, <2>2, MonitorKept
  <2>7. StepInv'
    BY <1>2, <2>1, <2>2, StepKept
  <2>8. EndIsOfThisRun' /\ RunningHonoursWaits'
    BY <2>6, <2>7 DEF MonitorInv, StepInv, EndIsOfThisRun, RunningHonoursWaits
  <2> QED
    BY <2>3, <2>4, <2>5, <2>6, <2>7, <2>8 DEF IInv, ExecutorInv
<1> QED
  BY <1>1, <1>2

(* The status is that of the thread there is, its runtime and REST client   *)
(* live while it uses them, no end of an earlier run is reported, and       *)
(* waits are honoured unless a step is under way.                           *)
THEOREM ExecutorInvariant ==
    ASSUME Quiet
    PROVE  Spec => []ExecutorInv
<1>1. IInv => ExecutorInv
  BY DEF IInv
<1> QED
  BY <1>1, InductiveInvariant, PTL DEF Spec

============================================================================
