------------------------- MODULE RetryWorkerProof -------------------------
(***************************************************************************)
(* Proofs about RetryWorker: the slot protocol and the hand-over to         *)
(* c64_destroy keep their invariants in every interleaving.                 *)
(***************************************************************************)
EXTENDS RetryWorker, TLAPS

(* Type correctness of the retry worker's protocol state.                  *)
THEOREM TypeCorrect == Spec => []TypeOK
<1>1. Init => TypeOK
  BY DEF Init, TypeOK, Schedulers, WorkerPcs, CallPcs, DestroyPcs
<1>2. TypeOK /\ [Next]_vars => TypeOK'
  <2> SUFFICES ASSUME TypeOK, [Next]_vars
               PROVE  TypeOK'
    OBVIOUS
  <2> USE DEF TypeOK, Schedulers, WorkerPcs, CallPcs, DestroyPcs, flags, handle,
              local, stream, WorkerGoes, CallGoes, DestroyGoes
  <2>1. CASE \E s \in Schedulers : Call(s)
    BY <2>1 DEF Call
  <2>2. CASE \E s \in Schedulers : TestProgress(s)
    BY <2>2 DEF TestProgress
  <2>3. CASE \E s \in Schedulers : TestActive(s)
    BY <2>3 DEF TestActive
  <2>4. CASE \E s \in Schedulers : Request(s)
    BY <2>4 DEF Request
  <2>5. CASE \E s \in Schedulers : CasActiveLost(s)
    BY <2>5 DEF CasActiveLost
  <2>6. CASE \E s \in Schedulers : CasActive(s)
    BY <2>6 DEF CasActive
  <2>7. CASE \E s \in Schedulers : CasProgress(s)
    BY <2>7 DEF CasProgress
  <2>8. CASE \E s \in Schedulers : LockRetry(s)
    BY <2>8 DEF LockRetry
  <2>9. CASE \E s \in Schedulers : JoinOld(s)
    <3>1. /\ retry_thread_valid' \in BOOLEAN /\ retry_shutting_down' \in BOOLEAN
          /\ run_task' \in BOOLEAN /\ streaming' \in BOOLEAN
          /\ udp_port_conflict' \in BOOLEAN /\ pendingStops' \in BOOLEAN
      BY <2>9, Zenon DEF JoinOld
    <3>2. QED
      BY <3>1, <2>9 DEF JoinOld
  <2>10. CASE \E s \in Schedulers : Create(s)
    BY <2>10 DEF Create
  <2>11. CASE \E s \in Schedulers : CreateFails(s)
    BY <2>11 DEF CreateFails
  <2>12. CASE \E s \in Schedulers : FreeProgress(s)
    BY <2>12 DEF FreeProgress
  <2>13. CASE \E s \in Schedulers : FreeActive(s)
    BY <2>13 DEF FreeActive
  <2>14. CASE PortsChanged
    <3>1. /\ retry_thread_valid' \in BOOLEAN /\ retry_shutting_down' \in BOOLEAN
          /\ run_task' \in BOOLEAN /\ streaming' \in BOOLEAN
          /\ udp_port_conflict' \in BOOLEAN /\ pendingStops' \in BOOLEAN
      BY <2>14, Zenon DEF PortsChanged
    <3>2. QED
      BY <3>1, <2>14 DEF PortsChanged
  <2>15. CASE ProcExit
    BY <2>15 DEF ProcExit
  <2>16. CASE ClearRequest
    BY <2>16 DEF ClearRequest
  <2>17. CASE ReadConfig
    <3>1. /\ retry_thread_valid' \in BOOLEAN /\ retry_shutting_down' \in BOOLEAN
          /\ run_task' \in BOOLEAN /\ streaming' \in BOOLEAN
          /\ udp_port_conflict' \in BOOLEAN /\ pendingStops' \in BOOLEAN
      BY <2>17, Zenon DEF ReadConfig
    <3>2. QED
      BY <3>1, <2>17 DEF ReadConfig
  <2>18. CASE AttemptSendStarts
    BY <2>18 DEF AttemptSendStarts
  <2>19. CASE AttemptStopReceivers
    <3>1. /\ retry_thread_valid' \in BOOLEAN /\ retry_shutting_down' \in BOOLEAN
          /\ run_task' \in BOOLEAN /\ streaming' \in BOOLEAN
          /\ udp_port_conflict' \in BOOLEAN /\ pendingStops' \in BOOLEAN
      BY <2>19, Zenon DEF AttemptStopReceivers
    <3>2. QED
      BY <3>1, <2>19 DEF AttemptStopReceivers
  <2>20. CASE AttemptJoinReceivers
    BY <2>20 DEF AttemptJoinReceivers
  <2>21. CASE AttemptStarts
    <3>1. /\ retry_thread_valid' \in BOOLEAN /\ retry_shutting_down' \in BOOLEAN
          /\ run_task' \in BOOLEAN /\ streaming' \in BOOLEAN
          /\ udp_port_conflict' \in BOOLEAN /\ pendingStops' \in BOOLEAN
      BY <2>21, Zenon DEF AttemptStarts
    <3>2. QED
      BY <3>1, <2>21 DEF AttemptStarts
  <2>22. CASE AttemptStartsAudio
    BY <2>22 DEF AttemptStartsAudio
  <2>23. CASE AttemptAborts
    <3>1. /\ retry_thread_valid' \in BOOLEAN /\ retry_shutting_down' \in BOOLEAN
          /\ run_task' \in BOOLEAN /\ streaming' \in BOOLEAN
          /\ udp_port_conflict' \in BOOLEAN /\ pendingStops' \in BOOLEAN
      BY <2>23, Zenon DEF AttemptAborts
    <3>2. QED
      BY <3>1, <2>23 DEF AttemptAborts
  <2>24. CASE AttemptFails
    BY <2>24 DEF AttemptFails
  <2>25. CASE ProcessStops
    <3>1. /\ retry_thread_valid' \in BOOLEAN /\ retry_shutting_down' \in BOOLEAN
          /\ run_task' \in BOOLEAN /\ streaming' \in BOOLEAN
          /\ udp_port_conflict' \in BOOLEAN /\ pendingStops' \in BOOLEAN
      BY <2>25, Zenon DEF ProcessStops
    <3>2. QED
      BY <3>1, <2>25 DEF ProcessStops
  <2>26. CASE EndAttempt
    BY <2>26 DEF EndAttempt
  <2>27. CASE CheckShutdown
    BY <2>27 DEF CheckShutdown
  <2>28. CASE TestRequest
    <3>1. /\ retry_thread_valid' \in BOOLEAN /\ retry_shutting_down' \in BOOLEAN
          /\ run_task' \in BOOLEAN /\ streaming' \in BOOLEAN
          /\ udp_port_conflict' \in BOOLEAN /\ pendingStops' \in BOOLEAN
      BY <2>28, Zenon DEF TestRequest
    <3>2. QED
      BY <3>1, <2>28 DEF TestRequest, needStart
  <2>29. CASE WaitEnds
    <3>0. (IF pendingStops /\ streaming THEN BOOLEAN ELSE {FALSE}) \subseteq BOOLEAN
      OBVIOUS
    <3>1. /\ retry_thread_valid' \in BOOLEAN /\ retry_shutting_down' \in BOOLEAN
          /\ streaming' \in BOOLEAN
          /\ udp_port_conflict' \in BOOLEAN /\ pendingStops' \in BOOLEAN
      BY <2>29, Zenon DEF WaitEnds
    <3>2. run_task' \in BOOLEAN
      BY <2>29, <3>0, Zenon DEF WaitEnds
    <3>3. QED
      BY <3>1, <3>2, <2>29 DEF WaitEnds
  <2>30. CASE WaitShutdown
    BY <2>30 DEF WaitShutdown
  <2>31. CASE Decide
    BY <2>31 DEF Decide, needStart
  <2>32. CASE Release
    BY <2>32 DEF Release
  <2>33. CASE LookAgain
    BY <2>33 DEF LookAgain
  <2>34. CASE RetakeActiveLost
    BY <2>34 DEF RetakeActiveLost
  <2>35. CASE RetakeActive
    BY <2>35 DEF RetakeActive
  <2>36. CASE Retake
    BY <2>36 DEF Retake
  <2>37. CASE Exit
    BY <2>37 DEF Exit
  <2>38. CASE DestroyBegin
    BY <2>38 DEF DestroyBegin
  <2>39. CASE DestroyLock
    BY <2>39 DEF DestroyLock
  <2>40. CASE DestroyJoin
    BY <2>40 DEF DestroyJoin
  <2>41. CASE DestroyUnlock
    BY <2>41 DEF DestroyUnlock
  <2>42. CASE DestroyStops
    <3>1. /\ retry_thread_valid' \in BOOLEAN /\ retry_shutting_down' \in BOOLEAN
          /\ run_task' \in BOOLEAN /\ streaming' \in BOOLEAN
          /\ udp_port_conflict' \in BOOLEAN /\ pendingStops' \in BOOLEAN
      BY <2>42, Zenon DEF DestroyStops
    <3>2. QED
      BY <3>1, <2>42 DEF DestroyStops
  <2>43. CASE DestroyFree
    BY <2>43 DEF DestroyFree
  <2>44. CASE Freed
    BY <2>44 DEF Freed, vars
  <2>45. CASE UNCHANGED vars
    BY <2>45 DEF vars
  <2>46. QED
    BY <2>1, <2>2, <2>3, <2>4, <2>5, <2>6, <2>7, <2>8, <2>9, <2>10, <2>11,
       <2>12, <2>13, <2>14, <2>15, <2>16, <2>17, <2>18, <2>19, <2>20, <2>21,
       <2>22, <2>23, <2>24, <2>25, <2>26, <2>27, <2>28, <2>29, <2>30, <2>31,
       <2>32, <2>33, <2>34, <2>35, <2>36, <2>37, <2>38, <2>39, <2>40, <2>41,
       <2>42, <2>43, <2>44, <2>45
    DEF Next, CallStep, WorkerStep, DestroyStep
<1>3. QED
  BY <1>1, <1>2, PTL DEF Spec

(* The inductive invariant of the protocol.                                *)
THEOREM ProtocolInvariant == Spec => []IInv
<1>1. Init => HandleInv /\ SlotInv /\ ProgressInv
  BY DEF Init, HandleInv, SlotInv, ProgressInv, CallHolds, WorkerHolds, Schedulers
<1>2. IInv /\ TypeOK' /\ [Next]_vars => IInv'
  <2> SUFFICES ASSUME IInv, TypeOK', [Next]_vars
               PROVE  HandleInv' /\ SlotInv' /\ ProgressInv'
    BY DEF IInv
  <2> USE DEF IInv, TypeOK, HandleInv, SlotInv, ProgressInv, CallHolds,
              WorkerHolds, Attempting, Schedulers, flags, handle, local, stream,
              WorkerGoes, CallGoes, DestroyGoes
  <2>1. CASE \E s \in Schedulers : Call(s)
    BY <2>1 DEF Call
  <2>2. CASE \E s \in Schedulers : TestProgress(s)
    BY <2>2 DEF TestProgress
  <2>3. CASE \E s \in Schedulers : TestActive(s)
    BY <2>3 DEF TestActive
  <2>4. CASE \E s \in Schedulers : Request(s)
    BY <2>4 DEF Request
  <2>5. CASE \E s \in Schedulers : CasActiveLost(s)
    BY <2>5 DEF CasActiveLost
  <2>6. CASE \E s \in Schedulers : CasActive(s)
    BY <2>6 DEF CasActive
  <2>7. CASE \E s \in Schedulers : CasProgress(s)
    BY <2>7 DEF CasProgress
  <2>8. CASE \E s \in Schedulers : LockRetry(s)
    BY <2>8 DEF LockRetry
  <2>9. CASE \E s \in Schedulers : JoinOld(s)
    BY <2>9 DEF JoinOld
  <2>10. CASE \E s \in Schedulers : Create(s)
    BY <2>10 DEF Create
  <2>11. CASE \E s \in Schedulers : CreateFails(s)
    BY <2>11 DEF CreateFails
  <2>12. CASE \E s \in Schedulers : FreeProgress(s)
    BY <2>12 DEF FreeProgress
  <2>13. CASE \E s \in Schedulers : FreeActive(s)
    BY <2>13 DEF FreeActive
  <2>14. CASE PortsChanged
    BY <2>14 DEF PortsChanged
  <2>15. CASE ProcExit
    BY <2>15 DEF ProcExit
  <2>16. CASE ClearRequest
    BY <2>16 DEF ClearRequest
  <2>17. CASE ReadConfig
    BY <2>17 DEF ReadConfig
  <2>18. CASE AttemptSendStarts
    BY <2>18 DEF AttemptSendStarts
  <2>19. CASE AttemptStopReceivers
    BY <2>19 DEF AttemptStopReceivers
  <2>20. CASE AttemptJoinReceivers
    BY <2>20 DEF AttemptJoinReceivers
  <2>21. CASE AttemptStarts
    BY <2>21 DEF AttemptStarts
  <2>22. CASE AttemptStartsAudio
    BY <2>22 DEF AttemptStartsAudio
  <2>23. CASE AttemptAborts
    BY <2>23 DEF AttemptAborts
  <2>24. CASE AttemptFails
    BY <2>24 DEF AttemptFails
  <2>25. CASE ProcessStops
    BY <2>25 DEF ProcessStops
  <2>26. CASE EndAttempt
    BY <2>26 DEF EndAttempt
  <2>27. CASE CheckShutdown
    BY <2>27 DEF CheckShutdown
  <2>28. CASE TestRequest
    BY <2>28 DEF TestRequest, needStart
  <2>29. CASE WaitEnds
    BY <2>29 DEF WaitEnds
  <2>30. CASE WaitShutdown
    BY <2>30 DEF WaitShutdown
  <2>31. CASE Decide
    BY <2>31 DEF Decide, needStart
  <2>32. CASE Release
    BY <2>32 DEF Release
  <2>33. CASE LookAgain
    BY <2>33 DEF LookAgain
  <2>34. CASE RetakeActiveLost
    BY <2>34 DEF RetakeActiveLost
  <2>35. CASE RetakeActive
    BY <2>35 DEF RetakeActive
  <2>36. CASE Retake
    BY <2>36 DEF Retake
  <2>37. CASE Exit
    BY <2>37 DEF Exit
  <2>38. CASE DestroyBegin
    BY <2>38 DEF DestroyBegin
  <2>39. CASE DestroyLock
    BY <2>39 DEF DestroyLock
  <2>40. CASE DestroyJoin
    BY <2>40 DEF DestroyJoin
  <2>41. CASE DestroyUnlock
    BY <2>41 DEF DestroyUnlock
  <2>42. CASE DestroyStops
    BY <2>42 DEF DestroyStops
  <2>43. CASE DestroyFree
    BY <2>43 DEF DestroyFree
  <2>44. CASE Freed
    BY <2>44 DEF Freed, vars
  <2>45. CASE UNCHANGED vars
    BY <2>45 DEF vars
  <2>46. QED
    BY <2>1, <2>2, <2>3, <2>4, <2>5, <2>6, <2>7, <2>8, <2>9, <2>10, <2>11,
       <2>12, <2>13, <2>14, <2>15, <2>16, <2>17, <2>18, <2>19, <2>20, <2>21,
       <2>22, <2>23, <2>24, <2>25, <2>26, <2>27, <2>28, <2>29, <2>30, <2>31,
       <2>32, <2>33, <2>34, <2>35, <2>36, <2>37, <2>38, <2>39, <2>40, <2>41,
       <2>42, <2>43, <2>44, <2>45
    DEF Next, CallStep, WorkerStep, DestroyStep
<1>3. QED
  BY <1>1, <1>2, TypeCorrect, PTL DEF Spec, IInv

(* The worker slot has one owner: c64_schedule_retry in two threads and the *)
(* worker itself never overlap, before or during c64_destroy.              *)
THEOREM OneSlotOwner == Spec => []SlotExclusive
<1>1. IInv => SlotExclusive
  BY DEF IInv, TypeOK, SlotInv, SlotExclusive
<1>2. QED
  BY <1>1, ProtocolInvariant, PTL

(* The compare-and-swap of retry_in_progress never fails, so the branches   *)
(* that drop a call or end the worker there are dead code.                 *)
THEOREM ProgressAlwaysFree == Spec => []ProgressFree
<1>1. IInv => ProgressFree
  BY DEF IInv, TypeOK, SlotInv, ProgressInv, ProgressFree, CallHolds,
         WorkerHolds, Attempting, Schedulers
<1>2. QED
  BY <1>1, ProtocolInvariant, PTL

(* The context is freed only when the worker is joined, no scheduler is     *)
(* inside c64_schedule_retry and nobody holds the mutex.                   *)
THEOREM FreedIsUnused == Spec => []NoUseAfterFree
<1>1. IInv => NoUseAfterFree
  BY DEF IInv, TypeOK, HandleInv, NoUseAfterFree, Schedulers
<1>2. QED
  BY <1>1, ProtocolInvariant, PTL

(* A worker is created only in the place of a joined one and never once     *)
(* c64_destroy has latched retry_shutting_down.                            *)
THEOREM NoStrayWorkerIsCreated == Spec => NoStrayWorker
<1>1. IInv /\ [Next]_vars
        => [CreateStep => workerPc = "none" /\ ~retry_shutting_down]_vars
  BY DEF IInv, HandleInv, CreateStep, Schedulers
<1>2. QED
  BY <1>1, ProtocolInvariant, PTL DEF Spec, NoStrayWorker
=============================================================================
