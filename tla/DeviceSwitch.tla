---------------------------- MODULE DeviceSwitch ----------------------------
(***************************************************************************)
(* Switching a source from one device to another (c64-source.c): c64_update *)
(* on the OBS UI thread records the switch and rewrites the configuration;  *)
(* the retry worker starts the newly selected device and afterwards stops   *)
(* the devices switched away from (make before break).  The devices are     *)
(* part of the model: which of them send their streams to this source.      *)
(*                                                                         *)
(* The two threads share most of this state without a lock.  Windows names  *)
(* the places where one may be preempted by the other:                      *)
(*   "flags"     c64_update found no start under way and has not written    *)
(*               ip_address yet                                             *)
(*   "record"    c64_update records a transition and has not written        *)
(*               ip_address yet                                             *)
(*   "schedule"  c64_update wrote ip_address and has not asked for a retry  *)
(*   "start"     the worker, between looking for a recorded transition and  *)
(*               reading the endpoint that c64_start_streaming will start   *)
(* and one the place where a failure is not cleaned up:                     *)
(*   "local"     a switch fails to create its sockets, or to name its       *)
(*               destination with no receiver running: c64_start_streaming  *)
(*               returns without c64_abort_stream_start, though the new     *)
(*               device may have accepted its start or be still on          *)
(* Everywhere else they interleave freely.                                  *)
(*                                                                         *)
(* Scheduling (retry_requested and the worker's life) is that of module     *)
(* RetryWorker, reduced to a flag that wakes the worker.                    *)
(***************************************************************************)
EXTENDS StopQueue

CONSTANTS
    Hosts,          \* the devices on the network
    Ports,          \* the control ports a user may configure
    NoHost,
    FirstHost,      \* the device configured when the source is created
    Transports,     \* how streams may be controlled: "rest", "legacy"
    MaxAttempts,    \* C64_PREVIOUS_DEVICE_STOP_ATTEMPTS, 5 in the code
    Windows,
    MaxUpdates,     \* bound: how often the user changes the settings
    MaxFaults       \* bound: how often a device drops off or refuses a command,
                    \* or a start fails locally

ASSUME DeviceAssumption ==
    /\ FirstHost \in Hosts /\ NoHost \notin Hosts
    /\ Transports \subseteq {"rest", "legacy"}
    /\ Windows \subseteq {"flags", "record", "schedule", "start", "local"}
    /\ MaxAttempts \in Nat \ {0}

Endpoint == [host : Hosts, port : Ports]
NoEndpoint == [host |-> NoHost, port |-> CHOOSE p \in Ports : TRUE]

VARIABLES
    \* shared by the UI thread and the worker
    ip_address,             \* the configured endpoint (host and control port)
    device_transition_pending,
    device_transition,      \* host and control port of the device to stop
    streaming,
    stream_start_in_flight,
    rest_rebuild_pending,
    udp_port_conflict,      \* a local UDP port is in use by another program
    retry_requested,
    handover_peer,          \* handover_peer_ip, NoHost when not set
    hold_over,              \* C64_HANDOVER_HOLD_NS has passed since the switch
    \* c64_update
    uiPc, old, new, needs_transition,
    \* the retry worker
    workerPc, started, switching_device, pending_stops, index,
    rest_client,            \* the host the source's REST client talks to
    \* the devices
    sending,                \* hosts whose streams are on
    reachable,              \* hosts that answer
    lost,                   \* hosts that could not be told to stop: given up on,
                            \* dropped from the queue, or out of reach when
                            \* their own start was abandoned
    transport,              \* stream_control_transport, chosen once
    updates, faults

ui == <<uiPc, old, new, needs_transition>>
config == <<ip_address, device_transition_pending, device_transition,
            rest_rebuild_pending>>
worker == <<workerPc, started, switching_device, pending_stops, index, rest_client>>
flight == <<streaming, stream_start_in_flight, udp_port_conflict>>
handover == <<handover_peer, hold_over>>
devices == <<sending, reachable, lost>>
bounds == <<transport, updates, faults>>

vars == <<ui, config, worker, flight, handover, devices, retry_requested, bounds>>

Init ==
    /\ ip_address \in {[host |-> FirstHost, port |-> p] : p \in Ports}
    /\ device_transition_pending = FALSE
    /\ device_transition = NoEndpoint
    /\ streaming = FALSE
    /\ stream_start_in_flight = FALSE
    /\ rest_rebuild_pending = FALSE
    /\ udp_port_conflict = FALSE
    /\ retry_requested = TRUE      \* "initial connection"
    /\ handover_peer = NoHost
    /\ hold_over = FALSE
    /\ uiPc = "idle"
    /\ old = ip_address
    /\ new = ip_address
    /\ needs_transition = FALSE
    /\ workerPc = "idle"
    /\ started = ip_address
    /\ switching_device = FALSE
    /\ pending_stops = << >>
    /\ index = 1
    /\ rest_client = ip_address.host
    /\ sending = {}
    /\ reachable = Hosts
    /\ lost = {}
    /\ transport \in Transports
    /\ updates = 0
    /\ faults = 0

-----------------------------------------------------------------------------
(* c64_update on the UI thread.                                            *)

\* The worker is inside a window that this instance does not open.
WorkerClosed ==
    /\ workerPc \in {"take", "taken", "cleared", "cancel", "snapshot", "raise", "read"}
    /\ "start" \notin Windows

\* Mutant: a start in flight does not count as streaming.
UpdateTestNoFlight(ep) ==
    /\ uiPc = "idle" /\ ~WorkerClosed
    /\ updates < MaxUpdates
    /\ old' = ip_address
    /\ new' = ep
    /\ needs_transition' = streaming
    /\ uiPc' = IF streaming /\ ~device_transition_pending THEN "record" ELSE "write"
    /\ updates' = updates + 1
    /\ UNCHANGED <<config, worker, flight, handover, devices, retry_requested, transport, faults>>

\* The user picks another endpoint, or other UDP ports for the streams of the
\* same one; the old one is read under config_mutex and the flags are tested
\* outside it.
UpdateTest(ep) ==
    /\ uiPc = "idle" /\ ~WorkerClosed
    /\ updates < MaxUpdates
    /\ old' = ip_address
    /\ new' = ep
    /\ needs_transition' = (streaming \/ stream_start_in_flight)
    /\ uiPc' = IF (streaming \/ stream_start_in_flight) /\ ~device_transition_pending
               THEN "record" ELSE "write"
    /\ updates' = updates + 1
    /\ UNCHANGED <<config, worker, flight, handover, devices, retry_requested, transport, faults>>

UpdateRecord ==
    /\ uiPc = "record"
    /\ device_transition' = old
    /\ uiPc' = "pend"
    /\ UNCHANGED <<old, new, needs_transition, ip_address,
                   device_transition_pending, rest_rebuild_pending, worker,
                   flight, handover, devices, retry_requested, bounds>>

UpdatePend ==
    /\ uiPc = "pend"
    /\ device_transition_pending' = TRUE
    /\ uiPc' = "write"
    /\ UNCHANGED <<old, new, needs_transition, ip_address, device_transition,
                   rest_rebuild_pending, worker, flight, handover, devices,
                   retry_requested, bounds>>

\* The section under config_mutex, with the handover it opens.
UpdateWrite ==
    /\ uiPc = "write"
    /\ ip_address' = new
    /\ handover_peer' = IF needs_transition /\ new.host # old.host
                        THEN old.host ELSE handover_peer
    /\ hold_over' = (hold_over /\ new.host = old.host)
    /\ uiPc' = "schedule"
    /\ UNCHANGED <<old, new, needs_transition, device_transition_pending,
                   device_transition, rest_rebuild_pending, worker, flight,
                   devices, retry_requested, bounds>>

\* A change of the ports, of the streams or of the control service, ends a
\* conflict; so does one of the own address, which may come with any other.
UpdateSchedule ==
    /\ uiPc = "schedule"
    /\ \/ udp_port_conflict' = FALSE
       \/ new.host # old.host /\ new.port = old.port /\ UNCHANGED udp_port_conflict
    /\ rest_rebuild_pending' =
          (rest_rebuild_pending \/ (new.host # old.host /\ ~needs_transition))
    /\ retry_requested' = TRUE
    /\ uiPc' = "idle"
    /\ UNCHANGED <<old, new, needs_transition, ip_address,
                   device_transition_pending, device_transition, worker,
                   streaming, stream_start_in_flight, handover, devices, bounds>>

UpdateStep ==
    ~WorkerClosed /\ (UpdateRecord \/ UpdatePend \/ UpdateWrite \/ UpdateSchedule)

-----------------------------------------------------------------------------
(* The retry worker, c64_async_retry_task first.                           *)

\* c64_update is inside a window that this instance does not open.
UpdateClosed ==
    \/ uiPc = "write" /\ ~needs_transition /\ "flags" \notin Windows
    \/ uiPc \in {"record", "pend"} /\ "record" \notin Windows
    \/ uiPc = "write" /\ needs_transition /\ "record" \notin Windows
    \/ uiPc = "schedule" /\ "schedule" \notin Windows

WorkerAt(pc) == workerPc = pc /\ ~UpdateClosed

\* A request creates the worker or makes it repeat.
Wake ==
    /\ WorkerAt("idle")
    /\ retry_requested
    /\ retry_requested' = FALSE
    /\ workerPc' = "rebuild"
    /\ UNCHANGED <<ui, config, started, switching_device, pending_stops, index,
                   rest_client, flight, handover, devices, bounds>>

\* c64_rebuild_rest_client when a plain host change asked for it.
Rebuild ==
    /\ WorkerAt("rebuild")
    /\ rest_rebuild_pending' = FALSE
    /\ rest_client' = IF rest_rebuild_pending THEN ip_address.host ELSE rest_client
    /\ workerPc' = "take"
    /\ UNCHANGED <<ui, ip_address, device_transition_pending, device_transition,
                   started, switching_device, pending_stops, index, flight,
                   handover, devices, retry_requested, bounds>>

\* c64_take_pending_device_transition: nothing to take.
TakeNothing ==
    /\ WorkerAt("take")
    /\ ~device_transition_pending
    /\ switching_device' = FALSE
    /\ workerPc' = "snapshot"
    /\ UNCHANGED <<ui, config, started, pending_stops, index, rest_client,
                   flight, handover, devices, retry_requested, bounds>>

\* c64_stop_queue_add refuses an empty host.
TakeTransition ==
    /\ WorkerAt("take")
    /\ device_transition_pending
    /\ switching_device' = TRUE
    /\ IF device_transition.host = NoHost
       THEN UNCHANGED <<pending_stops, lost>>
       ELSE /\ pending_stops' = Add(pending_stops, device_transition)
            /\ lost' = lost \cup {e.host : e \in Dropped(pending_stops, device_transition)}
    /\ workerPc' = "taken"
    /\ UNCHANGED <<ui, config, started, index, rest_client, flight, handover,
                   sending, reachable, retry_requested, bounds>>

TakePending ==
    /\ WorkerAt("taken")
    /\ device_transition_pending' = FALSE
    /\ workerPc' = "cleared"
    /\ UNCHANGED <<ui, ip_address, device_transition, rest_rebuild_pending,
                   started, switching_device, pending_stops, index, rest_client,
                   flight, handover, devices, retry_requested, bounds>>

\* The recorded host is blanked and the REST client retargeted.
TakeRetarget ==
    /\ WorkerAt("cleared")
    /\ device_transition' = NoEndpoint
    /\ rest_client' = ip_address.host
    /\ workerPc' = "cancel"
    /\ UNCHANGED <<ui, ip_address, device_transition_pending,
                   rest_rebuild_pending, started, switching_device,
                   pending_stops, index, flight, handover, devices,
                   retry_requested, bounds>>

\* A device switched back to must not be stopped after its new start.
TakeCancel ==
    /\ WorkerAt("cancel")
    /\ pending_stops' = Cancel(pending_stops, ip_address)
    /\ workerPc' = "snapshot"
    /\ UNCHANGED <<ui, config, started, switching_device, index, rest_client,
                   flight, handover, devices, retry_requested, bounds>>

\* The snapshot used when the source already streams; otherwise, or on a
\* switch, c64_start_streaming follows.
Snapshot ==
    /\ WorkerAt("snapshot")
    /\ started' = ip_address
    /\ workerPc' = IF ~streaming \/ switching_device THEN "raise" ELSE "resend"
    /\ UNCHANGED <<ui, config, switching_device, pending_stops, index,
                   rest_client, flight, handover, devices, retry_requested, bounds>>

\* The host a start or stop request for endpoint ep really reaches.
Target(ep) == IF transport = "rest" THEN rest_client ELSE ep.host

\* Already streaming: the start commands are sent again.
Resend ==
    /\ WorkerAt("resend")
    /\ {started.host, Target(started)} \subseteq reachable
    /\ sending' = sending \cup {Target(started)}
    /\ workerPc' = "hold"
    /\ UNCHANGED <<ui, config, started, switching_device, pending_stops, index,
                   rest_client, flight, handover, reachable, lost,
                   retry_requested, bounds>>

\* They do not arrive, or (a fault) are refused or have no destination.
ResendFails ==
    /\ WorkerAt("resend")
    /\ \/ ~({started.host, Target(started)} \subseteq reachable) /\ UNCHANGED faults
       \/ faults < MaxFaults /\ faults' = faults + 1
    /\ workerPc' = "hold"
    /\ UNCHANGED <<ui, config, started, switching_device, pending_stops, index,
                   rest_client, flight, handover, devices, retry_requested,
                   transport, updates>>

-----------------------------------------------------------------------------
(* c64_start_streaming.                                                    *)

RaiseInFlight ==
    /\ WorkerAt("raise")
    /\ stream_start_in_flight' = TRUE
    /\ workerPc' = "read"
    /\ UNCHANGED <<ui, config, started, switching_device, pending_stops, index,
                   rest_client, streaming, udp_port_conflict, handover, devices,
                   retry_requested, bounds>>

ReadEndpoint ==
    /\ WorkerAt("read")
    /\ started' = ip_address
    /\ workerPc' = "reach"
    /\ UNCHANGED <<ui, config, switching_device, pending_stops, index,
                   rest_client, flight, handover, devices, retry_requested, bounds>>

\* c64_device_reachable fails: the receivers of the previous device go too.
StartUnreachable ==
    /\ WorkerAt("reach")
    /\ started.host \notin reachable
    /\ streaming' = FALSE
    /\ lost' = lost \cup {started.host}
    /\ workerPc' = "landed"
    /\ UNCHANGED <<ui, config, started, switching_device, pending_stops, index,
                   rest_client, stream_start_in_flight, udp_port_conflict,
                   handover, sending, reachable, retry_requested, bounds>>

\* A plain start first stops what an earlier session may have left running.  A
\* switch asks for video while the receivers still show the previous device.
StartReachable ==
    /\ WorkerAt("reach")
    /\ started.host \in reachable
    /\ sending' = IF ~switching_device /\ Target(started) \in reachable
                  THEN sending \ {Target(started)} ELSE sending
    /\ workerPc' = IF switching_device /\ streaming THEN "first" ELSE "sockets"
    /\ UNCHANGED <<ui, config, started, switching_device, pending_stops, index,
                   rest_client, flight, handover, reachable, lost,
                   retry_requested, bounds>>

\* c64_build_stream_dest fails: no command is sent and no receiver stopped.
DestFails ==
    /\ WorkerAt("first") \/ WorkerAt("sockets")
    /\ switching_device /\ ~streaming => "local" \in Windows
    /\ faults < MaxFaults /\ faults' = faults + 1
    /\ workerPc' = "landed"
    /\ UNCHANGED <<ui, config, started, switching_device, pending_stops, index,
                   rest_client, flight, handover, devices, retry_requested,
                   transport, updates>>

\* The device accepts the start of its video.
VideoAccepted ==
    /\ Target(started) \in reachable
    /\ sending' = sending \cup {Target(started)}
    /\ lost' = lost \ {Target(started)}

StartFirst ==
    /\ WorkerAt("first")
    /\ VideoAccepted
    /\ workerPc' = "join"
    /\ UNCHANGED <<ui, config, started, switching_device, pending_stops, index,
                   rest_client, flight, handover, reachable, retry_requested, bounds>>

JoinReceivers ==
    /\ WorkerAt("join")
    /\ streaming' = FALSE
    /\ workerPc' = "recycle"
    /\ UNCHANGED <<ui, config, started, switching_device, pending_stops, index,
                   rest_client, stream_start_in_flight, udp_port_conflict,
                   handover, devices, retry_requested, bounds>>

\* Fresh sockets; if video was asked for already ("recycle") the receivers run.
CreateSockets ==
    /\ \E pc \in {"sockets", "recycle"} : WorkerAt(pc)
    /\ udp_port_conflict' = FALSE
    /\ streaming' = (workerPc = "recycle")
    /\ workerPc' = IF workerPc = "recycle" THEN "audio" ELSE "video"
    /\ UNCHANGED <<ui, config, started, switching_device, pending_stops, index,
                   rest_client, stream_start_in_flight, handover, devices,
                   retry_requested, bounds>>

\* No socket: the port is in use, or (udp_port_conflict FALSE) another reason.
\* The device is told nothing.
SocketsFail ==
    /\ \E pc \in {"sockets", "recycle"} : WorkerAt(pc)
    /\ switching_device => "local" \in Windows
    /\ faults < MaxFaults /\ faults' = faults + 1
    /\ udp_port_conflict' \in BOOLEAN
    /\ workerPc' = "landed"
    /\ UNCHANGED <<ui, config, started, switching_device, pending_stops, index,
                   rest_client, streaming, stream_start_in_flight, handover,
                   devices, retry_requested, transport, updates>>

\* Otherwise video is asked for now, and the receivers run.
StartVideo ==
    /\ WorkerAt("video")
    /\ VideoAccepted
    /\ streaming' = TRUE
    /\ workerPc' = "audio"
    /\ UNCHANGED <<ui, config, started, switching_device, pending_stops, index,
                   rest_client, stream_start_in_flight, udp_port_conflict,
                   handover, reachable, retry_requested, bounds>>

StartAudio ==
    /\ WorkerAt("audio")
    /\ Target(started) \in reachable
    /\ workerPc' = "landed"
    /\ UNCHANGED <<ui, config, started, switching_device, pending_stops, index,
                   rest_client, flight, handover, devices, retry_requested, bounds>>

\* A command fails, because the device stopped answering or (a fault) refused
\* it, or no thread can be created; receivers that run are joined.
StartFails ==
    /\ \E pc \in {"first", "video", "audio"} : WorkerAt(pc)
    /\ \/ Target(started) \notin reachable /\ UNCHANGED faults
       \/ faults < MaxFaults /\ faults' = faults + 1
    /\ streaming' = FALSE
    /\ workerPc' = "abort"
    /\ UNCHANGED <<ui, config, started, switching_device, pending_stops, index,
                   rest_client, stream_start_in_flight, udp_port_conflict,
                   handover, devices, retry_requested, transport, updates>>

\* c64_abort_stream_start stops both streams, of the configured device.
Abort ==
    /\ WorkerAt("abort")
    /\ IF Target(ip_address) \in reachable
       THEN sending' = sending \ {Target(ip_address)} /\ UNCHANGED lost
       ELSE lost' = lost \cup {Target(ip_address)} /\ UNCHANGED sending
    /\ workerPc' = "landed"
    /\ UNCHANGED <<ui, config, started, switching_device, pending_stops, index,
                   rest_client, flight, handover, reachable, retry_requested,
                   bounds>>

ClearInFlight ==
    /\ WorkerAt("landed")
    /\ stream_start_in_flight' = FALSE
    /\ workerPc' = "hold"
    /\ UNCHANGED <<ui, config, started, switching_device, pending_stops, index,
                   rest_client, streaming, udp_port_conflict, handover, devices,
                   retry_requested, bounds>>

-----------------------------------------------------------------------------
(* c64_process_previous_device_stops.                                      *)

\* The previous device stays on while the new one has not delivered.
Hold ==
    /\ WorkerAt("hold")
    /\ index' = 1
    /\ workerPc' = IF pending_stops # << >> /\ handover_peer # NoHost
                        /\ streaming /\ ~hold_over
                   THEN "loop" ELSE "scan"
    /\ UNCHANGED <<ui, config, started, switching_device, pending_stops,
                   rest_client, flight, handover, devices, retry_requested, bounds>>

\* The scan ends, or yields to a newer request.
ScanEnds ==
    /\ WorkerAt("scan")
    /\ index > Len(pending_stops) \/ retry_requested
    /\ handover_peer' = IF pending_stops = << >> THEN NoHost ELSE handover_peer
    /\ workerPc' = "loop"
    /\ UNCHANGED <<ui, config, started, switching_device, pending_stops, index,
                   rest_client, flight, hold_over, devices, retry_requested, bounds>>

Entry == pending_stops[index]
ScanEntry == WorkerAt("scan") /\ index <= Len(pending_stops) /\ ~retry_requested

\* An entry for the device selected now is dropped without a stop.
ScanSelected ==
    /\ ScanEntry
    /\ Entry.ep = ip_address
    /\ pending_stops' = RemoveAt(pending_stops, index)
    /\ UNCHANGED <<ui, config, workerPc, started, switching_device, index,
                   rest_client, flight, handover, devices, retry_requested, bounds>>

\* One more failed attempt; after MaxAttempts the device is given up on.
StopFails ==
    IF GivesUp(pending_stops, index, MaxAttempts)
    THEN /\ pending_stops' = RemoveAt(pending_stops, index)
         /\ lost' = lost \cup {Entry.ep.host}
         /\ UNCHANGED index
    ELSE /\ pending_stops' = Failed(pending_stops, index)
         /\ index' = index + 1
         /\ UNCHANGED lost

ScanUnreachable ==
    /\ ScanEntry
    /\ Entry.ep # ip_address
    /\ Entry.ep.host \notin reachable
    /\ StopFails
    /\ UNCHANGED <<ui, config, workerPc, started, switching_device, rest_client,
                   flight, handover, sending, reachable, retry_requested, bounds>>

\* Mutant: the device selected again is stopped as well.
ScanReachableAnyone ==
    /\ ScanEntry
    /\ Entry.ep.host \in reachable
    /\ workerPc' = "send"
    /\ UNCHANGED <<ui, config, started, switching_device, pending_stops, index,
                   rest_client, flight, handover, devices, retry_requested, bounds>>

ScanReachable ==
    /\ ScanEntry
    /\ Entry.ep # ip_address
    /\ Entry.ep.host \in reachable
    /\ workerPc' = "send"
    /\ UNCHANGED <<ui, config, started, switching_device, pending_stops, index,
                   rest_client, flight, handover, devices, retry_requested, bounds>>

\* A newer request came first: the stop is retried in full afterwards.
SendYields ==
    /\ WorkerAt("send")
    /\ retry_requested
    /\ workerPc' = "loop"
    /\ UNCHANGED <<ui, config, started, switching_device, pending_stops, index,
                   rest_client, flight, handover, devices, retry_requested, bounds>>

\* Both streams of the device are stopped, through a client of its own.
SendStop ==
    /\ WorkerAt("send")
    /\ ~retry_requested
    /\ Entry.ep.host \in reachable
    /\ sending' = sending \ {Entry.ep.host}
    /\ pending_stops' = RemoveAt(pending_stops, index)
    /\ workerPc' = "scan"
    /\ UNCHANGED <<ui, config, started, switching_device, index, rest_client,
                   flight, handover, reachable, lost, retry_requested, bounds>>

\* The device stopped answering since it was found reachable.
SendFails ==
    /\ WorkerAt("send")
    /\ ~retry_requested
    /\ Entry.ep.host \notin reachable
    /\ StopFails
    /\ workerPc' = "scan"
    /\ UNCHANGED <<ui, config, started, switching_device, rest_client, flight,
                   handover, sending, reachable, retry_requested, bounds>>

\* Mutant: a failed start is not repeated.
RepeatOnRequest ==
    /\ WorkerAt("loop")
    /\ retry_requested
    /\ retry_requested' = FALSE
    /\ workerPc' = "rebuild"
    /\ UNCHANGED <<ui, config, started, switching_device, pending_stops, index,
                   rest_client, flight, handover, devices, bounds>>

\* The source does not stream and could: a port in use waits for the user.
NeedStart == ~streaming /\ ~udp_port_conflict

\* c64_retry_thread_main: repeat the attempt, only the stops, or end.  During
\* a handover the attempt may be repeated on its own (resend).
Repeat ==
    /\ WorkerAt("loop")
    /\ \/ retry_requested \/ NeedStart
       \/ pending_stops # << >> /\ handover_peer # NoHost /\ streaming
    /\ retry_requested' = FALSE
    /\ workerPc' = "rebuild"
    /\ UNCHANGED <<ui, config, started, switching_device, pending_stops, index,
                   rest_client, flight, handover, devices, bounds>>

RepeatStops ==
    /\ WorkerAt("loop")
    /\ ~retry_requested /\ ~NeedStart
    /\ pending_stops # << >>
    /\ workerPc' = "hold"
    /\ UNCHANGED <<ui, config, started, switching_device, pending_stops, index,
                   rest_client, flight, handover, devices, retry_requested, bounds>>

Sleep ==
    /\ WorkerAt("loop")
    /\ ~retry_requested /\ ~NeedStart
    /\ pending_stops = << >>
    /\ workerPc' = "idle"
    /\ UNCHANGED <<ui, config, started, switching_device, pending_stops, index,
                   rest_client, flight, handover, devices, retry_requested, bounds>>

StartStep ==
    \/ RaiseInFlight \/ ReadEndpoint \/ StartUnreachable \/ StartReachable
    \/ DestFails \/ StartFirst \/ JoinReceivers \/ CreateSockets \/ SocketsFail
    \/ StartVideo \/ StartAudio \/ StartFails \/ Abort \/ ClearInFlight

StopStep ==
    \/ Hold \/ ScanEnds \/ ScanSelected \/ ScanUnreachable \/ ScanReachable
    \/ SendYields \/ SendStop \/ SendFails

WorkerStep ==
    \/ Wake \/ Rebuild \/ TakeNothing \/ TakeTransition \/ TakePending
    \/ TakeRetarget \/ TakeCancel \/ Snapshot \/ Resend \/ ResendFails
    \/ StartStep \/ StopStep \/ Repeat \/ RepeatStops \/ Sleep

-----------------------------------------------------------------------------
(* The surroundings.                                                       *)

\* c64_packet_admit: the new device's first packet closes the handover.
FirstPacket ==
    /\ streaming
    /\ ip_address.host \in sending
    /\ handover_peer \notin {NoHost, ip_address.host}
    /\ handover_peer' = NoHost
    /\ UNCHANGED <<ui, config, worker, flight, hold_over, devices,
                   retry_requested, bounds>>

HoldExpires ==
    /\ handover_peer # NoHost /\ ~hold_over
    /\ hold_over' = TRUE
    /\ UNCHANGED <<ui, config, worker, flight, handover_peer, devices,
                   retry_requested, bounds>>

\* The processor thread sees no video and schedules a retry.
Stall ==
    /\ streaming
    /\ ip_address.host \notin sending
    /\ ~retry_requested /\ ~udp_port_conflict
    /\ retry_requested' = TRUE
    /\ UNCHANGED <<ui, config, worker, flight, handover, devices, bounds>>

\* A device drops off the network, still streaming or switched off, or is
\* back on it.
Unplug(h) ==
    /\ faults < MaxFaults
    /\ h \in reachable
    /\ faults' = faults + 1
    /\ reachable' = reachable \ {h}
    /\ sending' \in {sending, sending \ {h}}
    /\ UNCHANGED <<ui, config, worker, flight, handover, lost, retry_requested, transport, updates>>

Plug(h) ==
    /\ h \notin reachable
    /\ reachable' = reachable \cup {h}
    /\ UNCHANGED <<ui, config, worker, flight, handover, sending, lost,
                   retry_requested, bounds>>

Next ==
    \/ \E ep \in Endpoint : UpdateTest(ep)
    \/ UpdateStep
    \/ WorkerStep
    \/ FirstPacket \/ HoldExpires \/ Stall
    \/ \E h \in Hosts : Unplug(h) \/ Plug(h)

Spec == Init /\ [][Next]_vars

(* The threads run, time passes, and a stalled stream is noticed; devices   *)
(* that are off need not come back, nor users change anything.             *)
Fairness ==
    /\ WF_vars(UpdateStep)
    /\ WF_vars(WorkerStep)
    /\ WF_vars(FirstPacket)
    /\ WF_vars(HoldExpires)
    /\ WF_vars(Stall)

FairSpec == Spec /\ Fairness

-----------------------------------------------------------------------------
TypeOK ==
    /\ ip_address \in Endpoint /\ old \in Endpoint /\ new \in Endpoint
    /\ started \in Endpoint
    /\ device_transition \in Endpoint \cup {NoEndpoint}
    /\ {streaming, stream_start_in_flight, rest_rebuild_pending, udp_port_conflict, retry_requested,
        hold_over, device_transition_pending, needs_transition,
        switching_device} \subseteq BOOLEAN
    /\ handover_peer \in Hosts \cup {NoHost}
    /\ uiPc \in {"idle", "record", "pend", "write", "schedule"}
    /\ workerPc \in {"idle", "rebuild", "take", "taken", "cleared", "cancel",
                     "snapshot", "resend", "raise", "read", "reach", "first",
                     "join", "recycle", "sockets", "video", "audio", "abort",
                     "landed", "hold", "scan", "send", "loop"}
    /\ pending_stops \in Seq([ep : Endpoint, attempts : 0 .. MaxAttempts - 1])
    /\ Len(pending_stops) <= QueueMax
    /\ index \in 1 .. QueueMax + 1
    /\ rest_client \in Hosts
    /\ sending \subseteq Hosts /\ reachable \subseteq Hosts /\ lost \subseteq Hosts
    /\ transport \in Transports

\* Nothing is under way: no settings change, no request, no worker.
Quiescent == uiPc = "idle" /\ workerPc = "idle" /\ ~retry_requested

(* Once everything has come to rest, only the selected device still streams *)
(* at this source, apart from devices that could not be told to stop; and   *)
(* no recorded switch is left behind (c64_update, the retry worker and its  *)
(* stop queue; device-switch.md: a switch "must never leave the old device  *)
(* streaming").                                                            *)
NoStrandedDevice ==
    Quiescent => /\ sending \subseteq {ip_address.host} \cup lost
                 /\ ~device_transition_pending

(* No entry of the stop queue is a duplicate, so a device is never stopped  *)
(* again by a stale entry once c64_stop_queue_cancel removed one for it.    *)
NoDuplicateStops ==
    \A i, j \in DOMAIN pending_stops :
        pending_stops[i].ep = pending_stops[j].ep => i = j

(* c64_process_previous_device_stops tells the selected device to stop only *)
(* when another start of it or of a newer device is already due: its stop   *)
(* never follows its last start.                                           *)
StopsSelected == workerPc = "send" /\ workerPc' = "scan" /\ sending' # sending
                 /\ Entry.ep.host = ip_address.host
NoStopAfterStart ==
    [][StopsSelected => uiPc # "idle" \/ retry_requested \/ device_transition_pending]_vars

(* When in the end every device answers and refuses nothing (MaxFaults), and *)
(* no settings change comes, the worker comes to rest: no switch, retry or   *)
(* stop keeps it busy for ever.  The selected device then streams, unless    *)
(* a local port is in use, where c64_retry_thread_main waits for the user.   *)
SelectedStreams ==
    <>[](reachable = Hosts) =>
        <>[](/\ Quiescent
             /\ \/ streaming /\ ip_address.host \in sending
                \/ ~streaming /\ udp_port_conflict)

(* What holds of the switch at every step: the flags and the stop queue are *)
(* well formed, no device waits twice for its stop, and none is stranded    *)
(* (c64_update, c64_start_streaming, c64-device-switch.c).                  *)
SwitchInv == TypeOK /\ NoDuplicateStops /\ NoStrandedDevice
-----------------------------------------------------------------------------
(* Why these hold while no window is open: the parts of an inductive        *)
(* invariant.  A device that sends is the selected one, or is given up on,  *)
(* or waits for its stop in the queue or in the recorded transition.        *)

HostsIn(q) == {q[i].ep.host : i \in DOMAIN q}

Parked(h) ==
    \/ h \in lost
    \/ h \in HostsIn(pending_stops)
    \/ device_transition_pending /\ device_transition.host = h

SendersKnown == \A h \in sending : h = ip_address.host \/ Parked(h)

\* Where the worker cannot be preempted, and where it works for `started`.
Taking == {"take", "taken", "cleared", "cancel", "snapshot", "raise", "read"}
Starting == {"reach", "first", "join", "recycle", "sockets", "video", "audio",
             "abort", "landed"}
Serving == {"resend"} \cup Starting
Stopping == {"hold", "scan", "send", "loop"}

\* Before the selected endpoint may be overwritten without recording it, its
\* own device is silent or parked as well.
SelectedMayGo ==
    \/ device_transition_pending
    \/ ~streaming /\ (~stream_start_in_flight \/ workerPc = "landed")

SelectedParked ==
    /\ SelectedMayGo
    /\ workerPc \notin Taking \ {"take", "taken"}
    /\ ip_address.host \in sending
    => Parked(ip_address.host)

\* A start that failed and was not overtaken leaves its device silent or lost.
FailedStartSilent ==
    /\ uiPc = "idle" /\ ~retry_requested /\ ~streaming
    /\ workerPc \in {"landed"} \cup Stopping
    /\ ip_address.host \in sending
    => ip_address.host \in lost

\* While nothing newer is asked for, the worker serves the selected endpoint.
NothingNewer ==
    /\ uiPc = "idle" /\ ~retry_requested
    /\ workerPc \in Serving \cup Stopping
    => /\ ~device_transition_pending
       /\ workerPc \in Serving => started = ip_address
       /\ workerPc = "send" => Entry.ep # ip_address

ServesOne ==
    /\ workerPc \in Serving =>
          /\ rest_client = started.host
          /\ IF device_transition_pending
             THEN device_transition.host = started.host
             ELSE started = ip_address
    /\ workerPc \in {"resend", "first", "join", "audio"} => streaming
    /\ workerPc \in {"recycle", "sockets", "video"} => ~streaming
    /\ workerPc \in {"raise", "read", "reach"} => switching_device \/ ~streaming
    /\ workerPc \in {"first", "join", "recycle"} => switching_device
    /\ workerPc = "sockets" /\ ~switching_device => started.host \notin sending
    /\ workerPc = "read" \/ workerPc \in Starting => stream_start_in_flight

\* What c64_update has decided stays true until it has done it.
UpdateOnCourse ==
    /\ uiPc # "idle" => workerPc \notin Taking
    /\ uiPc \in {"record", "pend", "write"} => old = ip_address
    /\ uiPc \in {"record", "pend"} => needs_transition /\ ~device_transition_pending
    /\ uiPc = "pend" => device_transition = old
    /\ uiPc \in {"write", "schedule"} /\ needs_transition => device_transition_pending
    /\ uiPc \notin {"idle"} /\ ~needs_transition => ~streaming /\ ~stream_start_in_flight
    /\ uiPc = "schedule" => ip_address = new

\* The REST client talks to the selected device, or a later step retargets it.
ClientFollows ==
    /\ \/ rest_client = ip_address.host
       \/ device_transition_pending \/ rest_rebuild_pending
       \/ workerPc = "cleared"
       \/ uiPc = "schedule" /\ new.host # old.host
    /\ uiPc = "schedule" => \/ rest_client = old.host
                            \/ device_transition_pending \/ rest_rebuild_pending
    /\ workerPc \in Taking => ~rest_rebuild_pending
    /\ workerPc \in {"cancel", "snapshot", "raise", "read"} => rest_client = ip_address.host

\* A recorded transition is taken by a repeat that is already due.
TransitionTaken ==
    /\ device_transition_pending =>
          /\ device_transition \in Endpoint
          /\ \/ uiPc # "idle" \/ retry_requested
             \/ workerPc \in {"rebuild", "take", "taken"}
    /\ workerPc = "taken" => /\ device_transition_pending
                             /\ device_transition.host \in HostsIn(pending_stops)
    /\ workerPc \in Taking \ {"take", "taken"} => ~device_transition_pending

WorkerPlace ==
    /\ workerPc = "idle" => pending_stops = << >>
    /\ workerPc = "send" => index <= Len(pending_stops)

IInv == /\ TypeOK /\ NoDuplicateStops /\ WorkerPlace
        /\ UpdateOnCourse /\ TransitionTaken /\ ServesOne /\ ClientFollows
        /\ NothingNewer /\ SendersKnown /\ SelectedParked /\ FailedStartSilent
=============================================================================
