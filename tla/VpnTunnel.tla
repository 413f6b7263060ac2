------------------------------ MODULE VpnTunnel ------------------------------
(***************************************************************************)
(* The Android system tunnel: setSystemTunnel of MasqCoreModule.kt (called *)
(* on the native-modules thread), MasqVpnService (its callbacks run on the *)
(* main thread, its translator on tunnelExecutor), the stop timeouts of    *)
(* stopAcknowledgementExecutor, and the one cancellation token of the      *)
(* packet-tunnel library.  The build has the tunnel enabled.               *)
(***************************************************************************)
EXTENDS Naturals, Sequences, FiniteSets

CONSTANTS MaxStarts,      \* bound on tunnels asked for
          MaxStops,       \* bound on stop requests
          MaxRevokes,     \* bound on revocations by Android
          CloseMayFail    \* closing the descriptor may throw

ASSUME TunnelAssumption == MaxStarts \in Nat /\ MaxStops \in Nat

VARIABLES
    status,   \* currentPhase, currentActive, currentError (companion object)
    module,   \* pendingTunnelRequest, the stop promises, requests made so far
    android,  \* the service record, the main thread's messages, the permission
    service,  \* per service instance: tunnelDescriptor, stopping
    main,     \* where the main thread is in stopTunnel
    tunnels,  \* every tunnel established: its descriptor and translator job
    token     \* TUNNEL_CANCELLATION: the tunnel that can be cancelled, or 0

tunnelVars == <<status, module, android, service, main, tunnels, token>>

Stops == 1 .. MaxStops
Instances == 1 .. (MaxStarts + MaxStops)
MainIdle == [pc |-> "idle", inst |-> 0, stop |-> 0]
Status(p, a, e) == [phase |-> p, active |-> a, error |-> e]

TunnelInit ==
    /\ status = Status("off", FALSE, "none")
    /\ module = [pending |-> FALSE, starts |-> 0, reloads |-> 0,
                 stops |-> [s \in Stops |-> "unused"]]
    /\ android = [record |-> FALSE, inst |-> 0, queue |-> <<>>,
                  granted |-> FALSE, revokes |-> 0]
    /\ service = [i \in Instances |-> [descriptor |-> 0, stopping |-> FALSE]]
    /\ main = MainIdle
    /\ tunnels = <<>>
    /\ token = 0

markStopping == status' = Status("stopping", TRUE, "none")
markStopFailed == status' = Status("blocked", TRUE, "stop")

\* Context.startService: a message for the running service, or for a new one.
startService(a, act, stop) ==
    LET inst == IF a.record THEN a.inst ELSE a.inst + 1
    IN  [a EXCEPT !.record = TRUE, !.inst = inst,
            !.queue = Append(@, [act |-> act, stop |-> stop, inst |-> inst])]

\* Service.stopSelf: the record goes at once, onDestroy follows the messages
\* already sent, and a later startService makes a new instance.
stopSelf(a, i) ==
    IF a.record /\ a.inst = i
    THEN [a EXCEPT !.record = FALSE,
          !.queue = Append(@, [act |-> "DESTROY", stop |-> 0, inst |-> i])]
    ELSE a

-----------------------------------------------------------------------------
(* The native-modules thread and the permission dialog.                     *)

\* startForegroundService throws when Android does not allow the start.
startSystemTunnel(a) ==
    \/ /\ status' = Status("starting", FALSE, "none")
       /\ android' = startService(a, "START", 0)
    \/ /\ status' = Status("off", FALSE, "none")
       /\ android' = a

\* systemTunnelBusy keeps a second request back while one is undecided.
setSystemTunnel ==
    /\ module.starts < MaxStarts /\ ~module.pending
    /\ status.phase = "off"
    /\ module' = [module EXCEPT !.starts = @ + 1, !.pending = ~android.granted]
    /\ IF android.granted THEN startSystemTunnel(android)
       ELSE UNCHANGED <<status, android>>
    /\ UNCHANGED <<service, main, tunnels, token>>

onActivityResult ==
    /\ module.pending
    /\ module' = [module EXCEPT !.pending = FALSE]
    /\ \/ UNCHANGED <<status, android>>
       \/ startSystemTunnel([android EXCEPT !.granted = TRUE])
    /\ UNCHANGED <<service, main, tunnels, token>>

\* completeTunnelStop: only the first settlement of a stop takes effect, and
\* a rejecting one marks the stop as failed.
completeTunnelStop(s, outcome) ==
    module' = IF module.stops[s] = "pending"
              THEN [module EXCEPT !.stops[s] = outcome] ELSE module

\* stopSystemTunnel holds lifecycleLock until the STOP intent is dispatched.
stopSystemTunnel ==
    \E s \in Stops :
       /\ module.stops[s] = "unused"
       /\ \A r \in 1 .. (s - 1) : module.stops[r] # "unused"
       /\ \/ /\ module' = [module EXCEPT !.stops[s] = "pending"]
             /\ markStopping
             /\ android' = startService(android, "STOP", s)
          \/ /\ module' = [module EXCEPT !.stops[s] = "rejected"]
             /\ markStopFailed
             /\ UNCHANGED android
       /\ UNCHANGED <<service, main, tunnels, token>>

no_timeout == FALSE /\ UNCHANGED tunnelVars

stopSystemTunnel_timeout ==
    \E s \in Stops :
       /\ module.stops[s] = "pending"
       /\ completeTunnelStop(s, "rejected")
       /\ markStopFailed
       /\ UNCHANGED <<android, service, main, tunnels, token>>

\* The React context is torn down and made again: pending stops are rejected,
\* the service and its status live on.
invalidate ==
    /\ module.reloads = 0
    /\ module' = [module EXCEPT !.reloads = 1, !.pending = FALSE,
         !.stops = [s \in Stops |->
                      IF @[s] = "pending" THEN "rejected" ELSE @[s]]]
    /\ UNCHANGED <<status, android, service, main, tunnels, token>>

-----------------------------------------------------------------------------
(* The main thread: onStartCommand, stopTunnel and onDestroy.               *)

Take(act) ==
    /\ main = MainIdle /\ android.queue # <<>> /\ Head(android.queue).act = act
    /\ android' = [android EXCEPT !.queue = Tail(@)]

\* Builder.establish gives no interface when the permission is gone.
onStartCommand_start ==
    LET i == Head(android.queue).inst IN
    /\ Take("START")
    /\ \/ /\ service[i].descriptor # 0
          /\ status' = Status("blocked", FALSE, "scope")
          /\ UNCHANGED <<service, tunnels>>
       \/ /\ service[i].descriptor = 0 /\ android.granted
          /\ tunnels' = Append(tunnels, [inst |-> i, fd |-> "open",
                                         job |-> "queued", cancelled |-> FALSE])
          /\ service' = [service EXCEPT ![i] = [descriptor |-> Len(tunnels) + 1,
                                                stopping |-> FALSE]]
          /\ status' = Status("active", TRUE, "none")
       \/ /\ service[i].descriptor = 0
          /\ status' = Status("blocked", FALSE, "start")
          /\ UNCHANGED <<service, tunnels>>
    /\ UNCHANGED <<module, main, token>>

acknowledged_on_receipt ==
    /\ Take("STOP")
    /\ markStopping
    /\ completeTunnelStop(Head(android.queue).stop, "off")
    /\ main' = [pc |-> "native", inst |-> Head(android.queue).inst,
                stop |-> Head(android.queue).stop]
    /\ UNCHANGED <<service, tunnels, token>>

onStartCommand_stop ==
    /\ Take("STOP")
    /\ markStopping
    /\ main' = [pc |-> "native", inst |-> Head(android.queue).inst,
                stop |-> Head(android.queue).stop]
    /\ UNCHANGED <<module, service, tunnels, token>>

onDestroy ==
    /\ Take("DESTROY")
    /\ main' = [pc |-> "native", inst |-> Head(android.queue).inst, stop |-> 0]
    /\ UNCHANGED <<status, module, service, tunnels, token>>

\* nativeStop takes the token of the running translator and cancels it.
stopTunnel_native ==
    /\ main.pc = "native"
    /\ service' = [service EXCEPT ![main.inst].stopping = TRUE]
    /\ token' = 0
    /\ tunnels' = [t \in DOMAIN tunnels |->
                     IF t = token THEN [tunnels[t] EXCEPT !.cancelled = TRUE]
                     ELSE tunnels[t]]
    /\ main' = [main EXCEPT !.pc = "close"]
    /\ UNCHANGED <<status, module, android>>

\* tunnelExecutor.shutdownNow drops the jobs of the instance not yet begun.
Destroyed(ts) ==
    [t \in DOMAIN ts |->
       IF main.stop = 0 /\ ts[t].inst = main.inst /\ ts[t].job = "queued"
       THEN [ts[t] EXCEPT !.job = "done"] ELSE ts[t]]

stopTunnel_close ==
    LET d == service[main.inst].descriptor IN
    /\ main.pc = "close"
    /\ \/ /\ tunnels' = IF d = 0 THEN tunnels
                        ELSE [tunnels EXCEPT ![d].fd = "closed"]
          /\ service' = [service EXCEPT ![main.inst].descriptor = 0]
          /\ main' = [main EXCEPT !.pc = "status"]
          /\ UNCHANGED <<status, module>>
       \/ /\ CloseMayFail /\ d # 0
          /\ markStopFailed
          /\ tunnels' = Destroyed([tunnels EXCEPT ![d].fd = "failed"])
          /\ main' = MainIdle
          /\ IF main.stop = 0 THEN UNCHANGED module
             ELSE completeTunnelStop(main.stop, "rejected")
          /\ UNCHANGED service
    /\ UNCHANGED <<android, token>>

status_kept_on_destroy ==
    /\ main.pc = "status"
    /\ status' = IF main.stop = 0 THEN status ELSE Status("off", FALSE, "none")
    /\ main' = [main EXCEPT !.pc = "ack"]
    /\ UNCHANGED <<module, android, service, tunnels, token>>

stopTunnel_status ==
    /\ main.pc = "status"
    /\ status' = Status("off", FALSE, "none")
    /\ main' = [main EXCEPT !.pc = "ack"]
    /\ UNCHANGED <<module, android, service, tunnels, token>>

\* The acknowledgement carries the status as it is now.
stopTunnel_ack ==
    /\ main.pc = "ack"
    /\ main' = MainIdle
    /\ tunnels' = Destroyed(tunnels)
    /\ IF main.stop = 0
       THEN UNCHANGED <<module, android>>
       ELSE /\ completeTunnelStop(main.stop, IF status.phase = "off"
                                             THEN "off" ELSE "resolved")
            /\ android' = stopSelf(android, main.inst)
    /\ UNCHANGED <<status, service, token>>

\* VpnService.onRevoke: the user or another VPN took the permission away.
onRevoke ==
    /\ android.granted /\ android.revokes < MaxRevokes
    /\ android' = stopSelf([android EXCEPT !.granted = FALSE,
                                           !.revokes = @ + 1], android.inst)
    /\ UNCHANGED <<status, module, service, main, tunnels, token>>

-----------------------------------------------------------------------------
(* tunnelExecutor: one job per established tunnel, one thread per instance. *)

Moves(t, job) == tunnels' = [tunnels EXCEPT ![t].job = job]

\* Reading the fd of a descriptor already closed throws; the job ends there.
job_reads_fd(t) ==
    /\ tunnels[t].job = "queued"
    /\ \A u \in 1 .. (t - 1) :
         tunnels[u].inst = tunnels[t].inst => tunnels[u].job = "done"
    /\ Moves(t, IF tunnels[t].fd = "open" THEN "read" ELSE "done")
    /\ UNCHANGED <<status, module, android, service, main, token>>

nativeStart(t) ==
    /\ tunnels[t].job = "read"
    /\ IF token = 0
       THEN token' = t /\ Moves(t, "running")
       ELSE Moves(t, "failed") /\ UNCHANGED token
    /\ UNCHANGED <<status, module, android, service, main>>

\* The translator ends, cancelled or not, and clears the token it finds.
native_returns(t) ==
    /\ tunnels[t].job = "running"
    /\ token' = 0
    /\ \/ tunnels[t].cancelled /\ Moves(t, "done")
       \/ Moves(t, "failed")
    /\ UNCHANGED <<status, module, android, service, main>>

job_checks_stopping(t) ==
    /\ tunnels[t].job = "failed"
    /\ Moves(t, IF service[tunnels[t].inst].stopping THEN "done" ELSE "reports")
    /\ UNCHANGED <<status, module, android, service, main, token>>

job_reports(t) ==
    /\ tunnels[t].job = "reports"
    /\ Moves(t, "done")
    /\ status' = Status("blocked", TRUE, "translator")
    /\ UNCHANGED <<module, android, service, main, token>>

-----------------------------------------------------------------------------
Calls == setSystemTunnel \/ onActivityResult \/ stopSystemTunnel \/ stopSystemTunnel_timeout
         \/ invalidate \/ onRevoke

MainThread == onStartCommand_start \/ onStartCommand_stop \/ onDestroy
              \/ stopTunnel_native \/ stopTunnel_close \/ stopTunnel_status
              \/ stopTunnel_ack

Translator == \E t \in DOMAIN tunnels :
    job_reads_fd(t) \/ nativeStart(t) \/ native_returns(t)
    \/ job_checks_stopping(t) \/ job_reports(t)

TunnelNext == Calls \/ MainThread \/ Translator

TunnelSpec == TunnelInit /\ [][TunnelNext]_tunnelVars

\* A scheduled timeout expires; the service may never answer.
TunnelFairness == WF_tunnelVars(stopSystemTunnel_timeout)
TunnelFairSpec == TunnelSpec /\ TunnelFairness

-----------------------------------------------------------------------------
\* The published status, the stop promises, the service instances and the
\* translator jobs keep to their values.
TunnelTypeOK ==
    /\ status \in [phase : {"off", "starting", "active", "stopping", "blocked"},
                   active : BOOLEAN,
                   error : {"none", "stop", "scope", "start", "translator"}]
    /\ module.stops \in [Stops -> {"unused", "pending", "off", "resolved",
                                   "rejected"}]
    /\ android.inst \in 0 .. (MaxStarts + MaxStops)
    /\ \A i \in Instances : service[i].descriptor \in 0 .. Len(tunnels)
    /\ main.pc \in {"idle", "native", "close", "status", "ack"}
    /\ \A t \in DOMAIN tunnels :
         tunnels[t].job \in {"queued", "read", "running", "failed", "reports", "done"}
    /\ token \in 0 .. Len(tunnels)

\* The tunnels known to capture traffic; after a failing close nobody knows.
Open == {t \in DOMAIN tunnels : tunnels[t].fd = "open"}

\* At most one tunnel is ever established (the guards of setSystemTunnel and
\* onStartCommand), it belongs to the instance that can still close it, and the
\* published status is truthful: updateStatus never says "off" while a tunnel
\* captures the device's traffic, and between two messages a status "active" is
\* backed by an open descriptor.
TunnelIsTruthful ==
    /\ Cardinality(Open) <= 1
    /\ \A t \in Open : service[tunnels[t].inst].descriptor = t
    /\ status.phase = "off" => Open = {}
    /\ main = MainIdle /\ status.phase = "active" => Open # {}

\* A stop that resolves with "off" leaves no descriptor open, and a settled stop
\* is settled for good: a late acknowledgement or timeout is ignored
\* (completed.compareAndSet).
SettledStop ==
    \A s \in Stops :
        /\ module.stops[s] = "pending" /\ module.stops'[s] = "off" => Open' = {}
        /\ module.stops[s] \notin {"unused", "pending"}
              => module.stops'[s] = module.stops[s]
StopIsAcknowledgedClosed == [][SettledStop]_tunnelVars

\* Every stop promise is settled in the end, even when the service never
\* answers (the timeout of stopSystemTunnel).
StopSettles == \A s \in Stops : module.stops[s] = "pending"
                                ~> module.stops[s] \in {"off", "resolved", "rejected"}
=============================================================================
