------------------------- MODULE MCDeviceProgress -------------------------
(***************************************************************************)
(* That the core, the app's session and the system tunnel do not come to a  *)
(* halt.  As in MCDevice they are checked side by side; the others have     *)
(* nothing to do then.                                                      *)
(***************************************************************************)
EXTENDS AppSession, VpnTunnel, TLC

CONSTANTS NoConfig, NoWallet

VARIABLES
    part,
    config, wallet, phase, proxyEnabled, proxyPort, neighbors, engine, thread,
    op, pc, todo, snap, result, reply,
    embedded, started, stopRequested, routeStage, lastExitCode, system, retrySub,
    arbiters, expected, registered, tracking, arbiterShutdown,
    run, nodePc, nodeCode, nodeConfig, systemStop, worker, stopSent, report

\* One run of the Node with one actor thread
Core == INSTANCE MCMobileCore WITH
    Profiles <- {"profile"}, Hops <- {1}, Wallets <- {"wallet"},
    Workers <- {"neighborhood"}, Neighborhood <- "neighborhood", MaxRuns <- 1

coreVars == <<config, wallet, phase, proxyEnabled, proxyPort, neighbors, engine, thread,
              op, pc, todo, snap, result, reply,
              embedded, started, stopRequested, routeStage, lastExitCode, system, retrySub,
              arbiters, expected, registered, tracking, arbiterShutdown,
              run, nodePc, nodeCode, nodeConfig, systemStop, worker, stopSent, report>>
deviceVars == <<part, sessionVars, coreVars, tunnelVars>>

DeviceInit ==
    /\ part \in {"core", "session", "tunnel"}
    /\ SessionInit /\ Core!Init /\ TunnelInit
    /\ part # "session" => build = [platform |-> "ios", mayFail |-> FALSE]

DeviceNext ==
    /\ UNCHANGED part
    /\ \/ part = "core" /\ Core!LifecycleNext /\ UNCHANGED <<sessionVars, tunnelVars>>
       \/ part = "session" /\ SessionNext /\ UNCHANGED <<coreVars, tunnelVars>>
       \/ part = "tunnel" /\ TunnelNext /\ UNCHANGED <<sessionVars, coreVars>>

\* None of the fair actions of a component is enabled in its initial state.
DeviceSpec ==
    /\ DeviceInit /\ [][DeviceNext]_deviceVars
    /\ SessionFairness /\ Core!Fairness /\ TunnelFairness

---------------------------------------------------------------------------
\* The CORE mutex is always released: no call waits for the Node without bound.
CallsReturn == part = "core" => Core!CallsReturn

\* A stop of an embedded Node ends its thread and all its arbiters, even when the call
\* that asked for it has given up waiting.
StopTakesEffect == part = "core" => Core!StopTakesEffect
=============================================================================
