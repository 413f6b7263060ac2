----------------------------- MODULE MobileCore -----------------------------
(***************************************************************************)
(* The embedded consume-only Node of MASQ Mobile: the Rust core the native *)
(* bridges call (core.rs, lib.rs, android.rs), the handle on the Node      *)
(* thread (engine.rs), the process-wide lifecycle state both sides share   *)
(* (mobile_runtime.rs) and the Actix system and arbiters behind it.        *)
(*                                                                         *)
(* Every call of the bridge holds the CORE mutex from its first step to    *)
(* the status it returns, so there is one call at a time (op, pc); the     *)
(* Node thread (nodePc) and the arbiters (worker) run beside it and share  *)
(* the atomics with it.  A load or store of an atomic that another thread  *)
(* may race with is a step of its own.                                     *)
(*                                                                         *)
(* Left out: message texts, exit countries, byte and hop counters, the     *)
(* proxy port's number, and the build without the Node (engine_available   *)
(* FALSE).  Two configurations that differ in entry nodes only are equal.  *)
(***************************************************************************)
EXTENDS Naturals, FiniteSets

CONSTANTS
    Profiles,       \* network profiles: MobileConfig but its entry nodes and hop count
    Hops,           \* route lengths
    Wallets,        \* consumer wallets
    Workers,        \* the actors that get an arbiter of their own
    Neighborhood,   \* the one of them that reports the route stage
    MaxRuns,        \* bound: how many times the Node thread is spawned
    NoConfig, NoWallet

ASSUME ConstantsAssumption ==
    /\ Neighborhood \in Workers
    /\ IsFiniteSet(Workers)
    /\ MaxRuns \in Nat
    /\ NoConfig \notin [profile : Profiles, hops : Hops]
    /\ NoWallet \notin Wallets

VARIABLES
    (* MobileCore and EngineHandle, under the CORE mutex *)
    config, wallet, phase, proxyEnabled, proxyPort, neighbors,
    engine,         \* self.engine.is_some()
    thread,         \* the handle still owns a JoinHandle
    (* the bridge call in progress *)
    op, pc, todo, snap, result, reply,
    (* mobile_runtime: EMBEDDED, STARTED, STOP_REQUESTED, ROUTE_STAGE, *)
    (* LAST_EXIT_CODE, SYSTEM, NEIGHBORHOOD_RETRY                      *)
    embedded, started, stopRequested, routeStage, lastExitCode, system, retrySub,
    (* ACTOR_ARBITERS, EXPECTED_/REGISTERED_ACTOR_ARBITERS, *)
    (* ACTOR_ARBITER_TRACKING_ACTIVE, _SHUTDOWN_REQUESTED   *)
    arbiters, expected, registered, tracking, arbiterShutdown,
    (* the Node thread and Actix *)
    run, nodePc, nodeCode, nodeConfig, systemStop,
    worker, stopSent, report

coreVars    == <<config, wallet, phase, proxyEnabled, proxyPort, neighbors, engine, thread>>
callVars    == <<op, pc, todo, snap, result, reply>>
runtimeVars == <<embedded, started, stopRequested, routeStage, lastExitCode, system, retrySub>>
trackVars   == <<arbiters, expected, registered, tracking, arbiterShutdown>>
nodeVars    == <<run, nodePc, nodeCode, nodeConfig, systemStop>>
workerVars  == <<worker, stopSent, report>>
vars == <<coreVars, callVars, runtimeVars, trackVars, nodeVars, workerVars>>

Configs == [profile : Profiles, hops : Hops]
Phases == {"Unconfigured", "Ready", "Connecting", "Connected", "Paused", "Stopping", "Error"}
StopOps == {"shutdown", "reset", "reset_network_profile", "remove_wallet"}
Ops == StopOps \cup {"get_status", "configure", "import_wallet", "update_min_hops", "start",
                     "stop", "preflight_proxy", "set_proxy_enabled"}
NoOp == "none"
NoCode == "none"
Codes == {"zero", "nonzero"}
NoReport == 3
Runs == 1..MaxRuns
Arbiters == Runs \X Workers
NoReply == [op |-> NoOp, ok |-> TRUE, phase |-> "Unconfigured", proxyEnabled |-> FALSE,
            proxyPort |-> FALSE, neighbors |-> 0]
NoSnapshot == [exit |-> NoCode, started |-> FALSE, stopRequested |-> FALSE]

NodeFinishing == {"f_started", "f_stop", "f_stage", "f_exit", "f_subs", "f_embedded"}
NodePcs == {"none", "spawned", "registering", "boot", "running", "exited"} \cup NodeFinishing
CallPcs == {"idle", "refresh", "load_started", "load_stop", "load_stage", "connect", "report",
            "store", "stop_check", "stop_flag", "stop_arbiters_flag", "stop_arbiters",
            "stop_system", "join", "wait_arbiters"}

Init ==
    /\ config = NoConfig /\ wallet = NoWallet /\ phase = "Unconfigured"
    /\ proxyEnabled = FALSE /\ proxyPort = FALSE /\ neighbors = 0
    /\ engine = FALSE /\ thread = FALSE
    /\ op = NoOp /\ pc = "idle" /\ todo = 0 /\ snap = NoSnapshot
    /\ result = TRUE /\ reply = NoReply
    /\ embedded = FALSE /\ started = FALSE /\ stopRequested = FALSE /\ routeStage = 0
    /\ lastExitCode = NoCode /\ system = FALSE /\ retrySub = FALSE
    /\ arbiters = {} /\ expected = 0 /\ registered = 0
    /\ tracking = FALSE /\ arbiterShutdown = FALSE
    /\ run = 0 /\ nodePc = "none" /\ nodeCode = NoCode
    /\ nodeConfig = NoConfig /\ systemStop = FALSE
    /\ worker = [a \in Arbiters |-> "none"] /\ stopSent = {}
    /\ report = [r \in Runs |-> NoReport]

(***************************************************************************)
(* A bridge call: with_core locks CORE, runs the operation, records an     *)
(* error, and always answers with status_json, which refreshes first.      *)
(***************************************************************************)
Begin(o) ==
    /\ op = NoOp
    /\ op' = o
    /\ reply' = NoReply
    /\ UNCHANGED snap

\* The operation is over with result ok; n refreshes follow before the answer.
Answer(ok, n) ==
    /\ result' = ok
    /\ todo' = n
    /\ pc' = "refresh"

\* fail and record_error
record_error ==
    /\ phase' = "Error"
    /\ proxyEnabled' = FALSE
    /\ UNCHANGED <<config, wallet, proxyPort, neighbors, engine, thread>>
    /\ Answer(FALSE, 1)

\* The phase of a core that holds no engine.
RestPhase(c, w) == IF c # NoConfig /\ w # NoWallet THEN "Ready" ELSE "Unconfigured"

get_status ==
    /\ Begin("get_status")
    /\ Answer(TRUE, 1)
    /\ UNCHANGED <<coreVars, runtimeVars, trackVars, nodeVars, workerVars>>

\* A missing, malformed or out-of-range argument.
reject_argument(o) ==
    /\ Begin(o)
    /\ record_error
    /\ UNCHANGED <<runtimeVars, trackVars, nodeVars, workerVars>>

\* Mutant: the running profile is replaced like a stopped one.
configure_while_running(c) ==
    /\ Begin("configure")
    /\ config' = c
    /\ phase' = RestPhase(c, wallet)
    /\ UNCHANGED <<wallet, proxyEnabled, proxyPort, neighbors, engine, thread>>
    /\ Answer(TRUE, 1)
    /\ UNCHANGED <<runtimeVars, trackVars, nodeVars, workerVars>>

configure(c) ==
    /\ Begin("configure")
    /\ IF engine /\ c # config
       THEN record_error
       ELSE /\ config' = c
            /\ phase' = RestPhase(c, wallet)
            /\ UNCHANGED <<wallet, proxyEnabled, proxyPort, neighbors, engine, thread>>
            /\ Answer(TRUE, 1)
    /\ UNCHANGED <<runtimeVars, trackVars, nodeVars, workerVars>>

import_wallet(w) ==
    /\ Begin("import_wallet")
    /\ wallet' = w
    /\ phase' = RestPhase(config, w)
    /\ UNCHANGED <<config, proxyEnabled, proxyPort, neighbors, engine, thread>>
    /\ Answer(TRUE, 1)
    /\ UNCHANGED <<runtimeVars, trackVars, nodeVars, workerVars>>

\* With an engine, set_min_hops first hands the value to the Neighborhood
\* (which fails when its mailbox is closed or full) and drops the route proof.
update_min_hops(h) ==
    /\ Begin("update_min_hops")
    /\ \/ /\ config = NoConfig \/ (engine /\ retrySub)
          /\ record_error
          /\ UNCHANGED <<routeStage, nodeConfig>>
       \/ /\ config # NoConfig
          /\ config' = [config EXCEPT !.hops = h]
          /\ IF engine
             THEN /\ routeStage' = IF routeStage = 2 THEN 1 ELSE routeStage
                  /\ nodeConfig' = [nodeConfig EXCEPT !.hops = h]
             ELSE UNCHANGED <<routeStage, nodeConfig>>
          /\ UNCHANGED <<wallet, phase, proxyEnabled, proxyPort, neighbors, engine, thread>>
          /\ Answer(TRUE, 1)
    /\ UNCHANGED <<embedded, started, stopRequested, lastExitCode, system, retrySub>>
    /\ UNCHANGED <<run, nodePc, nodeCode, systemStop, trackVars, workerVars>>

\* retry_connection of mobile_runtime: an error before the first store, or
\* (no recipient, or a mailbox that refuses StartMessage) after the stage is 0.
RetryFails ==
    /\ \/ ~(embedded /\ started) /\ UNCHANGED routeStage
       \/ embedded /\ started /\ routeStage' = 0
    /\ record_error

RetrySent ==
    /\ embedded /\ started /\ retrySub
    /\ routeStage' = 0
    /\ phase' = "Connecting"
    /\ proxyEnabled' = FALSE
    /\ neighbors' = 0
    /\ UNCHANGED <<config, wallet, proxyPort, engine, thread>>
    /\ Answer(TRUE, 2)

\* start of a core that holds an engine, or that cannot start one
start ==
    /\ Begin("start")
    /\ \/ /\ config = NoConfig \/ wallet = NoWallet
          /\ record_error
          /\ UNCHANGED routeStage
       \/ /\ config # NoConfig /\ wallet # NoWallet
          /\ phase = "Connected"
          /\ Answer(TRUE, 1)
          /\ UNCHANGED <<coreVars, routeStage>>
       \/ /\ config # NoConfig /\ wallet # NoWallet
          /\ phase # "Connected" /\ engine
          /\ RetryFails \/ RetrySent
       \/ /\ config # NoConfig /\ wallet # NoWallet
          /\ phase # "Connected" /\ ~engine      \* no data directory or no free port
          /\ record_error
          /\ UNCHANGED routeStage
    /\ UNCHANGED <<embedded, started, stopRequested, lastExitCode, system, retrySub>>
    /\ UNCHANGED <<trackVars, nodeVars, workerVars>>

\* The runtime state a new Node finds: no thread of an earlier one is left to race.
prepare ==
    /\ embedded' = TRUE
    /\ started' = FALSE /\ stopRequested' = FALSE /\ routeStage' = 0
    /\ lastExitCode' = NoCode /\ system' = FALSE /\ retrySub' = FALSE
    /\ arbiters' = {} /\ expected' = 0 /\ registered' = 0
    /\ tracking' = TRUE /\ arbiterShutdown' = FALSE

\* EngineHandle::start: prepare, then spawn the Node thread (which may fail).
start_engine ==
    /\ Begin("start")
    /\ config # NoConfig /\ wallet # NoWallet
    /\ phase # "Connected" /\ ~engine
    /\ run < MaxRuns
    /\ prepare
    /\ \/ /\ record_error
          /\ UNCHANGED nodeVars
       \/ /\ engine' = TRUE /\ thread' = TRUE
          /\ phase' = "Connecting" /\ proxyEnabled' = FALSE
          /\ UNCHANGED <<config, wallet, proxyPort, neighbors>>
          /\ run' = run + 1 /\ nodePc' = "spawned" /\ nodeCode' = NoCode
          /\ nodeConfig' = config /\ systemStop' = FALSE
          /\ Answer(TRUE, 1)
    /\ UNCHANGED workerVars

\* Mutant: a pause leaves the browser proxy on.
stop_keeps_proxy ==
    /\ Begin("stop")
    /\ phase' = IF engine THEN "Paused" ELSE RestPhase(config, wallet)
    /\ UNCHANGED <<config, wallet, proxyEnabled, proxyPort, neighbors, engine, thread>>
    /\ Answer(TRUE, 1)
    /\ UNCHANGED <<runtimeVars, trackVars, nodeVars, workerVars>>

stop ==
    /\ Begin("stop")
    /\ phase' = IF engine THEN "Paused" ELSE RestPhase(config, wallet)
    /\ proxyEnabled' = FALSE
    /\ proxyPort' = (engine /\ proxyPort)
    /\ neighbors' = IF engine THEN neighbors ELSE 0
    /\ UNCHANGED <<config, wallet, engine, thread>>
    /\ Answer(TRUE, 1)
    /\ UNCHANGED <<runtimeVars, trackVars, nodeVars, workerVars>>

set_proxy_enabled(enabled) ==
    /\ Begin("set_proxy_enabled")
    /\ IF enabled /\ phase # "Connected"
       THEN record_error
       ELSE /\ proxyEnabled' = enabled
            /\ UNCHANGED <<config, wallet, phase, proxyPort, neighbors, engine, thread>>
            /\ Answer(TRUE, 1)
    /\ UNCHANGED <<runtimeVars, trackVars, nodeVars, workerVars>>

(***************************************************************************)
(* preflight_proxy: an HTTP CONNECT through the local proxy, made while    *)
(* the CORE mutex is held, whose answer is reported to the runtime.        *)
(***************************************************************************)
preflight_proxy ==
    /\ Begin("preflight_proxy")
    /\ IF ~proxyEnabled \/ phase # "Connected" \/ ~proxyPort
       THEN record_error
       ELSE pc' = "connect" /\ UNCHANGED <<coreVars, todo, result>>
    /\ UNCHANGED <<runtimeVars, trackVars, nodeVars, workerVars>>

\* Unreachable, timed out or refused; or a 200, which only a running Node sends.
preflight_answer ==
    /\ pc = "connect"
    /\ \/ record_error
       \/ /\ nodePc = "running"
          /\ pc' = "report"
          /\ UNCHANGED <<coreVars, todo, result>>
    /\ UNCHANGED <<op, snap, reply, runtimeVars, trackVars, nodeVars, workerVars>>

\* report_route_stage(2) called by the core: the test of EMBEDDED, then the store.
preflight_report ==
    /\ pc = "report"
    /\ IF embedded THEN pc' = "store" /\ UNCHANGED <<todo, result>> ELSE Answer(TRUE, 2)
    /\ UNCHANGED <<op, snap, reply, coreVars, runtimeVars, trackVars, nodeVars, workerVars>>

\* Mutant: the stage is raised instead of set.
preflight_raises_stage ==
    /\ pc = "store"
    /\ routeStage' = routeStage + 2
    /\ Answer(TRUE, 2)
    /\ UNCHANGED <<embedded, started, stopRequested, lastExitCode, system, retrySub>>
    /\ UNCHANGED <<op, snap, reply, coreVars, trackVars, nodeVars, workerVars>>

preflight_store ==
    /\ pc = "store"
    /\ routeStage' = 2
    /\ Answer(TRUE, 2)
    /\ UNCHANGED <<embedded, started, stopRequested, lastExitCode, system, retrySub>>
    /\ UNCHANGED <<op, snap, reply, coreVars, trackVars, nodeVars, workerVars>>

(***************************************************************************)
(* shutdown, reset, reset_network_profile and remove_wallet: stop the      *)
(* engine within ten seconds, or keep it and record the error.             *)
(***************************************************************************)
\* What the core becomes once no engine is left.
EngineGone(o) ==
    /\ config' = IF o \in {"reset", "reset_network_profile"} THEN NoConfig ELSE config
    /\ wallet' = IF o \in {"reset", "remove_wallet"} THEN NoWallet ELSE wallet
    /\ phase' = RestPhase(config', wallet')
    /\ proxyEnabled' = FALSE /\ proxyPort' = FALSE /\ neighbors' = 0
    /\ engine' = FALSE /\ thread' = FALSE

stop_engine(o) ==
    /\ Begin(o)
    /\ IF engine
       THEN pc' = "stop_check" /\ UNCHANGED <<coreVars, todo, result>>
       ELSE EngineGone(o) /\ Answer(TRUE, 1)
    /\ UNCHANGED <<runtimeVars, trackVars, nodeVars, workerVars>>

\* mobile_runtime::stop returns at once when no Node is embedded.
stop_check ==
    /\ pc = "stop_check"
    /\ pc' = IF embedded THEN "stop_flag" ELSE "join"
    /\ UNCHANGED <<op, todo, snap, result, reply>>
    /\ UNCHANGED <<coreVars, runtimeVars, trackVars, nodeVars, workerVars>>

stop_flag ==
    /\ pc = "stop_flag"
    /\ stopRequested' = TRUE
    /\ pc' = "stop_arbiters_flag"
    /\ UNCHANGED <<embedded, started, routeStage, lastExitCode, system, retrySub>>
    /\ UNCHANGED <<op, todo, snap, result, reply, coreVars, trackVars, nodeVars, workerVars>>

stop_arbiters_flag ==
    /\ pc = "stop_arbiters_flag"
    /\ arbiterShutdown' = TRUE
    /\ pc' = "stop_arbiters"
    /\ UNCHANGED <<arbiters, expected, registered, tracking>>
    /\ UNCHANGED <<op, todo, snap, result, reply, coreVars, runtimeVars, nodeVars, workerVars>>

stop_arbiters ==
    /\ pc = "stop_arbiters"
    /\ stopSent' = stopSent \cup arbiters
    /\ pc' = "stop_system"
    /\ UNCHANGED <<op, todo, snap, result, reply, worker, report>>
    /\ UNCHANGED <<coreVars, runtimeVars, trackVars, nodeVars>>

stop_system ==
    /\ pc = "stop_system"
    /\ systemStop' = (systemStop \/ system)
    /\ pc' = "join"
    /\ UNCHANGED <<run, nodePc, nodeCode, nodeConfig>>
    /\ UNCHANGED <<op, todo, snap, result, reply, coreVars, runtimeVars, trackVars, workerVars>>

\* Mutant: arbiters that have not registered yet are forgotten.
ListedArbitersGone == \A a \in arbiters : worker[a] = "gone"

\* Every expected arbiter has registered, and none of them is left.
ArbitersGone ==
    /\ registered >= expected
    /\ \A a \in arbiters : worker[a] = "gone"

\* Mutant: a stop that timed out drops the engine.
stop_timeout_drops_engine ==
    /\ \/ pc = "join" /\ thread /\ nodePc # "exited"
       \/ pc = "wait_arbiters" /\ ~ArbitersGone
    /\ EngineGone(op)
    /\ Answer(FALSE, 1)
    /\ UNCHANGED <<op, snap, reply, runtimeVars, trackVars, nodeVars, workerVars>>

\* Mutant: only the wait for the thread is bounded.
stop_timeout_of_thread ==
    /\ pc = "join" /\ thread /\ nodePc # "exited"
    /\ record_error
    /\ UNCHANGED <<op, snap, reply, runtimeVars, trackVars, nodeVars, workerVars>>

\* stop_with_timeout gives up: the engine is retained and reported as an error.
stop_timeout ==
    /\ \/ pc = "join" /\ thread /\ nodePc # "exited"
       \/ pc = "wait_arbiters" /\ ~ArbitersGone
    /\ record_error
    /\ UNCHANGED <<op, snap, reply, runtimeVars, trackVars, nodeVars, workerVars>>

\* The Node thread is over (or was reaped before); result keeps its exit code.
join ==
    /\ pc = "join"
    /\ thread => nodePc = "exited"
    /\ thread' = FALSE
    /\ result' = (thread => nodeCode = "zero")
    /\ pc' = "wait_arbiters"
    /\ UNCHANGED <<config, wallet, phase, proxyEnabled, proxyPort, neighbors, engine>>
    /\ UNCHANGED <<op, todo, snap, reply, runtimeVars, trackVars, nodeVars, workerVars>>

wait_for_actor_arbiters ==
    /\ pc = "wait_arbiters"
    /\ ArbitersGone
    /\ arbiters' = {}
    /\ tracking' = FALSE /\ arbiterShutdown' = FALSE
    /\ IF result THEN EngineGone(op) /\ Answer(TRUE, 1) ELSE record_error
    /\ UNCHANGED <<op, snap, reply, expected, registered, runtimeVars, nodeVars, workerVars>>

(***************************************************************************)
(* status_json: refresh_engine_status from a snapshot whose atomics are    *)
(* loaded one by one, then the answer.                                     *)
(***************************************************************************)
\* The last refresh answers the call and releases CORE; an earlier one goes on.
Refreshed ==
    /\ todo' = todo - 1
    /\ IF todo > 1
       THEN pc' = "refresh" /\ UNCHANGED <<op, reply>>
       ELSE /\ pc' = "idle"
            /\ op' = NoOp
            /\ reply' = [op |-> op, ok |-> result, phase |-> phase', neighbors |-> neighbors',
                         proxyEnabled |-> proxyEnabled', proxyPort |-> proxyPort']
    /\ UNCHANGED result

\* Without an engine there is nothing to refresh; with one, load LAST_EXIT_CODE.
snapshot ==
    /\ pc = "refresh"
    /\ UNCHANGED coreVars
    /\ IF engine
       THEN /\ pc' = "load_started"
            /\ snap' = [NoSnapshot EXCEPT !.exit = lastExitCode]
            /\ UNCHANGED <<op, todo, result, reply>>
       ELSE Refreshed /\ UNCHANGED snap
    /\ UNCHANGED <<runtimeVars, trackVars, nodeVars, workerVars>>

snapshot_started ==
    /\ pc = "load_started"
    /\ pc' = "load_stop"
    /\ snap' = [snap EXCEPT !.started = started]
    /\ UNCHANGED <<op, todo, result, reply, coreVars, runtimeVars, trackVars, nodeVars, workerVars>>

snapshot_stop ==
    /\ pc = "load_stop"
    /\ pc' = "load_stage"
    /\ snap' = [snap EXCEPT !.stopRequested = stopRequested]
    /\ UNCHANGED <<op, todo, result, reply, coreVars, runtimeVars, trackVars, nodeVars, workerVars>>

\* The load of ROUTE_STAGE completes the snapshot.  The handle's own port
\* stands in for a cleared one; reap_if_finished joins a finished thread.
refresh_engine_status ==
    /\ pc = "load_stage"
    /\ LET stoppedCleanly == snap.stopRequested /\ snap.exit = "zero"
           exited == routeStage = 0 /\ ~snap.started /\ snap.exit # NoCode
       IN /\ phase' = CASE routeStage >= 1 -> IF phase = "Paused" THEN "Paused" ELSE "Connected"
                        [] routeStage = 0 /\ snap.started ->
                              IF snap.stopRequested THEN "Stopping" ELSE "Connecting"
                        [] exited -> IF stoppedCleanly THEN "Ready" ELSE "Error"
                        [] OTHER -> phase
          /\ neighbors' = IF routeStage >= 1 THEN 1 ELSE IF snap.started THEN 0 ELSE neighbors
          /\ proxyPort' = ~(exited /\ stoppedCleanly)
          /\ proxyEnabled' = (proxyEnabled /\ (exited => stoppedCleanly))
          /\ thread' = (thread /\ ~(exited /\ nodePc = "exited"))
    /\ Refreshed
    /\ UNCHANGED <<config, wallet, engine, snap, runtimeVars, trackVars, nodeVars, workerVars>>

(***************************************************************************)
(* The Node thread: run_embedded.                                          *)
(***************************************************************************)
NodeStep(from, to) == nodePc = from /\ nodePc' = to
NodeLeaves == UNCHANGED <<run, nodeConfig, coreVars, callVars>>

\* register_system stores SYSTEM, then tests STOP_REQUESTED.
register_system ==
    /\ NodeStep("spawned", "registering")
    /\ system' = (system \/ embedded)
    /\ UNCHANGED <<embedded, started, stopRequested, routeStage, lastExitCode, retrySub>>
    /\ UNCHANGED <<nodeCode, systemStop, trackVars, workerVars>> /\ NodeLeaves

\* register_system: SYSTEM is stored, now a stop that came before is looked for.
register_system_tests_stop ==
    /\ NodeStep("registering", "boot")
    /\ systemStop' = (systemStop \/ (embedded /\ stopRequested))
    /\ UNCHANGED <<nodeCode, runtimeVars, trackVars, workerVars>> /\ NodeLeaves

\* make_and_start_actors: announce an arbiter, then start its thread.
expect_actor_arbiter(w) ==
    /\ NodeStep("boot", "boot")
    /\ worker[<<run, w>>] = "none"
    /\ expected' = IF tracking THEN expected + 1 ELSE expected
    /\ worker' = [worker EXCEPT ![<<run, w>>] = "starting"]
    /\ UNCHANGED <<arbiters, registered, tracking, arbiterShutdown, stopSent, report>>
    /\ UNCHANGED <<nodeCode, systemStop, runtimeVars>> /\ NodeLeaves

register_neighborhood_retry ==
    /\ NodeStep("boot", "boot")
    /\ \A w \in Workers : worker[<<run, w>>] # "none"
    /\ ~retrySub
    /\ retrySub' = embedded
    /\ UNCHANGED <<embedded, started, stopRequested, routeStage, lastExitCode, system>>
    /\ UNCHANGED <<nodeCode, systemStop, trackVars, workerVars>> /\ NodeLeaves

mark_started ==
    /\ NodeStep("boot", "running")
    /\ retrySub
    /\ started' = (started \/ embedded)
    /\ UNCHANGED <<embedded, stopRequested, routeStage, lastExitCode, system, retrySub>>
    /\ UNCHANGED <<nodeCode, systemStop, trackVars, workerVars>> /\ NodeLeaves

\* A bad argument, or a panic that catch_unwind turns into code 101: the
\* Actix system never runs, so no arbiter is told to stop.
boot_fails ==
    /\ NodeStep("spawned", "f_started") \/ NodeStep("boot", "f_started")
    /\ nodeCode' = "nonzero"
    /\ UNCHANGED <<systemStop, runtimeVars, trackVars, workerVars>> /\ NodeLeaves

\* system.run() returns: stopped from outside, by a UI shutdown order, by a
\* failed listener or by a panicking arbiter.  Actix tells every arbiter.
system_stops ==
    /\ NodeStep("running", "f_started")
    /\ nodeCode' \in Codes
    /\ systemStop' = TRUE
    /\ stopSent' = stopSent \cup {a \in Arbiters : a[1] = run}
    /\ UNCHANGED <<worker, report, runtimeVars, trackVars>> /\ NodeLeaves

\* finish clears the runtime state store by store, EMBEDDED last.
finish ==
    /\ \/ NodeStep("f_started", "f_stop") /\ started' = FALSE
          /\ UNCHANGED <<embedded, stopRequested, routeStage, lastExitCode, system, retrySub>>
       \/ NodeStep("f_stop", "f_stage") /\ stopRequested' = FALSE
          /\ UNCHANGED <<embedded, started, routeStage, lastExitCode, system, retrySub>>
       \/ NodeStep("f_stage", "f_exit") /\ routeStage' = 0
          /\ UNCHANGED <<embedded, started, stopRequested, lastExitCode, system, retrySub>>
       \/ NodeStep("f_exit", "f_subs") /\ lastExitCode' = nodeCode
          /\ UNCHANGED <<embedded, started, stopRequested, routeStage, system, retrySub>>
       \/ NodeStep("f_subs", "f_embedded") /\ system' = FALSE /\ retrySub' = FALSE
          /\ UNCHANGED <<embedded, started, stopRequested, routeStage, lastExitCode>>
       \/ NodeStep("f_embedded", "exited") /\ embedded' = FALSE
          /\ UNCHANGED <<started, stopRequested, routeStage, lastExitCode, system, retrySub>>
    /\ UNCHANGED <<nodeCode, systemStop, trackVars, workerVars>> /\ NodeLeaves

(***************************************************************************)
(* The arbiters: one thread per actor.                                     *)
(***************************************************************************)
WorkerLeaves == UNCHANGED <<nodeVars, coreVars, callVars>>

\* Mutant: an arbiter that registers during a shutdown is not stopped.
register_actor_arbiter_only(a) ==
    /\ worker[a] = "starting"
    /\ worker' = [worker EXCEPT ![a] = "up"]
    /\ arbiters' = IF tracking THEN arbiters \cup {a} ELSE arbiters
    /\ registered' = IF tracking THEN registered + 1 ELSE registered
    /\ UNCHANGED <<stopSent, expected, tracking, arbiterShutdown, report, runtimeVars>>
    /\ WorkerLeaves

\* register_actor_arbiter runs on the new thread, under the lock of ACTOR_ARBITERS.
register_actor_arbiter(a) ==
    /\ worker[a] = "starting"
    /\ worker' = [worker EXCEPT ![a] = "up"]
    /\ IF tracking
       THEN /\ arbiters' = arbiters \cup {a}
            /\ registered' = registered + 1
            /\ stopSent' = IF arbiterShutdown THEN stopSent \cup {a} ELSE stopSent
       ELSE UNCHANGED <<arbiters, registered, stopSent>>
    /\ UNCHANGED <<expected, tracking, arbiterShutdown, report, runtimeVars>> /\ WorkerLeaves

\* An arbiter that was sent StopArbiter drops its mailbox between two messages.
arbiter_stops(a) ==
    /\ worker[a] = "up" /\ a \in stopSent
    /\ a[2] = Neighborhood => report[a[1]] = NoReport
    /\ worker' = [worker EXCEPT ![a] = "gone"]
    /\ UNCHANGED <<stopSent, report, runtimeVars, trackVars>> /\ WorkerLeaves

\* report_route_stage by the Neighborhood of run r: the test of EMBEDDED...
report_route_stage(r, stage) ==
    /\ worker[<<r, Neighborhood>>] = "up"
    /\ report[r] = NoReport
    /\ embedded
    /\ report' = [report EXCEPT ![r] = stage]
    /\ UNCHANGED <<worker, stopSent, runtimeVars, trackVars>> /\ WorkerLeaves

\* ...and the store.
store_route_stage(r) ==
    /\ report[r] # NoReport
    /\ routeStage' = report[r]
    /\ report' = [report EXCEPT ![r] = NoReport]
    /\ UNCHANGED <<embedded, started, stopRequested, lastExitCode, system, retrySub>>
    /\ UNCHANGED <<worker, stopSent, trackVars>> /\ WorkerLeaves

-----------------------------------------------------------------------------
Operation ==
    \/ get_status \/ start \/ start_engine \/ stop \/ preflight_proxy
    \/ \E o \in {"configure", "import_wallet", "update_min_hops"} : reject_argument(o)
    \/ \E c \in Configs : configure(c)
    \/ \E w \in Wallets : import_wallet(w)
    \/ \E h \in Hops : update_min_hops(h)
    \/ \E enabled \in BOOLEAN : set_proxy_enabled(enabled)
    \/ \E o \in StopOps : stop_engine(o)

CallStep ==
    \/ preflight_answer \/ preflight_report \/ preflight_store
    \/ stop_check \/ stop_flag \/ stop_arbiters_flag \/ stop_arbiters \/ stop_system
    \/ stop_timeout \/ join \/ wait_for_actor_arbiters
    \/ snapshot \/ snapshot_started \/ snapshot_stop \/ refresh_engine_status

BootStep ==
    \/ register_system \/ register_system_tests_stop
    \/ \E w \in Workers : expect_actor_arbiter(w)
    \/ register_neighborhood_retry \/ mark_started

NodeStop == boot_fails \/ system_stops

WorkerStep ==
    \E a \in Arbiters : register_actor_arbiter(a) \/ arbiter_stops(a)

RouteStep ==
    \E r \in Runs : store_route_stage(r) \/ \E stage \in 0..2 : report_route_stage(r, stage)

Next == Operation \/ CallStep \/ BootStep \/ NodeStop \/ finish \/ WorkerStep \/ RouteStep

Spec == Init /\ [][Next]_vars

\* A thread that can go on is scheduled, a timeout expires, and an arbiter
\* and the Actix system get to the stop message they were sent.
Fairness ==
    /\ WF_vars(CallStep)
    /\ WF_vars(BootStep)
    /\ WF_vars(systemStop /\ system_stops)
    /\ WF_vars(finish)
    /\ \A a \in Arbiters : WF_vars(register_actor_arbiter(a)) /\ SF_vars(arbiter_stops(a))
    /\ \A r \in Runs : WF_vars(store_route_stage(r))

FairSpec == Spec /\ Fairness

(***************************************************************************)
(* Properties.                                                             *)
(***************************************************************************)
Snapshots == [exit : Codes \cup {NoCode}, started : BOOLEAN, stopRequested : BOOLEAN]
Replies == [op : Ops \cup {NoOp}, ok : BOOLEAN, phase : Phases, proxyEnabled : BOOLEAN,
            proxyPort : BOOLEAN, neighbors : {0, 1}]

FlagsType ==
    /\ engine \in BOOLEAN /\ thread \in BOOLEAN
    /\ proxyEnabled \in BOOLEAN /\ proxyPort \in BOOLEAN /\ result \in BOOLEAN
    /\ embedded \in BOOLEAN /\ started \in BOOLEAN /\ stopRequested \in BOOLEAN
    /\ system \in BOOLEAN /\ retrySub \in BOOLEAN /\ systemStop \in BOOLEAN
    /\ tracking \in BOOLEAN /\ arbiterShutdown \in BOOLEAN

CoreType ==
    /\ config \in Configs \cup {NoConfig} /\ wallet \in Wallets \cup {NoWallet}
    /\ phase \in Phases /\ neighbors \in {0, 1}

CallType ==
    /\ op \in Ops \cup {NoOp} /\ pc \in CallPcs /\ todo \in {0, 1, 2}
    /\ snap \in Snapshots /\ reply \in Replies

NodeType ==
    /\ run \in 0..MaxRuns /\ nodePc \in NodePcs /\ nodeConfig \in Configs \cup {NoConfig}
    /\ nodeCode \in Codes \cup {NoCode} /\ lastExitCode \in Codes \cup {NoCode}
    /\ routeStage \in {0, 1, 2}

WorkerType ==
    /\ worker \in [Arbiters -> {"none", "starting", "up", "gone"}]
    /\ arbiters \subseteq Arbiters /\ stopSent \subseteq Arbiters
    /\ expected \in Nat /\ registered \in Nat
    /\ report \in [Runs -> {0, 1, 2, NoReport}]

\* Every variable holds a value of its Rust type, whatever thread wrote it.
TypeOK == FlagsType /\ CoreType /\ CallType /\ NodeType /\ WorkerType

\* A Node thread or an actor thread that can still talk to MASQ peers.
Live(a) == worker[a] \in {"starting", "up"}
NodeLive == nodePc \notin {"none", "exited"}
MeshLive == NodeLive \/ \E a \in Arbiters : Live(a)

\* The core lets go of its engine (shutdown and the three resets) only once
\* the Node thread and every actor thread are gone: a later start can never
\* run beside the threads of an earlier Node and share the atomics with them.
NoMeshWithoutEngine == ~engine => ~MeshLive

\* Live actor threads all belong to the latest Node, so ROUTE_STAGE is only
\* ever written for the Node whose status the core reports.
OnlyLatestMesh ==
    /\ \A a \in Arbiters : Live(a) => a[1] = run
    /\ \A r \in Runs : report[r] # NoReport => r = run

\* The profile and route length in the settings are those the running Node
\* was given: configure refuses another profile, update_min_hops tells both.
RunningProfileIsConfigured == engine => config = nodeConfig

\* The browser proxy is never on in a core that is paused, failed or without
\* an engine, whichever operation or poll brought it there.
ProxyOffUnlessRunning == proxyEnabled => engine /\ phase \notin {"Paused", "Error"}

\* STOP_REQUESTED and SYSTEM cannot miss each other: once stop() is through,
\* a Node that goes on past register_system has been told to stop.
StopReachesSystem == pc = "join" /\ nodePc \in {"boot", "running"} => systemStop

\* Nor can ACTOR_ARBITER_SHUTDOWN_REQUESTED and ACTOR_ARBITERS: once stop()
\* has walked the list, an arbiter that registers late stops itself.
StopReachesArbiters == arbiterShutdown /\ pc # "stop_arbiters" => arbiters \subseteq stopSent

\* A stop() is never lost, on the system or on an arbiter, in whatever order
\* its stores and the registrations that race it fall.
StopIsDelivered == StopReachesSystem /\ StopReachesArbiters

\* The CORE mutex is always released: no call waits for the Node without bound.
CallsReturn == (op # NoOp) ~> (op = NoOp)

\* A stop of an embedded Node ends its thread and all its arbiters, even when
\* the call that asked for it has given up waiting.
StopTakesEffect == (pc = "join" /\ embedded /\ stopRequested) ~> ~MeshLive

\* What App.tsx asks of the status shutdown returns before it opens Direct.
DirectAllowed(status) ==
    /\ status.phase \in {"Ready", "Unconfigured", "Blocked"}
    /\ status.neighbors = 0 /\ ~status.proxyEnabled /\ ~status.proxyPort

\* core.rs:216 - "Returning Ready is the acknowledgement that no MASQ peer mesh
\* remains active."
ReadyAcknowledgesSilence == reply.op = "shutdown" /\ DirectAllowed(reply) => ~MeshLive
=============================================================================
