-------------------------- MODULE MobileCoreTypes ---------------------------
(***************************************************************************)
(* The inductive invariant of MobileCore, and the lemmas that its steps    *)
(* preserve the types of the variables.  The rest of the proof is in       *)
(* MobileCoreProofs.                                                       *)
(***************************************************************************)
EXTENDS MobileCore, TLAPS

(***************************************************************************)
(* The inductive invariant.                                                *)
(***************************************************************************)
RefreshPcs == {"refresh", "load_started", "load_stop", "load_stage"}
EnginePcs == {"stop_check", "stop_flag", "stop_arbiters_flag", "stop_arbiters", "stop_system",
              "join", "wait_arbiters", "load_started", "load_stop", "load_stage"}
FlaggedPcs == {"stop_arbiters_flag", "stop_arbiters", "stop_system", "join"}
Starting == {a \in Arbiters : worker[a] = "starting"}

\* A call holds CORE until its last refresh, and the engine it stops or reads.
CallInv ==
    /\ pc # "idle" => op # NoOp
    /\ pc \in RefreshPcs => todo \in {1, 2}
    /\ pc \in EnginePcs => engine

\* The counters know of every actor thread that has not registered yet, the
\* list of every one that has; without tracking there is no thread at all.
ArbiterInv ==
    IF tracking
    THEN /\ expected = registered + Cardinality(Starting)
         /\ \A a \in Arbiters : worker[a] = "up" => a \in arbiters
    ELSE ~MeshLive

\* A handle without a thread has joined it, and a Node thread has a run.
ThreadInv ==
    /\ run = 0 => nodePc = "none"
    /\ engine /\ ~thread => nodePc = "exited"
    /\ pc = "wait_arbiters" => nodePc = "exited"

\* Only an actor thread that is up is in the middle of a report.
ReportInv == \A r \in Runs : report[r] # NoReport => worker[<<r, Neighborhood>>] = "up"

\* What a Node that has not finished yet and a stop() that has passed its
\* first store can rely on.
FlagInv ==
    /\ NodeLive => embedded
    /\ nodePc \in {"registering", "boot", "running"} => system
    /\ pc \in FlaggedPcs /\ nodePc \in {"spawned", "registering", "boot", "running"}
         => stopRequested

\* A core without an engine never reports a connection.
PhaseInv == ~engine => phase # "Connected"

MeshInv == CallInv /\ ArbiterInv /\ ThreadInv /\ ReportInv /\ NoMeshWithoutEngine /\ OnlyLatestMesh

IInv ==
    /\ TypeOK /\ MeshInv /\ FlagInv /\ PhaseInv /\ RunningProfileIsConfigured
    /\ StopReachesSystem /\ StopReachesArbiters /\ ProxyOffUnlessRunning

-----------------------------------------------------------------------------
\* The operations that change a setting or refuse an argument.
Settings ==
    \/ \E o \in {"configure", "import_wallet", "update_min_hops"} : reject_argument(o)
    \/ \E c \in Configs : configure(c)
    \/ \E w \in Wallets : import_wallet(w)
    \/ \E h \in Hops : update_min_hops(h)
    \/ \E enabled \in BOOLEAN : set_proxy_enabled(enabled)

USE ConstantsAssumption DEF coreVars, callVars, runtimeVars, trackVars, nodeVars, workerVars,
    Begin, Answer, record_error, EngineGone, prepare, RetryFails, RetrySent, Refreshed,
    NodeStep, NodeLeaves, WorkerLeaves

\* Flags stay Boolean.
LEMMA FlagsStep == ASSUME FlagsType, [Next]_vars
  PROVE  FlagsType'
<1> USE DEF FlagsType
<1>1. CASE get_status
  BY <1>1 DEF get_status
<1>2. CASE stop
  BY Zenon, <1>2 DEF stop
<1>3. CASE preflight_proxy
  BY Zenon, <1>3 DEF preflight_proxy
<1>4. CASE start
  <2>1. CASE RetryFails BY Zenon, <1>4, <2>1 DEF start
  <2>2. CASE RetrySent BY Zenon, <1>4, <2>2 DEF start
  <2>3. CASE record_error BY Zenon, <1>4, <2>3 DEF start
  <2>4. CASE UNCHANGED coreVars /\ Answer(TRUE, 1) BY <1>4, <2>4 DEF start
  <2> QED BY ONLY Zenon, <1>4, <2>1, <2>2, <2>3, <2>4 DEF start
<1>5. ASSUME NEW o \in {"configure", "import_wallet", "update_min_hops"},
             reject_argument(o) PROVE FlagsType'
  BY Zenon, <1>5 DEF reject_argument
<1>6. ASSUME NEW c \in Configs, configure(c) PROVE FlagsType'
  BY Zenon, <1>6 DEF configure
<1>7. ASSUME NEW w \in Wallets, import_wallet(w) PROVE FlagsType'
  BY <1>7 DEF import_wallet
<1>8. ASSUME NEW h \in Hops, update_min_hops(h) PROVE FlagsType'
  BY Zenon, <1>8 DEF update_min_hops
<1>9. ASSUME NEW enabled \in BOOLEAN, set_proxy_enabled(enabled) PROVE FlagsType'
  BY Zenon, <1>9 DEF set_proxy_enabled
<1>10. CASE start_engine
  BY Zenon, <1>10 DEF start_engine
<1>11. ASSUME NEW o \in StopOps, stop_engine(o) PROVE FlagsType'
  BY Zenon, <1>11 DEF stop_engine
<1>12. CASE preflight_answer
  <2>1. CASE record_error BY Zenon, <1>12, <2>1 DEF preflight_answer
  <2>2. CASE UNCHANGED <<coreVars, todo, result>> BY <1>12, <2>2 DEF preflight_answer
  <2> QED BY ONLY Zenon, <1>12, <2>1, <2>2 DEF preflight_answer
<1>13. CASE preflight_report
  BY Zenon, <1>13 DEF preflight_report
<1>14. CASE preflight_store
  BY <1>14 DEF preflight_store
<1>15. CASE stop_check
  BY <1>15 DEF stop_check
<1>16. CASE stop_flag
  BY <1>16 DEF stop_flag
<1>17. CASE stop_arbiters_flag
  BY <1>17 DEF stop_arbiters_flag
<1>18. CASE stop_arbiters
  BY <1>18 DEF stop_arbiters
<1>19. CASE stop_system
  BY <1>19 DEF stop_system
<1>20. CASE stop_timeout
  BY Zenon, <1>20 DEF stop_timeout
<1>21. CASE join
  BY Zenon, <1>21 DEF join
<1>22. CASE wait_for_actor_arbiters
  BY Zenon, <1>22 DEF wait_for_actor_arbiters
<1>23. CASE snapshot
  BY <1>23 DEF snapshot
<1>24. CASE snapshot_started \/ snapshot_stop
  BY <1>24 DEF snapshot_started, snapshot_stop
<1>25. CASE refresh_engine_status
  BY <1>25 DEF refresh_engine_status
<1>26. ASSUME NEW w \in Workers, expect_actor_arbiter(w) PROVE FlagsType'
  BY <1>26 DEF expect_actor_arbiter
<1>27. CASE register_system
  BY <1>27 DEF register_system
<1>28. CASE register_system_tests_stop
  BY <1>28 DEF register_system_tests_stop
<1>29. CASE register_neighborhood_retry
  BY <1>29 DEF register_neighborhood_retry
<1>30. CASE mark_started
  BY <1>30 DEF mark_started
<1>31. CASE boot_fails
  BY <1>31 DEF boot_fails
<1>32. CASE system_stops
  BY <1>32 DEF system_stops
<1>33. CASE finish
  <2>1. CASE started' = FALSE /\ UNCHANGED <<embedded, stopRequested, routeStage, lastExitCode, system, retrySub>>
    BY Zenon, <1>33, <2>1 DEF finish
  <2>2. CASE stopRequested' = FALSE /\ UNCHANGED <<embedded, started, routeStage, lastExitCode, system, retrySub>>
    BY Zenon, <1>33, <2>2 DEF finish
  <2>3. CASE routeStage' = 0 /\ UNCHANGED <<embedded, started, stopRequested, lastExitCode, system, retrySub>>
    BY Zenon, <1>33, <2>3 DEF finish
  <2>4. CASE lastExitCode' = nodeCode /\ UNCHANGED <<embedded, started, stopRequested, routeStage, system, retrySub>>
    BY Zenon, <1>33, <2>4 DEF finish
  <2>5. CASE system' = FALSE /\ retrySub' = FALSE /\ UNCHANGED <<embedded, started, stopRequested, routeStage, lastExitCode>>
    BY Zenon, <1>33, <2>5 DEF finish
  <2>6. CASE embedded' = FALSE /\ UNCHANGED <<started, stopRequested, routeStage, lastExitCode, system, retrySub>>
    BY Zenon, <1>33, <2>6 DEF finish
  <2> QED BY ONLY Zenon, <1>33, <2>1, <2>2, <2>3, <2>4, <2>5, <2>6 DEF finish
<1>34. ASSUME NEW a \in Arbiters, register_actor_arbiter(a) PROVE FlagsType'
  BY <1>34 DEF register_actor_arbiter
<1>35. ASSUME NEW a \in Arbiters, arbiter_stops(a) PROVE FlagsType'
  BY <1>35 DEF arbiter_stops
<1>36. ASSUME NEW r \in Runs, NEW stage \in 0..2, report_route_stage(r, stage) PROVE FlagsType'
  BY <1>36 DEF report_route_stage
<1>37. ASSUME NEW r \in Runs, store_route_stage(r) PROVE FlagsType'
  BY <1>37 DEF store_route_stage
<1>38. CASE UNCHANGED vars
  BY <1>38 DEF vars
<1> QED BY <1>1, <1>2, <1>3, <1>4, <1>5, <1>6, <1>7, <1>8, <1>9, <1>10, <1>11, <1>12, <1>13,
           <1>14, <1>15, <1>16, <1>17, <1>18, <1>19, <1>20, <1>21, <1>22, <1>23, <1>24, <1>25,
           <1>26, <1>27, <1>28, <1>29, <1>30, <1>31, <1>32, <1>33, <1>34, <1>35, <1>36, <1>37,
           <1>38
  DEF Next, Operation, CallStep, BootStep, NodeStop, WorkerStep, RouteStep

\* The settings, the phase and the neighbour count keep their types.
LEMMA CoreTypeStep == ASSUME CoreType, [Next]_vars
  PROVE  CoreType'
<1> USE DEF CoreType, Phases, RestPhase, Configs
<1>1. CASE get_status \/ start \/ stop \/ preflight_proxy
  BY <1>1 DEF get_status, start, stop, preflight_proxy
<1>2. ASSUME NEW o \in {"configure", "import_wallet", "update_min_hops"},
             reject_argument(o) PROVE CoreType'
  BY <1>2 DEF reject_argument
<1>3. ASSUME NEW c \in Configs, configure(c) PROVE CoreType'
  BY <1>3 DEF configure
<1>4. ASSUME NEW w \in Wallets, import_wallet(w) PROVE CoreType'
  BY <1>4 DEF import_wallet
<1>5. ASSUME NEW h \in Hops, update_min_hops(h) PROVE CoreType'
  BY <1>5 DEF update_min_hops
<1>6. ASSUME NEW enabled \in BOOLEAN, set_proxy_enabled(enabled) PROVE CoreType'
  BY <1>6 DEF set_proxy_enabled
<1>7. CASE start_engine
  BY <1>7 DEF start_engine
<1>8. ASSUME NEW o \in StopOps, stop_engine(o) PROVE CoreType'
  BY <1>8 DEF stop_engine
<1>9. CASE preflight_answer \/ preflight_report \/ preflight_store
  BY <1>9 DEF preflight_answer, preflight_report, preflight_store
<1>10. CASE stop_check \/ stop_flag \/ stop_arbiters_flag \/ stop_arbiters \/ stop_system
  BY <1>10 DEF stop_check, stop_flag, stop_arbiters_flag, stop_arbiters, stop_system
<1>11. CASE stop_timeout \/ join
  BY <1>11 DEF stop_timeout, join
<1>12. CASE wait_for_actor_arbiters
  BY <1>12 DEF wait_for_actor_arbiters
<1>13. CASE snapshot \/ snapshot_started \/ snapshot_stop
  BY <1>13 DEF snapshot, snapshot_started, snapshot_stop
<1>14. CASE refresh_engine_status
  BY <1>14 DEF refresh_engine_status
<1>15. CASE BootStep
  BY Zenon, <1>15 DEF BootStep, register_system, register_system_tests_stop,
     expect_actor_arbiter, register_neighborhood_retry, mark_started
<1>16. CASE NodeStop
  BY <1>16 DEF NodeStop, boot_fails, system_stops
<1>17. CASE finish
  BY <1>17 DEF finish
<1>18. CASE WorkerStep
  BY <1>18 DEF WorkerStep, register_actor_arbiter, arbiter_stops
<1>19. CASE RouteStep
  BY <1>19 DEF RouteStep, report_route_stage, store_route_stage
<1>20. CASE UNCHANGED vars
  BY <1>20 DEF vars
<1> QED BY <1>1, <1>2, <1>3, <1>4, <1>5, <1>6, <1>7, <1>8, <1>9, <1>10, <1>11, <1>12, <1>13,
           <1>14, <1>15, <1>16, <1>17, <1>18, <1>19, <1>20
  DEF Next, Operation, CallStep

\* The call's own state keeps its type.
LEMMA CallTypeStep == ASSUME FlagsType, CoreType, CallType, NodeType, CallInv, [Next]_vars
  PROVE  CallType'
<1> USE DEF FlagsType, CoreType, NodeType, CallType, Snapshots, Replies, Ops, StopOps,
            CallPcs, NoReply, NoSnapshot, Phases, CallInv, RefreshPcs
<1>1. CASE get_status
  BY <1>1 DEF get_status
<1>2. CASE stop
  BY <1>2 DEF stop
<1>3. CASE preflight_proxy
  BY <1>3 DEF preflight_proxy
<1>4. CASE start
  BY <1>4 DEF start
<1>5. ASSUME NEW o \in {"configure", "import_wallet", "update_min_hops"},
             reject_argument(o) PROVE CallType'
  BY <1>5 DEF reject_argument
<1>6. ASSUME NEW c \in Configs, configure(c) PROVE CallType'
  BY <1>6 DEF configure
<1>7. ASSUME NEW w \in Wallets, import_wallet(w) PROVE CallType'
  BY <1>7 DEF import_wallet
<1>8. ASSUME NEW h \in Hops, update_min_hops(h) PROVE CallType'
  BY <1>8 DEF update_min_hops
<1>9. ASSUME NEW enabled \in BOOLEAN, set_proxy_enabled(enabled) PROVE CallType'
  BY <1>9 DEF set_proxy_enabled
<1>10. CASE start_engine
  BY <1>10 DEF start_engine
<1>11. ASSUME NEW o \in StopOps, stop_engine(o) PROVE CallType'
  BY <1>11 DEF stop_engine
<1>12. CASE preflight_answer \/ preflight_report \/ preflight_store
  BY <1>12 DEF preflight_answer, preflight_report, preflight_store
<1>13. CASE stop_check \/ stop_flag \/ stop_arbiters_flag \/ stop_arbiters \/ stop_system
  BY <1>13 DEF stop_check, stop_flag, stop_arbiters_flag, stop_arbiters, stop_system
<1>14. CASE stop_timeout \/ join
  BY <1>14 DEF stop_timeout, join
<1>15. CASE wait_for_actor_arbiters
  BY <1>15 DEF wait_for_actor_arbiters
<1>16. CASE snapshot
  <2>1. CASE engine
    BY <1>16, <2>1 DEF snapshot
  <2>2. CASE ~engine
    <3>1. reply' \in Replies
      BY <1>16, <2>2 DEF snapshot
    <3>2. op' \in Ops \cup {NoOp} /\ pc' \in CallPcs /\ snap' \in Snapshots
      BY <1>16, <2>2 DEF snapshot
    <3>3. todo' \in {0, 1, 2}
      BY <1>16, <2>2 DEF snapshot
    <3> QED BY <3>1, <3>2, <3>3
  <2> QED BY <2>1, <2>2
<1>17. CASE snapshot_started \/ snapshot_stop
  BY <1>17 DEF snapshot_started, snapshot_stop
<1>18. CASE refresh_engine_status
  <2>1. /\ phase' \in Phases /\ neighbors' \in {0, 1}
        /\ proxyEnabled' \in BOOLEAN /\ proxyPort' \in BOOLEAN
    BY ONLY FlagsStep, CoreTypeStep, FlagsType, CoreType, [Next]_vars DEF FlagsType, CoreType
  <2>2. CASE todo > 1
    BY <1>18, <2>2 DEF refresh_engine_status
  <2>3. CASE ~(todo > 1)
    <3>0. reply' = [op |-> op, ok |-> result, phase |-> phase', neighbors |-> neighbors',
                    proxyEnabled |-> proxyEnabled', proxyPort |-> proxyPort']
      BY ONLY <1>18, <2>3 DEF refresh_engine_status, Refreshed
    <3>1. reply' \in Replies
      BY ONLY <2>1, <3>0, FlagsType, CallType DEF FlagsType, CallType, Replies
    <3>2. op' \in Ops \cup {NoOp} /\ pc' \in CallPcs /\ snap' \in Snapshots
      BY <1>18, <2>3 DEF refresh_engine_status
    <3>3. todo' \in {0, 1, 2}
      BY <1>18, <2>3 DEF refresh_engine_status
    <3> QED BY <3>1, <3>2, <3>3
  <2> QED BY <2>2, <2>3
<1>19. CASE BootStep
  <2>1. UNCHANGED callVars
    BY ONLY <1>19 DEF BootStep, register_system, register_system_tests_stop, expect_actor_arbiter,
       register_neighborhood_retry, mark_started, NodeLeaves
  <2> QED BY <2>1
<1>20. CASE NodeStop
  BY <1>20 DEF NodeStop, boot_fails, system_stops
<1>21. CASE finish
  BY <1>21 DEF finish
<1>22. CASE WorkerStep
  BY <1>22 DEF WorkerStep, register_actor_arbiter, arbiter_stops
<1>23. CASE RouteStep
  BY <1>23 DEF RouteStep, report_route_stage, store_route_stage
<1>24. CASE UNCHANGED vars
  BY <1>24 DEF vars
<1> QED BY <1>1, <1>2, <1>3, <1>4, <1>5, <1>6, <1>7, <1>8, <1>9, <1>10, <1>11, <1>12, <1>13,
           <1>14, <1>15, <1>16, <1>17, <1>18, <1>19, <1>20, <1>21, <1>22, <1>23, <1>24
  DEF Next, Operation, CallStep

\* The Node's state keeps its type.
LEMMA NodeTypeStep == ASSUME CoreType, NodeType, WorkerType, RunningProfileIsConfigured,
                             [Next]_vars
  PROVE  NodeType'
<1> USE DEF NodeType, CoreType, NodePcs, NodeFinishing, Runs, Codes, NoCode, Configs
<1>1. CASE get_status \/ start \/ stop \/ preflight_proxy
  BY <1>1 DEF get_status, start, stop, preflight_proxy
<1>2. ASSUME NEW o \in {"configure", "import_wallet", "update_min_hops"},
             reject_argument(o) PROVE NodeType'
  BY <1>2 DEF reject_argument
<1>3. ASSUME NEW c \in Configs, configure(c) PROVE NodeType'
  BY <1>3 DEF configure
<1>4. ASSUME NEW w \in Wallets, import_wallet(w) PROVE NodeType'
  BY <1>4 DEF import_wallet
<1>5. ASSUME NEW h \in Hops, update_min_hops(h) PROVE NodeType'
  BY <1>5 DEF update_min_hops, RunningProfileIsConfigured
<1>6. ASSUME NEW enabled \in BOOLEAN, set_proxy_enabled(enabled) PROVE NodeType'
  BY <1>6 DEF set_proxy_enabled
<1>7. CASE start_engine
  BY <1>7 DEF start_engine
<1>8. ASSUME NEW o \in StopOps, stop_engine(o) PROVE NodeType'
  BY <1>8 DEF stop_engine
<1>9. CASE preflight_answer \/ preflight_report \/ preflight_store
  BY <1>9 DEF preflight_answer, preflight_report, preflight_store
<1>10. CASE stop_check \/ stop_flag \/ stop_arbiters_flag \/ stop_arbiters \/ stop_system
  BY <1>10 DEF stop_check, stop_flag, stop_arbiters_flag, stop_arbiters, stop_system
<1>11. CASE stop_timeout \/ join
  BY <1>11 DEF stop_timeout, join
<1>12. CASE wait_for_actor_arbiters
  BY <1>12 DEF wait_for_actor_arbiters
<1>13. CASE snapshot \/ snapshot_started \/ snapshot_stop
  BY <1>13 DEF snapshot, snapshot_started, snapshot_stop
<1>14. CASE refresh_engine_status
  BY <1>14 DEF refresh_engine_status
<1>15. ASSUME NEW w \in Workers, expect_actor_arbiter(w) PROVE NodeType'
  BY <1>15 DEF expect_actor_arbiter
<1>16. CASE register_system \/ register_system_tests_stop
           \/ register_neighborhood_retry \/ mark_started
  BY <1>16 DEF register_system, register_system_tests_stop, register_neighborhood_retry,
     mark_started
<1>17. CASE NodeStop
  BY <1>17 DEF NodeStop, boot_fails, system_stops
<1>18. CASE finish
  BY <1>18 DEF finish
<1>19. CASE WorkerStep
  BY <1>19 DEF WorkerStep, register_actor_arbiter, arbiter_stops
<1>20. ASSUME NEW r \in Runs, NEW stage \in 0..2, report_route_stage(r, stage) PROVE NodeType'
  BY <1>20 DEF report_route_stage
<1>21. ASSUME NEW r \in Runs, store_route_stage(r) PROVE NodeType'
  BY <1>21 DEF store_route_stage, WorkerType, NoReport
<1>22. CASE UNCHANGED vars
  BY <1>22 DEF vars
<1> QED BY <1>1, <1>2, <1>3, <1>4, <1>5, <1>6, <1>7, <1>8, <1>9, <1>10, <1>11, <1>12, <1>13,
           <1>14, <1>15, <1>16, <1>17, <1>18, <1>19, <1>20, <1>21, <1>22
  DEF Next, Operation, CallStep, BootStep, RouteStep

\* The actor threads' state keeps its type.
LEMMA WorkerTypeStep == ASSUME NodeType, WorkerType, [Next]_vars
  PROVE  WorkerType'
<1> USE DEF WorkerType, NodeType, Arbiters, Runs, NoReport
<1>1. CASE get_status \/ start \/ stop \/ preflight_proxy
  BY <1>1 DEF get_status, start, stop, preflight_proxy
<1>2. ASSUME NEW o \in {"configure", "import_wallet", "update_min_hops"},
             reject_argument(o) PROVE WorkerType'
  BY <1>2 DEF reject_argument
<1>3. ASSUME NEW c \in Configs, configure(c) PROVE WorkerType'
  BY <1>3 DEF configure
<1>4. ASSUME NEW w \in Wallets, import_wallet(w) PROVE WorkerType'
  BY <1>4 DEF import_wallet
<1>5. ASSUME NEW h \in Hops, update_min_hops(h) PROVE WorkerType'
  BY <1>5 DEF update_min_hops
<1>6. ASSUME NEW enabled \in BOOLEAN, set_proxy_enabled(enabled) PROVE WorkerType'
  BY <1>6 DEF set_proxy_enabled
<1>7. CASE start_engine
  BY <1>7 DEF start_engine
<1>8. ASSUME NEW o \in StopOps, stop_engine(o) PROVE WorkerType'
  BY <1>8 DEF stop_engine
<1>9. CASE preflight_answer \/ preflight_report \/ preflight_store
  BY <1>9 DEF preflight_answer, preflight_report, preflight_store
<1>10. CASE stop_check \/ stop_flag \/ stop_arbiters_flag \/ stop_arbiters \/ stop_system
  BY <1>10 DEF stop_check, stop_flag, stop_arbiters_flag, stop_arbiters, stop_system
<1>11. CASE stop_timeout \/ join
  BY <1>11 DEF stop_timeout, join
<1>12. CASE wait_for_actor_arbiters
  BY <1>12 DEF wait_for_actor_arbiters
<1>13. CASE snapshot \/ snapshot_started \/ snapshot_stop
  BY <1>13 DEF snapshot, snapshot_started, snapshot_stop
<1>14. CASE refresh_engine_status
  BY <1>14 DEF refresh_engine_status
<1>15. ASSUME NEW w \in Workers, expect_actor_arbiter(w) PROVE WorkerType'
  <2>1. worker' \in [Arbiters -> {"none", "starting", "up", "gone"}]
    BY <1>15 DEF expect_actor_arbiter
  <2>2. expected' \in Nat
    BY <1>15 DEF expect_actor_arbiter
  <2>3. UNCHANGED <<arbiters, stopSent, registered, report>>
    BY <1>15 DEF expect_actor_arbiter
  <2> QED BY <2>1, <2>2, <2>3
<1>16. CASE register_system \/ register_system_tests_stop
           \/ register_neighborhood_retry \/ mark_started
  BY <1>16 DEF register_system, register_system_tests_stop, register_neighborhood_retry,
     mark_started
<1>17. CASE NodeStop
  BY <1>17 DEF NodeStop, boot_fails, system_stops
<1>18. CASE finish
  BY <1>18 DEF finish
<1>19. ASSUME NEW a \in Arbiters, register_actor_arbiter(a) PROVE WorkerType'
  BY <1>19 DEF register_actor_arbiter
<1>20. ASSUME NEW a \in Arbiters, arbiter_stops(a) PROVE WorkerType'
  BY <1>20 DEF arbiter_stops
<1>21. ASSUME NEW r \in Runs, NEW stage \in 0..2, report_route_stage(r, stage) PROVE WorkerType'
  BY <1>21 DEF report_route_stage
<1>22. ASSUME NEW r \in Runs, store_route_stage(r) PROVE WorkerType'
  BY <1>22 DEF store_route_stage
<1>23. CASE UNCHANGED vars
  BY <1>23 DEF vars
<1> QED BY <1>1, <1>2, <1>3, <1>4, <1>5, <1>6, <1>7, <1>8, <1>9, <1>10, <1>11, <1>12, <1>13,
           <1>14, <1>15, <1>16, <1>17, <1>18, <1>19, <1>20, <1>21, <1>22, <1>23
  DEF Next, Operation, CallStep, BootStep, WorkerStep, RouteStep
=============================================================================
