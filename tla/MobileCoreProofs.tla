-------------------------- MODULE MobileCoreProofs --------------------------
(***************************************************************************)
(* Proofs about MobileCore, for every set of profiles, hop counts, wallets *)
(* and workers and for any number of Node runs.                            *)
(*                                                                         *)
(* The safety properties are not inductive as they stand: that the engine  *)
(* is only dropped when no thread is left rests on what the two counters   *)
(* and the list of arbiters know (ArbiterInv), on what a handle without a  *)
(* thread means (ThreadInv), and on a call holding CORE (CallInv).  Each   *)
(* conjunct of IInv has a lemma of its own; its steps follow the actions.  *)
(***************************************************************************)
EXTENDS MobileCoreTypes, FiniteSetTheorems

USE ConstantsAssumption DEF coreVars, callVars, runtimeVars, trackVars, nodeVars, workerVars,
    Begin, Answer, record_error, EngineGone, prepare, RetryFails, RetrySent, Refreshed,
    NodeStep, NodeLeaves, WorkerLeaves

\* There are finitely many actor threads.
LEMMA StartingFinite == IsFiniteSet(Starting)
<1>1. IsFiniteSet(Runs)
  BY FS_Interval DEF Runs
<1>2. IsFiniteSet(Arbiters)
  BY <1>1, FS_Product DEF Arbiters
<1> QED BY <1>2, FS_Subset DEF Starting

\* ArbiterInv speaks of the tracking state, the actor threads and the Node thread.
LEMMA ArbiterFrame == ASSUME ArbiterInv, UNCHANGED <<trackVars, worker, nodePc>>
  PROVE  ArbiterInv'
BY DEF ArbiterInv, Starting, MeshLive, NodeLive, Live

\* With tracking on it does not depend on where the Node thread is.
LEMMA NodeFrame == ASSUME ArbiterInv, NodeLive, UNCHANGED <<trackVars, worker>>
  PROVE  ArbiterInv'
BY DEF ArbiterInv, Starting, MeshLive, NodeLive, Live

\* When wait_for_actor_arbiters is satisfied, no actor thread is left.
LEMMA NoArbiterLeft == ASSUME TypeOK, ArbiterInv, ArbitersGone
  PROVE  \A a \in Arbiters : ~Live(a)
<1>1. CASE ~tracking
  BY <1>1 DEF ArbiterInv, MeshLive
<1>2. CASE tracking
  <2>1. expected = registered + Cardinality(Starting) /\ registered >= expected
    BY <1>2 DEF ArbiterInv, ArbitersGone
  <2>2. Cardinality(Starting) \in Nat
    BY StartingFinite, FS_CardinalityType
  <2>3. Cardinality(Starting) = 0
    BY <2>1, <2>2 DEF TypeOK, WorkerType
  <2>4. Starting = {}
    BY <2>3, StartingFinite, FS_EmptySet
  <2>5. \A a \in Arbiters : worker[a] # "starting"
    BY <2>4 DEF Starting
  <2>6. \A a \in Arbiters : worker[a] # "up"
    BY <1>2 DEF ArbiterInv, ArbitersGone
  <2> QED BY <2>5, <2>6 DEF Live
<1> QED BY <1>1, <1>2

\* A call in progress keeps CORE and its engine.
LEMMA CallStepInv == ASSUME TypeOK, CallInv, [Next]_vars
  PROVE  CallInv'
<1> USE DEF CallInv, RefreshPcs, EnginePcs, TypeOK, CallType, FlagsType, NoOp, Ops, StopOps
<1>1. CASE get_status \/ start \/ stop \/ preflight_proxy
  BY <1>1 DEF get_status, start, stop, preflight_proxy
<1>2. CASE Settings
  BY <1>2 DEF Settings, reject_argument, configure, import_wallet, update_min_hops,
     set_proxy_enabled
<1>3. CASE start_engine
  BY <1>3 DEF start_engine
<1>4. ASSUME NEW o \in StopOps, stop_engine(o) PROVE CallInv'
  BY <1>4 DEF stop_engine
<1>5. CASE preflight_answer \/ preflight_report \/ preflight_store
  BY <1>5 DEF preflight_answer, preflight_report, preflight_store
<1>6. CASE stop_check \/ stop_flag \/ stop_arbiters_flag \/ stop_arbiters \/ stop_system
  BY <1>6 DEF stop_check, stop_flag, stop_arbiters_flag, stop_arbiters, stop_system
<1>7. CASE stop_timeout \/ join
  BY <1>7 DEF stop_timeout, join
<1>8. CASE wait_for_actor_arbiters
  BY Zenon, <1>8 DEF wait_for_actor_arbiters
<1>9. CASE snapshot \/ snapshot_started \/ snapshot_stop
  BY <1>9 DEF snapshot, snapshot_started, snapshot_stop
<1>10. CASE refresh_engine_status
  BY <1>10 DEF refresh_engine_status
<1>11. CASE BootStep
  BY Zenon, <1>11 DEF BootStep, register_system, register_system_tests_stop,
     expect_actor_arbiter, register_neighborhood_retry, mark_started
<1>12. CASE NodeStop
  BY <1>12 DEF NodeStop, boot_fails, system_stops
<1>13. CASE finish
  BY <1>13 DEF finish
<1>14. CASE WorkerStep
  BY <1>14 DEF WorkerStep, register_actor_arbiter, arbiter_stops
<1>15. CASE RouteStep
  BY <1>15 DEF RouteStep, report_route_stage, store_route_stage
<1>16. CASE UNCHANGED vars
  BY <1>16 DEF vars
<1> QED BY <1>1, <1>2, <1>3, <1>4, <1>5, <1>6, <1>7, <1>8, <1>9, <1>10, <1>11, <1>12, <1>13,
           <1>14, <1>15, <1>16
  DEF Next, Operation, CallStep, Settings

\* The counters and the list keep track of every actor thread.
LEMMA ArbiterStepInv == ASSUME TypeOK, ThreadInv, ArbiterInv, NoMeshWithoutEngine, [Next]_vars
  PROVE  ArbiterInv'
<1>1. CASE get_status \/ start \/ stop \/ preflight_proxy
  BY <1>1, ArbiterFrame DEF get_status, start, stop, preflight_proxy
<1>2. CASE Settings
  BY <1>2, ArbiterFrame DEF Settings, reject_argument, configure, import_wallet,
     update_min_hops, set_proxy_enabled
<1>3. CASE start_engine
  <2>1. Starting' = {}
    BY <1>3 DEF start_engine, Starting, NoMeshWithoutEngine, MeshLive, Live
  <2>2. \A a \in Arbiters : worker'[a] # "up"
    BY <1>3 DEF start_engine, NoMeshWithoutEngine, MeshLive, Live
  <2>3. tracking' /\ expected' = 0 /\ registered' = 0
    BY <1>3 DEF start_engine
  <2> QED BY <2>1, <2>2, <2>3, FS_EmptySet DEF ArbiterInv
<1>4. ASSUME NEW o \in StopOps, stop_engine(o) PROVE ArbiterInv'
  BY <1>4, ArbiterFrame DEF stop_engine
<1>5. CASE preflight_answer \/ preflight_report \/ preflight_store
  BY <1>5, ArbiterFrame DEF preflight_answer, preflight_report, preflight_store
<1>6. CASE stop_check \/ stop_flag \/ stop_arbiters_flag \/ stop_arbiters \/ stop_system
  BY <1>6, ArbiterFrame DEF ArbiterInv, stop_check, stop_flag, stop_arbiters_flag, stop_arbiters,
     stop_system, Starting, MeshLive, NodeLive, Live
<1>7. CASE stop_timeout \/ join
  BY <1>7, ArbiterFrame DEF stop_timeout, join
<1>8. CASE wait_for_actor_arbiters
  <2>1. nodePc' = "exited" /\ ~tracking' /\ UNCHANGED worker
    BY <1>8 DEF wait_for_actor_arbiters, ThreadInv
  <2>2. \A a \in Arbiters : ~Live(a)
    BY <1>8, NoArbiterLeft DEF wait_for_actor_arbiters
  <2> QED BY <2>1, <2>2 DEF ArbiterInv, MeshLive, NodeLive, Live
<1>9. CASE snapshot \/ snapshot_started \/ snapshot_stop
  BY <1>9, ArbiterFrame DEF snapshot, snapshot_started, snapshot_stop
<1>10. CASE refresh_engine_status
  BY <1>10, ArbiterFrame DEF refresh_engine_status
<1>11. ASSUME NEW w \in Workers, expect_actor_arbiter(w) PROVE ArbiterInv'
  <2> DEFINE new == <<run, w>>
  <2>1. tracking /\ new \in Arbiters /\ new \notin Starting
    BY <1>11 DEF expect_actor_arbiter, ArbiterInv, MeshLive, NodeLive, ThreadInv, TypeOK, NodeType,
       Arbiters, Runs, Starting
  <2>2. Starting' = Starting \cup {new}
    BY <1>11, <2>1 DEF expect_actor_arbiter, Starting, TypeOK, WorkerType
  <2>3. Cardinality(Starting') = Cardinality(Starting) + 1
    BY Zenon, <2>1, <2>2, StartingFinite, FS_AddElement
  <2>4. tracking' /\ expected' = expected + 1 /\ registered' = registered
    BY <1>11, <2>1 DEF expect_actor_arbiter
  <2>5. \A a \in Arbiters : worker'[a] = "up" => a \in arbiters'
    BY <1>11, <2>1 DEF expect_actor_arbiter, ArbiterInv, TypeOK, WorkerType
  <2>6. expected = registered + Cardinality(Starting) /\ Cardinality(Starting) \in Nat
    BY <2>1, StartingFinite, FS_CardinalityType DEF ArbiterInv
  <2>7. expected' = registered' + Cardinality(Starting')
    BY <2>3, <2>4, <2>6 DEF TypeOK, WorkerType
  <2> QED BY <2>4, <2>5, <2>7 DEF ArbiterInv
<1>12. CASE register_system \/ register_system_tests_stop
           \/ register_neighborhood_retry \/ mark_started
  BY Zenon, <1>12, NodeFrame DEF register_system, register_system_tests_stop, register_neighborhood_retry,
     mark_started, NodeLive
<1>13. CASE NodeStop
  BY <1>13, NodeFrame DEF NodeStop, boot_fails, system_stops, NodeLive
<1>14. CASE finish
  BY <1>14, NodeFrame DEF finish, NodeLive
<1>15. ASSUME NEW a \in Arbiters, register_actor_arbiter(a) PROVE ArbiterInv'
  <2>1. tracking /\ a \in Starting
    BY <1>15 DEF register_actor_arbiter, ArbiterInv, MeshLive, Live, Starting
  <2>2. Starting' = Starting \ {a}
    BY <1>15 DEF register_actor_arbiter, Starting, TypeOK, WorkerType
  <2>3. Cardinality(Starting') = Cardinality(Starting) - 1
    BY Zenon, <2>1, <2>2, StartingFinite, FS_RemoveElement
  <2>4. tracking' /\ expected' = expected /\ registered' = registered + 1
    BY <1>15, <2>1 DEF register_actor_arbiter
  <2>5. \A b \in Arbiters : worker'[b] = "up" => b \in arbiters'
    BY <1>15, <2>1 DEF register_actor_arbiter, ArbiterInv, TypeOK, WorkerType
  <2>6. expected = registered + Cardinality(Starting) /\ Cardinality(Starting) \in Nat
    BY <2>1, StartingFinite, FS_CardinalityType DEF ArbiterInv
  <2>7. expected' = registered' + Cardinality(Starting')
    BY <2>3, <2>4, <2>6 DEF TypeOK, WorkerType
  <2> QED BY <2>4, <2>5, <2>7 DEF ArbiterInv
<1>16. ASSUME NEW a \in Arbiters, arbiter_stops(a) PROVE ArbiterInv'
  <2>1. tracking /\ tracking' /\ UNCHANGED <<expected, registered, arbiters>>
    BY <1>16 DEF arbiter_stops, ArbiterInv, MeshLive, Live
  <2>2. Starting' = Starting
    BY <1>16 DEF arbiter_stops, Starting, TypeOK, WorkerType
  <2>3. \A b \in Arbiters : worker'[b] = "up" => worker[b] = "up"
    BY <1>16 DEF arbiter_stops, TypeOK, WorkerType
  <2> QED BY <2>1, <2>2, <2>3 DEF ArbiterInv
<1>17. CASE RouteStep
  BY <1>17, ArbiterFrame DEF RouteStep, report_route_stage, store_route_stage
<1>18. CASE UNCHANGED vars
  BY <1>18, ArbiterFrame DEF vars
<1> QED BY <1>1, <1>2, <1>3, <1>4, <1>5, <1>6, <1>7, <1>8, <1>9, <1>10, <1>11, <1>12, <1>13,
           <1>14, <1>15, <1>16, <1>17, <1>18
  DEF Next, Operation, CallStep, BootStep, WorkerStep, Settings

\* A handle gives its thread up only when it is over.
LEMMA ThreadStepInv == ASSUME TypeOK, CallInv, ThreadInv, NoMeshWithoutEngine, [Next]_vars
  PROVE  ThreadInv'
<1> USE DEF ThreadInv, CallInv, EnginePcs, TypeOK, FlagsType, NodeType, NoMeshWithoutEngine,
            MeshLive, NodeLive
<1>1. CASE get_status \/ start \/ stop \/ preflight_proxy
  BY <1>1 DEF get_status, start, stop, preflight_proxy
<1>2. CASE Settings
  BY <1>2 DEF Settings, reject_argument, configure, import_wallet, update_min_hops,
     set_proxy_enabled
<1>3. CASE start_engine
  BY <1>3 DEF start_engine
<1>4. ASSUME NEW o \in StopOps, stop_engine(o) PROVE ThreadInv'
  BY <1>4 DEF stop_engine
<1>5. CASE preflight_answer \/ preflight_report \/ preflight_store
  BY <1>5 DEF preflight_answer, preflight_report, preflight_store
<1>6. CASE stop_check \/ stop_flag \/ stop_arbiters_flag \/ stop_arbiters \/ stop_system
  BY <1>6 DEF stop_check, stop_flag, stop_arbiters_flag, stop_arbiters, stop_system
<1>7. CASE stop_timeout \/ join
  BY <1>7 DEF stop_timeout, join
<1>8. CASE wait_for_actor_arbiters
  BY <1>8 DEF wait_for_actor_arbiters
<1>9. CASE snapshot \/ snapshot_started \/ snapshot_stop
  BY <1>9 DEF snapshot, snapshot_started, snapshot_stop
<1>10. CASE refresh_engine_status
  BY <1>10 DEF refresh_engine_status
<1>11. CASE BootStep
  BY Zenon, <1>11 DEF BootStep, register_system, register_system_tests_stop,
     expect_actor_arbiter, register_neighborhood_retry, mark_started
<1>12. CASE NodeStop
  BY <1>12 DEF NodeStop, boot_fails, system_stops
<1>13. CASE finish
  BY <1>13 DEF finish
<1>14. CASE WorkerStep
  BY <1>14 DEF WorkerStep, register_actor_arbiter, arbiter_stops
<1>15. CASE RouteStep
  BY <1>15 DEF RouteStep, report_route_stage, store_route_stage
<1>16. CASE UNCHANGED vars
  BY <1>16 DEF vars
<1> QED BY <1>1, <1>2, <1>3, <1>4, <1>5, <1>6, <1>7, <1>8, <1>9, <1>10, <1>11, <1>12, <1>13,
           <1>14, <1>15, <1>16
  DEF Next, Operation, CallStep, Settings

\* An actor thread does not stop in the middle of a report.
LEMMA ReportStepInv == ASSUME TypeOK, ReportInv, [Next]_vars
  PROVE  ReportInv'
<1> USE DEF ReportInv, TypeOK, WorkerType, Arbiters, NoReport
<1>1. CASE get_status \/ start \/ stop \/ preflight_proxy
  BY <1>1 DEF get_status, start, stop, preflight_proxy
<1>2. CASE Settings
  BY <1>2 DEF Settings, reject_argument, configure, import_wallet, update_min_hops,
     set_proxy_enabled
<1>3. CASE start_engine
  BY <1>3 DEF start_engine
<1>4. ASSUME NEW o \in StopOps, stop_engine(o) PROVE ReportInv'
  BY <1>4 DEF stop_engine
<1>5. CASE preflight_answer \/ preflight_report \/ preflight_store
  BY <1>5 DEF preflight_answer, preflight_report, preflight_store
<1>6. CASE stop_check \/ stop_flag \/ stop_arbiters_flag \/ stop_arbiters \/ stop_system
  BY <1>6 DEF stop_check, stop_flag, stop_arbiters_flag, stop_arbiters, stop_system
<1>7. CASE stop_timeout \/ join
  BY <1>7 DEF stop_timeout, join
<1>8. CASE wait_for_actor_arbiters
  BY <1>8 DEF wait_for_actor_arbiters
<1>9. CASE snapshot \/ snapshot_started \/ snapshot_stop
  BY <1>9 DEF snapshot, snapshot_started, snapshot_stop
<1>10. CASE refresh_engine_status
  BY <1>10 DEF refresh_engine_status
<1>11. ASSUME NEW w \in Workers, expect_actor_arbiter(w) PROVE ReportInv'
  BY <1>11 DEF expect_actor_arbiter
<1>12. CASE register_system \/ register_system_tests_stop
           \/ register_neighborhood_retry \/ mark_started
  BY <1>12 DEF register_system, register_system_tests_stop, register_neighborhood_retry,
     mark_started
<1>13. CASE NodeStop
  BY <1>13 DEF NodeStop, boot_fails, system_stops
<1>14. CASE finish
  BY <1>14 DEF finish
<1>15. CASE WorkerStep
  BY <1>15 DEF WorkerStep, register_actor_arbiter, arbiter_stops
<1>16. CASE RouteStep
  BY <1>16 DEF RouteStep, report_route_stage, store_route_stage
<1>17. CASE UNCHANGED vars
  BY <1>17 DEF vars
<1> QED BY <1>1, <1>2, <1>3, <1>4, <1>5, <1>6, <1>7, <1>8, <1>9, <1>10, <1>11, <1>12, <1>13,
           <1>14, <1>15, <1>16, <1>17
  DEF Next, Operation, CallStep, BootStep, Settings

\* The engine is dropped only once every thread is gone.
LEMMA NoMeshStep == ASSUME TypeOK, CallInv, ArbiterInv, ThreadInv, NoMeshWithoutEngine,
                           [Next]_vars
  PROVE  NoMeshWithoutEngine'
<1> USE DEF NoMeshWithoutEngine, MeshLive, NodeLive, Live, TypeOK, FlagsType, WorkerType,
            NodeFinishing, CallInv, EnginePcs
<1>1. CASE get_status \/ start \/ stop \/ preflight_proxy
  BY <1>1 DEF get_status, start, stop, preflight_proxy
<1>2. CASE Settings
  BY <1>2 DEF Settings, reject_argument, configure, import_wallet, update_min_hops,
     set_proxy_enabled
<1>3. CASE start_engine
  BY <1>3 DEF start_engine
<1>4. ASSUME NEW o \in StopOps, stop_engine(o) PROVE NoMeshWithoutEngine'
  BY <1>4 DEF stop_engine
<1>5. CASE preflight_answer \/ preflight_report \/ preflight_store
  BY <1>5 DEF preflight_answer, preflight_report, preflight_store
<1>6. CASE stop_check \/ stop_flag \/ stop_arbiters_flag \/ stop_arbiters \/ stop_system
  BY <1>6 DEF stop_check, stop_flag, stop_arbiters_flag, stop_arbiters, stop_system
<1>7. CASE stop_timeout \/ join
  BY <1>7 DEF stop_timeout, join
<1>8. CASE wait_for_actor_arbiters
  <2>1. \A a \in Arbiters : ~Live(a)
    BY <1>8, NoArbiterLeft DEF wait_for_actor_arbiters
  <2> QED BY <1>8, <2>1 DEF wait_for_actor_arbiters, ThreadInv, NoMeshWithoutEngine, MeshLive,
         NodeLive, Live
<1>9. CASE snapshot \/ snapshot_started \/ snapshot_stop
  BY <1>9 DEF snapshot, snapshot_started, snapshot_stop
<1>10. CASE refresh_engine_status
  BY <1>10 DEF refresh_engine_status
<1>11. CASE BootStep
  BY Zenon, <1>11 DEF BootStep, register_system, register_system_tests_stop,
     expect_actor_arbiter, register_neighborhood_retry, mark_started
<1>12. CASE NodeStop
  BY <1>12 DEF NodeStop, boot_fails, system_stops
<1>13. CASE finish
  BY <1>13 DEF finish
<1>14. CASE WorkerStep
  BY <1>14 DEF WorkerStep, register_actor_arbiter, arbiter_stops
<1>15. CASE RouteStep
  BY <1>15 DEF RouteStep, report_route_stage, store_route_stage
<1>16. CASE UNCHANGED vars
  BY <1>16 DEF vars
<1> QED BY <1>1, <1>2, <1>3, <1>4, <1>5, <1>6, <1>7, <1>8, <1>9, <1>10, <1>11, <1>12, <1>13,
           <1>14, <1>15, <1>16
  DEF Next, Operation, CallStep, Settings

\* A new run starts only when no thread of an earlier one is left.
LEMMA OnlyLatestStep == ASSUME TypeOK, ReportInv, NoMeshWithoutEngine, OnlyLatestMesh,
                               [Next]_vars
  PROVE  OnlyLatestMesh'
<1> USE DEF OnlyLatestMesh, NoMeshWithoutEngine, ReportInv, MeshLive, NodeLive, Live, TypeOK,
            FlagsType, WorkerType, Arbiters
<1>1. CASE get_status \/ start \/ stop \/ preflight_proxy
  BY <1>1 DEF get_status, start, stop, preflight_proxy
<1>2. CASE Settings
  BY <1>2 DEF Settings, reject_argument, configure, import_wallet, update_min_hops,
     set_proxy_enabled
<1>3. CASE start_engine
  BY <1>3 DEF start_engine
<1>4. ASSUME NEW o \in StopOps, stop_engine(o) PROVE OnlyLatestMesh'
  BY <1>4 DEF stop_engine
<1>5. CASE preflight_answer \/ preflight_report \/ preflight_store
  BY <1>5 DEF preflight_answer, preflight_report, preflight_store
<1>6. CASE stop_check \/ stop_flag \/ stop_arbiters_flag \/ stop_arbiters \/ stop_system
  BY <1>6 DEF stop_check, stop_flag, stop_arbiters_flag, stop_arbiters, stop_system
<1>7. CASE stop_timeout \/ join
  BY <1>7 DEF stop_timeout, join
<1>8. CASE wait_for_actor_arbiters
  BY <1>8 DEF wait_for_actor_arbiters
<1>9. CASE snapshot \/ snapshot_started \/ snapshot_stop
  BY <1>9 DEF snapshot, snapshot_started, snapshot_stop
<1>10. CASE refresh_engine_status
  BY <1>10 DEF refresh_engine_status
<1>11. ASSUME NEW w \in Workers, expect_actor_arbiter(w) PROVE OnlyLatestMesh'
  BY <1>11 DEF expect_actor_arbiter
<1>12. CASE register_system \/ register_system_tests_stop
           \/ register_neighborhood_retry \/ mark_started
  BY <1>12 DEF register_system, register_system_tests_stop, register_neighborhood_retry,
     mark_started
<1>13. CASE NodeStop
  BY <1>13 DEF NodeStop, boot_fails, system_stops
<1>14. CASE finish
  BY <1>14 DEF finish
<1>15. CASE WorkerStep
  BY <1>15 DEF WorkerStep, register_actor_arbiter, arbiter_stops
<1>16. CASE RouteStep
  BY <1>16 DEF RouteStep, report_route_stage, store_route_stage
<1>17. CASE UNCHANGED vars
  BY <1>17 DEF vars
<1> QED BY <1>1, <1>2, <1>3, <1>4, <1>5, <1>6, <1>7, <1>8, <1>9, <1>10, <1>11, <1>12, <1>13,
           <1>14, <1>15, <1>16, <1>17
  DEF Next, Operation, CallStep, BootStep, Settings

\* EMBEDDED, SYSTEM and STOP_REQUESTED last as long as the Node needs them.
LEMMA FlagStepInv == ASSUME TypeOK, CallInv, FlagInv, NoMeshWithoutEngine, [Next]_vars
  PROVE  FlagInv'
<1> USE DEF FlagInv, CallInv, EnginePcs, FlaggedPcs, NodeLive, MeshLive, NoMeshWithoutEngine,
            TypeOK, FlagsType, NodeType, NodeFinishing, NodePcs
<1>1. CASE get_status \/ start \/ stop \/ preflight_proxy
  BY <1>1 DEF get_status, start, stop, preflight_proxy
<1>2. CASE Settings
  BY <1>2 DEF Settings, reject_argument, configure, import_wallet, update_min_hops,
     set_proxy_enabled
<1>3. CASE start_engine
  BY <1>3 DEF start_engine
<1>4. ASSUME NEW o \in StopOps, stop_engine(o) PROVE FlagInv'
  BY <1>4 DEF stop_engine
<1>5. CASE preflight_answer \/ preflight_report \/ preflight_store
  BY <1>5 DEF preflight_answer, preflight_report, preflight_store
<1>6. CASE stop_check \/ stop_flag \/ stop_arbiters_flag \/ stop_arbiters \/ stop_system
  BY <1>6 DEF stop_check, stop_flag, stop_arbiters_flag, stop_arbiters, stop_system
<1>7. CASE stop_timeout \/ join
  BY <1>7 DEF stop_timeout, join
<1>8. CASE wait_for_actor_arbiters
  BY Zenon, <1>8 DEF wait_for_actor_arbiters
<1>9. CASE snapshot \/ snapshot_started \/ snapshot_stop
  BY <1>9 DEF snapshot, snapshot_started, snapshot_stop
<1>10. CASE refresh_engine_status
  BY <1>10 DEF refresh_engine_status
<1>11. CASE BootStep
  BY Zenon, <1>11 DEF BootStep, register_system, register_system_tests_stop,
     expect_actor_arbiter, register_neighborhood_retry, mark_started
<1>12. CASE NodeStop
  BY <1>12 DEF NodeStop, boot_fails, system_stops
<1>13. CASE finish
  BY <1>13 DEF finish
<1>14. CASE WorkerStep
  BY <1>14 DEF WorkerStep, register_actor_arbiter, arbiter_stops
<1>15. CASE RouteStep
  BY <1>15 DEF RouteStep, report_route_stage, store_route_stage
<1>16. CASE UNCHANGED vars
  BY <1>16 DEF vars
<1> QED BY <1>1, <1>2, <1>3, <1>4, <1>5, <1>6, <1>7, <1>8, <1>9, <1>10, <1>11, <1>12, <1>13,
           <1>14, <1>15, <1>16
  DEF Next, Operation, CallStep, Settings

\* register_system stores before it tests, stop tests after it stores.
LEMMA StopReachesSystemStep == ASSUME TypeOK, CallInv, FlagInv, StopReachesSystem, [Next]_vars
  PROVE  StopReachesSystem'
<1> USE DEF StopReachesSystem, FlagInv, CallInv, FlaggedPcs, NodeLive, TypeOK, FlagsType
<1>1. CASE get_status \/ start \/ stop \/ preflight_proxy
  BY <1>1 DEF get_status, start, stop, preflight_proxy
<1>2. CASE Settings
  BY <1>2 DEF Settings, reject_argument, configure, import_wallet, update_min_hops,
     set_proxy_enabled
<1>3. CASE start_engine
  BY <1>3 DEF start_engine
<1>4. ASSUME NEW o \in StopOps, stop_engine(o) PROVE StopReachesSystem'
  BY <1>4 DEF stop_engine
<1>5. CASE preflight_answer \/ preflight_report \/ preflight_store
  BY <1>5 DEF preflight_answer, preflight_report, preflight_store
<1>6. CASE stop_check \/ stop_flag \/ stop_arbiters_flag \/ stop_arbiters \/ stop_system
  BY <1>6 DEF stop_check, stop_flag, stop_arbiters_flag, stop_arbiters, stop_system
<1>7. CASE stop_timeout \/ join
  BY <1>7 DEF stop_timeout, join
<1>8. CASE wait_for_actor_arbiters
  BY <1>8 DEF wait_for_actor_arbiters
<1>9. CASE snapshot \/ snapshot_started \/ snapshot_stop
  BY <1>9 DEF snapshot, snapshot_started, snapshot_stop
<1>10. CASE refresh_engine_status
  BY <1>10 DEF refresh_engine_status
<1>11. CASE BootStep
  BY Zenon, <1>11 DEF BootStep, register_system, register_system_tests_stop,
     expect_actor_arbiter, register_neighborhood_retry, mark_started
<1>12. CASE NodeStop
  BY <1>12 DEF NodeStop, boot_fails, system_stops
<1>13. CASE finish
  BY <1>13 DEF finish
<1>14. CASE WorkerStep
  BY <1>14 DEF WorkerStep, register_actor_arbiter, arbiter_stops
<1>15. CASE RouteStep
  BY <1>15 DEF RouteStep, report_route_stage, store_route_stage
<1>16. CASE UNCHANGED vars
  BY <1>16 DEF vars
<1> QED BY <1>1, <1>2, <1>3, <1>4, <1>5, <1>6, <1>7, <1>8, <1>9, <1>10, <1>11, <1>12, <1>13,
           <1>14, <1>15, <1>16
  DEF Next, Operation, CallStep, Settings

\* The list is walked after the flag is set, and read before an arbiter joins
\* it.
LEMMA StopReachesArbitersStep == ASSUME TypeOK, CallInv, StopReachesArbiters, [Next]_vars
  PROVE  StopReachesArbiters'
<1> USE DEF StopReachesArbiters, CallInv, TypeOK, FlagsType, WorkerType
<1>1. CASE get_status \/ start \/ stop \/ preflight_proxy
  BY Zenon, <1>1 DEF get_status, start, stop, preflight_proxy
<1>2. CASE Settings
  BY Zenon, <1>2 DEF Settings, reject_argument, configure, import_wallet, update_min_hops,
     set_proxy_enabled
<1>3. CASE start_engine
  BY Zenon, <1>3 DEF start_engine
<1>4. ASSUME NEW o \in StopOps, stop_engine(o) PROVE StopReachesArbiters'
  BY <1>4 DEF stop_engine
<1>5. CASE preflight_answer \/ preflight_report \/ preflight_store
  BY Zenon, <1>5 DEF preflight_answer, preflight_report, preflight_store
<1>6. CASE stop_check \/ stop_flag \/ stop_arbiters_flag \/ stop_arbiters \/ stop_system
  BY Zenon, <1>6 DEF stop_check, stop_flag, stop_arbiters_flag, stop_arbiters, stop_system
<1>7. CASE stop_timeout \/ join
  BY Zenon, <1>7 DEF stop_timeout, join
<1>8. CASE wait_for_actor_arbiters
  BY Zenon, <1>8 DEF wait_for_actor_arbiters
<1>9. CASE snapshot \/ snapshot_started \/ snapshot_stop
  BY Zenon, <1>9 DEF snapshot, snapshot_started, snapshot_stop
<1>10. CASE refresh_engine_status
  BY Zenon, <1>10 DEF refresh_engine_status
<1>11. CASE BootStep
  BY Zenon, <1>11 DEF BootStep, register_system, register_system_tests_stop,
     expect_actor_arbiter, register_neighborhood_retry, mark_started
<1>12. CASE NodeStop
  BY Zenon, <1>12 DEF NodeStop, boot_fails, system_stops
<1>13. CASE finish
  BY Zenon, <1>13 DEF finish
<1>14. CASE WorkerStep
  BY Zenon, <1>14 DEF WorkerStep, register_actor_arbiter, arbiter_stops
<1>15. CASE RouteStep
  BY Zenon, <1>15 DEF RouteStep, report_route_stage, store_route_stage
<1>16. CASE UNCHANGED vars
  BY Zenon, <1>16 DEF vars
<1> QED BY <1>1, <1>2, <1>3, <1>4, <1>5, <1>6, <1>7, <1>8, <1>9, <1>10, <1>11, <1>12, <1>13,
           <1>14, <1>15, <1>16
  DEF Next, Operation, CallStep, Settings

\* Only a refresh of an engine reports a connection.
LEMMA PhaseStepInv == ASSUME TypeOK, CallInv, PhaseInv, [Next]_vars
  PROVE  PhaseInv'
<1> USE DEF PhaseInv, CallInv, EnginePcs, RestPhase, TypeOK, FlagsType
<1>1. CASE get_status \/ start \/ stop \/ preflight_proxy
  BY <1>1 DEF get_status, start, stop, preflight_proxy
<1>2. CASE Settings
  BY <1>2 DEF Settings, reject_argument, configure, import_wallet, update_min_hops,
     set_proxy_enabled
<1>3. CASE start_engine
  BY <1>3 DEF start_engine
<1>4. ASSUME NEW o \in StopOps, stop_engine(o) PROVE PhaseInv'
  BY <1>4 DEF stop_engine
<1>5. CASE preflight_answer \/ preflight_report \/ preflight_store
  BY <1>5 DEF preflight_answer, preflight_report, preflight_store
<1>6. CASE stop_check \/ stop_flag \/ stop_arbiters_flag \/ stop_arbiters \/ stop_system
  BY <1>6 DEF stop_check, stop_flag, stop_arbiters_flag, stop_arbiters, stop_system
<1>7. CASE stop_timeout \/ join
  BY <1>7 DEF stop_timeout, join
<1>8. CASE wait_for_actor_arbiters
  BY Zenon, <1>8 DEF wait_for_actor_arbiters
<1>9. CASE snapshot \/ snapshot_started \/ snapshot_stop
  BY <1>9 DEF snapshot, snapshot_started, snapshot_stop
<1>10. CASE refresh_engine_status
  BY <1>10 DEF refresh_engine_status
<1>11. CASE BootStep
  BY Zenon, <1>11 DEF BootStep, register_system, register_system_tests_stop,
     expect_actor_arbiter, register_neighborhood_retry, mark_started
<1>12. CASE NodeStop
  BY <1>12 DEF NodeStop, boot_fails, system_stops
<1>13. CASE finish
  BY <1>13 DEF finish
<1>14. CASE WorkerStep
  BY <1>14 DEF WorkerStep, register_actor_arbiter, arbiter_stops
<1>15. CASE RouteStep
  BY <1>15 DEF RouteStep, report_route_stage, store_route_stage
<1>16. CASE UNCHANGED vars
  BY <1>16 DEF vars
<1> QED BY <1>1, <1>2, <1>3, <1>4, <1>5, <1>6, <1>7, <1>8, <1>9, <1>10, <1>11, <1>12, <1>13,
           <1>14, <1>15, <1>16
  DEF Next, Operation, CallStep, Settings

\* The settings and the Node change together.
LEMMA ProfileStep == ASSUME RunningProfileIsConfigured, [Next]_vars
  PROVE  RunningProfileIsConfigured'
<1> USE DEF RunningProfileIsConfigured
<1>1. CASE get_status \/ start \/ stop \/ preflight_proxy
  BY Zenon, <1>1 DEF get_status, start, stop, preflight_proxy
<1>2. ASSUME NEW o \in {"configure", "import_wallet", "update_min_hops"},
             reject_argument(o) PROVE RunningProfileIsConfigured'
  BY <1>2 DEF reject_argument
<1>3. ASSUME NEW c \in Configs, configure(c) PROVE RunningProfileIsConfigured'
  BY Zenon, <1>3 DEF configure
<1>4. ASSUME NEW w \in Wallets, import_wallet(w) PROVE RunningProfileIsConfigured'
  BY <1>4 DEF import_wallet
<1>5. ASSUME NEW h \in Hops, update_min_hops(h) PROVE RunningProfileIsConfigured'
  BY Zenon, <1>5 DEF update_min_hops
<1>6. ASSUME NEW enabled \in BOOLEAN, set_proxy_enabled(enabled) PROVE RunningProfileIsConfigured'
  BY Zenon, <1>6 DEF set_proxy_enabled
<1>7. CASE start_engine
  BY Zenon, <1>7 DEF start_engine
<1>8. ASSUME NEW o \in StopOps, stop_engine(o) PROVE RunningProfileIsConfigured'
  BY Zenon, <1>8 DEF stop_engine
<1>9. CASE preflight_answer \/ preflight_report \/ preflight_store
  BY Zenon, <1>9 DEF preflight_answer, preflight_report, preflight_store
<1>10. CASE stop_check \/ stop_flag \/ stop_arbiters_flag \/ stop_arbiters \/ stop_system
  BY Zenon, <1>10 DEF stop_check, stop_flag, stop_arbiters_flag, stop_arbiters, stop_system
<1>11. CASE stop_timeout \/ join
  BY Zenon, <1>11 DEF stop_timeout, join
<1>12. CASE wait_for_actor_arbiters
  BY Zenon, <1>12 DEF wait_for_actor_arbiters
<1>13. CASE snapshot \/ snapshot_started \/ snapshot_stop
  BY Zenon, <1>13 DEF snapshot, snapshot_started, snapshot_stop
<1>14. CASE refresh_engine_status
  BY Zenon, <1>14 DEF refresh_engine_status
<1>15. CASE BootStep
  BY Zenon, <1>15 DEF BootStep, register_system, register_system_tests_stop,
     expect_actor_arbiter, register_neighborhood_retry, mark_started
<1>16. CASE NodeStop
  BY Zenon, <1>16 DEF NodeStop, boot_fails, system_stops
<1>17. CASE finish
  BY Zenon, <1>17 DEF finish
<1>18. CASE WorkerStep
  BY Zenon, <1>18 DEF WorkerStep, register_actor_arbiter, arbiter_stops
<1>19. CASE RouteStep
  BY Zenon, <1>19 DEF RouteStep, report_route_stage, store_route_stage
<1>20. CASE UNCHANGED vars
  BY Zenon, <1>20 DEF vars
<1> QED BY <1>1, <1>2, <1>3, <1>4, <1>5, <1>6, <1>7, <1>8, <1>9, <1>10, <1>11, <1>12, <1>13,
           <1>14, <1>15, <1>16, <1>17, <1>18, <1>19, <1>20
  DEF Next, Operation, CallStep

\* Every way out of a running phase switches the proxy off.
LEMMA ProxyStep == ASSUME TypeOK, CallInv, PhaseInv, ProxyOffUnlessRunning, [Next]_vars
  PROVE  ProxyOffUnlessRunning'
<1> USE DEF ProxyOffUnlessRunning, PhaseInv, CallInv, EnginePcs, RestPhase, TypeOK, FlagsType
<1>1. CASE get_status \/ start \/ stop \/ preflight_proxy
  BY Zenon, <1>1 DEF get_status, start, stop, preflight_proxy
<1>2. CASE Settings
  BY Zenon, <1>2 DEF Settings, reject_argument, configure, import_wallet, update_min_hops,
     set_proxy_enabled
<1>3. CASE start_engine
  BY Zenon, <1>3 DEF start_engine
<1>4. ASSUME NEW o \in StopOps, stop_engine(o) PROVE ProxyOffUnlessRunning'
  BY Zenon, <1>4 DEF stop_engine
<1>5. CASE preflight_answer \/ preflight_report \/ preflight_store
  BY Zenon, <1>5 DEF preflight_answer, preflight_report, preflight_store
<1>6. CASE stop_check \/ stop_flag \/ stop_arbiters_flag \/ stop_arbiters \/ stop_system
  BY Zenon, <1>6 DEF stop_check, stop_flag, stop_arbiters_flag, stop_arbiters, stop_system
<1>7. CASE stop_timeout \/ join
  BY Zenon, <1>7 DEF stop_timeout, join
<1>8. CASE wait_for_actor_arbiters
  BY Zenon, <1>8 DEF wait_for_actor_arbiters
<1>9. CASE snapshot \/ snapshot_started \/ snapshot_stop
  BY Zenon, <1>9 DEF snapshot, snapshot_started, snapshot_stop
<1>10. CASE refresh_engine_status
  BY Zenon, <1>10 DEF refresh_engine_status
<1>11. CASE BootStep
  BY Zenon, <1>11 DEF BootStep, register_system, register_system_tests_stop,
     expect_actor_arbiter, register_neighborhood_retry, mark_started
<1>12. CASE NodeStop
  BY Zenon, <1>12 DEF NodeStop, boot_fails, system_stops
<1>13. CASE finish
  BY Zenon, <1>13 DEF finish
<1>14. ASSUME NEW a \in Arbiters, register_actor_arbiter(a) PROVE ProxyOffUnlessRunning'
  BY Zenon, <1>14 DEF register_actor_arbiter
<1>15. ASSUME NEW a \in Arbiters, arbiter_stops(a) PROVE ProxyOffUnlessRunning'
  BY Zenon, <1>15 DEF arbiter_stops
<1>16. ASSUME NEW r \in Runs, NEW stage \in 0..2, report_route_stage(r, stage) PROVE ProxyOffUnlessRunning'
  BY Zenon, <1>16 DEF report_route_stage
<1>17. ASSUME NEW r \in Runs, store_route_stage(r) PROVE ProxyOffUnlessRunning'
  BY Zenon, <1>17 DEF store_route_stage
<1>18. CASE UNCHANGED vars
  BY Zenon, <1>18 DEF vars
<1> QED BY <1>1, <1>2, <1>3, <1>4, <1>5, <1>6, <1>7, <1>8, <1>9, <1>10, <1>11, <1>12, <1>13,
           <1>14, <1>15, <1>16, <1>17, <1>18
  DEF Next, Operation, CallStep, WorkerStep, RouteStep, Settings

-----------------------------------------------------------------------------
\* The freshly loaded library satisfies the inductive invariant.
LEMMA InitIInv == Init => IInv
<1> SUFFICES ASSUME Init PROVE IInv
  OBVIOUS
<1> USE DEF Init
<1>1. FlagsType /\ CoreType
  <2>1. FlagsType BY DEF FlagsType
  <2>2. CoreType BY DEF CoreType, Phases
  <2> QED BY <2>1, <2>2
<1>2. CallType
  <2>1. snap \in Snapshots BY DEF Snapshots, NoSnapshot
  <2>2. reply \in Replies BY DEF Replies, NoReply, Phases
  <2> QED BY <2>1, <2>2 DEF CallType, CallPcs
<1>3. NodeType BY DEF NodeType, NodePcs
<1>4. WorkerType BY DEF WorkerType
<1>5. ~MeshLive BY DEF MeshLive, NodeLive, Live
<1>6. CallInv /\ ThreadInv BY DEF CallInv, ThreadInv, RefreshPcs, EnginePcs
<1>7. ReportInv BY DEF ReportInv
<1>8. OnlyLatestMesh BY DEF OnlyLatestMesh, Live
<1>9. FlagInv BY <1>5 DEF FlagInv, MeshLive, FlaggedPcs
<1>10. ArbiterInv BY <1>5 DEF ArbiterInv
<1> QED
  BY <1>1, <1>2, <1>3, <1>4, <1>5, <1>6, <1>7, <1>8, <1>9, <1>10
  DEF IInv, TypeOK, MeshInv, PhaseInv, NoMeshWithoutEngine, RunningProfileIsConfigured,
      StopReachesSystem, StopReachesArbiters, ProxyOffUnlessRunning

\* Every step of a bridge call, the Node thread or an actor thread keeps it.
LEMMA StepIInv == IInv /\ [Next]_vars => IInv'
<1> SUFFICES ASSUME IInv, [Next]_vars PROVE IInv'
  OBVIOUS
<1>1. TypeOK'
  <2> USE DEF IInv, TypeOK, MeshInv
  <2>1. FlagsType' BY FlagsStep
  <2>2. CoreType' BY CoreTypeStep
  <2>3. CallType' BY CallTypeStep
  <2>4. NodeType' BY NodeTypeStep
  <2>5. WorkerType' BY WorkerTypeStep
  <2> QED BY <2>1, <2>2, <2>3, <2>4, <2>5
<1>2. MeshInv'
  <2> USE DEF IInv, MeshInv
  <2>1. CallInv' BY CallStepInv
  <2>2. ArbiterInv' BY ArbiterStepInv
  <2>3. ThreadInv' BY ThreadStepInv
  <2>4. ReportInv' BY ReportStepInv
  <2>5. NoMeshWithoutEngine' BY NoMeshStep
  <2>6. OnlyLatestMesh' BY OnlyLatestStep
  <2> QED BY <2>1, <2>2, <2>3, <2>4, <2>5, <2>6
<1>3. FlagInv' BY FlagStepInv DEF IInv, MeshInv
<1>4. PhaseInv' BY PhaseStepInv DEF IInv, MeshInv
<1>5. RunningProfileIsConfigured' BY ProfileStep DEF IInv
<1>6. StopReachesSystem' BY StopReachesSystemStep DEF IInv, MeshInv
<1>7. StopReachesArbiters' BY StopReachesArbitersStep DEF IInv, MeshInv
<1>8. ProxyOffUnlessRunning' BY ProxyStep DEF IInv, MeshInv
<1> QED BY <1>1, <1>2, <1>3, <1>4, <1>5, <1>6, <1>7, <1>8 DEF IInv

\* So it holds throughout every behaviour of the core.
LEMMA Invariance == Spec => []IInv
<1>1. Init => IInv BY InitIInv
<1>2. IInv /\ [Next]_vars => IInv' BY StepIInv
<1> QED BY <1>1, <1>2, PTL DEF Spec

\* Every variable of the core, the runtime and the threads keeps its type,
\* whichever thread of core.rs, mobile_runtime.rs or Actix wrote it last.
THEOREM TypeCorrect == Spec => []TypeOK
<1>1. IInv => TypeOK BY DEF IInv
<1> QED BY <1>1, Invariance, PTL

\* The core never lets go of its engine while the Node thread or an actor
\* thread is alive, for any number of actors and of restarts: counting the
\* expected and the registered arbiters closes the gap between the spawn of an
\* actor thread and its registration (mobile_runtime.rs, wait_for_actor_arbiters).
THEOREM DroppedEngineIsSilent == Spec => []NoMeshWithoutEngine
<1>1. IInv => NoMeshWithoutEngine BY DEF IInv, MeshInv
<1> QED BY <1>1, Invariance, PTL

\* The threads of two Node runs are never alive together, so the process-wide
\* atomics of mobile_runtime.rs are only written for the latest Node.
THEOREM RunsDoNotOverlap == Spec => []OnlyLatestMesh
<1>1. IInv => OnlyLatestMesh BY DEF IInv, MeshInv
<1> QED BY <1>1, Invariance, PTL

\* configure and update_min_hops never let the stored profile and the running
\* Node's profile drift apart (core.rs).
THEOREM ProfileIsShared == Spec => []RunningProfileIsConfigured
<1>1. IInv => RunningProfileIsConfigured BY DEF IInv
<1> QED BY <1>1, Invariance, PTL

\* stop() and register_system(), and stop() and register_actor_arbiter(), cannot
\* miss each other, in whatever order their loads and stores fall.
THEOREM StopIsNotLost == Spec => []StopIsDelivered
<1>1. IInv => StopIsDelivered BY DEF IInv, StopIsDelivered
<1> QED BY <1>1, Invariance, PTL

\* The proxy flag of core.rs is off in every paused, failed or engineless core.
THEOREM ProxyFollowsPhase == Spec => []ProxyOffUnlessRunning
<1>1. IInv => ProxyOffUnlessRunning BY DEF IInv
<1> QED BY <1>1, Invariance, PTL
=============================================================================
