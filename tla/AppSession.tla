----------------------------- MODULE AppSession -----------------------------
(***************************************************************************)
(* The browser session of the mobile app: the React Native code that opens *)
(* and closes the MASQ and the Direct browser (App.tsx, browserSession.ts),*)
(* the connection controller it calls (useMasqController.ts, singleFlight, *)
(* connectionReadiness, entryNodeRefresh, connectionLifecycle) and the two *)
(* native bridges that carry the calls out (MasqCoreModule.kt on Android,  *)
(* RCTMasqCore.mm on iOS).                                                 *)
(*                                                                         *)
(* JavaScript runs to its next await in one step.  A native call is a step *)
(* of the bridge that leaves its answer in ans; the continuation consumes  *)
(* it.  The Rust core is the abstract machine `core' that module           *)
(* MobileCore refines with its threads and flags: off (no engine),         *)
(* connecting, connected, paused (engine warm), stuck (shutdown failed).   *)
(***************************************************************************)
EXTENDS Integers, Sequences

CONSTANTS
  Platforms,         \* the builds considered: "android", "ios"
  RetryOffered,      \* the error banner shows "Retry connection", never disabled
  Failures,          \* whether ProxyController and the tunnel stop may fail
  MaxAttempts,       \* ENTRY_NODE_REFRESH_ATTEMPTS, 6 in the code
  MaxEvents          \* bound on user and AppState events

ASSUME AppSessionAssumption ==
  /\ Platforms \subseteq {"android", "ios"} /\ Failures \subseteq BOOLEAN
  /\ RetryOffered \in BOOLEAN
  /\ MaxAttempts \in Nat \ {0} /\ MaxEvents \in Nat

VARIABLES
  route, browserMode,       \* the screen shown and the mode it was opened in
  browserOperation,         \* browserOperation.current
  opener,                   \* the open*Browser call in flight
  closer,                   \* the closeBrowser call in flight
  pauser,                   \* the disconnect started by the user
  ans,                      \* the native answer each of the three waits for
  busyBy,                   \* the newest run(): it alone may clear `busy'
  appActive, resuming,      \* AppState, and the foreground status query
  desiredConnected,         \* desiredConnected.current
  flight, aborted, attempt, \* connectFlight and its AbortController
  startAnswer,              \* the answer of masqCore.start()
  routingQueue, stage,      \* browserRoutingQueue and its head's progress
  routing,                  \* what the WebView proxy does with traffic
  io,                       \* start and shutdown calls not yet executed
  core, events,
  build                     \* the platform, and whether its calls may fail

screen  == <<route, browserMode, browserOperation>>
conn    == <<desiredConnected, flight, aborted, attempt, startAnswer>>
bridge  == <<routingQueue, stage, routing>>
app     == <<appActive, resuming>>
sessionVars == <<screen, opener, closer, pauser, ans, busyBy, app, conn, bridge, io,
          core, events, build>>

Callers == {"opener", "closer", "pauser"}
Idle == [pc |-> "idle", mode |-> "none", id |-> 0]

(* No proxy override exists when an Android process starts; the iOS stores *)
(* are created with the blocked sink.                                      *)
SessionInit ==
  /\ build \in [platform : Platforms, mayFail : Failures]
  /\ route = "home" /\ browserMode = "none" /\ browserOperation = 0
  /\ opener = Idle /\ closer = "idle" /\ pauser = "idle"
  /\ ans = [p \in Callers |-> "none"]
  /\ busyBy = "none" /\ appActive = TRUE /\ resuming = FALSE
  /\ desiredConnected = FALSE /\ flight = "none" /\ aborted = FALSE
  /\ attempt = 0 /\ startAnswer = "none"
  /\ routingQueue = <<>> /\ stage = "idle"
  /\ routing = IF build.platform = "ios" THEN "blocked" ELSE "default"
  /\ io = <<>> /\ core = "off" /\ events = 0

-----------------------------------------------------------------------------
(* Helpers of the JavaScript side.                                         *)

browserOpenInFlight == opener.pc # "idle"
busy == busyBy # "none" \/ browserOpenInFlight

Event == events < MaxEvents /\ events' = events + 1 /\ UNCHANGED build

setBrowserRoutingMode(mode, by) ==
  routingQueue' = Append(routingQueue, [mode |-> mode, by |-> by])

Consume(p) == ans' = [ans EXCEPT ![p] = "none"]

\* run()'s finally: only the newest epoch clears `busy'.
RunEnds(p) == busyBy' = IF busyBy = p THEN "none" ELSE busyBy

\* cancelConnectionAttempt
cancelConnectionAttempt == aborted' = (flight # "none")

\* connect(): a flight that is running is joined, even one already aborted.
connect ==
  /\ desiredConnected' = TRUE
  /\ IF flight # "none"
       THEN UNCHANGED <<flight, aborted, attempt, startAnswer, io, busyBy>>
       ELSE /\ flight' = "start" /\ aborted' = FALSE /\ attempt' = 1
            /\ startAnswer' = "none"
            /\ io' = Append(io, [call |-> "start", id |-> 0])
            /\ busyBy' = "flight"

-----------------------------------------------------------------------------
(* Opening a browser.                                                      *)

openMasqBrowser ==
  /\ Event /\ appActive /\ route = "home" /\ ~busy
  /\ browserOperation' = browserOperation + 1
  /\ opener' = [pc |-> "block", mode |-> "masq", id |-> browserOperation + 1]
  /\ setBrowserRoutingMode("blocked", "opener")
  /\ UNCHANGED <<route, browserMode, closer, pauser, ans, busyBy, app, conn,
                 stage, routing, io, core>>

openDirectBrowser ==
  /\ Event /\ appActive /\ route = "home" /\ ~busy
  /\ browserOperation' = browserOperation + 1
  /\ opener' = [pc |-> "tunnel", mode |-> "direct", id |-> browserOperation + 1]
  /\ desiredConnected' = FALSE /\ cancelConnectionAttempt
  /\ busyBy' = "opener"
  /\ UNCHANGED <<route, browserMode, closer, pauser, ans, app, flight, attempt,
                 startAnswer, bridge, io, core>>

never_stale == FALSE
Stale == opener.id # browserOperation

\* The awaits that block the browser again: prepareBrowserSession's catch, the
\* catch of open*Browser, and the exits for a superseded operation.
BlockAgain(pc) ==
  /\ opener' = [opener EXCEPT !.pc = pc]
  /\ setBrowserRoutingMode("blocked", "opener")
  /\ UNCHANGED io

\* prepareBrowserSession starts from blocked.
prepareBrowserSession == BlockAgain("block")

CallNext(pc) ==
  /\ opener' = [opener EXCEPT !.pc = pc]
  /\ UNCHANGED <<routingQueue, io>>

ShowBrowser ==
  /\ route' = "browser" /\ browserMode' = opener.mode /\ opener' = Idle
  /\ UNCHANGED <<routingQueue, io>>

\* The continuation of open*Browser after the await named by opener.pc.
opener_continues ==
  LET ok == ans["opener"] = "ok"
      keepScreen == UNCHANGED <<route, browserMode>>
  IN
  /\ ans["opener"] # "none" /\ Consume("opener")
  /\ IF opener.pc = "refresh" \/ opener.pc = "stop" \/ (opener.pc = "tunnel" /\ ~ok)
       THEN RunEnds("opener")
       ELSE busyBy' = IF opener.pc = "preflight" /\ ok /\ ~Stale
                        THEN "opener" ELSE busyBy
  /\ \/ /\ opener.pc = "tunnel" /\ keepScreen
        /\ IF ok THEN BlockAgain("dblock") ELSE BlockAgain("fail")
     \/ opener.pc = "dblock" /\ keepScreen /\ CallNext("stop")
     \/ /\ opener.pc = "stop" /\ keepScreen
        /\ IF Stale THEN BlockAgain("cancel")
           ELSE /\ opener' = [opener EXCEPT !.pc = "shutdown"]
                /\ io' = Append(io, [call |-> "shutdown", id |-> opener.id])
                /\ UNCHANGED routingQueue
     \/ /\ opener.pc = "shutdown" /\ keepScreen
        /\ IF ~ok THEN BlockAgain("fail")
           ELSE IF Stale THEN BlockAgain("cancel")
           ELSE prepareBrowserSession
     \/ /\ opener.pc = "block" /\ keepScreen
        /\ IF ok THEN /\ opener' = [opener EXCEPT !.pc = "mode"]
                      /\ setBrowserRoutingMode(opener.mode, "opener")
                      /\ UNCHANGED io
                 ELSE BlockAgain("unblock")
     \/ /\ opener.pc = "mode"
        /\ IF ~ok THEN BlockAgain("unblock") /\ keepScreen
           ELSE IF opener.mode = "masq" THEN CallNext("preflight") /\ keepScreen
           ELSE IF Stale THEN BlockAgain("cancel") /\ keepScreen
           ELSE ShowBrowser
     \/ /\ opener.pc = "preflight" /\ keepScreen
        /\ IF ~ok THEN BlockAgain("unblock")
           ELSE IF Stale THEN BlockAgain("cancel") ELSE CallNext("refresh")
     \/ /\ opener.pc = "refresh"
        /\ IF ~ok THEN BlockAgain("fail") /\ keepScreen
           ELSE IF Stale THEN BlockAgain("cancel") /\ keepScreen ELSE ShowBrowser
     \/ opener.pc = "unblock" /\ keepScreen /\ BlockAgain("fail")
     \/ /\ opener.pc \in {"fail", "cancel"} /\ opener' = Idle
        /\ browserMode' = IF opener.pc = "fail" /\ ~Stale THEN "none" ELSE browserMode
        /\ UNCHANGED <<route, routingQueue, io>>
  /\ UNCHANGED <<browserOperation, closer, pauser, app, conn, stage, routing,
                 core, events, build>>

shutdown_untimed == FALSE /\ UNCHANGED sessionVars

\* withTimeout(masqCore.shutdown()): the call itself keeps running.
shutdown_timeout ==
  /\ opener.pc = "shutdown" /\ ans["opener"] = "none"
  /\ BlockAgain("fail")
  /\ UNCHANGED <<screen, closer, pauser, ans, busyBy, app, conn, stage, routing,
                 core, events, build>>

-----------------------------------------------------------------------------
(* Closing it, AppState, and the user's own connect and disconnect.        *)

closeBrowser ==
  /\ Event /\ appActive /\ route = "browser" /\ browserMode # "none"
  /\ closer = "idle"
  /\ browserOperation' = browserOperation + 1
  /\ closer' = "block" /\ setBrowserRoutingMode("blocked", "closer")
  /\ UNCHANGED <<route, browserMode, opener, pauser, ans, busyBy, app, conn,
                 stage, routing, io, core>>

closer_continues ==
  /\ ans["closer"] # "none" /\ Consume("closer")
  /\ \/ /\ closer = "block" /\ closer' = "refresh"
        /\ browserMode' = "none" /\ busyBy' = "closer" /\ UNCHANGED route
     \/ /\ closer = "refresh" /\ closer' = "idle"
        /\ route' = "home" /\ RunEnds("closer") /\ UNCHANGED browserMode
  /\ UNCHANGED <<browserOperation, opener, pauser, app, conn, bridge, io, core,
                 events, build>>

\* Both AppState listeners, App's and the controller's, run on the same event.
enter_background ==
  /\ Event /\ appActive /\ appActive' = FALSE
  /\ browserOperation' = browserOperation + 1
  /\ browserMode' = "none"
  /\ route' = "home"
  /\ cancelConnectionAttempt
  /\ routingQueue' = routingQueue \o <<[mode |-> "blocked", by |-> "nobody"],
                                       [mode |-> "blocked", by |-> "nobody"]>>
  /\ UNCHANGED <<opener, closer, pauser, ans, busyBy, resuming,
                 desiredConnected, flight, attempt, startAnswer, stage, routing,
                 io, core>>

enter_foreground ==
  /\ ~appActive /\ appActive' = TRUE /\ resuming' = TRUE
  /\ UNCHANGED <<screen, opener, closer, pauser, ans, busyBy, conn, bridge, io,
                 core, events, build>>

\* The foreground query answers; pollNetwork makes the same decision when the
\* network path changes.
resume ==
  /\ resuming /\ resuming' = FALSE
  /\ \/ /\ desiredConnected /\ core \notin {"connected", "connecting"} /\ connect
     \/ UNCHANGED <<conn, io, busyBy>>
  /\ UNCHANGED <<screen, opener, closer, pauser, ans, appActive, bridge, core,
                 events, build>>

pollNetwork ==
  /\ appActive /\ desiredConnected /\ core # "connected" /\ flight = "none"
  /\ connect /\ Event
  /\ UNCHANGED <<screen, opener, closer, pauser, ans, app, bridge, core>>

press_connect ==
  /\ Event /\ appActive /\ route = "home" /\ (RetryOffered \/ ~busy)
  /\ connect
  /\ UNCHANGED <<screen, opener, closer, pauser, ans, app, bridge, core>>

\* disconnect: "Cancel connection" ignores `busy', "Pause MASQ" does not.
disconnect ==
  /\ Event /\ appActive /\ route = "home" /\ pauser = "idle"
  /\ ~busy \/ core = "connecting" \/ flight # "none"
  /\ desiredConnected' = FALSE /\ cancelConnectionAttempt
  /\ pauser' = "tunnel" /\ busyBy' = "pauser"
  /\ UNCHANGED <<screen, opener, closer, ans, app, flight, attempt, startAnswer,
                 bridge, io, core>>

\* disableSystemTunnel, then stopMasqSafely: block (whatever it answers), stop.
pauser_continues ==
  /\ ans["pauser"] # "none" /\ Consume("pauser")
  /\ \/ /\ pauser = "tunnel" /\ ans["pauser"] = "ok"
        /\ pauser' = "block" /\ setBrowserRoutingMode("blocked", "pauser")
        /\ UNCHANGED busyBy
     \/ /\ pauser = "block" /\ pauser' = "stop"
        /\ UNCHANGED <<routingQueue, busyBy>>
     \/ /\ pauser = "stop" \/ (pauser = "tunnel" /\ ans["pauser"] = "err")
        /\ pauser' = "idle" /\ RunEnds("pauser") /\ UNCHANGED routingQueue
  /\ UNCHANGED <<screen, opener, closer, app, conn, stage, routing, io, core,
                 events, build>>

-----------------------------------------------------------------------------
(* The connection flight: startWithEntryNodeRefresh around                 *)
(* startAndAwaitMasqConnection.                                            *)

FlightEnds ==
  /\ flight' = "none" /\ aborted' = FALSE /\ RunEnds("flight")
  /\ UNCHANGED <<io, attempt>>

\* A discovery or handshake failure sleeps and retries while attempts remain;
\* any other failure, and an abort, ends the flight.
FlightFails ==
  \/ FlightEnds
  \/ /\ ~aborted /\ attempt < MaxAttempts
     /\ flight' = "retry" /\ UNCHANGED <<io, attempt, aborted, busyBy>>

flight_started ==
  /\ flight = "start" /\ startAnswer # "none" /\ startAnswer' = "none"
  /\ IF startAnswer = "err" THEN FlightFails
     ELSE IF aborted \/ core = "connected" THEN FlightEnds
     ELSE flight' = "poll" /\ UNCHANGED <<io, attempt, aborted, busyBy>>
  /\ UNCHANGED <<screen, opener, closer, pauser, ans, app, desiredConnected,
                 bridge, core, events, build>>

flight_polls ==
  /\ flight = "poll"
  /\ IF aborted \/ core = "connected" THEN FlightEnds ELSE FlightFails
  /\ UNCHANGED <<screen, opener, closer, pauser, ans, app, desiredConnected,
                 startAnswer, bridge, core, events, build>>

flight_retries ==
  /\ flight = "retry"
  /\ IF aborted THEN FlightEnds
     ELSE /\ flight' = "start" /\ attempt' = attempt + 1
          /\ io' = Append(io, [call |-> "start", id |-> 0])
          /\ UNCHANGED <<aborted, busyBy>>
  /\ UNCHANGED <<screen, opener, closer, pauser, ans, app, desiredConnected,
                 startAnswer, bridge, core, events, build>>

-----------------------------------------------------------------------------
(* The native bridge.                                                      *)

NativeAnswer(p, a) == ans' = [ans EXCEPT ![p] = a]

\* disableSystemTunnel, preflightBrowserProxy and getStatus; their effect on
\* the tunnel and on the core is the subject of VpnTunnel and MobileCore.
native_answers(p) ==
  LET pc == [opener |-> opener.pc, closer |-> closer, pauser |-> pauser][p] IN
  /\ pc \in {"tunnel", "preflight", "refresh"} /\ ans[p] = "none"
  /\ \/ (pc = "preflight" => core = "connected") /\ NativeAnswer(p, "ok")
     \/ (pc = "tunnel" => build.mayFail) /\ NativeAnswer(p, "err")
  /\ UNCHANGED <<screen, opener, closer, pauser, busyBy, app, conn, bridge, io,
                 core, events, build>>

\* stop() runs at once on both platforms, not on the executor of start().
native_stop(p) ==
  LET pc == [opener |-> opener.pc, closer |-> closer, pauser |-> pauser][p] IN
  /\ pc = "stop" /\ ans[p] = "none" /\ NativeAnswer(p, "ok")
  /\ core' = IF core = "off" THEN "off" ELSE "paused"
  /\ UNCHANGED <<screen, opener, closer, pauser, busyBy, app, conn, bridge, io,
                 events, build>>

\* Android's ioExecutor has one thread; iOS dispatches to concurrent queues.
Runnable == IF build.platform = "android" THEN DOMAIN io \cap {1} ELSE DOMAIN io
Executed(i) == io' = SubSeq(io, 1, i - 1) \o SubSeq(io, i + 1, Len(io))

\* start(): entry node discovery, configure, then the core's start.
native_start(i) ==
  /\ io[i].call = "start" /\ Executed(i)
  /\ \/ /\ startAnswer' = "ok"
        /\ core' = IF core = "connected" THEN core ELSE "connecting"
     \/ startAnswer' = "err" /\ UNCHANGED core
  /\ UNCHANGED <<screen, opener, closer, pauser, ans, busyBy, app,
                 desiredConnected, flight, aborted, attempt, bridge, events, build>>

\* shutdown(): Ready once the Node thread is joined, Error when it is stuck.
native_shutdown(i) ==
  /\ io[i].call = "shutdown" /\ Executed(i)
  /\ \/ core' = "off"
     \/ core # "off" /\ core' = "stuck"
  /\ IF opener.pc = "shutdown" /\ opener.id = io[i].id
       THEN NativeAnswer("opener", IF core' = "off" THEN "ok" ELSE "err")
       ELSE UNCHANGED ans
  /\ UNCHANGED <<screen, opener, closer, pauser, busyBy, app, conn, bridge,
                 events, build>>

\* The Node finds or loses its neighbor; a pause is lost with the route.
core_evolves ==
  /\ \/ core = "connecting" /\ core' = "connected"
     \/ core \in {"connected", "paused"} /\ core' = "connecting"
  /\ UNCHANGED <<screen, opener, closer, pauser, ans, busyBy, app, conn, bridge,
                 io, events, build>>

finish_without_error(a) ==
  /\ routingQueue' = Tail(routingQueue) /\ stage' = "idle"
  /\ LET by == Head(routingQueue).by IN
       IF by = "nobody" THEN UNCHANGED ans ELSE NativeAnswer(by, "ok")

\* finishBrowserRouting[WithError], then the next request of the queue.
Finish(a) ==
  /\ routingQueue' = Tail(routingQueue) /\ stage' = "idle"
  /\ LET by == Head(routingQueue).by IN
       IF by = "nobody" THEN UNCHANGED ans ELSE NativeAnswer(by, a)

\* installBlockedBrowserState: the override, then the website data.
install_blocked ==
  /\ stage = "idle" /\ Head(routingQueue).mode \in {"blocked", "masq"}
  /\ \/ routing' = "blocked" /\ stage' = "clear" /\ UNCHANGED <<routingQueue, ans>>
     \/ build.mayFail /\ Finish("err") /\ UNCHANGED routing

clear_website_data ==
  /\ stage = "clear" /\ UNCHANGED routing
  /\ \/ Head(routingQueue).mode = "blocked" /\ Finish("ok")
     \/ /\ Head(routingQueue).mode = "masq" /\ core = "connected"
        /\ stage' = "open" /\ UNCHANGED <<routingQueue, ans>>
     \/ Finish("err")

apply_masq ==
  /\ stage = "open"
  /\ \/ routing' = "masq" /\ Finish("ok")
     \/ build.mayFail /\ Finish("err") /\ UNCHANGED routing

\* The tunnel must be off; a failing clearProxyOverride is closed again.
apply_direct ==
  /\ stage = "idle" /\ Head(routingQueue).mode = "direct"
  /\ \/ routing' = "direct" /\ Finish("ok")
     \/ Finish("err") /\ UNCHANGED routing
     \/ build.mayFail /\ routing' = "blocked" /\ Finish("err")

android_routing ==
  /\ build.platform = "android" /\ routingQueue # <<>>
  /\ install_blocked \/ clear_website_data \/ apply_masq \/ apply_direct
  /\ UNCHANGED <<screen, opener, closer, pauser, busyBy, app, conn, io, core,
                 events, build>>

ios_checks_core_first ==
  /\ build.platform = "ios" /\ routingQueue # <<>>
  /\ LET mode == Head(routingQueue).mode
         ok == CASE mode = "masq" -> core = "connected"
                 [] OTHER -> core # "stuck"
     IN /\ routing' = IF ok THEN mode ELSE routing
        /\ Finish(IF ok THEN "ok" ELSE "err")
  /\ UNCHANGED <<screen, opener, closer, pauser, busyBy, app, conn, io, core,
                 events, build>>

\* One block on the main queue; a core in phase Error makes the request fail,
\* and a request that fails leaves the sink behind.
ios_routing ==
  /\ build.platform = "ios" /\ routingQueue # <<>>
  /\ LET mode == Head(routingQueue).mode
         ok == CASE mode = "masq" -> core = "connected"
                 [] OTHER -> core # "stuck"
     IN /\ routing' = IF ok THEN mode ELSE "blocked"
        /\ Finish(IF ok THEN "ok" ELSE "err")
  /\ UNCHANGED <<screen, opener, closer, pauser, busyBy, app, conn, io, core,
                 events, build>>

-----------------------------------------------------------------------------
Native ==
  \/ \E p \in Callers : native_answers(p) \/ native_stop(p)
  \/ \E i \in Runnable : native_start(i) \/ native_shutdown(i)
  \/ android_routing \/ ios_routing

JavaScript ==
  opener_continues \/ closer_continues \/ pauser_continues \/ resume
    \/ flight_started \/ flight_polls \/ flight_retries

SessionNext ==
  \/ openMasqBrowser \/ openDirectBrowser \/ closeBrowser
  \/ enter_background \/ enter_foreground \/ pollNetwork
  \/ press_connect \/ disconnect
  \/ shutdown_timeout \/ core_evolves
  \/ JavaScript \/ Native

SessionSpec == SessionInit /\ [][SessionNext]_sessionVars

(* The JavaScript event loop and the bridge's executors always run what is *)
(* ready, and every native call answers: each has its own timeout.         *)
SessionFairness ==
  /\ WF_sessionVars(JavaScript)
  /\ WF_sessionVars(android_routing) /\ WF_sessionVars(ios_routing)
  /\ \A p \in Callers : WF_sessionVars(native_answers(p)) /\ WF_sessionVars(native_stop(p))
  /\ WF_sessionVars(shutdown_timeout)

SessionFairSpec == SessionSpec /\ SessionFairness

-----------------------------------------------------------------------------
(* Every variable stays in its domain.                                     *)
SessionTypeOK ==
  /\ route \in {"home", "browser"} /\ browserMode \in {"none", "masq", "direct"}
  /\ browserOperation \in 0..MaxEvents /\ events \in 0..MaxEvents
  /\ opener.pc \in {"idle", "tunnel", "dblock", "stop", "shutdown", "block", "mode",
                    "preflight", "refresh", "unblock", "fail", "cancel"}
  /\ opener.mode \in {"none", "masq", "direct"} /\ opener.id \in 0..MaxEvents
  /\ closer \in {"idle", "block", "refresh"}
  /\ pauser \in {"idle", "tunnel", "block", "stop"}
  /\ ans \in [Callers -> {"none", "ok", "err"}]
  /\ busyBy \in Callers \cup {"none", "flight"}
  /\ appActive \in BOOLEAN /\ resuming \in BOOLEAN /\ desiredConnected \in BOOLEAN
  /\ flight \in {"none", "start", "poll", "retry"} /\ aborted \in BOOLEAN
  /\ attempt \in 0..MaxAttempts /\ startAnswer \in {"none", "ok", "err"}
  /\ \A i \in DOMAIN routingQueue :
       /\ routingQueue[i].mode \in {"blocked", "masq", "direct"}
       /\ routingQueue[i].by \in Callers \cup {"nobody"}
  /\ stage \in {"idle", "clear", "open"}
  /\ routing \in {"default", "blocked", "masq", "direct"}
  /\ core \in {"off", "connecting", "connected", "paused", "stuck"}

(* A page is only on screen while the WebView's traffic goes where the     *)
(* screen says, or nowhere: a MASQ page never runs over the device's own   *)
(* connection, whatever the queue of routing requests, a background event, *)
(* a disconnect or a failing override did in between.  And                 *)
(* openDirectBrowser tears the core down before it shows a page: on        *)
(* Android no start that was queued before is carried out after it.        *)
PagesGoWhereShown ==
  route = "browser" =>
    /\ browserMode # "none" => routing \in {browserMode, "blocked"}
    /\ browserMode = "direct" /\ build.platform = "android" => core = "off"

(* The Direct browser "stops any active MASQ connection and system         *)
(* routing", on both platforms and with every button the screen offers.    *)
DirectStopsMesh ==
  route = "browser" /\ browserMode = "direct" => core = "off"

(* "Backgrounding always selects blocked": once the requests a background  *)
(* event found or made are carried out, no mode is left open, as long as   *)
(* the proxy override can be set.                                          *)
BackgroundMeansBlocked ==
  ~build.mayFail /\ ~appActive /\ routingQueue = <<>> /\ opener.pc = "idle"
     => routing = "blocked"

(* openMasqBrowser and openDirectBrowser always come back, so that         *)
(* browserOpenInFlight does not disable the browser buttons for good.      *)
OpeningEnds == browserOpenInFlight ~> ~browserOpenInFlight
=============================================================================
