-------------------------- MODULE AppSessionProofs --------------------------
(***************************************************************************)
(* Proofs about AppSession, for either platform, any number of connection  *)
(* attempts and of events, with and without failing native calls.          *)
(*                                                                         *)
(* PagesGoWhereShown is far from inductive.  Where the traffic goes when a *)
(* page appears was decided by a request that the opening call queued      *)
(* several awaits earlier, so the invariant says what the queue can still  *)
(* do: whatever is not "blocked" was asked for by the opening call, which  *)
(* waits for it (QueueInv); hence once that call has its answer the proxy  *)
(* can only be closed (RoutingInv).  That the core stays off under a       *)
(* Direct page rests on the order of the native executor: when the         *)
(* shutdown is queued no start can follow it, because the connection       *)
(* flight was aborted before (DirectInv).                                  *)
(***************************************************************************)
EXTENDS AppSession, TLAPS

\* A request of browserRoutingQueue, a call of the native executor, the opening call.
Request == [mode : {"blocked", "masq", "direct"}, by : Callers \cup {"nobody"}]
Call == [call : {"start", "shutdown"}, id : Nat]
Opener == [pc : {"idle", "tunnel", "dblock", "stop", "shutdown", "block", "mode",
                 "preflight", "refresh", "unblock", "fail", "cancel"},
           mode : {"none", "masq", "direct"}, id : Nat]

\* The awaits in which the opening call waits for a "blocked" of its own.
Blocking == {"dblock", "block", "unblock", "fail", "cancel"}

\* The variables of the screen and of the calls in flight.
ScreenType ==
  /\ route \in {"home", "browser"} /\ browserMode \in {"none", "masq", "direct"}
  /\ browserOperation \in Nat /\ events \in Nat /\ browserOperation <= events /\ events <= MaxEvents
  /\ opener \in Opener /\ opener.id <= browserOperation
  /\ closer \in {"idle", "block", "refresh"} /\ pauser \in {"idle", "tunnel", "block", "stop"}
  /\ ans \in [Callers -> {"none", "ok", "err"}]
  /\ busyBy \in Callers \cup {"none", "flight"}

\* Those of the connection controller.
ConnType ==
  /\ flight \in {"none", "start", "poll", "retry"}
  /\ attempt \in 0 .. MaxAttempts /\ (flight = "retry" => attempt < MaxAttempts)
  /\ startAnswer \in {"none", "ok", "err"}

\* Those of the native side.
NativeType ==
  /\ routingQueue \in Seq(Request) /\ stage \in {"idle", "clear", "open"}
  /\ routing \in {"default", "blocked", "masq", "direct"}
  /\ io \in Seq(Call) /\ core \in {"off", "connecting", "connected", "paused", "stuck"}

\* The flags.
FlagType ==
  appActive \in BOOLEAN /\ resuming \in BOOLEAN /\ desiredConnected \in BOOLEAN /\ aborted \in BOOLEAN

\* An opening call runs over the home screen; its answer is for the await it is in.
OpenerInv ==
  /\ opener.pc = "idle" => ans["opener"] = "none"
  /\ opener.pc # "idle" => route = "home" /\ opener.mode # "none" /\ 0 < opener.id
  /\ opener.pc \in {"tunnel", "dblock", "stop", "shutdown"} => opener.mode = "direct"
  /\ opener.pc \in {"preflight", "refresh"} => opener.mode = "masq"

\* Only the opening call asks for more than "blocked", one request at a time, and waits
\* for its answer.
QueueInv ==
  \A i \in 1 .. Len(routingQueue) :
    /\ routingQueue[i].mode # "blocked" => routingQueue[i].by = "opener"
    /\ routingQueue[i].by = "opener" =>
         /\ ans["opener"] = "none" /\ opener.pc \in Blocking \cup {"mode"}
         /\ routingQueue[i].mode = IF opener.pc = "mode" THEN opener.mode ELSE "blocked"
         /\ \A j \in 1 .. Len(routingQueue) : routingQueue[j].by = "opener" => j = i

\* While a request is carried out the sink is installed.
StageInv ==
  stage # "idle" =>
    /\ 0 < Len(routingQueue) /\ routing = "blocked"
    /\ routingQueue[1].mode \in IF stage = "open" THEN {"masq"} ELSE {"blocked", "masq"}

\* Once the opening call has the answer for its mode the proxy can only be closed.
RoutingInv ==
  /\ opener.pc \in {"preflight", "refresh"} \/ (opener.pc = "mode" /\ ans["opener"] = "ok")
       => routing \in {opener.mode, "blocked"}
  /\ route = "browser" /\ browserMode # "none" => routing \in {browserMode, "blocked"}

\* A background event overtakes the opening call, and leaves requests that close the proxy.
BackInv ==
  /\ ~appActive /\ opener.pc # "idle" => opener.id # browserOperation
  /\ ~build.mayFail =>
       /\ opener.pc \in {"fail", "cancel"} /\ ans["opener"] # "none" => routing = "blocked"
       /\ ~appActive /\ opener.pc = "idle" => routing = "blocked" \/ 0 < Len(routingQueue)

\* The Direct browser is being opened, or is shown.
ShowsDirect == route = "browser" /\ browserMode = "direct"
DirectRuns == (opener.pc # "idle" /\ opener.mode = "direct") \/ ShowsDirect

\* Its shutdown has succeeded.
TornDown ==
  \/ opener.pc = "shutdown" /\ ans["opener"] = "ok"
  \/ opener.pc \in {"block", "mode"} /\ opener.mode = "direct"
  \/ ShowsDirect

\* The calls that wait for the executor; a shutdown carries the number of its operation.
CallInv ==
  \A i \in 1 .. Len(io) :
    /\ io[i].id <= browserOperation /\ (io[i].call = "start" => io[i].id = 0)
    /\ opener.pc \in {"tunnel", "dblock", "stop"} => io[i].id # opener.id

\* No start waits behind the shutdown the opening call waits for.
ShutdownLast ==
  opener.pc = "shutdown" =>
    \A i, j \in 1 .. Len(io) : i < j /\ io[i].id = opener.id => io[j].call # "start"

\* Nothing is left that could start the core.
StaysOff == core = "off" /\ \A i \in 1 .. Len(io) : io[i].call # "start"

\* Without a retry button nothing connects while the Direct browser is opened or shown.
DirectInv ==
  /\ CallInv
  /\ ~RetryOffered =>
       /\ DirectRuns => ~desiredConnected /\ (flight = "none" \/ aborted)
       /\ build.platform = "android" => ShutdownLast /\ (TornDown => StaysOff)

\* The inductive invariant.
IInv ==
  /\ ScreenType /\ ConnType /\ NativeType /\ FlagType /\ OpenerInv /\ QueueInv /\ StageInv
  /\ RoutingInv /\ BackInv /\ DirectInv

-----------------------------------------------------------------------------
(* Sequences, and what each part of the invariant depends on.              *)

\* A sequence without its i-th element (the executor takes a call).
LEMMA RemovedProperties ==
  ASSUME NEW S, NEW s \in Seq(S), NEW i \in 1 .. Len(s), NEW t,
         t = SubSeq(s, 1, i - 1) \o SubSeq(s, i + 1, Len(s))
  PROVE  /\ t \in Seq(S) /\ Len(t) = Len(s) - 1
         /\ \A j \in 1 .. Len(t) : t[j] = s[IF j < i THEN j ELSE j + 1]
<1> DEFINE a == SubSeq(s, 1, i - 1)
           b == SubSeq(s, i + 1, Len(s))
<1>1. Len(s) \in Nat
  OBVIOUS
<1>2. a \in Seq(S) /\ Len(a) = i - 1 /\ \A j \in 1 .. (i - 1) : a[j] = s[j]
  BY <1>1
<1>3. b \in Seq(S) /\ Len(b) = Len(s) - i /\ \A j \in 1 .. (Len(s) - i) : b[j] = s[i + j]
  BY <1>1
<1> HIDE DEF a, b
<1>4. t = a \o b
  BY DEF a, b
<1>5. t \in Seq(S) /\ Len(t) = Len(s) - 1
      /\ \A j \in 1 .. (Len(s) - 1) : t[j] = IF j <= i - 1 THEN a[j] ELSE b[j - (i - 1)]
  <2>1. /\ t \in Seq(S) /\ Len(t) = Len(a) + Len(b)
        /\ \A j \in 1 .. (Len(a) + Len(b)) : t[j] = IF j <= Len(a) THEN a[j] ELSE b[j - Len(a)]
    <3>1. a \in Seq(S) /\ b \in Seq(S)
      BY <1>2, <1>3
    <3>2. /\ a \o b \in Seq(S) /\ Len(a \o b) = Len(a) + Len(b)
          /\ \A j \in 1 .. (Len(a) + Len(b)) : (a \o b)[j] = IF j <= Len(a) THEN a[j] ELSE b[j - Len(a)]
      BY <3>1
    <3> QED BY <1>4, <3>2, Zenon
  <2>2. Len(a) + Len(b) = Len(s) - 1
    BY <1>1, <1>2, <1>3
  <2> QED BY Zenon, <1>2, <2>1, <2>2
<1>6. ASSUME NEW j \in 1 .. (Len(s) - 1) PROVE t[j] = s[IF j < i THEN j ELSE j + 1]
  <2>1. CASE j < i
    <3>1. j \in 1 .. (i - 1) /\ j \in 1 .. (Len(s) - 1) /\ j <= i - 1
      BY <1>1, <2>1
    <3> QED BY Zenon, <1>2, <1>5, <2>1, <3>1
  <2>2. CASE ~(j < i)
    <3>1. j - (i - 1) \in 1 .. (Len(s) - i) /\ i + (j - (i - 1)) = j + 1 /\ ~(j <= i - 1)
          /\ j \in 1 .. (Len(s) - 1)
      BY <1>1, <2>2
    <3> QED BY Zenon, <1>3, <1>5, <2>2, <3>1
  <2> QED BY Zenon, <2>1, <2>2
<1> QED BY <1>5, <1>6, Zenon

\* The queue without its head.
LEMMA TailProperties ==
  ASSUME NEW S, NEW s \in Seq(S), s # <<>>
  PROVE  /\ 0 < Len(s) /\ Head(s) = s[1] /\ Head(s) \in S
         /\ Tail(s) \in Seq(S) /\ Len(Tail(s)) = Len(s) - 1
         /\ \A j \in 1 .. (Len(s) - 1) : Tail(s)[j] = s[j + 1]
<1>1. Len(s) \in Nat /\ Len(s) # 0
  OBVIOUS
<1>2. 0 < Len(s) /\ s[1] \in S
  BY <1>1
<1> QED BY <1>1, <1>2

\* A step that touches neither the screen, the opening call nor the proxy, but may answer a
\* native call of the opening call that is no routing request.
LEMMA QuietStep ==
  ASSUME IInv, ScreenType', ConnType', NativeType', FlagType', DirectInv', UNCHANGED <<screen, opener, appActive, bridge, build>>,
         \/ ans'["opener"] = ans["opener"]
         \/ opener.pc \in {"tunnel", "stop", "shutdown", "preflight", "refresh"}
  PROVE  IInv'
<1>1. OpenerInv' /\ RoutingInv'
  BY DEF IInv, OpenerInv, RoutingInv, screen, bridge
<1>2. QueueInv'
  BY DEF IInv, QueueInv, Blocking, bridge
<1>3. StageInv'
  BY DEF IInv, StageInv, bridge
<1>4. BackInv'
  BY DEF IInv, BackInv, screen, bridge
<1> QED BY <1>1, <1>2, <1>3, <1>4 DEF IInv

\* What the Direct browser depends on.
LEMMA DirectFrame ==
  ASSUME IInv, UNCHANGED <<screen, opener, build, desiredConnected, flight, aborted, io, core>>,
         ans'["opener"] = ans["opener"]
  PROVE  DirectInv'
BY DEF IInv, DirectInv, CallInv, DirectRuns, ShowsDirect, ShutdownLast, TornDown, StaysOff, screen

\* The invariant holds when the app starts
LEMMA InitInv == ASSUME SessionInit PROVE IInv
<1>1. opener.pc = "idle" /\ opener.mode = "none" /\ opener.id = 0 /\ opener \in Opener
  BY DEF SessionInit, Idle, Opener
<1>2. FlagType /\ appActive
  BY Zenon DEF SessionInit, FlagType
<1>3. /\ route = "home" /\ browserMode = "none" /\ browserOperation = 0 /\ events = 0
      /\ closer = "idle" /\ pauser = "idle" /\ ans = [p \in Callers |-> "none"] /\ busyBy = "none"
      /\ flight = "none" /\ attempt = 0 /\ startAnswer = "none"
      /\ routingQueue = <<>> /\ stage = "idle" /\ routing \in {"blocked", "default"}
      /\ io = <<>> /\ core = "off"
  BY Zenon DEF SessionInit
<1>4. Len(routingQueue) = 0 /\ Len(io) = 0
  BY <1>3
<1>5. ScreenType
  BY <1>1, <1>3, AppSessionAssumption DEF ScreenType
<1>6. ConnType /\ NativeType
  BY <1>3, AppSessionAssumption DEF ConnType, NativeType
<1>7. OpenerInv /\ RoutingInv
  BY <1>1, <1>3 DEF OpenerInv, Callers, RoutingInv
<1>8. QueueInv /\ StageInv
  BY <1>3, <1>4 DEF QueueInv, StageInv
<1>9. BackInv
  BY <1>1, <1>2 DEF BackInv
<1>10. DirectInv
  BY <1>1, <1>3, <1>4 DEF DirectInv, CallInv, DirectRuns, ShowsDirect, ShutdownLast, TornDown
<1> QED BY <1>2, <1>5, <1>6, <1>7, <1>8, <1>9, <1>10 DEF IInv

-----------------------------------------------------------------------------
(* The connection controller.                                              *)

\* An event is counted; other steps leave the count alone.
LEMMA EventBound ==
  ASSUME IInv, Event \/ UNCHANGED events
  PROVE  events' \in Nat /\ events <= events' /\ events' <= MaxEvents
BY AppSessionAssumption DEF IInv, ScreenType, Event

\* A step that leaves the screen and the three calls alone keeps their types.
LEMMA QuietScreen ==
  ASSUME IInv, Event \/ UNCHANGED events, UNCHANGED <<screen, opener, closer, pauser, ans>>,
         busyBy' \in Callers \cup {"none", "flight"}
  PROVE  ScreenType'
<1>1. events' \in Nat /\ events <= events' /\ events' <= MaxEvents
  BY EventBound
<1> QED BY <1>1 DEF IInv, ScreenType, screen

\* A start may be queued when the Direct browser is neither opened nor shown.
LEMMA StartQueued ==
  ASSUME IInv, RetryOffered \/ ~DirectRuns, UNCHANGED <<route, browserMode, browserOperation, opener, ans>>,
         io' = io \/ io' = Append(io, [call |-> "start", id |-> 0])
  PROVE  io' \in Seq(Call) /\ DirectInv'
<1>1. io' \in Seq(Call) /\ \A i \in 1 .. Len(io') : (i \in 1 .. Len(io) /\ io'[i] = io[i])
                                                    \/ (io'[i].call = "start" /\ io'[i].id = 0)
  <2> DEFINE e == [call |-> "start", id |-> 0]
  <2>1. e \in Call /\ e.call = "start" /\ e.id = 0 /\ io \in Seq(Call)
    BY DEF Call, IInv, NativeType
  <2> HIDE DEF e
  <2>2. CASE io' = io
    BY <2>1, <2>2
  <2>3. CASE io' = Append(io, e)
    <3>1. /\ io' \in Seq(Call) /\ Len(io') = Len(io) + 1 /\ Len(io) \in Nat
          /\ io'[Len(io) + 1] = e /\ \A i \in 1 .. Len(io) : io'[i] = io[i]
      BY <2>1, <2>3
    <3>2. ASSUME NEW i \in 1 .. Len(io') PROVE i \in 1 .. Len(io) \/ i = Len(io) + 1
      BY <3>1
    <3> QED BY <2>1, <3>1, <3>2
  <2> QED BY <2>2, <2>3 DEF e
<1>2. CallInv'
  BY <1>1 DEF IInv, DirectInv, CallInv, OpenerInv, ScreenType
<1>3. ASSUME ~RetryOffered PROVE ~DirectRuns' /\ ~TornDown' /\ ShutdownLast'
  BY <1>3 DEF IInv, OpenerInv, DirectRuns, ShowsDirect, TornDown, ShutdownLast
<1> QED BY <1>1, <1>2, <1>3 DEF DirectInv

\* connect(), when it is not called under the Direct browser: a flight that runs is joined,
\* else a new one queues its start.
LEMMA ConnectStep ==
  ASSUME IInv, connect, RetryOffered \/ ~DirectRuns, Event \/ UNCHANGED events, resuming' \in BOOLEAN,
         UNCHANGED <<screen, opener, closer, pauser, ans, appActive, bridge, core, build>>
  PROVE  IInv'
<1>1. busyBy' \in Callers \cup {"none", "flight"}
  BY DEF connect, IInv, ScreenType
<1>2. ScreenType'
  BY <1>1, QuietScreen
<1>3. ConnType'
  BY AppSessionAssumption DEF connect, IInv, ConnType
<1>4. FlagType'
  BY Zenon DEF connect, IInv, FlagType
<1>5. io' = io \/ io' = Append(io, [call |-> "start", id |-> 0])
  BY DEF connect
<1>6. io' \in Seq(Call) /\ DirectInv'
  BY <1>5, StartQueued DEF screen
<1>7. NativeType'
  BY <1>6 DEF IInv, NativeType, bridge
<1> QED BY <1>2, <1>3, <1>4, <1>6, <1>7, QuietStep

\* The foreground query: it connects only what the user wants connected.
LEMMA ResumeStep == ASSUME IInv, resume PROVE IInv'
<1>1. resuming' \in BOOLEAN /\ UNCHANGED <<screen, opener, closer, pauser, ans, appActive, bridge, core, events, build>>
  BY Zenon DEF resume
<1>2. CASE desiredConnected /\ connect
  BY <1>1, <1>2, ConnectStep DEF IInv, DirectInv
<1>3. CASE UNCHANGED <<conn, io, busyBy>>
  <2>1. ScreenType' /\ ConnType' /\ NativeType'
    BY <1>1, <1>3 DEF IInv, ScreenType, ConnType, NativeType, screen, conn, bridge
  <2>2. FlagType'
    BY Zenon, <1>1, <1>3 DEF IInv, FlagType, conn
  <2>3. DirectInv'
    BY <1>1, <1>3, DirectFrame DEF conn
  <2> QED BY <1>1, <2>1, <2>2, <2>3, QuietStep
<1> QED BY <1>2, <1>3 DEF resume

\* pollNetwork connects again when the network path has changed
LEMMA PollNetworkStep == ASSUME IInv, pollNetwork PROVE IInv'
<1>1. resuming' \in BOOLEAN
  BY Zenon DEF pollNetwork, IInv, FlagType, app
<1> QED BY <1>1, ConnectStep DEF pollNetwork, IInv, DirectInv, app, Event

\* "Connect", and "Retry connection" where it is offered: over the home screen.
LEMMA PressConnectStep == ASSUME IInv, press_connect PROVE IInv'
<1>1. resuming' \in BOOLEAN
  BY Zenon DEF press_connect, IInv, FlagType, app
<1>2. RetryOffered \/ ~DirectRuns
  BY DEF press_connect, busy, browserOpenInFlight, DirectRuns, ShowsDirect
<1> QED BY <1>1, <1>2, ConnectStep DEF press_connect, app, Event

\* The user disconnects: the flight is aborted.
LEMMA DisconnectStep == ASSUME IInv, disconnect PROVE IInv'
<1>1. /\ Event /\ desiredConnected' = FALSE /\ aborted' = (flight # "none")
      /\ pauser' = "tunnel" /\ busyBy' = "pauser"
      /\ UNCHANGED <<screen, opener, closer, ans, app, flight, attempt, startAnswer, bridge, io, core, build>>
  BY DEF disconnect, cancelConnectionAttempt, Event
<1>2. events' \in Nat /\ events <= events' /\ events' <= MaxEvents
  BY <1>1, EventBound
<1>3. ScreenType'
  BY <1>1, <1>2 DEF IInv, ScreenType, Callers, screen
<1>4. ConnType' /\ NativeType'
  BY <1>1 DEF IInv, ConnType, NativeType, bridge
<1>5. FlagType'
  BY Zenon, <1>1 DEF IInv, FlagType, app
<1>6. ~desiredConnected' /\ (flight' = "none" \/ aborted')
  BY Zenon, <1>1
<1>7. DirectInv'
  BY <1>1, <1>6 DEF IInv, DirectInv, CallInv, ShutdownLast, TornDown, ShowsDirect, StaysOff, screen
<1> QED BY <1>1, <1>3, <1>4, <1>5, <1>7, QuietStep DEF app

\* A flight ends: nothing is queued.
LEMMA FlightEndsStep ==
  ASSUME IInv, FlightEnds, startAnswer' \in {"none", "ok", "err"},
         UNCHANGED <<screen, opener, closer, pauser, ans, app, desiredConnected, bridge, core, events, build>>
  PROVE  IInv'
<1>1. busyBy' \in Callers \cup {"none", "flight"}
  BY DEF FlightEnds, RunEnds, IInv, ScreenType
<1>2. ScreenType'
  BY <1>1, QuietScreen
<1>3. ConnType' /\ NativeType'
  BY DEF FlightEnds, IInv, ConnType, NativeType, bridge
<1>4. FlagType'
  BY Zenon DEF FlightEnds, IInv, FlagType, app
<1>5. DirectInv'
  BY DEF FlightEnds, IInv, DirectInv, CallInv, DirectRuns, ShowsDirect, ShutdownLast, TornDown, StaysOff, screen
<1> QED BY <1>2, <1>3, <1>4, <1>5, QuietStep DEF app

\* A flight goes on without a call.
LEMMA FlightGoesOn ==
  ASSUME IInv, ~aborted, flight # "none", flight' \in {"poll", "retry"},
         flight' = "retry" => attempt < MaxAttempts,
         startAnswer' \in {"none", "ok", "err"}, UNCHANGED <<io, attempt, aborted, busyBy>>,
         UNCHANGED <<screen, opener, closer, pauser, ans, app, desiredConnected, bridge, core, events, build>>
  PROVE  IInv'
<1>1. ScreenType'
  BY DEF IInv, ScreenType, screen
<1>2. ConnType' /\ NativeType'
  BY DEF IInv, ConnType, NativeType, bridge
<1>3. FlagType'
  BY Zenon DEF IInv, FlagType, app
<1>4. DirectInv'
  BY DEF IInv, DirectInv, CallInv, DirectRuns, ShowsDirect, ShutdownLast, TornDown, StaysOff, screen
<1> QED BY <1>1, <1>2, <1>3, <1>4, QuietStep DEF app

\* The start call of the connection flight has answered
LEMMA FlightStartedStep == ASSUME IInv, flight_started PROVE IInv'
<1>1. /\ flight = "start" /\ startAnswer' = "none"
      /\ UNCHANGED <<screen, opener, closer, pauser, ans, app, desiredConnected, bridge, core, events, build>>
  BY DEF flight_started
<1>2. CASE FlightEnds
  BY <1>1, <1>2, FlightEndsStep
<1>3. CASE ~aborted /\ flight' \in {"poll", "retry"} /\ (flight' = "retry" => attempt < MaxAttempts)
           /\ UNCHANGED <<io, attempt, aborted, busyBy>>
  BY <1>1, <1>3, FlightGoesOn
<1> QED BY <1>2, <1>3 DEF flight_started, FlightFails

\* The connection flight polls the core, and ends or retries
LEMMA FlightPollsStep == ASSUME IInv, flight_polls PROVE IInv'
<1>1. /\ flight = "poll" /\ startAnswer' \in {"none", "ok", "err"}
      /\ UNCHANGED <<screen, opener, closer, pauser, ans, app, desiredConnected, bridge, core, events, build>>
  BY DEF flight_polls, IInv, ConnType
<1>2. CASE FlightEnds
  BY <1>1, <1>2, FlightEndsStep
<1>3. CASE ~aborted /\ flight' = "retry" /\ attempt < MaxAttempts /\ UNCHANGED <<io, attempt, aborted, busyBy>>
  BY <1>1, <1>3, FlightGoesOn
<1> QED BY <1>2, <1>3 DEF flight_polls, FlightFails

\* The next attempt, unless the flight was aborted while it slept.
LEMMA FlightRetriesStep == ASSUME IInv, flight_retries PROVE IInv'
<1>1. UNCHANGED <<screen, opener, closer, pauser, ans, app, desiredConnected, startAnswer, bridge, core, events, build>>
  BY DEF flight_retries
<1>2. CASE FlightEnds
  BY <1>1, <1>2, FlightEndsStep DEF IInv, ConnType
<1>3. CASE /\ flight = "retry" /\ ~aborted /\ flight' = "start" /\ attempt' = attempt + 1
           /\ io' = Append(io, [call |-> "start", id |-> 0]) /\ UNCHANGED <<aborted, busyBy>>
  <2>1. RetryOffered \/ ~DirectRuns
    BY <1>3 DEF IInv, DirectInv
  <2>2. io' \in Seq(Call) /\ DirectInv'
    BY <1>1, <1>3, <2>1, StartQueued DEF screen
  <2>3. ScreenType' /\ ConnType' /\ NativeType'
    BY <1>1, <1>3, <2>2, AppSessionAssumption DEF IInv, ScreenType, ConnType, NativeType, screen, bridge
  <2>4. FlagType'
    BY Zenon, <1>1, <1>3 DEF IInv, FlagType, app
  <2> QED BY <1>1, <2>2, <2>3, <2>4, QuietStep DEF app
<1> QED BY <1>2, <1>3 DEF flight_retries

-----------------------------------------------------------------------------
(* The native calls.                                                       *)

\* The executor takes a call; the order of the others stays.
LEMMA ExecutedProperties ==
  ASSUME IInv, NEW i \in Runnable, Executed(i)
  PROVE  /\ i \in 1 .. Len(io) /\ io[i] \in Call /\ io' \in Seq(Call) /\ Len(io) \in Nat /\ Len(io') = Len(io) - 1
         /\ \A j \in 1 .. Len(io') : io'[j] = io[IF j < i THEN j ELSE j + 1]
         /\ build.platform = "android" => i = 1
<1>1. io \in Seq(Call) /\ DOMAIN io = 1 .. Len(io) /\ Len(io) \in Nat
  BY DEF IInv, NativeType
<1>2. i \in 1 .. Len(io) /\ (build.platform = "android" => i = 1)
  BY <1>1 DEF Runnable
<1>3. io[i] \in Call
  BY <1>1, <1>2
<1>4. io' = SubSeq(io, 1, i - 1) \o SubSeq(io, i + 1, Len(io))
  BY DEF Executed
<1> QED BY ZenonT(60), <1>1, <1>2, <1>3, <1>4, RemovedProperties

\* What is known of the waiting calls stays known of those that are left.
LEMMA FewerCalls ==
  ASSUME IInv, NEW i \in Runnable, Executed(i), UNCHANGED <<browserOperation, opener>>
  PROVE  /\ CallInv' /\ (ShutdownLast => ShutdownLast')
         /\ (\A j \in 1 .. Len(io) : io[j].call # "start") => \A j \in 1 .. Len(io') : io'[j].call # "start"
<1> DEFINE old(j) == IF j < i THEN j ELSE j + 1
<1>1. i \in 1 .. Len(io) /\ Len(io) \in Nat /\ Len(io') = Len(io) - 1
      /\ \A j \in 1 .. Len(io') : io'[j] = io[old(j)]
  BY ExecutedProperties
<1>2. \A j \in 1 .. Len(io') : old(j) \in 1 .. Len(io)
  BY <1>1
<1>3. \A j, k \in 1 .. Len(io') : j < k => old(j) < old(k)
  BY <1>1
<1> HIDE DEF old
<1>4. CallInv'
  BY <1>1, <1>2 DEF IInv, DirectInv, CallInv
<1>5. ASSUME ShutdownLast PROVE ShutdownLast'
  BY SMTT(30), <1>1, <1>2, <1>3, <1>5 DEF ShutdownLast
<1> QED BY <1>1, <1>2, <1>4, <1>5

\* start() is carried out.
LEMMA NativeStartStep == ASSUME IInv, NEW i \in Runnable, native_start(i) PROVE IInv'
<1>1. /\ io[i].call = "start" /\ Executed(i) /\ startAnswer' \in {"ok", "err"}
      /\ core' \in {core, "connecting"}
      /\ UNCHANGED <<screen, opener, closer, pauser, ans, busyBy, app, desiredConnected, flight, aborted, attempt,
                     bridge, events, build>>
  BY DEF native_start
<1>2. i \in 1 .. Len(io) /\ io' \in Seq(Call)
  BY <1>1, ExecutedProperties
<1>3. ScreenType' /\ ConnType' /\ NativeType'
  BY <1>1, <1>2 DEF IInv, ScreenType, ConnType, NativeType, screen, bridge
<1>4. FlagType'
  BY Zenon, <1>1 DEF IInv, FlagType, app
<1>5. CallInv' /\ (ShutdownLast => ShutdownLast')
  BY <1>1, FewerCalls DEF screen
<1>6. DirectInv'
  <2>1. DirectRuns' <=> DirectRuns
    BY <1>1 DEF DirectRuns, ShowsDirect, screen
  <2>2. TornDown' <=> TornDown
    BY <1>1 DEF TornDown, ShowsDirect, screen
  <2>3. ~StaysOff
    BY <1>1, <1>2 DEF StaysOff
  <2> QED BY <1>1, <1>5, <2>1, <2>2, <2>3 DEF IInv, DirectInv
<1> QED BY <1>1, <1>3, <1>4, <1>6, QuietStep DEF app

\* shutdown() is carried out: behind the one the opening call waits for there is no start.
LEMMA NativeShutdownStep == ASSUME IInv, NEW i \in Runnable, native_shutdown(i) PROVE IInv'
<1>1. /\ io[i].call = "shutdown" /\ Executed(i) /\ core' \in {"off", "stuck"} /\ (core = "off" => core' = "off")
      /\ UNCHANGED <<screen, opener, closer, pauser, busyBy, app, conn, bridge, events, build>>
  BY DEF native_shutdown
<1>2. ans' \in [Callers -> {"none", "ok", "err"}]
  BY DEF native_shutdown, NativeAnswer, IInv, ScreenType, Callers
<1>3. \/ ans'["opener"] = ans["opener"]
      \/ opener.pc = "shutdown" /\ opener.id = io[i].id /\ (ans'["opener"] = "ok" => core' = "off")
  BY DEF native_shutdown, NativeAnswer, IInv, ScreenType, Callers
<1>4. /\ i \in 1 .. Len(io) /\ io' \in Seq(Call) /\ Len(io) \in Nat /\ Len(io') = Len(io) - 1
      /\ \A j \in 1 .. Len(io') : io'[j] = io[IF j < i THEN j ELSE j + 1]
      /\ build.platform = "android" => i = 1
  BY <1>1, ExecutedProperties
<1>5. ScreenType' /\ ConnType' /\ NativeType'
  BY <1>1, <1>2, <1>4 DEF IInv, ScreenType, ConnType, NativeType, screen, conn, bridge
<1>6. FlagType'
  BY Zenon, <1>1 DEF IInv, FlagType, app, conn
<1>7. CallInv' /\ (ShutdownLast => ShutdownLast')
      /\ ((\A j \in 1 .. Len(io) : io[j].call # "start") => \A j \in 1 .. Len(io') : io'[j].call # "start")
  BY SMTT(30), <1>1, FewerCalls DEF screen
<1>8. DirectInv'
  <2>1. DirectRuns' <=> DirectRuns
    BY <1>1 DEF DirectRuns, ShowsDirect, screen
  <2>2. ASSUME TornDown, StaysOff PROVE StaysOff'
    BY <1>1, <1>7, <2>2 DEF StaysOff
  <2>3. ASSUME ~TornDown, TornDown', ShutdownLast, build.platform = "android" PROVE StaysOff'
    <3>1. opener.pc = "shutdown" /\ ans'["opener"] = "ok" /\ ans["opener"] # "ok"
      BY SMTT(30), <1>1, <2>3 DEF TornDown, ShowsDirect, screen
    <3>2. opener.id = io[i].id /\ core' = "off" /\ i = 1
      BY <1>3, <1>4, <2>3, <3>1
    <3>3. ASSUME NEW j \in 1 .. Len(io') PROVE io'[j].call # "start"
      <4>1. j + 1 \in 1 .. Len(io) /\ 1 < j + 1 /\ io'[j] = io[j + 1] /\ 1 \in 1 .. Len(io)
        BY <1>4, <3>2
      <4> QED BY <2>3, <3>1, <3>2, <4>1 DEF ShutdownLast
    <3> QED BY SMTT(30), <3>2, <3>3 DEF StaysOff
  <2> QED BY <1>1, <1>7, <2>1, <2>2, <2>3 DEF IInv, DirectInv, conn
<1> QED BY <1>1, <1>3, <1>5, <1>6, <1>8, QuietStep DEF app

\* The other native calls answer.
LEMMA NativeAnswersStep ==
  ASSUME IInv, NEW p \in Callers, native_answers(p) \/ native_stop(p) PROVE IInv'
<1>1. /\ UNCHANGED <<screen, opener, closer, pauser, busyBy, app, conn, bridge, io, events, build>>
      /\ core' \in {core, "paused"} /\ (core = "off" => core' = "off")
      /\ \E a \in {"ok", "err"} : ans' = [ans EXCEPT ![p] = a]
  BY DEF native_answers, native_stop, NativeAnswer
<1>2. p = "opener" => opener.pc \in {"tunnel", "preflight", "refresh", "stop"}
  BY DEF native_answers, native_stop
<1>3. ans' \in [Callers -> {"none", "ok", "err"}]
  BY <1>1 DEF IInv, ScreenType
<1>4. p # "opener" => ans'["opener"] = ans["opener"]
  BY <1>1 DEF IInv, ScreenType, Callers
<1>5. ScreenType' /\ ConnType' /\ NativeType'
  BY <1>1, <1>3 DEF IInv, ScreenType, ConnType, NativeType, screen, conn, bridge
<1>6. FlagType'
  BY Zenon, <1>1 DEF IInv, FlagType, app, conn
<1>7. DirectInv'
  BY <1>1, <1>2, <1>4 DEF IInv, DirectInv, CallInv, DirectRuns, ShowsDirect, ShutdownLast, TornDown, StaysOff, screen, conn
<1> QED BY <1>1, <1>2, <1>4, <1>5, <1>6, <1>7, QuietStep DEF app

\* The Node finds or loses its neighbor; a core that is off stays off.
LEMMA CoreEvolvesStep == ASSUME IInv, core_evolves PROVE IInv'
<1>1. /\ core # "off" /\ core' \in {"connecting", "connected"}
      /\ UNCHANGED <<screen, opener, closer, pauser, ans, busyBy, app, conn, bridge, io, events, build>>
  BY DEF core_evolves
<1>2. ScreenType' /\ ConnType' /\ NativeType'
  BY <1>1 DEF IInv, ScreenType, ConnType, NativeType, screen, conn, bridge
<1>3. FlagType'
  BY Zenon, <1>1 DEF IInv, FlagType, app, conn
<1>4. DirectInv'
  BY <1>1 DEF IInv, DirectInv, CallInv, DirectRuns, ShowsDirect, ShutdownLast, TornDown, StaysOff, screen, conn
<1> QED BY <1>1, <1>2, <1>3, <1>4, QuietStep DEF app

-----------------------------------------------------------------------------
(* Requests that close the proxy.                                          *)

\* r is q with "blocked" requests of other callers behind it.
Grown(q, r) ==
  /\ r \in Seq(Request) /\ Len(q) \in Nat /\ Len(r) \in Nat /\ Len(q) < Len(r)
  /\ \A i \in 1 .. Len(r) : \/ i <= Len(q) /\ r[i] = q[i]
                            \/ Len(q) < i /\ r[i].mode = "blocked" /\ r[i].by # "opener"

\* setBrowserRoutingMode("blocked") of another caller.
LEMMA BlockedAppended ==
  ASSUME IInv, NEW by \in {"closer", "pauser"}, setBrowserRoutingMode("blocked", by)
  PROVE  Grown(routingQueue, routingQueue')
<1> DEFINE e == [mode |-> "blocked", by |-> by]
<1>1. e \in Request /\ e.mode = "blocked" /\ e.by # "opener" /\ routingQueue \in Seq(Request)
  BY DEF Request, Callers, IInv, NativeType
<1>2. routingQueue' = Append(routingQueue, e)
  BY DEF setBrowserRoutingMode
<1> HIDE DEF e
<1>3. /\ routingQueue' \in Seq(Request) /\ Len(routingQueue') = Len(routingQueue) + 1 /\ Len(routingQueue) \in Nat
      /\ routingQueue'[Len(routingQueue) + 1] = e
      /\ \A i \in 1 .. Len(routingQueue) : routingQueue'[i] = routingQueue[i]
  BY <1>1, <1>2
<1>4. \A i \in 1 .. (Len(routingQueue) + 1) : i <= Len(routingQueue) \/ i = Len(routingQueue) + 1
  BY <1>3
<1> QED BY <1>1, <1>3, <1>4 DEF Grown

\* The two requests of a background event.
LEMMA BackgroundAppended ==
  ASSUME IInv, routingQueue' = routingQueue \o <<[mode |-> "blocked", by |-> "nobody"],
                                                [mode |-> "blocked", by |-> "nobody"]>>
  PROVE  Grown(routingQueue, routingQueue')
<1> DEFINE e == [mode |-> "blocked", by |-> "nobody"]
           two == <<e, e>>
<1>1. e \in Request /\ e.mode = "blocked" /\ e.by # "opener" /\ routingQueue \in Seq(Request)
  BY DEF Request, Callers, IInv, NativeType
<1>2. routingQueue' = routingQueue \o two
  OBVIOUS
<1> HIDE DEF e
<1>3. two \in Seq(Request) /\ Len(two) = 2 /\ two[1] = e /\ two[2] = e
  BY <1>1
<1> HIDE DEF two
<1>4. /\ routingQueue' \in Seq(Request) /\ Len(routingQueue') = Len(routingQueue) + Len(two)
      /\ Len(routingQueue) \in Nat
      /\ \A i \in 1 .. (Len(routingQueue) + Len(two)) :
           routingQueue'[i] = IF i <= Len(routingQueue) THEN routingQueue[i] ELSE two[i - Len(routingQueue)]
  BY <1>1, <1>2, <1>3
<1>5. ASSUME NEW i \in 1 .. Len(routingQueue')
      PROVE  \/ i <= Len(routingQueue) /\ routingQueue'[i] = routingQueue[i]
             \/ Len(routingQueue) < i /\ routingQueue'[i] = e
  <2>1. i \in Int /\ (i <= Len(routingQueue) \/ i - Len(routingQueue) = 1 \/ i - Len(routingQueue) = 2)
    BY <1>3, <1>4
  <2> QED BY <1>3, <1>4, <2>1
<1>6. Len(routingQueue') \in Nat /\ Len(routingQueue) < Len(routingQueue')
  BY <1>3, <1>4
<1> QED BY <1>1, <1>4, <1>5, <1>6 DEF Grown

\* Such requests change nothing for the opening call, nor for the one being carried out.
LEMMA GrownKeeps ==
  ASSUME IInv, Grown(routingQueue, routingQueue'), UNCHANGED <<opener, stage, routing>>,
         ans'["opener"] = ans["opener"]
  PROVE  QueueInv' /\ StageInv' /\ routingQueue' \in Seq(Request) /\ 0 < Len(routingQueue')
<1>1. QueueInv'
  BY DEF IInv, QueueInv, Grown
<1>2. StageInv'
  BY DEF IInv, StageInv, Grown
<1> QED BY <1>1, <1>2 DEF Grown

\* The next operation has a number of its own.
LEMMA NextOperation ==
  ASSUME IInv, Event, browserOperation' = browserOperation + 1
  PROVE  /\ events' \in Nat /\ events' <= MaxEvents /\ browserOperation' \in Nat /\ browserOperation' <= events'
         /\ opener.id \in Nat /\ opener.id < browserOperation'
         /\ \A i \in 1 .. Len(io) : io[i].id \in Nat /\ io[i].id < browserOperation' /\ io[i].id <= browserOperation'
<1>1. /\ browserOperation \in Nat /\ events \in Nat /\ browserOperation <= events /\ opener.id \in Nat
      /\ opener.id <= browserOperation
  BY DEF IInv, ScreenType, Opener
<1>2. events' = events + 1 /\ events < MaxEvents /\ MaxEvents \in Nat
  BY AppSessionAssumption DEF Event
<1>3. ASSUME NEW i \in 1 .. Len(io) PROVE io[i].id \in Nat /\ io[i].id <= browserOperation
  <2>1. io[i] \in Call
    BY DEF IInv, NativeType
  <2> QED BY <2>1 DEF IInv, DirectInv, CallInv, Call
<1> QED BY <1>1, <1>2, <1>3

\* The user closes the browser.
LEMMA CloseBrowserStep == ASSUME IInv, closeBrowser PROVE IInv'
<1>1. /\ Event /\ appActive /\ browserOperation' = browserOperation + 1 /\ closer' = "block"
      /\ setBrowserRoutingMode("blocked", "closer") /\ route = "browser"
      /\ UNCHANGED <<route, browserMode, opener, pauser, ans, busyBy, app, conn, stage, routing, io, core, build>>
  BY DEF closeBrowser, Event
<1>2. QueueInv' /\ StageInv' /\ routingQueue' \in Seq(Request)
  BY <1>1, BlockedAppended, GrownKeeps
<1>3. /\ events' \in Nat /\ events' <= MaxEvents /\ browserOperation' \in Nat /\ browserOperation' <= events'
      /\ opener.id \in Nat /\ opener.id < browserOperation'
      /\ \A i \in 1 .. Len(io) : io[i].id <= browserOperation'
  BY <1>1, NextOperation
<1>4. ScreenType'
  BY <1>1, <1>3 DEF IInv, ScreenType
<1>5. ConnType' /\ NativeType'
  BY <1>1, <1>2 DEF IInv, ConnType, NativeType, conn
<1>6. FlagType' /\ appActive'
  BY Zenon, <1>1 DEF IInv, FlagType, app, conn
<1>7. OpenerInv' /\ RoutingInv'
  BY <1>1 DEF IInv, OpenerInv, RoutingInv
<1>8. BackInv'
  BY <1>1, <1>6 DEF IInv, BackInv, OpenerInv
<1>9. DirectInv'
  <2>1. CallInv'
    BY <1>1, <1>3 DEF IInv, DirectInv, CallInv
  <2> QED BY <1>1, <2>1 DEF IInv, DirectInv, DirectRuns, ShowsDirect, ShutdownLast, TornDown, StaysOff, conn
<1> QED BY <1>2, <1>4, <1>5, <1>6, <1>7, <1>8, <1>9 DEF IInv

\* Its continuations: the page goes, then the screen.
LEMMA CloserContinuesStep == ASSUME IInv, closer_continues PROVE IInv'
<1>1. /\ ans' = [ans EXCEPT !["closer"] = "none"] /\ closer' \in {"refresh", "idle"}
      /\ \/ browserMode' = "none" /\ route' = route
         \/ browserMode' = browserMode /\ route' = "home"
      /\ busyBy' \in {"closer", "none", busyBy}
      /\ UNCHANGED <<browserOperation, opener, pauser, app, conn, bridge, io, core, events, build>>
  BY DEF closer_continues, Consume, RunEnds
<1>2. ans' \in [Callers -> {"none", "ok", "err"}] /\ ans'["opener"] = ans["opener"]
  BY <1>1 DEF IInv, ScreenType, Callers
<1>3. ScreenType'
  BY <1>1, <1>2 DEF IInv, ScreenType, Callers
<1>4. ConnType' /\ NativeType'
  BY <1>1 DEF IInv, ConnType, NativeType, conn, bridge
<1>5. FlagType'
  BY Zenon, <1>1 DEF IInv, FlagType, app, conn
<1>6. OpenerInv' /\ RoutingInv'
  BY <1>1, <1>2 DEF IInv, OpenerInv, RoutingInv, bridge
<1>7. QueueInv' /\ StageInv'
  BY <1>1, <1>2 DEF IInv, QueueInv, StageInv, bridge
<1>8. BackInv'
  BY <1>1, <1>2 DEF IInv, BackInv, app, bridge
<1>9. DirectInv'
  BY <1>1, <1>2 DEF IInv, DirectInv, CallInv, DirectRuns, ShowsDirect, ShutdownLast, TornDown, StaysOff, conn
<1> QED BY <1>3, <1>4, <1>5, <1>6, <1>7, <1>8, <1>9 DEF IInv

\* The app goes to the background: the opening call is overtaken, the page is gone.
LEMMA EnterBackgroundStep == ASSUME IInv, enter_background PROVE IInv'
<1>1. /\ Event /\ appActive' = FALSE /\ browserOperation' = browserOperation + 1
      /\ browserMode' = "none" /\ route' = "home" /\ aborted' = (flight # "none")
      /\ UNCHANGED <<opener, closer, pauser, ans, busyBy, resuming, desiredConnected, flight, attempt, startAnswer,
                     stage, routing, io, core, build>>
  BY DEF enter_background, cancelConnectionAttempt, Event
<1>2. QueueInv' /\ StageInv' /\ routingQueue' \in Seq(Request) /\ 0 < Len(routingQueue')
  BY <1>1, BackgroundAppended, GrownKeeps DEF enter_background
<1>3. /\ events' \in Nat /\ events' <= MaxEvents /\ browserOperation' \in Nat /\ browserOperation' <= events'
      /\ opener.id \in Nat /\ opener.id < browserOperation'
      /\ \A i \in 1 .. Len(io) : io[i].id <= browserOperation'
  BY <1>1, NextOperation
<1>4. ScreenType'
  BY <1>1, <1>3 DEF IInv, ScreenType
<1>5. ConnType' /\ NativeType'
  BY <1>1, <1>2 DEF IInv, ConnType, NativeType
<1>6. FlagType' /\ (flight' = "none" \/ aborted')
  BY Zenon, <1>1 DEF IInv, FlagType
<1>7. OpenerInv' /\ RoutingInv'
  BY <1>1 DEF IInv, OpenerInv, RoutingInv
<1>8. opener'.id # browserOperation'
  BY <1>1, <1>3
<1>9. BackInv'
  BY <1>1, <1>2, <1>8 DEF IInv, BackInv
<1>10. DirectInv'
  <2>1. CallInv'
    BY <1>1, <1>3 DEF IInv, DirectInv, CallInv
  <2>2. (DirectRuns' => DirectRuns) /\ (TornDown' => TornDown) /\ (ShutdownLast => ShutdownLast')
    BY <1>1 DEF DirectRuns, ShowsDirect, TornDown, ShutdownLast
  <2> QED BY <1>1, <1>6, <2>1, <2>2 DEF IInv, DirectInv, StaysOff
<1> QED BY <1>2, <1>4, <1>5, <1>6, <1>7, <1>9, <1>10 DEF IInv

\* Returning to the foreground
LEMMA EnterForegroundStep == ASSUME IInv, enter_foreground PROVE IInv'
<1>1. appActive' /\ UNCHANGED <<screen, opener, closer, pauser, ans, busyBy, conn, bridge, io, core, events, build>>
  BY DEF enter_foreground
<1>2. ScreenType' /\ ConnType' /\ NativeType'
  BY <1>1 DEF IInv, ScreenType, ConnType, NativeType, screen, conn, bridge
<1>3. FlagType'
  BY Zenon DEF IInv, FlagType, conn, enter_foreground
<1>4. OpenerInv' /\ RoutingInv' /\ QueueInv' /\ StageInv'
  BY <1>1 DEF IInv, OpenerInv, RoutingInv, QueueInv, StageInv, screen, bridge
<1>5. BackInv'
  BY <1>1 DEF IInv, BackInv, bridge
<1>6. DirectInv'
  BY <1>1, DirectFrame DEF conn
<1> QED BY <1>2, <1>3, <1>4, <1>5, <1>6 DEF IInv

\* The user's disconnect goes on: tunnel, block, stop.
LEMMA PauserContinuesStep == ASSUME IInv, pauser_continues PROVE IInv'
<1>1. /\ ans' = [ans EXCEPT !["pauser"] = "none"] /\ pauser' \in {"block", "stop", "idle"}
      /\ routingQueue' = routingQueue \/ setBrowserRoutingMode("blocked", "pauser")
      /\ busyBy' \in {"none", busyBy}
      /\ UNCHANGED <<screen, opener, closer, app, conn, stage, routing, io, core, events, build>>
  BY DEF pauser_continues, Consume, RunEnds
<1>2. ans' \in [Callers -> {"none", "ok", "err"}] /\ ans'["opener"] = ans["opener"]
  BY <1>1 DEF IInv, ScreenType, Callers
<1>3. QueueInv' /\ StageInv' /\ routingQueue' \in Seq(Request)
      /\ (0 < Len(routingQueue) => 0 < Len(routingQueue'))
  <2>1. CASE routingQueue' = routingQueue
    BY <1>1, <1>2, <2>1 DEF IInv, QueueInv, StageInv, NativeType
  <2>2. CASE setBrowserRoutingMode("blocked", "pauser")
    BY <1>1, <1>2, <2>2, BlockedAppended, GrownKeeps
  <2> QED BY <1>1, <2>1, <2>2
<1>4. ScreenType'
  BY <1>1, <1>2 DEF IInv, ScreenType, screen
<1>5. ConnType' /\ NativeType'
  BY <1>1, <1>3 DEF IInv, ConnType, NativeType, conn
<1>6. FlagType'
  BY Zenon, <1>1 DEF IInv, FlagType, app, conn
<1>7. OpenerInv' /\ RoutingInv'
  BY <1>1, <1>2 DEF IInv, OpenerInv, RoutingInv, screen
<1>8. BackInv'
  BY <1>1, <1>2, <1>3 DEF IInv, BackInv, app, screen
<1>9. DirectInv'
  BY <1>1, <1>2, DirectFrame DEF conn
<1> QED BY <1>3, <1>4, <1>5, <1>6, <1>7, <1>8, <1>9 DEF IInv

-----------------------------------------------------------------------------
(* The opening call.                                                       *)

\* Once it has its answer, and while it waits for something else, no request of its own is
\* in the queue, and all of them close the proxy.
LEMMA OnlyBlocked ==
  ASSUME IInv, ans["opener"] # "none" \/ opener.pc \notin Blocking \cup {"mode"},
         NEW i \in 1 .. Len(routingQueue)
  PROVE  routingQueue[i].by # "opener" /\ routingQueue[i].mode = "blocked"
BY DEF IInv, QueueInv

\* Its next request goes behind them.
LEMMA OwnRequest ==
  ASSUME IInv, ans["opener"] # "none" \/ opener.pc \notin Blocking \cup {"mode"}, ans'["opener"] = "none",
         NEW m \in {"blocked", "masq", "direct"}, setBrowserRoutingMode(m, "opener"),
         opener'.pc \in Blocking \cup {"mode"}, m = IF opener'.pc = "mode" THEN opener'.mode ELSE "blocked",
         UNCHANGED <<stage, routing>>
  PROVE  QueueInv' /\ StageInv' /\ routingQueue' \in Seq(Request)
<1> DEFINE e == [mode |-> m, by |-> "opener"]
           n == Len(routingQueue)
<1>1. e \in Request /\ e.mode = m /\ e.by = "opener" /\ routingQueue \in Seq(Request)
  BY DEF Request, Callers, IInv, NativeType
<1>2. routingQueue' = Append(routingQueue, e)
  BY DEF setBrowserRoutingMode
<1> HIDE DEF e
<1>3. /\ routingQueue' \in Seq(Request) /\ Len(routingQueue') = n + 1 /\ n \in Nat
      /\ routingQueue'[n + 1] = e /\ \A i \in 1 .. n : routingQueue'[i] = routingQueue[i]
  BY <1>1, <1>2
<1>4. \A i \in 1 .. n : routingQueue'[i].by # "opener" /\ routingQueue'[i].mode = "blocked"
  BY <1>3, OnlyBlocked
<1>5. \A i \in 1 .. Len(routingQueue') : i \in 1 .. n \/ i = n + 1
  BY <1>3
<1>6. StageInv'
  BY <1>3 DEF IInv, StageInv
<1> HIDE DEF n
<1>7. QueueInv'
  <2> SUFFICES ASSUME NEW i \in 1 .. Len(routingQueue')
               PROVE  /\ routingQueue'[i].mode # "blocked" => routingQueue'[i].by = "opener"
                      /\ routingQueue'[i].by = "opener" =>
                           /\ ans'["opener"] = "none" /\ opener'.pc \in Blocking \cup {"mode"}
                           /\ routingQueue'[i].mode = IF opener'.pc = "mode" THEN opener'.mode ELSE "blocked"
                           /\ \A j \in 1 .. Len(routingQueue') : routingQueue'[j].by = "opener" => j = i
    BY DEF QueueInv
  <2>1. CASE i \in 1 .. n
    BY <1>4, <2>1
  <2>2. CASE i = n + 1
    BY <1>1, <1>3, <1>4, <1>5, <2>2
  <2> QED BY <1>5, <2>1, <2>2
<1> QED BY <1>3, <1>6, <1>7

\* The types, when the opening call moves.
LEMMA OpenerTypes ==
  ASSUME IInv, opener' \in Opener, opener'.id <= browserOperation,
         route' \in {"home", "browser"}, browserMode' \in {"none", "masq", "direct"},
         ans' = ans \/ ans' = [ans EXCEPT !["opener"] = "none"], busyBy' \in {"opener", "none", busyBy},
         routingQueue' \in Seq(Request), io' \in Seq(Call),
         UNCHANGED <<browserOperation, closer, pauser, app, conn, stage, routing, core, events, build>>
  PROVE  ScreenType' /\ ConnType' /\ NativeType' /\ FlagType'
<1>1. ans' \in [Callers -> {"none", "ok", "err"}]
  BY DEF IInv, ScreenType
<1>2. ScreenType'
  BY <1>1 DEF IInv, ScreenType, Callers
<1>3. ConnType' /\ NativeType'
  BY DEF IInv, ConnType, NativeType, conn
<1>4. FlagType'
  BY Zenon DEF IInv, FlagType, app, conn
<1> QED BY <1>2, <1>3, <1>4

\* It asks for "blocked": before it goes on, or because it has failed or was overtaken.
LEMMA BlockAgainStep ==
  ASSUME IInv, NEW pc \in Blocking, BlockAgain(pc), opener.pc # "idle",
         ans["opener"] # "none" \/ opener.pc = "shutdown", ans'["opener"] = "none",
         ans' = ans \/ ans' = [ans EXCEPT !["opener"] = "none"], busyBy' \in {"opener", "none", busyBy},
         pc = "dblock" => opener.pc = "tunnel",
         pc = "block" => opener.pc = "shutdown" /\ ans["opener"] = "ok",
         UNCHANGED <<route, browserMode>>,
         UNCHANGED <<browserOperation, closer, pauser, app, conn, stage, routing, core, events, build>>
  PROVE  IInv'
<1>1. /\ opener' \in Opener /\ opener'.pc = pc /\ opener'.mode = opener.mode /\ opener'.id = opener.id
      /\ opener'.id <= browserOperation
  BY DEF BlockAgain, IInv, ScreenType, Opener, Blocking
<1>2. setBrowserRoutingMode("blocked", "opener") /\ io' = io
  BY DEF BlockAgain
<1>3. pc # "mode" /\ opener'.pc \in Blocking \cup {"mode"}
  BY <1>1 DEF Blocking
<1>4. ans["opener"] # "none" \/ opener.pc \notin Blocking \cup {"mode"}
  BY DEF Blocking
<1>5. QueueInv' /\ StageInv' /\ routingQueue' \in Seq(Request)
  BY <1>1, <1>2, <1>3, <1>4, OwnRequest
<1>6. ScreenType' /\ ConnType' /\ NativeType' /\ FlagType'
  <2>1. io' \in Seq(Call) /\ route' \in {"home", "browser"} /\ browserMode' \in {"none", "masq", "direct"}
    BY <1>2 DEF IInv, NativeType, ScreenType
  <2> QED BY <1>1, <1>5, <2>1, OpenerTypes
<1>7. OpenerInv' /\ RoutingInv'
  BY <1>1 DEF IInv, OpenerInv, RoutingInv, Blocking
<1>8. BackInv'
  BY <1>1 DEF IInv, BackInv, app, Blocking
<1>9. DirectInv'
  <2>1. CallInv'
    BY <1>1, <1>2 DEF IInv, DirectInv, CallInv, Blocking
  <2>2. (DirectRuns' => DirectRuns) /\ (TornDown' => TornDown) /\ ShutdownLast'
    BY <1>1 DEF IInv, OpenerInv, DirectRuns, ShowsDirect, TornDown, ShutdownLast, Blocking
  <2> QED BY <1>2, <2>1, <2>2 DEF IInv, DirectInv, StaysOff, conn
<1> QED BY <1>5, <1>6, <1>7, <1>8, <1>9 DEF IInv

\* What a continuation of the opening call leaves alone.
Continues ==
  /\ ans["opener"] # "none" /\ ans' = [ans EXCEPT !["opener"] = "none"] /\ busyBy' \in {"opener", "none", busyBy}
  /\ UNCHANGED <<browserOperation, closer, pauser, app, conn, stage, routing, core, events, build>>

\* The answer is consumed.
LEMMA Consumed == ASSUME IInv, Continues PROVE ans'["opener"] = "none" /\ opener.pc # "idle"
BY DEF Continues, IInv, ScreenType, OpenerInv, Callers

\* It calls another native function.
LEMMA CallNextStep ==
  ASSUME IInv, Continues, NEW pc, CallNext(pc), UNCHANGED <<route, browserMode>>,
         \/ opener.pc = "dblock" /\ pc = "stop"
         \/ opener.pc = "mode" /\ ans["opener"] = "ok" /\ opener.mode = "masq" /\ pc = "preflight"
         \/ opener.pc = "preflight" /\ pc = "refresh"
  PROVE  IInv'
<1>1. /\ opener' \in Opener /\ opener'.pc = pc /\ opener'.mode = opener.mode /\ opener'.id = opener.id
      /\ opener'.id <= browserOperation
  BY DEF CallNext, IInv, ScreenType, Opener
<1>2. UNCHANGED <<routingQueue, io, browserOperation, stage, routing, core, build>>
  BY DEF CallNext, Continues
<1>3. ScreenType' /\ ConnType' /\ NativeType' /\ FlagType'
  <2>1. /\ io' \in Seq(Call) /\ routingQueue' \in Seq(Request)
        /\ route' \in {"home", "browser"} /\ browserMode' \in {"none", "masq", "direct"}
    BY <1>2 DEF IInv, NativeType, ScreenType
  <2> QED BY <1>1, <2>1, OpenerTypes DEF Continues
<1>4. OpenerInv' /\ RoutingInv'
  BY SMTT(30), <1>1, <1>2 DEF IInv, OpenerInv, RoutingInv
<1>5. QueueInv' /\ StageInv'
  BY <1>2, OnlyBlocked DEF IInv, QueueInv, StageInv, Continues
<1>6. BackInv'
  BY <1>1, <1>2 DEF IInv, BackInv, Continues, app
<1>7. DirectInv'
  <2>1. CallInv'
    BY SMTT(30), <1>1, <1>2 DEF IInv, DirectInv, CallInv
  <2>2. (DirectRuns' => DirectRuns) /\ ~TornDown' /\ ShutdownLast'
    BY <1>1 DEF IInv, OpenerInv, DirectRuns, ShowsDirect, TornDown, ShutdownLast
  <2> QED BY <1>2, <2>1, <2>2 DEF IInv, DirectInv, Continues, conn
<1> QED BY <1>3, <1>4, <1>5, <1>6, <1>7 DEF IInv

\* openDirectBrowser queues its shutdown: nothing that waits carries its number.
LEMMA ShutdownQueued ==
  ASSUME IInv, Continues, opener.pc = "stop", opener' = [opener EXCEPT !.pc = "shutdown"],
         io' = Append(io, [call |-> "shutdown", id |-> opener.id]), UNCHANGED <<route, browserMode, routingQueue>>
  PROVE  IInv'
<1>1. /\ opener' \in Opener /\ opener'.pc = "shutdown" /\ opener'.mode = opener.mode /\ opener'.id = opener.id
      /\ opener'.id <= browserOperation /\ opener.id \in Nat
  BY DEF IInv, ScreenType, Opener
<1>2. UNCHANGED <<browserOperation, stage, routing, core, build>> /\ ans'["opener"] = "none"
  BY Consumed DEF Continues
<1> DEFINE e == [call |-> "shutdown", id |-> opener.id]
           n == Len(io)
<1>3. e \in Call /\ e.call = "shutdown" /\ e.id = opener.id /\ io \in Seq(Call)
  BY <1>1 DEF Call, IInv, NativeType
<1> HIDE DEF e
<1>4. /\ io' \in Seq(Call) /\ Len(io') = n + 1 /\ n \in Nat
      /\ io'[n + 1] = e /\ \A i \in 1 .. n : io'[i] = io[i]
  BY <1>3 DEF e
<1>5. \A i \in 1 .. Len(io') : i \in 1 .. n \/ i = n + 1
  BY <1>4
<1>6. \A i \in 1 .. n : io'[i].id <= browserOperation /\ (io'[i].call = "start" => io'[i].id = 0)
                        /\ io'[i].id # opener.id
  BY <1>4 DEF IInv, DirectInv, CallInv
<1>7. ScreenType' /\ ConnType' /\ NativeType' /\ FlagType'
  <2>1. routingQueue' \in Seq(Request) /\ route' \in {"home", "browser"} /\ browserMode' \in {"none", "masq", "direct"}
    BY DEF IInv, NativeType, ScreenType
  <2> QED BY <1>1, <1>4, <2>1, OpenerTypes DEF Continues
<1>8. OpenerInv' /\ RoutingInv'
  BY <1>1, <1>2 DEF IInv, OpenerInv, RoutingInv
<1>9. QueueInv' /\ StageInv'
  BY <1>2, OnlyBlocked DEF IInv, QueueInv, StageInv, Continues
<1>10. BackInv'
  BY <1>1, <1>2 DEF IInv, BackInv, Continues, app
<1>11. DirectInv'
  <2> HIDE DEF n
  <2>1. CallInv'
    BY <1>1, <1>2, <1>3, <1>4, <1>5, <1>6 DEF CallInv
  <2>2. ASSUME NEW i \in 1 .. Len(io'), NEW j \in 1 .. Len(io'), i < j PROVE io'[i].id # opener.id
    BY <1>4, <1>5, <1>6, <2>2
  <2>3. ShutdownLast'
    BY <1>1, <2>2 DEF ShutdownLast
  <2>4. (DirectRuns' => DirectRuns) /\ ~TornDown'
    BY <1>1, <1>2 DEF IInv, OpenerInv, DirectRuns, ShowsDirect, TornDown
  <2> QED BY <1>2, <2>1, <2>3, <2>4 DEF IInv, DirectInv, Continues, conn
<1> QED BY <1>7, <1>8, <1>9, <1>10, <1>11 DEF IInv

\* prepareBrowserSession asks for the mode.
LEMMA ModeAsked ==
  ASSUME IInv, Continues, opener.pc = "block", opener' = [opener EXCEPT !.pc = "mode"],
         setBrowserRoutingMode(opener.mode, "opener"), UNCHANGED <<route, browserMode, io>>
  PROVE  IInv'
<1>1. /\ opener' \in Opener /\ opener'.pc = "mode" /\ opener'.mode = opener.mode /\ opener'.id = opener.id
      /\ opener'.id <= browserOperation /\ opener.mode \in {"masq", "direct"}
  BY DEF IInv, ScreenType, Opener, OpenerInv
<1>2. UNCHANGED <<browserOperation, stage, routing, core, build>> /\ ans'["opener"] = "none"
      /\ ans["opener"] # "none"
  BY Consumed DEF Continues
<1>3. QueueInv' /\ StageInv' /\ routingQueue' \in Seq(Request)
  BY <1>1, <1>2, OwnRequest
<1>4. ScreenType' /\ ConnType' /\ NativeType' /\ FlagType'
  <2>1. io' \in Seq(Call) /\ route' \in {"home", "browser"} /\ browserMode' \in {"none", "masq", "direct"}
    BY DEF IInv, NativeType, ScreenType
  <2> QED BY <1>1, <1>3, <2>1, OpenerTypes DEF Continues
<1>5. OpenerInv' /\ RoutingInv'
  BY <1>1, <1>2 DEF IInv, OpenerInv, RoutingInv
<1>6. BackInv'
  BY <1>1, <1>2 DEF IInv, BackInv, Continues, app
<1>7. DirectInv'
  <2>1. CallInv'
    BY <1>1, <1>2 DEF IInv, DirectInv, CallInv
  <2>2. (DirectRuns' => DirectRuns) /\ (TornDown' => TornDown) /\ ShutdownLast'
    BY <1>1 DEF DirectRuns, ShowsDirect, TornDown, ShutdownLast
  <2> QED BY <1>2, <2>1, <2>2 DEF IInv, DirectInv, StaysOff, Continues, conn
<1> QED BY <1>3, <1>4, <1>5, <1>6, <1>7 DEF IInv

\* The call comes back: with the page, or without.
LEMMA OpenerReturns ==
  ASSUME IInv, Continues, opener' = Idle, UNCHANGED <<routingQueue, io>>,
         \/ /\ ShowBrowser /\ opener.id = browserOperation
            /\ opener.pc = "refresh" \/ (opener.pc = "mode" /\ ans["opener"] = "ok")
         \/ opener.pc \in {"fail", "cancel"} /\ route' = route /\ browserMode' \in {"none", browserMode}
  PROVE  IInv'
<1>1. opener'.pc = "idle" /\ opener'.mode = "none" /\ opener'.id = 0 /\ opener' \in Opener
  BY DEF Idle, Opener
<1>2. UNCHANGED <<browserOperation, stage, routing, core, build>> /\ ans'["opener"] = "none"
      /\ opener.pc # "idle" /\ route = "home"
  BY Consumed DEF Continues, IInv, OpenerInv
<1>3. ScreenType' /\ ConnType' /\ NativeType' /\ FlagType'
  <2>1. /\ io' \in Seq(Call) /\ routingQueue' \in Seq(Request) /\ 0 <= browserOperation
        /\ route' \in {"home", "browser"} /\ browserMode' \in {"none", "masq", "direct"}
    BY DEF IInv, NativeType, ScreenType, Opener, ShowBrowser
  <2> QED BY <1>1, <2>1, OpenerTypes DEF Continues
<1>4. OpenerInv'
  BY <1>1, <1>2 DEF OpenerInv
<1>5. RoutingInv'
  BY SMTT(30), <1>1, <1>2 DEF IInv, RoutingInv, ShowBrowser
<1>6. QueueInv' /\ StageInv'
  BY <1>2, OnlyBlocked DEF IInv, QueueInv, StageInv, Continues
<1>7. BackInv'
  BY SMTT(30), <1>1, <1>2 DEF IInv, BackInv, Continues, app
<1>8. DirectInv'
  <2>1. CallInv'
    BY <1>1, <1>2 DEF IInv, DirectInv, CallInv
  <2>2. (DirectRuns' => DirectRuns) /\ (TornDown' => TornDown) /\ ShutdownLast'
    BY <1>1, <1>2 DEF IInv, OpenerInv, DirectRuns, ShowsDirect, TornDown, ShutdownLast, ShowBrowser
  <2> QED BY <1>2, <2>1, <2>2 DEF IInv, DirectInv, StaysOff, Continues, conn
<1> QED BY <1>3, <1>4, <1>5, <1>6, <1>7, <1>8 DEF IInv

\* The continuations of open*Browser, await by await.
LEMMA OpenerContinuesStep == ASSUME IInv, opener_continues PROVE IInv'
<1>1. Continues
  BY DEF opener_continues, Continues, Consume, RunEnds
<1>2. ans'["opener"] = "none" /\ opener.pc # "idle"
  BY <1>1, Consumed
<1>3. ASSUME NEW pc \in Blocking, BlockAgain(pc), UNCHANGED <<route, browserMode>>,
             pc = "dblock" => opener.pc = "tunnel",
             pc = "block" => opener.pc = "shutdown" /\ ans["opener"] = "ok"
      PROVE  IInv'
  BY <1>1, <1>2, <1>3, BlockAgainStep DEF Continues
<1>4. CASE opener.pc = "tunnel"
  BY <1>3, <1>4 DEF opener_continues, Blocking
<1>5. CASE opener.pc = "dblock"
  BY <1>1, <1>5, CallNextStep DEF opener_continues
<1>6. CASE opener.pc = "stop"
  BY <1>1, <1>3, <1>6, ShutdownQueued DEF opener_continues, Blocking
<1>7. CASE opener.pc = "shutdown"
  BY <1>3, <1>7 DEF opener_continues, prepareBrowserSession, Blocking
<1>8. CASE opener.pc = "block"
  BY <1>1, <1>3, <1>8, ModeAsked DEF opener_continues, Blocking
<1>9. CASE opener.pc = "mode"
  <2>1. CASE ShowBrowser /\ ans["opener"] = "ok" /\ ~Stale
    BY <1>1, <1>9, <2>1, OpenerReturns DEF ShowBrowser, Stale
  <2>2. CASE CallNext("preflight") /\ ans["opener"] = "ok" /\ opener.mode = "masq" /\ UNCHANGED <<route, browserMode>>
    BY <1>1, <1>9, <2>2, CallNextStep
  <2>3. CASE (BlockAgain("unblock") \/ BlockAgain("cancel")) /\ UNCHANGED <<route, browserMode>>
    BY <1>3, <2>3 DEF Blocking
  <2> QED BY <1>9, <2>1, <2>2, <2>3 DEF opener_continues
<1>10. CASE opener.pc = "preflight"
  BY <1>1, <1>3, <1>10, CallNextStep DEF opener_continues, Blocking
<1>11. CASE opener.pc = "refresh"
  <2>1. CASE ShowBrowser /\ ~Stale
    BY <1>1, <1>11, <2>1, OpenerReturns DEF ShowBrowser, Stale
  <2>2. CASE (BlockAgain("fail") \/ BlockAgain("cancel")) /\ UNCHANGED <<route, browserMode>>
    BY <1>3, <2>2 DEF Blocking
  <2> QED BY <1>11, <2>1, <2>2 DEF opener_continues
<1>12. CASE opener.pc = "unblock"
  BY <1>3, <1>12 DEF opener_continues, Blocking
<1>13. CASE opener.pc \in {"fail", "cancel"}
  <2>1. opener' = Idle /\ UNCHANGED <<routingQueue, io>> /\ route' = route /\ browserMode' \in {"none", browserMode}
    BY <1>13 DEF opener_continues
  <2> QED BY <1>1, <1>13, <2>1, OpenerReturns
<1> QED BY <1>4, <1>5, <1>6, <1>7, <1>8, <1>9, <1>10, <1>11, <1>12, <1>13 DEF opener_continues

\* withTimeout gives up; the shutdown stays queued.
LEMMA ShutdownTimeoutStep == ASSUME IInv, shutdown_timeout PROVE IInv'
BY BlockAgainStep DEF shutdown_timeout, Blocking, screen

\* openMasqBrowser and openDirectBrowser begin over an idle home screen.
LEMMA OpenMasqStep == ASSUME IInv, openMasqBrowser PROVE IInv'
<1>1. /\ Event /\ opener.pc = "idle" /\ route = "home" /\ appActive /\ browserOperation' = browserOperation + 1
      /\ opener' = [pc |-> "block", mode |-> "masq", id |-> browserOperation + 1]
      /\ setBrowserRoutingMode("blocked", "opener")
      /\ UNCHANGED <<route, browserMode, closer, pauser, ans, busyBy, app, conn, stage, routing, io, core, build>>
  BY DEF openMasqBrowser, Event, busy, browserOpenInFlight
<1>2. /\ events' \in Nat /\ events' <= MaxEvents /\ browserOperation' \in Nat /\ browserOperation' <= events'
      /\ \A i \in 1 .. Len(io) : io[i].id <= browserOperation'
  BY <1>1, NextOperation
<1>3. opener'.pc = "block" /\ opener'.mode = "masq" /\ opener'.id = browserOperation'
  BY <1>1
<1>4. opener' \in Opener
  BY <1>1, <1>2 DEF Opener
<1>5. ans'["opener"] = "none"
  BY <1>1 DEF IInv, OpenerInv
<1>6. QueueInv' /\ StageInv' /\ routingQueue' \in Seq(Request)
  BY <1>1, <1>3, <1>5, OwnRequest DEF Blocking
<1>7. ScreenType'
  BY <1>1, <1>2, <1>3, <1>4 DEF IInv, ScreenType
<1>8. ConnType' /\ NativeType'
  BY <1>1, <1>6 DEF IInv, ConnType, NativeType, conn
<1>9. FlagType' /\ appActive'
  BY Zenon, <1>1 DEF IInv, FlagType, app, conn
<1>10. OpenerInv' /\ RoutingInv'
  BY <1>1, <1>3, <1>2 DEF IInv, OpenerInv, RoutingInv, ScreenType
<1>11. BackInv'
  BY <1>3, <1>9 DEF BackInv
<1>12. DirectInv'
  <2>1. CallInv'
    <3>1. io' = io
      BY <1>1
    <3>2. \A i \in 1 .. Len(io) : io[i].call = "start" => io[i].id = 0
      BY Zenon DEF IInv, DirectInv, CallInv
    <3>3. \A i \in 1 .. Len(io') : io'[i].id <= browserOperation' /\ (io'[i].call = "start" => io'[i].id = 0)
      BY Zenon, <3>1, <3>2, <1>2
    <3>4. opener'.pc \notin {"tunnel", "dblock", "stop"}
      BY <1>3
    <3> QED BY Zenon, <3>3, <3>4 DEF CallInv
  <2>2. ~DirectRuns' /\ ~TornDown' /\ ShutdownLast'
    BY <1>1, <1>3 DEF DirectRuns, ShowsDirect, TornDown, ShutdownLast
  <2> QED BY SMTT(30), <2>1, <2>2 DEF DirectInv
<1> QED BY <1>6, <1>7, <1>8, <1>9, <1>10, <1>11, <1>12 DEF IInv

\* openDirectBrowser begins from the home screen and gives up the connection flight
LEMMA OpenDirectStep == ASSUME IInv, openDirectBrowser PROVE IInv'
<1>1. /\ Event /\ opener.pc = "idle" /\ route = "home" /\ appActive /\ browserOperation' = browserOperation + 1
      /\ opener' = [pc |-> "tunnel", mode |-> "direct", id |-> browserOperation + 1]
      /\ desiredConnected' = FALSE /\ aborted' = (flight # "none") /\ busyBy' = "opener"
      /\ UNCHANGED <<route, browserMode, closer, pauser, ans, app, flight, attempt, startAnswer, bridge, io, core, build>>
  BY SMTT(30) DEF openDirectBrowser, cancelConnectionAttempt, Event, busy, browserOpenInFlight
<1>2. /\ events' \in Nat /\ events' <= MaxEvents /\ browserOperation' \in Nat /\ browserOperation' <= events'
      /\ \A i \in 1 .. Len(io) : io[i].id \in Nat /\ io[i].id < browserOperation' /\ io[i].id <= browserOperation'
  BY Zenon, <1>1, NextOperation
<1>3. opener'.pc = "tunnel" /\ opener'.mode = "direct" /\ opener'.id = browserOperation'
  BY <1>1
<1>4. opener' \in Opener
  BY <1>1, <1>2 DEF Opener
<1>5. ScreenType'
  BY <1>1, <1>2, <1>3, <1>4 DEF IInv, ScreenType, Callers
<1>6. ConnType' /\ NativeType'
  BY <1>1 DEF IInv, ConnType, NativeType, bridge
<1>7. FlagType' /\ appActive' /\ ~desiredConnected' /\ (flight' = "none" \/ aborted')
  BY Zenon, <1>1 DEF IInv, FlagType, app
<1>8. OpenerInv' /\ RoutingInv'
  BY SMTT(30), <1>1, <1>2, <1>3 DEF IInv, OpenerInv, RoutingInv, ScreenType, bridge
<1>9. QueueInv' /\ StageInv'
  BY <1>1, OnlyBlocked DEF IInv, QueueInv, StageInv, Blocking, bridge
<1>10. BackInv'
  BY <1>3, <1>7 DEF BackInv
<1>11. DirectInv'
  <2>1. CallInv'
    BY <1>1, <1>2, <1>3 DEF IInv, DirectInv, CallInv
  <2>2. ~TornDown' /\ ShutdownLast'
    BY <1>1, <1>3 DEF ShowsDirect, TornDown, ShutdownLast
  <2> QED BY SMTT(30), <1>7, <2>1, <2>2 DEF DirectInv
<1> QED BY SMTT(30), <1>5, <1>6, <1>7, <1>8, <1>9, <1>10, <1>11 DEF IInv

-----------------------------------------------------------------------------
(* The routing requests are carried out.                                   *)

\* What a routing step leaves alone.
RoutingOnly == UNCHANGED <<screen, opener, closer, pauser, busyBy, app, conn, io, core, events, build>>

\* The sink is installed, or was before.
LEMMA SinkStep ==
  ASSUME IInv, RoutingOnly, UNCHANGED <<routingQueue, ans>>, routing' = "blocked", routingQueue # <<>>,
         \/ stage' = "clear" /\ Head(routingQueue).mode \in {"blocked", "masq"}
         \/ stage' = "open" /\ Head(routingQueue).mode = "masq"
  PROVE  IInv'
<1>1. Head(routingQueue) = routingQueue[1] /\ 0 < Len(routingQueue)
  BY TailProperties DEF IInv, NativeType
<1>2. ScreenType' /\ ConnType' /\ NativeType'
  BY DEF RoutingOnly, IInv, ScreenType, ConnType, NativeType, screen, conn
<1>3. FlagType'
  BY Zenon DEF RoutingOnly, IInv, FlagType, app, conn
<1>4. OpenerInv' /\ RoutingInv'
  BY DEF RoutingOnly, IInv, OpenerInv, RoutingInv, screen
<1>5. QueueInv'
  BY DEF RoutingOnly, IInv, QueueInv
<1>6. StageInv'
  BY <1>1 DEF StageInv
<1>7. BackInv'
  BY DEF RoutingOnly, IInv, BackInv, app, screen
<1>8. DirectInv'
  BY DirectFrame DEF RoutingOnly, conn
<1> QED BY <1>2, <1>3, <1>4, <1>5, <1>6, <1>7, <1>8 DEF IInv

\* A request is finished: it opens the proxy only for the call that waits for it.
LEMMA FinishStep ==
  ASSUME IInv, RoutingOnly, routingQueue # <<>>, NEW a \in {"ok", "err"}, Finish(a),
         routing' \in {routing, "blocked", Head(routingQueue).mode},
         a = "ok" => routing' = Head(routingQueue).mode,
         ~build.mayFail /\ Head(routingQueue).mode = "blocked" => routing' = "blocked"
  PROVE  IInv'
<1> DEFINE h == routingQueue[1]
<1>1. /\ 0 < Len(routingQueue) /\ Head(routingQueue) = h /\ h \in Request /\ Len(routingQueue) \in Nat
      /\ routingQueue' \in Seq(Request) /\ Len(routingQueue') = Len(routingQueue) - 1
      /\ \A j \in 1 .. (Len(routingQueue) - 1) : routingQueue'[j] = routingQueue[j + 1]
  BY TailProperties DEF IInv, NativeType, Finish
<1>2. stage' = "idle" /\ ans' = IF h.by = "nobody" THEN ans ELSE [ans EXCEPT ![h.by] = a]
  BY <1>1 DEF Finish, NativeAnswer
<1>3. /\ h.mode # "blocked" => h.by = "opener"
      /\ h.by = "opener" =>
           /\ ans["opener"] = "none" /\ opener.pc \in Blocking \cup {"mode"}
           /\ h.mode = IF opener.pc = "mode" THEN opener.mode ELSE "blocked"
           /\ \A j \in 1 .. Len(routingQueue) : routingQueue[j].by = "opener" => j = 1
  BY <1>1 DEF IInv, QueueInv
<1>4. h.mode \in {"blocked", "masq", "direct"} /\ h.by \in Callers \cup {"nobody"}
  BY <1>1 DEF Request
<1>5. ans' \in [Callers -> {"none", "ok", "err"}] /\ (h.by = "opener" => ans'["opener"] = a)
      /\ (h.by # "opener" => ans'["opener"] = ans["opener"])
  BY <1>2, <1>4 DEF IInv, ScreenType, Callers
<1>6. /\ routing' \in {routing, "blocked", h.mode} /\ (a = "ok" => routing' = h.mode)
      /\ (~build.mayFail /\ h.mode = "blocked" => routing' = "blocked")
  BY <1>1
<1>7. \A j \in 1 .. Len(routingQueue') : j + 1 \in 1 .. Len(routingQueue) /\ j + 1 # 1
                                         /\ routingQueue'[j] = routingQueue[j + 1]
  BY SMTT(30), <1>1
<1> HIDE DEF h
<1>8. ScreenType' /\ ConnType' /\ NativeType'
  BY <1>1, <1>2, <1>4, <1>5, <1>6 DEF RoutingOnly, IInv, ScreenType, ConnType, NativeType, screen, conn
<1>9. FlagType'
  BY Zenon DEF RoutingOnly, IInv, FlagType, app, conn
<1>10. OpenerInv'
  BY <1>3, <1>5 DEF RoutingOnly, IInv, OpenerInv, screen, Blocking
<1>11. RoutingInv'
  <2>1. CASE h.by = "opener"
    BY <1>3, <1>5, <1>6, <2>1 DEF RoutingOnly, IInv, OpenerInv, RoutingInv, screen, Blocking
  <2>2. CASE h.by # "opener"
    BY <1>3, <1>5, <1>6, <2>2 DEF RoutingOnly, IInv, RoutingInv, screen
  <2> QED BY <2>1, <2>2
<1>12. QueueInv'
  <2>1. CASE h.by = "opener"
    <3>1. \A j \in 1 .. Len(routingQueue') : routingQueue'[j].by # "opener"
      BY <1>3, <1>7, <2>1
    <3>2. \A j \in 1 .. Len(routingQueue') : routingQueue'[j].mode # "blocked" => routingQueue'[j].by = "opener"
      BY <1>7 DEF IInv, QueueInv
    <3> QED BY <3>1, <3>2 DEF QueueInv
  <2>2. CASE h.by # "opener"
    <3>1. opener' = opener /\ ans'["opener"] = ans["opener"]
      BY <1>5, <2>2 DEF RoutingOnly
    <3>2. ASSUME NEW j \in 1 .. Len(routingQueue'), NEW k \in 1 .. Len(routingQueue'), j + 1 = k + 1 PROVE j = k
      BY <1>1, <3>2
    <3> QED BY <1>7, <3>1, <3>2 DEF IInv, QueueInv
  <2> QED BY <2>1, <2>2
<1>13. StageInv'
  BY <1>2 DEF StageInv
<1>14. BackInv'
  <2>1. CASE h.by = "opener"
    BY <1>3, <1>5, <1>6, <2>1 DEF RoutingOnly, IInv, BackInv, app, screen, Blocking
  <2>2. CASE h.by # "opener"
    BY SMTT(30), <1>3, <1>5, <1>6, <2>2 DEF RoutingOnly, IInv, BackInv, app, screen
  <2> QED BY <2>1, <2>2
<1>15. DirectInv'
  <2>1. ans'["opener"] = ans["opener"] \/ opener.pc # "shutdown"
    BY <1>3, <1>5 DEF Blocking
  <2> QED BY <2>1 DEF RoutingOnly, IInv, DirectInv, CallInv, DirectRuns, ShowsDirect, ShutdownLast, TornDown, StaysOff,
                      screen, conn
<1> QED BY <1>8, <1>9, <1>10, <1>11, <1>12, <1>13, <1>14, <1>15 DEF IInv

\* Android: the override, the website data, then the mode.
LEMMA AndroidRoutingStep == ASSUME IInv, android_routing PROVE IInv'
<1>1. RoutingOnly /\ routingQueue # <<>>
  BY DEF android_routing, RoutingOnly
<1>2. stage # "idle" => routing = "blocked" /\ (stage = "open" => Head(routingQueue).mode = "masq")
  BY <1>1, TailProperties DEF IInv, StageInv, NativeType
<1>3. CASE install_blocked
  BY <1>1, <1>3, SinkStep, FinishStep DEF install_blocked
<1>4. CASE clear_website_data
  BY <1>1, <1>2, <1>4, SinkStep, FinishStep DEF clear_website_data
<1>5. CASE apply_masq
  BY <1>1, <1>2, <1>5, FinishStep DEF apply_masq
<1>6. CASE apply_direct
  BY <1>1, <1>6, FinishStep DEF apply_direct
<1> QED BY <1>3, <1>4, <1>5, <1>6 DEF android_routing

\* iOS: one block on the main queue.
LEMMA IosRoutingStep == ASSUME IInv, ios_routing PROVE IInv'
<1>1. RoutingOnly /\ routingQueue # <<>>
  BY DEF ios_routing, RoutingOnly
<1>2. \/ routing' = Head(routingQueue).mode /\ Finish("ok")
      \/ routing' = "blocked" /\ Finish("err")
  BY Zenon DEF ios_routing
<1> QED BY <1>1, <1>2, FinishStep

-----------------------------------------------------------------------------
(* The theorems.                                                           *)

\* A step that changes nothing.
LEMMA StutterStep == ASSUME IInv, UNCHANGED sessionVars PROVE IInv'
<1>1. UNCHANGED <<screen, opener, closer, pauser, ans, busyBy, app, conn, bridge, io, core, events, build>>
  BY DEF sessionVars
<1>2. ScreenType' /\ ConnType' /\ NativeType'
  BY <1>1 DEF IInv, ScreenType, ConnType, NativeType, screen, conn, bridge
<1>3. FlagType'
  BY Zenon, <1>1 DEF IInv, FlagType, app, conn
<1>4. DirectInv'
  BY <1>1, DirectFrame DEF conn
<1> QED BY <1>1, <1>2, <1>3, <1>4, QuietStep DEF app

\* Every step keeps the invariant.
LEMMA StepInv == ASSUME IInv, [SessionNext]_sessionVars PROVE IInv'
<1>1. CASE UNCHANGED sessionVars
  BY <1>1, StutterStep
<1>2. CASE openMasqBrowser \/ openDirectBrowser \/ closeBrowser
  BY <1>2, OpenMasqStep, OpenDirectStep, CloseBrowserStep
<1>3. CASE enter_background \/ enter_foreground \/ pollNetwork
  BY <1>3, EnterBackgroundStep, EnterForegroundStep, PollNetworkStep
<1>4. CASE press_connect \/ disconnect \/ shutdown_timeout \/ core_evolves
  BY <1>4, PressConnectStep, DisconnectStep, ShutdownTimeoutStep, CoreEvolvesStep
<1>5. CASE JavaScript
  BY <1>5, OpenerContinuesStep, CloserContinuesStep, PauserContinuesStep, ResumeStep, FlightStartedStep,
     FlightPollsStep, FlightRetriesStep DEF JavaScript
<1>6. CASE Native
  <2>1. CASE \E p \in Callers : native_answers(p) \/ native_stop(p)
    BY <2>1, NativeAnswersStep
  <2>2. CASE \E i \in Runnable : native_start(i) \/ native_shutdown(i)
    BY <2>2, NativeStartStep, NativeShutdownStep
  <2>3. CASE android_routing \/ ios_routing
    BY <2>3, AndroidRoutingStep, IosRoutingStep
  <2> QED BY <1>6, <2>1, <2>2, <2>3 DEF Native
<1> QED BY <1>1, <1>2, <1>3, <1>4, <1>5, <1>6 DEF SessionNext

\* A page is shown only while its traffic goes where the screen says, or nowhere, and on
\* Android no queued start reaches the core under a Direct page: for any number of
\* attempts and events, whatever fails, in a session whose error banner offers no retry
\* while a browser is being opened (open*Browser, setBrowserRoutingMode, ioExecutor).
\* With the retry button the Direct half is false (AppSessionDirectStopsMesh.cfg).
THEOREM PagesAreSafe == ASSUME ~RetryOffered PROVE SessionSpec => []PagesGoWhereShown
<1>1. SessionInit => IInv
  BY InitInv
<1>2. IInv /\ [SessionNext]_sessionVars => IInv'
  BY StepInv
<1>3. IInv => PagesGoWhereShown
  BY DEF IInv, RoutingInv, DirectInv, TornDown, ShowsDirect, StaysOff, PagesGoWhereShown
<1> QED BY <1>1, <1>2, <1>3, PTL DEF SessionSpec

\* "Backgrounding always selects blocked": with every button of the screen, on both
\* platforms and however many openings were overtaken (enter_background).
THEOREM BackgroundBlocks == SessionSpec => []BackgroundMeansBlocked
<1>1. SessionInit => IInv
  BY InitInv
<1>2. IInv /\ [SessionNext]_sessionVars => IInv'
  BY StepInv
<1>3. IInv => BackgroundMeansBlocked
  <2>1. routingQueue = <<>> => ~(0 < Len(routingQueue))
    BY SMTT(30)
  <2> QED BY <2>1 DEF IInv, BackInv, BackgroundMeansBlocked
<1> QED BY <1>1, <1>2, <1>3, PTL DEF SessionSpec

\* Every variable stays in its domain, and no retry goes beyond the attempts.
THEOREM TypedSession == SessionSpec => []SessionTypeOK
<1>1. SessionInit => IInv
  BY InitInv
<1>2. IInv /\ [SessionNext]_sessionVars => IInv'
  BY StepInv
<1>3. IInv => SessionTypeOK
  <2> SUFFICES ASSUME IInv PROVE SessionTypeOK
    OBVIOUS
  <2>1. \A i \in DOMAIN routingQueue : /\ routingQueue[i].mode \in {"blocked", "masq", "direct"}
                                       /\ routingQueue[i].by \in Callers \cup {"nobody"}
    <3>1. routingQueue \in Seq(Request) /\ DOMAIN routingQueue = 1 .. Len(routingQueue)
      BY DEF IInv, NativeType
    <3>2. \A i \in DOMAIN routingQueue : routingQueue[i] \in Request
      BY <3>1
    <3> QED BY <3>2 DEF Request
  <2>2. browserOperation \in 0 .. MaxEvents /\ events \in 0 .. MaxEvents /\ opener.id \in 0 .. MaxEvents
    BY AppSessionAssumption DEF IInv, ScreenType, Opener
  <2>3. appActive \in BOOLEAN /\ resuming \in BOOLEAN /\ desiredConnected \in BOOLEAN /\ aborted \in BOOLEAN
    BY Zenon DEF IInv, FlagType
  <2>4. /\ opener.pc \in {"idle", "tunnel", "dblock", "stop", "shutdown", "block", "mode",
                         "preflight", "refresh", "unblock", "fail", "cancel"}
        /\ opener.mode \in {"none", "masq", "direct"}
    BY DEF IInv, ScreenType, Opener
  <2> QED BY <2>1, <2>2, <2>3, <2>4 DEF IInv, ScreenType, ConnType, NativeType, SessionTypeOK
<1> QED BY <1>1, <1>2, <1>3, PTL DEF SessionSpec
=============================================================================
