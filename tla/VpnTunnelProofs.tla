-------------------------- MODULE VpnTunnelProofs --------------------------
(***************************************************************************)
(* Proofs about VpnTunnel, for any number of starts, stops and revocations *)
(* and whether or not a descriptor can fail to close.                      *)
(*                                                                         *)
(* TunnelIsTruthful is not inductive.  That an open tunnel belongs to the  *)
(* service instance the main thread is about to act on rests on the order  *)
(* of Android's messages (Follows): whatever is queued for a later         *)
(* instance comes after the onDestroy of the instance that owns the        *)
(* tunnel.  That a refused permission dialog may publish "off" rests on    *)
(* the permission having been missing all the while (PermissionInv).       *)
(***************************************************************************)
EXTENDS VpnTunnel, TLAPS, FiniteSetTheorems

Bounds == MaxStarts \in Nat /\ MaxStops \in Nat

Message == [act : {"START", "STOP", "DESTROY"}, stop : 0 .. MaxStops, inst : Instances]
Tunnel == [inst : Instances, fd : {"open", "closed", "failed"},
           job : {"queued", "read", "running", "failed", "reports", "done"},
           cancelled : BOOLEAN]

StatusType ==
    status \in [phase : {"off", "starting", "active", "stopping", "blocked"},
                active : BOOLEAN, error : {"none", "stop", "scope", "start", "translator"}]
ModuleType ==
    module \in [pending : BOOLEAN, starts : 0 .. MaxStarts, reloads : 0 .. 1,
                stops : [Stops -> {"unused", "pending", "off", "resolved", "rejected"}]]
AndroidType ==
    /\ android \in [record : BOOLEAN, inst : 0 .. (MaxStarts + MaxStops), queue : Seq(Message),
                    granted : BOOLEAN, revokes : Nat]
    /\ android.record => android.inst \in Instances
ServiceType ==
    /\ service \in [Instances -> [descriptor : Nat, stopping : BOOLEAN]]
    /\ tunnels \in Seq(Tunnel)
    /\ \A i \in Instances : service[i].descriptor <= Len(tunnels)
    /\ token \in 0 .. Len(tunnels)
MainType ==
    \/ main = MainIdle
    \/ main \in [pc : {"native", "close", "status", "ack"}, inst : Instances,
                 stop : 0 .. MaxStops]

Types == StatusType /\ ModuleType /\ AndroidType /\ ServiceType /\ MainType

\* Stops are requested in order, and every request makes one instance at most.
RequestInv ==
    \E n \in 0 .. MaxStops :
        /\ \A s \in Stops : module.stops[s] = "unused" <=> s > n
        /\ android.inst + (IF module.pending THEN 1 ELSE 0) <= module.starts + n

\* The messages of `a` after the k-th: those for another instance than i come after
\* the onDestroy of i, and i is the running instance or its onDestroy is among them.
Destroys(m, i) == m.act = "DESTROY" /\ m.inst = i
Follows(a, i, k) ==
    /\ \A m \in DOMAIN a.queue : m > k =>
         a.queue[m].inst = i
           \/ \E l \in DOMAIN a.queue : k < l /\ l < m /\ Destroys(a.queue[l], i)
    /\ \/ a.record /\ a.inst = i
       \/ \E l \in DOMAIN a.queue : k < l /\ Destroys(a.queue[l], i)

Ordered(a) ==
    \A k \in DOMAIN a.queue : a.queue[k].act # "DESTROY" => Follows(a, a.queue[k].inst, k)

QueueInv == Ordered(android)

\* An open tunnel belongs to the instance the main thread is stopping or, when it
\* is idle, to the instance of its next message.
OwnerInv ==
    \A t \in Open :
        /\ service[tunnels[t].inst].descriptor = t
        /\ \/ main.pc \in {"native", "close"} /\ main.inst = tunnels[t].inst
           \/ main = MainIdle /\ Follows(android, tunnels[t].inst, 0)

\* The dialog is open because the permission is missing, and no tunnel can be
\* established before it is answered.
PermissionInv == module.pending => ~android.granted /\ Open = {}

\* The status between the steps of the main thread.
StatusInv ==
    /\ status.phase = "off" => Open = {}
    /\ main = MainIdle /\ status.phase = "active" => Open # {}
    /\ main.pc = "ack" => status.phase # "active"

IInv == Types /\ RequestInv /\ QueueInv /\ OwnerInv /\ PermissionInv /\ StatusInv

----------------------------------------------------------------------------
(* The messages of the service.                                             *)

Androids == [record : BOOLEAN, inst : 0 .. (MaxStarts + MaxStops), queue : Seq(Message),
             granted : BOOLEAN, revokes : Nat]

\* An element of the main looper is a message for an instance.
LEMMA QueueElement ==
  ASSUME NEW a \in Androids, NEW k \in DOMAIN a.queue
  PROVE  a.queue[k] \in Message /\ a.queue[k].inst \in Instances
<1>1. a.queue \in Seq(Message)
  BY DEF Androids
<1>2. a.queue[k] \in Message
  BY <1>1
<1> QED BY <1>2 DEF Message

\* A message at the end of the queue leaves the order of what was before it: it is for i
\* itself, or the onDestroy of i is queued already.
LEMMA FollowsMore ==
  ASSUME NEW a, NEW b, NEW n \in Nat, DOMAIN a.queue = 1 .. n, DOMAIN b.queue = 1 .. n + 1,
         \A m \in 1 .. n : b.queue[m] = a.queue[m],
         NEW i, NEW k \in 0 .. n, Follows(a, i, k),
         \/ b.queue[n + 1].inst = i
         \/ \E l \in DOMAIN a.queue : k < l /\ Destroys(a.queue[l], i),
         \/ b.record /\ b.inst = i
         \/ \E l \in DOMAIN b.queue : k < l /\ Destroys(b.queue[l], i)
  PROVE  Follows(b, i, k)
<1>1. ASSUME NEW m \in DOMAIN b.queue, m > k
      PROVE  b.queue[m].inst = i
               \/ \E l \in DOMAIN b.queue : k < l /\ l < m /\ Destroys(b.queue[l], i)
  <2>1. CASE m \in 1 .. n
    <3>1. CASE a.queue[m].inst = i
      BY <2>1, <3>1
    <3>2. ASSUME NEW l \in DOMAIN a.queue, k < l, l < m, Destroys(a.queue[l], i)
          PROVE  l \in DOMAIN b.queue /\ Destroys(b.queue[l], i)
      BY <3>2
    <3> QED BY <1>1, <2>1, <3>1, <3>2 DEF Follows
  <2>2. CASE m = n + 1
    <3>1. ASSUME NEW l \in DOMAIN a.queue, k < l, Destroys(a.queue[l], i)
          PROVE  l \in DOMAIN b.queue /\ l < m /\ Destroys(b.queue[l], i)
      BY <2>2, <3>1
    <3> QED BY <2>2, <3>1
  <2> QED BY <2>1, <2>2
<1> QED BY <1>1 DEF Follows

\* A message sent with startService comes after all the others.
LEMMA SendFollows ==
  ASSUME Bounds, NEW a \in Androids, NEW act \in {"START", "STOP"}, NEW stop \in 0 .. MaxStops,
         a.record => a.inst \in Instances, a.inst < MaxStarts + MaxStops, Ordered(a)
  PROVE  LET b == startService(a, act, stop) IN
         /\ b \in Androids /\ b.record /\ b.inst \in Instances
         /\ b.inst <= a.inst + 1 /\ b.granted = a.granted /\ b.revokes = a.revokes
         /\ Ordered(b)
         /\ \A i \in Instances : Follows(a, i, 0) => Follows(b, i, 0)
<1> DEFINE inst == IF a.record THEN a.inst ELSE a.inst + 1
           msg == [act |-> act, stop |-> stop, inst |-> inst]
           b == startService(a, act, stop)
           n == Len(a.queue)
<1>1. inst \in Instances /\ inst <= a.inst + 1
  BY DEF Bounds, Androids, Instances
<1>2. msg \in Message
  BY <1>1 DEF Message, Bounds
<1>3. /\ b = [a EXCEPT !.record = TRUE, !.inst = inst, !.queue = Append(a.queue, msg)]
      /\ b.queue = Append(a.queue, msg) /\ b.record = TRUE /\ b.inst = inst
      /\ b.granted = a.granted /\ b.revokes = a.revokes
  BY DEF startService, Androids
<1>4. b \in Androids
  <2>1. a.queue \in Seq(Message)
    BY DEF Androids
  <2>2. Append(a.queue, msg) \in Seq(Message)
    BY <1>2, <2>1
  <2>3. inst \in 0 .. (MaxStarts + MaxStops)
    BY <1>1 DEF Instances, Bounds
  <2> HIDE DEF msg, inst, b
  <2> QED BY Zenon, <1>3, <2>2, <2>3 DEF Androids
<1>5. /\ n \in Nat /\ DOMAIN a.queue = 1 .. n /\ DOMAIN b.queue = 1 .. n + 1
      /\ \A k \in 1 .. n : b.queue[k] = a.queue[k]
      /\ b.queue[n + 1] = msg
  BY <1>2, <1>3 DEF Androids
<1> HIDE DEF b, msg, inst, n
<1>6. ASSUME NEW i \in Instances, NEW k \in 0 .. n, Follows(a, i, k)
      PROVE  Follows(b, i, k)
  <2>1. CASE a.record /\ a.inst = i
    BY <1>5, <1>6, <2>1, <1>3 DEF Follows, Destroys, msg, inst
  <2>2. CASE \E l \in DOMAIN a.queue : k < l /\ Destroys(a.queue[l], i)
    <3>1. \E l \in DOMAIN b.queue : k < l /\ Destroys(b.queue[l], i)
      BY <1>5, <2>2
    <3> QED BY Zenon, <1>5, <1>6, <2>2, <3>1, FollowsMore
  <2> QED BY <1>6, <2>1, <2>2 DEF Follows
<1>7. Ordered(b)
  <2> SUFFICES ASSUME NEW k \in 1 .. n + 1, b.queue[k].act # "DESTROY"
               PROVE  Follows(b, b.queue[k].inst, k)
    BY <1>5 DEF Ordered
  <2>1. CASE k \in 1 .. n
    <3>1. a.queue[k].inst \in Instances
      BY <2>1, <1>5, QueueElement
    <3> QED BY <2>1, <3>1, <1>5, <1>6 DEF Ordered
  <2>2. CASE k = n + 1
    BY <2>2, <1>3, <1>5 DEF Follows, msg, inst
  <2> QED BY <2>1, <2>2, <1>5
<1> QED BY <1>1, <1>3, <1>4, <1>5, <1>6, <1>7 DEF b

\* stopSelf queues the onDestroy of the running instance.
LEMMA StopFollows ==
  ASSUME Bounds, NEW a \in Androids, NEW j \in 0 .. (MaxStarts + MaxStops),
         a.record => a.inst \in Instances, Ordered(a)
  PROVE  LET b == stopSelf(a, j) IN
         /\ b \in Androids /\ (b.record => b.inst \in Instances)
         /\ b.inst = a.inst /\ b.granted = a.granted
         /\ Ordered(b)
         /\ \A i \in Instances : Follows(a, i, 0) => Follows(b, i, 0)
<1>1. CASE a.record /\ a.inst = j
  <2> DEFINE msg == [act |-> "DESTROY", stop |-> 0, inst |-> j]
             b == stopSelf(a, j)
             n == Len(a.queue)
  <2>1. msg \in Message
    BY <1>1 DEF Message, Bounds
  <2>2. /\ b.queue = Append(a.queue, msg) /\ b.record = FALSE /\ b.inst = a.inst
        /\ b.granted = a.granted /\ b \in Androids
    <3>1. a.queue \in Seq(Message)
      BY DEF Androids
    <3>2. Append(a.queue, msg) \in Seq(Message)
      BY <2>1, <3>1
    <3>3. b = [a EXCEPT !.record = FALSE, !.queue = Append(a.queue, msg)]
      BY <1>1 DEF stopSelf, Androids
    <3> HIDE DEF msg, b
    <3> QED BY Zenon, <3>2, <3>3 DEF Androids
  <2>3. /\ n \in Nat /\ DOMAIN a.queue = 1 .. n /\ DOMAIN b.queue = 1 .. n + 1
        /\ \A k \in 1 .. n : b.queue[k] = a.queue[k]
        /\ b.queue[n + 1] = msg
    BY <2>1, <2>2 DEF Androids
  <2>4. Destroys(b.queue[n + 1], j)
    BY <2>3 DEF Destroys
  <2> HIDE DEF b, msg, n
  <2>5. ASSUME NEW i \in Instances, NEW k \in 0 .. n, Follows(a, i, k)
        PROVE  Follows(b, i, k)
    <3>1. CASE a.inst = i
      <4>1. b.queue[n + 1].inst = i
        BY Zenon, <1>1, <3>1, <2>4 DEF Destroys
      <4>2. n + 1 \in DOMAIN b.queue /\ k < n + 1 /\ Destroys(b.queue[n + 1], i)
        BY <1>1, <2>3, <2>4, <3>1
      <4> QED BY Zenon, <2>3, <2>5, <4>1, <4>2, FollowsMore
    <3>2. CASE \E l \in DOMAIN a.queue : k < l /\ Destroys(a.queue[l], i)
      <4>1. \E l \in DOMAIN b.queue : k < l /\ Destroys(b.queue[l], i)
        BY <2>3, <3>2
      <4> QED BY Zenon, <2>3, <2>5, <3>2, <4>1, FollowsMore
    <3> QED BY <2>5, <3>1, <3>2 DEF Follows
  <2>6. Ordered(b)
    <3> SUFFICES ASSUME NEW k \in 1 .. n + 1, b.queue[k].act # "DESTROY"
                 PROVE  Follows(b, b.queue[k].inst, k)
      BY <2>3 DEF Ordered
    <3>1. k \in 1 .. n
      BY <2>3, <2>4 DEF Destroys
    <3>2. a.queue[k].inst \in Instances
      BY <3>1, <2>3, QueueElement
    <3> QED BY <3>1, <3>2, <2>3, <2>5 DEF Ordered
  <2> QED BY <2>2, <2>3, <2>5, <2>6 DEF b
<1>2. CASE ~(a.record /\ a.inst = j)
  BY <1>2 DEF stopSelf
<1> QED BY <1>1, <1>2

\* The main thread takes the next message.
LEMMA TakeFollows ==
  ASSUME Bounds, NEW a \in Androids, a.queue # <<>>, Ordered(a)
  PROVE  LET b == [a EXCEPT !.queue = Tail(@)] IN
         /\ b \in Androids /\ b.inst = a.inst /\ b.record = a.record /\ b.granted = a.granted
         /\ Head(a.queue) \in Message
         /\ Ordered(b)
         /\ Head(a.queue).act # "DESTROY" => Follows(b, Head(a.queue).inst, 0)
         /\ \A i \in Instances : Follows(a, i, 0) => Head(a.queue).inst = i
<1> DEFINE b == [a EXCEPT !.queue = Tail(@)]
           n == Len(a.queue)
<1>1. /\ b \in Androids /\ b.inst = a.inst /\ b.record = a.record /\ b.granted = a.granted
      /\ b.queue = Tail(a.queue)
  BY DEF Androids
<1>2. /\ n \in Nat /\ n > 0 /\ DOMAIN a.queue = 1 .. n /\ DOMAIN b.queue = 1 .. n - 1
      /\ \A k \in 1 .. n - 1 : b.queue[k] = a.queue[k + 1]
      /\ Head(a.queue) = a.queue[1]
  BY <1>1 DEF Androids
<1>3. Head(a.queue) \in Message
  BY <1>2 DEF Androids
<1> HIDE DEF b, n
<1>4. ASSUME NEW i, NEW k \in 1 .. n, Follows(a, i, k)
      PROVE  Follows(b, i, k - 1)
  <2>1. ASSUME NEW m \in 1 .. n - 1, m > k - 1
        PROVE  b.queue[m].inst = i
                 \/ \E l \in 1 .. n - 1 : k - 1 < l /\ l < m /\ Destroys(b.queue[l], i)
    <3>1. CASE a.queue[m + 1].inst = i
      BY <3>1, <1>2
    <3>2. ASSUME NEW l \in 1 .. n, k < l, l < m + 1, Destroys(a.queue[l], i)
          PROVE  \E z \in 1 .. n - 1 : k - 1 < z /\ z < m /\ Destroys(b.queue[z], i)
      <4>1. l - 1 \in 1 .. n - 1 /\ k - 1 < l - 1 /\ l - 1 < m
        BY <3>2, <1>2
      <4>2. b.queue[l - 1] = a.queue[l]
        BY <4>1, <1>2
      <4> QED BY <4>1, <4>2, <3>2
    <3>3. m + 1 \in DOMAIN a.queue /\ m + 1 > k
      BY <2>1, <1>2
    <3> QED BY Zenon, <3>1, <3>2, <3>3, <1>2, <1>4 DEF Follows
  <2>2. (b.record /\ b.inst = i) \/ \E l \in 1 .. n - 1 : k - 1 < l /\ Destroys(b.queue[l], i)
    <3>1. ASSUME NEW l \in 1 .. n, k < l, Destroys(a.queue[l], i)
          PROVE  \E z \in 1 .. n - 1 : k - 1 < z /\ Destroys(b.queue[z], i)
      <4>1. l - 1 \in 1 .. n - 1 /\ k - 1 < l - 1
        BY <3>1, <1>2
      <4>2. b.queue[l - 1] = a.queue[l]
        BY <4>1, <1>2
      <4> QED BY <4>1, <4>2, <3>1
    <3> QED BY <3>1, <1>1, <1>2, <1>4 DEF Follows
  <2> QED BY Zenon, <2>1, <2>2, <1>2 DEF Follows
<1>5. Ordered(b)
  <2> SUFFICES ASSUME NEW k \in 1 .. n - 1, b.queue[k].act # "DESTROY"
               PROVE  Follows(b, b.queue[k].inst, k)
    BY <1>2 DEF Ordered
  <2>1. Follows(a, a.queue[k + 1].inst, k + 1) /\ k + 1 \in 1 .. n
    BY SMTT(30), <1>2 DEF Ordered
  <2>2. Follows(b, a.queue[k + 1].inst, (k + 1) - 1)
    BY <2>1, <1>4
  <2>3. (k + 1) - 1 = k
    OBVIOUS
  <2> QED BY <2>2, <2>3, <1>2
<1>6. ASSUME a.queue[1].act # "DESTROY" PROVE Follows(b, a.queue[1].inst, 0)
  <2>1. 1 \in 1 .. n /\ 1 - 1 = 0
    BY <1>2
  <2> QED BY <2>1, <1>4, <1>6, <1>2 DEF Ordered
<1>7. ASSUME NEW i \in Instances, Follows(a, i, 0) PROVE a.queue[1].inst = i
  BY SMTT(30), <1>2, <1>7 DEF Follows
<1> QED BY <1>1, <1>2, <1>3, <1>5, <1>6, <1>7 DEF b

----------------------------------------------------------------------------
(* Types, and the frames the steps share.                                   *)

\* Only jobs and cancellations change: the same tunnels are open.
SameTunnels ==
    /\ tunnels' \in Seq(Tunnel) /\ Len(tunnels') = Len(tunnels)
    /\ \A t \in DOMAIN tunnels :
         tunnels'[t].inst = tunnels[t].inst /\ tunnels'[t].fd = tunnels[t].fd

\* No instance gets or loses its descriptor.
SameDescriptors == \A i \in Instances : service'[i].descriptor = service[i].descriptor

\* What comes for an instance after the messages under way is unchanged.
KeepsMessages ==
    \A i \in Instances : Follows(android, i, 0) => Follows(android', i, 0)

\* A tunnel belongs to an instance.
LEMMA TunnelElement ==
  ASSUME ServiceType, NEW t \in DOMAIN tunnels
  PROVE  tunnels[t] \in Tunnel /\ tunnels[t].inst \in Instances /\ t \in 1 .. Len(tunnels)
<1>1. tunnels \in Seq(Tunnel)
  BY DEF ServiceType
<1>2. tunnels[t] \in Tunnel /\ DOMAIN tunnels = 1 .. Len(tunnels)
  BY <1>1
<1> QED BY <1>2 DEF Tunnel

\* Nothing happened to the tunnels.
LEMMA UnchangedTunnels ==
  ASSUME ServiceType, UNCHANGED tunnels
  PROVE  SameTunnels
BY DEF ServiceType, SameTunnels

\* SameTunnels is what its name says of the open ones.
LEMMA SameOpen ==
  ASSUME ServiceType, SameTunnels
  PROVE  Open' = Open
<1>1. DOMAIN tunnels' = DOMAIN tunnels
  BY DEF ServiceType, SameTunnels
<1> QED BY <1>1 DEF Open, SameTunnels

\* A step of a translator job.
LEMMA MoveTunnels ==
  ASSUME ServiceType, NEW t \in DOMAIN tunnels,
         NEW job \in {"queued", "read", "running", "failed", "reports", "done"}, Moves(t, job)
  PROVE  SameTunnels
<1>1. tunnels[t] \in Tunnel /\ tunnels \in Seq(Tunnel)
  BY TunnelElement DEF ServiceType
<1>2. [tunnels[t] EXCEPT !.job = job] \in Tunnel
  BY <1>1 DEF Tunnel
<1>3. tunnels' = [tunnels EXCEPT ![t] = [tunnels[t] EXCEPT !.job = job]]
  BY DEF Moves
<1>4. tunnels' \in Seq(Tunnel) /\ Len(tunnels') = Len(tunnels)
  BY <1>1, <1>2, <1>3
<1>5. \A u \in DOMAIN tunnels : tunnels[u] \in Tunnel
  BY TunnelElement
<1> QED BY <1>1, <1>3, <1>4, <1>5 DEF SameTunnels, Tunnel

\* shutdownNow and nativeStop touch every tunnel of a kind.
LEMMA MapTunnels ==
  ASSUME ServiceType, NEW f, DOMAIN f = DOMAIN tunnels,
         \A t \in DOMAIN tunnels :
            /\ f[t] \in Tunnel
            /\ f[t].inst = tunnels[t].inst /\ f[t].fd = tunnels[t].fd,
         f = [t \in DOMAIN tunnels |-> f[t]], tunnels' = f
  PROVE  SameTunnels
<1>1. DOMAIN tunnels = 1 .. Len(tunnels) /\ Len(tunnels) \in Nat
  BY DEF ServiceType
<1>2. f \in [1 .. Len(tunnels) -> Tunnel]
  BY <1>1
<1>3. f \in Seq(Tunnel) /\ Len(f) = Len(tunnels)
  BY <1>1, <1>2
<1> QED BY <1>3 DEF SameTunnels

\* A dead or new instance sees the same tunnels when nothing about them changes.
LEMMA OwnerFrame ==
  ASSUME ServiceType, OwnerInv, SameTunnels, SameDescriptors, KeepsMessages, UNCHANGED main
  PROVE  OwnerInv'
<1>1. Open' = Open
  BY SameOpen
<1>2. \A t \in Open : tunnels'[t].inst = tunnels[t].inst /\ tunnels[t].inst \in Instances
  BY TunnelElement DEF Open, SameTunnels
<1> QED BY <1>1, <1>2 DEF OwnerInv, SameDescriptors, KeepsMessages

\* The instances keep their type when only tunnel jobs move.
LEMMA ServiceFrame ==
  ASSUME ServiceType, SameTunnels, UNCHANGED <<service, token>>
  PROVE  ServiceType'
BY DEF ServiceType, SameTunnels

\* Nothing was sent and nothing was taken.
LEMMA UnchangedMessages ==
  ASSUME UNCHANGED android PROVE KeepsMessages
BY DEF KeepsMessages

----------------------------------------------------------------------------
(* The calls of the module and of Android.                                  *)

\* The invariant holds when the app starts.
LEMMA InitInv == ASSUME Bounds, TunnelInit PROVE IInv
<1> USE DEF TunnelInit, Bounds
<1>1. Types
  <2>1. <<>> \in Seq(Message) /\ <<>> \in Seq(Tunnel) /\ Len(<<>>) = 0
    OBVIOUS
  <2>2. StatusType /\ MainType
    BY DEF StatusType, Status, MainType
  <2>3. ModuleType
    BY DEF ModuleType, Stops
  <2>4. AndroidType
    BY <2>1 DEF AndroidType
  <2>5. ServiceType
    BY <2>1 DEF ServiceType
  <2> QED BY <2>2, <2>3, <2>4, <2>5 DEF Types
<1>2. RequestInv
  <2>1. \A s \in Stops : module.stops[s] = "unused" <=> s > 0
    BY DEF Stops
  <2> QED BY <2>1 DEF RequestInv
<1>3. QueueInv
  BY DEF QueueInv, Ordered
<1>4. Open = {}
  BY DEF Open
<1> QED BY <1>1, <1>2, <1>3, <1>4 DEF IInv, OwnerInv, PermissionInv, StatusInv, Status, MainIdle

\* startService, when there is an instance left, from android or from android with
\* another permission.
LEMMA SendStep ==
  ASSUME Bounds, Types, QueueInv, NEW a \in Androids, a.queue = android.queue,
         a.record = android.record, a.inst = android.inst,
         android.inst < MaxStarts + MaxStops,
         NEW act \in {"START", "STOP"}, NEW stop \in 0 .. MaxStops,
         android' = startService(a, act, stop)
  PROVE  /\ AndroidType' /\ QueueInv' /\ KeepsMessages
         /\ android'.inst <= android.inst + 1 /\ android'.granted = a.granted
<1>1. Ordered(a) /\ \A i \in Instances : Follows(android, i, 0) => Follows(a, i, 0)
  BY DEF QueueInv, Ordered, Follows
<1>2. a.record => a.inst \in Instances
  BY DEF Types, AndroidType
<1>3. LET b == startService(a, act, stop) IN
         /\ b \in Androids /\ b.record /\ b.inst \in Instances
         /\ b.inst <= a.inst + 1 /\ b.granted = a.granted
         /\ Ordered(b)
         /\ \A i \in Instances : Follows(a, i, 0) => Follows(b, i, 0)
  BY <1>1, <1>2, SendFollows
<1> QED BY <1>1, <1>3 DEF AndroidType, Androids, QueueInv, KeepsMessages

\* stopSelf, from android or from android with the permission taken away.
LEMMA StopStep ==
  ASSUME Bounds, Types, QueueInv, NEW a \in Androids, a.queue = android.queue,
         a.record = android.record, a.inst = android.inst,
         NEW i \in 0 .. (MaxStarts + MaxStops), android' = stopSelf(a, i)
  PROVE  /\ AndroidType' /\ QueueInv' /\ KeepsMessages
         /\ android'.inst = android.inst /\ android'.granted = a.granted
<1>1. Ordered(a) /\ \A j \in Instances : Follows(android, j, 0) => Follows(a, j, 0)
  BY DEF QueueInv, Ordered, Follows
<1>2. a.record => a.inst \in Instances
  BY DEF Types, AndroidType
<1>3. LET b == stopSelf(a, i) IN
         /\ b \in Androids /\ (b.record => b.inst \in Instances)
         /\ b.inst = a.inst /\ b.granted = a.granted
         /\ Ordered(b)
         /\ \A j \in Instances : Follows(a, j, 0) => Follows(b, j, 0)
  BY <1>1, <1>2, StopFollows
<1> QED BY <1>1, <1>3 DEF AndroidType, Androids, QueueInv, KeepsMessages

\* A step of a caller leaves the service and its tunnels alone.
LEMMA CallFrame ==
  ASSUME IInv, StatusType', ModuleType', AndroidType', QueueInv', RequestInv', KeepsMessages,
         UNCHANGED <<service, main, tunnels, token>>
  PROVE  /\ Types' /\ OwnerInv' /\ Open' = Open
         /\ (PermissionInv' /\ StatusInv' => IInv')
<1>1. SameTunnels /\ SameDescriptors /\ ServiceType /\ OwnerInv
  BY UnchangedTunnels DEF IInv, Types, SameDescriptors
<1>2. ServiceType' /\ OwnerInv' /\ Open' = Open
  BY <1>1, ServiceFrame, OwnerFrame, SameOpen
<1>3. Types'
  BY <1>2 DEF IInv, Types, MainType
<1> QED BY <1>2, <1>3 DEF IInv

\* startSystemTunnel: the START is on its way, or the start was not allowed.
LEMMA StartStep ==
  ASSUME Bounds, IInv, NEW a \in Androids, a.queue = android.queue,
         a.record = android.record, a.inst = android.inst,
         android.inst < MaxStarts + MaxStops, startSystemTunnel(a)
  PROVE  /\ StatusType' /\ AndroidType' /\ QueueInv' /\ KeepsMessages
         /\ android'.inst <= android.inst + 1 /\ android'.granted = a.granted
         /\ status'.phase \in {"starting", "off"}
<1>1. CASE /\ status' = Status("starting", FALSE, "none")
           /\ android' = startService(a, "START", 0)
  <2>1. /\ AndroidType' /\ QueueInv' /\ KeepsMessages
        /\ android'.inst <= android.inst + 1 /\ android'.granted = a.granted
    <3>1. 0 \in 0 .. MaxStops
      BY DEF Bounds
    <3> QED BY <1>1, <3>1, SendStep DEF IInv
  <2> QED BY <1>1, <2>1 DEF StatusType, Status
<1>2. CASE /\ status' = Status("off", FALSE, "none")
           /\ android' = a
  <2>1. AndroidType' /\ QueueInv' /\ KeepsMessages
    BY <1>2 DEF IInv, Types, AndroidType, Androids, QueueInv, Ordered, Follows, KeepsMessages
  <2>2. android'.inst <= android.inst + 1
    BY <1>2 DEF Androids
  <2> QED BY <1>2, <2>1, <2>2 DEF StatusType, Status
<1> QED BY Zenon, <1>1, <1>2 DEF startSystemTunnel

\* setSystemTunnel keeps the invariant.
LEMMA SetSystemTunnelStep == ASSUME Bounds, IInv, setSystemTunnel PROVE IInv'
<1>1. PICK n \in 0 .. MaxStops :
        /\ \A s \in Stops : module.stops[s] = "unused" <=> s > n
        /\ android.inst + (IF module.pending THEN 1 ELSE 0) <= module.starts + n
  BY DEF IInv, RequestInv
<1>2. android.inst < MaxStarts + MaxStops /\ android.inst <= module.starts + n
  BY <1>1 DEF setSystemTunnel, Bounds, IInv, Types, ModuleType, AndroidType
<1>3. /\ ModuleType' /\ module'.stops = module.stops /\ module'.starts = module.starts + 1
      /\ module'.pending <=> ~android.granted
  <2> DEFINE asks == ~android.granted
  <2>1. asks \in BOOLEAN /\ module' = [module EXCEPT !.starts = @ + 1, !.pending = asks]
    BY Zenon DEF setSystemTunnel
  <2>2. ModuleType /\ module.starts < MaxStarts
    BY DEF setSystemTunnel, IInv, Types
  <2> HIDE DEF asks
  <2>3. /\ ModuleType' /\ module'.stops = module.stops /\ module'.starts = module.starts + 1
        /\ module'.pending <=> asks
    <3>1. module' = [pending |-> asks, starts |-> module.starts + 1,
                     reloads |-> module.reloads, stops |-> module.stops]
      BY Zenon, <2>1, <2>2 DEF ModuleType
    <3> QED BY <2>1, <2>2, <3>1 DEF ModuleType, Bounds
  <2> QED BY <2>3 DEF asks
<1>4. Open = {}
  BY DEF setSystemTunnel, IInv, StatusInv
<1>5. CASE android.granted
  <2>1. android \in Androids
    BY DEF IInv, Types, AndroidType, Androids
  <2>2. /\ StatusType' /\ AndroidType' /\ QueueInv' /\ KeepsMessages
        /\ android'.inst <= android.inst + 1 /\ android'.granted = android.granted
        /\ status'.phase \in {"starting", "off"}
    BY Zenon, <1>2, <1>5, <2>1, StartStep DEF setSystemTunnel
  <2>3. RequestInv'
    <3>1. android'.inst <= module'.starts + n
      BY <1>2, <1>3, <2>2 DEF IInv, Types, ModuleType, AndroidType, Bounds
    <3>2. android'.inst + (IF module'.pending THEN 1 ELSE 0) <= module'.starts + n
      BY <1>3, <1>5, <2>2, <3>1 DEF AndroidType
    <3> QED BY <1>1, <1>3, <3>2 DEF RequestInv
  <2>4. Types' /\ OwnerInv' /\ Open' = Open /\ (PermissionInv' /\ StatusInv' => IInv')
    BY <1>3, <2>2, <2>3, CallFrame DEF setSystemTunnel
  <2> QED BY <1>3, <1>4, <1>5, <2>2, <2>4 DEF PermissionInv, StatusInv
<1>6. CASE ~android.granted
  <2>1. UNCHANGED <<status, android>>
    BY <1>6 DEF setSystemTunnel
  <2>2. StatusType' /\ AndroidType' /\ QueueInv' /\ KeepsMessages
    BY <2>1 DEF IInv, Types, StatusType, AndroidType, QueueInv, KeepsMessages
  <2>3. RequestInv'
    <3>1. android'.inst + 1 <= module'.starts + n
      BY <1>2, <1>3, <2>1 DEF IInv, Types, ModuleType, AndroidType, Bounds
    <3>2. android'.inst + (IF module'.pending THEN 1 ELSE 0) <= module'.starts + n
      BY <1>3, <1>6, <3>1
    <3> QED BY <1>1, <1>3, <3>2 DEF RequestInv
  <2>4. Types' /\ OwnerInv' /\ Open' = Open /\ (PermissionInv' /\ StatusInv' => IInv')
    BY <1>3, <2>2, <2>3, CallFrame DEF setSystemTunnel
  <2>5. UNCHANGED main
    BY DEF setSystemTunnel
  <2> QED BY <1>4, <1>6, <2>1, <2>4, <2>5 DEF PermissionInv, StatusInv, IInv
<1> QED BY <1>5, <1>6

\* The answer to the permission dialog keeps the invariant.
LEMMA OnActivityResultStep == ASSUME Bounds, IInv, onActivityResult PROVE IInv'
<1>1. PICK n \in 0 .. MaxStops :
        /\ \A s \in Stops : module.stops[s] = "unused" <=> s > n
        /\ android.inst + (IF module.pending THEN 1 ELSE 0) <= module.starts + n
  BY DEF IInv, RequestInv
<1>2. android.inst < MaxStarts + MaxStops /\ android.inst + 1 <= module.starts + n
  BY <1>1 DEF onActivityResult, Bounds, IInv, Types, ModuleType, AndroidType
<1>3. /\ ModuleType' /\ module'.stops = module.stops /\ module'.starts = module.starts
      /\ module'.pending = FALSE
  BY Zenon DEF onActivityResult, Bounds, IInv, Types, ModuleType
<1>4. Open = {}
  BY DEF onActivityResult, IInv, PermissionInv
<1>5. CASE UNCHANGED <<status, android>>
  <2>1. StatusType' /\ AndroidType' /\ QueueInv' /\ KeepsMessages
    BY <1>5 DEF IInv, Types, StatusType, AndroidType, QueueInv, KeepsMessages
  <2>2. RequestInv'
    BY <1>1, <1>2, <1>3, <1>5 DEF RequestInv, IInv, Types, ModuleType, AndroidType, Bounds
  <2>3. Types' /\ OwnerInv' /\ Open' = Open /\ (PermissionInv' /\ StatusInv' => IInv')
    BY <1>3, <2>1, <2>2, CallFrame DEF onActivityResult
  <2>4. UNCHANGED main
    BY DEF onActivityResult
  <2> QED BY <1>3, <1>4, <1>5, <2>3, <2>4 DEF PermissionInv, StatusInv, IInv
<1>6. CASE startSystemTunnel([android EXCEPT !.granted = TRUE])
  <2> DEFINE a == [android EXCEPT !.granted = TRUE]
  <2>1. /\ a \in Androids /\ a.queue = android.queue
        /\ a.record = android.record /\ a.inst = android.inst
    BY Zenon DEF IInv, Types, AndroidType, Androids
  <2> HIDE DEF a
  <2>2. /\ StatusType' /\ AndroidType' /\ QueueInv' /\ KeepsMessages
        /\ android'.inst <= android.inst + 1
        /\ status'.phase \in {"starting", "off"}
    BY Zenon, <1>2, <1>6, <2>1, StartStep DEF a
  <2>3. RequestInv'
    <3>1. android'.inst + (IF module'.pending THEN 1 ELSE 0) <= module'.starts + n
      BY <1>2, <1>3, <2>2 DEF IInv, Types, ModuleType, AndroidType, Bounds
    <3> QED BY <1>1, <1>3, <3>1 DEF RequestInv
  <2>4. Types' /\ OwnerInv' /\ Open' = Open /\ (PermissionInv' /\ StatusInv' => IInv')
    BY <1>3, <2>2, <2>3, CallFrame DEF onActivityResult
  <2> QED BY <1>3, <1>4, <2>2, <2>4 DEF PermissionInv, StatusInv
<1> QED BY <1>5, <1>6 DEF onActivityResult

\* stopSystemTunnel keeps the invariant.
LEMMA StopSystemTunnelStep == ASSUME Bounds, IInv, stopSystemTunnel PROVE IInv'
<1>1. PICK n \in 0 .. MaxStops :
        /\ \A s \in Stops : module.stops[s] = "unused" <=> s > n
        /\ android.inst + (IF module.pending THEN 1 ELSE 0) <= module.starts + n
  BY DEF IInv, RequestInv
<1>2. PICK s \in Stops :
       /\ module.stops[s] = "unused"
       /\ \A r \in 1 .. (s - 1) : module.stops[r] # "unused"
       /\ \/ /\ module' = [module EXCEPT !.stops[s] = "pending"]
             /\ markStopping
             /\ android' = startService(android, "STOP", s)
          \/ /\ module' = [module EXCEPT !.stops[s] = "rejected"]
             /\ markStopFailed
             /\ UNCHANGED android
       /\ UNCHANGED <<service, main, tunnels, token>>
  BY DEF stopSystemTunnel
<1>3. s = n + 1
  <2>1. s > n /\ s \in 1 .. MaxStops
    BY <1>1, <1>2 DEF Stops
  <2>2. CASE s > n + 1
    <3>1. n + 1 \in 1 .. (s - 1) /\ n + 1 \in Stops
      BY <2>1, <2>2, <1>1 DEF Stops, Bounds
    <3> QED BY <3>1, <1>1, <1>2
  <2> QED BY <2>1, <2>2, <1>1
<1>4. android.inst < MaxStarts + MaxStops
  BY <1>1, <1>2, <1>3 DEF Bounds, IInv, Types, ModuleType, AndroidType, Stops
<1>5. /\ ModuleType' /\ module'.pending = module.pending /\ module'.starts = module.starts
      /\ \A r \in Stops : module'.stops[r] = "unused" <=> r > n + 1
  <2>1. /\ ModuleType' /\ module'.pending = module.pending /\ module'.starts = module.starts
        /\ \A r \in Stops : r # s => module'.stops[r] = module.stops[r]
        /\ module'.stops[s] # "unused"
    BY <1>2 DEF IInv, Types, ModuleType
  <2> QED BY <2>1, <1>1, <1>3 DEF Stops
<1>6. StatusType' /\ status'.phase \in {"stopping", "blocked"}
  <2>1. CASE markStopping
    BY <2>1 DEF StatusType, Status, markStopping
  <2>2. CASE markStopFailed
    BY <2>2 DEF StatusType, Status, markStopFailed
  <2> QED BY <1>2, <2>1, <2>2
<1>7. /\ AndroidType' /\ QueueInv' /\ KeepsMessages
      /\ android'.inst <= android.inst + 1 /\ android'.granted = android.granted
  <2>1. CASE android' = startService(android, "STOP", s)
    <3>1. android \in Androids /\ s \in 0 .. MaxStops
      BY DEF IInv, Types, AndroidType, Androids, Stops
    <3> QED BY <2>1, <3>1, <1>4, SendStep DEF IInv
  <2>2. CASE UNCHANGED android
    BY <2>2 DEF IInv, Types, AndroidType, QueueInv, KeepsMessages
  <2> QED BY <2>1, <2>2, <1>2
<1>8. RequestInv'
  <2>1. n + 1 \in 0 .. MaxStops
    BY <1>3 DEF Stops
  <2>2. android'.inst + (IF module'.pending THEN 1 ELSE 0) <= module'.starts + (n + 1)
    BY <1>1, <1>5, <1>7 DEF IInv, Types, ModuleType, AndroidType, Bounds
  <2> QED BY <1>5, <2>1, <2>2 DEF RequestInv
<1>9. Types' /\ OwnerInv' /\ Open' = Open /\ (PermissionInv' /\ StatusInv' => IInv')
  BY <1>2, <1>5, <1>6, <1>7, <1>8, CallFrame
<1> QED BY <1>5, <1>6, <1>7, <1>9 DEF PermissionInv, StatusInv, IInv

\* Settling a stop changes neither the requests nor what is pending.
LEMMA SettleStep ==
  ASSUME Bounds, IInv, ModuleType', module'.pending => module.pending,
         module'.starts = module.starts,
         \A s \in Stops : module'.stops[s] = "unused" <=> module.stops[s] = "unused",
         android'.inst = android.inst
  PROVE  RequestInv'
<1>1. PICK n \in 0 .. MaxStops :
        /\ \A s \in Stops : module.stops[s] = "unused" <=> s > n
        /\ android.inst + (IF module.pending THEN 1 ELSE 0) <= module.starts + n
  BY DEF IInv, RequestInv
<1>2. android.inst + (IF module'.pending THEN 1 ELSE 0) <= module.starts + n
  BY <1>1 DEF IInv, Types, ModuleType, AndroidType, Bounds
<1> QED BY <1>1, <1>2 DEF RequestInv

\* completeTunnelStop settles nothing that is still unused.
LEMMA CompleteStop ==
  ASSUME ModuleType, NEW s \in Stops, NEW outcome \in {"off", "resolved", "rejected"},
         completeTunnelStop(s, outcome)
  PROVE  /\ ModuleType' /\ module'.pending = module.pending /\ module'.starts = module.starts
         /\ \A r \in Stops : module'.stops[r] = "unused" <=> module.stops[r] = "unused"
BY DEF ModuleType, completeTunnelStop

\* The timeout of a stop keeps the invariant.
LEMMA TimeoutStep == ASSUME Bounds, IInv, stopSystemTunnel_timeout PROVE IInv'
<1>1. PICK s \in Stops : completeTunnelStop(s, "rejected") /\ markStopFailed
  BY DEF stopSystemTunnel_timeout
<1>2. UNCHANGED <<android, service, main, tunnels, token>>
  BY DEF stopSystemTunnel_timeout
<1>3. /\ ModuleType' /\ module'.pending = module.pending /\ module'.starts = module.starts
      /\ \A r \in Stops : module'.stops[r] = "unused" <=> module.stops[r] = "unused"
  BY <1>1, CompleteStop DEF IInv, Types
<1>4. RequestInv'
  BY <1>2, <1>3, SettleStep
<1>5. StatusType' /\ status'.phase = "blocked"
  BY <1>1 DEF StatusType, Status, markStopFailed
<1>6. AndroidType' /\ QueueInv' /\ KeepsMessages
  BY <1>2 DEF IInv, Types, AndroidType, QueueInv, KeepsMessages
<1>7. Types' /\ OwnerInv' /\ Open' = Open /\ (PermissionInv' /\ StatusInv' => IInv')
  BY <1>2, <1>3, <1>4, <1>5, <1>6, CallFrame
<1> QED BY <1>2, <1>3, <1>5, <1>7 DEF PermissionInv, StatusInv, IInv

\* A reload of the React context keeps the invariant.
LEMMA InvalidateStep == ASSUME Bounds, IInv, invalidate PROVE IInv'
<1>1. UNCHANGED <<status, android, service, main, tunnels, token>>
  BY DEF invalidate
<1>2. /\ ModuleType' /\ ~module'.pending /\ module'.starts = module.starts
      /\ \A r \in Stops : module'.stops[r] = "unused" <=> module.stops[r] = "unused"
  <2> DEFINE settled == [s \in Stops |-> IF module.stops[s] = "pending" THEN "rejected"
                                         ELSE module.stops[s]]
  <2>1. ModuleType /\ module' = [module EXCEPT !.reloads = 1, !.pending = FALSE, !.stops = settled]
    BY DEF invalidate, IInv, Types, ModuleType
  <2>2. /\ settled \in [Stops -> {"unused", "pending", "off", "resolved", "rejected"}]
        /\ \A r \in Stops : settled[r] = "unused" <=> module.stops[r] = "unused"
    BY <2>1 DEF ModuleType
  <2> HIDE DEF settled
  <2>3. module'.stops = settled /\ module'.starts = module.starts
    BY <2>1 DEF ModuleType
  <2>4. ~module'.pending
    BY <2>1 DEF ModuleType
  <2>5. ModuleType'
    <3> DEFINE no == FALSE
    <3>1. no \in BOOLEAN /\ module' = [module EXCEPT !.reloads = 1, !.pending = no, !.stops = settled]
      BY <2>1
    <3> HIDE DEF no
    <3>2. module' = [pending |-> no, starts |-> module.starts, reloads |-> 1,
                     stops |-> settled]
      BY Zenon, <2>1, <3>1 DEF ModuleType
    <3> QED BY <2>1, <2>2, <3>1, <3>2 DEF ModuleType
  <2> QED BY <2>2, <2>3, <2>4, <2>5
<1>3. RequestInv'
  BY <1>1, <1>2, SettleStep
<1>4. StatusType' /\ AndroidType' /\ QueueInv' /\ KeepsMessages
  BY <1>1 DEF IInv, Types, StatusType, AndroidType, QueueInv, KeepsMessages
<1>5. Types' /\ OwnerInv' /\ Open' = Open /\ (PermissionInv' /\ StatusInv' => IInv')
  BY <1>1, <1>2, <1>3, <1>4, CallFrame
<1> QED BY <1>1, <1>2, <1>5 DEF PermissionInv, StatusInv, IInv

\* Revoking the permission keeps the invariant.
LEMMA OnRevokeStep == ASSUME Bounds, IInv, onRevoke PROVE IInv'
<1> DEFINE a == [android EXCEPT !.granted = FALSE, !.revokes = @ + 1]
<1>1. /\ a \in Androids /\ a.queue = android.queue /\ ~a.granted
      /\ a.record = android.record /\ a.inst = android.inst
      /\ android.inst \in 0 .. (MaxStarts + MaxStops)
  <2>1. android \in Androids
    BY DEF IInv, Types, AndroidType, Androids
  <2>2. a.queue = android.queue /\ a.record = android.record /\ a.inst = android.inst
    BY <2>1 DEF Androids
  <2>3. ~a.granted
    BY <2>1 DEF Androids
  <2>4. a \in Androids
    <3> DEFINE no == FALSE
    <3>1. no \in BOOLEAN /\ a = [android EXCEPT !.granted = no, !.revokes = @ + 1]
      OBVIOUS
    <3> HIDE DEF no, a
    <3>2. a = [record |-> android.record, inst |-> android.inst, queue |-> android.queue,
               granted |-> no, revokes |-> android.revokes + 1]
      BY Zenon, <2>1, <3>1 DEF Androids
    <3> QED BY <2>1, <3>1, <3>2 DEF Androids
  <2> QED BY <2>1, <2>2, <2>3, <2>4 DEF Androids
<1>2. android' = stopSelf(a, android.inst) /\ UNCHANGED <<status, module, service, main, tunnels, token>>
  BY DEF onRevoke
<1> HIDE DEF a
<1>3. /\ AndroidType' /\ QueueInv' /\ KeepsMessages
      /\ android'.inst = android.inst /\ ~android'.granted
  BY <1>1, <1>2, StopStep DEF IInv
<1>4. ModuleType' /\ StatusType'
  BY <1>2 DEF IInv, Types, ModuleType, StatusType
<1>5. RequestInv'
  BY <1>2, <1>3, <1>4, SettleStep
<1>6. Types' /\ OwnerInv' /\ Open' = Open /\ (PermissionInv' /\ StatusInv' => IInv')
  BY <1>2, <1>3, <1>4, <1>5, CallFrame
<1> QED BY <1>2, <1>3, <1>6 DEF PermissionInv, StatusInv, IInv

----------------------------------------------------------------------------
(* The main thread.                                                         *)

\* The main thread takes its next message: it is one for the owner of an open tunnel.
LEMMA TakeStep ==
  ASSUME Bounds, IInv, NEW act, Take(act)
  PROVE  LET m == Head(android.queue) IN
         /\ m \in Message /\ m.act = act /\ m.inst \in Instances /\ m.stop \in 0 .. MaxStops
         /\ AndroidType' /\ QueueInv'
         /\ android'.inst = android.inst /\ android'.granted = android.granted
         /\ act # "DESTROY" => Follows(android', m.inst, 0)
         /\ \A t \in Open : tunnels[t].inst = m.inst
<1>1. /\ android \in Androids /\ android.queue # <<>> /\ Ordered(android)
      /\ android' = [android EXCEPT !.queue = Tail(@)]
      /\ main = MainIdle /\ Head(android.queue).act = act
  BY DEF Take, IInv, Types, AndroidType, Androids, QueueInv
<1>2. LET b == [android EXCEPT !.queue = Tail(@)] IN
         /\ b \in Androids /\ b.inst = android.inst /\ b.record = android.record
         /\ b.granted = android.granted
         /\ Head(android.queue) \in Message
         /\ Ordered(b)
         /\ Head(android.queue).act # "DESTROY" => Follows(b, Head(android.queue).inst, 0)
         /\ \A i \in Instances : Follows(android, i, 0) => Head(android.queue).inst = i
  BY <1>1, TakeFollows
<1>3. AndroidType' /\ QueueInv'
  BY <1>1, <1>2 DEF IInv, Types, AndroidType, Androids, QueueInv
<1>4. ASSUME NEW t \in Open PROVE tunnels[t].inst = Head(android.queue).inst
  <2>1. tunnels[t].inst \in Instances
    BY TunnelElement DEF IInv, Types, Open
  <2>2. Follows(android, tunnels[t].inst, 0)
    BY <1>1 DEF IInv, OwnerInv, MainIdle
  <2> QED BY <1>2, <2>1, <2>2
<1> QED BY <1>1, <1>2, <1>3, <1>4 DEF Message

\* onStartCommand with START: a second tunnel is refused, and establish answers
\* or fails.
LEMMA StartCommandStep == ASSUME Bounds, IInv, onStartCommand_start PROVE IInv'
<1> DEFINE i == Head(android.queue).inst
<1>1. Take("START") /\ UNCHANGED <<module, main, token>> /\ main = MainIdle
  BY DEF onStartCommand_start, Take
<1>2. /\ i \in Instances /\ AndroidType' /\ QueueInv'
      /\ android'.inst = android.inst /\ android'.granted = android.granted
      /\ Follows(android', i, 0)
      /\ \A t \in Open : tunnels[t].inst = i
  BY <1>1, TakeStep
<1> HIDE DEF i
<1>3. ModuleType' /\ MainType' /\ RequestInv'
  <2>1. ModuleType' /\ MainType'
    BY <1>1 DEF IInv, Types, ModuleType, MainType
  <2> QED BY <1>1, <1>2, <2>1, SettleStep
<1>4. CASE \/ service[i].descriptor # 0 /\ status' = Status("blocked", FALSE, "scope")
             /\ UNCHANGED <<service, tunnels>>
           \/ service[i].descriptor = 0 /\ status' = Status("blocked", FALSE, "start")
             /\ UNCHANGED <<service, tunnels>>
  <2>1. UNCHANGED <<service, tunnels, token>>
    BY Zenon, <1>1, <1>4
  <2>2. StatusType' /\ status'.phase = "blocked"
    <3>1. CASE status' = Status("blocked", FALSE, "scope")
      BY <3>1 DEF StatusType, Status
    <3>2. CASE status' = Status("blocked", FALSE, "start")
      BY <3>2 DEF StatusType, Status
    <3> QED BY Zenon, <1>4, <3>1, <3>2
  <2>3. ServiceType' /\ Open' = Open
    BY <2>1, UnchangedTunnels, ServiceFrame, SameOpen DEF IInv, Types
  <2>4. OwnerInv'
    BY <1>1, <1>2, <2>1, <2>3 DEF IInv, OwnerInv
  <2>5. Types'
    BY <1>2, <1>3, <2>2, <2>3 DEF Types
  <2> QED BY <1>1, <1>2, <1>3, <2>2, <2>3, <2>4, <2>5 DEF IInv, PermissionInv, StatusInv, MainIdle
<1>5. CASE /\ service[i].descriptor = 0 /\ android.granted
           /\ tunnels' = Append(tunnels, [inst |-> i, fd |-> "open",
                                          job |-> "queued", cancelled |-> FALSE])
           /\ service' = [service EXCEPT ![i] = [descriptor |-> Len(tunnels) + 1,
                                                 stopping |-> FALSE]]
           /\ status' = Status("active", TRUE, "none")
  <2> DEFINE new == [inst |-> i, fd |-> "open", job |-> "queued", cancelled |-> FALSE]
             n == Len(tunnels) + 1
  <2>1. ServiceType
    BY DEF IInv, Types
  <2>2. Open = {}
    <3> SUFFICES ASSUME NEW t \in Open PROVE FALSE
      OBVIOUS
    <3>1. service[i].descriptor = t /\ t \in 1 .. Len(tunnels)
      BY <1>2, <2>1, TunnelElement DEF IInv, OwnerInv, Open
    <3> QED BY <1>5, <3>1, <2>1 DEF ServiceType
  <2>3. new \in Tunnel /\ new.fd = "open" /\ new.inst = i
    BY <1>2 DEF Tunnel
  <2>4. /\ tunnels' \in Seq(Tunnel) /\ Len(tunnels') = n /\ n \in Nat /\ n > 0
        /\ DOMAIN tunnels' = 1 .. n /\ DOMAIN tunnels = 1 .. n - 1
        /\ tunnels'[n] = new /\ \A t \in 1 .. n - 1 : tunnels'[t] = tunnels[t]
    BY <1>5, <2>1, <2>3 DEF ServiceType
  <2> HIDE DEF new, n
  <2>5. Open' = {n}
    BY <2>2, <2>3, <2>4 DEF Open
  <2>6. /\ service'[i].descriptor = n
        /\ service' \in [Instances -> [descriptor : Nat, stopping : BOOLEAN]]
        /\ \A j \in Instances : j # i => service'[j] = service[j]
    <3>1. n = Len(tunnels) + 1 /\ service \in [Instances -> [descriptor : Nat, stopping : BOOLEAN]]
      BY <2>1 DEF ServiceType, n
    <3> QED BY <1>2, <1>5, <2>4, <3>1
  <2>7. ServiceType'
    <3>1. ASSUME NEW j \in Instances PROVE service'[j].descriptor <= n
      <4>1. CASE j = i
        BY <2>4, <2>6, <4>1
      <4>2. CASE j # i
        <5>1. n = Len(tunnels) + 1 /\ Len(tunnels) \in Nat /\ service[j].descriptor \in Nat
              /\ service[j].descriptor <= Len(tunnels)
          BY <2>1 DEF ServiceType, n
        <5>2. service'[j] = service[j]
          BY <2>6, <4>2
        <5> QED BY <5>1, <5>2
      <4> QED BY <4>1, <4>2
    <3>2. token' \in 0 .. n
      BY <1>1, <2>1, <2>4 DEF ServiceType, n
    <3> QED BY <2>4, <2>6, <3>1, <3>2 DEF ServiceType
  <2>8. StatusType' /\ status'.phase = "active"
    BY <1>5 DEF StatusType, Status
  <2>9. OwnerInv'
    BY <1>1, <1>2, <2>3, <2>4, <2>5, <2>6 DEF OwnerInv
  <2>10. Types'
    BY <1>2, <1>3, <2>7, <2>8 DEF Types
  <2>11. PermissionInv'
    BY <1>1, <1>5 DEF IInv, PermissionInv
  <2> QED BY <1>1, <1>2, <1>3, <2>5, <2>8, <2>9, <2>10, <2>11 DEF IInv, StatusInv, MainIdle
<1> QED BY Zenon, <1>4, <1>5 DEF onStartCommand_start, i

\* onStartCommand with STOP, and onDestroy: stopTunnel begins.
LEMMA TakeStopStep == ASSUME Bounds, IInv, onStartCommand_stop \/ onDestroy PROVE IInv'
<1> DEFINE m == Head(android.queue)
<1>1. \E act \in {"STOP", "DESTROY"} : Take(act)
  BY DEF onStartCommand_stop, onDestroy
<1>2. /\ m.inst \in Instances /\ m.stop \in 0 .. MaxStops /\ AndroidType' /\ QueueInv'
      /\ android'.inst = android.inst /\ android'.granted = android.granted
      /\ \A t \in Open : tunnels[t].inst = m.inst
  BY <1>1, TakeStep
<1> HIDE DEF m
<1>3. UNCHANGED <<module, service, tunnels, token>>
  BY DEF onStartCommand_stop, onDestroy
<1>4. /\ main' \in [pc : {"native"}, inst : Instances, stop : 0 .. MaxStops]
      /\ main'.pc = "native" /\ main'.inst = m.inst
  BY <1>2 DEF onStartCommand_stop, onDestroy, m, Bounds
<1>5. main = MainIdle
  BY <1>1 DEF Take
<1>6. StatusType' /\ (status' = status \/ status'.phase = "stopping")
  <2>1. CASE onStartCommand_stop
    BY <2>1 DEF onStartCommand_stop, markStopping, StatusType, Status
  <2>2. CASE onDestroy
    BY <2>2 DEF onDestroy, IInv, Types, StatusType
  <2> QED BY <2>1, <2>2
<1>7. ServiceType' /\ Open' = Open
  BY <1>3, UnchangedTunnels, ServiceFrame, SameOpen DEF IInv, Types
<1>8. OwnerInv'
  BY <1>2, <1>3, <1>4, <1>7 DEF IInv, OwnerInv
<1>9. ModuleType' /\ MainType'
  BY <1>3, <1>4 DEF IInv, Types, ModuleType, MainType
<1>10. RequestInv'
  BY <1>2, <1>3, <1>9, SettleStep
<1>11. Types'
  BY <1>2, <1>6, <1>7, <1>9 DEF Types
<1>12. PermissionInv'
  BY <1>2, <1>3, <1>7 DEF IInv, PermissionInv
<1>13. StatusInv'
  BY <1>4, <1>6, <1>7 DEF IInv, StatusInv, MainIdle
<1> QED BY <1>2, <1>8, <1>10, <1>11, <1>12, <1>13 DEF IInv

\* stopTunnel up to nativeStop keeps the invariant.
LEMMA StopNativeStep == ASSUME Bounds, IInv, stopTunnel_native PROVE IInv'
<1>1. /\ ServiceType /\ main.pc = "native" /\ main.inst \in Instances
      /\ main \in [pc : {"native"}, inst : Instances, stop : 0 .. MaxStops]
  BY DEF stopTunnel_native, IInv, Types, MainType, MainIdle
<1>2. UNCHANGED <<status, module, android>> /\ token' = 0
  BY DEF stopTunnel_native
<1>3. /\ main' \in [pc : {"close"}, inst : Instances, stop : 0 .. MaxStops]
      /\ main'.pc = "close" /\ main'.inst = main.inst
  BY <1>1 DEF stopTunnel_native
<1>4. SameTunnels
  <2> DEFINE f == [t \in DOMAIN tunnels |->
                     IF t = token THEN [tunnels[t] EXCEPT !.cancelled = TRUE]
                     ELSE tunnels[t]]
  <2>1. ASSUME NEW t \in DOMAIN tunnels
        PROVE  f[t] \in Tunnel /\ f[t].inst = tunnels[t].inst /\ f[t].fd = tunnels[t].fd
    <3>1. tunnels[t] \in Tunnel
      BY <1>1, TunnelElement
    <3> QED BY Zenon, <3>1 DEF Tunnel
  <2>2. tunnels' = f
    BY DEF stopTunnel_native
  <2>3. DOMAIN f = DOMAIN tunnels /\ f = [t \in DOMAIN tunnels |-> f[t]]
    OBVIOUS
  <2> HIDE DEF f
  <2> QED BY <1>1, <2>1, <2>2, <2>3, MapTunnels
<1>5. /\ service' \in [Instances -> [descriptor : Nat, stopping : BOOLEAN]]
      /\ SameDescriptors
  BY Zenon, <1>1 DEF stopTunnel_native, ServiceType, SameDescriptors
<1>6. ServiceType' /\ Open' = Open
  BY <1>1, <1>2, <1>4, <1>5, SameOpen
     DEF ServiceType, SameTunnels, SameDescriptors
<1>7. OwnerInv'
  <2>1. ASSUME NEW t \in Open PROVE tunnels[t].inst \in Instances /\ tunnels'[t].inst = tunnels[t].inst
    BY <1>1, <1>4, TunnelElement DEF Open, SameTunnels
  <2> QED BY <1>1, <1>3, <1>5, <1>6, <2>1 DEF IInv, OwnerInv, SameDescriptors, MainIdle
<1>8. StatusType' /\ ModuleType' /\ AndroidType' /\ MainType' /\ QueueInv'
  BY <1>2, <1>3 DEF IInv, Types, StatusType, ModuleType, AndroidType, MainType, QueueInv
<1>9. RequestInv'
  BY <1>2, <1>8, SettleStep
<1> QED BY <1>2, <1>3, <1>6, <1>7, <1>8, <1>9 DEF IInv, Types, PermissionInv, StatusInv, MainIdle

\* Destroyed drops jobs only.
LEMMA DestroyedTunnels ==
  ASSUME ServiceType, NEW ts, ts \in Seq(Tunnel), Len(ts) = Len(tunnels)
  PROVE  /\ Destroyed(ts) \in Seq(Tunnel) /\ Len(Destroyed(ts)) = Len(tunnels)
         /\ \A t \in DOMAIN tunnels : /\ Destroyed(ts)[t].inst = ts[t].inst
                                      /\ Destroyed(ts)[t].fd = ts[t].fd
<1>1. /\ Len(tunnels) \in Nat /\ DOMAIN tunnels = 1 .. Len(tunnels)
      /\ DOMAIN ts = 1 .. Len(tunnels)
  BY DEF ServiceType
<1>2. ASSUME NEW t \in 1 .. Len(tunnels)
      PROVE  /\ Destroyed(ts)[t] \in Tunnel
             /\ Destroyed(ts)[t].inst = ts[t].inst /\ Destroyed(ts)[t].fd = ts[t].fd
  <2>1. ts[t] \in Tunnel
    BY <1>1
  <2> QED BY <1>1, <2>1 DEF Destroyed, Tunnel
<1>3. Destroyed(ts) \in [1 .. Len(tunnels) -> Tunnel]
  BY <1>1, <1>2 DEF Destroyed
<1>4. Destroyed(ts) \in Seq(Tunnel) /\ Len(Destroyed(ts)) = Len(tunnels)
  BY <1>1, <1>3
<1> QED BY <1>1, <1>2, <1>4

\* While the main thread is closing, the tunnel of its instance is the only one open.
LEMMA OnlyOpen ==
  ASSUME IInv, main.pc = "close"
  PROVE  /\ main \in [pc : {"close"}, inst : Instances, stop : 0 .. MaxStops]
         /\ \A t \in Open : t = service[main.inst].descriptor
<1>1. main \in [pc : {"close"}, inst : Instances, stop : 0 .. MaxStops]
  BY DEF IInv, Types, MainType, MainIdle
<1> QED BY <1>1 DEF IInv, OwnerInv, MainIdle

\* Closing, well or badly, leaves no tunnel open.
LEMMA ClosedTunnels ==
  ASSUME Bounds, IInv, main.pc = "close", NEW d, d = service[main.inst].descriptor, d # 0,
         NEW fd \in {"closed", "failed"}, NEW ts, ts = [tunnels EXCEPT ![d].fd = fd]
  PROVE  /\ ts \in Seq(Tunnel) /\ Len(ts) = Len(tunnels) /\ DOMAIN ts = DOMAIN tunnels
         /\ \A t \in DOMAIN tunnels : ts[t].fd # "open"
<1>1. /\ main.inst \in Instances /\ tunnels \in Seq(Tunnel) /\ d \in 1 .. Len(tunnels)
      /\ \A t \in Open : t = d
  BY OnlyOpen DEF IInv, Types, ServiceType
<1>2. d \in DOMAIN tunnels /\ tunnels[d] \in Tunnel
  BY <1>1
<1>3. [tunnels[d] EXCEPT !.fd = fd] \in Tunnel /\ [tunnels[d] EXCEPT !.fd = fd].fd = fd
  BY <1>2 DEF Tunnel
<1>4. ts = [tunnels EXCEPT ![d] = [tunnels[d] EXCEPT !.fd = fd]]
  OBVIOUS
<1>5. ts \in Seq(Tunnel) /\ Len(ts) = Len(tunnels)
  BY SMTT(30), <1>1, <1>2, <1>3, <1>4
<1> QED BY <1>1, <1>2, <1>3, <1>4, <1>5 DEF Open

\* Closing the descriptor, or failing to, keeps the invariant.
LEMMA StopCloseStep == ASSUME Bounds, IInv, stopTunnel_close PROVE IInv'
<1> DEFINE d == service[main.inst].descriptor
<1>1. /\ main.pc = "close" /\ UNCHANGED <<android, token>> /\ ServiceType
      /\ main \in [pc : {"close"}, inst : Instances, stop : 0 .. MaxStops]
      /\ \A t \in Open : t = d
  BY OnlyOpen DEF stopTunnel_close, IInv, Types
<1>2. DOMAIN tunnels = 1 .. Len(tunnels) /\ d \in 0 .. Len(tunnels) /\ Len(tunnels) \in Nat
  BY <1>1 DEF ServiceType
<1> HIDE DEF d
<1>3. AndroidType' /\ QueueInv'
  BY <1>1 DEF IInv, Types, AndroidType, QueueInv
<1>4. CASE /\ tunnels' = IF d = 0 THEN tunnels ELSE [tunnels EXCEPT ![d].fd = "closed"]
           /\ service' = [service EXCEPT ![main.inst].descriptor = 0]
           /\ main' = [main EXCEPT !.pc = "status"]
           /\ UNCHANGED <<status, module>>
  <2>1. tunnels' \in Seq(Tunnel) /\ Len(tunnels') = Len(tunnels) /\ Open' = {}
    <3>1. CASE d = 0
      <4>1. Open = {} /\ tunnels' = tunnels
        BY <1>1, <1>2, <1>4, <3>1 DEF Open
      <4> QED BY <1>1, <4>1 DEF ServiceType, Open
    <3>2. CASE d # 0
      <4>1. /\ tunnels' \in Seq(Tunnel) /\ Len(tunnels') = Len(tunnels)
            /\ DOMAIN tunnels' = DOMAIN tunnels
            /\ \A t \in DOMAIN tunnels : tunnels'[t].fd # "open"
        BY Zenon, <1>1, <1>4, <3>2, ClosedTunnels DEF d
      <4> QED BY <4>1 DEF Open
    <3> QED BY <3>1, <3>2
  <2>2. ServiceType'
    <3>1. /\ service' \in [Instances -> [descriptor : Nat, stopping : BOOLEAN]]
          /\ \A i \in Instances : service'[i].descriptor <= Len(tunnels)
      <4>1. LET r == [service[main.inst] EXCEPT !.descriptor = 0] IN
            r \in [descriptor : Nat, stopping : BOOLEAN] /\ r.descriptor = 0
        BY Zenon, <1>1 DEF ServiceType
      <4>2. \A i \in Instances : service[i].descriptor \in 0 .. Len(tunnels)
        BY <1>1, <1>2 DEF ServiceType
      <4> QED BY <1>1, <1>2, <1>4, <4>1, <4>2 DEF ServiceType
    <3> QED BY <1>1, <2>1, <3>1 DEF ServiceType
  <2>3. /\ main' \in [pc : {"status"}, inst : Instances, stop : 0 .. MaxStops]
        /\ main'.pc = "status"
    BY <1>1, <1>4
  <2>4. StatusType' /\ ModuleType' /\ MainType'
    BY <1>4, <2>3 DEF IInv, Types, StatusType, ModuleType, MainType
  <2>5. RequestInv'
    BY <1>1, <1>4, <2>4, SettleStep
  <2> QED BY <1>1, <1>3, <1>4, <2>1, <2>2, <2>3, <2>4, <2>5
        DEF IInv, Types, OwnerInv, PermissionInv, StatusInv, MainIdle
<1>5. CASE /\ d # 0
           /\ markStopFailed
           /\ tunnels' = Destroyed([tunnels EXCEPT ![d].fd = "failed"])
           /\ main' = MainIdle
           /\ IF main.stop = 0 THEN UNCHANGED module
              ELSE completeTunnelStop(main.stop, "rejected")
           /\ UNCHANGED service
  <2> DEFINE ts == [tunnels EXCEPT ![d].fd = "failed"]
  <2>1. /\ ts \in Seq(Tunnel) /\ Len(ts) = Len(tunnels) /\ DOMAIN ts = DOMAIN tunnels
        /\ \A t \in DOMAIN tunnels : ts[t].fd # "open"
    BY Zenon, <1>1, <1>5, ClosedTunnels DEF d
  <2>2. tunnels' = Destroyed(ts)
    BY <1>5
  <2> HIDE DEF ts
  <2>3. /\ tunnels' \in Seq(Tunnel) /\ Len(tunnels') = Len(tunnels)
        /\ \A t \in DOMAIN tunnels : tunnels'[t].fd # "open"
    BY <1>1, <2>1, <2>2, DestroyedTunnels
  <2>4. Open' = {}
    <3>1. DOMAIN tunnels' = DOMAIN tunnels
      BY <1>2, <2>3
    <3> QED BY <2>3, <3>1 DEF Open
  <2>5. ServiceType'
    BY Zenon, <1>1, <1>5, <2>3 DEF ServiceType
  <2>6. StatusType' /\ status'.phase = "blocked"
    BY <1>5 DEF markStopFailed, StatusType, Status
  <2>7. /\ ModuleType' /\ module'.pending = module.pending /\ module'.starts = module.starts
        /\ \A r \in Stops : module'.stops[r] = "unused" <=> module.stops[r] = "unused"
    <3>1. CASE main.stop = 0
      BY <1>5, <3>1 DEF IInv, Types, ModuleType
    <3>2. CASE main.stop # 0
      <4>1. main.stop \in Stops
        BY <1>1, <3>2 DEF Stops, Bounds
      <4> QED BY <1>5, <3>2, <4>1, CompleteStop DEF IInv, Types
    <3> QED BY <3>1, <3>2
  <2>8. RequestInv'
    BY <1>1, <2>7, SettleStep
  <2>9. MainType'
    BY <1>5 DEF MainType
  <2> QED BY SMTT(30), <1>1, <1>3, <1>5, <2>4, <2>5, <2>6, <2>7, <2>8, <2>9
        DEF IInv, Types, OwnerInv, PermissionInv, StatusInv, MainIdle
<1> QED BY <1>4, <1>5 DEF stopTunnel_close, d

\* Once the descriptor is closed, no tunnel is open until the next message.
LEMMA NoneOpen ==
  ASSUME IInv, main.pc \in {"status", "ack"}
  PROVE  Open = {} /\ main \in [pc : {"status", "ack"}, inst : Instances, stop : 0 .. MaxStops]
BY DEF IInv, OwnerInv, Types, MainType, MainIdle

\* Publishing "off" keeps the invariant: the descriptor is closed.
LEMMA StopStatusStep == ASSUME Bounds, IInv, stopTunnel_status PROVE IInv'
<1>1. /\ Open = {} /\ UNCHANGED <<module, android, service, tunnels, token>>
      /\ main \in [pc : {"status", "ack"}, inst : Instances, stop : 0 .. MaxStops]
  BY NoneOpen DEF stopTunnel_status
<1>2. StatusType' /\ status'.phase = "off"
  BY DEF stopTunnel_status, StatusType, Status
<1>3. /\ main' \in [pc : {"ack"}, inst : Instances, stop : 0 .. MaxStops] /\ main'.pc = "ack"
  BY <1>1 DEF stopTunnel_status
<1>4. ModuleType' /\ AndroidType' /\ ServiceType' /\ MainType' /\ QueueInv'
  BY <1>1, <1>3 DEF IInv, Types, ModuleType, AndroidType, ServiceType, MainType, QueueInv
<1>5. Open' = {}
  BY <1>1 DEF Open
<1>6. RequestInv'
  BY <1>1, <1>4, SettleStep
<1> QED BY <1>1, <1>2, <1>3, <1>4, <1>5, <1>6
      DEF IInv, Types, OwnerInv, PermissionInv, StatusInv, MainIdle

\* stopSelf and the acknowledgement of the stop keep the invariant.
LEMMA StopAckStep == ASSUME Bounds, IInv, stopTunnel_ack PROVE IInv'
<1>1. /\ Open = {} /\ UNCHANGED <<status, service, token>> /\ main' = MainIdle
      /\ main \in [pc : {"status", "ack"}, inst : Instances, stop : 0 .. MaxStops]
      /\ tunnels' = Destroyed(tunnels) /\ ServiceType /\ status.phase # "active"
  BY NoneOpen DEF stopTunnel_ack, IInv, Types, StatusInv
<1>2. SameTunnels
  BY <1>1, DestroyedTunnels DEF ServiceType, SameTunnels
<1>3. Open' = {} /\ ServiceType'
  BY <1>1, <1>2, SameOpen, ServiceFrame
<1>4. /\ ModuleType' /\ module'.pending = module.pending /\ module'.starts = module.starts
      /\ \A r \in Stops : module'.stops[r] = "unused" <=> module.stops[r] = "unused"
  <2>1. CASE main.stop = 0
    BY <2>1 DEF stopTunnel_ack, IInv, Types, ModuleType
  <2>2. CASE main.stop # 0
    <3>1. main.stop \in Stops
      BY <1>1, <2>2 DEF Stops, Bounds
    <3>2. PICK outcome \in {"off", "resolved"} : completeTunnelStop(main.stop, outcome)
      BY <2>2 DEF stopTunnel_ack
    <3> QED BY <3>1, <3>2, CompleteStop DEF IInv, Types
  <2> QED BY <2>1, <2>2
<1>5. /\ AndroidType' /\ QueueInv'
      /\ android'.inst = android.inst /\ android'.granted = android.granted
  <2>1. CASE main.stop = 0
    BY <2>1 DEF stopTunnel_ack, IInv, Types, AndroidType, QueueInv
  <2>2. CASE main.stop # 0
    <3>1. android \in Androids /\ main.inst \in 0 .. (MaxStarts + MaxStops)
      BY <1>1 DEF IInv, Types, AndroidType, Androids, Instances, Bounds
    <3>2. android' = stopSelf(android, main.inst)
      BY <2>2 DEF stopTunnel_ack
    <3> QED BY <3>1, <3>2, StopStep DEF IInv
  <2> QED BY <2>1, <2>2
<1>6. RequestInv'
  BY <1>4, <1>5, SettleStep
<1>7. StatusType' /\ MainType'
  BY <1>1 DEF IInv, Types, StatusType, MainType
<1> QED BY <1>1, <1>3, <1>4, <1>5, <1>6, <1>7
      DEF IInv, Types, OwnerInv, PermissionInv, StatusInv, MainIdle

----------------------------------------------------------------------------
(* The translator.                                                          *)

\* The translator jobs keep the invariant.
LEMMA TranslatorStep ==
  ASSUME Bounds, IInv, NEW t \in DOMAIN tunnels,
         job_reads_fd(t) \/ nativeStart(t) \/ native_returns(t)
           \/ job_checks_stopping(t) \/ job_reports(t)
  PROVE  IInv'
<1>1. UNCHANGED <<module, android, service, main>>
  BY Zenon DEF job_reads_fd, nativeStart, native_returns, job_checks_stopping, job_reports
<1>2. PICK job \in {"queued", "read", "running", "failed", "reports", "done"} : Moves(t, job)
  BY Zenon DEF job_reads_fd, nativeStart, native_returns, job_checks_stopping, job_reports
<1>3. SameTunnels /\ ServiceType
  BY <1>2, MoveTunnels DEF IInv, Types
<1>4. t \in 1 .. Len(tunnels) /\ Len(tunnels) \in Nat
  BY <1>3, TunnelElement DEF ServiceType
<1>5. token' \in 0 .. Len(tunnels)
  <2>1. token \in 0 .. Len(tunnels) /\ t \in 0 .. Len(tunnels) /\ 0 \in 0 .. Len(tunnels)
    BY <1>3, <1>4 DEF ServiceType
  <2>2. token' = token \/ token' = t \/ token' = 0
    BY Zenon DEF job_reads_fd, nativeStart, native_returns, job_checks_stopping, job_reports
  <2> QED BY <2>1, <2>2
<1>6. ServiceType' /\ Open' = Open
  BY <1>1, <1>3, <1>5, SameOpen DEF ServiceType, SameTunnels
<1>7. StatusType' /\ (status' = status \/ status'.phase = "blocked")
  <2>1. CASE UNCHANGED status
    BY <2>1 DEF IInv, Types, StatusType
  <2>2. CASE status' = Status("blocked", TRUE, "translator")
    BY <2>2 DEF StatusType, Status
  <2> QED BY Zenon, <2>1, <2>2
        DEF job_reads_fd, nativeStart, native_returns, job_checks_stopping, job_reports
<1>8. OwnerInv'
  <2>1. KeepsMessages /\ SameDescriptors
    BY <1>1 DEF KeepsMessages, SameDescriptors
  <2> QED BY <1>1, <1>3, <2>1, OwnerFrame DEF IInv
<1>9. ModuleType' /\ AndroidType' /\ MainType' /\ QueueInv'
  BY <1>1 DEF IInv, Types, ModuleType, AndroidType, MainType, QueueInv
<1>10. RequestInv'
  BY <1>1, <1>9, SettleStep
<1> QED BY SMTT(30), <1>1, <1>6, <1>7, <1>8, <1>9, <1>10 DEF IInv, Types, PermissionInv, StatusInv

----------------------------------------------------------------------------
\* The invariant is inductive.
LEMMA StepInv == ASSUME Bounds, IInv, [TunnelNext]_tunnelVars PROVE IInv'
<1>1. CASE Calls
  BY <1>1, SetSystemTunnelStep, OnActivityResultStep, StopSystemTunnelStep, TimeoutStep,
     InvalidateStep, OnRevokeStep DEF Calls
<1>2. CASE MainThread
  BY <1>2, StartCommandStep, TakeStopStep, StopNativeStep, StopCloseStep, StopStatusStep,
     StopAckStep DEF MainThread
<1>3. CASE Translator
  BY SMTT(30), <1>3, TranslatorStep DEF Translator
<1>4. CASE UNCHANGED tunnelVars
  BY <1>4 DEF tunnelVars, IInv, Types, StatusType, ModuleType, AndroidType, ServiceType, MainType,
     RequestInv, QueueInv, OwnerInv, PermissionInv, StatusInv, Open
<1> QED BY <1>1, <1>2, <1>3, <1>4 DEF TunnelNext

\* What the inductive invariant says in the terms of the runs.
LEMMA InvTruthful == ASSUME Bounds, IInv PROVE TunnelTypeOK /\ TunnelIsTruthful
<1>1. TunnelTypeOK
  <2>1. /\ \A i \in Instances : service[i].descriptor \in 0 .. Len(tunnels)
        /\ \A t \in DOMAIN tunnels :
             tunnels[t].job \in {"queued", "read", "running", "failed", "reports", "done"}
    <3>1. ServiceType
      BY DEF IInv, Types
    <3>2. \A t \in DOMAIN tunnels : tunnels[t] \in Tunnel
      BY <3>1, TunnelElement
    <3> QED BY <3>1, <3>2 DEF ServiceType, Tunnel
  <2>2. main.pc \in {"idle", "native", "close", "status", "ack"}
    BY DEF IInv, Types, MainType, MainIdle
  <2> QED BY <2>1, <2>2 DEF TunnelTypeOK, IInv, Types, StatusType, ModuleType, AndroidType, ServiceType
<1>2. \A t, u \in Open : t = u
  <2> SUFFICES ASSUME NEW t \in Open, NEW u \in Open PROVE t = u
    OBVIOUS
  <2>1. tunnels[t].inst \in Instances /\ tunnels[u].inst \in Instances
    BY TunnelElement DEF IInv, Types, Open
  <2>2. tunnels[t].inst = tunnels[u].inst
    <3>1. CASE main.pc \in {"native", "close"}
      BY <3>1 DEF IInv, OwnerInv, MainIdle
    <3>2. CASE main = MainIdle
      <4>1. Follows(android, tunnels[t].inst, 0) /\ Follows(android, tunnels[u].inst, 0)
        BY <3>2 DEF IInv, OwnerInv, MainIdle
      <4>2. CASE android.queue = <<>>
        BY <4>1, <4>2 DEF Follows
      <4>3. CASE android.queue # <<>>
        <5>1. android \in Androids /\ Ordered(android)
          BY DEF IInv, Types, AndroidType, Androids, QueueInv
        <5>2. LET b == [android EXCEPT !.queue = Tail(@)] IN
              /\ b \in Androids /\ b.inst = android.inst /\ b.record = android.record
              /\ b.granted = android.granted
              /\ Head(android.queue) \in Message
              /\ Ordered(b)
              /\ Head(android.queue).act # "DESTROY" => Follows(b, Head(android.queue).inst, 0)
              /\ \A i \in Instances : Follows(android, i, 0) => Head(android.queue).inst = i
          BY <4>3, <5>1, TakeFollows
        <5> QED BY <2>1, <4>1, <5>2
      <4> QED BY <4>2, <4>3
    <3> QED BY <3>1, <3>2 DEF IInv, OwnerInv
  <2> QED BY <2>2 DEF IInv, OwnerInv
<1>3. Cardinality(Open) <= 1
  <2>1. CASE Open = {}
    BY <2>1, FS_EmptySet
  <2>2. ASSUME NEW t \in Open PROVE Cardinality(Open) = 1
    <3>1. Open = {t}
      BY <1>2
    <3> QED BY <3>1, FS_Singleton
  <2> QED BY <2>1, <2>2
<1> QED BY <1>1, <1>3 DEF TunnelIsTruthful, IInv, OwnerInv, StatusInv

\* completeTunnelStop settles one pending stop, and no other.
LEMMA OneSettlement ==
  ASSUME IInv, NEW s \in Stops, NEW outcome, completeTunnelStop(s, outcome)
  PROVE  \A r \in Stops :
            \/ module'.stops[r] = module.stops[r]
            \/ module.stops[r] = "pending" /\ module'.stops[r] = outcome
BY DEF IInv, Types, ModuleType, completeTunnelStop

\* One step of the module, the service or the translator settles as the theorem
\* below says.
LEMMA SettlesOnce == ASSUME Bounds, IInv, TunnelNext PROVE SettledStop
<1> SUFFICES ASSUME NEW r \in Stops
             PROVE  \/ module'.stops[r] = module.stops[r]
                    \/ module.stops[r] = "unused"
                    \/ module.stops[r] = "pending" /\ module'.stops[r] # "off"
                    \/ module.stops[r] = "pending" /\ Open' = {}
  BY DEF SettledStop
<1>1. module.stops \in [Stops -> {"unused", "pending", "off", "resolved", "rejected"}]
      /\ DOMAIN module = {"stops", "pending", "starts", "reloads"}
  BY DEF IInv, Types, ModuleType
<1>2. CASE setSystemTunnel
  BY <1>1, <1>2 DEF setSystemTunnel
<1>3. CASE onActivityResult
  BY <1>1, <1>3 DEF onActivityResult
<1>4. CASE stopSystemTunnel
  <2>1. PICK s \in Stops :
           /\ module.stops[s] = "unused"
           /\ \E new \in {"pending", "rejected"} : module' = [module EXCEPT !.stops[s] = new]
    BY <1>4 DEF stopSystemTunnel
  <2> QED BY <1>1, <2>1
<1>5. CASE stopSystemTunnel_timeout
  <2>1. PICK s \in Stops : completeTunnelStop(s, "rejected")
    BY <1>5 DEF stopSystemTunnel_timeout
  <2> QED BY <2>1, OneSettlement
<1>6. CASE invalidate
  BY <1>1, <1>6 DEF invalidate
<1>7. CASE stopTunnel_close
  <2>1. CASE main.stop = 0
    BY <1>7, <2>1 DEF stopTunnel_close
  <2>2. CASE main.stop # 0
    <3>1. main.stop \in Stops
      BY <1>7, <2>2, OnlyOpen DEF stopTunnel_close, Stops, Bounds
    <3>2. UNCHANGED module \/ completeTunnelStop(main.stop, "rejected")
      BY <1>7, <2>2 DEF stopTunnel_close
    <3> QED BY <3>1, <3>2, OneSettlement
  <2> QED BY <2>1, <2>2
<1>8. CASE stopTunnel_ack
  <2>1. Open = {} /\ main.stop \in 0 .. MaxStops
    BY <1>8, NoneOpen DEF stopTunnel_ack
  <2>2. SameTunnels /\ ServiceType
    BY <1>8, DestroyedTunnels DEF stopTunnel_ack, IInv, Types, ServiceType, SameTunnels
  <2>3. Open' = {}
    BY <2>1, <2>2, SameOpen
  <2>4. CASE main.stop = 0
    BY <1>8, <2>4 DEF stopTunnel_ack
  <2>5. CASE main.stop # 0
    <3>1. main.stop \in Stops
      BY <2>1, <2>5 DEF Stops, Bounds
    <3>2. PICK outcome \in {"off", "resolved"} : completeTunnelStop(main.stop, outcome)
      BY <1>8, <2>5 DEF stopTunnel_ack
    <3> QED BY <2>3, <3>1, <3>2, OneSettlement
  <2> QED BY <2>4, <2>5
<1>9. CASE UNCHANGED module
  BY <1>9
<1> QED BY Zenon, <1>2, <1>3, <1>4, <1>5, <1>6, <1>7, <1>8, <1>9
      DEF TunnelNext, Calls, MainThread, Translator, onRevoke, onStartCommand_start,
          onStartCommand_stop, onDestroy, stopTunnel_native, stopTunnel_status,
          job_reads_fd, nativeStart, native_returns, job_checks_stopping, job_reports

\* The published status is truthful about the tunnel, at most one is ever open and
\* its instance can close it (MasqVpnService), for every number of starts, stops and
\* revocations.
THEOREM TruthfulTunnel == TunnelSpec => []TunnelIsTruthful
<1>0. Bounds
  BY TunnelAssumption DEF Bounds
<1>1. TunnelInit => IInv
  BY <1>0, InitInv
<1>2. IInv /\ [TunnelNext]_tunnelVars => IInv'
  BY <1>0, StepInv
<1>3. IInv => TunnelIsTruthful
  BY <1>0, InvTruthful
<1> QED BY <1>1, <1>2, <1>3, PTL DEF TunnelSpec

\* The variables keep to their values.
THEOREM TypedTunnel == TunnelSpec => []TunnelTypeOK
<1>0. Bounds
  BY TunnelAssumption DEF Bounds
<1>1. TunnelInit => IInv
  BY <1>0, InitInv
<1>2. IInv /\ [TunnelNext]_tunnelVars => IInv'
  BY <1>0, StepInv
<1>3. IInv => TunnelTypeOK
  BY <1>0, InvTruthful
<1> QED BY <1>1, <1>2, <1>3, PTL DEF TunnelSpec

\* A stop promise that resolves with "off" leaves no descriptor open, and no late
\* acknowledgement, timeout or reload settles a stop again (completeTunnelStop).
THEOREM AcknowledgedStop == TunnelSpec => StopIsAcknowledgedClosed
<1>0. Bounds
  BY TunnelAssumption DEF Bounds
<1>1. TunnelInit => IInv
  BY <1>0, InitInv
<1>2. IInv /\ [TunnelNext]_tunnelVars => IInv'
  BY <1>0, StepInv
<1>3. IInv /\ [TunnelNext]_tunnelVars => [SettledStop]_tunnelVars
  BY <1>0, SettlesOnce
<1> QED BY <1>1, <1>2, <1>3, PTL DEF TunnelSpec, StopIsAcknowledgedClosed
=============================================================================
