------------------------ MODULE RouteLifecycleProofs ------------------------
(***************************************************************************)
(* Proofs about RouteLifecycle: the rest of the inductive invariant, and   *)
(* the theorems.                                                           *)
(***************************************************************************)
EXTENDS RouteLifecycleStepProofs

(* A path that was cleared is not taken but by a rival.                    *)
LEMMA ClearedOther ==
  ASSUME ProcTypes, RivalInv, NEW p \in Proc, ProcInv(p), ClearedInv(p),
         NEW q \in Proc, q # p, Step(q), OthersKept(q), NodeKept(q)
  PROVE  ClearedInv(p)'
<1>1. /\ pc'[p] = pc[p] /\ err'[p] = err[p] /\ routes'[p] = routes[p] /\ started'[p] = started[p]
      /\ Here(p)' = Here(p)
  BY Zenon DEF OthersKept, Here
<1>2. ~rival'[p] => ~rival[p]
  BY RivalKept, Zenon
<1>3. ASSUME pc[p] = "bind", IsUnix(Here(p)), ~rival[p]
      PROVE  node'[Here(p).listen.addr] = Nothing
  <2>1. node[Here(p).listen.addr] = Nothing
    BY <1>3, Zenon DEF ClearedInv
  <2>2. idx[p] \in 1..Len(routes[p])
    BY <1>3, AtProc, RoutesSeq DEF ProcInv, PhaseInv
  <2>3. Here(p).listen.addr \in Paths(Conf(p)) /\ Here(p).listen.addr \in AllPaths
    BY <1>3, <2>2, UnixPath, Zenon DEF Here
  <2>4. Running(q) => Here(p).listen.addr \notin Paths(Conf(q))
    BY <1>3, <2>3, Zenon DEF RivalInv, Running
  <2>5. \A j \in Index : Nothing # SocketOf(q, j)
    BY Zenon DEF SocketOf, Nothing
  <2>. QED  BY <2>1, <2>3, <2>4, <2>5, Zenon DEF NodeKept
<1>. QED  BY <1>1, <1>2, <1>3, Zenon DEF ClearedInv

(* The steps of p itself.                                                  *)
LEMMA ClearedSelf ==
  ASSUME ProcTypes, NodeTypes, NEW p \in Proc, ProcInv(p), ClearedInv(p), Step(p)
  PROVE  ClearedInv(p)'
<1>1. ASSUME pc'[p] = "bind", IsUnix(Here(p)'), ~rival'[p]
      PROVE  node'[Here(p)'.listen.addr] = Nothing
  <2>1. Here(p)' = Here(p) /\ ~rival[p]
    BY <1>1, ToBind, Zenon
  <2>2. CASE pc[p] = "bind" /\ node' = node
    BY <1>1, <2>1, <2>2, Zenon DEF ClearedInv
  <2>3. CASE idx[p] <= Len(routes[p]) /\ ClearPath(p)
    <3>1. idx[p] \in 1..Len(routes[p])
      BY <2>3, AtProc, RoutesSeq
    <3>2. Here(p).listen.addr \in AllPaths
      BY <1>1, <2>1, <3>1, UnixPath, Zenon DEF Here
    <3>. QED  BY <1>1, <2>1, <2>3, <3>2, Zenon DEF ClearPath, Unlink, NodeTypes
  <2>. QED  BY <1>1, <2>2, <2>3, ToBind, Zenon
<1>2. ASSUME err'[p] = "inuse", IsUnix(routes'[p][started'[p] + 1])
      PROVE  rival'[p]
  <2>1. routes' = routes /\ started' = started /\ rival' = rival
    BY <1>2, ToInUse, Zenon
  <2>2. CASE err[p] = "inuse"
    BY <1>2, <2>1, <2>2, Zenon DEF ClearedInv
  <2>3. CASE pc[p] = "bind" /\ InUse(Here(p))
    <3>1. idx[p] = started[p] + 1
      BY <2>3, Zenon DEF ProcInv, PhaseInv
    <3>. QED  BY <1>2, <2>1, <2>3, <3>1, Zenon DEF ClearedInv, InUse, Here
  <2>. QED  BY <1>2, <2>2, <2>3, ToInUse, Zenon
<1>. QED  BY <1>1, <1>2, Zenon DEF ClearedInv

(* The others leave p's waiting alone.                                     *)
LEMMA WaitOther ==
  ASSUME ProcTypes, NEW p \in Proc, WaitInv(p), NEW q \in Proc, q # p, Step(q), OthersKept(q)
  PROVE  WaitInv(p)'
<1>1. /\ pc'[p] = pc[p] /\ err'[p] = err[p] /\ routes'[p] = routes[p] /\ started'[p] = started[p]
      /\ Here(p)' = Here(p)
  BY Zenon DEF OthersKept, Here
<1>2. waited'[p] = waited[p]
  BY WaitedKept, Zenon
<1>. QED  BY <1>1, <1>2, Zenon DEF WaitInv

(* p waits an interval only while its time is not over.                    *)
LEMMA WaitSelf ==
  ASSUME ProcTypes, NEW p \in Proc, ProcInv(p), WaitInv(p), Step(p)
  PROVE  WaitInv(p)'
<1>. DEFINE w(r) == SECOND * r.opts.bind_wait
<1>0. waited[p] \in Nat /\ INTERVAL \in Nat \ {0}
  BY AtProc, RouteLifecycleAssumption, Zenon
<1>1. ASSUME pc'[p] = "bind", ~IsUnix(Here(p)'), w(Here(p)') < HALF
      PROVE  waited'[p] < w(Here(p)') + INTERVAL
  <2>1. Here(p)' = Here(p)
    BY <1>1, ToBind, Zenon
  <2>2. idx[p] \in 1..Len(routes[p])
    <3>1. idx[p] <= Len(routes[p])
      BY <1>1, ToBind, Zenon DEF ProcInv, PhaseInv
    <3>. QED  BY <3>1, AtProc, RoutesSeq
  <2>3. w(Here(p)) \in Nat /\ WaitMs(Here(p)) = w(Here(p))
    BY <1>1, <2>1, <2>2, WaitExact, Zenon DEF Here
  <2>4. CASE waited'[p] = 0
    BY <1>0, <2>1, <2>3, <2>4
  <2>5. CASE pc[p] = "bind" /\ waited' = waited
    BY <1>1, <2>1, <2>5, Zenon DEF WaitInv
  <2>6. CASE ~NoMoreWait(p) /\ waited'[p] = waited[p] + INTERVAL
    <3>1. ~(waited[p] >= w(Here(p)))
      BY <2>3, <2>6, Zenon DEF NoMoreWait
    <3>. QED  BY <1>0, <2>1, <2>3, <2>6, <3>1
  <2>. QED  BY <1>1, <2>4, <2>5, <2>6, ToBind, Zenon
<1>2. ASSUME NEW r, r = routes'[p][started'[p] + 1],
             err'[p] = "inuse", ~IsUnix(r), w(r) < HALF
      PROVE  w(r) <= waited'[p] /\ waited'[p] < w(r) + INTERVAL
  <2>1. routes' = routes /\ started' = started /\ waited' = waited
    BY <1>2, ToInUse, Zenon
  <2>2. CASE err[p] = "inuse"
    BY <1>2, <2>1, <2>2, Zenon DEF WaitInv
  <2>3. CASE pc[p] = "bind" /\ NoMoreWait(p)
    <3>1. idx[p] = started[p] + 1 /\ idx[p] <= Len(routes[p])
      BY <2>3, Zenon DEF ProcInv, PhaseInv
    <3>2. idx[p] \in 1..Len(routes[p])
      BY <3>1, AtProc, RoutesSeq
    <3>3. r = Here(p)
      BY <1>2, <2>1, <3>1, Zenon DEF Here
    <3>4. w(r) \in Nat /\ WaitMs(r) = w(r)
      BY <1>2, <3>2, <3>3, WaitExact, Zenon DEF Here
    <3>5. waited[p] < w(r) + INTERVAL
      BY <1>2, <2>3, <3>3, Zenon DEF WaitInv
    <3>6. w(r) <= 0 \/ waited[p] >= w(r)
      BY <1>2, <2>3, <3>3, <3>4, Zenon DEF NoMoreWait
    <3>. QED  BY <1>0, <2>1, <3>4, <3>5, <3>6
  <2>. QED  BY <1>2, <2>2, <2>3, ToInUse, Zenon
<1>. QED  BY <1>1, <1>2, Zenon DEF WaitInv

(* A socket that somebody listens to is none of the other things.          *)
LEMMA SocketDiffers == \A p, k : SocketOf(p, k) \notin {Nothing, RegularFile, StaleSocket, LeftSocket}
  BY Zenon DEF SocketOf, Nothing, RegularFile, StaleSocket, LeftSocket

(* What is about to be unlinked does not become a file.                    *)
LEMMA UnlinkOther ==
  ASSUME ProcTypes, NodeTypes, NEW p \in Proc, ProcInv(p), UnlinkInv(p),
         NEW q \in Proc, q # p, Step(q), OthersKept(q)
  PROVE  UnlinkInv(p)'
<1>1. pc'[p] = pc[p] /\ Here(p)' = Here(p)
  BY Zenon DEF OthersKept, Here
<1>2. SUFFICES ASSUME pc[p] \in {"unlink", "undoUnlink"}, node[Here(p).listen.addr] # RegularFile
               PROVE  node'[Here(p).listen.addr] # RegularFile
  BY <1>1, Zenon DEF UnlinkInv
<1>3. idx[p] \in 1..Len(routes[p]) /\ IsUnix(Here(p))
  <2>1. idx[p] <= Len(routes[p]) /\ IsUnix(Here(p))
    BY <1>2, AtProc, RoutesSeq DEF ProcInv, PhaseInv
  <2>. QED  BY <2>1, AtProc, RoutesSeq
<1>4. Here(p).listen.addr \in AllPaths
  BY <1>3, UnixPath, Zenon DEF Here
<1>5. RegularFile \notin {Nothing, StaleSocket, LeftSocket} /\ \A k : RegularFile # SocketOf(q, k)
  <2>1. RegularFile \notin {Nothing, StaleSocket, LeftSocket}
    BY DEF RegularFile, Nothing, StaleSocket, LeftSocket
  <2>. QED  BY <2>1, SocketDiffers, Zenon
<1>. QED  BY <1>2, <1>4, <1>5, NodeMade

(* p looks at the path first.                                              *)
LEMMA UnlinkSelf ==
  ASSUME ProcTypes, NEW p \in Proc, UnlinkInv(p), Step(p)
  PROVE  UnlinkInv(p)'
<1>. SUFFICES ASSUME pc'[p] \in {"unlink", "undoUnlink"}
              PROVE  node'[Here(p)'.listen.addr] # RegularFile
  BY Zenon DEF UnlinkInv
<1>0. pc \in [Proc -> Label]
  BY Zenon DEF ProcTypes
<1>1. ASSUME NEW l, Goto(p, l) PROVE l \in {"unlink", "undoUnlink"}
  BY <1>0, <1>1, Zenon DEF Goto
<1>2. /\ ~Goto(p, "off") /\ ~Goto(p, "load") /\ ~Goto(p, "start") /\ ~Goto(p, "stop") /\ ~Goto(p, "undo")
      /\ ~Goto(p, "bind") /\ ~Goto(p, "loop") /\ ~Goto(p, "listen") /\ ~Goto(p, "join") /\ ~Goto(p, "free")
  BY <1>1
<1>3. ~EndProcess(p) /\ (\A e : ~GiveUp(p, e) /\ ~Undo(p, e) /\ ~BindFails(p, e)) /\ ~AfterFree(p)
  BY <1>2, Zenon DEF EndProcess, GiveUp, Undo, BindFails, AfterFree
<1>4. ~Exec(p) /\ ~Kill(p) /\ ~Exit(p) /\ ~JoinWorkers(p) /\ ~UnlinkPath(p) /\ ~SignalCb(p) /\ ~AcceptErrorCb(p)
  BY <1>2, <1>3, Zenon DEF Exec, Kill, Exit, JoinWorkers, UnlinkPath, SignalCb, AcceptErrorCb
<1>5. ~Setup(p) /\ ~NextRoute(p) /\ ~Listen(p)
  BY <1>2, <1>3, Zenon DEF Setup, NextRoute, Listen, ListenerUp
<1>6. ~StartStreamRoute(p) /\ ~StartDatagramRoute(p)
  BY <1>2, <1>3, Zenon DEF StartStreamRoute, StartDatagramRoute, OpenDatagramSocket, OpenSocket
<1>7. ~LoadLine(p) /\ ~BindWithWait(p) /\ ~StopRouteListeners(p)
  BY <1>0, <1>2, <1>3, Zenon DEF LoadLine, AddRoute, loading, BindWithWait, StopRouteListeners
<1>8. CASE Signal(p)
  <2>1. pc' = pc /\ idx' = idx /\ routes' = routes /\ node' = node
    BY <1>3, <1>8, Zenon DEF Signal, static
  <2>. QED  BY <2>1, Zenon DEF UnlinkInv, Here
<1>9. CASE FreeRoute(p)
  <2>1. IsSocket(Here(p).listen.addr) /\ idx' = idx /\ routes' = routes /\ node' = node
    BY <1>3, <1>9, Zenon DEF FreeRoute, static
  <2>. QED  BY <2>1, Zenon DEF IsSocket, Here
<1>. QED  BY <1>4, <1>5, <1>6, <1>7, <1>8, <1>9, Zenon DEF Step, Main

(* Nobody else puts a socket of p anywhere.                                *)
LEMMA HolderOther ==
  ASSUME ProcTypes, NodeTypes, NEW p \in Proc, HolderInv(p),
         NEW q \in Proc, q # p, Step(q), OthersKept(q)
  PROVE  HolderInv(p)'
<1>1. /\ pc'[p] = pc[p] /\ idx'[p] = idx[p] /\ routes'[p] = routes[p] /\ started'[p] = started[p]
  BY Zenon DEF OthersKept
<1>2. ASSUME NEW a \in AllPaths, NEW k \in Index, node'[a] = SocketOf(p, k)
      PROVE  node[a] = SocketOf(p, k)
  <2>1. SocketOf(p, k) \notin {Nothing, StaleSocket, LeftSocket} /\ \A j : SocketOf(p, k) # SocketOf(q, j)
    BY SocketDiffers, Zenon DEF SocketOf
  <2>. QED  BY <1>2, <2>1, NodeMade, Zenon
<1>3. \A a, k : MayHold(p, a, k) => MayHold(p, a, k)'
  BY <1>1, Zenon DEF MayHold
<1>. QED  BY <1>2, <1>3, Zenon DEF HolderInv

(* As long as p does not unlink it or give it up, a socket of p is one it  *)
(* may hold.                                                               *)
LEMMA HeldKept ==
  ASSUME ProcTypes, NEW p \in Proc, ProcInv(p), Step(p), ~EndProcess(p), ~UnlinkPath(p),
         NEW a, NEW k \in Index, MayHold(p, a, k), node[a] = SocketOf(p, k),
         ~(LeaveSocket(p) /\ a = Here(p).listen.addr /\ k = idx[p])
  PROVE  MayHold(p, a, k)'
<1>0. pc \in [Proc -> Label] /\ idx \in [Proc -> Nat \ {0}] /\ started \in [Proc -> Nat]
  BY Zenon DEF ProcTypes
<1>1. pc[p] \in Label /\ idx[p] \in Nat \ {0} /\ started[p] \in Nat /\ k \in Nat /\ 1 <= k
  BY AtProc, RouteLifecycleAssumption DEF Index
<1>2. pc[p] \notin {"off", "load"}
  BY <1>1 DEF MayHold, ProcInv, PhaseInv
<1>3. ~LoadLine(p) /\ ~Setup(p) /\ ~Exec(p) /\ ~Kill(p) /\ ~Exit(p)
  BY <1>2, Zenon DEF LoadLine, Setup, Exec, Kill, Exit
<1>4. CASE /\ routes' = routes /\ started' = started
           /\ k <= started[p] /\ pc'[p] \notin {"free", "unlink"}
  BY <1>4, Zenon DEF MayHold
<1>5. CASE NextRoute(p) \/ SignalCb(p) \/ AcceptErrorCb(p)
  <2>1. /\ routes' = routes /\ started' = started /\ pc[p] \in {"start", "loop"}
        /\ pc'[p] \in {"loop", "stop"}
    BY <1>0, <1>5, Zenon DEF NextRoute, GiveUp, SignalCb, AcceptErrorCb, Goto, static
  <2>. QED  BY <1>4, <2>1, Zenon DEF MayHold
<1>6. CASE StartStreamRoute(p) \/ StartDatagramRoute(p)
  <2>1. routes' = routes /\ started' = started /\ pc[p] = "start"
    BY <1>6, Zenon DEF StartStreamRoute, StartDatagramRoute, static
  <2>2. pc'[p] \in {"bind", "undo", "stop"}
    BY <1>0, <1>6, Zenon DEF StartStreamRoute, StartDatagramRoute, OpenDatagramSocket, OpenSocket, GiveUp, Undo, Goto
  <2>. QED  BY <1>4, <2>1, <2>2, Zenon DEF MayHold
<1>7. CASE BindWithWait(p)
  <2>1. routes' = routes /\ started' = started /\ pc[p] = "bind"
    BY <1>7, Zenon DEF BindWithWait, static
  <2>2. pc'[p] \in {"bind", "listen", "undo", "stop"}
    BY <1>0, <1>7, <2>1, Zenon DEF BindWithWait, BindFails, GiveUp, Undo, Goto
  <2>. QED  BY <1>4, <2>1, <2>2, Zenon DEF MayHold
<1>8. CASE Listen(p)
  <2>1. pc[p] = "listen" /\ idx[p] = started[p] + 1 /\ routes' = routes
    BY <1>8, Zenon DEF Listen, static, ProcInv, PhaseInv
  <2>2. CASE ListenerUp(p)
    <3>1. started'[p] = idx[p] /\ pc'[p] = "start"
      BY <1>0, <2>2, Zenon DEF ListenerUp, Goto
    <3>. QED  BY <1>1, <2>1, <3>1 DEF MayHold
  <2>3. CASE BindFails(p, "failed") /\ started' = started
    <3>1. pc'[p] = IF IsStream(Here(p)) THEN "stop" ELSE "undo"
      BY <1>0, <2>3, Zenon DEF BindFails, GiveUp, Undo, Goto
    <3>2. k = started[p] + 1 => routes[p][k] = Here(p)
      BY <2>1, Zenon DEF Here
    <3>. QED  BY <2>1, <2>3, <3>1, <3>2, Zenon DEF MayHold
  <2>. QED  BY <1>8, <2>2, <2>3, Zenon DEF Listen
<1>9. CASE Signal(p)
  <2>1. pc' = pc /\ idx' = idx /\ routes' = routes /\ started' = started
    BY <1>2, <1>9, Zenon DEF Signal, static
  <2>. QED  BY <2>1, Zenon DEF MayHold
<1>10. CASE StopRouteListeners(p)
  <2>1. routes' = routes /\ started' = started /\ pc[p] = "stop" /\ pc'[p] \in {"stop", "join"}
    BY <1>0, <1>10, Zenon DEF StopRouteListeners, Goto, static
  <2>. QED  BY <2>1, Zenon DEF MayHold
<1>11. CASE JoinWorkers(p)
  <2>1. routes' = routes /\ started' = started /\ pc[p] = "join" /\ pc'[p] = "free" /\ idx'[p] = 1
    BY <1>0, <1>11, Zenon DEF JoinWorkers, Goto, static
  <2>. QED  BY <1>1, <2>1, Zenon DEF MayHold
<1>12. CASE FreeRoute(p)
  <2>1. /\ routes' = routes /\ started' = started /\ pc[p] \in {"undo", "free"}
        /\ pc[p] = "undo" => idx[p] = started[p] + 1
    BY <1>12, Zenon DEF FreeRoute, static, ProcInv, PhaseInv
  <2>2. CASE k = idx[p]
    <3>1. IsUnix(Here(p)) /\ Here(p).listen.addr = a
      BY <2>2, Zenon DEF MayHold, Here
    <3>2. IsSocket(Here(p).listen.addr) /\ ~LeaveSocket(p)
      BY <2>2, <3>1, SocketDiffers, Zenon DEF IsSocket
    <3>3. pc'[p] = IF pc[p] = "undo" THEN "undoUnlink" ELSE "unlink"
      BY <1>0, <1>12, <3>1, <3>2, Zenon DEF FreeRoute, Goto
    <3>4. idx' = idx
      BY <1>12, <3>1, <3>2, Zenon DEF FreeRoute
    <3>5. CASE pc[p] = "undo"
      <4>1. pc'[p] = "undoUnlink"
        BY <3>3, <3>5, Zenon
      <4>. QED  BY <2>1, <2>2, <3>5, <4>1, Zenon DEF MayHold
    <3>6. CASE pc[p] = "free"
      <4>1. pc'[p] = "unlink"
        BY <3>3, <3>6, Zenon
      <4>. QED  BY <2>1, <3>4, <3>6, <4>1, Zenon DEF MayHold
    <3>. QED  BY <2>1, <3>5, <3>6, Zenon
  <2>3. CASE k # idx[p]
    <3>1. CASE pc[p] = "undo"
      <4>1. pc'[p] \in {"undoUnlink", "stop"}
        BY <1>0, <1>12, <3>1, Zenon DEF FreeRoute, AfterFree, Goto
      <4>. QED  BY <2>1, <2>3, <3>1, <4>1, Zenon DEF MayHold
    <3>2. CASE pc[p] = "free"
      <4>1. pc'[p] \in {"unlink", "free"} /\ idx'[p] \in {idx[p], idx[p] + 1}
        <5>1. \/ Goto(p, "unlink") /\ idx' = idx
              \/ Goto(p, "free") /\ idx' = [idx EXCEPT ![p] = @ + 1]
          BY <1>12, <3>2, Zenon DEF FreeRoute, AfterFree
        <5>. QED  BY <1>0, <5>1, Zenon DEF Goto
      <4>2. k <= started[p] => idx[p] <= k
        BY <1>1, <3>2 DEF MayHold
      <4>3. k <= started[p] => idx'[p] <= k
        <5>1. ASSUME idx[p] <= k PROVE idx[p] + 1 <= k
          BY <1>1, <2>3, <5>1
        <5>. QED  BY <4>1, <4>2, <5>1, Zenon
      <4>4. CASE k <= started[p]
        BY <2>1, <4>3, <4>4, Zenon DEF MayHold
      <4>5. CASE ~(k <= started[p])
        <5>1. k = started[p] + 1 /\ IsStream(routes[p][k])
          BY <3>2, <4>5, Zenon DEF MayHold
        <5>. QED  BY <2>1, <4>1, <5>1, Zenon DEF MayHold
      <4>. QED  BY <4>4, <4>5, Zenon
    <3>. QED  BY <2>1, <3>1, <3>2
  <2>. QED  BY <2>2, <2>3, Zenon
<1>. QED  BY <1>3, <1>5, <1>6, <1>7, <1>8, <1>9, <1>10, <1>11, <1>12, Zenon DEF Step, Main

(* The steps of p itself, those that change a path included.               *)
LEMMA HolderSelf ==
  ASSUME ProcTypes, NodeTypes, NEW p \in Proc, ProcInv(p), HolderInv(p), Step(p)
  PROVE  HolderInv(p)'
<1>. SUFFICES ASSUME NEW a \in AllPaths, NEW k \in Index, node'[a] = SocketOf(p, k)
              PROVE  MayHold(p, a, k)'
  BY Zenon DEF HolderInv
<1>1. pc[p] \in Label /\ idx[p] \in Nat \ {0} /\ started[p] \in Nat /\ k \in Nat /\ 1 <= k
  BY AtProc, RouteLifecycleAssumption DEF Index
<1>2. ~EndProcess(p)
  <2>. SUFFICES ASSUME EndProcess(p) PROVE FALSE
    OBVIOUS
  <2>1. node'[a] = IF \E j \in Index : node[a] = SocketOf(p, j) THEN StaleSocket ELSE node[a]
    BY Zenon DEF EndProcess
  <2>. QED  BY <2>1, SocketDiffers, Zenon
<1>3. CASE node[a] = SocketOf(p, k) /\ ~UnlinkPath(p)
  <2>1. ~(LeaveSocket(p) /\ a = Here(p).listen.addr /\ k = idx[p])
    BY <1>3, LeaveOnly, SocketDiffers, Zenon
  <2>. QED  BY <1>2, <1>3, <2>1, HeldKept, Zenon DEF HolderInv
<1>4. CASE UnlinkPath(p)
  <2>1. /\ pc[p] \in {"unlink", "undoUnlink"} /\ routes' = routes /\ started' = started
        /\ pc[p] = "undoUnlink" => idx[p] = started[p] + 1
    BY <1>4, Zenon DEF UnlinkPath, static, ProcInv, PhaseInv
  <2>2. Unlink(Here(p).listen.addr) \/ LeaveSocket(p)
    BY <1>4, Zenon DEF UnlinkPath
  <2>3. node[a] = SocketOf(p, k) /\ ~(a = Here(p).listen.addr /\ k = idx[p])
    <3>1. CASE Unlink(Here(p).listen.addr)
      BY <3>1, SocketDiffers, Zenon DEF NodeTypes, Unlink
    <3>2. CASE LeaveSocket(p)
      BY <3>2, LeaveOnly, SocketDiffers, Zenon
    <3>. QED  BY <2>2, <3>1, <3>2, Zenon
  <2>4. MayHold(p, a, k) /\ k # idx[p]
    BY <2>3, Zenon DEF HolderInv, MayHold, Here
  <2>5. CASE pc[p] = "undoUnlink"
    <3>1. pc'[p] = "stop"
      BY <1>4, <2>5, Zenon DEF UnlinkPath, AfterFree, Goto, ProcTypes
    <3>. QED  BY <2>1, <2>4, <2>5, <3>1, Zenon DEF MayHold
  <2>6. CASE pc[p] = "unlink"
    <3>1. Goto(p, "free") /\ idx' = [idx EXCEPT ![p] = @ + 1]
      BY <1>4, <2>6, Zenon DEF UnlinkPath, AfterFree
    <3>2. pc'[p] = "free" /\ idx'[p] = idx[p] + 1
      BY <3>1, Zenon DEF Goto, ProcTypes
    <3>3. CASE k <= started[p]
      <4>1. idx[p] <= k
        BY <1>1, <2>4, <2>6, <3>3 DEF MayHold
      <4>2. idx'[p] <= k
        BY <1>1, <2>4, <3>2, <4>1
      <4>. QED  BY <2>1, <2>4, <3>3, <4>2, Zenon DEF MayHold
    <3>4. CASE ~(k <= started[p])
      <4>1. k = started[p] + 1 /\ IsStream(routes[p][k])
        BY <2>4, <2>6, <3>4, Zenon DEF MayHold
      <4>. QED  BY <2>1, <2>4, <3>2, <4>1, Zenon DEF MayHold
    <3>. QED  BY <3>3, <3>4, Zenon
  <2>. QED  BY <2>1, <2>5, <2>6, Zenon
<1>5. CASE Clears(p)
  <2>1. node' = [node EXCEPT ![Here(p).listen.addr] = Nothing] /\ ~UnlinkPath(p)
    BY <1>5, Zenon DEF Clears, Unlink, UnlinkPath
  <2>2. node[a] = SocketOf(p, k)
    BY <2>1, SocketDiffers, Zenon DEF NodeTypes
  <2>. QED  BY <1>3, <2>1, <2>2, Zenon
<1>6. CASE Binds(p) /\ node[a] # SocketOf(p, k)
  <2>1. /\ node' = [node EXCEPT ![Here(p).listen.addr] = SocketOf(p, idx[p])]
        /\ pc[p] = "bind" /\ pc'[p] = "listen" /\ IsUnix(Here(p))
        /\ routes' = routes /\ started' = started
    BY <1>6, Zenon DEF Binds
  <2>2. a = Here(p).listen.addr /\ SocketOf(p, k) = SocketOf(p, idx[p])
    BY <1>6, <2>1, Zenon DEF NodeTypes
  <2>3. k = idx[p]
    BY <2>2, Zenon DEF SocketOf
  <2>4. k = started[p] + 1 /\ k <= Len(routes[p])
    BY <2>1, <2>3, Zenon DEF ProcInv, PhaseInv
  <2>. QED  BY <2>1, <2>2, <2>3, <2>4, Zenon DEF MayHold, Here
<1>7. CASE node' = node \/ Binds(p)
  BY <1>3, <1>4, <1>6, <1>7, Zenon
<1>8. CASE Leaves(p)
  <2>0. LeaveSocket(p)
    BY <1>8, Zenon DEF Leaves
  <2>1. node[a] = SocketOf(p, k)
    <3>1. node'[a] = node[a] \/ node'[a] = LeftSocket
      BY <2>0, LeaveOnly, Zenon
    <3>2. SocketOf(p, k) # LeftSocket
      BY SocketDiffers, Zenon
    <3>. QED  BY <3>1, <3>2, Zenon
  <2>. QED  BY <1>3, <1>4, <2>1, Zenon
<1>. QED  BY <1>2, <1>4, <1>5, <1>7, <1>8, NodeCases, Zenon

(* Only the start of a listener at its path removes a file.                *)
LEMMA FileStep ==
  ASSUME ProcTypes, NodeTypes, NEW p \in Proc, ProcInv(p), UnlinkInv(p), Step(p),
         NEW a \in AllPaths, node[a] = RegularFile, node'[a] # RegularFile
  PROVE  /\ pc[p] = "start" /\ pc'[p] # "start"
         /\ idx[p] <= Len(routes[p]) /\ Here(p).listen.addr = a
<1>1. ~EndProcess(p)
  <2>. SUFFICES ASSUME EndProcess(p) PROVE FALSE
    OBVIOUS
  <2>1. node'[a] = IF \E j \in Index : node[a] = SocketOf(p, j) THEN StaleSocket ELSE node[a]
    BY Zenon DEF EndProcess
  <2>. QED  BY <2>1, SocketDiffers, Zenon
<1>2. ASSUME NEW b, NEW v, node' = [node EXCEPT ![b] = v] PROVE a = b
  BY <1>2, Zenon DEF NodeTypes
<1>7. ~LeaveSocket(p)
  BY LeaveOnly, SocketDiffers, Zenon
<1>3. ~UnlinkPath(p) /\ ~Leaves(p)
  <2>1. ~Leaves(p)
    BY <1>7, Zenon DEF Leaves
  <2>2. ASSUME UnlinkPath(p) PROVE FALSE
    <3>1. Unlink(Here(p).listen.addr) /\ node[Here(p).listen.addr] # RegularFile
      BY <1>7, <2>2, Zenon DEF UnlinkPath, UnlinkInv
    <3>. QED  BY <1>2, <3>1, Zenon DEF Unlink
  <2>. QED  BY <2>1, <2>2
<1>4. ~Binds(p)
  <2>1. RegularFile # Nothing
    BY Zenon DEF RegularFile, Nothing
  <2>. QED  BY <1>2, <2>1, Zenon DEF Binds
<1>5. Clears(p)
  BY <1>1, <1>3, <1>4, NodeCases, Zenon
<1>6. Here(p).listen.addr = a
  BY <1>2, <1>5, Zenon DEF Clears, Unlink
<1>. QED  BY <1>5, <1>6, Zenon DEF Clears

-----------------------------------------------------------------------------
(* IndInv, process by process.                                             *)
Full ==
  /\ ProcTypes /\ NodeTypes /\ RivalInv
  /\ \A p \in Proc : ProcInv(p) /\ PathInv(p)
  /\ \A p \in Proc : ClearedInv(p) /\ WaitInv(p) /\ HolderInv(p) /\ UnlinkInv(p)

(* Before the first process starts.                                        *)
LEMMA InitFull == Init => Full
<1>. SUFFICES ASSUME Init PROVE Full
  OBVIOUS
<1>1. ProcTypes
  <2>1. pend \in [Proc -> BOOLEAN] /\ rival \in [Proc -> BOOLEAN]
    BY Zenon DEF Init
  <2>2. /\ sock \in [Proc -> [Index -> {"none", "open", "bound", "listening"}]]
        /\ raw \in [Proc -> SUBSET Index] /\ routes = [p \in Proc |-> routes[p]]
    BY Zenon DEF Init
  <2>3. pc \in [Proc -> Label] /\ err \in [Proc -> {"none", "failed", "nomutex", "inuse"}]
    BY Zenon DEF Init, Label
  <2>4. idx \in [Proc -> Nat \ {0}] /\ started \in [Proc -> Nat] /\ waited \in [Proc -> Nat]
    BY DEF Init
  <2>. QED  BY <2>1, <2>2, <2>3, <2>4, Zenon DEF ProcTypes, Init
<1>2. NodeTypes
  BY Zenon DEF Init, NodeTypes
<1>3. RivalInv
  BY Zenon DEF Init, RivalInv, Running
<1>4. ASSUME NEW p \in Proc PROVE ProcInv(p) /\ PathInv(p)
  <2>1. /\ pc[p] = "off" /\ idx[p] = 1 /\ routes[p] = <<>> /\ started[p] = 0
        /\ raw[p] = {} /\ err[p] = "none" /\ \A k \in Index : sock[p][k] = "none"
    BY Zenon DEF Init
  <2>2. PhaseInv(p)
    BY <2>1, RouteLifecycleAssumption DEF PhaseInv
  <2>3. SockInv(p) /\ Distinct(p) /\ Orphan(p)
    BY <2>1, RouteLifecycleAssumption DEF SockInv, Distinct, Orphan, Index
  <2>4. PathInv(p)
    BY <2>1, Zenon DEF PathInv, WorkersRun
  <2>. QED  BY <2>2, <2>3, <2>4, Zenon DEF ProcInv
<1>5. ASSUME NEW p \in Proc PROVE ClearedInv(p) /\ WaitInv(p) /\ HolderInv(p) /\ UnlinkInv(p)
  <2>1. pc[p] = "off" /\ err[p] = "none" /\ \A a \in AllPaths : node[a] \in {Nothing, RegularFile}
    BY Zenon DEF Init
  <2>2. ClearedInv(p) /\ WaitInv(p) /\ UnlinkInv(p)
    BY <2>1, Zenon DEF ClearedInv, WaitInv, UnlinkInv
  <2>3. HolderInv(p)
    BY <2>1, SocketDiffers, Zenon DEF HolderInv
  <2>. QED  BY <2>2, <2>3, Zenon
<1>. QED  BY <1>1, <1>2, <1>3, <1>4, <1>5, Zenon DEF Full

(* Every step is a step of one process, or leaves all of them alone.       *)
LEMMA NextFull == Full /\ [Next]_vars => Full'
<1>. SUFFICES ASSUME Full, [Next]_vars PROVE Full'
  OBVIOUS
<1>0. /\ ProcTypes /\ NodeTypes /\ RivalInv
      /\ \A p \in Proc : ProcInv(p) /\ PathInv(p)
      /\ \A p \in Proc : ClearedInv(p) /\ WaitInv(p) /\ HolderInv(p) /\ UnlinkInv(p)
  BY Zenon DEF Full
<1>1. ASSUME NEW p \in Proc, Step(p) PROVE Full'
  <2>1. ProcTypes' /\ ProcInv(p)' /\ OthersKept(p)
    BY <1>0, <1>1, StepInv, Zenon
  <2>2. NodeTypes' /\ NodeKept(p)
    BY <1>0, <1>1, NodeStep, Zenon
  <2>3. RivalInv'
    BY <1>0, <1>1, <2>1, RivalStep, Zenon
  <2>4. PathInv(p)'
    BY <1>0, <1>1, PathSelf, Zenon
  <2>5. ASSUME NEW q \in Proc, q # p PROVE ProcInv(q)' /\ PathInv(q)'
    <3>1. ProcInv(q)'
      BY <1>0, <2>1, <2>5, KeptInv, Zenon
    <3>2. PathInv(q)'
      BY <1>0, <1>1, <2>1, <2>2, <2>5, PathOther, Zenon
    <3>. QED  BY <3>1, <3>2, Zenon
  <2>6. ClearedInv(p)' /\ WaitInv(p)' /\ HolderInv(p)' /\ UnlinkInv(p)'
    BY <1>0, <1>1, ClearedSelf, WaitSelf, HolderSelf, UnlinkSelf, Zenon
  <2>7. ASSUME NEW q \in Proc, q # p PROVE ClearedInv(q)' /\ WaitInv(q)' /\ HolderInv(q)' /\ UnlinkInv(q)'
    <3>1. ClearedInv(q)' /\ WaitInv(q)'
      BY <1>0, <1>1, <2>1, <2>2, <2>7, ClearedOther, WaitOther, Zenon
    <3>2. HolderInv(q)' /\ UnlinkInv(q)'
      BY <1>0, <1>1, <2>1, <2>7, HolderOther, UnlinkOther, Zenon
    <3>. QED  BY <3>1, <3>2, Zenon
  <2>8. \A q \in Proc : ProcInv(q)' /\ PathInv(q)'
    BY <2>1, <2>4, <2>5, Zenon
  <2>9. \A q \in Proc : ClearedInv(q)' /\ WaitInv(q)' /\ HolderInv(q)' /\ UnlinkInv(q)'
    BY <2>6, <2>7, Zenon
  <2>. QED  BY <2>1, <2>2, <2>3, <2>8, <2>9, Zenon DEF Full
<1>2. CASE UNCHANGED <<conf, routes, rival, pc, idx, started, waited, sock, raw, err, pend, node>>
           /\ foreign' \subseteq foreign
  <2>1. ProcTypes'
    BY <1>0, <1>2, Zenon DEF ProcTypes
  <2>2. NodeTypes'
    BY <1>0, <1>2, Zenon DEF NodeTypes
  <2>3. \A p \in Proc : Conf(p)' = Conf(p) /\ Here(p)' = Here(p)
    BY <1>2, Zenon DEF Conf, Here
  <2>4. RivalInv'
    BY <1>0, <1>2, <2>3, Zenon DEF RivalInv, Running
  <2>5. ASSUME NEW p \in Proc PROVE ProcInv(p)' /\ PathInv(p)'
    <3>1. PhaseInv(p)'
      BY <1>0, <1>2, <2>3, Zenon DEF ProcInv, PhaseInv, ReadRoutes
    <3>2. SockInv(p)' /\ Orphan(p)'
      BY <1>0, <1>2, Zenon DEF ProcInv, SockInv, Orphan, Owned
    <3>3. Distinct(p)'
      BY <1>0, <1>2, <2>3, Zenon DEF ProcInv, Distinct
    <3>4. PathInv(p)'
      BY <1>0, <1>2, Zenon DEF PathInv, OwnPathsDiffer, WorkersRun
    <3>. QED  BY <3>1, <3>2, <3>3, <3>4, Zenon DEF ProcInv
  <2>6. ASSUME NEW p \in Proc PROVE ClearedInv(p)' /\ WaitInv(p)' /\ HolderInv(p)' /\ UnlinkInv(p)'
    <3>1. ClearedInv(p)' /\ WaitInv(p)' /\ UnlinkInv(p)'
      BY <1>0, <1>2, <2>3, Zenon DEF ClearedInv, WaitInv, UnlinkInv
    <3>2. HolderInv(p)'
      <4>1. \A a, k : MayHold(p, a, k)' = MayHold(p, a, k)
        BY <1>2, Zenon DEF MayHold
      <4>. QED  BY <1>0, <1>2, <4>1, Zenon DEF HolderInv
    <3>. QED  BY <3>1, <3>2, Zenon
  <2>. QED  BY <2>1, <2>2, <2>4, <2>5, <2>6, Zenon DEF Full
<1>3. CASE \E a \in Foreign : ForeignExit(a)
  BY <1>2, <1>3, Zenon DEF ForeignExit
<1>4. CASE UNCHANGED vars
  BY <1>2, <1>4, Zenon DEF vars, static
<1>. QED  BY <1>1, <1>3, <1>4, Zenon DEF Next, Step

(* The induction.                                                          *)
LEMMA FullHolds == Spec => []Full
<1>1. Init => Full
  BY InitFull, Zenon
<1>2. Full /\ [Next]_vars => Full'
  BY NextFull, Zenon
<1>. QED  BY <1>1, <1>2, PTL DEF Spec

(* What it says in the words of RouteLifecycle.                            *)
LEMMA FullIndInv == Full => IndInv
<1>. SUFFICES ASSUME Full PROVE IndInv
  OBVIOUS
<1>1. TypeOK
  BY Zenon DEF Full, ProcTypes, NodeTypes, TypeOK
<1>2. FileRoutesDistinct
  BY Zenon DEF Full, ProcInv, Distinct, FileRoutesDistinct
<1>3. NoOrphanFd
  BY Zenon DEF Full, ProcInv, Orphan, Owned, NoOrphanFd
<1>4. RivalInv /\ \A p \in Proc : PhaseInv(p) /\ SockInv(p) /\ PathInv(p)
  BY Zenon DEF Full, ProcInv
<1>5. \A p \in Proc : ClearedInv(p) /\ WaitInv(p) /\ HolderInv(p) /\ UnlinkInv(p)
  BY Zenon DEF Full
<1>. QED  BY <1>1, <1>2, <1>3, <1>4, <1>5, Zenon DEF IndInv

(* The invariant holds whatever is configured, whatever is left at the     *)
(* paths, and in whatever order processes start, fail, stop and are killed.*)
THEOREM Invariance == Spec => []IndInv
  BY FullHolds, FullIndInv, PTL

(* Types, among them that main() never counts past its routes.             *)
THEOREM TypeCorrect == Spec => []TypeOK
<1>1. IndInv => TypeOK
  BY Zenon DEF IndInv
<1>. QED  BY <1>1, Invariance, PTL

(* load_routes_from_text: find_conflicting_route keeps the routes of a     *)
(* file on different endpoints, whatever the file says.                    *)
THEOREM FileRoutesDiffer == Spec => []FileRoutesDistinct
<1>1. IndInv => FileRoutesDistinct
  BY Zenon DEF IndInv
<1>. QED  BY <1>1, Invariance, PTL

(* start_datagram_route and the listeners: a route that could not be       *)
(* started leaves no descriptor, but for the raw socket without a mutex.   *)
THEOREM NothingOrphaned == Spec => []NoOrphanFd
<1>1. IndInv => NoOrphanFd
  BY Zenon DEF IndInv
<1>. QED  BY <1>1, Invariance, PTL

(* main(): the event loop is entered with every route listening.           *)
THEOREM AllOrNothing == Spec => []AllRoutesServed
<1>1. Full => AllRoutesServed
  <2>. SUFFICES ASSUME Full, NEW p \in Proc, pc[p] = "loop", NEW k \in DOMAIN routes[p]
                PROVE  sock[p][k] = "listening"
    BY Zenon DEF AllRoutesServed
  <2>1. /\ routes[p] \in Seq(ReadRoutes(p)) /\ Len(routes[p]) <= MaxRoutes
        /\ started[p] = Len(routes[p])
    BY Zenon DEF Full, ProcInv, PhaseInv
  <2>2. k \in Index /\ k <= started[p]
    BY <2>1, RouteLifecycleAssumption DEF Index
  <2>. QED  BY <2>2, Zenon DEF Full, ProcInv, SockInv
<1>. QED  BY <1>1, FullHolds, PTL

(* stop_datagram_route_listener: workers can reply until they are joined.  *)
THEOREM RepliesHaveSockets == Spec => []ReplySocketOpen
<1>1. Full => ReplySocketOpen
  <2>. SUFFICES ASSUME Full, NEW p \in Proc, WorkersRun(p), NEW k \in DOMAIN routes[p],
                       k <= started[p], ~IsStream(routes[p][k])
                PROVE  sock[p][k] = "listening"
    BY Zenon DEF ReplySocketOpen
  <2>1. routes[p] \in Seq(ReadRoutes(p)) /\ Len(routes[p]) <= MaxRoutes
    BY Zenon DEF Full, ProcInv, PhaseInv
  <2>2. k \in Index
    BY <2>1, RouteLifecycleAssumption DEF Index
  <2>. QED  BY <2>2, Zenon DEF Full, ProcInv, SockInv, WorkersRun
<1>. QED  BY <1>1, FullHolds, PTL

(* bind_unix_stream_listener and bind_unix_datagram_listener: a process    *)
(* that shares its paths with no other is reachable on all of them.        *)
THEOREM Reachable == Spec => []AloneIsReachable
<1>1. Full => AloneIsReachable
  <2>. SUFFICES ASSUME Full, NEW p \in Proc, pc[p] = "loop", ~rival[p], OwnPathsDiffer(p),
                       NEW k \in DOMAIN routes[p], IsUnix(routes[p][k])
                PROVE  node[routes[p][k].listen.addr] = SocketOf(p, k)
    BY Zenon DEF AloneIsReachable
  <2>1. routes[p] \in Seq(ReadRoutes(p)) /\ started[p] = Len(routes[p])
    BY Zenon DEF Full, ProcInv, PhaseInv
  <2>2. k <= started[p]
    BY <2>1
  <2>. QED  BY <2>2, Zenon DEF Full, PathInv, WorkersRun
<1>. QED  BY <1>1, FullHolds, PTL

(* bind_unix_stream_listener and bind_unix_datagram_listener unlink first: *)
(* nothing that was left at a path can keep a process from starting.       *)
THEOREM StaleNeverBlocks == Spec => []StalePathNeverBlocks
<1>1. Full => StalePathNeverBlocks
  BY Zenon DEF Full, ClearedInv, StalePathNeverBlocks
<1>. QED  BY <1>1, FullHolds, PTL

(* bind_with_wait waits for bind_wait and less than an interval longer,    *)
(* for every length of the interval and every width of an int.             *)
THEOREM WaitsAsTold == Spec => []WaitHonoured
<1>1. Full => WaitHonoured
  BY Zenon DEF Full, WaitInv, WaitHonoured
<1>. QED  BY <1>1, FullHolds, PTL

(* free_route and stop_unix_stream_route: at the end of main() no socket   *)
(* is left but that of a stream listener that failed after bind.           *)
THEOREM ExitsClean == Spec => []CleanExit
<1>1. Full => CleanExit
  <2>. SUFFICES ASSUME Full, NEW p \in Proc, NEW a \in AllPaths, NEW k \in Index,
                       pc[p] = "free", idx[p] > started[p], node[a] = SocketOf(p, k)
                PROVE  k = started[p] + 1 /\ IsStream(routes[p][k])
    BY Zenon DEF CleanExit
  <2>1. MayHold(p, a, k)
    BY Zenon DEF Full, HolderInv
  <2>2. idx[p] \in Nat /\ started[p] \in Nat /\ k \in Nat
    BY AtProc, RouteLifecycleAssumption DEF Full, Index
  <2>. QED  BY <2>1, <2>2 DEF MayHold
<1>. QED  BY <1>1, FullHolds, PTL

(* stop_unix_stream_route and stop_unix_datagram_route never remove what   *)
(* is not a socket, whatever happens between their lstat and their unlink. *)
THEOREM FilesStay == Spec => FilesKept
<1>. DEFINE A == \A a \in AllPaths :
       node[a] = RegularFile /\ node'[a] # RegularFile
         => \E p \in Proc : /\ pc[p] = "start" /\ pc'[p] # "start"
                           /\ idx[p] <= Len(routes[p]) /\ Here(p).listen.addr = a
<1>1. Full /\ [Next]_vars => [A]_vars
  <2>. SUFFICES ASSUME Full, Next, NEW a \in AllPaths, node[a] = RegularFile, node'[a] # RegularFile
                PROVE  \E p \in Proc : /\ pc[p] = "start" /\ pc'[p] # "start"
                                       /\ idx[p] <= Len(routes[p]) /\ Here(p).listen.addr = a
    OBVIOUS
  <2>1. ~(\E b \in Foreign : ForeignExit(b))
    BY Zenon DEF ForeignExit
  <2>2. PICK p \in Proc : Step(p)
    BY <2>1, Zenon DEF Next, Step
  <2>. QED  BY <2>2, FileStep, Zenon DEF Full
<1>. QED  BY <1>1, FullHolds, PTL DEF Spec, FilesKept

-----------------------------------------------------------------------------
(* Each phase of a running process is before its end.                      *)
LEMMA PhaseRunning == \A l \in Label \ {"off"} : Phase(l) \in Nat /\ Phase(l) > Phase("off")
  BY DEF Label, Phase

(* What p has after it assigned where it is and what it deals with.        *)
LEMMA AssignedAt ==
  ASSUME ProcTypes, NEW p \in Proc
  PROVE  /\ \A l : pc' = [pc EXCEPT ![p] = l] => pc'[p] = l
         /\ \A i : idx' = [idx EXCEPT ![p] = i] => idx'[p] = i
         /\ \A t : waited' = [waited EXCEPT ![p] = t] => waited'[p] = t
  BY Zenon DEF ProcTypes

(* A process that ends is closer to its end.                               *)
LEMMA EndFurther ==
  ASSUME ProcTypes, NEW p \in Proc, pc[p] # "off", EndProcess(p)
  PROVE  Further(p)
<1>1. pc[p] \in Label \ {"off"}
  BY AtProc, Zenon
<1>2. pc'[p] = "off"
  BY AssignedAt, Zenon DEF EndProcess, Goto
<1>. QED  BY <1>1, <1>2, PhaseRunning, Zenon DEF Further

(* So is one that gives up the start of a route, or that undoes it.        *)
LEMMA GiveUpFurther ==
  ASSUME ProcTypes, NEW p \in Proc, pc[p] \in {"start", "bind", "listen"},
         NEW e, GiveUp(p, e) \/ Undo(p, e)
  PROVE  Further(p)
<1>1. pc'[p] \in {"stop", "undo"}
  BY AssignedAt, Zenon DEF GiveUp, Undo, Goto
<1>. QED  BY <1>1 DEF Further, Phase

(* Reading a line, and the setup after the last one.                       *)
LEMMA LoadFurther ==
  ASSUME ProcTypes, NEW p \in Proc, ProcInv(p), LoadLine(p) \/ Setup(p)
  PROVE  Further(p)
<1>0. pc[p] = "load"
  BY Zenon DEF LoadLine, Setup
<1>1. CASE EndProcess(p)
  BY <1>0, <1>1, EndFurther
<1>2. CASE LoadLine(p) /\ pc' = pc /\ idx' = [idx EXCEPT ![p] = idx[p] + 1]
  <2>1. Conf(p).lines \in Seq(Range(Conf(p).lines)) /\ Len(Conf(p).lines) <= MaxRoutes
    BY RouteLifecycleAssumption, Zenon DEF ProcTypes, Conf
  <2>2. Len(Conf(p).lines) \in Nat /\ idx[p] <= Len(Conf(p).lines)
    BY <1>2, <2>1 DEF LoadLine
  <2>3. idx'[p] = idx[p] + 1 /\ pc'[p] = pc[p] /\ idx[p] \in Nat
    BY <1>2, AssignedAt, AtProc, Zenon
  <2>4. idx[p] <= MaxRoutes /\ idx'[p] > idx[p]
    BY <2>1, <2>2, <2>3, RouteLifecycleAssumption
  <2>. QED  BY <2>3, <2>4, Zenon DEF Further
<1>3. CASE Goto(p, "start")
  <2>1. pc'[p] = "start"
    BY <1>3, AssignedAt, Zenon DEF Goto
  <2>. QED  BY <1>0, <2>1 DEF Further, Phase
<1>. QED  BY <1>1, <1>2, <1>3, Zenon DEF LoadLine, AddRoute, loading, Setup

(* The start of a route, up to bind.                                       *)
LEMMA StartFurther ==
  ASSUME ProcTypes, NEW p \in Proc, NextRoute(p) \/ StartStreamRoute(p) \/ StartDatagramRoute(p)
  PROVE  Further(p)
<1>0. pc[p] = "start"
  BY Zenon DEF NextRoute, StartStreamRoute, StartDatagramRoute
<1>1. ASSUME NEW e, GiveUp(p, e) \/ Undo(p, e) PROVE Further(p)
  BY <1>0, <1>1, GiveUpFurther, Zenon
<1>2. CASE Goto(p, "loop")
  <2>1. pc'[p] = "loop"
    BY <1>2, AssignedAt, Zenon DEF Goto
  <2>. QED  BY <1>0, <2>1 DEF Further, Phase
<1>3. CASE OpenSocket(p)
  <2>1. pc'[p] = "bind" /\ idx'[p] = idx[p]
    BY <1>3, AssignedAt, Zenon DEF OpenSocket, Goto
  <2>. QED  BY <1>0, <2>1 DEF Further, Phase, Turn
<1>. QED
  BY <1>1, <1>2, <1>3, Zenon
  DEF NextRoute, StartStreamRoute, StartDatagramRoute, OpenDatagramSocket

(* bind and listen: wait_ms bounds how often bind_with_wait waits.         *)
LEMMA BindFurther ==
  ASSUME ProcTypes, NEW p \in Proc, ProcInv(p), BindWithWait(p) \/ Listen(p)
  PROVE  Further(p)
<1>0. pc[p] \in {"bind", "listen"}
  BY Zenon DEF BindWithWait, Listen
<1>1. /\ idx[p] \in 1 .. Len(routes[p]) /\ Len(routes[p]) \in Nat /\ Len(routes[p]) <= MaxRoutes
      /\ idx[p] \in Nat /\ idx[p] <= MaxRoutes /\ waited[p] \in Nat
  <2>1. idx[p] <= Len(routes[p]) /\ idx[p] \in Nat \ {0} /\ waited[p] \in Nat
    BY <1>0, AtProc, Zenon DEF ProcInv, PhaseInv
  <2>2. Len(routes[p]) \in Nat /\ Len(routes[p]) <= MaxRoutes
    BY DEF ProcInv, PhaseInv
  <2>. QED  BY <2>1, <2>2, RouteLifecycleAssumption
<1>2. ASSUME NEW e, BindFails(p, e) PROVE Further(p)
  BY <1>0, <1>2, GiveUpFurther, Zenon DEF BindFails
<1>3. CASE pc[p] = "bind" /\ Goto(p, "listen") /\ UNCHANGED idx
  <2>1. pc'[p] = "listen" /\ idx'[p] = idx[p]
    BY <1>3, AssignedAt, Zenon DEF Goto
  <2>. QED  BY <1>3, <2>1 DEF Further, Phase, Turn
<1>4. CASE pc[p] = "listen" /\ ListenerUp(p)
  <2>1. pc'[p] = "start" /\ idx'[p] = idx[p] + 1
    BY <1>4, AssignedAt, Zenon DEF ListenerUp, Goto
  <2>2. idx'[p] > idx[p] /\ idx[p] <= MaxRoutes
    BY <1>1, <2>1
  <2>3. Phase(pc'[p]) = Phase(pc[p])
    BY <1>4, <2>1 DEF Phase
  <2>. QED  BY <2>2, <2>3, Zenon DEF Further
<1>5. CASE pc[p] = "bind" /\ ~NoMoreWait(p) /\ waited' = [waited EXCEPT ![p] = waited[p] + INTERVAL]
           /\ UNCHANGED <<pc, idx>>
  <2>1. waited'[p] = waited[p] + INTERVAL
    BY <1>5, AssignedAt, Zenon
  <2>2. waited'[p] > waited[p]
    BY <1>1, <2>1, RouteLifecycleAssumption
  <2>3. WaitMs(Here(p)) \in Int
    <3>1. Here(p).opts.bind_wait \in Nat
      BY <1>1, BindWaitNat, Zenon DEF Here
    <3>. HIDE DEF Here
    <3>. QED  BY <3>1, RouteLifecycleAssumption, RouteConfigAssumption DEF WaitMs, WrapInt
  <2>4. waited[p] < WaitMs(Here(p))
    <3>1. ~(waited[p] >= WaitMs(Here(p)))
      BY <1>5, Zenon DEF NoMoreWait
    <3>. HIDE DEF WaitMs, Here
    <3>. QED  BY <1>1, <2>3, <3>1
  <2>. QED  BY <1>5, <2>2, <2>4, Zenon DEF Further
<1>. QED  BY <1>2, <1>3, <1>4, <1>5, Zenon DEF BindWithWait, Listen

(* The way down: every started route is stopped and freed once.            *)
LEMMA WindFurther ==
  ASSUME ProcTypes, NEW p \in Proc, ProcInv(p),
         SignalCb(p) \/ StopRouteListeners(p) \/ JoinWorkers(p) \/ FreeRoute(p) \/ UnlinkPath(p)
  PROVE  Further(p)
<1>1. /\ started[p] \in Nat /\ idx[p] \in Nat /\ started[p] <= MaxRoutes
  <2>1. started[p] \in Nat /\ idx[p] \in Nat /\ started[p] <= Len(routes[p])
    BY AtProc, Zenon DEF ProcInv, PhaseInv
  <2>2. Len(routes[p]) \in Nat /\ Len(routes[p]) <= MaxRoutes
    BY DEF ProcInv, PhaseInv
  <2>. QED  BY <2>1, <2>2, RouteLifecycleAssumption
<1>2. ASSUME NEW l, Goto(p, l), Phase(l) < Phase(pc[p]) PROVE Further(p)
  BY <1>2, AssignedAt, Zenon DEF Goto, Further
<1>3. ASSUME NEW l, pc'[p] = l, Phase(l) = Phase(pc[p]), idx[p] <= started[p],
             idx' = [idx EXCEPT ![p] = idx[p] + 1]
      PROVE  Further(p)
  <2>1. idx'[p] = idx[p] + 1
    BY <1>3, AssignedAt, Zenon
  <2>2. idx[p] <= MaxRoutes /\ idx'[p] > idx[p]
    BY <1>1, <1>3, <2>1, RouteLifecycleAssumption
  <2>. QED  BY <1>3, <2>2, Zenon DEF Further
<1>4. /\ Phase("stop") < Phase("loop") /\ Phase("join") < Phase("stop")
      /\ Phase("free") < Phase("join") /\ Phase("undoUnlink") < Phase("undo")
      /\ Phase("stop") < Phase("undo") /\ Phase("stop") < Phase("undoUnlink")
      /\ Phase("free") = Phase("unlink") /\ Turn("unlink") < Turn("free")
  BY DEF Phase, Turn
<1>5. CASE SignalCb(p) \/ JoinWorkers(p)
  BY <1>2, <1>4, <1>5, Zenon DEF SignalCb, JoinWorkers
<1>6. CASE StopRouteListeners(p)
  BY <1>2, <1>3, <1>4, <1>6, Zenon DEF StopRouteListeners
<1>7. CASE pc[p] \in {"undo", "undoUnlink"} /\ AfterFree(p)
  BY <1>2, <1>4, <1>7, Zenon DEF AfterFree
<1>8. CASE pc[p] \in {"free", "unlink"} /\ idx[p] <= started[p] /\ AfterFree(p)
  <2>1. pc'[p] = "free" /\ idx' = [idx EXCEPT ![p] = idx[p] + 1]
    BY <1>8, AssignedAt, Zenon DEF AfterFree, Goto
  <2>2. Phase("free") = Phase(pc[p])
    BY <1>4, <1>8, Zenon
  <2>. QED  BY <1>3, <1>8, <2>1, <2>2, Zenon
<1>9. CASE UnlinkPath(p)
  BY <1>7, <1>8, <1>9, Zenon DEF UnlinkPath, ProcInv, PhaseInv
<1>10. CASE FreeRoute(p)
  <2>1. CASE pc[p] = "undo" /\ Goto(p, "undoUnlink")
    BY <1>2, <1>4, <2>1, Zenon
  <2>2. CASE pc[p] = "free" /\ Goto(p, "unlink") /\ UNCHANGED idx
    <3>1. pc'[p] = "unlink" /\ idx'[p] = idx[p]
      BY <2>2, AssignedAt, Zenon DEF Goto
    <3>. QED  BY <1>4, <2>2, <3>1, Zenon DEF Further
  <2>. QED  BY <1>7, <1>8, <1>10, <2>1, <2>2, Zenon DEF FreeRoute
<1>. QED  BY <1>5, <1>6, <1>9, <1>10, Zenon

(* Every step of main() brings the process closer to its end.              *)
LEMMA MainFurther ==
  ASSUME ProcTypes, NEW p \in Proc, ProcInv(p), Main(p)
  PROVE  Further(p)
<1>1. CASE Exit(p)
  BY <1>1, EndFurther, Zenon DEF Exit
<1>. QED  BY <1>1, LoadFurther, StartFurther, BindFurther, WindFurther, Zenon DEF Main

(* A signal that arrived is remembered as long as the process runs.        *)
LEMMA SignalKept ==
  ASSUME ProcTypes, NEW p \in Proc, NEW q \in Proc, Step(q), pend[p]
  PROVE  pend'[p] \/ pc'[p] = "off"
<1>0. pend \in [Proc -> BOOLEAN]
  BY Zenon DEF ProcTypes
<1>1. CASE pend' = pend
  BY <1>1, Zenon
<1>2. CASE pend' = [pend EXCEPT ![q] = TRUE]
  BY <1>0, <1>2, Zenon
<1>3. CASE EndProcess(q)
  <2>1. pend' = [pend EXCEPT ![q] = FALSE] /\ pc'[q] = "off"
    BY <1>3, AssignedAt, Zenon DEF EndProcess, Goto
  <2>. QED  BY <1>0, <2>1, Zenon
<1>4. CASE LoadLine(q) \/ Setup(q) \/ NextRoute(q) \/ Listen(q) \/ SignalCb(q) \/ StopRouteListeners(q)
  BY <1>1, <1>3, <1>4, Zenon DEF LoadLine, AddRoute, loading, Setup, NextRoute, Listen,
       SignalCb, StopRouteListeners
<1>5. CASE JoinWorkers(q) \/ FreeRoute(q) \/ UnlinkPath(q) \/ Exit(q)
  BY <1>1, <1>3, <1>5, Zenon DEF JoinWorkers, FreeRoute, UnlinkPath, Exit
<1>6. CASE Exec(q) \/ Signal(q) \/ Kill(q) \/ AcceptErrorCb(q)
  BY <1>1, <1>2, <1>3, <1>6, Zenon DEF Exec, Signal, Kill, AcceptErrorCb
<1>7. CASE StartStreamRoute(q) \/ StartDatagramRoute(q) \/ BindWithWait(q)
  BY <1>1, <1>7, Zenon DEF StartStreamRoute, StartDatagramRoute, BindWithWait
<1>. QED  BY <1>4, <1>5, <1>6, <1>7, Zenon DEF Step, Main

(* main() always gets on, whatever is configured and whatever the other    *)
(* processes do: it is never taken back, and a wait for an address has an  *)
(* end that bind_wait sets.                                                *)
THEOREM ProcessGoesForward == Spec => ProcessAdvances
<1>1. ASSUME Full, NEW q \in Proc, Step(q), NEW p \in Proc, Running(p)
      PROVE  Further(p) \/ (Aside(p) /\ ~Main(p))
  <2>0. ProcTypes /\ ProcInv(p) /\ ProcInv(q)
    BY <1>1, Zenon DEF Full
  <2>1. CASE Main(p)
    BY <2>0, <2>1, MainFurther, Zenon
  <2>2. CASE p # q /\ ~Main(p)
    <3>1. OthersKept(q)
      BY <1>1, <2>0, StepInv, Zenon
    <3>2. waited'[p] = waited[p]
      BY <1>1, <2>0, <2>2, WaitedKept, Zenon
    <3>. QED  BY <2>2, <3>1, <3>2, Zenon DEF OthersKept, Aside
  <2>3. CASE p = q /\ ~Main(p)
    <3>1. CASE Kill(p) \/ (Signal(p) /\ pc[p] = "load")
      BY <1>1, <2>0, <3>1, EndFurther, Zenon DEF Kill, Signal, Running
    <3>2. CASE Signal(p) /\ pc[p] # "load"
      BY <2>3, <3>2, Zenon DEF Signal, Aside
    <3>3. CASE AcceptErrorCb(p)
      <4>1. pc[p] = "loop" /\ pc'[p] = "stop"
        BY <2>0, <3>3, AssignedAt, Zenon DEF AcceptErrorCb, Goto
      <4>. QED  BY <4>1 DEF Further, Phase
    <3>. QED  BY <1>1, <2>3, <3>1, <3>2, <3>3, Zenon DEF Step, Exec, Running
  <2>. QED  BY <2>1, <2>2, <2>3, Zenon
<1>2. ASSUME Full, NEW q \in Proc, Step(q) PROVE GetsOn
  <2>0. ProcTypes
    BY <1>2, Zenon DEF Full
  <2>1. ASSUME NEW p \in Proc, Running(p)
        PROVE  /\ Further(p) \/ (Aside(p) /\ ~Main(p))
               /\ pend[p] => pend'[p] \/ pc'[p] = "off"
    BY <1>1, <1>2, <2>0, <2>1, SignalKept, Zenon
  <2>. QED  BY <2>1, Zenon DEF GetsOn
<1>3. ASSUME Full, NEW a \in Foreign, ForeignExit(a) PROVE GetsOn
  <2>1. UNCHANGED <<pc, idx, waited, pend>>
    BY <1>3, Zenon DEF ForeignExit
  <2>2. ASSUME NEW p \in Proc, Main(p) PROVE Further(p)
    BY <1>3, <2>2, MainFurther, Zenon DEF Full
  <2>. QED  BY <2>1, <2>2, Zenon DEF GetsOn, Aside
<1>4. Full /\ [Next]_vars => [GetsOn]_vars
  BY <1>2, <1>3, Zenon DEF Next, Step
<1>. QED  BY <1>4, FullHolds, PTL DEF Spec, ProcessAdvances
=============================================================================
