---------------------- MODULE RouteLifecycleStepProofs ----------------------
(***************************************************************************)
(* Proofs about RouteLifecycle, for every number of processes and whatever *)
(* they are configured with: that any step keeps what holds of a process   *)
(* by itself; then what a step does to the files at the paths, which of    *)
(* them a process keeps, and how a process comes to wait for an address    *)
(* and to give it up.                                                      *)
(***************************************************************************)
EXTENDS RouteLifecycle, TLAPS

(* FileRoutesDistinct and NoOrphanFd, of one process.                      *)
Distinct(p) ==
  Conf(p).file =>
    \A j, k \in DOMAIN routes[p] :
      j # k => ~SameListenEndpoint(routes[p][j].listen, routes[p][k].listen)

Owned(p, k) == k <= started[p] \/ (k = idx[p] /\ pc[p] \in {"bind", "listen", "undo"})

Orphan(p) ==
  \A k \in Index :
    /\ sock[p][k] # "none" => Owned(p, k)
    /\ k \in raw[p] => Owned(p, k) \/ (err[p] = "nomutex" /\ k = started[p] + 1)

(* What is true of each process by itself.                                 *)
ProcInv(p) == PhaseInv(p) /\ SockInv(p) /\ Distinct(p) /\ Orphan(p)

(* A step of p leaves what belongs to other processes alone.               *)
OthersKept(p) ==
  /\ conf' = conf
  /\ \A q \in Proc \ {p} :
       /\ pc'[q] = pc[q] /\ idx'[q] = idx[q] /\ routes'[q] = routes[q]
       /\ started'[q] = started[q] /\ sock'[q] = sock[q] /\ raw'[q] = raw[q]
       /\ err'[q] = err[q]

(* The types, without those of the paths.                                  *)
ProcTypes ==
  /\ \A p \in Proc : conf[p] \in DOMAIN Configs[p]
  /\ pc \in [Proc -> Label]
  /\ idx \in [Proc -> Nat \ {0}] /\ started \in [Proc -> Nat] /\ waited \in [Proc -> Nat]
  /\ sock \in [Proc -> [Index -> {"none", "open", "bound", "listening"}]]
  /\ raw \in [Proc -> SUBSET Index]
  /\ err \in [Proc -> {"none", "failed", "nomutex", "inuse"}]
  /\ pend \in [Proc -> BOOLEAN] /\ rival \in [Proc -> BOOLEAN]
  /\ routes = [p \in Proc |-> routes[p]]

(* What is kept of a process keeps its invariant.                          *)
LEMMA KeptInv ==
  ASSUME NEW p \in Proc, OthersKept(p), NEW q \in Proc \ {p}, ProcInv(q)
  PROVE  ProcInv(q)'
<1>1. /\ pc'[q] = pc[q] /\ idx'[q] = idx[q] /\ routes'[q] = routes[q]
      /\ started'[q] = started[q] /\ sock'[q] = sock[q] /\ raw'[q] = raw[q]
      /\ err'[q] = err[q] /\ Conf(q)' = Conf(q)
  BY Zenon DEF OthersKept, Conf
<1>2. PhaseInv(q)'
  BY <1>1, Zenon DEF ProcInv, PhaseInv, ReadRoutes, Here
<1>3. SockInv(q)'
  BY <1>1, Zenon DEF ProcInv, SockInv
<1>4. Distinct(q)'
  BY <1>1, Zenon DEF ProcInv, Distinct
<1>5. Orphan(q)'
  BY <1>1, Zenon DEF ProcInv, Orphan, Owned
<1>. QED  BY <1>2, <1>3, <1>4, <1>5, Zenon DEF ProcInv

(* An ended process has nothing.                                           *)
LEMMA EndInv ==
  ASSUME ProcTypes, NEW p \in Proc, EndProcess(p)
  PROVE  ProcTypes' /\ ProcInv(p)' /\ OthersKept(p)
<1>1. /\ pc' = [pc EXCEPT ![p] = "off"] /\ idx' = [idx EXCEPT ![p] = 1]
      /\ routes' = [routes EXCEPT ![p] = <<>>]
      /\ started' = [started EXCEPT ![p] = 0] /\ waited' = [waited EXCEPT ![p] = 0]
      /\ sock' = [sock EXCEPT ![p] = [k \in Index |-> "none"]]
      /\ raw' = [raw EXCEPT ![p] = {}] /\ err' = [err EXCEPT ![p] = "none"]
      /\ pend' = [pend EXCEPT ![p] = FALSE] /\ rival' = [rival EXCEPT ![p] = FALSE]
      /\ conf' = conf
  BY Zenon DEF EndProcess, Goto
<1>2. ProcTypes'
  <2>1. pend' \in [Proc -> BOOLEAN] /\ rival' \in [Proc -> BOOLEAN]
    BY <1>1, Zenon DEF ProcTypes
  <2>2. sock' \in [Proc -> [Index -> {"none", "open", "bound", "listening"}]]
    BY <1>1, Zenon DEF ProcTypes
  <2>3. raw' \in [Proc -> SUBSET Index]
    BY <1>1, Zenon DEF ProcTypes
  <2>4. routes' = [q \in Proc |-> routes'[q]]
    BY <1>1, Zenon DEF ProcTypes
  <2>5. pc' \in [Proc -> Label] /\ err' \in [Proc -> {"none", "failed", "nomutex", "inuse"}]
    BY <1>1, Zenon DEF ProcTypes, Label
  <2>6. idx' \in [Proc -> Nat \ {0}] /\ started' \in [Proc -> Nat] /\ waited' \in [Proc -> Nat]
    BY <1>1 DEF ProcTypes
  <2>. QED  BY <1>1, <2>1, <2>2, <2>3, <2>4, <2>5, <2>6, Zenon DEF ProcTypes
<1>3. /\ pc'[p] = "off" /\ idx'[p] = 1 /\ routes'[p] = <<>> /\ started'[p] = 0
      /\ raw'[p] = {} /\ err'[p] = "none" /\ \A k \in Index : sock'[p][k] = "none"
  BY <1>1, Zenon DEF ProcTypes
<1>4. PhaseInv(p)'
  BY <1>3, RouteLifecycleAssumption DEF PhaseInv
<1>5. SockInv(p)' /\ Distinct(p)' /\ Orphan(p)'
  BY <1>3, RouteLifecycleAssumption DEF SockInv, Distinct, Orphan, Index
<1>6. OthersKept(p)
  BY <1>1, Zenon DEF OthersKept, ProcTypes
<1>. QED  BY <1>2, <1>4, <1>5, <1>6, Zenon DEF ProcInv

(* A step of p that ends neither it nor another process: it may move on in *)
(* its program, change one of its listeners, its raw sockets, and the      *)
(* reason why it gives up.                                                 *)
Move(p, l, i, n, t, S, R, e, b) ==
  /\ pc' = [pc EXCEPT ![p] = l] /\ idx' = [idx EXCEPT ![p] = i]
  /\ started' = [started EXCEPT ![p] = n] /\ waited' = [waited EXCEPT ![p] = t]
  /\ sock' = [sock EXCEPT ![p] = S] /\ raw' = [raw EXCEPT ![p] = R]
  /\ err' = [err EXCEPT ![p] = e] /\ pend' = [pend EXCEPT ![p] = b]
  /\ conf' = conf /\ routes' = routes /\ rival' = rival

(* The types of what it assigns ...                                        *)
Typed(l, i, n, t, S, R, e, b) ==
  /\ l \in Label /\ i \in Nat \ {0} /\ n \in Nat /\ t \in Nat
  /\ S \in [Index -> {"none", "open", "bound", "listening"}] /\ R \in SUBSET Index
  /\ e \in {"none", "failed", "nomutex", "inuse"} /\ b \in BOOLEAN

(* ... and what p has afterwards.                                          *)
Moved(p, l, i, n, S, R, e) ==
  /\ pc'[p] = l /\ idx'[p] = i /\ started'[p] = n /\ sock'[p] = S /\ raw'[p] = R
  /\ err'[p] = e /\ routes'[p] = routes[p] /\ Conf(p)' = Conf(p)

(* Such a step keeps the types, and touches no other process.              *)
LEMMA MoveTypes ==
  ASSUME ProcTypes, NEW p \in Proc, NEW l, NEW i, NEW n, NEW t, NEW S, NEW R, NEW e, NEW b,
         Typed(l, i, n, t, S, R, e, b), Move(p, l, i, n, t, S, R, e, b)
  PROVE  ProcTypes' /\ OthersKept(p) /\ Moved(p, l, i, n, S, R, e)
<1>. USE DEF Typed
<1>1. pend' \in [Proc -> BOOLEAN] /\ rival' \in [Proc -> BOOLEAN]
  BY Zenon DEF ProcTypes, Move
<1>2. /\ sock' \in [Proc -> [Index -> {"none", "open", "bound", "listening"}]]
      /\ sock'[p] = S /\ \A q \in Proc \ {p} : sock'[q] = sock[q]
  BY Zenon DEF ProcTypes, Move
<1>3. /\ raw' \in [Proc -> SUBSET Index]
      /\ raw'[p] = R /\ \A q \in Proc \ {p} : raw'[q] = raw[q]
  BY Zenon DEF ProcTypes, Move
<1>4. routes' = [q \in Proc |-> routes'[q]]
  BY Zenon DEF ProcTypes, Move
<1>5. /\ pc' \in [Proc -> Label] /\ err' \in [Proc -> {"none", "failed", "nomutex", "inuse"}]
      /\ pc'[p] = l /\ err'[p] = e /\ \A q \in Proc \ {p} : pc'[q] = pc[q] /\ err'[q] = err[q]
  BY Zenon DEF ProcTypes, Move
<1>6. /\ idx' \in [Proc -> Nat \ {0}] /\ started' \in [Proc -> Nat] /\ waited' \in [Proc -> Nat]
      /\ idx'[p] = i /\ started'[p] = n
      /\ \A q \in Proc \ {p} : idx'[q] = idx[q] /\ started'[q] = started[q]
  BY Zenon DEF ProcTypes, Move
<1>7. ProcTypes'
  BY <1>1, <1>2, <1>3, <1>4, <1>5, <1>6, Zenon DEF ProcTypes, Move
<1>8. OthersKept(p)
  BY <1>2, <1>3, <1>5, <1>6, Zenon DEF OthersKept, Move
<1>. QED  BY <1>2, <1>3, <1>5, <1>6, <1>7, <1>8, Zenon DEF Move, Moved, Conf

(* What the types say about one process.                                   *)
LEMMA AtProc ==
  ASSUME ProcTypes, NEW p \in Proc
  PROVE  /\ pc[p] \in Label /\ idx[p] \in Nat \ {0} /\ started[p] \in Nat /\ waited[p] \in Nat
         /\ sock[p] \in [Index -> {"none", "open", "bound", "listening"}]
         /\ raw[p] \in SUBSET Index
         /\ err[p] \in {"none", "failed", "nomutex", "inuse"}
         /\ pend[p] \in BOOLEAN
         /\ pc = [pc EXCEPT ![p] = pc[p]] /\ idx = [idx EXCEPT ![p] = idx[p]]
         /\ started = [started EXCEPT ![p] = started[p]] /\ waited = [waited EXCEPT ![p] = waited[p]]
         /\ sock = [sock EXCEPT ![p] = sock[p]] /\ raw = [raw EXCEPT ![p] = raw[p]]
         /\ err = [err EXCEPT ![p] = err[p]] /\ pend = [pend EXCEPT ![p] = pend[p]]
  BY Zenon DEF ProcTypes

(* A change of one of p's listeners.                                       *)
With(p, k, v) == [sock[p] EXCEPT ![k] = v]

(* Its type, and what it says of each listener.                            *)
LEMMA SetSock ==
  ASSUME ProcTypes, NEW p \in Proc, NEW k, NEW v \in {"none", "open", "bound", "listening"}
  PROVE  /\ With(p, k, v) \in [Index -> {"none", "open", "bound", "listening"}]
         /\ \A j \in Index : With(p, k, v)[j] = IF j = k THEN v ELSE sock[p][j]
<1>1. sock[p] \in [Index -> {"none", "open", "bound", "listening"}]
  BY Zenon DEF ProcTypes
<1>. QED  BY <1>1, Zenon DEF With

-----------------------------------------------------------------------------
(* Only the sockets of the route p is dealing with have changed ...        *)
Opened(p, S, R) ==
  /\ S \in [Index -> {"none", "open", "bound", "listening"}] /\ R \in SUBSET Index
  /\ \A k \in Index : k # idx[p] => S[k] = sock[p][k]
  /\ R \subseteq raw[p] \union {idx[p]}
  /\ idx[p] \in R => idx[p] <= Len(routes[p]) /\ ~IsStream(Here(p))

(* ... and they are closed.                                                *)
Closed(p, S, R, e) ==
  /\ Opened(p, S, R)
  /\ \A k \in Index : k = idx[p] => S[k] = "none"
  /\ idx[p] \in R => e = "nomutex"

(* p gives up the route it is starting: what it has opened for it is       *)
(* closed, but for a raw socket that is forgotten.                         *)
LEMMA StopInv ==
  ASSUME ProcTypes, NEW p \in Proc, ProcInv(p), pc[p] \in {"start", "bind", "listen"},
         NEW t \in Nat, NEW e \in {"failed", "nomutex", "inuse"},
         NEW S, NEW R, Closed(p, S, R, e),
         Move(p, "stop", 1, started[p], t, S, R, e, pend[p])
  PROVE  ProcTypes' /\ ProcInv(p)' /\ OthersKept(p)
<1>0. started[p] \in Nat /\ Typed("stop", 1, started[p], t, S, R, e, pend[p])
  BY AtProc DEF Label, Typed, Closed, Opened
<1>1. ProcTypes' /\ OthersKept(p) /\ Moved(p, "stop", 1, started[p], S, R, e)
  BY <1>0, MoveTypes, Zenon
<1>2. idx[p] = started[p] + 1
  BY Zenon DEF ProcInv, PhaseInv
<1>3. PhaseInv(p)'
  BY <1>1, Zenon DEF Moved, ProcInv, PhaseInv, ReadRoutes
<1>r. \A k \in R : k <= Len(routes[p]) /\ ~IsStream(routes[p][k])
  BY Zenon DEF ProcInv, SockInv, Here, Closed, Opened
<1>s. \A k \in Index : k <= started[p] => S[k] = sock[p][k]
  BY <1>0, <1>2, RouteLifecycleAssumption DEF Index, Closed, Opened
<1>4. SockInv(p)'
  BY <1>1, <1>r, <1>s, Zenon DEF Moved, ProcInv, SockInv
<1>5. Distinct(p)'
  BY <1>1, Zenon DEF Moved, ProcInv, Distinct
<1>6. Orphan(p)'
  BY <1>0, <1>1, <1>2, RouteLifecycleAssumption, Zenon DEF Moved, ProcInv, Orphan, Owned, Index, Closed, Opened
<1>. QED  BY <1>1, <1>3, <1>4, <1>5, <1>6, Zenon DEF ProcInv

(* Of a datagram route that cannot be started the sockets are still open.  *)
LEMMA UndoInv ==
  ASSUME ProcTypes, NEW p \in Proc, ProcInv(p), pc[p] \in {"start", "bind", "listen"},
         idx[p] <= Len(routes[p]), ~IsStream(Here(p)),
         NEW t \in Nat, NEW e \in {"failed", "inuse"},
         NEW S, NEW R, Opened(p, S, R),
         Move(p, "undo", idx[p], started[p], t, S, R, e, pend[p])
  PROVE  ProcTypes' /\ ProcInv(p)' /\ OthersKept(p)
<1>0. started[p] \in Nat /\ Typed("undo", idx[p], started[p], t, S, R, e, pend[p])
  BY AtProc, Zenon DEF Label, Typed, Opened
<1>1. ProcTypes' /\ OthersKept(p) /\ Moved(p, "undo", idx[p], started[p], S, R, e)
  BY <1>0, MoveTypes, Zenon
<1>2. idx[p] = started[p] + 1
  BY Zenon DEF ProcInv, PhaseInv
<1>3. PhaseInv(p)'
  BY <1>1, <1>2, Zenon DEF Moved, ProcInv, PhaseInv, ReadRoutes, Here, IsStream
<1>r. \A k \in R : k <= Len(routes[p]) /\ ~IsStream(routes[p][k])
  BY Zenon DEF ProcInv, SockInv, Here, Opened
<1>s. \A k \in Index : k <= started[p] => S[k] = sock[p][k]
  BY <1>0, <1>2, RouteLifecycleAssumption DEF Index, Opened
<1>4. SockInv(p)'
  BY <1>1, <1>r, <1>s, Zenon DEF Moved, ProcInv, SockInv
<1>5. Distinct(p)'
  BY <1>1, Zenon DEF Moved, ProcInv, Distinct
<1>6. Orphan(p)'
  BY <1>0, <1>1, <1>2, RouteLifecycleAssumption, Zenon DEF Moved, ProcInv, Orphan, Owned, Index, Opened
<1>. QED  BY <1>1, <1>3, <1>4, <1>5, <1>6, Zenon DEF ProcInv

(* A socket that is being prepared belongs to the route that is started.   *)
LEMMA PrepareInv ==
  ASSUME ProcTypes, NEW p \in Proc, ProcInv(p), pc[p] \in {"start", "bind", "listen"},
         idx[p] <= Len(routes[p]),
         NEW l \in {"bind", "listen"}, NEW t \in Nat,
         NEW S, NEW R, Opened(p, S, R),
         Move(p, l, idx[p], started[p], t, S, R, err[p], pend[p])
  PROVE  ProcTypes' /\ ProcInv(p)' /\ OthersKept(p)
<1>0. started[p] \in Nat /\ Typed(l, idx[p], started[p], t, S, R, err[p], pend[p])
  BY AtProc, Zenon DEF Label, Typed, Opened
<1>1. ProcTypes' /\ OthersKept(p) /\ Moved(p, l, idx[p], started[p], S, R, err[p])
  BY <1>0, MoveTypes, Zenon
<1>2. idx[p] = started[p] + 1 /\ err[p] = "none"
  BY Zenon DEF ProcInv, PhaseInv
<1>3. PhaseInv(p)'
  BY <1>1, <1>2, Zenon DEF Moved, ProcInv, PhaseInv, ReadRoutes
<1>r. \A k \in R : k <= Len(routes[p]) /\ ~IsStream(routes[p][k])
  BY Zenon DEF ProcInv, SockInv, Here, Opened
<1>s. \A k \in Index : k <= started[p] => S[k] = sock[p][k]
  BY <1>0, <1>2, RouteLifecycleAssumption DEF Index, Opened
<1>4. SockInv(p)'
  BY <1>1, <1>r, <1>s, Zenon DEF Moved, ProcInv, SockInv
<1>5. Distinct(p)'
  BY <1>1, Zenon DEF Moved, ProcInv, Distinct
<1>6. Orphan(p)'
  BY <1>0, <1>1, <1>2, RouteLifecycleAssumption, Zenon DEF Moved, ProcInv, Orphan, Owned, Index, Opened
<1>. QED  BY <1>1, <1>3, <1>4, <1>5, <1>6, Zenon DEF ProcInv

(* Before a route is started it has no sockets.                            *)
LEMMA NothingYet ==
  ASSUME ProcTypes, NEW p \in Proc, ProcInv(p), pc[p] = "start"
  PROVE  /\ idx[p] \notin raw[p] /\ \A k \in Index : k = idx[p] => sock[p][k] = "none"
         /\ Closed(p, sock[p], raw[p], "failed")
<1>1. idx[p] = started[p] + 1 /\ started[p] \in Nat /\ err[p] = "none" /\ raw[p] \subseteq Index
  BY AtProc, Zenon DEF ProcInv, PhaseInv
<1>2. idx[p] \notin raw[p] /\ \A k \in Index : k = idx[p] => sock[p][k] = "none"
  BY <1>1 DEF ProcInv, Orphan, Owned
<1>. QED  BY <1>2, AtProc, Zenon DEF Closed, Opened

(* What PhaseInv says of the routes alone.                                 *)
LEMMA RoutesSeq ==
  ASSUME NEW p \in Proc, ProcInv(p)
  PROVE  /\ routes[p] \in Seq(ReadRoutes(p)) /\ Len(routes[p]) <= MaxRoutes
         /\ Len(routes[p]) \in Nat /\ DOMAIN routes[p] = 1..Len(routes[p])
<1>1. routes[p] \in Seq(ReadRoutes(p)) /\ Len(routes[p]) <= MaxRoutes
  BY Zenon DEF ProcInv, PhaseInv
<1>. QED  BY <1>1

(* The turn to the next route.                                             *)
LEMMA NextRouteInv ==
  ASSUME ProcTypes, NEW p \in Proc, ProcInv(p), NextRoute(p)
  PROVE  ProcTypes' /\ ProcInv(p)' /\ OthersKept(p)
<1>1. CASE idx[p] > Len(routes[p])
  <2>1. Move(p, "loop", idx[p], started[p], waited[p], sock[p], raw[p], err[p], pend[p])
    BY <1>1, AtProc, Zenon DEF NextRoute, Goto, static, Move
  <2>2. /\ started[p] \in Nat /\ idx[p] = started[p] + 1
        /\ Typed("loop", idx[p], started[p], waited[p], sock[p], raw[p], err[p], pend[p])
    BY AtProc, Zenon DEF Label, Typed, ProcInv, PhaseInv, NextRoute
  <2>3. ProcTypes' /\ OthersKept(p) /\ Moved(p, "loop", idx[p], started[p], sock[p], raw[p], err[p])
    BY <2>1, <2>2, MoveTypes, Zenon
  <2>4. PhaseInv(p)'
    <3>1. ReadRoutes(p)' = ReadRoutes(p)
      BY <2>3, Zenon DEF ReadRoutes, Moved
    <3>2. /\ routes[p] \in Seq(ReadRoutes(p)) /\ Len(routes[p]) <= MaxRoutes
          /\ started[p] <= Len(routes[p]) /\ err[p] = "none"
      BY Zenon DEF ProcInv, PhaseInv, NextRoute
    <3>3. started[p] = Len(routes[p])
      BY <1>1, <2>2, <3>2, RoutesSeq
    <3>. QED  BY <2>3, <3>1, <3>2, <3>3, Zenon DEF PhaseInv, Moved
  <2>5. SockInv(p)'
    BY <2>3, Zenon DEF ProcInv, SockInv, Moved, NextRoute
  <2>6. Distinct(p)'
    BY <2>3, Zenon DEF ProcInv, Distinct, Moved
  <2>7. Orphan(p)'
    BY <2>3, Zenon DEF ProcInv, Orphan, Owned, Moved, NextRoute
  <2>. QED  BY <2>3, <2>4, <2>5, <2>6, <2>7, Zenon DEF ProcInv
<1>2. CASE ~(idx[p] > Len(routes[p]))
  <2>1. Move(p, "stop", 1, started[p], waited[p], sock[p], raw[p], "failed", pend[p])
    BY <1>2, AtProc, Zenon DEF NextRoute, GiveUp, Goto, static, Move
  <2>2. pc[p] = "start"
    BY Zenon DEF NextRoute
  <2>. QED  BY <2>1, <2>2, StopInv, NothingYet, AtProc, Zenon
<1>. QED  BY <1>1, <1>2, Zenon

(* The start of a stream listener.                                         *)
LEMMA StartStreamRouteInv ==
  ASSUME ProcTypes, NEW p \in Proc, ProcInv(p), StartStreamRoute(p)
  PROVE  ProcTypes' /\ ProcInv(p)' /\ OthersKept(p)
<1>0. pc[p] = "start" /\ idx[p] <= Len(routes[p])
  BY Zenon DEF StartStreamRoute
<1>1. CASE OpenSocket(p)
  <2>1. Opened(p, With(p, idx[p], "open"), raw[p])
    BY SetSock, AtProc, <1>0, NothingYet DEF Opened
  <2>2. Move(p, "bind", idx[p], started[p], 0, With(p, idx[p], "open"), raw[p], err[p], pend[p])
    BY <1>1, AtProc, Zenon DEF StartStreamRoute, OpenSocket, Goto, static, Move, With
  <2>. QED  BY <1>0, <2>1, <2>2, PrepareInv, AtProc, Zenon
<1>2. CASE GiveUp(p, "failed") /\ UNCHANGED <<sock, waited>>
  <2>1. Move(p, "stop", 1, started[p], waited[p], sock[p], raw[p], "failed", pend[p])
    BY <1>2, AtProc, Zenon DEF StartStreamRoute, GiveUp, Goto, static, Move
  <2>. QED  BY <1>0, <2>1, StopInv, NothingYet, AtProc, Zenon
<1>. QED  BY <1>1, <1>2, Zenon DEF StartStreamRoute

(* The start of a datagram route.                                          *)
LEMMA StartDatagramRouteInv ==
  ASSUME ProcTypes, NEW p \in Proc, ProcInv(p), StartDatagramRoute(p)
  PROVE  ProcTypes' /\ ProcInv(p)' /\ OthersKept(p)
<1>0. /\ pc[p] = "start" /\ idx[p] <= Len(routes[p]) /\ ~IsStream(Here(p))
      /\ conf' = conf /\ routes' = routes /\ rival' = rival /\ started' = started /\ pend' = pend
  BY Zenon DEF StartDatagramRoute, static
<1>i. idx[p] \in Index
  BY <1>0, AtProc, RouteLifecycleAssumption DEF ProcInv, PhaseInv, Index
<1>1. CASE GiveUp(p, "failed") /\ UNCHANGED <<raw, sock, waited, node>>
  <2>1. Move(p, "stop", 1, started[p], waited[p], sock[p], raw[p], "failed", pend[p])
    BY <1>0, <1>1, AtProc, Zenon DEF GiveUp, Goto, Move
  <2>. QED  BY <1>0, <2>1, StopInv, NothingYet, AtProc, Zenon
<1>2. ASSUME NEW R \in SUBSET Index, R \subseteq raw[p] \union {idx[p]}, raw' = [raw EXCEPT ![p] = R],
             \/ GiveUp(p, "nomutex") /\ UNCHANGED <<sock, waited, node>>
             \/ Undo(p, "failed") /\ UNCHANGED <<sock, waited, node>>
             \/ OpenDatagramSocket(p)
      PROVE  ProcTypes' /\ ProcInv(p)' /\ OthersKept(p)
  <2>1. CASE GiveUp(p, "nomutex") /\ UNCHANGED <<sock, waited, node>>
    <3>1. Move(p, "stop", 1, started[p], waited[p], sock[p], R, "nomutex", pend[p])
      BY <1>0, <1>2, <2>1, AtProc, Zenon DEF GiveUp, Goto, Move
    <3>2. Closed(p, sock[p], R, "nomutex")
      BY <1>0, <1>2, NothingYet, AtProc, Zenon DEF Closed, Opened
    <3>. QED  BY <1>0, <3>1, <3>2, StopInv, AtProc, Zenon
  <2>2. CASE Undo(p, "failed") /\ sock' = sock /\ waited' = waited
    <3>1. Move(p, "undo", idx[p], started[p], waited[p], sock[p], R, "failed", pend[p])
      BY <1>0, <1>2, <2>2, AtProc, Zenon DEF Undo, Goto, Move
    <3>2. Opened(p, sock[p], R)
      BY <1>0, <1>2, AtProc, Zenon DEF Opened
    <3>. QED  BY <1>0, <3>1, <3>2, UndoInv, AtProc, Zenon
  <2>3. CASE Undo(p, "failed") /\ sock' = [sock EXCEPT ![p][idx[p]] = "open"] /\ waited' = waited
    <3>1. Opened(p, With(p, idx[p], "open"), R)
      BY <1>0, <1>2, SetSock, AtProc DEF Opened
    <3>2. Move(p, "undo", idx[p], started[p], waited[p], With(p, idx[p], "open"), R, "failed", pend[p])
      BY <1>0, <1>2, <2>3, AtProc, Zenon DEF Undo, Goto, Move, With
    <3>. QED  BY <1>0, <3>1, <3>2, UndoInv, AtProc, Zenon
  <2>4. CASE OpenSocket(p)
    <3>1. Opened(p, With(p, idx[p], "open"), R)
      BY <1>0, <1>2, SetSock, AtProc DEF Opened
    <3>2. Move(p, "bind", idx[p], started[p], 0, With(p, idx[p], "open"), R, err[p], pend[p])
      BY <1>0, <1>2, <2>4, AtProc, Zenon DEF OpenSocket, Goto, Move, With
    <3>. QED  BY <1>0, <3>1, <3>2, PrepareInv, AtProc, Zenon
  <2>. QED  BY <1>2, <2>1, <2>2, <2>3, <2>4, Zenon DEF OpenDatagramSocket
<1>3. CASE ~(GiveUp(p, "failed") /\ UNCHANGED <<raw, sock, waited, node>>)
  <2>. DEFINE R == IF Here(p).opts.broadcast_reply = "upstream" THEN raw[p] \union {idx[p]} ELSE raw[p]
  <2>1. R \in SUBSET Index /\ R \subseteq raw[p] \union {idx[p]}
    BY <1>i, AtProc, Zenon
  <2>2. raw' = [raw EXCEPT ![p] = R]
    BY <1>3, AtProc, Zenon DEF StartDatagramRoute
  <2>3. \/ GiveUp(p, "nomutex") /\ UNCHANGED <<sock, waited, node>>
        \/ Undo(p, "failed") /\ UNCHANGED <<sock, waited, node>>
        \/ OpenDatagramSocket(p)
    BY <1>3, Zenon DEF StartDatagramRoute
  <2>. HIDE DEF R
  <2>. QED  BY <1>2, <2>1, <2>2, <2>3, Zenon
<1>. QED  BY <1>1, <1>3, Zenon

(* A listener that cannot be bound, or cannot listen.                      *)
LEMMA BindFailsInv ==
  ASSUME ProcTypes, NEW p \in Proc, ProcInv(p), pc[p] \in {"bind", "listen"},
         NEW e \in {"failed", "inuse"}, BindFails(p, e),
         UNCHANGED <<static, started, raw, pend>>
  PROVE  ProcTypes' /\ ProcInv(p)' /\ OthersKept(p)
<1>0. idx[p] <= Len(routes[p]) /\ idx[p] \in raw[p] => ~IsStream(Here(p))
  BY Zenon DEF ProcInv, PhaseInv, SockInv, Here
<1>l. idx[p] <= Len(routes[p])
  BY Zenon DEF ProcInv, PhaseInv
<1>1. CASE IsStream(Here(p))
  <2>1. Move(p, "stop", 1, started[p], waited[p], With(p, idx[p], "none"), raw[p], e, pend[p])
    BY <1>1, AtProc, Zenon DEF BindFails, GiveUp, Close, Goto, static, Move, With
  <2>2. Closed(p, With(p, idx[p], "none"), raw[p], e)
    BY <1>0, <1>l, <1>1, SetSock, AtProc DEF Closed, Opened
  <2>. QED  BY <2>1, <2>2, StopInv, AtProc
<1>2. CASE ~IsStream(Here(p))
  <2>1. Move(p, "undo", idx[p], started[p], waited[p], sock[p], raw[p], e, pend[p])
    BY <1>2, AtProc, Zenon DEF BindFails, Undo, Goto, static, Move
  <2>2. Opened(p, sock[p], raw[p])
    BY <1>l, <1>2, AtProc, Zenon DEF Opened
  <2>. QED  BY <1>l, <1>2, <2>1, <2>2, UndoInv, AtProc
<1>. QED  BY <1>1, <1>2, Zenon

(* A turn of bind_with_wait.                                               *)
LEMMA BindWithWaitInv ==
  ASSUME ProcTypes, NEW p \in Proc, ProcInv(p), BindWithWait(p)
  PROVE  ProcTypes' /\ ProcInv(p)' /\ OthersKept(p)
<1>0. /\ pc[p] = "bind" /\ UNCHANGED <<static, started, raw, pend>>
      /\ idx[p] <= Len(routes[p]) /\ idx[p] \in raw[p] => ~IsStream(Here(p))
  BY Zenon DEF BindWithWait, ProcInv, PhaseInv, SockInv, Here
<1>1. CASE /\ sock' = [sock EXCEPT ![p][idx[p]] = "bound"] /\ waited' = [waited EXCEPT ![p] = 0]
           /\ Goto(p, "listen") /\ UNCHANGED <<idx, err>>
  <2>1. Move(p, "listen", idx[p], started[p], 0, With(p, idx[p], "bound"), raw[p], err[p], pend[p])
    BY <1>0, <1>1, AtProc, Zenon DEF Goto, static, Move, With
  <2>2. Opened(p, With(p, idx[p], "bound"), raw[p])
    BY <1>0, SetSock, AtProc DEF Opened, ProcInv, PhaseInv
  <2>. QED  BY <1>0, <2>1, <2>2, PrepareInv, AtProc, Zenon DEF ProcInv, PhaseInv
<1>2. CASE waited' = [waited EXCEPT ![p] = @ + INTERVAL] /\ UNCHANGED <<pc, idx, err, sock, node>>
  <2>1. Move(p, "bind", idx[p], started[p], waited[p] + INTERVAL, sock[p], raw[p], err[p], pend[p])
    BY <1>0, <1>2, AtProc, Zenon DEF static, Move
  <2>2. Opened(p, sock[p], raw[p]) /\ waited[p] + INTERVAL \in Nat
    BY <1>0, AtProc, RouteLifecycleAssumption DEF Opened, ProcInv, PhaseInv
  <2>. QED  BY <1>0, <2>1, <2>2, PrepareInv, AtProc, Zenon DEF ProcInv, PhaseInv
<1>3. CASE BindFails(p, "inuse") \/ BindFails(p, "failed")
  BY <1>0, <1>3, BindFailsInv, Zenon
<1>. QED  BY <1>1, <1>2, <1>3, Zenon DEF BindWithWait

-----------------------------------------------------------------------------
(* The listener is there.                                                  *)
LEMMA ListenerUpInv ==
  ASSUME ProcTypes, NEW p \in Proc, ProcInv(p), pc[p] = "listen", ListenerUp(p),
         UNCHANGED <<static, raw, pend>>
  PROVE  ProcTypes' /\ ProcInv(p)' /\ OthersKept(p)
<1>1. Move(p, "start", idx[p] + 1, idx[p], waited[p], With(p, idx[p], "listening"), raw[p], err[p], pend[p])
  BY AtProc, Zenon DEF ListenerUp, Goto, static, Move, With
<1>2. /\ started[p] \in Nat /\ idx[p] = started[p] + 1 /\ idx[p] <= Len(routes[p]) /\ err[p] = "none"
      /\ raw[p] \subseteq Index
  BY AtProc, Zenon DEF ProcInv, PhaseInv
<1>3. /\ With(p, idx[p], "listening") \in [Index -> {"none", "open", "bound", "listening"}]
      /\ \A j \in Index : With(p, idx[p], "listening")[j] = IF j = idx[p] THEN "listening" ELSE sock[p][j]
  BY SetSock
<1>4. Typed("start", idx[p] + 1, idx[p], waited[p], With(p, idx[p], "listening"), raw[p], err[p], pend[p])
  BY <1>2, <1>3, AtProc DEF Label, Typed
<1>5. /\ ProcTypes' /\ OthersKept(p)
      /\ Moved(p, "start", idx[p] + 1, idx[p], With(p, idx[p], "listening"), raw[p], err[p])
  BY <1>1, <1>4, MoveTypes, Zenon
<1>6. PhaseInv(p)'
  BY <1>2, <1>5, Zenon DEF ProcInv, PhaseInv, ReadRoutes, Moved
<1>7. SockInv(p)'
  <2>1. \A k \in Index : k <= idx[p] => With(p, idx[p], "listening")[k] = "listening"
    BY <1>2, <1>3, RouteLifecycleAssumption DEF ProcInv, SockInv, Index
  <2>. QED  BY <1>5, <2>1, Zenon DEF ProcInv, SockInv, Moved
<1>8. Distinct(p)'
  BY <1>5, Zenon DEF ProcInv, Distinct, Moved
<1>9. Orphan(p)'
  <2>1. \A k \in Index : With(p, idx[p], "listening")[k] # "none" => k <= idx[p]
    BY <1>2, <1>3, RouteLifecycleAssumption DEF ProcInv, Orphan, Owned, Index
  <2>2. \A k \in raw[p] : k <= idx[p]
    BY <1>2, RouteLifecycleAssumption DEF ProcInv, Orphan, Owned, Index
  <2>. QED  BY <1>5, <2>1, <2>2, Zenon DEF Orphan, Owned, Moved
<1>. QED  BY <1>5, <1>6, <1>7, <1>8, <1>9, Zenon DEF ProcInv

(* What p does at last: it goes through its routes again.                  *)
Winding(p, l, i, S, R) ==
  /\ l \in {"stop", "join", "free", "unlink"} /\ i \in Nat \ {0}
  /\ S \in [Index -> {"none", "open", "bound", "listening"}] /\ R \in SUBSET raw[p]
  /\ l = "unlink" => i <= started[p] /\ IsUnix(routes[p][i])
  /\ l \in {"stop", "join"} =>
       \A k \in Index : k <= started[p] /\ ~IsStream(routes[p][k]) => S[k] = "listening"
  /\ \A k \in Index : S[k] # "none" => k <= started[p]
  /\ \A k \in R : k <= started[p] \/ (err[p] = "nomutex" /\ k = started[p] + 1)

(* Such a step keeps the invariant.                                        *)
LEMMA WindInv ==
  ASSUME ProcTypes, NEW p \in Proc, ProcInv(p), NEW l, NEW i, NEW S, NEW R, Winding(p, l, i, S, R),
         Move(p, l, i, started[p], waited[p], S, R, err[p], pend[p])
  PROVE  ProcTypes' /\ ProcInv(p)' /\ OthersKept(p)
<1>1. Typed(l, i, started[p], waited[p], S, R, err[p], pend[p])
  BY AtProc, Zenon DEF Winding, Typed, Label
<1>2. ProcTypes' /\ OthersKept(p) /\ Moved(p, l, i, started[p], S, R, err[p])
  BY <1>1, MoveTypes, Zenon
<1>3. PhaseInv(p)'
  <2>1. ReadRoutes(p)' = ReadRoutes(p)
    BY <1>2, Zenon DEF ReadRoutes, Moved
  <2>2. Here(p)' = routes[p][i]
    BY <1>2, Zenon DEF Moved, Here
  <2>3. /\ routes[p] \in Seq(ReadRoutes(p)) /\ Len(routes[p]) <= MaxRoutes
        /\ started[p] <= Len(routes[p])
    BY Zenon DEF ProcInv, PhaseInv
  <2>. QED  BY <1>2, <2>1, <2>2, <2>3, Zenon DEF Winding, PhaseInv, Moved
<1>4. SockInv(p)'
  BY <1>2, Zenon DEF Winding, ProcInv, SockInv, Moved
<1>5. Distinct(p)'
  BY <1>2, Zenon DEF ProcInv, Distinct, Moved
<1>6. Orphan(p)'
  BY <1>2, Zenon DEF Winding, Orphan, Owned, Moved
<1>. QED  BY <1>2, <1>3, <1>4, <1>5, <1>6, Zenon DEF ProcInv

(* Where nothing is being started, what is open belongs to started routes. *)
LEMMA OpenStarted ==
  ASSUME ProcTypes, NEW p \in Proc, ProcInv(p), pc[p] \notin {"bind", "listen", "undo"}
  PROVE  /\ \A k \in Index : sock[p][k] # "none" => k <= started[p]
         /\ \A k \in raw[p] : k <= started[p] \/ (err[p] = "nomutex" /\ k = started[p] + 1)
  BY AtProc, Zenon DEF ProcInv, Orphan, Owned

(* The end of the event loop, and worker_pool_join.                        *)
LEMMA QuietWindInv ==
  ASSUME ProcTypes, NEW p \in Proc, ProcInv(p), SignalCb(p) \/ AcceptErrorCb(p) \/ JoinWorkers(p)
  PROVE  ProcTypes' /\ ProcInv(p)' /\ OthersKept(p)
<1>. DEFINE l == IF pc[p] = "loop" THEN "stop" ELSE "free"
<1>1. pc[p] \in {"loop", "join"} /\ pc' = [pc EXCEPT ![p] = l] /\ idx' = [idx EXCEPT ![p] = 1]
      /\ UNCHANGED <<static, started, waited, sock, raw, err, pend, node>>
  BY Zenon DEF SignalCb, AcceptErrorCb, JoinWorkers, Goto
<1>2. Move(p, l, 1, started[p], waited[p], sock[p], raw[p], err[p], pend[p])
  BY <1>1, AtProc, Zenon DEF Move, static
<1>3. Winding(p, l, 1, sock[p], raw[p])
  <2>1. l \in {"stop", "free"} /\ (l = "stop" => pc[p] = "loop")
    BY <1>1, Zenon
  <2>2. /\ \A k \in Index : sock[p][k] # "none" => k <= started[p]
        /\ \A k \in raw[p] : k <= started[p] \/ (err[p] = "nomutex" /\ k = started[p] + 1)
    BY <1>1, OpenStarted, Zenon
  <2>3. pc[p] = "loop" => \A k \in Index : k <= started[p] => sock[p][k] = "listening"
    BY Zenon DEF ProcInv, SockInv
  <2>. QED  BY <2>1, <2>2, <2>3, AtProc DEF Winding
<1>. HIDE DEF l
<1>. QED  BY <1>2, <1>3, WindInv, Zenon

(* A turn of the loop over stop_route_listeners.                           *)
LEMMA StopRouteListenersInv ==
  ASSUME ProcTypes, NEW p \in Proc, ProcInv(p), StopRouteListeners(p)
  PROVE  ProcTypes' /\ ProcInv(p)' /\ OthersKept(p)
<1>0. pc[p] = "stop" /\ UNCHANGED <<static, started, waited, raw, err, pend, node>>
  BY Zenon DEF StopRouteListeners
<1>1. CASE idx[p] <= started[p] /\ IsStream(Here(p))
  <2>1. Move(p, "stop", idx[p] + 1, started[p], waited[p], With(p, idx[p], "none"), raw[p], err[p], pend[p])
    BY <1>0, <1>1, AtProc, Zenon DEF StopRouteListeners, Close, With, Move, static
  <2>2. /\ With(p, idx[p], "none") \in [Index -> {"none", "open", "bound", "listening"}]
        /\ \A j \in Index : With(p, idx[p], "none")[j] = IF j = idx[p] THEN "none" ELSE sock[p][j]
    BY SetSock
  <2>3. Winding(p, "stop", idx[p] + 1, With(p, idx[p], "none"), raw[p])
    BY <1>0, <1>1, <2>2, AtProc, OpenStarted DEF Winding, ProcInv, SockInv, Here
  <2>. QED  BY <2>1, <2>3, WindInv, Zenon
<1>2. CASE idx[p] <= started[p] /\ ~IsStream(Here(p))
  <2>1. Move(p, "stop", idx[p] + 1, started[p], waited[p], sock[p], raw[p], err[p], pend[p])
    BY <1>0, <1>2, AtProc, Zenon DEF StopRouteListeners, Move, static
  <2>2. Winding(p, "stop", idx[p] + 1, sock[p], raw[p])
    BY <1>0, AtProc, OpenStarted DEF Winding, ProcInv, SockInv
  <2>. QED  BY <2>1, <2>2, WindInv, Zenon
<1>3. CASE ~(idx[p] <= started[p])
  <2>1. Move(p, "join", idx[p], started[p], waited[p], sock[p], raw[p], err[p], pend[p])
    BY <1>0, <1>3, AtProc, Zenon DEF StopRouteListeners, Goto, Move, static
  <2>2. Winding(p, "join", idx[p], sock[p], raw[p])
    BY <1>0, AtProc, OpenStarted, Zenon DEF Winding, ProcInv, SockInv
  <2>. QED  BY <2>1, <2>2, WindInv, Zenon
<1>. QED  BY <1>1, <1>2, <1>3, Zenon

(* free_datagram_route of a route that could not be started.               *)
LEMMA UndoRouteInv ==
  ASSUME ProcTypes, NEW p \in Proc, ProcInv(p), pc[p] = "undo", FreeRoute(p)
  PROVE  ProcTypes' /\ ProcInv(p)' /\ OthersKept(p)
<1>. DEFINE S == With(p, idx[p], "none")
            R == raw[p] \ {idx[p]}
<1>0. /\ ~IsStream(Here(p)) /\ started[p] \in Nat /\ idx[p] = started[p] + 1 /\ idx[p] <= Len(routes[p])
      /\ raw[p] \subseteq Index
  BY AtProc, Zenon DEF ProcInv, PhaseInv
<1>1. sock' = [sock EXCEPT ![p] = S] /\ raw' = [raw EXCEPT ![p] = R]
  BY <1>0, AtProc, Zenon DEF FreeRoute, CloseRoute, Close, With
<1>2. S \in [Index -> {"none", "open", "bound", "listening"}]
  BY SetSock, Zenon
<1>3. \A k \in Index : k <= started[p] => S[k] = "listening"
  <2>1. \A j \in Index : S[j] = IF j = idx[p] THEN "none" ELSE sock[p][j]
    BY SetSock
  <2>. QED  BY <1>0, <2>1, RouteLifecycleAssumption DEF ProcInv, SockInv, Index
<1>4. \A k \in Index : S[k] # "none" => k <= started[p]
  <2>1. \A j \in Index : S[j] = IF j = idx[p] THEN "none" ELSE sock[p][j]
    BY SetSock
  <2>. QED  BY <1>0, <2>1, Zenon DEF ProcInv, Orphan, Owned
<1>5. \A k \in R : k <= started[p] \/ (err[p] = "nomutex" /\ k = started[p] + 1)
  BY <1>0, Zenon DEF ProcInv, Orphan, Owned
<1>. HIDE DEF S
<1>6. CASE IsUnix(Here(p)) /\ Goto(p, "undoUnlink") /\ UNCHANGED idx
  <2>1. Move(p, "undoUnlink", idx[p], started[p], waited[p], S, R, err[p], pend[p])
    BY <1>1, <1>6, AtProc, Zenon DEF FreeRoute, Goto, static, Move
  <2>2. Typed("undoUnlink", idx[p], started[p], waited[p], S, R, err[p], pend[p])
    BY <1>0, <1>2, AtProc, Zenon DEF Typed, Label
  <2>r. \A k \in R : k \in raw[p]
    OBVIOUS
  <2>. HIDE DEF S, R
  <2>3. ProcTypes' /\ OthersKept(p) /\ Moved(p, "undoUnlink", idx[p], started[p], S, R, err[p])
    BY <2>1, <2>2, MoveTypes, Zenon
  <2>4. PhaseInv(p)'
    BY <1>0, <1>6, <2>3, Zenon DEF ProcInv, PhaseInv, ReadRoutes, Moved, Here
  <2>5. SockInv(p)'
    BY <1>3, <2>3, <2>r, Zenon DEF ProcInv, SockInv, Moved
  <2>6. Distinct(p)'
    BY <2>3, Zenon DEF ProcInv, Distinct, Moved
  <2>7. Orphan(p)'
    BY <1>4, <1>5, <2>3, Zenon DEF Orphan, Owned, Moved
  <2>. QED  BY <2>3, <2>4, <2>5, <2>6, <2>7, Zenon DEF ProcInv
<1>7. CASE AfterFree(p)
  <2>1. Move(p, "stop", 1, started[p], waited[p], S, R, err[p], pend[p])
    BY <1>1, <1>7, AtProc, Zenon DEF FreeRoute, AfterFree, Goto, static, Move
  <2>2. Winding(p, "stop", 1, S, R)
    <3>1. 1 \in Nat \ {0} /\ R \in SUBSET raw[p]
      OBVIOUS
    <3>. HIDE DEF R
    <3>. QED  BY <1>2, <1>3, <1>4, <1>5, <3>1, Zenon DEF Winding
  <2>. QED  BY <2>1, <2>2, WindInv, Zenon
<1>. QED  BY <1>6, <1>7, Zenon DEF FreeRoute

(* A turn of the loop over free_route.                                     *)
LEMMA FreeRouteInv ==
  ASSUME ProcTypes, NEW p \in Proc, ProcInv(p), pc[p] = "free", FreeRoute(p)
  PROVE  ProcTypes' /\ ProcInv(p)' /\ OthersKept(p)
<1>. DEFINE S == With(p, idx[p], "none")
            R == IF IsStream(Here(p)) THEN raw[p] ELSE raw[p] \ {idx[p]}
<1>0. idx[p] \in Nat \ {0} /\ idx[p] <= started[p] /\ started[p] \in Nat /\ R \subseteq raw[p]
  BY AtProc, Zenon DEF FreeRoute
<1>1. sock' = [sock EXCEPT ![p] = S] /\ raw' = [raw EXCEPT ![p] = R]
  BY AtProc, Zenon DEF FreeRoute, CloseRoute, Close, With
<1>2. /\ S \in [Index -> {"none", "open", "bound", "listening"}]
      /\ \A k \in Index : S[k] # "none" => k <= started[p]
  <2>1. \A j \in Index : S[j] = IF j = idx[p] THEN "none" ELSE sock[p][j]
    BY SetSock
  <2>. QED  BY SetSock, <2>1, OpenStarted, Zenon
<1>3. \A k \in R : k <= started[p] \/ (err[p] = "nomutex" /\ k = started[p] + 1)
  BY <1>0, OpenStarted, Zenon
<1>. HIDE DEF S, R
<1>4. CASE IsUnix(Here(p)) /\ Goto(p, "unlink") /\ UNCHANGED idx
  <2>1. Move(p, "unlink", idx[p], started[p], waited[p], S, R, err[p], pend[p])
    BY <1>1, <1>4, AtProc, Zenon DEF FreeRoute, Goto, static, Move
  <2>2. Winding(p, "unlink", idx[p], S, R)
    BY <1>0, <1>2, <1>3, <1>4, Zenon DEF Winding, Here
  <2>. QED  BY <2>1, <2>2, WindInv, Zenon
<1>5. CASE AfterFree(p)
  <2>1. Move(p, "free", idx[p] + 1, started[p], waited[p], S, R, err[p], pend[p])
    BY <1>1, <1>5, AtProc, Zenon DEF FreeRoute, AfterFree, Goto, static, Move
  <2>2. Winding(p, "free", idx[p] + 1, S, R)
    BY <1>0, <1>2, <1>3 DEF Winding
  <2>. QED  BY <2>1, <2>2, WindInv, Zenon
<1>. QED  BY <1>4, <1>5, Zenon DEF FreeRoute

(* The unlink that may follow either.                                      *)
LEMMA UnlinkPathInv ==
  ASSUME ProcTypes, NEW p \in Proc, ProcInv(p), UnlinkPath(p)
  PROVE  ProcTypes' /\ ProcInv(p)' /\ OthersKept(p)
<1>0. UNCHANGED <<static, started, waited, sock, raw, err, pend>>
  BY Zenon DEF UnlinkPath
<1>1. CASE pc[p] = "unlink"
  <2>1. Move(p, "free", idx[p] + 1, started[p], waited[p], sock[p], raw[p], err[p], pend[p])
    BY <1>0, <1>1, AtProc, Zenon DEF UnlinkPath, AfterFree, Goto, static, Move
  <2>2. Winding(p, "free", idx[p] + 1, sock[p], raw[p])
    BY <1>1, AtProc, OpenStarted DEF Winding
  <2>. QED  BY <2>1, <2>2, WindInv, Zenon
<1>2. CASE pc[p] = "undoUnlink"
  <2>1. Move(p, "stop", 1, started[p], waited[p], sock[p], raw[p], err[p], pend[p])
    BY <1>0, <1>2, AtProc, Zenon DEF UnlinkPath, AfterFree, Goto, static, Move
  <2>2. Winding(p, "stop", 1, sock[p], raw[p])
    BY <1>2, AtProc, OpenStarted DEF Winding, ProcInv, SockInv
  <2>. QED  BY <2>1, <2>2, WindInv, Zenon
<1>. QED  BY <1>1, <1>2, Zenon DEF UnlinkPath

-----------------------------------------------------------------------------
(* A signal.                                                               *)
LEMMA SignalInv ==
  ASSUME ProcTypes, NEW p \in Proc, ProcInv(p), Signal(p)
  PROVE  ProcTypes' /\ ProcInv(p)' /\ OthersKept(p)
<1>1. CASE pc[p] = "load"
  BY <1>1, EndInv, Zenon DEF Signal
<1>2. CASE pc[p] # "load"
  <2>1. Move(p, pc[p], idx[p], started[p], waited[p], sock[p], raw[p], err[p], TRUE)
    BY <1>2, AtProc, Zenon DEF Signal, static, Move
  <2>2. Typed(pc[p], idx[p], started[p], waited[p], sock[p], raw[p], err[p], TRUE)
    BY AtProc, Zenon DEF Typed
  <2>3. ProcTypes' /\ OthersKept(p) /\ Moved(p, pc[p], idx[p], started[p], sock[p], raw[p], err[p])
    BY <2>1, <2>2, MoveTypes, Zenon
  <2>4. PhaseInv(p)'
    BY <2>3, Zenon DEF ProcInv, PhaseInv, ReadRoutes, Here, Moved
  <2>5. SockInv(p)'
    BY <2>3, Zenon DEF ProcInv, SockInv, Moved
  <2>6. Distinct(p)'
    BY <2>3, Zenon DEF ProcInv, Distinct, Moved
  <2>7. Orphan(p)'
    BY <2>3, Zenon DEF ProcInv, Orphan, Owned, Moved
  <2>. QED  BY <2>3, <2>4, <2>5, <2>6, <2>7, Zenon DEF ProcInv
<1>. QED  BY <1>1, <1>2, Zenon

-----------------------------------------------------------------------------

(* The lines of p are a sequence that is not too long.                     *)
LEMMA LinesOf ==
  ASSUME ProcTypes, NEW p \in Proc
  PROVE  Conf(p).lines \in Seq(Range(Conf(p).lines)) /\ Len(Conf(p).lines) \in Nat
         /\ Len(Conf(p).lines) <= MaxRoutes
<1>1. conf[p] \in DOMAIN Configs[p]
  BY Zenon DEF ProcTypes
<1>2. Conf(p).lines \in Seq(Range(Conf(p).lines)) /\ Len(Conf(p).lines) <= MaxRoutes
  BY <1>1, RouteLifecycleAssumption, Zenon DEF Conf
<1>. QED  BY <1>2

(* The start of a process.                                                 *)
LEMMA ExecInv ==
  ASSUME ProcTypes, NEW p \in Proc, ProcInv(p), Exec(p)
  PROVE  ProcTypes' /\ ProcInv(p)' /\ OthersKept(p)
<1>1. /\ pc' = [pc EXCEPT ![p] = "load"] /\ pc[p] = "off"
      /\ UNCHANGED <<conf, routes, idx, started, waited, sock, raw, err, pend>>
  BY Zenon DEF Exec, Goto
<1>2. rival' \in [Proc -> BOOLEAN]
  BY Zenon DEF Exec, ProcTypes
<1>3. pc' \in [Proc -> Label] /\ pc'[p] = "load" /\ \A q \in Proc \ {p} : pc'[q] = pc[q]
  BY <1>1, Zenon DEF ProcTypes, Label
<1>4. ProcTypes' /\ OthersKept(p) /\ Conf(p)' = Conf(p)
  BY <1>1, <1>2, <1>3, Zenon DEF ProcTypes, OthersKept, Conf
<1>5. PhaseInv(p)'
  <2>1. routes[p] = <<>> /\ idx[p] = 1 /\ started[p] = 0 /\ err[p] = "none"
    BY <1>1, Zenon DEF ProcInv, PhaseInv
  <2>2. /\ routes'[p] = <<>> /\ idx'[p] = 1 /\ started'[p] = 0 /\ err'[p] = "none"
        /\ pc'[p] = "load"
    BY <1>1, <1>3, <2>1, Zenon
  <2>3. /\ 0 < 1 /\ 1 <= Len(Conf(p)'.lines) + 1 /\ Len(<<>>) = 0 /\ 0 <= 0 /\ 0 <= MaxRoutes
        /\ <<>> \in Seq(ReadRoutes(p)')
    BY <1>4, LinesOf, RouteLifecycleAssumption
  <2>. QED  BY <2>2, <2>3, Zenon DEF PhaseInv
<1>6. SockInv(p)'
  BY <1>1, <1>3, Zenon DEF ProcInv, SockInv
<1>7. Distinct(p)'
  BY <1>1, <1>4, Zenon DEF ProcInv, Distinct
<1>8. Orphan(p)'
  BY <1>1, <1>3, Zenon DEF ProcInv, Orphan, Owned
<1>. QED  BY <1>4, <1>5, <1>6, <1>7, <1>8, Zenon DEF ProcInv

(* A process that is reading its routes has no socket.                     *)
LEMMA NoSocketYet ==
  ASSUME ProcTypes, NEW p \in Proc, ProcInv(p), pc[p] = "load"
  PROVE  started[p] = 0 /\ err[p] = "none" /\ raw[p] = {} /\ \A k \in Index : sock[p][k] = "none"
<1>1. started[p] = 0 /\ err[p] = "none" /\ raw[p] \subseteq Index
  BY AtProc, Zenon DEF ProcInv, PhaseInv
<1>. QED  BY <1>1, RouteLifecycleAssumption DEF ProcInv, Orphan, Owned, Index

(* The rest of the preparation.                                            *)
LEMMA SetupInv ==
  ASSUME ProcTypes, NEW p \in Proc, ProcInv(p), Setup(p)
  PROVE  ProcTypes' /\ ProcInv(p)' /\ OthersKept(p)
<1>1. CASE EndProcess(p)
  BY <1>1, EndInv, Zenon
<1>2. CASE ~EndProcess(p)
  <2>0. pc[p] = "load"
    BY Zenon DEF Setup
  <2>1. Move(p, "start", 1, started[p], waited[p], sock[p], raw[p], err[p], pend[p])
    BY <1>2, AtProc, Zenon DEF Setup, Goto, static, Move
  <2>2. Typed("start", 1, started[p], waited[p], sock[p], raw[p], err[p], pend[p])
    BY AtProc DEF Typed, Label
  <2>3. ProcTypes' /\ OthersKept(p) /\ Moved(p, "start", 1, started[p], sock[p], raw[p], err[p])
    BY <2>1, <2>2, MoveTypes, Zenon
  <2>a. /\ pc'[p] = "start" /\ idx'[p] = 1 /\ started'[p] = 0
        /\ err'[p] = "none" /\ raw'[p] = {} /\ routes'[p] = routes[p]
    <3>1. started[p] = 0 /\ err[p] = "none" /\ raw[p] = {}
      BY <2>0, NoSocketYet, Zenon
    <3>. QED  BY <2>3, <3>1, Zenon DEF Moved
  <2>4. PhaseInv(p)'
    <3>1. ReadRoutes(p)' = ReadRoutes(p)
      BY <2>3, Zenon DEF ReadRoutes, Moved
    <3>2. 0 <= Len(routes[p]) /\ 1 = 0 + 1
      BY RoutesSeq
    <3>. QED  BY <2>a, <3>1, <3>2, RoutesSeq, Zenon DEF PhaseInv
  <2>5. SockInv(p)'
    <3>1. \A k \in Index : ~(k <= 0)
      BY RouteLifecycleAssumption DEF Index
    <3>. QED  BY <2>a, <3>1, Zenon DEF SockInv
  <2>6. Distinct(p)'
    BY <2>3, Zenon DEF ProcInv, Distinct, Moved
  <2>7. Orphan(p)'
    <3>1. sock'[p] = sock[p]
      BY <2>3, Zenon DEF Moved
    <3>2. \A k \in Index : sock[p][k] = "none"
      BY <2>0, NoSocketYet, Zenon
    <3>. QED  BY <2>a, <3>1, <3>2, Zenon DEF Orphan
  <2>. QED  BY <2>3, <2>4, <2>5, <2>6, <2>7, Zenon DEF ProcInv
<1>. QED  BY <1>1, <1>2, Zenon

(* A line is read.                                                         *)
LEMMA LoadLineInv ==
  ASSUME ProcTypes, NEW p \in Proc, ProcInv(p), LoadLine(p)
  PROVE  ProcTypes' /\ ProcInv(p)' /\ OthersKept(p)
<1>. DEFINE l == Conf(p).lines[idx[p]]
<1>0. /\ pc[p] = "load" /\ idx[p] <= Len(Conf(p).lines) /\ idx[p] \in Nat \ {0}
      /\ Len(Conf(p).lines) \in Nat /\ Len(Conf(p).lines) <= MaxRoutes
      /\ l \in Range(Conf(p).lines)
  <2>1. /\ pc[p] = "load" /\ idx[p] <= Len(Conf(p).lines) /\ idx[p] \in Nat \ {0}
        /\ Len(Conf(p).lines) \in Nat /\ Len(Conf(p).lines) <= MaxRoutes
    BY AtProc, LinesOf, Zenon DEF LoadLine
  <2>. QED  BY <2>1, LinesOf
<1>1. CASE EndProcess(p)
  BY <1>1, EndInv
<1>2. CASE idx' = [idx EXCEPT ![p] = @ + 1] /\ UNCHANGED <<routes, loading>>
  <2>1. Move(p, "load", idx[p] + 1, started[p], waited[p], sock[p], raw[p], err[p], pend[p])
    BY <1>0, <1>2, AtProc, Zenon DEF loading, Move
  <2>2. Typed("load", idx[p] + 1, started[p], waited[p], sock[p], raw[p], err[p], pend[p])
    BY AtProc DEF Typed, Label
  <2>3. ProcTypes' /\ OthersKept(p) /\ Moved(p, "load", idx[p] + 1, started[p], sock[p], raw[p], err[p])
    BY <2>1, <2>2, MoveTypes, Zenon
  <2>a. /\ pc'[p] = "load" /\ idx'[p] = idx[p] + 1 /\ started'[p] = 0 /\ err'[p] = "none"
        /\ raw'[p] = {} /\ routes'[p] = routes[p] /\ Conf(p)' = Conf(p)
    <3>1. started[p] = 0 /\ err[p] = "none" /\ raw[p] = {}
      BY <1>0, NoSocketYet, Zenon
    <3>. QED  BY <2>3, <3>1, Zenon DEF Moved
  <2>4. PhaseInv(p)'
    <3>1. ReadRoutes(p)' = ReadRoutes(p)
      BY <2>a, Zenon DEF ReadRoutes
    <3>2. Len(routes[p]) < idx[p]
      BY <1>0, Zenon DEF ProcInv, PhaseInv
    <3>3. Len(routes[p]) < idx[p] + 1 /\ idx[p] + 1 <= Len(Conf(p).lines) + 1 /\ 0 <= Len(routes[p])
      BY <1>0, <3>2, RoutesSeq
    <3>. QED  BY <2>a, <3>1, <3>3, RoutesSeq, Zenon DEF PhaseInv
  <2>5. SockInv(p)'
    <3>1. \A k \in Index : ~(k <= 0)
      BY RouteLifecycleAssumption DEF Index
    <3>. QED  BY <2>a, <3>1, Zenon DEF SockInv
  <2>6. Distinct(p)'
    BY <2>3, Zenon DEF ProcInv, Distinct, Moved
  <2>7. Orphan(p)'
    BY <1>0, <2>3, NoSocketYet, Zenon DEF Orphan, Moved
  <2>. QED  BY <2>3, <2>4, <2>5, <2>6, <2>7, Zenon DEF ProcInv
<1>3. CASE ~EndProcess(p) /\ l.kind # "blank" /\ RouteLineOK(l) /\ AddRoute(p, ParseRouteLine(l))
  <2>. DEFINE r == ParseRouteLine(l)
  <2>1. /\ routes' = [routes EXCEPT ![p] = Append(routes[p], r)] /\ idx' = [idx EXCEPT ![p] = idx[p] + 1]
        /\ UNCHANGED <<conf, rival, pc, started, waited, sock, raw, err, pend>>
        /\ Conf(p).file => FindConflictingRoute(routes[p], r) = {}
    BY <1>3, Zenon DEF AddRoute, loading
  <2>2. r \in ReadRoutes(p)
    BY <1>0, <1>3, Zenon DEF ReadRoutes
  <2>. HIDE DEF r
  <2>3. /\ routes'[p] = Append(routes[p], r) /\ idx'[p] = idx[p] + 1 /\ pc'[p] = "load"
        /\ routes' = [q \in Proc |-> routes'[q]] /\ idx' \in [Proc -> Nat \ {0}]
        /\ \A q \in Proc \ {p} : routes'[q] = routes[q] /\ idx'[q] = idx[q]
    <3>1. /\ routes'[p] = Append(routes[p], r) /\ routes' = [q \in Proc |-> routes'[q]]
          /\ \A q \in Proc \ {p} : routes'[q] = routes[q]
      BY <2>1, Zenon DEF ProcTypes
    <3>2. idx \in [Proc -> Nat \ {0}] /\ idx' = [idx EXCEPT ![p] = idx[p] + 1]
      BY <2>1, Zenon DEF ProcTypes
    <3>3. /\ idx'[p] = idx[p] + 1 /\ idx' \in [Proc -> Nat \ {0}]
          /\ \A q \in Proc \ {p} : idx'[q] = idx[q]
      BY <3>2
    <3>. QED  BY <1>0, <2>1, <3>1, <3>3, Zenon
  <2>4. ProcTypes' /\ OthersKept(p) /\ Conf(p)' = Conf(p)
    BY <2>1, <2>3, Zenon DEF ProcTypes, OthersKept, Conf
  <2>5. /\ routes[p] \in Seq(ReadRoutes(p)) /\ Len(routes[p]) \in Nat /\ Len(routes[p]) < idx[p]
        /\ routes'[p] \in Seq(ReadRoutes(p)) /\ Len(routes'[p]) = Len(routes[p]) + 1
        /\ \A k \in 1..Len(routes[p]) : routes'[p][k] = routes[p][k]
        /\ routes'[p][Len(routes[p]) + 1] = r
        /\ DOMAIN routes'[p] = 1..(Len(routes[p]) + 1) /\ DOMAIN routes[p] = 1..Len(routes[p])
    BY <1>0, <2>2, <2>3 DEF ProcInv, PhaseInv
  <2>6. PhaseInv(p)'
    <3>1. ReadRoutes(p)' = ReadRoutes(p)
      BY <2>4, Zenon DEF ReadRoutes
    <3>2. started'[p] = 0 /\ err'[p] = "none"
      BY <1>0, <2>1, NoSocketYet, Zenon
    <3>3. Len(routes'[p]) < idx'[p] /\ idx'[p] <= Len(Conf(p).lines) + 1 /\ Len(routes'[p]) <= MaxRoutes
      <4>1. idx[p] \in Nat /\ Len(Conf(p).lines) \in Nat /\ MaxRoutes \in Nat
        BY AtProc, LinesOf, RouteLifecycleAssumption, Zenon
      <4>2. idx'[p] = idx[p] + 1 /\ Len(routes'[p]) = Len(routes[p]) + 1 /\ Len(routes[p]) \in Nat
        BY <2>3, <2>5, Zenon
      <4>3. Len(routes[p]) < idx[p] /\ idx[p] <= Len(Conf(p).lines) /\ Len(Conf(p).lines) <= MaxRoutes
        BY <1>0, <2>5, LinesOf, Zenon
      <4>. QED  BY <4>1, <4>2, <4>3
    <3>4. pc'[p] = "load" /\ Conf(p)' = Conf(p) /\ routes'[p] \in Seq(ReadRoutes(p))
      BY <2>3, <2>4, <2>5, Zenon
    <3>5. started'[p] <= Len(routes'[p])
      BY <2>5, <3>2
    <3>. QED  BY <3>1, <3>2, <3>3, <3>4, <3>5, Zenon DEF PhaseInv
  <2>7. SockInv(p)'
    BY <1>0, <2>1, NoSocketYet, RouteLifecycleAssumption, Zenon DEF SockInv, Index
  <2>8. Distinct(p)'
    <3>1. SUFFICES ASSUME Conf(p).file, NEW j \in DOMAIN routes'[p], NEW k \in DOMAIN routes'[p], j # k
                   PROVE  ~SameListenEndpoint(routes'[p][j].listen, routes'[p][k].listen)
      BY <2>4, Zenon DEF Distinct
    <3>2. \A m \in 1..Len(routes[p]) : ~SameListenEndpoint(routes[p][m].listen, r.listen)
      BY <2>1, <2>5, <3>1, Zenon DEF FindConflictingRoute
    <3>3. CASE j \in 1..Len(routes[p]) /\ k \in 1..Len(routes[p])
      BY <2>5, <3>1, <3>3, Zenon DEF ProcInv, Distinct
    <3>4. CASE j = Len(routes[p]) + 1
      <4>1. k \in 1..Len(routes[p])
        BY <2>5, <3>1, <3>4
      <4>2. ~SameListenEndpoint(routes'[p][k].listen, routes'[p][j].listen)
        BY <2>5, <3>2, <3>4, <4>1, Zenon
      <4>. QED  BY <4>2, Zenon DEF SameListenEndpoint
    <3>5. CASE k = Len(routes[p]) + 1
      BY <2>5, <3>1, <3>2, <3>5
    <3>. QED  BY <2>5, <3>3, <3>4, <3>5
  <2>9. Orphan(p)'
    BY <1>0, <2>1, NoSocketYet, Zenon DEF Orphan
  <2>. QED  BY <2>4, <2>6, <2>7, <2>8, <2>9 DEF ProcInv
<1>. QED  BY <1>1, <1>2, <1>3, Zenon DEF LoadLine

Step(p) == Main(p) \/ Exec(p) \/ Signal(p) \/ Kill(p) \/ AcceptErrorCb(p)

(* Any step of p.                                                          *)
LEMMA StepInv ==
  ASSUME ProcTypes, NEW p \in Proc, ProcInv(p), Step(p)
  PROVE  ProcTypes' /\ ProcInv(p)' /\ OthersKept(p)
<1>1. CASE Listen(p)
  BY <1>1, ListenerUpInv, BindFailsInv, Zenon DEF Listen
<1>2. CASE FreeRoute(p)
  BY <1>2, UndoRouteInv, FreeRouteInv, Zenon DEF FreeRoute
<1>3. CASE Exit(p) \/ Kill(p)
  BY <1>3, EndInv, Zenon DEF Exit, Kill
<1>4. CASE LoadLine(p) \/ Setup(p) \/ NextRoute(p) \/ StartStreamRoute(p) \/ StartDatagramRoute(p)
  BY <1>4, LoadLineInv, SetupInv, NextRouteInv, StartStreamRouteInv, StartDatagramRouteInv, Zenon
<1>5. CASE BindWithWait(p) \/ SignalCb(p) \/ StopRouteListeners(p) \/ JoinWorkers(p) \/ UnlinkPath(p)
  BY <1>5, BindWithWaitInv, QuietWindInv, StopRouteListenersInv, UnlinkPathInv, Zenon
<1>6. CASE Exec(p) \/ Signal(p) \/ AcceptErrorCb(p)
  BY <1>6, ExecInv, SignalInv, QuietWindInv, Zenon
<1>. QED  BY <1>1, <1>2, <1>3, <1>4, <1>5, <1>6, Zenon DEF Step, Main

-----------------------------------------------------------------------------
NodeTypes ==
  /\ node \in [AllPaths -> {Nothing, RegularFile, StaleSocket, LeftSocket} \union (Proc \X Index)]
  /\ foreign \subseteq Foreign

(* A step of p changes the file at a path only if the path is one of its   *)
(* own, or the file is its socket.                                         *)
NodeKept(p) ==
  \A a \in AllPaths :
    \/ node'[a] = node[a]
    \/ Running(p) /\ a \in Paths(Conf(p))
    \/ \E k \in Index : node[a] = SocketOf(p, k)

(* A Unix listener is on one of the paths of the configuration.            *)
LEMMA UnixPath ==
  ASSUME ProcTypes, NEW p \in Proc, ProcInv(p), NEW k \in 1..Len(routes[p]), IsUnix(routes[p][k])
  PROVE  routes[p][k].listen.addr \in Paths(Conf(p)) /\ routes[p][k].listen.addr \in AllPaths
<1>1. routes[p][k] \in ReadRoutes(p)
  BY DEF ProcInv, PhaseInv
<1>2. PICK n \in DOMAIN Conf(p).lines :
        Conf(p).lines[n].kind # "blank" /\ routes[p][k] = ParseRouteLine(Conf(p).lines[n])
  BY <1>1, Zenon DEF ReadRoutes, Range
<1>3. /\ routes[p][k].listen.proto = Conf(p).lines[n].words[1]
      /\ routes[p][k].listen.addr = IF Conf(p).lines[n].words[1] \in {"tcp", "udp"}
                                    THEN HostPorts[Conf(p).lines[n].words[2]]
                                    ELSE Conf(p).lines[n].words[2]
  <2>1. routes[p][k].listen = ParseEndpoint(Conf(p).lines[n].words[1], Conf(p).lines[n].words[2])
    BY <1>2 DEF ParseRouteLine
  <2>. QED  BY <2>1 DEF ParseEndpoint
<1>4. Conf(p).lines[n].words[1] \in UnixProto
  BY <1>3, Zenon DEF IsUnix
<1>5. routes[p][k].listen.addr = Conf(p).lines[n].words[2]
  BY <1>3, <1>4, Zenon DEF UnixProto
<1>6. routes[p][k].listen.addr \in Paths(Conf(p))
  BY <1>2, <1>4, <1>5, Zenon DEF Paths
<1>7. Conf(p) \in Range(Configs[p])
  BY Zenon DEF ProcTypes, Conf, Range
<1>. QED  BY <1>6, <1>7 DEF AllPaths

(* The steps that touch a path.                                            *)
LEMMA UnlinkKept ==
  ASSUME ProcTypes, NodeTypes, NEW p \in Proc, ProcInv(p), Running(p), idx[p] <= Len(routes[p]),
         IsUnix(Here(p)), NEW v \in {Nothing, RegularFile, StaleSocket, LeftSocket} \union (Proc \X Index),
         node' = [node EXCEPT ![Here(p).listen.addr] = v]
  PROVE  /\ node' \in [AllPaths -> {Nothing, RegularFile, StaleSocket, LeftSocket} \union (Proc \X Index)]
         /\ NodeKept(p)
<1>1. Here(p).listen.addr \in Paths(Conf(p)) /\ Here(p).listen.addr \in AllPaths
  <2>1. idx[p] \in 1..Len(routes[p])
    <3>1. routes[p] \in Seq(ReadRoutes(p)) /\ idx[p] \in Nat \ {0}
      BY AtProc, Zenon DEF ProcInv, PhaseInv
    <3>. QED  BY <3>1
  <2>. QED  BY <2>1, UnixPath, Zenon DEF Here
<1>2. /\ node' \in [AllPaths -> {Nothing, RegularFile, StaleSocket, LeftSocket} \union (Proc \X Index)]
      /\ \A a \in AllPaths : a # Here(p).listen.addr => node'[a] = node[a]
  BY Zenon DEF NodeTypes
<1>. QED  BY <1>1, <1>2, Zenon DEF NodeKept

(* A listener clears its path.                                             *)
LEMMA ClearKept ==
  ASSUME ProcTypes, NodeTypes, NEW p \in Proc, ProcInv(p), Running(p), idx[p] <= Len(routes[p]),
         ClearPath(p)
  PROVE  /\ node' \in [AllPaths -> {Nothing, RegularFile, StaleSocket, LeftSocket} \union (Proc \X Index)]
         /\ NodeKept(p)
<1>1. CASE IsUnix(Here(p))
  <2>1. node' = [node EXCEPT ![Here(p).listen.addr] = Nothing]
    BY <1>1, Zenon DEF ClearPath, Unlink
  <2>2. Nothing \in {Nothing, RegularFile, StaleSocket, LeftSocket} \union (Proc \X Index)
    OBVIOUS
  <2>. QED  BY <1>1, <2>1, <2>2, UnlinkKept, Zenon
<1>2. CASE ~IsUnix(Here(p))
  BY <1>2, Zenon DEF ClearPath, NodeTypes, NodeKept
<1>. QED  BY <1>1, <1>2, Zenon

(* A path that cannot be inspected or unlinked keeps what is there, which  *)
(* is no longer the socket of a route that p has.                          *)
LEMMA LeaveKept ==
  ASSUME ProcTypes, NodeTypes, NEW p \in Proc, ProcInv(p), Running(p), idx[p] <= Len(routes[p]),
         IsUnix(Here(p)), LeaveSocket(p)
  PROVE  /\ node' \in [AllPaths -> {Nothing, RegularFile, StaleSocket, LeftSocket} \union (Proc \X Index)]
         /\ NodeKept(p)
<1>1. Here(p).listen.addr \in AllPaths
  <2>1. idx[p] \in 1..Len(routes[p])
    <3>1. routes[p] \in Seq(ReadRoutes(p)) /\ idx[p] \in Nat \ {0}
      BY AtProc, Zenon DEF ProcInv, PhaseInv
    <3>. QED  BY <3>1
  <2>. QED  BY <2>1, UnixPath, Zenon DEF Here
<1> DEFINE v == IF node[Here(p).listen.addr] = SocketOf(p, idx[p])
                THEN LeftSocket ELSE node[Here(p).listen.addr]
<1>2. node' = [node EXCEPT ![Here(p).listen.addr] = v]
  BY <1>1, Zenon DEF LeaveSocket
<1>3. v \in {Nothing, RegularFile, StaleSocket, LeftSocket} \union (Proc \X Index)
  BY <1>1, Zenon DEF NodeTypes
<1> HIDE DEF v
<1>. QED  BY <1>2, <1>3, UnlinkKept, Zenon

(* Only at the path of the route at hand, and only p's own socket, is left *)
(* behind.                                                                 *)
LEMMA LeaveOnly ==
  ASSUME NodeTypes, NEW p \in Proc, LeaveSocket(p), NEW a \in AllPaths
  PROVE  \/ node'[a] = node[a] /\ (a = Here(p).listen.addr => node[a] # SocketOf(p, idx[p]))
         \/ /\ a = Here(p).listen.addr /\ node[a] = SocketOf(p, idx[p])
            /\ node'[a] = LeftSocket
  BY Zenon DEF LeaveSocket, NodeTypes

(* The end of a process leaves stale sockets.                              *)
LEMMA EndKept ==
  ASSUME NodeTypes, NEW p \in Proc, EndProcess(p)
  PROVE  /\ node' \in [AllPaths -> {Nothing, RegularFile, StaleSocket, LeftSocket} \union (Proc \X Index)]
         /\ NodeKept(p)
<1>1. node' = [a \in AllPaths |->
                 IF \E k \in Index : node[a] = SocketOf(p, k) THEN StaleSocket ELSE node[a]]
  BY Zenon DEF EndProcess
<1>. QED  BY <1>1, Zenon DEF NodeTypes, NodeKept

(* The steps of p that change a path: it is cleared for a listener ...     *)
Clears(p) ==
  /\ pc[p] = "start" /\ pc'[p] \in {"bind", "undo", "stop"} /\ idx[p] <= Len(routes[p])
  /\ IsUnix(Here(p)) /\ Unlink(Here(p).listen.addr)
  /\ UNCHANGED <<routes, started>>

(* ... or a listener is bound to it ...                                    *)
Binds(p) ==
  /\ pc[p] = "bind" /\ pc'[p] = "listen" /\ IsUnix(Here(p))
  /\ node[Here(p).listen.addr] = Nothing
  /\ node' = [node EXCEPT ![Here(p).listen.addr] = SocketOf(p, idx[p])]
  /\ UNCHANGED <<routes, started, idx>>

(* ... or the route is freed and the path cannot be inspected ...          *)
Leaves(p) ==
  /\ FreeRoute(p) /\ IsUnix(Here(p)) /\ LeaveSocket(p)
  /\ Goto(p, IF pc[p] = "undo" THEN "stop" ELSE "free")
  /\ idx' = [idx EXCEPT ![p] = IF pc[p] = "undo" THEN 1 ELSE @ + 1]

(* ... or it is unlinked, or its process comes to an end.                  *)
LEMMA NodeCases ==
  ASSUME ProcTypes, NEW p \in Proc, Step(p)
  PROVE  node' = node \/ EndProcess(p) \/ Clears(p) \/ Binds(p) \/ Leaves(p) \/ UnlinkPath(p)
<1>0. pc \in [Proc -> Label]
  BY Zenon DEF ProcTypes
<1>1. CASE LoadLine(p) \/ Setup(p) \/ NextRoute(p) \/ Listen(p) \/ SignalCb(p)
  BY <1>1, Zenon DEF LoadLine, AddRoute, loading, Setup, NextRoute, Listen, ListenerUp, BindFails, SignalCb
<1>2. CASE StopRouteListeners(p) \/ JoinWorkers(p) \/ Exit(p)
  BY <1>2, Zenon DEF StopRouteListeners, JoinWorkers, Exit
<1>6. CASE FreeRoute(p)
  <2>1. pc[p] = "undo" \/ pc[p] \notin {"undo", "undoUnlink"}
    BY <1>6, Zenon DEF FreeRoute
  <2>2. ASSUME AfterFree(p)
        PROVE  /\ Goto(p, IF pc[p] = "undo" THEN "stop" ELSE "free")
               /\ idx' = [idx EXCEPT ![p] = IF pc[p] = "undo" THEN 1 ELSE @ + 1]
    BY <2>1, <2>2, Zenon DEF AfterFree
  <2>3. node' = node \/ (IsUnix(Here(p)) /\ LeaveSocket(p) /\ AfterFree(p))
    BY <1>6, Zenon DEF FreeRoute
  <2>. QED  BY <1>6, <2>2, <2>3, Zenon DEF Leaves
<1>3. CASE Exec(p) \/ Signal(p) \/ Kill(p) \/ AcceptErrorCb(p)
  BY <1>3, Zenon DEF Exec, Signal, Kill, AcceptErrorCb
<1>4. CASE StartStreamRoute(p) \/ StartDatagramRoute(p)
  <2>1. /\ pc[p] = "start" /\ idx[p] <= Len(routes[p])
        /\ routes' = routes /\ started' = started
        /\ ClearPath(p) \/ node' = node
    BY <1>4, Zenon DEF StartStreamRoute, StartDatagramRoute, OpenDatagramSocket, static
  <2>2. pc'[p] \in {"bind", "undo", "stop"}
    BY <1>0, <1>4, Zenon DEF StartStreamRoute, StartDatagramRoute, OpenDatagramSocket, OpenSocket, GiveUp, Undo, Goto
  <2>. QED  BY <2>1, <2>2, Zenon DEF ClearPath, Clears
<1>5. CASE BindWithWait(p)
  <2>1. CASE BindFails(p, "failed") \/ BindFails(p, "inuse")
    BY <2>1, Zenon DEF BindFails
  <2>2. CASE ~InUse(Here(p)) /\ Goto(p, "listen") /\ idx' = idx /\ node' # node
    BY <1>0, <1>5, <2>1, <2>2, Zenon DEF BindWithWait, Goto, InUse, static, Binds
  <2>. QED  BY <1>5, <2>1, <2>2, Zenon DEF BindWithWait
<1>. QED  BY <1>1, <1>2, <1>3, <1>4, <1>5, <1>6, Zenon DEF Step, Main

(* What a step of p does to the paths.                                     *)
LEMMA NodeStep ==
  ASSUME ProcTypes, NodeTypes, NEW p \in Proc, ProcInv(p), Step(p)
  PROVE  NodeTypes' /\ NodeKept(p)
<1>1. foreign' = foreign
  BY Zenon DEF Step, Main, LoadLine, AddRoute, loading, Setup, NextRoute, StartStreamRoute,
         StartDatagramRoute, BindWithWait, Listen, SignalCb, StopRouteListeners, JoinWorkers,
         FreeRoute, UnlinkPath, Exit, Exec, Signal, Kill, AcceptErrorCb, EndProcess, static
<1>2. CASE node' = node
  BY <1>1, <1>2, Zenon DEF NodeTypes, NodeKept
<1>3. CASE EndProcess(p)
  BY <1>1, <1>3, EndKept, Zenon DEF NodeTypes
<1>4. CASE Clears(p)
  <2>1. ClearPath(p) /\ Running(p) /\ idx[p] <= Len(routes[p])
    BY <1>4, Zenon DEF Clears, ClearPath, Running
  <2>. QED  BY <1>1, <2>1, ClearKept, Zenon DEF NodeTypes
<1>5. CASE UnlinkPath(p)
  <2>1. /\ idx[p] <= Len(routes[p]) /\ IsUnix(Here(p)) /\ Running(p)
        /\ Unlink(Here(p).listen.addr) \/ LeaveSocket(p)
    <3>1. pc[p] \in {"unlink", "undoUnlink"} /\ routes[p] \in Seq(ReadRoutes(p))
      BY <1>5, Zenon DEF UnlinkPath, ProcInv, PhaseInv
    <3>2. idx[p] <= Len(routes[p])
      BY <3>1, AtProc DEF ProcInv, PhaseInv
    <3>. QED  BY <1>5, <3>1, <3>2, Zenon DEF UnlinkPath, ProcInv, PhaseInv, Running
  <2>2. Nothing \in {Nothing, RegularFile, StaleSocket, LeftSocket} \union (Proc \X Index)
    OBVIOUS
  <2>. QED  BY <1>1, <2>1, <2>2, UnlinkKept, LeaveKept, Zenon DEF NodeTypes, Unlink
<1>7. CASE Leaves(p)
  <2>1. IsUnix(Here(p)) /\ LeaveSocket(p) /\ Running(p)
    BY <1>7, Zenon DEF Leaves, FreeRoute, Running
  <2>2. idx[p] <= Len(routes[p])
    <3>1. /\ pc[p] = "undo" \/ (pc[p] = "free" /\ idx[p] <= started[p])
          /\ routes[p] \in Seq(ReadRoutes(p))
      BY <1>7, Zenon DEF Leaves, FreeRoute, ProcInv, PhaseInv
    <3>. QED  BY <3>1, AtProc DEF ProcInv, PhaseInv
  <2>. QED  BY <1>1, <2>1, <2>2, LeaveKept, Zenon DEF NodeTypes
<1>6. CASE Binds(p)
  <2>0. /\ pc[p] = "bind" /\ IsUnix(Here(p))
        /\ node' = [node EXCEPT ![Here(p).listen.addr] = SocketOf(p, idx[p])]
    BY <1>6, Zenon DEF Binds
  <2>1. idx[p] <= Len(routes[p]) /\ idx[p] \in Index /\ Running(p)
    <3>1. routes[p] \in Seq(ReadRoutes(p)) /\ Len(routes[p]) <= MaxRoutes /\ idx[p] <= Len(routes[p])
      BY <2>0, Zenon DEF ProcInv, PhaseInv
    <3>. QED  BY <2>0, <3>1, AtProc, RouteLifecycleAssumption DEF Index, Running
  <2>2. SocketOf(p, idx[p]) \in {Nothing, RegularFile, StaleSocket, LeftSocket} \union (Proc \X Index)
    BY <2>1, Zenon DEF SocketOf
  <2>. QED  BY <1>1, <2>0, <2>1, <2>2, UnlinkKept, Zenon DEF NodeTypes
<1>. QED  BY <1>2, <1>3, <1>4, <1>5, <1>6, <1>7, NodeCases, Zenon

(* Processes that meet remember it.                                        *)
LEMMA RivalStep ==
  ASSUME ProcTypes, RivalInv, NEW p \in Proc, Step(p), OthersKept(p)
  PROVE  RivalInv'
<1>0. /\ conf' = conf /\ \A q \in Proc \ {p} : pc'[q] = pc[q]
      /\ \A q \in Proc : Conf(q)' = Conf(q)
  BY Zenon DEF OthersKept, Conf
<1>1. CASE Exec(p)
  <2>. DEFINE met == {q \in Proc \ {p} : Running(q) /\ Paths(Conf(p)) \intersect Paths(Conf(q)) # {}}
  <2>1. rival' = [q \in Proc |-> IF q = p THEN met # {} ELSE rival[q] \/ q \in met]
    BY <1>1, Zenon DEF Exec
  <2>2. rival'[p] = (met # {}) /\ \A q \in Proc \ {p} : rival'[q] = (rival[q] \/ q \in met)
    BY <2>1, Zenon
  <2>3. ASSUME NEW q \in Proc, NEW r \in Proc, q # r, Running(q)', Running(r)', ~rival'[q]
        PROVE  Paths(Conf(q)) \intersect Paths(Conf(r)) = {}
    <3>1. CASE q = p
      BY <1>0, <2>2, <2>3, <3>1, Zenon DEF Running
    <3>2. CASE r = p
      BY <1>0, <2>2, <2>3, <3>2, Zenon DEF Running
    <3>3. CASE q # p /\ r # p
      BY <1>0, <2>2, <2>3, <3>3, Zenon DEF Running, RivalInv
    <3>. QED  BY <3>1, <3>2, <3>3, Zenon
  <2>. QED  BY <1>0, <2>3, Zenon DEF RivalInv
<1>2. CASE ~Exec(p)
  <2>1. Running(p) /\ (rival' = rival \/ EndProcess(p))
    BY <1>2, Zenon DEF Step, Main, LoadLine, AddRoute, loading, Setup, NextRoute, StartStreamRoute,
         StartDatagramRoute, BindWithWait, Listen, SignalCb, StopRouteListeners, JoinWorkers,
         FreeRoute, UnlinkPath, Exit, Signal, Kill, AcceptErrorCb, static, Running
  <2>2. ASSUME NEW q \in Proc, Running(q)' PROVE Running(q) /\ rival'[q] = rival[q]
    <3>1. CASE EndProcess(p)
      <4>1. pc'[p] = "off" /\ rival' = [rival EXCEPT ![p] = FALSE]
        BY <3>1, Zenon DEF EndProcess, Goto, ProcTypes
      <4>. QED  BY <1>0, <2>2, <4>1, Zenon DEF Running, ProcTypes
    <3>2. CASE rival' = rival
      BY <1>0, <2>1, <2>2, <3>2, Zenon DEF Running
    <3>. QED  BY <2>1, <3>1, <3>2, Zenon
  <2>. QED  BY <1>0, <2>2, Zenon DEF RivalInv
<1>. QED  BY <1>1, <1>2, Zenon

(* A process that has met a rival remembers it while others go on.         *)
LEMMA RivalKept ==
  ASSUME ProcTypes, NEW p \in Proc, NEW q \in Proc, q # p, Step(q), ~rival'[p]
  PROVE  ~rival[p]
<1>0. rival \in [Proc -> BOOLEAN]
  BY Zenon DEF ProcTypes
<1>1. CASE Exec(q)
  BY <1>1, Zenon DEF Exec, ProcTypes
<1>2. CASE rival' = rival \/ EndProcess(q)
  BY <1>0, <1>2, Zenon DEF EndProcess
<1>3. CASE ~Exec(q)
  BY <1>2, <1>3, Zenon DEF Step, Main, LoadLine, AddRoute, loading, Setup, NextRoute, StartStreamRoute,
       StartDatagramRoute, BindWithWait, Listen, SignalCb, StopRouteListeners, JoinWorkers,
       FreeRoute, UnlinkPath, Exit, Signal, Kill, AcceptErrorCb, static
<1>. QED  BY <1>1, <1>3, Zenon

(* A step of another process leaves p's sockets at their paths.            *)
LEMMA PathOther ==
  ASSUME ProcTypes, NodeTypes, RivalInv, NEW p \in Proc, ProcInv(p), PathInv(p),
         NEW q \in Proc, q # p, Step(q), OthersKept(q), NodeKept(q)
  PROVE  PathInv(p)'
<1>1. /\ pc'[p] = pc[p] /\ idx'[p] = idx[p] /\ routes'[p] = routes[p] /\ started'[p] = started[p]
  BY Zenon DEF OthersKept
<1>2. ~rival'[p] => ~rival[p]
  BY RivalKept, Zenon
<1>3. SUFFICES ASSUME ~rival[p], OwnPathsDiffer(p), WorkersRun(p), NEW k \in DOMAIN routes[p],
                      IsUnix(routes[p][k]), k <= started[p] \/ (k = idx[p] /\ pc[p] = "listen")
               PROVE  node'[routes[p][k].listen.addr] = SocketOf(p, k)
  <2>1. OwnPathsDiffer(p)' = OwnPathsDiffer(p) /\ WorkersRun(p)' = WorkersRun(p)
    BY <1>1, Zenon DEF OwnPathsDiffer, WorkersRun
  <2>. QED  BY <1>1, <1>2, <2>1, Zenon DEF PathInv
<1>4. routes[p][k].listen.addr \in Paths(Conf(p)) /\ routes[p][k].listen.addr \in AllPaths
  <2>1. k \in 1..Len(routes[p])
    BY <1>3 DEF ProcInv, PhaseInv
  <2>. QED  BY <1>3, <2>1, UnixPath, Zenon
<1>5. node[routes[p][k].listen.addr] = SocketOf(p, k)
  BY <1>3, Zenon DEF PathInv
<1>6. Running(q) => routes[p][k].listen.addr \notin Paths(Conf(q))
  BY <1>3, <1>4, Zenon DEF RivalInv, Running, WorkersRun
<1>7. \A j \in Index : SocketOf(p, k) # SocketOf(q, j)
  BY Zenon DEF SocketOf
<1>. QED  BY <1>4, <1>5, <1>6, <1>7, Zenon DEF NodeKept

(* A step of p itself that changes nothing at the paths it has.            *)
LEMMA PathOwn ==
  ASSUME NEW p \in Proc, PathInv(p), WorkersRun(p),
         routes'[p] = routes[p], rival'[p] = rival[p],
         OwnPathsDiffer(p) =>
           \A k \in DOMAIN routes[p] :
             IsUnix(routes[p][k]) /\ (k <= started'[p] \/ (k = idx'[p] /\ pc'[p] = "listen")) =>
               \/ node'[routes[p][k].listen.addr] = SocketOf(p, k)
               \/ /\ node'[routes[p][k].listen.addr] = node[routes[p][k].listen.addr]
                  /\ k <= started[p] \/ (k = idx[p] /\ pc[p] = "listen")
  PROVE  PathInv(p)'
  BY Zenon DEF PathInv, OwnPathsDiffer

(* What p does to the path of the route it is starting does not touch the  *)
(* paths of those it has started.                                          *)
LEMMA TouchOwn ==
  ASSUME ProcTypes, NodeTypes, NEW p \in Proc, ProcInv(p), OwnPathsDiffer(p),
         idx[p] = started[p] + 1, idx[p] <= Len(routes[p]), IsUnix(Here(p)),
         NEW v, node' = [node EXCEPT ![Here(p).listen.addr] = v]
  PROVE  /\ \A k \in DOMAIN routes[p] : IsUnix(routes[p][k]) /\ k <= started[p]
              => node'[routes[p][k].listen.addr] = node[routes[p][k].listen.addr]
         /\ node'[Here(p).listen.addr] = v
<1>1. /\ DOMAIN routes[p] = 1..Len(routes[p]) /\ Len(routes[p]) \in Nat
      /\ started[p] \in Nat /\ idx[p] \in DOMAIN routes[p]
  <2>1. routes[p] \in Seq(ReadRoutes(p)) /\ idx[p] \in Nat \ {0} /\ started[p] \in Nat
    BY AtProc, Zenon DEF ProcInv, PhaseInv
  <2>. QED  BY <2>1
<1>2. Here(p).listen.addr \in AllPaths
  BY <1>1, UnixPath, Zenon DEF Here
<1>3. ASSUME NEW k \in DOMAIN routes[p], IsUnix(routes[p][k]), k <= started[p]
      PROVE  node'[routes[p][k].listen.addr] = node[routes[p][k].listen.addr]
  <2>1. routes[p][k].listen.addr \in AllPaths
    BY <1>1, <1>3, UnixPath, Zenon
  <2>2. routes[p][k].listen.addr # Here(p).listen.addr
    BY <1>1, <1>3 DEF OwnPathsDiffer, Here
  <2>. QED  BY <2>1, <2>2, Zenon DEF NodeTypes
<1>. QED  BY <1>2, <1>3, Zenon DEF NodeTypes

(* The steps of p itself.                                                  *)
LEMMA PathSelf ==
  ASSUME ProcTypes, NodeTypes, NEW p \in Proc, ProcInv(p), PathInv(p), Step(p)
  PROVE  PathInv(p)'
<1>0. pc \in [Proc -> Label] /\ started[p] \in Nat /\ idx[p] \in Nat \ {0}
  BY AtProc, Zenon DEF ProcTypes
<1>1. CASE pc'[p] \in {"off", "load", "free", "unlink"}
  BY <1>1, Zenon DEF PathInv, WorkersRun
<1>2. CASE /\ node' = node /\ routes' = routes /\ rival' = rival /\ started' = started
           /\ WorkersRun(p) /\ (pc'[p] # "listen" \/ (pc' = pc /\ idx' = idx))
  BY <1>2, PathOwn, Zenon
<1>3. CASE EndProcess(p)
  BY <1>0, <1>1, <1>3, Zenon DEF EndProcess, Goto
<1>4. CASE LoadLine(p) \/ Exec(p) \/ JoinWorkers(p) \/ Exit(p) \/ Kill(p)
  <2>1. CASE ~EndProcess(p)
    BY <1>0, <1>1, <1>4, <2>1
      , Zenon DEF LoadLine, AddRoute, loading, Exec, JoinWorkers, Exit, Kill, Goto
  <2>. QED  BY <1>3, <2>1, Zenon
<1>5. CASE Setup(p)
  <2>1. CASE ~EndProcess(p)
    <3>1. pc'[p] = "start" /\ started' = started /\ routes' = routes /\ started[p] = 0
      BY <1>0, <1>5, <2>1, Zenon DEF Setup, Goto, static, ProcInv, PhaseInv
    <3>2. \A k \in DOMAIN routes[p] : ~(k <= 0)
      BY RoutesSeq
    <3>. QED  BY <3>1, <3>2, Zenon DEF PathInv
  <2>. QED  BY <1>3, <2>1
<1>6. CASE NextRoute(p) \/ SignalCb(p) \/ AcceptErrorCb(p) \/ StopRouteListeners(p)
  BY <1>0, <1>2, <1>6, Zenon DEF NextRoute, GiveUp, SignalCb, AcceptErrorCb, StopRouteListeners, Goto, static, WorkersRun
<1>7. CASE Signal(p)
  <2>1. CASE pc[p] = "load"
    BY <1>3, <1>7, <2>1, Zenon DEF Signal
  <2>2. CASE pc[p] # "load" /\ WorkersRun(p)
    BY <1>2, <1>7, <2>2, Zenon DEF Signal, static
  <2>3. CASE pc[p] # "load" /\ ~WorkersRun(p)
    BY <1>7, <2>3, Zenon DEF Signal, WorkersRun, PathInv
  <2>. QED  BY <2>1, <2>2, <2>3, Zenon
<1>8. CASE /\ pc[p] = "start" /\ idx[p] <= Len(routes[p]) /\ ClearPath(p)
           /\ routes' = routes /\ rival' = rival /\ started' = started /\ pc'[p] # "listen"
  <2>1. idx[p] = started[p] + 1 /\ WorkersRun(p)
    BY <1>8, Zenon DEF ProcInv, PhaseInv, WorkersRun
  <2>2. CASE IsUnix(Here(p))
    <3>1. node' = [node EXCEPT ![Here(p).listen.addr] = Nothing]
      BY <1>8, <2>2, Zenon DEF ClearPath, Unlink
    <3>2. OwnPathsDiffer(p) => \A k \in DOMAIN routes[p] : IsUnix(routes[p][k]) /\ k <= started[p]
              => node'[routes[p][k].listen.addr] = node[routes[p][k].listen.addr]
      BY <1>8, <2>1, <2>2, <3>1, TouchOwn, Zenon
    <3>. QED  BY <1>8, <2>1, <3>2, PathOwn, Zenon
  <2>3. CASE ~IsUnix(Here(p))
    BY <1>2, <1>8, <2>1, <2>3, Zenon DEF ClearPath
  <2>. QED  BY <2>2, <2>3, Zenon
<1>9. CASE StartStreamRoute(p) \/ StartDatagramRoute(p)
  <2>1. /\ pc[p] = "start" /\ idx[p] <= Len(routes[p])
        /\ routes' = routes /\ rival' = rival /\ started' = started /\ WorkersRun(p)
        /\ ClearPath(p) \/ node' = node
    BY <1>9, Zenon DEF StartStreamRoute, StartDatagramRoute, OpenDatagramSocket, static, WorkersRun
  <2>2. pc'[p] # "listen"
    BY <1>0, <1>9, Zenon DEF StartStreamRoute, StartDatagramRoute, OpenDatagramSocket, OpenSocket, GiveUp, Undo, Goto
  <2>. QED  BY <1>2, <1>8, <2>1, <2>2, Zenon
<1>10. CASE BindWithWait(p)
  <2>1. /\ pc[p] = "bind" /\ WorkersRun(p) /\ idx[p] = started[p] + 1 /\ idx[p] <= Len(routes[p])
        /\ routes' = routes /\ rival' = rival /\ started' = started
    BY <1>10, Zenon DEF BindWithWait, static, WorkersRun, ProcInv, PhaseInv
  <2>2. CASE BindFails(p, "failed") \/ BindFails(p, "inuse")
    BY <1>0, <1>2, <2>1, <2>2, Zenon DEF BindFails, GiveUp, Undo, Goto
  <2>3. CASE pc' = pc /\ idx' = idx /\ node' = node
    BY <1>2, <2>1, <2>3, Zenon
  <2>4. CASE /\ IF IsUnix(Here(p)) THEN node' = [node EXCEPT ![Here(p).listen.addr] = SocketOf(p, idx[p])]
                                   ELSE node' = node
             /\ idx' = idx
    <3>1. CASE IsUnix(Here(p))
      <4>1. node' = [node EXCEPT ![Here(p).listen.addr] = SocketOf(p, idx[p])]
        BY <2>4, <3>1, Zenon
      <4>2. OwnPathsDiffer(p) =>
              /\ \A k \in DOMAIN routes[p] : IsUnix(routes[p][k]) /\ k <= started[p]
                   => node'[routes[p][k].listen.addr] = node[routes[p][k].listen.addr]
              /\ node'[Here(p).listen.addr] = SocketOf(p, idx[p])
        BY <2>1, <3>1, <4>1, TouchOwn, Zenon
      <4>. QED  BY <2>1, <2>4, <4>2, PathOwn, Zenon DEF Here
    <3>2. CASE ~IsUnix(Here(p))
      BY <2>1, <2>4, <3>2, PathOwn, Zenon DEF Here
    <3>. QED  BY <3>1, <3>2
  <2>. QED  BY <1>10, <2>2, <2>3, <2>4, Zenon DEF BindWithWait
<1>11. CASE Listen(p)
  <2>1. /\ pc[p] = "listen" /\ WorkersRun(p) /\ idx[p] = started[p] + 1
        /\ routes' = routes /\ rival' = rival
    BY <1>11, Zenon DEF Listen, static, WorkersRun, ProcInv, PhaseInv
  <2>2. CASE BindFails(p, "failed") /\ started' = started
    BY <1>0, <1>2, <2>1, <2>2, Zenon DEF BindFails, GiveUp, Undo, Goto
  <2>3. CASE ListenerUp(p)
    <3>1. node' = node /\ started'[p] = idx[p] /\ pc'[p] = "start"
      BY <1>0, <2>3, Zenon DEF ListenerUp, Goto, ProcTypes
    <3>2. \A k \in DOMAIN routes[p] : k <= idx[p] => k <= started[p] \/ k = idx[p]
      <4>1. DOMAIN routes[p] \subseteq Nat
        BY RoutesSeq
      <4>. QED  BY <1>0, <2>1, <4>1
    <3>. QED  BY <2>1, <3>1, <3>2, PathOwn, Zenon
  <2>. QED  BY <1>11, <2>2, <2>3, Zenon DEF Listen
<1>12. CASE FreeRoute(p)
  <2>1. pc[p] = "free" => pc'[p] \in {"free", "unlink"}
    BY <1>0, <1>12, Zenon DEF FreeRoute, AfterFree, Goto, Label
  <2>2. /\ pc[p] = "undo" => pc'[p] # "listen" /\ WorkersRun(p)
        /\ routes' = routes /\ rival' = rival /\ started' = started
    BY <1>0, <1>12, Zenon DEF FreeRoute, AfterFree, Goto, Label, static, WorkersRun
  <2>3. CASE pc[p] = "undo" /\ IsUnix(Here(p)) /\ LeaveSocket(p)
    <3>1. idx[p] = started[p] + 1 /\ idx[p] <= Len(routes[p])
      BY <2>3, Zenon DEF ProcInv, PhaseInv
    <3>2. PICK v : node' = [node EXCEPT ![Here(p).listen.addr] = v]
      BY <2>3, Zenon DEF LeaveSocket
    <3>3. OwnPathsDiffer(p) => \A k \in DOMAIN routes[p] : IsUnix(routes[p][k]) /\ k <= started[p]
              => node'[routes[p][k].listen.addr] = node[routes[p][k].listen.addr]
      BY <2>3, <3>1, <3>2, TouchOwn, Zenon
    <3>. QED  BY <2>2, <2>3, <3>3, PathOwn, Zenon
  <2>4. CASE pc[p] = "undo" /\ node' = node
    BY <1>1, <1>2, <2>2, <2>4, Zenon
  <2>. QED  BY <1>1, <1>2, <1>12, <2>1, <2>2, <2>3, <2>4, Zenon DEF FreeRoute
<1>13. CASE UnlinkPath(p)
  <2>1. pc[p] = "unlink" => pc'[p] = "free"
    BY <1>0, <1>13, Zenon DEF UnlinkPath, AfterFree, Goto
  <2>2. CASE pc[p] = "undoUnlink"
    <3>1. /\ idx[p] = started[p] + 1 /\ idx[p] <= Len(routes[p]) /\ IsUnix(Here(p)) /\ WorkersRun(p)
          /\ routes' = routes /\ rival' = rival /\ started' = started /\ pc'[p] = "stop"
      BY <1>0, <1>13, <2>2, Zenon DEF UnlinkPath, AfterFree, Goto, static, WorkersRun, ProcInv, PhaseInv
    <3>3. PICK v : node' = [node EXCEPT ![Here(p).listen.addr] = v]
      BY <1>13, Zenon DEF UnlinkPath, Unlink, LeaveSocket
    <3>2. OwnPathsDiffer(p) => \A k \in DOMAIN routes[p] : IsUnix(routes[p][k]) /\ k <= started[p]
              => node'[routes[p][k].listen.addr] = node[routes[p][k].listen.addr]
      BY <3>1, <3>3, TouchOwn, Zenon
    <3>. QED  BY <3>1, <3>2, PathOwn, Zenon
  <2>. QED  BY <1>1, <1>13, <2>1, <2>2, Zenon DEF UnlinkPath
<1>. QED  BY <1>4, <1>5, <1>6, <1>7, <1>9, <1>10, <1>11, <1>12, <1>13, Zenon DEF Step, Main

-----------------------------------------------------------------------------
(* p puts nothing but its own sockets at a path, and leaves stale ones.    *)
LEMMA NodeMade ==
  ASSUME ProcTypes, NodeTypes, NEW p \in Proc, Step(p), NEW a \in AllPaths
  PROVE  \/ node'[a] = node[a] \/ node'[a] \in {Nothing, StaleSocket, LeftSocket}
         \/ \E k \in Nat : node'[a] = SocketOf(p, k)
<1>1. CASE EndProcess(p)
  <2>1. node' = [b \in AllPaths |->
                   IF \E k \in Index : node[b] = SocketOf(p, k) THEN StaleSocket ELSE node[b]]
    BY <1>1, Zenon DEF EndProcess
  <2>. QED  BY <2>1, Zenon
<1>2. ASSUME NEW b, NEW v, node' = [node EXCEPT ![b] = v] PROVE node'[a] = node[a] \/ node'[a] = v
  BY <1>2, Zenon DEF NodeTypes
<1>3. CASE Clears(p) \/ UnlinkPath(p)
  <2>1. Unlink(Here(p).listen.addr) \/ LeaveSocket(p)
    BY <1>3, Zenon DEF Clears, UnlinkPath
  <2>. QED  BY <1>2, <2>1, LeaveOnly, Zenon DEF Unlink
<1>5. CASE Leaves(p)
  BY <1>5, LeaveOnly, Zenon DEF Leaves
<1>4. CASE Binds(p)
  <2>1. node' = [node EXCEPT ![Here(p).listen.addr] = SocketOf(p, idx[p])] /\ idx[p] \in Nat
    BY <1>4, AtProc, Zenon DEF Binds
  <2>. QED  BY <1>2, <2>1, Zenon
<1>. QED  BY <1>1, <1>3, <1>4, <1>5, NodeCases, Zenon

(* How p comes to be binding: it has just cleared the path, or it goes on. *)
LEMMA ToBind ==
  ASSUME ProcTypes, NEW p \in Proc, Step(p), pc'[p] = "bind"
  PROVE  /\ Here(p)' = Here(p) /\ rival' = rival
         /\ \/ pc[p] = "start" /\ idx[p] <= Len(routes[p]) /\ ClearPath(p) /\ waited'[p] = 0
            \/ /\ pc[p] = "bind" /\ node' = node
               /\ \/ waited' = waited
                  \/ ~NoMoreWait(p) /\ waited'[p] = waited[p] + INTERVAL
<1>0. pc \in [Proc -> Label] /\ waited \in [Proc -> Nat]
  BY Zenon DEF ProcTypes
<1>1. ASSUME NEW l, Goto(p, l) PROVE l = "bind"
  BY <1>0, <1>1, Zenon DEF Goto
<1>2. /\ ~Goto(p, "off") /\ ~Goto(p, "load") /\ ~Goto(p, "start") /\ ~Goto(p, "stop") /\ ~Goto(p, "undo")
      /\ ~Goto(p, "loop") /\ ~Goto(p, "listen") /\ ~Goto(p, "join") /\ ~Goto(p, "free")
      /\ ~Goto(p, "unlink") /\ ~Goto(p, "undoUnlink")
  BY <1>1, Zenon
<1>3. ~EndProcess(p) /\ (\A e : ~GiveUp(p, e) /\ ~Undo(p, e) /\ ~BindFails(p, e)) /\ ~AfterFree(p)
  BY <1>2, Zenon DEF EndProcess, GiveUp, Undo, BindFails, AfterFree
<1>4. ~Exec(p) /\ ~Kill(p) /\ ~Exit(p) /\ ~JoinWorkers(p) /\ ~UnlinkPath(p) /\ ~SignalCb(p) /\ ~AcceptErrorCb(p)
  BY <1>2, <1>3, Zenon DEF Exec, Kill, Exit, JoinWorkers, UnlinkPath, SignalCb, AcceptErrorCb
<1>5. ~LoadLine(p)
  BY <1>0, <1>3, Zenon DEF LoadLine, AddRoute, loading
<1>6. ~Setup(p) /\ ~NextRoute(p) /\ ~Listen(p)
  BY <1>2, <1>3, Zenon DEF Setup, NextRoute, Listen, ListenerUp
<1>7. ~StopRouteListeners(p) /\ ~FreeRoute(p)
  BY <1>2, <1>3, Zenon DEF StopRouteListeners, FreeRoute
<1>8. CASE Signal(p)
  <2>1. pc' = pc /\ idx' = idx /\ routes' = routes /\ node' = node /\ waited' = waited /\ rival' = rival
    BY <1>3, <1>8, Zenon DEF Signal, static
  <2>. QED  BY <2>1, Zenon DEF Here
<1>9. CASE StartStreamRoute(p) \/ StartDatagramRoute(p)
  <2>1. pc[p] = "start" /\ idx[p] <= Len(routes[p]) /\ routes' = routes /\ rival' = rival
    BY <1>9, Zenon DEF StartStreamRoute, StartDatagramRoute, static
  <2>2. ClearPath(p) /\ OpenSocket(p)
    BY <1>3, <1>9, Zenon DEF StartStreamRoute, StartDatagramRoute, OpenDatagramSocket
  <2>3. waited'[p] = 0 /\ idx' = idx
    BY <1>0, <2>2, Zenon DEF OpenSocket
  <2>. QED  BY <2>1, <2>2, <2>3, Zenon DEF Here
<1>10. CASE BindWithWait(p)
  <2>1. /\ pc[p] = "bind" /\ routes' = routes /\ rival' = rival /\ ~NoMoreWait(p)
        /\ waited' = [waited EXCEPT ![p] = @ + INTERVAL] /\ idx' = idx /\ node' = node
    BY <1>2, <1>3, <1>10, Zenon DEF BindWithWait, static
  <2>2. waited'[p] = waited[p] + INTERVAL
    BY <1>0, <2>1, Zenon
  <2>. QED  BY <2>1, <2>2, Zenon DEF Here
<1>. QED  BY <1>4, <1>5, <1>6, <1>7, <1>8, <1>9, <1>10, Zenon DEF Step, Main

(* How p comes to give an address up as in use.                            *)
LEMMA ToInUse ==
  ASSUME ProcTypes, NEW p \in Proc, ProcInv(p), Step(p), err'[p] = "inuse"
  PROVE  /\ routes' = routes /\ started' = started /\ waited' = waited /\ rival' = rival
         /\ \/ err[p] = "inuse"
            \/ pc[p] = "bind" /\ InUse(Here(p)) /\ NoMoreWait(p)
<1>0. err \in [Proc -> {"none", "failed", "nomutex", "inuse"}]
  BY Zenon DEF ProcTypes
<1>1. ASSUME NEW e, err' = [err EXCEPT ![p] = e] PROVE e = "inuse"
  BY <1>0, <1>1, Zenon
<1>2. ASSUME NEW e, GiveUp(p, e) \/ Undo(p, e) \/ BindFails(p, e) PROVE e = "inuse"
  BY <1>1, <1>2, Zenon DEF GiveUp, Undo, BindFails
<1>3. /\ ~EndProcess(p) /\ ~GiveUp(p, "failed") /\ ~Undo(p, "failed") /\ ~BindFails(p, "failed")
      /\ ~GiveUp(p, "nomutex")
  <2>1. ~EndProcess(p)
    BY <1>1, Zenon DEF EndProcess
  <2>. QED  BY <1>2, <2>1, Zenon
<1>4. err' = err => pc[p] \notin {"off", "load", "start", "bind", "listen", "loop"}
  BY Zenon DEF ProcInv, PhaseInv
<1>5. CASE BindWithWait(p)
  <2>1. pc[p] = "bind" /\ routes' = routes /\ rival' = rival /\ started' = started
    BY <1>5, Zenon DEF BindWithWait, static
  <2>2. InUse(Here(p)) /\ NoMoreWait(p) /\ BindFails(p, "inuse")
    BY <1>3, <1>4, <1>5, <2>1, Zenon DEF BindWithWait
  <2>. QED  BY <2>1, <2>2, Zenon DEF BindFails
<1>6. ~LoadLine(p) /\ ~Setup(p) /\ ~Exec(p) /\ ~Kill(p) /\ ~Exit(p) /\ ~SignalCb(p) /\ ~AcceptErrorCb(p)
  BY <1>3, <1>4, Zenon DEF LoadLine, AddRoute, loading, Setup, Exec, Kill, Exit, SignalCb, AcceptErrorCb
<1>7. ~NextRoute(p) /\ ~Listen(p)
  BY <1>3, <1>4, Zenon DEF NextRoute, Listen, ListenerUp
<1>8. ~StartStreamRoute(p) /\ ~StartDatagramRoute(p)
  BY <1>3, <1>4, Zenon DEF StartStreamRoute, StartDatagramRoute, OpenDatagramSocket, OpenSocket
<1>9. CASE Signal(p) \/ StopRouteListeners(p) \/ JoinWorkers(p) \/ FreeRoute(p) \/ UnlinkPath(p)
  <2>1. /\ routes' = routes /\ started' = started /\ waited' = waited /\ rival' = rival /\ err' = err
    BY <1>3, <1>9, Zenon DEF Signal, StopRouteListeners, JoinWorkers, FreeRoute, UnlinkPath, static
  <2>. QED  BY <2>1, Zenon
<1>. QED  BY <1>5, <1>6, <1>7, <1>8, <1>9, Zenon DEF Step, Main

(* parse_positive_int: the seconds of a route are not negative.            *)
LEMMA BindWaitNat ==
  ASSUME NEW p \in Proc, ProcInv(p), NEW k \in 1..Len(routes[p])
  PROVE  routes[p][k].opts.bind_wait \in Nat
<1>1. routes[p][k] \in ReadRoutes(p)
  BY DEF ProcInv, PhaseInv
<1>2. PICK l \in Range(Conf(p).lines) : RouteLineOK(l) /\ routes[p][k] = ParseRouteLine(l)
  BY <1>1, Zenon DEF ReadRoutes
<1>3. routes[p][k].opts = ParseRouteOptions(l.opts)
  BY <1>2 DEF ParseRouteLine
<1>. DEFINE last == LastOccurrence(l.opts, "bind_wait")
<1>4. routes[p][k].opts.bind_wait =
        IF last = {} THEN 0 ELSE StoredValue(l.opts[CHOOSE j \in last : TRUE])
  BY <1>3, Zenon DEF ParseRouteOptions, RouteOptionsSetDefaults
<1>5. ASSUME NEW j \in last PROVE StoredValue(l.opts[j]) \in Nat
  <2>1. j \in DOMAIN l.opts /\ l.opts[j].key = "bind_wait"
    BY <1>5, Zenon DEF LastOccurrence
  <2>2. OptionOK(l.opts[j])
    BY <1>2, <2>1, Zenon DEF RouteLineOK
  <2>3. l.opts[j].int \in 1..INT_MAX
    BY <2>1, <2>2, Zenon DEF OptionOK, IntOptions, BoolOptions, ParsePositiveInt
  <2>4. StoredValue(l.opts[j]) = l.opts[j].int
    BY <2>1, Zenon DEF StoredValue, IntOptions, BoolOptions
  <2>. QED  BY <2>3, <2>4
<1>6. last # {} => (CHOOSE j \in last : TRUE) \in last
  BY Zenon
<1>. QED  BY <1>4, <1>5, <1>6

(* Milliseconds that fit an int are what wait_ms is.                       *)
LEMMA WrapFits ==
  ASSUME NEW x \in Nat, x < HALF
  PROVE  WrapInt(x) = x
<1>1. HALF \in Nat /\ x + HALF \in Nat /\ 2 * HALF \in Nat /\ 2 * HALF > 0 /\ x + HALF < 2 * HALF
  BY RouteConfigAssumption
<1>2. (x + HALF) % (2 * HALF) = x + HALF
  BY <1>1
<1>. QED  BY <1>1, <1>2 DEF WrapInt

(* bind_with_wait gives up when the seconds are over.                      *)
LEMMA WaitExact ==
  ASSUME NEW p \in Proc, ProcInv(p), NEW k \in 1..Len(routes[p]),
         SECOND * routes[p][k].opts.bind_wait < HALF
  PROVE  /\ SECOND * routes[p][k].opts.bind_wait \in Nat
         /\ WaitMs(routes[p][k]) = SECOND * routes[p][k].opts.bind_wait
<1>1. routes[p][k].opts.bind_wait \in Nat
  BY BindWaitNat, Zenon
<1>2. SECOND * routes[p][k].opts.bind_wait \in Nat
  BY <1>1, RouteLifecycleAssumption
<1>. QED  BY <1>2, WrapFits, Zenon DEF WaitMs

(* Nobody else makes p wait longer or shorter.                             *)
LEMMA WaitedKept ==
  ASSUME ProcTypes, NEW p \in Proc, NEW q \in Proc, q # p, Step(q)
  PROVE  waited'[p] = waited[p]
<1>0. waited \in [Proc -> Nat]
  BY Zenon DEF ProcTypes
<1>1. CASE waited' = waited
  BY <1>1, Zenon
<1>2. ASSUME NEW v, waited' = [waited EXCEPT ![q] = v] PROVE waited'[p] = waited[p]
  BY <1>0, <1>2, Zenon
<1>3. CASE EndProcess(q) \/ OpenSocket(q)
  BY <1>2, <1>3, Zenon DEF EndProcess, OpenSocket
<1>4. CASE LoadLine(q) \/ Setup(q) \/ NextRoute(q) \/ Listen(q) \/ SignalCb(q) \/ StopRouteListeners(q)
  BY <1>1, <1>3, <1>4, Zenon DEF LoadLine, AddRoute, loading, Setup, NextRoute, Listen, ListenerUp, BindFails,
       SignalCb, StopRouteListeners
<1>5. CASE JoinWorkers(q) \/ FreeRoute(q) \/ UnlinkPath(q) \/ Exit(q)
  BY <1>1, <1>3, <1>5, Zenon DEF JoinWorkers, FreeRoute, UnlinkPath, Exit
<1>6. CASE Exec(q) \/ Signal(q) \/ Kill(q) \/ AcceptErrorCb(q)
  BY <1>1, <1>3, <1>6, Zenon DEF Exec, Signal, Kill, AcceptErrorCb
<1>7. CASE StartStreamRoute(q) \/ StartDatagramRoute(q)
  BY <1>1, <1>3, <1>7, Zenon DEF StartStreamRoute, StartDatagramRoute, OpenDatagramSocket
<1>8. CASE BindWithWait(q)
  BY <1>1, <1>2, <1>8, Zenon DEF BindWithWait, BindFails
<1>. QED  BY <1>4, <1>5, <1>6, <1>7, <1>8, Zenon DEF Step, Main
=============================================================================
