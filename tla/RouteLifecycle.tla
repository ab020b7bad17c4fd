--------------------------- MODULE RouteLifecycle ---------------------------
(***************************************************************************)
(* The life of a process, from reading its routes to the end of main(), on *)
(* a machine it shares with other processes of the same program: main() of *)
(* tinyproxy.c, load_routes_from_text, route_runtime.c, the binding of     *)
(* listeners (bind.c, stream_listener.c, datagram_listener.c) and what     *)
(* becomes of them (stream_route.c, datagram_route.c), signals.c.          *)
(*                                                                         *)
(* Processes start, are replaced, fail, are told to stop and are killed,   *)
(* in any order.  They meet in the kernel: an inet address has one         *)
(* listening TCP socket, a path has one file.  A step is what a process    *)
(* does between two system calls by which it can see or disturb another.   *)
(***************************************************************************)
EXTENDS RouteConfig, FiniteSets

CONSTANTS
  Proc,        \* processes: slots in which the program runs, again and again
  Configs,     \* Configs[p]: what p may be given: from a file or not, lines, -w
  Foreign,     \* inet addresses another program may hold at first
  CPUS,        \* compat_cpu_count()
  SECOND,      \* milliseconds of a second, in the unit of INTERVAL
  INTERVAL,    \* BIND_WAIT_INTERVAL_MS
  MaxRoutes    \* bound on the routes of a process

ASSUME RouteLifecycleAssumption ==
  /\ CPUS \in Nat \ {0} /\ SECOND \in Nat \ {0} /\ INTERVAL \in Nat \ {0}
  /\ MaxRoutes \in Nat
  /\ \A p \in Proc : \A n \in DOMAIN Configs[p] :
       LET ls == Configs[p][n].lines IN ls \in Seq(Range(ls)) /\ Len(ls) <= MaxRoutes

VARIABLES
  conf,      \* conf[p]: which of them p is given
  pc,        \* pc[p]: where p is
  idx,       \* idx[p]: the line or the route p is dealing with
  routes,    \* routes[p]: p's routes
  started,   \* started[p]: route_ctx_count
  waited,    \* waited[p]: waited_ms of bind_with_wait
  sock,      \* sock[p][k]: listen_fd of route k: "none", "open", "bound", "listening"
  raw,       \* raw[p]: routes whose raw_fd is open
  err,       \* err[p]: why p gives up
  pend,      \* pend[p]: a signal has arrived that the loop has not yet served
  rival,     \* rival[p]: another process with one of p's paths ran while p did
  node,      \* node[a]: what is at path a
  foreign    \* inet addresses another program holds

static == <<conf, routes, rival, foreign>>
loading == <<conf, rival, foreign, pc, started, waited, sock, raw, err, pend, node>>
vars   == <<static, pc, idx, started, waited, sock, raw, err, pend, node>>

Index == 1..MaxRoutes
Nothing == <<>>
RegularFile == <<"file">>
StaleSocket == <<"stale">>  \* its process has ended
LeftSocket == <<"left">>    \* its process could not remove it, and said so
SocketOf(p, k) == <<p, k>>

Wildcard == "0.0.0.0"

IsUnix(r) == r.listen.proto \in UnixProto
IsStream(r) == r.listen.proto \in StreamProto

(* The listen endpoints of the lines of c that are on a path.              *)
Paths(c) ==
  {c.lines[n].words[2] : n \in {m \in DOMAIN c.lines :
     c.lines[m].kind # "blank" /\ c.lines[m].words[1] \in UnixProto}}
AllPaths == UNION {UNION {Paths(c) : c \in Range(Configs[p])} : p \in Proc}

Conf(p) == Configs[p][conf[p]]

Here(p) == routes[p][idx[p]]
Running(p) == pc[p] # "off"
(* The threads of the pool exist.                                          *)
WorkersRun(p) == pc[p] \in {"start", "bind", "listen", "undo", "undoUnlink", "loop", "stop", "join"}

Init ==
  /\ conf \in [Proc -> UNION {DOMAIN Configs[p] : p \in Proc}]
  /\ \A p \in Proc : conf[p] \in DOMAIN Configs[p]
  /\ pc = [p \in Proc |-> "off"]
  /\ idx = [p \in Proc |-> 1]
  /\ routes = [p \in Proc |-> <<>>]
  /\ started = [p \in Proc |-> 0]
  /\ waited = [p \in Proc |-> 0]
  /\ sock = [p \in Proc |-> [k \in Index |-> "none"]]
  /\ raw = [p \in Proc |-> {}]
  /\ err = [p \in Proc |-> "none"]
  /\ pend = [p \in Proc |-> FALSE]
  /\ rival = [p \in Proc |-> FALSE]
  /\ node \in [AllPaths -> {Nothing, RegularFile}]
  /\ foreign \in SUBSET Foreign

-----------------------------------------------------------------------------
Goto(p, l) == pc' = [pc EXCEPT ![p] = l]
Close(p, k) == sock' = [sock EXCEPT ![p][k] = "none"]
Unlink(a) == node' = [node EXCEPT ![a] = Nothing]

(* lstat or unlink fails: a warning is logged and the socket stays.        *)
LeaveSocket(p) ==
  node' = [node EXCEPT ![Here(p).listen.addr] = IF @ = SocketOf(p, idx[p]) THEN LeftSocket ELSE @]

IsSocketAnything(a) == node[a] # Nothing

(* Is there a socket at the path, as lstat sees it?                        *)
IsSocket(a) == node[a] \notin {Nothing, RegularFile}

ClearPathSocketsOnly(p) ==
  IF IsUnix(Here(p)) /\ IsSocket(Here(p).listen.addr)
  THEN Unlink(Here(p).listen.addr) ELSE UNCHANGED node

(* A listener on a path first removes whatever is there.                   *)
ClearPath(p) == IF IsUnix(Here(p)) THEN Unlink(Here(p).listen.addr) ELSE UNCHANGED node

GiveUpRetries(p, e) ==
  IF IsStream(Here(p))
  THEN Goto(p, "start") /\ UNCHANGED <<err, idx>>
  ELSE /\ err' = [err EXCEPT ![p] = e]
       /\ idx' = [idx EXCEPT ![p] = 1]
       /\ Goto(p, "stop")

(* goto out, from where the started routes are stopped one by one.         *)
GiveUp(p, e) ==
  /\ err' = [err EXCEPT ![p] = e]
  /\ idx' = [idx EXCEPT ![p] = 1]
  /\ Goto(p, "stop")

(* free_datagram_route of the route that is being started, then goto out.  *)
Undo(p, e) ==
  /\ err' = [err EXCEPT ![p] = e]
  /\ Goto(p, "undo")
  /\ UNCHANGED idx

(* The end of a process, of whatever kind: its memory and its descriptors  *)
(* are gone, what it has at a path stays there and nobody listens to it.   *)
EndProcess(p) ==
  /\ Goto(p, "off")
  /\ idx' = [idx EXCEPT ![p] = 1]
  /\ routes' = [routes EXCEPT ![p] = <<>>]
  /\ started' = [started EXCEPT ![p] = 0]
  /\ waited' = [waited EXCEPT ![p] = 0]
  /\ sock' = [sock EXCEPT ![p] = [k \in Index |-> "none"]]
  /\ raw' = [raw EXCEPT ![p] = {}]
  /\ err' = [err EXCEPT ![p] = "none"]
  /\ pend' = [pend EXCEPT ![p] = FALSE]
  /\ rival' = [rival EXCEPT ![p] = FALSE]
  /\ node' = [a \in AllPaths |->
                IF \E k \in Index : node[a] = SocketOf(p, k) THEN StaleSocket ELSE node[a]]
  /\ UNCHANGED <<conf, foreign>>

(* A process is started, or started again.                                 *)
Exec(p) ==
  /\ pc[p] = "off"
  /\ Goto(p, "load")
  /\ LET met == {q \in Proc \ {p} : Running(q) /\ Paths(Conf(p)) \intersect Paths(Conf(q)) # {}} IN
     rival' = [q \in Proc |-> IF q = p THEN met # {} ELSE rival[q] \/ q \in met]
  /\ UNCHANGED <<conf, routes, foreign, idx, started, waited, sock, raw, err, pend, node>>

-----------------------------------------------------------------------------
(* A route that was parsed is kept, unless it is from a file and conflicts *)
(* with an earlier one; -L routes are not compared.                        *)
AddRoute(p, r) ==
  IF Conf(p).file /\ FindConflictingRoute(routes[p], r) # {}
  THEN EndProcess(p)
  ELSE /\ routes' = [routes EXCEPT ![p] = Append(@, r)]
       /\ idx' = [idx EXCEPT ![p] = @ + 1]
       /\ UNCHANGED loading

(* One turn of the loop of load_routes_from_text, or of the loop over the  *)
(* -L arguments.  In a file, blank lines and comments are skipped and a    *)
(* line that is too long ends the program; so does, in either, one that    *)
(* cannot be parsed, and a file that cannot be read or memory that is not  *)
(* to be had.                                                              *)
LoadLine(p) ==
  /\ pc[p] = "load" /\ idx[p] <= Len(Conf(p).lines)
  /\ LET l == Conf(p).lines[idx[p]] IN
     \/ /\ Conf(p).file /\ l.kind = "blank"
        /\ idx' = [idx EXCEPT ![p] = @ + 1]
        /\ UNCHANGED <<routes, loading>>
     \/ /\ l.kind = "route" \/ (l.kind = "long" /\ ~Conf(p).file)
        /\ RouteLineOK(l)
        /\ AddRoute(p, ParseRouteLine(l))
     \/ EndProcess(p)

(* The worker count of -w: 0 stands for one less than the CPUs.            *)
WorkerCount(w) == IF w = 0 THEN CPUS - 1 ELSE w

(* The rest of the preparation: at least one route, the event base, the    *)
(* signal handlers, the pool.  Any of them may fail, a pool without        *)
(* workers always does.                                                    *)
Setup(p) ==
  /\ pc[p] = "load" /\ idx[p] > Len(Conf(p).lines)
  /\ \/ /\ routes[p] # <<>> /\ WorkerCount(Conf(p).w) > 0
        /\ Goto(p, "start")
        /\ idx' = [idx EXCEPT ![p] = 1]
        /\ UNCHANGED <<static, sock, raw, err, started, waited, pend, node>>
     \/ EndProcess(p)

-----------------------------------------------------------------------------
(* main() turns to the next route: validate_route and start_route; when    *)
(* there is none left it enters the event loop.                            *)
NextRoute(p) ==
  /\ pc[p] = "start"
  /\ IF idx[p] > Len(routes[p])
     THEN Goto(p, "loop") /\ UNCHANGED <<idx, err>>
     ELSE ~ValidateRoute(Here(p)) /\ GiveUp(p, "failed")
  /\ UNCHANGED <<static, started, waited, sock, raw, pend, node>>

OpenSocket(p) ==
  /\ sock' = [sock EXCEPT ![p][idx[p]] = "open"]
  /\ waited' = [waited EXCEPT ![p] = 0]
  /\ Goto(p, "bind")
  /\ UNCHANGED <<idx, err>>

(* bind_tcp_stream_listener and bind_unix_stream_listener up to bind(2):   *)
(* the address is checked, whatever is at the path is unlinked, a socket   *)
(* is created and set up.                                                  *)
StartStreamRoute(p) ==
  /\ pc[p] = "start" /\ idx[p] <= Len(routes[p])
  /\ ValidateRoute(Here(p)) /\ IsStream(Here(p))
  /\ \/ /\ ClearPath(p)
        /\ \/ OpenSocket(p)
           \/ GiveUp(p, "failed") /\ UNCHANGED <<sock, waited>>
     \/ GiveUp(p, "failed") /\ UNCHANGED <<sock, waited, node>>
  /\ UNCHANGED <<static, started, raw, pend>>

(* bind_unix_datagram_listener and bind_udp_datagram_listener up to        *)
(* bind(2): broadcast_reply on a path is refused once the path is gone.    *)
OpenDatagramSocket(p) ==
  /\ ClearPath(p)
  /\ \/ ~(IsUnix(Here(p)) /\ Here(p).opts.broadcast_reply # "off") /\ OpenSocket(p)
     \/ /\ Undo(p, "failed")
        /\ \/ sock' = [sock EXCEPT ![p][idx[p]] = "open"]
           \/ UNCHANGED sock
        /\ UNCHANGED waited

(* start_datagram_route: the raw socket, the mutex, the runtime directory, *)
(* the listener.  Without the raw socket nothing is to be undone; without  *)
(* the mutex the context is cleared and the raw socket forgotten.          *)
StartDatagramRoute(p) ==
  /\ pc[p] = "start" /\ idx[p] <= Len(routes[p])
  /\ ValidateRoute(Here(p)) /\ ~IsStream(Here(p))
  /\ LET spoof == Here(p).opts.broadcast_reply = "upstream" IN
     \/ spoof /\ GiveUp(p, "failed") /\ UNCHANGED <<raw, sock, waited, node>>
     \/ /\ raw' = IF spoof THEN [raw EXCEPT ![p] = @ \union {idx[p]}] ELSE raw
        /\ \/ GiveUp(p, "nomutex") /\ UNCHANGED <<sock, waited, node>>
           \/ Undo(p, "failed") /\ UNCHANGED <<sock, waited, node>>
           \/ OpenDatagramSocket(p)
  /\ UNCHANGED <<static, started, pend>>

-----------------------------------------------------------------------------
(* The kernel's side of it.  A path is free when nothing is there.  With   *)
(* SO_REUSEADDR, bind of a TCP socket fails while another one listens on   *)
(* the address and listen fails if another one got there first; UDP        *)
(* sockets of this program share an address.  An address clashes with      *)
(* itself and, on the same port, with the wildcard.                        *)
Clash(a, b) == a[2] = b[2] /\ (a[1] = b[1] \/ Wildcard \in {a[1], b[1]})

ListenedOn(a) ==
  \E p \in Proc : \E k \in DOMAIN routes[p] :
    /\ sock[p][k] = "listening" /\ routes[p][k].listen.proto = "tcp"
    /\ Clash(routes[p][k].listen.addr, a)

InUse(r) ==
  IF IsUnix(r) THEN node[r.listen.addr] # Nothing
  ELSE (\E b \in foreign : Clash(r.listen.addr, b)) \/ (IsStream(r) /\ ListenedOn(r.listen.addr))

(* wait_ms of bind_with_wait.                                              *)
WaitMs(r) == WrapInt(SECOND * r.opts.bind_wait)

NoMoreWaitEarly(p) ==
  IsUnix(Here(p)) \/ WaitMs(Here(p)) <= 0 \/ waited[p] + INTERVAL >= WaitMs(Here(p))

(* bind_with_wait has waited long enough; only inet listeners wait at all. *)
NoMoreWait(p) == IsUnix(Here(p)) \/ WaitMs(Here(p)) <= 0 \/ waited[p] >= WaitMs(Here(p))

(* A failed bind or listen: a stream listener closes its socket, a         *)
(* datagram route is freed.                                                *)
BindFails(p, e) ==
  /\ IF IsStream(Here(p)) THEN GiveUp(p, e) /\ Close(p, idx[p])
                          ELSE Undo(p, e) /\ UNCHANGED sock
  /\ UNCHANGED <<waited, node>>

(* One turn of the loop of bind_with_wait, or the plain bind of a path.    *)
BindWithWait(p) ==
  /\ pc[p] = "bind"
  /\ \/ /\ ~InUse(Here(p))
        /\ sock' = [sock EXCEPT ![p][idx[p]] = "bound"]
        /\ IF IsUnix(Here(p))
           THEN node' = [node EXCEPT ![Here(p).listen.addr] = SocketOf(p, idx[p])]
           ELSE UNCHANGED node
        /\ waited' = [waited EXCEPT ![p] = 0]
        /\ Goto(p, "listen")
        /\ UNCHANGED <<idx, err>>
     \/ /\ InUse(Here(p))
        /\ IF NoMoreWait(p)
           THEN BindFails(p, "inuse")
           ELSE /\ waited' = [waited EXCEPT ![p] = @ + INTERVAL]
                /\ UNCHANGED <<pc, idx, err, sock, node>>
     \/ BindFails(p, "failed")
  /\ UNCHANGED <<static, started, raw, pend>>

ListenerUpUnlinks(p) ==
  /\ sock' = [sock EXCEPT ![p][idx[p]] = "listening"]
  /\ started' = [started EXCEPT ![p] = idx[p]]
  /\ idx' = [idx EXCEPT ![p] = @ + 1]
  /\ Goto(p, "start")
  /\ ClearPath(p)
  /\ UNCHANGED <<err, waited>>

(* The listener is there: start_route returns 0 to main().                 *)
ListenerUp(p) ==
  /\ sock' = [sock EXCEPT ![p][idx[p]] = "listening"]
  /\ started' = [started EXCEPT ![p] = idx[p]]
  /\ idx' = [idx EXCEPT ![p] = @ + 1]
  /\ Goto(p, "start")
  /\ UNCHANGED <<err, waited, node>>

(* listen(2), evconnlistener_new, getsockname, event_new, event_add; a     *)
(* failed listen is not retried.                                           *)
Listen(p) ==
  /\ pc[p] = "listen"
  /\ \/ ~(Here(p).listen.proto = "tcp" /\ ListenedOn(Here(p).listen.addr)) /\ ListenerUp(p)
     \/ BindFails(p, "failed") /\ UNCHANGED started
  /\ UNCHANGED <<static, raw, pend>>

-----------------------------------------------------------------------------
(* SIGINT or SIGTERM: it kills a process without handlers, any other one   *)
(* sees it when its event loop runs.                                       *)
Signal(p) ==
  /\ Running(p)
  /\ IF pc[p] = "load"
     THEN EndProcess(p)
     ELSE /\ pend' = [pend EXCEPT ![p] = TRUE]
          /\ UNCHANGED <<static, pc, idx, started, waited, sock, raw, err, node>>

(* The process crashes or is killed.                                       *)
Kill(p) ==
  /\ Running(p)
  /\ EndProcess(p)

(* Another program lets go of an address.                                  *)
ForeignExit(a) ==
  /\ a \in foreign
  /\ foreign' = foreign \ {a}
  /\ UNCHANGED <<conf, routes, rival, pc, idx, started, waited, sock, raw, err, pend, node>>

SignalCbKeepsLoop(p) ==
  /\ pc[p] = "loop" /\ pend[p]
  /\ pend' = [pend EXCEPT ![p] = FALSE]
  /\ UNCHANGED <<static, pc, idx, started, waited, sock, raw, err, node>>

(* signal_cb breaks the loop.                                              *)
SignalCb(p) ==
  /\ pc[p] = "loop" /\ pend[p]
  /\ Goto(p, "stop") /\ idx' = [idx EXCEPT ![p] = 1]
  /\ UNCHANGED <<static, started, waited, sock, raw, err, pend, node>>

(* accept_error_cb ends the loop after a failed accept.                    *)
AcceptErrorCb(p) ==
  /\ pc[p] = "loop" /\ \E k \in DOMAIN routes[p] : IsStream(routes[p][k])
  /\ Goto(p, "stop") /\ idx' = [idx EXCEPT ![p] = 1]
  /\ UNCHANGED <<static, started, waited, sock, raw, err, pend, node>>

-----------------------------------------------------------------------------
StopListenersClosingAll(p) ==
  /\ pc[p] = "stop"
  /\ IF idx[p] <= started[p]
     THEN /\ Close(p, idx[p])
          /\ idx' = [idx EXCEPT ![p] = @ + 1] /\ UNCHANGED pc
     ELSE Goto(p, "join") /\ UNCHANGED <<idx, sock>>
  /\ UNCHANGED <<static, started, waited, raw, err, pend, node>>

(* stop_route_listeners of each started route: a stream listener is closed *)
(* and a datagram listener keeps its socket for the replies.               *)
StopRouteListeners(p) ==
  /\ pc[p] = "stop"
  /\ IF idx[p] <= started[p]
     THEN /\ IF IsStream(Here(p)) THEN Close(p, idx[p]) ELSE UNCHANGED sock
          /\ idx' = [idx EXCEPT ![p] = @ + 1] /\ UNCHANGED pc
     ELSE Goto(p, "join") /\ UNCHANGED <<idx, sock>>
  /\ UNCHANGED <<static, started, waited, raw, err, pend, node>>

(* worker_pool_stop and worker_pool_join.                                  *)
JoinWorkers(p) ==
  /\ pc[p] = "join"
  /\ Goto(p, "free") /\ idx' = [idx EXCEPT ![p] = 1]
  /\ UNCHANGED <<static, started, waited, sock, raw, err, pend, node>>

(* What is next after a route has been freed.                              *)
AfterFree(p) ==
  IF pc[p] \in {"undo", "undoUnlink"}
  THEN Goto(p, "stop") /\ idx' = [idx EXCEPT ![p] = 1]
  ELSE Goto(p, "free") /\ idx' = [idx EXCEPT ![p] = @ + 1]

CloseRouteKeepsRaw(p) ==
  /\ Close(p, idx[p])
  /\ UNCHANGED raw

CloseRoute(p) ==
  /\ Close(p, idx[p])
  /\ raw' = IF IsStream(Here(p)) THEN raw ELSE [raw EXCEPT ![p] = @ \ {idx[p]}]

FreeRouteLeavesPath(p) ==
  /\ pc[p] = "undo" \/ (pc[p] = "free" /\ idx[p] <= started[p])
  /\ CloseRoute(p)
  /\ AfterFree(p)
  /\ UNCHANGED <<static, started, waited, err, pend, node>>

(* free_route of each started route, or free_datagram_route of one that    *)
(* could not be started: its sockets are closed; the path is looked at,    *)
(* and left alone when lstat fails.                                        *)
FreeRoute(p) ==
  /\ pc[p] = "undo" \/ (pc[p] = "free" /\ idx[p] <= started[p])
  /\ CloseRoute(p)
  /\ \/ /\ IF IsUnix(Here(p)) /\ IsSocket(Here(p).listen.addr)
           THEN Goto(p, IF pc[p] = "undo" THEN "undoUnlink" ELSE "unlink") /\ UNCHANGED idx
           ELSE AfterFree(p)
        /\ UNCHANGED node
     \/ IsUnix(Here(p)) /\ LeaveSocket(p) /\ AfterFree(p)
  /\ UNCHANGED <<static, started, waited, err, pend>>

(* The unlink of stop_unix_stream_route and stop_unix_datagram_route; when *)
(* it fails they only warn.                                                *)
UnlinkPath(p) ==
  /\ pc[p] \in {"unlink", "undoUnlink"}
  /\ Unlink(Here(p).listen.addr) \/ LeaveSocket(p)
  /\ AfterFree(p)
  /\ UNCHANGED <<static, started, waited, sock, raw, err, pend>>

(* The rest of main().                                                     *)
Exit(p) ==
  /\ pc[p] = "free" /\ idx[p] > started[p]
  /\ EndProcess(p)

Main(p) ==
  \/ LoadLine(p)
  \/ Setup(p)
  \/ NextRoute(p)
  \/ StartStreamRoute(p)
  \/ StartDatagramRoute(p)
  \/ BindWithWait(p)
  \/ Listen(p)
  \/ SignalCb(p)
  \/ StopRouteListeners(p)
  \/ JoinWorkers(p)
  \/ FreeRoute(p)
  \/ UnlinkPath(p)
  \/ Exit(p)

Next ==
  \/ \E p \in Proc : Main(p) \/ Exec(p) \/ Signal(p) \/ Kill(p) \/ AcceptErrorCb(p)
  \/ \E a \in Foreign : ForeignExit(a)

Spec == Init /\ [][Next]_vars

(* A process that runs gets on; nobody owes it a start or a signal.        *)
Fairness == \A p \in Proc : WF_vars(Main(p))

FairSpec == Spec /\ Fairness

-----------------------------------------------------------------------------
Label == {"off", "load", "start", "bind", "listen", "undo", "undoUnlink", "loop",
          "stop", "join", "free", "unlink"}

(* Which values each variable takes.                                       *)
TypeOK ==
  /\ \A p \in Proc : conf[p] \in DOMAIN Configs[p]
  /\ pc \in [Proc -> Label]
  /\ idx \in [Proc -> Nat \ {0}] /\ started \in [Proc -> Nat] /\ waited \in [Proc -> Nat]
  /\ sock \in [Proc -> [Index -> {"none", "open", "bound", "listening"}]]
  /\ raw \in [Proc -> SUBSET Index]
  /\ err \in [Proc -> {"none", "failed", "nomutex", "inuse"}]
  /\ pend \in [Proc -> BOOLEAN] /\ rival \in [Proc -> BOOLEAN]
  /\ node \in [AllPaths -> {Nothing, RegularFile, StaleSocket, LeftSocket} \union (Proc \X Index)]
  /\ foreign \subseteq Foreign

(* The routes taken from a file listen on different endpoints, as far as   *)
(* they have been read.                                                    *)
FileRoutesDistinct ==
  \A p \in Proc : Conf(p).file =>
    \A j, k \in DOMAIN routes[p] :
      j # k => ~SameListenEndpoint(routes[p][j].listen, routes[p][k].listen)

(* A process serves all of its routes or none: in the event loop every     *)
(* one of them has its listener.                                           *)
AllRoutesServed ==
  \A p \in Proc : pc[p] = "loop" =>
    \A k \in DOMAIN routes[p] : sock[p][k] = "listening"

(* stop_datagram_route_listener: "Do NOT close ctx->listen_fd here.        *)
(* Workers may still use it to send UDP replies."  While worker threads    *)
(* exist, the socket of every datagram route that was started is open.     *)
ReplySocketOpen ==
  \A p \in Proc : WorkersRun(p) =>
    \A k \in DOMAIN routes[p] :
      k <= started[p] /\ ~IsStream(routes[p][k]) => sock[p][k] = "listening"

(* A route that could not be started leaves no descriptor open while the   *)
(* process winds up; the raw socket of a route without its mutex does.     *)
NoOrphanFd ==
  \A p \in Proc : \A k \in Index :
    /\ sock[p][k] # "none"
         => k <= started[p] \/ (k = idx[p] /\ pc[p] \in {"bind", "listen", "undo"})
    /\ k \in raw[p]
         => \/ k <= started[p] \/ (k = idx[p] /\ pc[p] \in {"bind", "listen", "undo"})
            \/ err[p] = "nomutex" /\ k = started[p] + 1

OwnPathsDiffer(p) ==
  \A j, k \in DOMAIN routes[p] :
    j # k /\ IsUnix(routes[p][j]) /\ IsUnix(routes[p][k])
      => routes[p][j].listen.addr # routes[p][k].listen.addr

(* A process whose paths no other process has used while it ran is         *)
(* reachable on all of them, whatever was left there by a crash, a kill or *)
(* a failed start before.                                                  *)
AloneIsReachable ==
  \A p \in Proc : pc[p] = "loop" /\ ~rival[p] /\ OwnPathsDiffer(p) =>
    \A k \in DOMAIN routes[p] :
      IsUnix(routes[p][k]) => node[routes[p][k].listen.addr] = SocketOf(p, k)

(* Nor can anything left behind keep it from starting: the path of a       *)
(* listener is in use only if another process took it in between.          *)
StalePathNeverBlocks ==
  \A p \in Proc :
    err[p] = "inuse" /\ IsUnix(routes[p][started[p] + 1]) => rival[p]

(* docs/tinyproxy.conf.5: "Wait up to SECONDS for the listen address to    *)
(* become available": a process that gives up an address as in use has     *)
(* waited for bind_wait, and less than an interval longer, unless the      *)
(* milliseconds do not fit an int.                                         *)
WaitHonoured ==
  \A p \in Proc :
    err[p] = "inuse" =>
      LET r == routes[p][started[p] + 1]
          w == SECOND * r.opts.bind_wait IN
      ~IsUnix(r) /\ w < HALF => w <= waited[p] /\ waited[p] < w + INTERVAL

(* At the end of main() no socket of the process is at its paths, except   *)
(* one that it warned about (LeftSocket: lstat or unlink failed) and that  *)
(* of a Unix stream listener that failed after bind.                       *)
CleanExit ==
  \A p \in Proc, a \in AllPaths, k \in Index :
    pc[p] = "free" /\ idx[p] > started[p] /\ node[a] = SocketOf(p, k)
      => k = started[p] + 1 /\ IsStream(routes[p][k])

(* "not removing unix stream listener path because it is not a socket":    *)
(* what is not a socket is removed by the start of a listener at its path, *)
(* never by the freeing of one.                                            *)
FilesKept ==
  [][\A a \in AllPaths :
       node[a] = RegularFile /\ node'[a] # RegularFile
         => \E p \in Proc : /\ pc[p] = "start" /\ pc'[p] # "start"
                           /\ idx[p] <= Len(routes[p]) /\ Here(p).listen.addr = a]_vars

(* A process that was signalled comes to an end, even if it was just       *)
(* waiting for an address.                                                 *)
SignalEnds == \A p \in Proc : (pend[p] ~> ~Running(p))

(* Starting up does not take for ever.                                     *)
StartResolves == \A p \in Proc : (pc[p] = "load" ~> (pc[p] = "loop" \/ ~Running(p)))

(* How far main() is from its end: its phases ...                          *)
Phase(l) ==
  CASE l = "load" -> 8
    [] l \in {"start", "bind", "listen"} -> 7
    [] l = "undo" -> 6 [] l = "undoUnlink" -> 5
    [] l = "loop" -> 4 [] l = "stop" -> 3 [] l = "join" -> 2
    [] l \in {"free", "unlink"} -> 1
    [] OTHER -> 0

(* ... and what it does for one route in a phase that goes over them all.  *)
Turn(l) == CASE l \in {"start", "free"} -> 2 [] l = "bind" -> 1 [] OTHER -> 0

Further(p) ==
  \/ Phase(pc'[p]) < Phase(pc[p])
  \/ /\ Phase(pc'[p]) = Phase(pc[p])
     /\ \/ idx[p] <= MaxRoutes /\ idx'[p] > idx[p]
        \/ idx'[p] = idx[p] /\ Turn(pc'[p]) < Turn(pc[p])
        \/ /\ idx'[p] = idx[p] /\ pc[p] = "bind" /\ pc'[p] = "bind"
           /\ waited[p] < WaitMs(Here(p)) /\ waited'[p] > waited[p]

Aside(p) == pc'[p] = pc[p] /\ idx'[p] = idx[p] /\ waited'[p] = waited[p]

GetsOn ==
  \A p \in Proc : Running(p) =>
    /\ Further(p) \/ (Aside(p) /\ ~Main(p))
    /\ pend[p] => pend'[p] \/ pc'[p] = "off"

(* Every step main() takes brings the process closer to its end, waiting   *)
(* for an address included, and nothing that happens to it or that other   *)
(* processes do takes it back or loses its signal.                         *)
ProcessAdvances == [][GetsOn]_vars

-----------------------------------------------------------------------------
(* The routes p can have.                                                  *)
ReadRoutes(p) ==
  {ParseRouteLine(l) : l \in {m \in Range(Conf(p).lines) : m.kind # "blank" /\ RouteLineOK(m)}}

(* Where p is in its loops over lines and routes ...                       *)
PhaseInv(p) ==
  /\ routes[p] \in Seq(ReadRoutes(p)) /\ Len(routes[p]) <= MaxRoutes
  /\ started[p] <= Len(routes[p])
  /\ pc[p] = "off" => routes[p] = <<>> /\ idx[p] = 1
  /\ pc[p] = "load" => Len(routes[p]) < idx[p] /\ idx[p] <= Len(Conf(p).lines) + 1
  /\ pc[p] \in {"off", "load"} => started[p] = 0
  /\ pc[p] \in {"start", "bind", "listen", "undo", "undoUnlink"} => idx[p] = started[p] + 1
  /\ pc[p] \in {"bind", "listen", "undo", "undoUnlink"} => idx[p] <= Len(routes[p])
  /\ pc[p] = "loop" => started[p] = Len(routes[p])
  /\ pc[p] = "unlink" => idx[p] <= started[p]
  /\ pc[p] = "undo" => ~IsStream(Here(p))
  /\ pc[p] \in {"unlink", "undoUnlink"} => IsUnix(Here(p))
  /\ pc[p] \in {"off", "load", "start", "bind", "listen", "loop"} => err[p] = "none"

(* ... which sockets it then has ...                                       *)
SockInv(p) ==
  /\ \A k \in Index : k <= started[p] =>
       /\ pc[p] \in {"start", "bind", "listen", "undo", "undoUnlink", "loop"} => sock[p][k] = "listening"
       /\ pc[p] \in {"stop", "join"} /\ ~IsStream(routes[p][k]) => sock[p][k] = "listening"
  /\ \A k \in raw[p] : k <= Len(routes[p]) /\ ~IsStream(routes[p][k])

(* ... and which paths.                                                    *)
PathInv(p) ==
  ~rival[p] /\ OwnPathsDiffer(p) /\ WorkersRun(p) =>
    \A k \in DOMAIN routes[p] :
      IsUnix(routes[p][k]) /\ (k <= started[p] \/ (k = idx[p] /\ pc[p] = "listen"))
        => node[routes[p][k].listen.addr] = SocketOf(p, k)

(* A listener binds to a path that it has cleared; what it then finds      *)
(* there is a rival's.                                                     *)
ClearedInv(p) ==
  /\ pc[p] = "bind" /\ IsUnix(Here(p)) /\ ~rival[p] => node[Here(p).listen.addr] = Nothing
  /\ err[p] = "inuse" /\ IsUnix(routes[p][started[p] + 1]) => rival[p]

(* A listener that waits is less than an interval past its bind_wait.      *)
WaitInv(p) ==
  LET Fits(r) == ~IsUnix(r) /\ SECOND * r.opts.bind_wait < HALF
      InTime(r) == waited[p] < SECOND * r.opts.bind_wait + INTERVAL IN
  /\ pc[p] = "bind" /\ Fits(Here(p)) => InTime(Here(p))
  /\ LET r == routes[p][started[p] + 1] IN
     err[p] = "inuse" /\ Fits(r) => SECOND * r.opts.bind_wait <= waited[p] /\ InTime(r)

(* Route k listens on path a, and it is one that p still has to free, or a *)
(* stream listener that failed after bind ...                              *)
MayHold(p, a, k) ==
  /\ k <= Len(routes[p]) /\ IsUnix(routes[p][k]) /\ routes[p][k].listen.addr = a
  /\ \/ k <= started[p] /\ (pc[p] \in {"free", "unlink"} => idx[p] <= k)
     \/ k = started[p] + 1 /\ pc[p] \in {"listen", "undo", "undoUnlink"}
     \/ k = started[p] + 1 /\ pc[p] \in {"stop", "join", "free", "unlink"} /\ IsStream(routes[p][k])

(* ... when its socket is there.                                           *)
HolderInv(p) == \A a \in AllPaths, k \in Index : node[a] = SocketOf(p, k) => MayHold(p, a, k)

(* What is about to be unlinked is still no file.                          *)
UnlinkInv(p) == pc[p] \in {"unlink", "undoUnlink"} => node[Here(p).listen.addr] # RegularFile

(* A process that has not met a rival has its paths for itself.            *)
RivalInv ==
  \A p, q \in Proc :
    p # q /\ Running(p) /\ Running(q) /\ ~rival[p] => Paths(Conf(p)) \intersect Paths(Conf(q)) = {}

(* The invariant the proofs use.                                           *)
IndInv ==
  /\ TypeOK /\ FileRoutesDistinct /\ NoOrphanFd /\ RivalInv
  /\ \A p \in Proc : PhaseInv(p) /\ SockInv(p) /\ PathInv(p)
  /\ \A p \in Proc : ClearedInv(p) /\ WaitInv(p) /\ HolderInv(p) /\ UnlinkInv(p)
=============================================================================
