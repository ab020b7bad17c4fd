---------------------------- MODULE WorkerQueue ----------------------------
(***************************************************************************)
(* The worker pool: worker.c, worker_pool.c, the accept and datagram       *)
(* dispatch callbacks that feed it, and the life of the pool as main()     *)
(* drives it.  The main thread takes connections and datagrams in, appends *)
(* them to a worker's pending list under pending_mu and writes one byte to *)
(* the worker's notify socket; the worker drains the socket, takes the     *)
(* list, processes it and looks at `stopping`.                             *)
(*                                                                         *)
(* A step is what a thread does between two points at which the others can *)
(* see or change what it uses: a critical section of pending_mu, one       *)
(* send(2), one recv(2), the processing of one message.                    *)
(***************************************************************************)
EXTENDS Integers, Sequences, Functions

CONSTANTS
  N,              \* pool->count
  Streams,        \* client connections that may arrive
  Packets,        \* datagrams that may arrive
  CAP,            \* bytes the notify socket holds before send gives EAGAIN
  BUF,            \* sizeof(buf) in drain_notify_fd
  NotifyMayFail   \* send may fail with something else than EAGAIN

ASSUME WorkerQueueAssumption ==
  /\ N \in Nat \ {0}
  /\ Streams \intersect Packets = {}
  /\ CAP \in Nat \ {0} /\ BUF \in Nat \ {0}
  /\ NotifyMayFail \in BOOLEAN

Worker == 1..N
Item == Streams \union Packets

VARIABLES
  mpc,       \* where the main thread is
  mi,        \* the worker it is dealing with
  next,      \* pool->next % pool->count
  seen,      \* items that have arrived
  released,  \* released[i]: how often i's fd was closed or its data freed
  pending,   \* pending[w]: w->pending_head ... w->pending_tail
  bytes,     \* bytes[w]: unread bytes in w's notify socket
  stopping,  \* w->stopping
  started,   \* w->started
  base,      \* base[w]: w->base and w's sockets: "none", "open", "freed"
  routes,    \* the route contexts are still there
  wpc,       \* where worker w's thread is ("new": no thread)
  taken,     \* taken[w]: the list worker_process_pending is working on
  served     \* served[w]: the messages w has processed, in order

queues == <<pending, taken, served>>
mvars  == <<next, seen, routes>>
wvars  == <<stopping, started, base>>
vars   == <<mpc, mi, mvars, released, queues, bytes, wvars, wpc>>

(* Which values each variable takes.                                       *)
TypeOK ==
  /\ mpc \in {"init", "undoInit", "start", "undoStop", "undoNotify", "undoJoin", "loop",
              "notify", "stop", "stopNotify", "join", "routes", "free", "done"}
  /\ mi \in Worker /\ next \in 0..(N - 1)
  /\ seen \subseteq Item
  /\ released \in [Item -> Nat]
  /\ pending \in [Worker -> Seq(Item)] /\ taken \in [Worker -> Seq(Item)]
  /\ served \in [Worker -> Seq(Item)]
  /\ bytes \in [Worker -> 0..CAP]
  /\ stopping \in [Worker -> BOOLEAN] /\ started \in [Worker -> BOOLEAN]
  /\ base \in [Worker -> {"none", "open", "freed"}]
  /\ routes \in BOOLEAN
  /\ wpc \in [Worker -> {"new", "poll", "drain", "take", "process", "exited"}]

Init ==
  /\ mpc = "init" /\ mi = 1 /\ next = 0
  /\ seen = {} /\ released = [i \in Item |-> 0]
  /\ pending = [w \in Worker |-> <<>>]
  /\ taken = [w \in Worker |-> <<>>]
  /\ served = [w \in Worker |-> <<>>]
  /\ bytes = [w \in Worker |-> 0]
  /\ stopping = [w \in Worker |-> FALSE] /\ started = [w \in Worker |-> FALSE]
  /\ base = [w \in Worker |-> "none"]
  /\ routes = TRUE
  /\ wpc = [w \in Worker |-> "new"]

-----------------------------------------------------------------------------
(* Main's loops over the workers: on to the next one, or to what follows.  *)
Upward(here, after) ==
  IF mi < N THEN mpc' = here /\ mi' = mi + 1 ELSE mpc' = after /\ mi' = 1

Downward(here, after) ==
  IF mi > 1 THEN mpc' = here /\ mi' = mi - 1 ELSE mpc' = after /\ mi' = 1

(* worker_init, called by worker_pool_init; when one fails, the earlier    *)
(* ones are freed and the program ends.                                    *)
WorkerInit ==
  /\ mpc = "init"
  /\ \/ /\ base' = [base EXCEPT ![mi] = "open"]
        /\ Upward("init", "start")
     \/ /\ Downward("undoInit", "done")
        /\ UNCHANGED base
  /\ UNCHANGED <<mvars, released, queues, bytes, stopping, started, wpc>>

(* worker_start, called by worker_pool_start; when a thread cannot be      *)
(* created, the earlier workers are stopped and joined one by one.         *)
WorkerStart ==
  /\ mpc = "start"
  /\ \/ /\ started' = [started EXCEPT ![mi] = TRUE]
        /\ wpc' = [wpc EXCEPT ![mi] = "poll"]
        /\ Upward("start", "loop")
     \/ /\ Downward("undoStop", "free")
        /\ UNCHANGED <<started, wpc>>
  /\ UNCHANGED <<mvars, released, queues, bytes, stopping, base>>

-----------------------------------------------------------------------------
(* worker_pool_next *)
NextWorker == next + 1

AdvanceNext == next' = (next + 1) % N

PushPendingAtHead(w, i) == pending' = [pending EXCEPT ![w] = <<i>> \o @]

(* worker_enqueue_msg's push on the pending list.                          *)
PushPending(w, i) == pending' = [pending EXCEPT ![w] = Append(@, i)]

(* worker_enqueue_stream_client: no memory; or a queue that is stopping,   *)
(* which closes the fd (free_worker_msg) and reports ECANCELED; or the     *)
(* message is on the list and the worker is to be notified.  accept_cb     *)
(* closes the fd upon any error, after ECANCELED for the second time.      *)
WorkerEnqueueStreamClient(w, i) ==
  \/ /\ released' = [released EXCEPT ![i] = @ + 1]
     /\ UNCHANGED <<mpc, mi, pending>>
  \/ IF stopping[w]
     THEN /\ released' = [released EXCEPT ![i] = @ + 2]
          /\ UNCHANGED <<mpc, mi, pending>>
     ELSE /\ PushPending(w, i)
          /\ mpc' = "notify" /\ mi' = w
          /\ UNCHANGED released

(* accept_cb with dispatch_client_fd: the fd goes to the next worker,      *)
(* unless the peer address is invalid.                                     *)
AcceptCb(i) ==
  /\ mpc = "loop" /\ i \in Streams \ seen
  /\ seen' = seen \union {i}
  /\ \/ AdvanceNext /\ WorkerEnqueueStreamClient(NextWorker, i)
     \/ /\ released' = [released EXCEPT ![i] = @ + 1]
        /\ UNCHANGED <<next, mpc, mi, pending>>
  /\ UNCHANGED <<routes, taken, served, bytes, wvars, wpc>>

(* worker_enqueue_datagram_packet: without memory, or with a queue that is *)
(* stopping, the copy of the datagram is dropped once.                     *)
WorkerEnqueueDatagramPacket(w, i) ==
  \/ /\ released' = [released EXCEPT ![i] = @ + 1]
     /\ UNCHANGED <<mpc, mi, pending>>
  \/ /\ ~stopping[w]
     /\ PushPending(w, i)
     /\ mpc' = "notify" /\ mi' = w
     /\ UNCHANGED released

(* listen_read_cb with dispatch_datagram_packet.                           *)
ListenReadCb(i) ==
  /\ mpc = "loop" /\ i \in Packets \ seen
  /\ seen' = seen \union {i}
  /\ AdvanceNext
  /\ WorkerEnqueueDatagramPacket(NextWorker, i)
  /\ UNCHANGED <<routes, taken, served, bytes, wvars, wpc>>

(* event_base_dispatch returns (a signal, an accept error), or a route     *)
(* could not be started; stop_route_listeners: nothing arrives any more.   *)
LoopExit ==
  /\ mpc = "loop"
  /\ mpc' = "stop" /\ mi' = 1
  /\ UNCHANGED <<mvars, released, queues, bytes, wvars, wpc>>

NotifySocketUnlessPending(w) ==
  bytes' = [bytes EXCEPT ![w] = IF pending[w] = <<>> THEN 1 ELSE @]

(* notify_worker: one byte, unless the socket is full; EAGAIN is success,  *)
(* any other failure is logged or ignored.                                 *)
NotifySocket(w) ==
  \/ bytes' = [bytes EXCEPT ![w] = IF @ < CAP THEN @ + 1 ELSE @]
  \/ NotifyMayFail /\ UNCHANGED bytes

(* The notify_worker call at the end of worker_enqueue_msg and of          *)
(* worker_stop.                                                            *)
NotifyWorker ==
  /\ IF mpc = "notify" \/ started[mi] THEN NotifySocket(mi) ELSE UNCHANGED bytes
  /\ \/ mpc = "notify" /\ mpc' = "loop" /\ UNCHANGED mi
     \/ mpc = "stopNotify" /\ Upward("stop", "join")
     \/ mpc = "undoNotify" /\ mpc' = "undoJoin" /\ UNCHANGED mi
  /\ UNCHANGED <<mvars, released, queues, wvars, wpc>>

WorkerStopSilently ==
  /\ mpc \in {"stop", "undoStop"}
  /\ stopping' = [stopping EXCEPT ![mi] = TRUE]
  /\ IF mpc = "stop" THEN Upward("stop", "join") ELSE mpc' = "undoJoin" /\ UNCHANGED mi
  /\ UNCHANGED <<mvars, released, queues, bytes, started, base, wpc>>

(* worker_stop, from worker_pool_stop or from a failed worker_pool_start.  *)
WorkerStop ==
  /\ mpc \in {"stop", "undoStop"}
  /\ stopping' = [stopping EXCEPT ![mi] = TRUE]
  /\ mpc' = IF mpc = "stop" THEN "stopNotify" ELSE "undoNotify"
  /\ UNCHANGED <<mi, mvars, released, queues, bytes, started, base, wpc>>

WorkerJoinNoWait ==
  /\ mpc \in {"join", "undoJoin"}
  /\ started' = [started EXCEPT ![mi] = FALSE]
  /\ IF mpc = "join" THEN Upward("join", "routes") ELSE Downward("undoStop", "free")
  /\ UNCHANGED <<mvars, released, queues, bytes, stopping, base, wpc>>

(* worker_join *)
WorkerJoin ==
  /\ mpc \in {"join", "undoJoin"}
  /\ started[mi] => wpc[mi] = "exited"
  /\ started' = [started EXCEPT ![mi] = FALSE]
  /\ IF mpc = "join" THEN Upward("join", "routes") ELSE Downward("undoStop", "free")
  /\ UNCHANGED <<mvars, released, queues, bytes, stopping, base, wpc>>

(* free_route of every route: clients, listening sockets, contexts.        *)
FreeRoutes ==
  /\ mpc = "routes"
  /\ routes' = FALSE
  /\ mpc' = "free" /\ UNCHANGED mi
  /\ UNCHANGED <<next, seen, released, queues, bytes, wvars, wpc>>

WorkerFreeKeepsMsgs ==
  /\ mpc \in {"free", "undoInit"}
  /\ ~started[mi]
  /\ stopping' = [stopping EXCEPT ![mi] = TRUE]
  /\ base' = [base EXCEPT ![mi] = "freed"]
  /\ IF mpc = "free" THEN Upward("free", "done") ELSE Downward("undoInit", "done")
  /\ UNCHANGED <<mvars, released, pending, bytes, started, taken, served, wpc>>

(* worker_free: no thread is left to stop or to wait for; the messages     *)
(* still pending are released, then the sockets and the event base.        *)
WorkerFree ==
  /\ mpc \in {"free", "undoInit"}
  /\ ~started[mi]
  /\ stopping' = [stopping EXCEPT ![mi] = TRUE]
  /\ released' = [i \in Item |-> released[i] + (IF i \in Range(pending[mi]) THEN 1 ELSE 0)]
  /\ pending' = [pending EXCEPT ![mi] = <<>>]
  /\ base' = [base EXCEPT ![mi] = "freed"]
  /\ IF mpc = "free" THEN Upward("free", "done") ELSE Downward("undoInit", "done")
  /\ UNCHANGED <<mvars, bytes, started, taken, served, wpc>>

-----------------------------------------------------------------------------
(* The loop of worker w finds its notify socket readable: worker_notify_cb *)
WorkerNotifyCb(w) ==
  /\ wpc[w] = "poll" /\ bytes[w] > 0
  /\ wpc' = [wpc EXCEPT ![w] = "drain"]
  /\ UNCHANGED <<mpc, mi, mvars, released, queues, bytes, wvars>>

(* drain_notify_fd, one recv: a full buffer is followed by another recv.   *)
DrainNotifyFd(w) ==
  /\ wpc[w] = "drain"
  /\ LET n == IF bytes[w] < BUF THEN bytes[w] ELSE BUF IN
     /\ bytes' = [bytes EXCEPT ![w] = @ - n]
     /\ wpc' = [wpc EXCEPT ![w] = IF n < BUF THEN "take" ELSE "drain"]
  /\ UNCHANGED <<mpc, mi, mvars, released, queues, wvars>>

(* worker_take_pending *)
WorkerTakePending(w) ==
  /\ wpc[w] = "take"
  /\ taken' = [taken EXCEPT ![w] = pending[w]]
  /\ pending' = [pending EXCEPT ![w] = <<>>]
  /\ wpc' = [wpc EXCEPT ![w] = "process"]
  /\ UNCHANGED <<mpc, mi, mvars, released, served, bytes, wvars>>

WorkerProcessMsgClosing(w) ==
  /\ wpc[w] = "process" /\ taken[w] # <<>>
  /\ taken' = [taken EXCEPT ![w] = Tail(@)]
  /\ served' = [served EXCEPT ![w] = Append(@, Head(taken[w]))]
  /\ released' = [released EXCEPT ![Head(taken[w])] = @ + 1]
  /\ UNCHANGED <<mpc, mi, mvars, pending, bytes, wvars, wpc>>

(* worker_process_msg and free_processed_worker_msg: a client's fd passes  *)
(* to the connection, a datagram's data is freed after it was handled.     *)
WorkerProcessMsg(w) ==
  /\ wpc[w] = "process" /\ taken[w] # <<>>
  /\ LET i == Head(taken[w]) IN
     /\ taken' = [taken EXCEPT ![w] = Tail(@)]
     /\ served' = [served EXCEPT ![w] = Append(@, i)]
     /\ released' = [released EXCEPT ![i] = IF i \in Packets THEN @ + 1 ELSE @]
  /\ UNCHANGED <<mpc, mi, mvars, pending, bytes, wvars, wpc>>

(* The rest of worker_notify_cb: loopbreak ends the loop and the thread.   *)
WorkerCheckStopping(w) ==
  /\ wpc[w] = "process" /\ taken[w] = <<>>
  /\ wpc' = [wpc EXCEPT ![w] = IF stopping[w] THEN "exited" ELSE "poll"]
  /\ UNCHANGED <<mpc, mi, mvars, released, queues, bytes, wvars>>

WorkerThread(w) ==
  \/ WorkerNotifyCb(w)
  \/ DrainNotifyFd(w)
  \/ WorkerTakePending(w)
  \/ WorkerProcessMsg(w)
  \/ WorkerCheckStopping(w)

MainThread ==
  \/ WorkerInit
  \/ WorkerStart
  \/ \E i \in Item : AcceptCb(i) \/ ListenReadCb(i)
  \/ LoopExit
  \/ NotifyWorker
  \/ WorkerStop
  \/ WorkerJoin
  \/ FreeRoutes
  \/ WorkerFree

Terminated == mpc = "done" /\ UNCHANGED vars

Next == MainThread \/ (\E w \in Worker : WorkerThread(w)) \/ Terminated

Spec == Init /\ [][Next]_vars

(* Threads keep running.  The main thread may sit in its event loop for    *)
(* ever: no arrival and no signal is owed to it.                           *)
Fairness ==
  /\ WF_vars(MainThread /\ mpc # "loop")
  /\ \A w \in Worker : WF_vars(WorkerThread(w))

FairSpec == Spec /\ Fairness

-----------------------------------------------------------------------------
Running(w) == wpc[w] \notin {"new", "exited"}

(* No lost wakeup: a worker that sleeps, or will not look at its list      *)
(* again before it polls, has an unread byte if its list is not empty or   *)
(* if it is told to stop, unless the byte is just about to be sent.        *)
NoLostWakeup ==
  ~NotifyMayFail =>
    \A w \in Worker :
      /\ wpc[w] \in {"poll", "process"} /\ pending[w] # <<>>
           => bytes[w] > 0 \/ (mpc = "notify" /\ mi = w)
      /\ wpc[w] = "poll" /\ stopping[w]
           => bytes[w] > 0 \/ (mpc \in {"stopNotify", "undoNotify"} /\ mi = w)

Lists == {"served", "taken", "pending"}

ListOf(l, w) == IF l = "served" THEN served[w] ELSE IF l = "taken" THEN taken[w] ELSE pending[w]

(* Every fd and every datagram has one owner: it is in one list once, it   *)
(* is closed or freed at most once, and not while it is in a list, but for *)
(* a datagram that was handled; a client's fd that a connection has taken  *)
(* over is the connection's to close.                                      *)
OneOwner ==
  /\ \A l, m \in Lists, v, w \in Worker :
       \A j \in DOMAIN ListOf(l, v), k \in DOMAIN ListOf(m, w) :
         ListOf(l, v)[j] = ListOf(m, w)[k] => l = m /\ v = w /\ j = k
  /\ \A i \in Item : released[i] <= 1
  /\ \A l \in Lists, w \in Worker : \A k \in DOMAIN ListOf(l, w) :
       released[ListOf(l, w)[k]] = IF l = "served" /\ ListOf(l, w)[k] \in Packets THEN 1 ELSE 0

(* Nothing is freed under a running thread: while a worker runs, its event *)
(* base and the routes its messages point to exist; worker_free finds each *)
(* base still there.                                                       *)
FreedAfterUse ==
  /\ \A w \in Worker : Running(w) => base[w] = "open" /\ routes
  /\ mpc \in {"free", "undoInit"} => base[mi] = "open"

(* Whatever the way out of main (a normal shutdown or a failed start), no  *)
(* worker is left behind, and every item that came in was either handed    *)
(* over or released.                                                       *)
AllAccountedFor ==
  mpc = "done" =>
    /\ \A w \in Worker : ~Running(w) /\ base[w] # "open"
    /\ \A i \in seen : released[i] = 1 \/ \E w \in Worker : i \in Range(served[w])

(* A shutdown, once begun, comes to its end: every thread is woken, leaves *)
(* its loop and is joined.                                                 *)
ShutdownCompletes == mpc = "stop" ~> mpc = "done"

(* Main never waits in pthread_join for a thread that sleeps: the worker   *)
(* was told to stop, and what is to wake it is there.                      *)
JoinsNoSleeper ==
  ~NotifyMayFail /\ mpc \in {"join", "undoJoin"} /\ started[mi] =>
    stopping[mi] /\ (wpc[mi] = "poll" => bytes[mi] > 0)

Ending == {"undoInit", "undoStop", "undoNotify", "undoJoin", "stop", "stopNotify", "join",
           "routes", "free", "done"}

(* How many steps main is from its end, at most ...                        *)
MainLeft ==
  LET round == 2 * N + 2 IN
  CASE mpc = "stop"       -> 4 * round + 2 * (N - mi) + 1
    [] mpc = "stopNotify" -> 4 * round + 2 * (N - mi)
    [] mpc = "join"       -> 3 * round + N - mi
    [] mpc = "undoStop"   -> 2 * round + 3 * mi + 2
    [] mpc = "undoNotify" -> 2 * round + 3 * mi + 1
    [] mpc = "undoJoin"   -> 2 * round + 3 * mi
    [] mpc = "routes"     -> 2 * round
    [] mpc = "free"       -> round + N - mi
    [] mpc = "undoInit"   -> mi
    [] OTHER              -> 0

(* ... and a worker's thread from its next sleep, with what it has to do.  *)
WorkerLeft(w) ==
  5 * bytes[w] + 2 * Len(pending[w]) + Len(taken[w]) +
  (CASE wpc[w] = "drain"   -> IF bytes[w] > 0 THEN -1 ELSE 3
     [] wpc[w] = "take"    -> 2
     [] wpc[w] = "process" -> 1
     [] OTHER              -> 0)

MainAdvances == MainLeft' < MainLeft

WorkerAdvances(w) ==
  /\ MainLeft' = MainLeft
  /\ WorkerLeft(w)' < WorkerLeft(w)
  /\ \A v \in Worker \ {w} : WorkerLeft(v)' = WorkerLeft(v)

WorkerOnly == \A w \in Worker : WorkerThread(w) => WorkerAdvances(w)

(* No worker spins: whatever it finds in its socket and its list, each of  *)
(* its steps brings it closer to its next sleep, and only main can give it *)
(* more to do.                                                             *)
NoWorkerSpins == [][WorkerOnly]_vars

TowardsEnd ==
  mpc \in Ending => mpc' \in Ending /\ (MainAdvances \/ \E w \in Worker : WorkerAdvances(w))

(* Once main is on its way out, every step of any thread leads there: main *)
(* comes closer to its end, or a worker to its sleep while all the others  *)
(* stay where they are.  No thread spins or undoes what another has done.  *)
ShutdownAdvances == [][TowardsEnd]_vars

-----------------------------------------------------------------------------
(* Which threads main still has to join, in each of its phases ...         *)
StartedInv ==
  \A w \in Worker :
    /\ mpc \in {"init", "undoInit", "routes", "free", "done"} => ~started[w]
    /\ mpc \in {"loop", "notify", "stop", "stopNotify"} => started[w]
    /\ mpc = "start" => (started[w] <=> w < mi)
    /\ mpc = "join" => (started[w] <=> w >= mi)
    /\ mpc \in {"undoStop", "undoNotify", "undoJoin"} => (started[w] <=> w <= mi)

(* ... which it has told to stop ...                                       *)
StoppingInv ==
  \A w \in Worker :
    /\ mpc \in {"init", "start", "loop", "notify"} => ~stopping[w]
    /\ mpc = "stop" => (stopping[w] <=> w < mi)
    /\ mpc = "stopNotify" => (stopping[w] <=> w <= mi)
    /\ mpc = "undoStop" /\ stopping[w] => w > mi
    /\ mpc \in {"undoNotify", "undoJoin"} => (stopping[w] => w >= mi) /\ (w = mi => stopping[w])
    /\ mpc = "join" => stopping[w]

(* ... and which event bases exist.                                        *)
BaseInv ==
  /\ ~routes => mpc \in {"free", "done"}
  /\ mpc = "routes" => mi = 1
  /\ \A w \in Worker :
       /\ mpc = "init" => (base[w] = "open" <=> w < mi)
       /\ mpc = "undoInit" => (base[w] = "open" <=> w <= mi)
       /\ mpc = "free" => (base[w] = "open" <=> w >= mi)
       /\ mpc = "done" => base[w] # "open"
       /\ mpc \notin {"init", "undoInit", "free", "done"} => base[w] = "open"

(* A thread is running from its start to the loopbreak that `stopping`     *)
(* causes, and main does not forget one that runs.                         *)
ThreadInv ==
  \A w \in Worker :
    /\ ~started[w] => ~Running(w)
    /\ started[w] => wpc[w] # "new"
    /\ wpc[w] = "new" => pending[w] = <<>>
    /\ mpc \in {"init", "start"} /\ ~started[w] => wpc[w] = "new"

PoolInv == StartedInv /\ StoppingInv /\ BaseInv /\ ThreadInv

(* An item is in a list or released from its arrival on, and neither       *)
(* before ...                                                              *)
ArrivalInv ==
  /\ \A i \in Item \ seen : released[i] = 0
  /\ \A l \in Lists, w \in Worker : \A k \in DOMAIN ListOf(l, w) : ListOf(l, w)[k] \in seen
  /\ \A i \in seen : \/ released[i] = 1
                     \/ \E l \in Lists, w \in Worker : \E k \in DOMAIN ListOf(l, w) : ListOf(l, w)[k] = i

(* ... and nothing is pending or taken in the phases that would forget it. *)
EmptyInv ==
  \A w \in Worker :
    /\ wpc[w] # "process" => taken[w] = <<>>
    /\ mpc \notin {"loop", "notify", "stop", "stopNotify", "join", "routes", "free"} => pending[w] = <<>>
    /\ mpc = "free" /\ w < mi => pending[w] = <<>>

OwnInv == OneOwner /\ ArrivalInv /\ EmptyInv
=============================================================================
