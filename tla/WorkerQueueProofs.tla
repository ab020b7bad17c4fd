------------------------ MODULE WorkerQueueProofs ------------------------
(***************************************************************************)
(* Proofs about WorkerQueue, for every number of workers, of items, and    *)
(* every size of the notify socket and of the drain buffer; the last part  *)
(* is the safety part of the refinement: each step of the worker pool is a *)
(* step of Handoff or changes nothing that Handoff sees.                   *)
(***************************************************************************)
EXTENDS WorkerQueueRefinement, SequenceTheorems, TLAPS

(* The pool starts in its first phase, with nothing allocated.             *)
LEMMA InitPool == Init => TypeOK /\ PoolInv /\ NoLostWakeup
<1>. SUFFICES ASSUME Init PROVE TypeOK /\ PoolInv /\ NoLostWakeup
  OBVIOUS
<1>. USE WorkerQueueAssumption DEF Init, Worker, Item
<1>1. TypeOK
  BY DEF TypeOK
<1>2. PoolInv
  BY DEF PoolInv, StartedInv, StoppingInv, BaseInv, ThreadInv, Running
<1>3. NoLostWakeup
  BY Zenon DEF NoLostWakeup
<1>. QED  BY <1>1, <1>2, <1>3, Zenon

(* main's loops over the workers stay within the pool.                     *)
LEMMA UpwardType ==
  ASSUME NEW here, NEW after, mi \in Worker, Upward(here, after)
  PROVE  mi' \in Worker /\ mpc' \in {here, after}
  BY WorkerQueueAssumption DEF Upward, Worker

(* The same of the loops that undo a failed start, last worker first.      *)
LEMMA DownwardType ==
  ASSUME NEW here, NEW after, mi \in Worker, Downward(here, after)
  PROVE  mi' \in Worker /\ mpc' \in {here, after}
  BY WorkerQueueAssumption DEF Downward, Worker

(* Every step of every thread keeps the types.                             *)
LEMMA NextTypeOK == TypeOK /\ [Next]_vars => TypeOK'
<1>. SUFFICES ASSUME TypeOK, [Next]_vars PROVE TypeOK'
  OBVIOUS
<1>. USE WorkerQueueAssumption DEF TypeOK, queues, mvars, wvars
<1>1. CASE WorkerInit
  BY <1>1, UpwardType, DownwardType, Zenon DEF WorkerInit
<1>2. CASE WorkerStart
  BY <1>2, UpwardType, DownwardType, Zenon DEF WorkerStart
<1>3. ASSUME NEW i \in Item, AcceptCb(i) PROVE TypeOK'
  <2>1. NextWorker \in Worker
    BY DEF NextWorker, Worker
  <2>2. next' \in 0..(N - 1)
    BY <1>3 DEF AcceptCb, WorkerEnqueueStreamClient, AdvanceNext
  <2>3. Append(pending[NextWorker], i) \in Seq(Item)
    BY <2>1
  <2>4. pending' \in [Worker -> Seq(Item)]
    BY <1>3, <2>3, Zenon DEF AcceptCb, WorkerEnqueueStreamClient, PushPending
  <2>5. released' \in [Item -> Nat] /\ seen' \subseteq Item
    <3>1. released[i] + 1 \in Nat /\ released[i] + 2 \in Nat
      BY <1>3
    <3>2. \E r \in Nat : released' = [released EXCEPT ![i] = r]
      BY <1>3, <3>1 DEF AcceptCb, WorkerEnqueueStreamClient
    <3>3. seen' \subseteq Item
      BY <1>3, Zenon DEF AcceptCb, WorkerEnqueueStreamClient
    <3>. QED  BY <3>2, <3>3, Zenon
  <2>6. mpc' \in {"loop", "notify"} /\ mi' \in Worker
    BY <1>3, <2>1, Zenon DEF AcceptCb, WorkerEnqueueStreamClient
  <2>. QED  BY <1>3, <2>2, <2>4, <2>5, <2>6, Zenon DEF AcceptCb, WorkerEnqueueStreamClient
<1>4. ASSUME NEW i \in Item, ListenReadCb(i) PROVE TypeOK'
  <2>1. NextWorker \in Worker
    BY DEF NextWorker, Worker
  <2>2. next' \in 0..(N - 1)
    BY <1>4 DEF ListenReadCb, WorkerEnqueueDatagramPacket, AdvanceNext
  <2>3. Append(pending[NextWorker], i) \in Seq(Item)
    BY <2>1
  <2>4. pending' \in [Worker -> Seq(Item)]
    BY <1>4, <2>3, Zenon DEF ListenReadCb, WorkerEnqueueDatagramPacket, PushPending
  <2>5. released' \in [Item -> Nat] /\ seen' \subseteq Item
    <3>1. released[i] + 1 \in Nat /\ released[i] + 2 \in Nat
      BY <1>4
    <3>2. \E r \in Nat : released' = [released EXCEPT ![i] = r]
      BY <1>4, <3>1 DEF ListenReadCb, WorkerEnqueueDatagramPacket
    <3>3. seen' \subseteq Item
      BY <1>4, Zenon DEF ListenReadCb, WorkerEnqueueDatagramPacket
    <3>. QED  BY <3>2, <3>3
  <2>6. mpc' \in {"loop", "notify"} /\ mi' \in Worker
    BY <1>4, <2>1, Zenon DEF ListenReadCb, WorkerEnqueueDatagramPacket
  <2>. QED  BY <1>4, <2>2, <2>4, <2>5, <2>6, Zenon DEF ListenReadCb, WorkerEnqueueDatagramPacket
<1>5. CASE LoopExit
  BY <1>5 DEF LoopExit, Worker
<1>6. CASE NotifyWorker
  <2>1. bytes' \in [Worker -> 0..CAP]
    <3>1. bytes[mi] \in 0..CAP
      OBVIOUS
    <3>2. bytes' = bytes \/ bytes' = [bytes EXCEPT ![mi] = IF bytes[mi] < CAP THEN bytes[mi] + 1
                                                                          ELSE bytes[mi]]
      BY <1>6, Zenon DEF NotifyWorker, NotifySocket
    <3>3. \E b \in 0..CAP : bytes' = [bytes EXCEPT ![mi] = b]
      BY <3>1, <3>2
    <3>. QED  BY <3>3, Zenon
  <2>2. mi' \in Worker /\ mpc' \in {"loop", "stop", "join", "undoJoin"}
    BY <1>6, UpwardType, Zenon DEF NotifyWorker
  <2>. QED  BY <1>6, <2>1, <2>2, Zenon DEF NotifyWorker
<1>7. CASE WorkerStop
  BY <1>7, Zenon DEF WorkerStop
<1>8. CASE WorkerJoin
  <2>1. mi' \in Worker /\ mpc' \in {"join", "routes", "undoStop", "free"}
    BY <1>8, UpwardType, DownwardType, Zenon DEF WorkerJoin
  <2>. QED  BY <1>8, <2>1, Zenon DEF WorkerJoin
<1>9. CASE FreeRoutes
  BY <1>9, Zenon DEF FreeRoutes
<1>10. CASE WorkerFree
  <2>1. mi' \in Worker /\ mpc' \in {"free", "undoInit", "done"}
    BY <1>10, UpwardType, DownwardType, Zenon DEF WorkerFree
  <2>2. released' \in [Item -> Nat]
    BY <1>10 DEF WorkerFree
  <2>3. pending' \in [Worker -> Seq(Item)]
    BY <1>10 DEF WorkerFree
  <2>. QED  BY <1>10, <2>1, <2>2, <2>3, Zenon DEF WorkerFree
<1>11. ASSUME NEW w \in Worker, WorkerNotifyCb(w) PROVE TypeOK'
  BY <1>11, Zenon DEF WorkerNotifyCb
<1>12. ASSUME NEW w \in Worker, DrainNotifyFd(w) PROVE TypeOK'
  <2>. DEFINE n == IF bytes[w] < BUF THEN bytes[w] ELSE BUF
  <2>1. bytes[w] - n \in 0..CAP
    BY <1>12
  <2>. HIDE DEF n
  <2>2. bytes' = [bytes EXCEPT ![w] = bytes[w] - n]
    BY <1>12, Zenon DEF DrainNotifyFd, n
  <2>3. bytes' \in [Worker -> 0..CAP]
    BY <1>12, <2>1, <2>2, Zenon
  <2>4. wpc' \in [Worker -> {"new", "poll", "drain", "take", "process", "exited"}]
    BY <1>12, Zenon DEF DrainNotifyFd
  <2>. QED  BY <1>12, <2>3, <2>4, Zenon DEF DrainNotifyFd
<1>13. ASSUME NEW w \in Worker, WorkerTakePending(w) PROVE TypeOK'
  BY <1>13 DEF WorkerTakePending
<1>14. ASSUME NEW w \in Worker, WorkerProcessMsg(w) PROVE TypeOK'
  <2>. DEFINE i == Head(taken[w])
  <2>1. i \in Item /\ Tail(taken[w]) \in Seq(Item) /\ Append(served[w], i) \in Seq(Item)
    BY <1>14 DEF WorkerProcessMsg
  <2>2. /\ taken' = [taken EXCEPT ![w] = Tail(taken[w])]
        /\ served' = [served EXCEPT ![w] = Append(served[w], i)]
        /\ released' = [released EXCEPT ![i] = IF i \in Packets THEN released[i] + 1
                                                               ELSE released[i]]
        /\ UNCHANGED <<mpc, mi, mvars, pending, bytes, wvars, wpc>>
    BY <1>14, Zenon DEF WorkerProcessMsg
  <2>. HIDE DEF i
  <2>3. released' \in [Item -> Nat]
    <3>1. released[i] \in Nat /\ released[i] + 1 \in Nat
      BY <2>1
    <3>2. CASE i \in Packets
      BY <2>2, <3>1, <3>2, Zenon
    <3>3. CASE i \notin Packets
      BY <2>2, <3>1, <3>3, Zenon
    <3>. QED  BY <3>2, <3>3, Zenon
  <2>4. taken' \in [Worker -> Seq(Item)] /\ served' \in [Worker -> Seq(Item)]
    BY <2>1, <2>2, Zenon
  <2>. QED  BY <2>2, <2>3, <2>4, Zenon
<1>15. ASSUME NEW w \in Worker, WorkerCheckStopping(w) PROVE TypeOK'
  BY <1>15, Zenon DEF WorkerCheckStopping
<1>16. CASE UNCHANGED vars
  BY <1>16, Zenon DEF vars
<1>. QED
  BY <1>1, <1>2, <1>3, <1>4, <1>5, <1>6, <1>7, <1>8, <1>9, <1>10, <1>11, <1>12,
     <1>13, <1>14, <1>15, <1>16, Zenon DEF Next, MainThread, WorkerThread, Terminated

-----------------------------------------------------------------------------
(* The part of the type invariant the proofs about phases need.            *)
PoolTypes ==
  /\ mi \in 1..N
  /\ started \in [1..N -> BOOLEAN] /\ stopping \in [1..N -> BOOLEAN]
  /\ base \in [1..N -> {"none", "open", "freed"}]
  /\ wpc \in [1..N -> {"new", "poll", "drain", "take", "process", "exited"}]
  /\ pending \in [1..N -> Seq(Item)]

(* Every step of every thread keeps track of the threads to join ...      *)
LEMMA NextStartedInv == TypeOK /\ PoolInv /\ [Next]_vars => StartedInv'
<1>. SUFFICES ASSUME TypeOK, PoolInv, [Next]_vars PROVE StartedInv'
  OBVIOUS
<1>0. PoolTypes
  BY Zenon DEF TypeOK, PoolTypes, Worker
<1>. USE <1>0, WorkerQueueAssumption
     DEF PoolTypes, PoolInv, StartedInv, Worker, queues, mvars, wvars
<1>1. CASE WorkerInit
  BY <1>1 DEF WorkerInit, Upward, Downward
<1>2. CASE WorkerStart
  <2>1. CASE started' = [started EXCEPT ![mi] = TRUE] /\ Upward("start", "loop")
    BY <1>2, <2>1 DEF WorkerStart, Upward
  <2>2. CASE Downward("undoStop", "free") /\ UNCHANGED started
    BY <1>2, <2>2 DEF WorkerStart, Downward
  <2>. QED  BY <1>2, <2>1, <2>2, Zenon DEF WorkerStart
<1>3. CASE LoopExit
  BY <1>3, Zenon DEF LoopExit
<1>4. CASE NotifyWorker
  BY <1>4 DEF NotifyWorker, Upward
<1>5. CASE WorkerStop
  BY <1>5, Zenon DEF WorkerStop
<1>6. CASE WorkerJoin
  <2>1. started' = [started EXCEPT ![mi] = FALSE]
    BY <1>6, Zenon DEF WorkerJoin
  <2>2. CASE mpc = "join" /\ Upward("join", "routes")
    BY <2>1, <2>2 DEF Upward
  <2>3. CASE mpc = "undoJoin" /\ Downward("undoStop", "free")
    BY <2>1, <2>3 DEF Downward
  <2>. QED  BY <1>6, <2>2, <2>3, Zenon DEF WorkerJoin
<1>7. CASE FreeRoutes
  BY <1>7, Zenon DEF FreeRoutes
<1>8. CASE WorkerFree
  BY <1>8, Zenon DEF WorkerFree, Upward, Downward
<1>9. ASSUME NEW i \in Item, AcceptCb(i) \/ ListenReadCb(i) PROVE StartedInv'
  BY <1>9, Zenon DEF AcceptCb, WorkerEnqueueStreamClient, ListenReadCb,
              WorkerEnqueueDatagramPacket, PushPending, NextWorker
<1>10. ASSUME NEW w \in Worker, WorkerThread(w) PROVE StartedInv'
  <2>1. UNCHANGED <<mpc, mi, routes, started, stopping, base>>
    BY <1>10, Zenon DEF WorkerThread, WorkerNotifyCb, DrainNotifyFd, WorkerTakePending,
                  WorkerProcessMsg, WorkerCheckStopping
  <2>. QED  BY <2>1, Zenon
<1>11. CASE UNCHANGED vars
  BY <1>11, Zenon DEF vars
<1>. QED
  BY <1>1, <1>2, <1>3, <1>4, <1>5, <1>6, <1>7, <1>8, <1>9, <1>10, <1>11, Zenon
  DEF Next, MainThread, Terminated

(* ... of the threads told to stop ...                                     *)
LEMMA NextStoppingInv == TypeOK /\ PoolInv /\ [Next]_vars => StoppingInv'
<1>. SUFFICES ASSUME TypeOK, PoolInv, [Next]_vars PROVE StoppingInv'
  OBVIOUS
<1>0. PoolTypes
  BY DEF TypeOK, PoolTypes, Worker
<1>. USE <1>0, WorkerQueueAssumption
     DEF PoolTypes, PoolInv, StoppingInv, Worker, queues, mvars, wvars
<1>1. CASE WorkerInit
  BY <1>1, Zenon DEF WorkerInit, Upward, Downward
<1>2. CASE WorkerStart
  BY <1>2, Zenon DEF WorkerStart, Upward, Downward
<1>3. CASE LoopExit
  BY <1>3 DEF LoopExit
<1>4. CASE NotifyWorker
  BY <1>4 DEF NotifyWorker, Upward
<1>5. CASE WorkerStop
  BY <1>5 DEF WorkerStop
<1>6. CASE WorkerJoin
  BY <1>6 DEF WorkerJoin, Upward, Downward
<1>7. CASE FreeRoutes
  BY <1>7, Zenon DEF FreeRoutes
<1>8. CASE WorkerFree
  BY <1>8, Zenon DEF WorkerFree, Upward, Downward
<1>9. ASSUME NEW i \in Item, AcceptCb(i) \/ ListenReadCb(i) PROVE StoppingInv'
  BY <1>9, Zenon DEF AcceptCb, WorkerEnqueueStreamClient, ListenReadCb,
              WorkerEnqueueDatagramPacket, PushPending, NextWorker
<1>10. ASSUME NEW w \in Worker, WorkerThread(w) PROVE StoppingInv'
  <2>1. UNCHANGED <<mpc, mi, routes, started, stopping, base>>
    BY <1>10, Zenon DEF WorkerThread, WorkerNotifyCb, DrainNotifyFd, WorkerTakePending,
                  WorkerProcessMsg, WorkerCheckStopping
  <2>. QED  BY <2>1, Zenon
<1>11. CASE UNCHANGED vars
  BY <1>11, Zenon DEF vars
<1>. QED
  BY <1>1, <1>2, <1>3, <1>4, <1>5, <1>6, <1>7, <1>8, <1>9, <1>10, <1>11, Zenon
  DEF Next, MainThread, Terminated

(* ... of the event bases and routes that exist ...                        *)
LEMMA NextBaseInv == TypeOK /\ PoolInv /\ [Next]_vars => BaseInv'
<1>. SUFFICES ASSUME TypeOK, PoolInv, [Next]_vars PROVE BaseInv'
  OBVIOUS
<1>0. PoolTypes
  BY DEF TypeOK, PoolTypes, Worker
<1>. USE <1>0, WorkerQueueAssumption
     DEF PoolTypes, PoolInv, BaseInv, Worker, queues, mvars, wvars
<1>1. CASE WorkerInit
  BY <1>1 DEF WorkerInit, Upward, Downward
<1>2. CASE WorkerStart
  BY <1>2 DEF WorkerStart, Upward, Downward
<1>3. CASE LoopExit
  BY <1>3, Zenon DEF LoopExit
<1>4. CASE NotifyWorker
  BY <1>4, Zenon DEF NotifyWorker, Upward
<1>5. CASE WorkerStop
  BY <1>5, Zenon DEF WorkerStop
<1>6. CASE WorkerJoin
  BY <1>6 DEF WorkerJoin, Upward, Downward
<1>7. CASE FreeRoutes
  BY <1>7 DEF FreeRoutes
<1>8. CASE WorkerFree
  BY <1>8 DEF WorkerFree, Upward, Downward
<1>9. ASSUME NEW i \in Item, AcceptCb(i) \/ ListenReadCb(i) PROVE BaseInv'
  BY <1>9, Zenon DEF AcceptCb, WorkerEnqueueStreamClient, ListenReadCb,
              WorkerEnqueueDatagramPacket, PushPending, NextWorker
<1>10. ASSUME NEW w \in Worker, WorkerThread(w) PROVE BaseInv'
  <2>1. UNCHANGED <<mpc, mi, routes, started, stopping, base>>
    BY <1>10, Zenon DEF WorkerThread, WorkerNotifyCb, DrainNotifyFd, WorkerTakePending,
                  WorkerProcessMsg, WorkerCheckStopping
  <2>. QED  BY <2>1, Zenon
<1>11. CASE UNCHANGED vars
  BY <1>11, Zenon DEF vars
<1>. QED
  BY <1>1, <1>2, <1>3, <1>4, <1>5, <1>6, <1>7, <1>8, <1>9, <1>10, <1>11, Zenon
  DEF Next, MainThread, Terminated

(* ... and of the threads that run.                                        *)
LEMMA NextThreadInv == TypeOK /\ PoolInv /\ [Next]_vars => ThreadInv'
<1>. SUFFICES ASSUME TypeOK, PoolInv, [Next]_vars PROVE ThreadInv'
  OBVIOUS
<1>0. PoolTypes
  BY DEF TypeOK, PoolTypes, Worker
<1>. USE <1>0, WorkerQueueAssumption
     DEF PoolTypes, PoolInv, ThreadInv, Running, StartedInv, Worker, queues, mvars, wvars
<1>1. CASE WorkerInit
  BY <1>1, Zenon DEF WorkerInit, Upward, Downward
<1>2. CASE WorkerStart
  <2>1. CASE /\ started' = [started EXCEPT ![mi] = TRUE]
             /\ wpc' = [wpc EXCEPT ![mi] = "poll"]
    <3>1. mpc = "start" /\ pending' = pending
      BY <1>2, Zenon DEF WorkerStart
    <3>. QED  BY <2>1, <3>1, Zenon
  <2>2. CASE UNCHANGED <<started, wpc>>
    <3>1. mpc = "start" /\ pending' = pending
      BY <1>2 DEF WorkerStart
    <3>. QED  BY <2>2, <3>1, Zenon
  <2>. QED  BY <1>2, <2>1, <2>2, Zenon DEF WorkerStart
<1>3. CASE LoopExit
  BY <1>3, Zenon DEF LoopExit
<1>4. CASE NotifyWorker
  BY <1>4, Zenon DEF NotifyWorker, Upward
<1>5. CASE WorkerStop
  BY <1>5, Zenon DEF WorkerStop
<1>6. CASE WorkerJoin
  BY <1>6, Zenon DEF WorkerJoin, Upward, Downward
<1>7. CASE FreeRoutes
  BY <1>7, Zenon DEF FreeRoutes
<1>8. CASE WorkerFree
  BY <1>8, Zenon DEF WorkerFree, Upward, Downward
<1>9. ASSUME NEW i \in Item, AcceptCb(i) \/ ListenReadCb(i) PROVE ThreadInv'
  BY <1>9, Zenon DEF AcceptCb, WorkerEnqueueStreamClient, ListenReadCb,
              WorkerEnqueueDatagramPacket, PushPending, NextWorker
<1>10. ASSUME NEW w \in Worker, WorkerThread(w) PROVE ThreadInv'
  <2>1. CASE WorkerNotifyCb(w)
    BY <2>1, Zenon DEF WorkerNotifyCb
  <2>2. CASE DrainNotifyFd(w)
    BY <2>2, Zenon DEF DrainNotifyFd
  <2>3. CASE WorkerTakePending(w)
    BY <2>3, Zenon DEF WorkerTakePending
  <2>4. CASE WorkerProcessMsg(w)
    BY <2>4, Zenon DEF WorkerProcessMsg
  <2>5. CASE WorkerCheckStopping(w)
    BY <2>5, Zenon DEF WorkerCheckStopping
  <2>. QED  BY <1>10, <2>1, <2>2, <2>3, <2>4, <2>5, Zenon DEF WorkerThread
<1>11. CASE UNCHANGED vars
  BY <1>11, Zenon DEF vars
<1>. QED
  BY <1>1, <1>2, <1>3, <1>4, <1>5, <1>6, <1>7, <1>8, <1>9, <1>10, <1>11, Zenon
  DEF Next, MainThread, Terminated

(* No step loses a wakeup.                                                 *)
LEMMA NextNoLostWakeup ==
  TypeOK /\ PoolInv /\ NoLostWakeup /\ [Next]_vars => NoLostWakeup'
<1>. SUFFICES ASSUME TypeOK, PoolInv, NoLostWakeup, [Next]_vars, ~NotifyMayFail
              PROVE  NoLostWakeup'
  BY Zenon DEF NoLostWakeup
<1>. USE WorkerQueueAssumption
     DEF TypeOK, NoLostWakeup, queues, mvars, wvars, Worker
<1>1. CASE WorkerInit
  BY <1>1, Zenon DEF WorkerInit
<1>2. CASE WorkerStart
  <2>1. wpc[mi] = "new" /\ pending[mi] = <<>> /\ ~stopping[mi]
    <3>1. mpc = "start" /\ mi \in Worker
      BY <1>2, Zenon DEF WorkerStart
    <3>2. ~started[mi]
      BY <3>1 DEF PoolInv, StartedInv
    <3>3. wpc[mi] = "new"
      BY <3>1, <3>2, Zenon DEF PoolInv, ThreadInv
    <3>. QED  BY <3>1, <3>3, Zenon DEF PoolInv, ThreadInv, StoppingInv
  <2>2. UNCHANGED <<pending, bytes, stopping>> /\ mpc = "start"
    BY <1>2, Zenon DEF WorkerStart
  <2>3. \A w \in Worker : w # mi => wpc'[w] = wpc[w]
    BY <1>2, Zenon DEF WorkerStart
  <2>. QED  BY <2>1, <2>2, <2>3, Zenon
<1>3. ASSUME NEW i \in Item, AcceptCb(i) PROVE NoLostWakeup'
  BY <1>3, Zenon DEF AcceptCb, WorkerEnqueueStreamClient, PushPending, NextWorker
<1>4. ASSUME NEW i \in Item, ListenReadCb(i) PROVE NoLostWakeup'
  BY <1>4, Zenon DEF ListenReadCb, WorkerEnqueueDatagramPacket, PushPending, NextWorker
<1>5. CASE LoopExit
  BY <1>5, Zenon DEF LoopExit
<1>6. CASE NotifyWorker
  <2>1. started[mi]
    BY <1>6 DEF NotifyWorker, PoolInv, StartedInv
  <2>2. bytes' = [bytes EXCEPT ![mi] = IF @ < CAP THEN @ + 1 ELSE @]
    BY <1>6, <2>1, Zenon DEF NotifyWorker, NotifySocket
  <2>3. bytes'[mi] > 0 /\ \A w \in Worker : w # mi => bytes'[w] = bytes[w]
    BY <2>2, SMTT(30)
  <2>. QED  BY <1>6, <2>3, Zenon DEF NotifyWorker
<1>7. CASE WorkerStop
  BY <1>7, Zenon DEF WorkerStop
<1>8. CASE WorkerJoin
  BY <1>8, Zenon DEF WorkerJoin
<1>9. CASE FreeRoutes
  BY <1>9, Zenon DEF FreeRoutes
<1>10. CASE WorkerFree
  BY <1>10, Zenon DEF WorkerFree, PoolInv, ThreadInv, Running
<1>11. ASSUME NEW w \in Worker, WorkerNotifyCb(w) PROVE NoLostWakeup'
  BY <1>11, Zenon DEF WorkerNotifyCb
<1>12. ASSUME NEW w \in Worker, DrainNotifyFd(w) PROVE NoLostWakeup'
  BY <1>12, Zenon DEF DrainNotifyFd
<1>13. ASSUME NEW w \in Worker, WorkerTakePending(w) PROVE NoLostWakeup'
  BY <1>13, Zenon DEF WorkerTakePending
<1>14. ASSUME NEW w \in Worker, WorkerProcessMsg(w) PROVE NoLostWakeup'
  BY <1>14, Zenon DEF WorkerProcessMsg
<1>15. ASSUME NEW w \in Worker, WorkerCheckStopping(w) PROVE NoLostWakeup'
  BY <1>15, Zenon DEF WorkerCheckStopping
<1>16. CASE UNCHANGED vars
  BY <1>16, Zenon DEF vars
<1>. QED
  BY <1>1, <1>2, <1>3, <1>4, <1>5, <1>6, <1>7, <1>8, <1>9, <1>10, <1>11, <1>12,
     <1>13, <1>14, <1>15, <1>16, Zenon DEF Next, MainThread, WorkerThread, Terminated

-----------------------------------------------------------------------------
(* Types, phases and wakeups together are inductive.                       *)
THEOREM PoolInvariant == Spec => [](TypeOK /\ PoolInv /\ NoLostWakeup)
<1>1. TypeOK /\ PoolInv /\ [Next]_vars => PoolInv'
  BY NextStartedInv, NextStoppingInv, NextBaseInv, NextThreadInv, Zenon DEF PoolInv
<1>. QED  BY <1>1, InitPool, NextTypeOK, NextNoLostWakeup, PTL DEF Spec

(* Every variable of the pool keeps its type.                              *)
THEOREM PoolTypeCorrect == Spec => []TypeOK
  BY PoolInvariant, PTL

(* A worker with something to do, or told to stop, never sleeps on: the    *)
(* order drain, take, check of worker_notify_cb loses no wakeup, for any   *)
(* socket capacity and any drain buffer.                                   *)
THEOREM WakeupNotLost == Spec => []NoLostWakeup
  BY PoolInvariant, PTL

(* No event base and no route is freed while a thread may still use it.    *)
THEOREM NothingFreedInUse == Spec => []FreedAfterUse
<1>1. TypeOK /\ PoolInv => FreedAfterUse
  BY WorkerQueueAssumption
     DEF TypeOK, PoolInv, StartedInv, BaseInv, ThreadInv, FreedAfterUse, Worker
<1>. QED  BY <1>1, PoolInvariant, PTL

(* Main waits for no thread that sleeps: when it joins a worker, the byte  *)
(* of worker_stop is there to wake it.                                     *)
THEOREM NoJoinOfASleeper == Spec => []JoinsNoSleeper
<1>1. TypeOK /\ PoolInv /\ NoLostWakeup => JoinsNoSleeper
  BY Zenon DEF TypeOK, PoolInv, StoppingInv, NoLostWakeup, JoinsNoSleeper
<1>. QED  BY <1>1, PoolInvariant, PTL

(* What is left to do is a natural number: it cannot go down for ever.     *)
LEMMA LeftIsNat == TypeOK => MainLeft \in Nat /\ \A w \in Worker : WorkerLeft(w) \in Nat
<1>. SUFFICES ASSUME TypeOK PROVE MainLeft \in Nat /\ \A w \in Worker : WorkerLeft(w) \in Nat
  OBVIOUS
<1>1. MainLeft \in Nat
  <2>1. N \in Nat \ {0} /\ mi \in 1 .. N
    BY WorkerQueueAssumption, Zenon DEF TypeOK, Worker
  <2>. QED  BY <2>1 DEF MainLeft
<1>2. ASSUME NEW w \in Worker PROVE WorkerLeft(w) \in Nat
  <2>1. Len(pending[w]) \in Nat /\ Len(taken[w]) \in Nat /\ bytes[w] \in Nat
    BY WorkerQueueAssumption DEF TypeOK
  <2>. DEFINE p == Len(pending[w])  t == Len(taken[w])  b == bytes[w]
  <2>2. WorkerLeft(w) = 5 * b + 2 * p + t +
          (CASE wpc[w] = "drain" -> IF b > 0 THEN -1 ELSE 3 [] wpc[w] = "take" -> 2
             [] wpc[w] = "process" -> 1 [] OTHER -> 0)
    BY Zenon DEF WorkerLeft
  <2>3. p \in Nat /\ t \in Nat /\ b \in Nat
    BY <2>1, Zenon
  <2>. HIDE DEF p, t, b
  <2>4. CASE b = 0
    BY <2>2, <2>3, <2>4
  <2>5. CASE b > 0
    BY <2>2, <2>3, <2>5
  <2>. QED  BY <2>3, <2>4, <2>5
<1>. QED  BY <1>1, <1>2, Zenon

(* On its way out, main comes closer to its end with every step it takes.  *)
LEMMA MainStepAdvances ==
  TypeOK /\ mpc \in Ending /\ MainThread => mpc' \in Ending /\ MainAdvances
<1>. SUFFICES ASSUME TypeOK, mpc \in Ending, MainThread PROVE mpc' \in Ending /\ MainAdvances
  OBVIOUS
<1>0. N \in Nat \ {0} /\ mi \in 1 .. N
  BY WorkerQueueAssumption, Zenon DEF TypeOK, Worker
<1>. USE <1>0 DEF Ending, MainAdvances, MainLeft
<1>1. CASE NotifyWorker
  BY <1>1 DEF NotifyWorker, Upward
<1>2. CASE WorkerStop
  BY <1>2 DEF WorkerStop
<1>3. CASE WorkerJoin
  BY <1>3 DEF WorkerJoin, Upward, Downward
<1>4. CASE FreeRoutes
  BY <1>4 DEF FreeRoutes
<1>5. CASE WorkerFree
  BY <1>5 DEF WorkerFree, Upward, Downward
<1>. QED
  BY <1>1, <1>2, <1>3, <1>4, <1>5, Zenon
  DEF MainThread, WorkerInit, WorkerStart, AcceptCb, ListenReadCb, LoopExit

(* A worker comes closer to its sleep with every step it takes, and no     *)
(* step of it holds up main or another worker.                             *)
LEMMA WorkerStepAdvances ==
  ASSUME TypeOK, NEW w \in Worker, WorkerThread(w)
  PROVE  UNCHANGED <<mpc, mi>> /\ WorkerAdvances(w)
<1>1. UNCHANGED <<mpc, mi>>
  BY Zenon DEF WorkerThread, WorkerNotifyCb, DrainNotifyFd, WorkerTakePending,
           WorkerProcessMsg, WorkerCheckStopping
<1>2. MainLeft' = MainLeft
  BY <1>1, Zenon DEF MainLeft
<1>3. ASSUME NEW v \in Worker \ {w} PROVE WorkerLeft(v)' = WorkerLeft(v)
  <2>1. bytes'[v] = bytes[v] /\ pending'[v] = pending[v] /\ taken'[v] = taken[v] /\ wpc'[v] = wpc[v]
    BY DEF TypeOK, WorkerThread, WorkerNotifyCb, DrainNotifyFd, WorkerTakePending,
           WorkerProcessMsg, WorkerCheckStopping, queues
  <2>. QED  BY <2>1, Zenon DEF WorkerLeft
<1>4. WorkerLeft(w)' < WorkerLeft(w)
  <2>. DEFINE p == Len(pending[w])  t == Len(taken[w])  b == bytes[w]
  <2>1. p \in Nat /\ t \in Nat /\ b \in Nat
    BY WorkerQueueAssumption DEF TypeOK
  <2>2. WorkerLeft(w) = 5 * b + 2 * p + t +
          (CASE wpc[w] = "drain" -> IF b > 0 THEN -1 ELSE 3 [] wpc[w] = "take" -> 2
             [] wpc[w] = "process" -> 1 [] OTHER -> 0)
    BY Zenon DEF WorkerLeft
  <2>3. WorkerLeft(w)' = 5 * bytes'[w] + 2 * Len(pending'[w]) + Len(taken'[w]) +
          (CASE wpc'[w] = "drain" -> IF bytes'[w] > 0 THEN -1 ELSE 3 [] wpc'[w] = "take" -> 2
             [] wpc'[w] = "process" -> 1 [] OTHER -> 0)
    BY Zenon DEF WorkerLeft
  <2>4. CASE WorkerNotifyCb(w)
    <3>1. wpc[w] = "poll" /\ b > 0 /\ wpc'[w] = "drain" /\ bytes'[w] = b
          /\ Len(pending'[w]) = p /\ Len(taken'[w]) = t
      BY <2>4, Zenon DEF TypeOK, WorkerNotifyCb, queues
    <3>. HIDE DEF p, t, b
    <3>. QED  BY <2>1, <2>2, <2>3, <3>1
  <2>5. CASE DrainNotifyFd(w)
    <3>1. /\ wpc[w] = "drain" /\ Len(pending'[w]) = p /\ Len(taken'[w]) = t
          /\ bytes'[w] = b - (IF b < BUF THEN b ELSE BUF)
          /\ wpc'[w] = IF (IF b < BUF THEN b ELSE BUF) < BUF THEN "take" ELSE "drain"
      BY <2>5, Zenon DEF TypeOK, DrainNotifyFd, queues
    <3>2. BUF \in Nat \ {0}
      BY WorkerQueueAssumption
    <3>. HIDE DEF p, t, b
    <3>3. CASE b < BUF
      <4>1. bytes'[w] = 0 /\ wpc'[w] = "take"
        BY <2>1, <3>1, <3>3
      <4>. QED  BY <2>1, <2>2, <2>3, <3>1, <4>1, SMTT(30)
    <3>4. CASE b >= BUF
      <4>1. bytes'[w] = b - BUF /\ wpc'[w] = "drain"
        BY <2>1, <3>1, <3>2, <3>4
      <4>2. WorkerLeft(w) = 5 * b + 2 * p + t - 1
        BY <2>1, <2>2, <3>1, <3>2, <3>4, SMTT(30)
      <4>3. CASE b = BUF
        <5>1. bytes'[w] = 0
          BY <3>2, <4>1, <4>3
        <5>2. WorkerLeft(w)' = 2 * p + t + 3
          BY <2>1, <2>3, <3>1, <4>1, <5>1
        <5>. QED  BY <2>1, <3>2, <4>2, <4>3, <5>2
      <4>4. CASE b > BUF
        <5>1. bytes'[w] = b - BUF /\ b - BUF > 0
          BY <2>1, <3>2, <4>1, <4>4
        <5>2. WorkerLeft(w)' = 5 * (b - BUF) + 2 * p + t - 1
          BY <2>1, <2>3, <3>1, <3>2, <4>1, <5>1
        <5>. QED  BY <2>1, <3>2, <4>2, <5>2
      <4>. QED  BY <2>1, <3>2, <3>4, <4>3, <4>4
    <3>. QED  BY <2>1, <3>2, <3>3, <3>4
  <2>6. CASE WorkerTakePending(w)
    <3>1. wpc[w] = "take" /\ wpc'[w] = "process" /\ bytes'[w] = b
          /\ Len(pending'[w]) = 0 /\ Len(taken'[w]) = p
      BY <2>6 DEF TypeOK, WorkerTakePending
    <3>. HIDE DEF p, t, b
    <3>. QED  BY <2>1, <2>2, <2>3, <3>1
  <2>7. CASE WorkerProcessMsg(w)
    <3>1. wpc[w] = "process" /\ wpc'[w] = "process" /\ bytes'[w] = b /\ Len(pending'[w]) = p
      BY <2>7, Zenon DEF TypeOK, WorkerProcessMsg
    <3>2. taken'[w] = Tail(taken[w]) /\ taken[w] # <<>> /\ taken[w] \in Seq(Item)
      BY <2>7, Zenon DEF TypeOK, WorkerProcessMsg
    <3>3. Len(taken'[w]) = t - 1
      BY <3>2
    <3>. HIDE DEF p, t, b
    <3>. QED  BY <2>1, <2>2, <2>3, <3>1, <3>3
  <2>8. CASE WorkerCheckStopping(w)
    <3>1. wpc[w] = "process" /\ wpc'[w] \in {"poll", "exited"} /\ bytes'[w] = b
          /\ Len(pending'[w]) = p /\ Len(taken'[w]) = t
      BY <2>8, Zenon DEF TypeOK, WorkerCheckStopping, queues
    <3>. HIDE DEF p, t, b
    <3>. QED  BY <2>1, <2>2, <2>3, <3>1
  <2>. QED  BY <2>4, <2>5, <2>6, <2>7, <2>8, Zenon DEF WorkerThread
<1>. QED  BY <1>1, <1>2, <1>3, <1>4, Zenon DEF WorkerAdvances

(* A worker never spins, during a shutdown or before.                      *)
THEOREM WorkersGoForward == Spec => NoWorkerSpins
<1>1. TypeOK => WorkerOnly
  BY WorkerStepAdvances, Zenon DEF WorkerOnly
<1>2. TypeOK /\ [Next]_vars => [WorkerOnly]_vars
  BY <1>1, Zenon
<1>. QED  BY <1>2, PoolTypeCorrect, PTL DEF Spec, NoWorkerSpins

(* Once begun, a shutdown (or the undoing of a failed start) goes forward  *)
(* with every step of every thread, for any number of workers and items.   *)
THEOREM ShutdownGoesForward == Spec => ShutdownAdvances
<1>1. TypeOK /\ [Next]_vars => [TowardsEnd]_vars
  BY MainStepAdvances, WorkerStepAdvances, Zenon DEF Next, Terminated, TowardsEnd
<1>. QED  BY <1>1, PoolTypeCorrect, PTL DEF Spec, ShutdownAdvances

-----------------------------------------------------------------------------
(* Nothing is owned before anything arrives.                               *)
LEMMA InitOwn == Init => OwnInv
  BY DEF Init, OwnInv, OneOwner, ArrivalInv, EmptyInv, ListOf, Lists

(* A step that moves no item keeps the ownership of all of them.           *)
LEMMA SameLists ==
  ASSUME OneOwner, ArrivalInv, UNCHANGED <<queues, released, seen>>
  PROVE  OneOwner' /\ ArrivalInv'
<1>1. \A l, w : ListOf(l, w)' = ListOf(l, w)
  BY Zenon DEF ListOf, queues
<1>2. OneOwner'
  BY <1>1 DEF OneOwner
<1>3. ArrivalInv'
  BY <1>1 DEF ArrivalInv
<1>. QED  BY <1>2, <1>3, Zenon

(* Two places that hold the same item are the same place.                  *)
LEMMA OwnerUnique ==
  ASSUME OneOwner, NEW l \in Lists, NEW m \in Lists, NEW v \in Worker, NEW w \in Worker,
         NEW j \in DOMAIN ListOf(l, v), NEW k \in DOMAIN ListOf(m, w),
         ListOf(l, v)[j] = ListOf(m, w)[k]
  PROVE  l = m /\ v = w /\ j = k
  BY DEF OneOwner

(* An item that arrives becomes the last one of a pending list.            *)
LEMMA PushOwn ==
  ASSUME TypeOK, OneOwner, ArrivalInv,
         NEW w \in Worker, NEW i \in Item \ seen,
         PushPending(w, i), seen' = seen \union {i}, UNCHANGED <<taken, served, released>>
  PROVE  OneOwner' /\ ArrivalInv'
<1>. DEFINE last == Len(pending[w]) + 1
<1>1. /\ \A l \in Lists, v \in Worker : l # "pending" \/ v # w => ListOf(l, v)' = ListOf(l, v)
      /\ DOMAIN ListOf("pending", w)' = DOMAIN ListOf("pending", w) \union {last}
      /\ last \notin DOMAIN ListOf("pending", w)
      /\ ListOf("pending", w)'[last] = i
      /\ \A k \in DOMAIN ListOf("pending", w) : ListOf("pending", w)'[k] = ListOf("pending", w)[k]
  <2>1. /\ pending \in [Worker -> Seq(Item)] /\ pending[w] \in Seq(Item)
        /\ pending' = [pending EXCEPT ![w] = Append(pending[w], i)]
    BY Zenon DEF PushPending, TypeOK
  <2>2. \A l \in Lists, v \in Worker : l # "pending" \/ v # w => ListOf(l, v)' = ListOf(l, v)
    BY <2>1, Zenon DEF ListOf, Lists
  <2>3. ListOf("pending", w)' = Append(pending[w], i) /\ ListOf("pending", w) = pending[w]
    BY <2>1, Zenon DEF ListOf
  <2>4. /\ DOMAIN Append(pending[w], i) = DOMAIN pending[w] \union {last}
        /\ last \notin DOMAIN pending[w] /\ Append(pending[w], i)[last] = i
        /\ \A k \in DOMAIN pending[w] : Append(pending[w], i)[k] = pending[w][k]
    BY <2>1
  <2>. QED  BY <2>2, <2>3, <2>4, Zenon
<1>2. \A l \in Lists, v \in Worker : \A k \in DOMAIN ListOf(l, v)' :
        \/ k \in DOMAIN ListOf(l, v) /\ ListOf(l, v)'[k] = ListOf(l, v)[k]
        \/ l = "pending" /\ v = w /\ k = last /\ ListOf(l, v)'[k] = i
  BY <1>1, Zenon
<1>3. \A l \in Lists, v \in Worker : \A k \in DOMAIN ListOf(l, v) :
        k \in DOMAIN ListOf(l, v)' /\ ListOf(l, v)'[k] = ListOf(l, v)[k]
  BY <1>1, Zenon
<1>4. \A l \in Lists, v \in Worker : \A k \in DOMAIN ListOf(l, v) : ListOf(l, v)[k] # i
  BY DEF ArrivalInv
<1>. HIDE DEF last
<1>5. OneOwner'
  <2>1. \A l, m \in Lists, u, v \in Worker :
          \A j \in DOMAIN ListOf(l, u)', k \in DOMAIN ListOf(m, v)' :
            ListOf(l, u)'[j] = ListOf(m, v)'[k] => l = m /\ u = v /\ j = k
    BY <1>2, <1>4 DEF OneOwner
  <2>2. \A l \in Lists, v \in Worker : \A k \in DOMAIN ListOf(l, v)' :
          released'[ListOf(l, v)'[k]] =
            IF l = "served" /\ ListOf(l, v)'[k] \in Packets THEN 1 ELSE 0
    BY <1>2 DEF OneOwner, ArrivalInv
  <2>. QED  BY <2>1, <2>2, Zenon DEF OneOwner
<1>6. ArrivalInv'
  <2>1. \E l \in Lists, v \in Worker : \E k \in DOMAIN ListOf(l, v)' : ListOf(l, v)'[k] = i
    BY <1>1, Zenon DEF Lists
  <2>2. \A j \in seen' : \/ released'[j] = 1
                         \/ \E l \in Lists, v \in Worker : \E k \in DOMAIN ListOf(l, v)' : ListOf(l, v)'[k] = j
    BY <1>3, <2>1 DEF ArrivalInv
  <2>3. \A l \in Lists, v \in Worker : \A k \in DOMAIN ListOf(l, v)' : ListOf(l, v)'[k] \in seen'
    BY <1>2 DEF ArrivalInv
  <2>. QED  BY <2>2, <2>3, Zenon DEF ArrivalInv
<1>. QED  BY <1>5, <1>6, Zenon

(* An item that is refused at once is released once.                       *)
LEMMA RefuseOwn ==
  ASSUME TypeOK, OneOwner, ArrivalInv, NEW i \in Item \ seen,
         released' = [released EXCEPT ![i] = @ + 1], seen' = seen \union {i}, UNCHANGED queues
  PROVE  OneOwner' /\ ArrivalInv'
<1>1. \A l, w : ListOf(l, w)' = ListOf(l, w)
  BY Zenon DEF ListOf, queues
<1>2. \A j \in Item : released'[j] = IF j = i THEN 1 ELSE released[j]
  BY DEF ArrivalInv, TypeOK
<1>3. \A l \in Lists, v \in Worker : \A k \in DOMAIN ListOf(l, v) :
        ListOf(l, v)[k] # i /\ ListOf(l, v)[k] \in Item
  BY DEF ArrivalInv, TypeOK
<1>4. OneOwner'
  BY <1>1, <1>2, <1>3 DEF OneOwner
<1>5. ArrivalInv'
  BY <1>1, <1>2, <1>3 DEF ArrivalInv, TypeOK
<1>. QED  BY <1>4, <1>5, Zenon

(* A worker that takes its pending list changes nothing but its name.      *)
LEMMA TakeOwn ==
  ASSUME TypeOK, OneOwner, ArrivalInv, EmptyInv, NEW w \in Worker, WorkerTakePending(w)
  PROVE  OneOwner' /\ ArrivalInv'
<1>. DEFINE From(l, v) == IF l = "taken" /\ v = w THEN "pending" ELSE l
<1>1. /\ taken' = [taken EXCEPT ![w] = pending[w]] /\ pending' = [pending EXCEPT ![w] = <<>>]
      /\ UNCHANGED <<served, seen, released>> /\ taken[w] = <<>>
  BY Zenon DEF WorkerTakePending, EmptyInv, mvars
<1>2. \A l \in Lists, v \in Worker : \A k \in DOMAIN ListOf(l, v)' :
        /\ From(l, v) \in Lists /\ ~(l = "pending" /\ v = w)
        /\ k \in DOMAIN ListOf(From(l, v), v)
        /\ ListOf(l, v)'[k] = ListOf(From(l, v), v)[k]
  BY <1>1 DEF ListOf, Lists, TypeOK
<1>3. \A l \in Lists, v \in Worker : \A k \in DOMAIN ListOf(l, v) :
        \E m \in Lists : k \in DOMAIN ListOf(m, v)' /\ ListOf(m, v)'[k] = ListOf(l, v)[k]
  <2>. SUFFICES ASSUME NEW l \in Lists, NEW v \in Worker, NEW k \in DOMAIN ListOf(l, v)
                PROVE  \E m \in Lists : k \in DOMAIN ListOf(m, v)' /\ ListOf(m, v)'[k] = ListOf(l, v)[k]
    OBVIOUS
  <2>1. CASE v = w /\ l = "pending"
    <3>1. k \in DOMAIN ListOf("taken", v)' /\ ListOf("taken", v)'[k] = ListOf(l, v)[k]
      BY <1>1, <2>1, Zenon DEF ListOf, TypeOK
    <3>. QED  BY <3>1, Zenon DEF Lists
  <2>2. CASE ~(v = w /\ l = "pending")
    <3>1. k \in DOMAIN ListOf(l, v)' /\ ListOf(l, v)'[k] = ListOf(l, v)[k]
      BY <1>1, <2>2 DEF ListOf, Lists, TypeOK
    <3>. QED  BY <3>1, Zenon
  <2>. QED  BY <2>1, <2>2, Zenon
<1>4. \A l, m \in Lists, u, v \in Worker :
        \A j \in DOMAIN ListOf(l, u)', k \in DOMAIN ListOf(m, v)' :
          ListOf(l, u)'[j] = ListOf(m, v)'[k] => l = m /\ u = v /\ j = k
  BY <1>2 DEF OneOwner
<1>5. \A l \in Lists, v \in Worker : \A k \in DOMAIN ListOf(l, v)' :
        released'[ListOf(l, v)'[k]] =
          IF l = "served" /\ ListOf(l, v)'[k] \in Packets THEN 1 ELSE 0
  BY <1>1, <1>2 DEF OneOwner
<1>6. OneOwner'
  BY <1>1, <1>4, <1>5, Zenon DEF OneOwner
<1>7. ArrivalInv'
  BY <1>1, <1>2, <1>3 DEF ArrivalInv
<1>. QED  BY <1>6, <1>7, Zenon

(* A message that is processed moves from the front of the taken list to   *)
(* the end of the served one, and a datagram's data is freed.              *)
LEMMA ProcessOwn ==
  ASSUME TypeOK, OneOwner, ArrivalInv, NEW w \in Worker, WorkerProcessMsg(w)
  PROVE  OneOwner' /\ ArrivalInv'
<1>. DEFINE i == Head(taken[w])
            last == Len(served[w]) + 1
            Moved(l, v, k) == l = "served" /\ v = w /\ k = last
            Src(l, v, k) == IF Moved(l, v, k) THEN "taken" ELSE l
            Pos(l, v, k) == IF Moved(l, v, k) THEN 1
                            ELSE IF l = "taken" /\ v = w THEN k + 1 ELSE k
<1>1. /\ taken[w] \in Seq(Item) /\ taken[w] # <<>>
      /\ taken' = [taken EXCEPT ![w] = Tail(taken[w])]
      /\ served' = [served EXCEPT ![w] = Append(served[w], i)]
      /\ UNCHANGED <<pending, seen>>
      /\ i \in Item /\ 1 \in DOMAIN taken[w] /\ taken[w][1] = i
  BY DEF WorkerProcessMsg, mvars, TypeOK
<1>2. released' = [released EXCEPT ![i] = IF i \in Packets THEN released[i] + 1 ELSE released[i]]
  BY Zenon DEF WorkerProcessMsg
<1>3. /\ released[i] = 0
      /\ \A j \in Item : released'[j] = IF j = i /\ i \in Packets THEN 1 ELSE released[j]
  <2>1. released[i] = 0
    <3>1. ListOf("taken", w) = taken[w] /\ "taken" \in Lists
      BY Zenon DEF ListOf, Lists
    <3>. QED  BY <1>1, <3>1 DEF OneOwner
  <2>2. released \in [Item -> Nat]
    BY Zenon DEF TypeOK
  <2>. HIDE DEF i
  <2>. QED  BY <1>1, <1>2, <2>1, <2>2
<1>4. \A l \in Lists, v \in Worker : \A k \in DOMAIN ListOf(l, v)' :
        /\ Src(l, v, k) \in Lists /\ Pos(l, v, k) \in DOMAIN ListOf(Src(l, v, k), v)
        /\ ListOf(l, v)'[k] = ListOf(Src(l, v, k), v)[Pos(l, v, k)]
        /\ ListOf(l, v)'[k] \in Item /\ k \in Nat /\ k > 0
  <2>. SUFFICES ASSUME NEW l \in Lists, NEW v \in Worker, NEW k \in DOMAIN ListOf(l, v)'
                PROVE  /\ Src(l, v, k) \in Lists /\ Pos(l, v, k) \in DOMAIN ListOf(Src(l, v, k), v)
                       /\ ListOf(l, v)'[k] = ListOf(Src(l, v, k), v)[Pos(l, v, k)]
                       /\ ListOf(l, v)'[k] \in Item /\ k \in Nat /\ k > 0
    BY Zenon
  <2>0. served[v] \in Seq(Item) /\ taken[v] \in Seq(Item) /\ pending[v] \in Seq(Item)
    BY Zenon DEF TypeOK
  <2>00. taken \in [Worker -> Seq(Item)] /\ served \in [Worker -> Seq(Item)]
    BY Zenon DEF TypeOK
  <2>. HIDE DEF i
  <2>1. CASE l = "pending"
    BY <1>1, <2>0, <2>1 DEF ListOf, Lists
  <2>2. CASE l # "pending" /\ v # w
    BY <1>1, <2>0, <2>00, <2>2 DEF ListOf, Lists
  <2>3. CASE l = "taken" /\ v = w
    BY <1>1, <2>0, <2>00, <2>3 DEF ListOf, Lists
  <2>4. CASE l = "served" /\ v = w
    BY <1>1, <2>0, <2>00, <2>4 DEF ListOf, Lists
  <2>. QED  BY <2>1, <2>2, <2>3, <2>4, Zenon DEF Lists
<1>5. \A l, m \in Lists, u, v \in Worker :
        \A j \in DOMAIN ListOf(l, u)', k \in DOMAIN ListOf(m, v)' :
          ListOf(l, u)'[j] = ListOf(m, v)'[k] => l = m /\ u = v /\ j = k
  <2>. SUFFICES ASSUME NEW l \in Lists, NEW m \in Lists, NEW u \in Worker, NEW v \in Worker,
                       NEW j \in DOMAIN ListOf(l, u)', NEW k \in DOMAIN ListOf(m, v)',
                       ListOf(l, u)'[j] = ListOf(m, v)'[k]
                PROVE  l = m /\ u = v /\ j = k
    OBVIOUS
  <2>1. Src(l, u, j) = Src(m, v, k) /\ Pos(l, u, j) = Pos(m, v, k) /\ u = v
    <3>. HIDE DEF i, Src, Pos
    <3>1. /\ Src(l, u, j) \in Lists /\ Pos(l, u, j) \in DOMAIN ListOf(Src(l, u, j), u)
          /\ ListOf(l, u)'[j] = ListOf(Src(l, u, j), u)[Pos(l, u, j)]
      BY <1>4, Zenon
    <3>2. /\ Src(m, v, k) \in Lists /\ Pos(m, v, k) \in DOMAIN ListOf(Src(m, v, k), v)
          /\ ListOf(m, v)'[k] = ListOf(Src(m, v, k), v)[Pos(m, v, k)]
      BY <1>4, Zenon
    <3>3. ListOf(Src(l, u, j), u)[Pos(l, u, j)] = ListOf(Src(m, v, k), v)[Pos(m, v, k)]
      BY <3>1, <3>2, Zenon
    <3>. QED  BY <3>1, <3>2, <3>3, OwnerUnique
  <2>2. j \in Nat /\ k \in Nat /\ j > 0 /\ k > 0
    BY <1>4, Zenon
  <2>. QED  BY <2>1, <2>2 DEF Lists
<1>6. \A l \in Lists, v \in Worker : \A k \in DOMAIN ListOf(l, v)' :
        released'[ListOf(l, v)'[k]] =
          IF l = "served" /\ ListOf(l, v)'[k] \in Packets THEN 1 ELSE 0
  <2>. SUFFICES ASSUME NEW l \in Lists, NEW v \in Worker, NEW k \in DOMAIN ListOf(l, v)'
                PROVE  released'[ListOf(l, v)'[k]] =
                         IF l = "served" /\ ListOf(l, v)'[k] \in Packets THEN 1 ELSE 0
    OBVIOUS
  <2>1. ListOf(l, v)'[k] = i <=> v = w /\ l = "served" /\ k = last
    <3>1. ListOf("taken", w) = taken[w] /\ "taken" \in Lists
      BY Zenon DEF ListOf, Lists
    <3>2. i = ListOf("taken", w)[1] /\ 1 \in DOMAIN ListOf("taken", w)
      BY <1>1, <3>1, Zenon
    <3>3. ListOf(l, v)'[k] = i <=> v = w /\ Src(l, v, k) = "taken" /\ Pos(l, v, k) = 1
      <4>. HIDE DEF Src, Pos, i
      <4>1. /\ Src(l, v, k) \in Lists /\ Pos(l, v, k) \in DOMAIN ListOf(Src(l, v, k), v)
            /\ ListOf(l, v)'[k] = ListOf(Src(l, v, k), v)[Pos(l, v, k)]
        BY <1>4, Zenon
      <4>. QED  BY <3>1, <3>2, <4>1 DEF OneOwner
    <3>4. k \in Nat /\ k > 0
      BY <1>4, Zenon
    <3>. HIDE DEF i, last
    <3>. QED  BY <3>3, <3>4 DEF Lists
  <2>2. CASE ListOf(l, v)'[k] = i
    <3>. HIDE DEF i, last
    <3>1. released'[i] = (IF i \in Packets THEN 1 ELSE released[i]) /\ released[i] = 0
      BY <1>1, <1>3, Zenon
    <3>. QED  BY <2>1, <2>2, <3>1, Zenon
  <2>3. CASE ListOf(l, v)'[k] # i
    <3>1. Src(l, v, k) = l
      BY <2>1, <2>3, Zenon
    <3>. HIDE DEF Src, Pos, i, last
    <3>2. ListOf(l, v)'[k] \in Item /\ released'[ListOf(l, v)'[k]] = released[ListOf(l, v)'[k]]
      BY <1>3, <1>4, <2>3, Zenon
    <3>3. /\ Pos(l, v, k) \in DOMAIN ListOf(l, v)
          /\ ListOf(l, v)'[k] = ListOf(l, v)[Pos(l, v, k)]
      BY <1>4, <3>1, Zenon
    <3>. QED  BY <3>2, <3>3 DEF OneOwner
  <2>. QED  BY <2>2, <2>3, Zenon
<1>. HIDE DEF i, last, Src, Pos
<1>7. OneOwner'
  BY <1>3, <1>5, <1>6 DEF OneOwner
<1>8. \A l \in Lists, v \in Worker : \A k \in DOMAIN ListOf(l, v) :
        \E m \in Lists : \E j \in DOMAIN ListOf(m, v)' : ListOf(m, v)'[j] = ListOf(l, v)[k]
  <2>. SUFFICES ASSUME NEW l \in Lists, NEW v \in Worker, NEW k \in DOMAIN ListOf(l, v)
                PROVE  \E m \in Lists : \E j \in DOMAIN ListOf(m, v)' : ListOf(m, v)'[j] = ListOf(l, v)[k]
    OBVIOUS
  <2>0. /\ served \in [Worker -> Seq(Item)] /\ taken \in [Worker -> Seq(Item)]
        /\ served[v] \in Seq(Item) /\ taken[v] \in Seq(Item)
    BY Zenon DEF TypeOK
  <2>1. CASE l = "taken" /\ v = w /\ k = 1
    <3>1. last \in DOMAIN ListOf("served", v)' /\ ListOf("served", v)'[last] = ListOf(l, v)[k]
      BY <1>1, <2>0, <2>1 DEF ListOf, last
    <3>. QED  BY <3>1, Zenon DEF Lists
  <2>2. CASE l = "taken" /\ v = w /\ k # 1
    <3>1. k - 1 \in DOMAIN ListOf(l, v)' /\ ListOf(l, v)'[k - 1] = ListOf(l, v)[k]
      BY <1>1, <2>0, <2>2 DEF ListOf
    <3>. QED  BY <3>1, Zenon
  <2>3. CASE ~(l = "taken" /\ v = w)
    <3>1. k \in DOMAIN ListOf(l, v)' /\ ListOf(l, v)'[k] = ListOf(l, v)[k]
      BY <1>1, <2>0, <2>3 DEF ListOf, Lists
    <3>. QED  BY <3>1, Zenon
  <2>. QED  BY <2>1, <2>2, <2>3, Zenon
<1>9. i \in seen
  <2>1. ListOf("taken", w) = taken[w] /\ "taken" \in Lists
    BY DEF ListOf, Lists
  <2>. QED  BY <1>1, <2>1, Zenon DEF ArrivalInv
<1>10. ArrivalInv'
  <2>1. \A j \in Item \ seen' : released'[j] = 0
    BY <1>1, <1>3, <1>9, Zenon DEF ArrivalInv
  <2>2. \A l \in Lists, v \in Worker : \A k \in DOMAIN ListOf(l, v)' : ListOf(l, v)'[k] \in seen'
    BY <1>1, <1>4 DEF ArrivalInv
  <2>3. seen \subseteq Item
    BY Zenon DEF TypeOK
  <2>4. \A j \in seen' :
          \/ released'[j] = 1
          \/ \E m \in Lists, v \in Worker : \E k \in DOMAIN ListOf(m, v)' : ListOf(m, v)'[k] = j
    BY <1>1, <1>3, <1>8, <2>3 DEF ArrivalInv
  <2>. QED  BY <2>1, <2>2, <2>4, Zenon DEF ArrivalInv
<1>. QED  BY <1>7, <1>10, Zenon

(* worker_free releases each message of the pending list once.             *)
LEMMA FreeOwn ==
  ASSUME TypeOK, OneOwner, ArrivalInv, WorkerFree
  PROVE  OneOwner' /\ ArrivalInv'
<1>1. /\ mi \in Worker /\ released \in [Item -> Nat] /\ seen \subseteq Item
      /\ pending \in [Worker -> Seq(Item)]
      /\ pending' = [pending EXCEPT ![mi] = <<>>]
      /\ UNCHANGED <<taken, served, seen>>
  BY Zenon DEF WorkerFree, mvars, TypeOK
<1>2. released' = [i \in Item |-> released[i] + (IF i \in Range(pending[mi]) THEN 1 ELSE 0)]
  BY Zenon DEF WorkerFree
<1>3. "pending" \in Lists /\ ListOf("pending", mi) = pending[mi]
  BY Zenon DEF ListOf, Lists
<1>4. \A i \in Range(pending[mi]) :
        /\ i \in Item /\ i \in seen /\ released[i] = 0
        /\ \E k \in DOMAIN ListOf("pending", mi) : ListOf("pending", mi)[k] = i
  BY <1>1, <1>3 DEF Range, OneOwner, ArrivalInv
<1>5. \A i \in Item : released'[i] = IF i \in Range(pending[mi]) THEN 1 ELSE released[i]
  BY <1>1, <1>2, <1>4
<1>0. /\ \A l \in Lists, v \in Worker : ~(l = "pending" /\ v = mi) => ListOf(l, v)' = ListOf(l, v)
      /\ \A v \in Worker : v = mi => \A k : k \notin DOMAIN (ListOf("pending", v)')
  <2>1. pending'[mi] = <<>> /\ \A v \in Worker : v # mi => pending'[v] = pending[v]
    BY <1>1, Zenon
  <2>2. \A k : k \notin DOMAIN <<>>
    OBVIOUS
  <2>. QED  BY <1>1, <2>1, <2>2, Zenon DEF ListOf, Lists
<1>6. \A l \in Lists, v \in Worker : \A k \in DOMAIN ListOf(l, v)' :
        /\ ~(l = "pending" /\ v = mi)
        /\ k \in DOMAIN ListOf(l, v) /\ ListOf(l, v)'[k] = ListOf(l, v)[k]
        /\ ListOf(l, v)[k] \in Item
  <2>1. \A l \in Lists, v \in Worker : ListOf(l, v) \in Seq(Item)
    BY Zenon DEF ListOf, Lists, TypeOK
  <2>2. \A s \in Seq(Item) : \A k \in DOMAIN s : s[k] \in Item
    OBVIOUS
  <2>. QED  BY <1>0, <2>1, <2>2, Zenon
<1>7. \A l \in Lists, v \in Worker : \A k \in DOMAIN ListOf(l, v) :
        \/ l = "pending" /\ v = mi /\ ListOf(l, v)[k] \in Range(pending[mi])
        \/ k \in DOMAIN ListOf(l, v)' /\ ListOf(l, v)'[k] = ListOf(l, v)[k]
  <2>1. \A k \in DOMAIN ListOf("pending", mi) : ListOf("pending", mi)[k] \in Range(pending[mi])
    BY Zenon DEF ListOf, Range
  <2>. QED  BY <1>0, <2>1, Zenon
<1>8. OneOwner'
  <2>1. \A l, m \in Lists, u, v \in Worker :
          \A j \in DOMAIN ListOf(l, u)', k \in DOMAIN ListOf(m, v)' :
            ListOf(l, u)'[j] = ListOf(m, v)'[k] => l = m /\ u = v /\ j = k
    BY <1>6 DEF OneOwner
  <2>2. \A l \in Lists, v \in Worker : \A k \in DOMAIN ListOf(l, v)' :
          ListOf(l, v)[k] \notin Range(pending[mi])
    BY <1>1, <1>3, <1>4, <1>6 DEF OneOwner
  <2>3. \A l \in Lists, v \in Worker : \A k \in DOMAIN ListOf(l, v)' :
          released'[ListOf(l, v)'[k]] =
            IF l = "served" /\ ListOf(l, v)'[k] \in Packets THEN 1 ELSE 0
    BY <1>5, <1>6, <2>2 DEF OneOwner
  <2>4. \A i \in Item : released'[i] <= 1
    BY <1>1, <1>5 DEF OneOwner
  <2>. QED  BY <2>1, <2>3, <2>4, Zenon DEF OneOwner
<1>9. ArrivalInv'
  <2>1. \A j \in Item \ seen' : released'[j] = 0
    BY <1>1, <1>4, <1>5, Zenon DEF ArrivalInv
  <2>2. \A l \in Lists, v \in Worker : \A k \in DOMAIN ListOf(l, v)' : ListOf(l, v)'[k] \in seen'
    BY <1>1, <1>6 DEF ArrivalInv
  <2>3. \A j \in seen' :
          \/ released'[j] = 1
          \/ \E m \in Lists, v \in Worker : \E k \in DOMAIN ListOf(m, v)' : ListOf(m, v)'[k] = j
    BY <1>1, <1>5, <1>7 DEF ArrivalInv
  <2>. QED  BY <2>1, <2>2, <2>3, Zenon DEF ArrivalInv
<1>. QED  BY <1>8, <1>9, Zenon

(* Ownership is kept by every step of every thread.                        *)
LEMMA NextOneOwner ==
  TypeOK /\ PoolInv /\ OwnInv /\ [Next]_vars => OneOwner' /\ ArrivalInv'
<1>. SUFFICES ASSUME TypeOK, PoolInv, OneOwner, ArrivalInv, EmptyInv, [Next]_vars
              PROVE  OneOwner' /\ ArrivalInv'
  BY Zenon DEF OwnInv
<1>1. CASE \/ WorkerInit \/ WorkerStart \/ LoopExit \/ NotifyWorker \/ WorkerStop
           \/ WorkerJoin \/ FreeRoutes \/ UNCHANGED vars
           \/ \E w \in Worker : WorkerNotifyCb(w) \/ DrainNotifyFd(w) \/ WorkerCheckStopping(w)
  <2>1. UNCHANGED <<queues, released, seen>>
    BY <1>1, Zenon DEF WorkerInit, WorkerStart, LoopExit, NotifyWorker, WorkerStop, WorkerJoin,
                FreeRoutes, WorkerNotifyCb, DrainNotifyFd, WorkerCheckStopping, vars, mvars, queues
  <2>. QED  BY <2>1, SameLists, Zenon
<1>2. ASSUME NEW i \in Item, AcceptCb(i) PROVE OneOwner' /\ ArrivalInv'
  <2>1. /\ i \in Item \ seen /\ mpc = "loop" /\ seen' = seen \union {i}
        /\ UNCHANGED <<taken, served>>
    BY <1>2, Zenon DEF AcceptCb
  <2>2. NextWorker \in Worker
    BY WorkerQueueAssumption DEF NextWorker, Worker, TypeOK
  <2>3. ~stopping[NextWorker]
    BY <2>1, <2>2, Zenon DEF PoolInv, StoppingInv
  <2>4. \/ PushPending(NextWorker, i) /\ UNCHANGED released
        \/ released' = [released EXCEPT ![i] = @ + 1] /\ UNCHANGED pending
    BY <1>2, <2>3, Zenon DEF AcceptCb, WorkerEnqueueStreamClient
  <2>. QED  BY <2>1, <2>2, <2>4, PushOwn, RefuseOwn, Zenon DEF queues
<1>3. ASSUME NEW i \in Item, ListenReadCb(i) PROVE OneOwner' /\ ArrivalInv'
  <2>1. /\ i \in Item \ seen /\ seen' = seen \union {i}
        /\ UNCHANGED <<taken, served>>
    BY <1>3, Zenon DEF ListenReadCb
  <2>2. NextWorker \in Worker
    BY WorkerQueueAssumption DEF NextWorker, Worker, TypeOK
  <2>3. \/ PushPending(NextWorker, i) /\ UNCHANGED released
        \/ released' = [released EXCEPT ![i] = @ + 1] /\ UNCHANGED pending
    BY <1>3, Zenon DEF ListenReadCb, WorkerEnqueueDatagramPacket
  <2>. QED  BY <2>1, <2>2, <2>3, PushOwn, RefuseOwn, Zenon DEF queues
<1>. QED
  BY <1>1, <1>2, <1>3, TakeOwn, ProcessOwn, FreeOwn, Zenon
  DEF Next, MainThread, WorkerThread, Terminated

(* No step leaves a message where no later step would look for it.         *)
LEMMA NextEmptyInv == TypeOK /\ PoolInv /\ EmptyInv /\ [Next]_vars => EmptyInv'
<1>. SUFFICES ASSUME TypeOK, PoolInv, EmptyInv, [Next]_vars PROVE EmptyInv'
  OBVIOUS
<1>0. PoolTypes /\ taken \in [1..N -> Seq(Item)]
  BY Zenon DEF TypeOK, PoolTypes, Worker
<1>. USE <1>0, WorkerQueueAssumption DEF PoolTypes, EmptyInv, Worker, queues, mvars, wvars
<1>1. CASE WorkerInit
  BY <1>1, Zenon DEF WorkerInit, Upward, Downward
<1>2. CASE WorkerStart
  <2>1. wpc[mi] # "process"
    BY <1>2 DEF WorkerStart, PoolInv, StartedInv, ThreadInv
  <2>. QED  BY <1>2, <2>1, Zenon DEF WorkerStart, Upward, Downward
<1>3. CASE LoopExit
  BY <1>3, Zenon DEF LoopExit
<1>4. CASE NotifyWorker
  BY <1>4, Zenon DEF NotifyWorker, Upward
<1>5. CASE WorkerStop
  BY <1>5, Zenon DEF WorkerStop
<1>6. CASE WorkerJoin
  BY <1>6, Zenon DEF WorkerJoin, Upward, Downward
<1>7. CASE FreeRoutes
  BY <1>7 DEF FreeRoutes, PoolInv, BaseInv
<1>8. CASE WorkerFree
  <2>1. /\ UNCHANGED <<wpc, taken>>
        /\ pending'[mi] = <<>> /\ \A w \in Worker : w # mi => pending'[w] = pending[w]
    BY <1>8, Zenon DEF WorkerFree
  <2>2. CASE mpc = "free" /\ Upward("free", "done")
    <3>1. \A w \in Worker : w <= mi => pending'[w] = <<>>
      <4>1. \A w \in Worker : w <= mi => w = mi \/ w < mi
        OBVIOUS
      <4>. QED  BY <2>1, <2>2, <4>1, Zenon
    <3>2. CASE mi < N
      <4>1. \A w \in Worker : w < mi + 1 => w <= mi
        OBVIOUS
      <4>. QED  BY <2>1, <2>2, <3>1, <3>2, <4>1, Zenon DEF Upward
    <3>3. CASE ~(mi < N)
      <4>. HIDE DEF EmptyInv
      <4>0. \A w \in Worker : w <= mi
        BY <3>3
      <4>1. \A w \in Worker : pending'[w] = <<>>
        BY <3>1, <4>0, Zenon
      <4>. USE DEF EmptyInv
      <4>. QED  BY <2>1, <2>2, <3>3, <4>1, Zenon DEF Upward
    <3>. QED  BY <3>2, <3>3, Zenon
  <2>3. CASE mpc = "undoInit" /\ Downward("undoInit", "done")
    BY <2>1, <2>3, Zenon DEF Downward
  <2>. QED  BY <1>8, <2>2, <2>3, Zenon DEF WorkerFree
<1>9. ASSUME NEW i \in Item, AcceptCb(i) \/ ListenReadCb(i) PROVE EmptyInv'
  <2>1. UNCHANGED <<wpc, taken>> /\ mpc' \in {"loop", "notify"}
    BY <1>9, Zenon DEF AcceptCb, WorkerEnqueueStreamClient, ListenReadCb, WorkerEnqueueDatagramPacket
  <2>. QED  BY <2>1, Zenon
<1>10. ASSUME NEW w \in Worker, WorkerThread(w) PROVE EmptyInv'
  <2>1. CASE WorkerNotifyCb(w)
    BY <2>1, Zenon DEF WorkerNotifyCb
  <2>2. CASE DrainNotifyFd(w)
    BY <2>2, Zenon DEF DrainNotifyFd
  <2>3. CASE WorkerTakePending(w)
    BY <2>3, Zenon DEF WorkerTakePending
  <2>4. CASE WorkerProcessMsg(w)
    BY <2>4, Zenon DEF WorkerProcessMsg
  <2>5. CASE WorkerCheckStopping(w)
    BY <2>5, Zenon DEF WorkerCheckStopping
  <2>. QED  BY <1>10, <2>1, <2>2, <2>3, <2>4, <2>5, Zenon DEF WorkerThread
<1>11. CASE UNCHANGED vars
  BY <1>11, Zenon DEF vars
<1>. QED
  BY <1>1, <1>2, <1>3, <1>4, <1>5, <1>6, <1>7, <1>8, <1>9, <1>10, <1>11, Zenon
  DEF Next, MainThread, Terminated

(* Ownership, on top of types and phases, is inductive.                    *)
THEOREM OwnershipInvariant == Spec => [](TypeOK /\ PoolInv /\ OwnInv)
<1>1. TypeOK /\ PoolInv /\ OwnInv /\ [Next]_vars => OwnInv'
  BY NextOneOwner, NextEmptyInv, Zenon DEF OwnInv
<1>. QED  BY <1>1, InitOwn, PoolInvariant, PTL DEF Spec

(* Each fd and each datagram has one owner, and is closed or freed at most *)
(* once: what accept_cb, the queue and the workers hand to each other is   *)
(* never in two hands, and ECANCELED, upon which the fd would be closed    *)
(* twice, is never returned while main accepts.                            *)
THEOREM EveryItemHasOneOwner == Spec => []OneOwner
  BY OwnershipInvariant, PTL DEF OwnInv

(* After main no thread runs, no event base is left, and every connection  *)
(* and datagram that came in was served or released.                       *)
THEOREM NothingLeftBehind == Spec => []AllAccountedFor
<1>1. ASSUME TypeOK, PoolInv, OwnInv, mpc = "done" PROVE AllAccountedFor
  <2>1. \A w \in Worker : ~Running(w) /\ base[w] # "open"
    BY <1>1, Zenon DEF PoolInv, StartedInv, ThreadInv, BaseInv
  <2>2. \A w \in Worker : pending[w] = <<>> /\ taken[w] = <<>>
    BY <1>1, <2>1, Zenon DEF OwnInv, EmptyInv, Running
  <2>3. \A i \in seen : released[i] = 1 \/ \E w \in Worker : i \in Range(served[w])
    BY <1>1, <2>2 DEF OwnInv, ArrivalInv, ListOf, Lists, Range
  <2>. QED  BY <2>1, <2>3, Zenon DEF AllAccountedFor
<1>2. TypeOK /\ PoolInv /\ OwnInv => AllAccountedFor
  BY <1>1, Zenon DEF AllAccountedFor
<1>. QED  BY <1>2, OwnershipInvariant, PTL

-----------------------------------------------------------------------------
(* Appending to the second of two lists appends to the line they form.     *)
LEMMA ConcatAppend ==
  ASSUME NEW S, NEW s \in Seq(S), NEW t \in Seq(S), NEW e \in S
  PROVE  s \o Append(t, e) = Append(s \o t, e)
<1>1. Append(t, e) = t \o <<e>> /\ <<e>> \in Seq(S)
  BY AppendIsConcat
<1>2. s \o (t \o <<e>>) = (s \o t) \o <<e>>
  BY <1>1, ConcatAssociative
<1>3. s \o t \in Seq(S)
  BY ConcatProperties, Zenon
<1>. QED  BY <1>1, <1>2, <1>3, AppendIsConcat, Zenon

(* The first of the first list is the first of the line.                   *)
LEMMA ConcatHeadTail ==
  ASSUME NEW S, NEW s \in Seq(S), NEW t \in Seq(S), s # <<>>
  PROVE  /\ s \o t # <<>> /\ Head(s \o t) = Head(s)
         /\ Tail(s) \o t = Tail(s \o t)
<1>1. /\ s \o t \in Seq(S) /\ Len(s \o t) = Len(s) + Len(t)
      /\ \A i \in 1 .. Len(s) + Len(t) :
           (s \o t)[i] = IF i <= Len(s) THEN s[i] ELSE t[i - Len(s)]
  BY ConcatProperties, Zenon
<1>2. Len(s) \in Nat \ {0} /\ Len(t) \in Nat
  BY EmptySeq, LenProperties, Zenon
<1>3. s \o t # <<>>
  BY <1>1, <1>2, EmptySeq
<1>4. Head(s \o t) = Head(s)
  BY <1>1, <1>2
<1>5. /\ Tail(s) \in Seq(S) /\ Len(Tail(s)) = Len(s) - 1
      /\ \A i \in 1 .. Len(Tail(s)) : Tail(s)[i] = s[i + 1]
  BY HeadTailProperties, Zenon
<1>6. /\ Tail(s \o t) \in Seq(S) /\ Len(Tail(s \o t)) = Len(s) + Len(t) - 1
      /\ \A i \in 1 .. Len(Tail(s \o t)) : Tail(s \o t)[i] = (s \o t)[i + 1]
  BY <1>1, <1>3, HeadTailProperties
<1>7. /\ Tail(s) \o t \in Seq(S) /\ Len(Tail(s) \o t) = Len(Tail(s)) + Len(t)
      /\ \A i \in 1 .. Len(Tail(s)) + Len(t) :
           (Tail(s) \o t)[i] = IF i <= Len(Tail(s)) THEN Tail(s)[i] ELSE t[i - Len(Tail(s))]
  BY <1>5, ConcatProperties, Zenon
<1>8. \A i \in 1 .. Len(Tail(s) \o t) : (Tail(s) \o t)[i] = Tail(s \o t)[i]
  BY <1>1, <1>2, <1>5, <1>6, <1>7
<1>9. Tail(s) \o t = Tail(s \o t)
  BY <1>2, <1>5, <1>6, <1>7, <1>8, SeqEqual
<1>. QED  BY <1>3, <1>4, <1>9, Zenon

(* Those of an extended list are its old ones and the new one.             *)
LEMMA AppendSet ==
  ASSUME NEW S, NEW s \in Seq(S), NEW e \in S
  PROVE  Range(Append(s, e)) = Range(s) \union {e}
<1>. DEFINE last == Len(s) + 1
<1>1. /\ DOMAIN Append(s, e) = DOMAIN s \union {last}
      /\ Append(s, e)[last] = e /\ \A k \in DOMAIN s : Append(s, e)[k] = s[k]
  OBVIOUS
<1>. HIDE DEF last
<1>. QED  BY <1>1, Zenon DEF Range

(* Both modules mean the same by the items of a list.                      *)
LEMMA SameRange == \A s : Promise!Range(s) = Range(s)
  BY Zenon DEF Promise!Range, Range

-----------------------------------------------------------------------------
(* The pool begins where Handoff begins.                                   *)
LEMMA HandoffBegins == Init => Promise!HandoffInit
<1>. SUFFICES ASSUME Init PROVE Promise!HandoffInit
  OBVIOUS
<1>1. <<>> \o <<>> = <<>>
  BY EmptySeq, ConcatEmptySeq, Zenon
<1>2. Line = [w \in Worker |-> <<>>]
  BY <1>1, Zenon DEF Init, Line
<1>3. Gone = {}
  BY DEF Init, Gone
<1>. QED  BY <1>2, <1>3, Zenon DEF Promise!HandoffInit, Init, Open

(* A step of main that moves no item is none, or closes the proxy.         *)
LEMMA QuietStep ==
  ASSUME UNCHANGED <<queues, released>>, Open' => Open
  PROVE  Promise!Close \/ UNCHANGED Promise!hvars
<1>1. Line' = Line /\ Gone' = Gone /\ served' = served
  BY Zenon DEF Line, Gone, queues
<1>. QED  BY <1>1, Zenon DEF Promise!Close, Promise!hvars, Open

(* An item that was not seen is one that Handoff has not taken.            *)
LEMMA UnseenNotTaken ==
  ASSUME TypeOK, ArrivalInv, NEW i \in Item \ seen
  PROVE  i \notin Promise!Taken
<1>1. \A l \in Lists, w \in Worker : \A k \in DOMAIN ListOf(l, w) : ListOf(l, w)[k] # i
  BY Zenon DEF ArrivalInv
<1>2. \A w \in Worker : /\ i \notin Range(served[w]) /\ i \notin Range(taken[w])
                        /\ i \notin Range(pending[w])
  BY <1>1, Zenon DEF ListOf, Lists, Range
<1>3. \A w \in Worker : i \notin Range(Line[w])
  <2>. SUFFICES ASSUME NEW w \in Worker PROVE i \notin Range(Line[w])
    OBVIOUS
  <2>1. taken[w] \in Seq(Item) /\ pending[w] \in Seq(Item) /\ Line[w] = taken[w] \o pending[w]
    BY Zenon DEF TypeOK, Line
  <2>2. Range(taken[w] \o pending[w]) = Range(taken[w]) \union Range(pending[w])
    BY <2>1, RangeConcatenation
  <2>. QED  BY <1>2, <2>1, <2>2, Zenon
<1>4. i \notin Gone
  <2>1. released[i] = 0
    BY Zenon DEF ArrivalInv
  <2>. QED  BY <2>1 DEF Gone
<1>. QED  BY <1>2, <1>3, <1>4, SameRange, Zenon DEF Promise!Taken

(* An item that arrives is assigned to a worker, or refused.               *)
LEMMA ArrivalStep ==
  ASSUME TypeOK, PoolInv, OwnInv, NEW i \in Item, AcceptCb(i) \/ ListenReadCb(i)
  PROVE  (\E w \in Worker : Promise!Assign(w, i)) \/ Promise!Refuse(i)
<1>1. i \in Item \ seen /\ mpc = "loop" /\ UNCHANGED <<taken, served>>
  BY Zenon DEF AcceptCb, ListenReadCb
<1>2. NextWorker \in Worker
  BY WorkerQueueAssumption DEF NextWorker, Worker, TypeOK
<1>3. ~stopping[NextWorker]
  BY <1>1, <1>2, Zenon DEF PoolInv, StoppingInv
<1>4. \/ PushPending(NextWorker, i) /\ UNCHANGED released /\ mpc' = "notify"
      \/ released' = [released EXCEPT ![i] = @ + 1] /\ UNCHANGED <<pending, mpc>>
  BY <1>3, Zenon DEF AcceptCb, WorkerEnqueueStreamClient, ListenReadCb, WorkerEnqueueDatagramPacket
<1>5. Open /\ Open' /\ i \notin Promise!Taken
  BY <1>1, <1>4, UnseenNotTaken, Zenon DEF Open, OwnInv
<1>6. CASE PushPending(NextWorker, i) /\ UNCHANGED released
  <2>1. Gone' = Gone
    BY <1>1, <1>6, Zenon DEF Gone
  <2>2. Line' = [Line EXCEPT ![NextWorker] = Append(@, i)]
    <3>1. taken[NextWorker] \o Append(pending[NextWorker], i)
            = Append(taken[NextWorker] \o pending[NextWorker], i)
      <4>1. taken[NextWorker] \in Seq(Item) /\ pending[NextWorker] \in Seq(Item)
        BY <1>2, Zenon DEF TypeOK
      <4>2. \A s, t \in Seq(Item) : \A e \in Item : s \o Append(t, e) = Append(s \o t, e)
        BY ConcatAppend
      <4>. QED  BY <4>1, <4>2, Zenon
    <3>2. pending' = [pending EXCEPT ![NextWorker] = Append(pending[NextWorker], i)]
      BY <1>6, Zenon DEF PushPending
    <3>. QED  BY <1>1, <1>2, <3>1, <3>2, Zenon DEF Line, TypeOK
  <2>. QED  BY <1>1, <1>2, <1>5, <2>1, <2>2, Zenon DEF Promise!Assign
<1>7. CASE released' = [released EXCEPT ![i] = @ + 1] /\ UNCHANGED pending
  <2>1. Line' = Line
    BY <1>1, <1>7, Zenon DEF Line
  <2>2. Gone' = Gone \union {i}
    <3>1. \A w \in Worker : i \notin Range(served[w])
      BY <1>5, SameRange DEF Promise!Taken
    <3>2. released'[i] > 0 /\ \A j \in Item : j # i => released'[j] = released[j]
      BY <1>7 DEF TypeOK
    <3>. QED  BY <1>1, <3>1, <3>2, Zenon DEF Gone
  <2>. QED  BY <1>1, <1>5, <2>1, <2>2, Zenon DEF Promise!Refuse
<1>. QED  BY <1>2, <1>4, <1>6, <1>7, Zenon

(* The take of the pending list is invisible.                              *)
LEMMA TakeStep ==
  ASSUME TypeOK, OwnInv, NEW w \in Worker, WorkerTakePending(w)
  PROVE  UNCHANGED Promise!hvars
<1>1. /\ taken' = [taken EXCEPT ![w] = pending[w]] /\ pending' = [pending EXCEPT ![w] = <<>>]
      /\ UNCHANGED <<served, released, mpc>> /\ taken[w] = <<>>
  BY Zenon DEF WorkerTakePending, OwnInv, EmptyInv
<1>2. taken[w] \o pending[w] = pending[w] /\ pending[w] \o <<>> = pending[w]
  BY <1>1, ConcatEmptySeq, Zenon DEF TypeOK
<1>3. Line' = Line
  BY <1>1, <1>2, Zenon DEF Line, TypeOK
<1>. QED  BY <1>1, <1>3, Zenon DEF Promise!hvars, Gone, Open

(* A message that is processed is the next of the worker's line.           *)
LEMMA ProcessStep ==
  ASSUME TypeOK, OwnInv, NEW w \in Worker, WorkerProcessMsg(w)
  PROVE  Promise!Serve(w)
<1>. DEFINE i == Head(taken[w])
<1>1. /\ taken[w] \in Seq(Item) /\ pending[w] \in Seq(Item) /\ taken[w] # <<>>
      /\ taken' = [taken EXCEPT ![w] = Tail(taken[w])]
      /\ served' = [served EXCEPT ![w] = Append(served[w], i)]
      /\ UNCHANGED <<pending, mpc>>
      /\ i \in Item /\ 1 \in DOMAIN taken[w] /\ taken[w][1] = i
  BY DEF WorkerProcessMsg, TypeOK
<1>2. /\ Line[w] # <<>> /\ Head(Line[w]) = i
      /\ Tail(taken[w]) \o pending[w] = Tail(Line[w])
  BY <1>1, ConcatHeadTail, Zenon DEF Line
<1>3. Line' = [Line EXCEPT ![w] = Tail(@)]
  BY <1>1, <1>2, Zenon DEF Line, TypeOK
<1>4. Gone' = Gone
  <2>1. released[i] = 0
    BY <1>1 DEF OwnInv, OneOwner, ListOf, Lists
  <2>2. \A j \in Item : j # i => released'[j] = released[j]
    BY <1>1, Zenon DEF WorkerProcessMsg, TypeOK
  <2>. HIDE DEF i
  <2>3. Range(served'[w]) = Range(served[w]) \union {i}
    <3>1. served[w] \in Seq(Item) /\ served'[w] = Append(served[w], i)
      BY <1>1, Zenon DEF TypeOK
    <3>. QED  BY <1>1, <3>1, AppendSet
  <2>4. \A v \in Worker : v # w => served'[v] = served[v]
    BY <1>1, Zenon DEF TypeOK
  <2>6. \A j \in Item : j # i => \A v \in Worker : j \in Range(served'[v]) <=> j \in Range(served[v])
    BY <2>3, <2>4, Zenon
  <2>7. \A j \in Item : j \in Gone' <=> j \in Gone
    BY <1>1, <2>1, <2>2, <2>3, <2>6 DEF Gone
  <2>. QED  BY <2>7, Zenon DEF Gone
<1>. QED  BY <1>1, <1>2, <1>3, <1>4, Zenon DEF Promise!Serve, Open

(* worker_free gives up what is left of a line.                            *)
LEMMA FreeStep ==
  ASSUME TypeOK, PoolInv, OwnInv, WorkerFree
  PROVE  Promise!GiveUp(mi) \/ Promise!Close \/ UNCHANGED Promise!hvars
<1>1. /\ mi \in Worker /\ UNCHANGED <<taken, served>> /\ ~started[mi]
      /\ mpc \in {"free", "undoInit"}
      /\ pending' = [pending EXCEPT ![mi] = <<>>]
      /\ released' = [i \in Item |-> released[i] + (IF i \in Range(pending[mi]) THEN 1 ELSE 0)]
      /\ pending[mi] \in Seq(Item)
  BY Zenon DEF WorkerFree, TypeOK
<1>2. Open' => Open
  BY Zenon DEF WorkerFree, Open, Upward, Downward
<1>3. CASE pending[mi] = <<>>
  <2>1. pending' = pending /\ released' = released
    BY <1>1, <1>3 DEF TypeOK, Range
  <2>. QED  BY <1>1, <1>2, <2>1, QuietStep, Zenon DEF queues
<1>4. CASE pending[mi] # <<>>
  <2>1. ~Open /\ ~Open'
    BY <1>1, <1>2, <1>4, Zenon DEF OwnInv, EmptyInv, Open
  <2>2. taken[mi] = <<>>
    BY <1>1, Zenon DEF PoolInv, ThreadInv, Running, OwnInv, EmptyInv
  <2>3. Line[mi] = pending[mi] /\ taken[mi] \o <<>> = <<>>
    BY <1>1, <2>2, ConcatEmptySeq, EmptySeq, Zenon DEF Line
  <2>4. Line' = [Line EXCEPT ![mi] = <<>>]
    BY <1>1, <2>3, Zenon DEF Line, TypeOK
  <2>5. \A i \in Range(pending[mi]) : i \in Item /\ \A w \in Worker : i \notin Range(served[w])
    BY <1>1 DEF OwnInv, OneOwner, ListOf, Lists, Range
  <2>6. \A i \in Item : released'[i] > 0 <=> released[i] > 0 \/ i \in Range(pending[mi])
    BY <1>1 DEF TypeOK
  <2>7. Gone' = Gone \union Range(pending[mi])
    BY <1>1, <2>5, <2>6, Zenon DEF Gone
  <2>8. Open' = Open /\ served' = served
    BY <1>1, <2>1, Zenon DEF Open
  <2>9. Line[mi] # <<>> /\ Gone' = Gone \union Promise!Range(Line[mi])
    BY <1>4, <2>3, <2>7, SameRange, Zenon
  <2>. QED  BY <1>1, <2>1, <2>4, <2>8, <2>9, Zenon DEF Promise!GiveUp
<1>. QED  BY <1>3, <1>4, Zenon

(* Every step of every thread is a step of Handoff, or none.               *)
LEMMA HandoffStep ==
  TypeOK /\ PoolInv /\ OwnInv /\ [Next]_vars => [Promise!HandoffNext]_(Promise!hvars)
<1>. SUFFICES ASSUME TypeOK, PoolInv, OwnInv, [Next]_vars
              PROVE  Promise!HandoffNext \/ UNCHANGED Promise!hvars
  OBVIOUS
<1>1. CASE \/ WorkerInit \/ WorkerStart \/ LoopExit \/ NotifyWorker \/ WorkerStop
           \/ WorkerJoin \/ FreeRoutes \/ UNCHANGED vars
           \/ \E w \in Worker : WorkerNotifyCb(w) \/ DrainNotifyFd(w) \/ WorkerCheckStopping(w)
  <2>1. UNCHANGED <<queues, released>>
    <3>1. CASE \E w \in Worker : WorkerNotifyCb(w) \/ DrainNotifyFd(w) \/ WorkerCheckStopping(w)
      BY <3>1, Zenon DEF WorkerNotifyCb, DrainNotifyFd, WorkerCheckStopping, queues
    <3>2. CASE WorkerInit \/ WorkerStart \/ LoopExit \/ NotifyWorker
      BY <3>2, Zenon DEF WorkerInit, WorkerStart, LoopExit, NotifyWorker, queues
    <3>3. CASE WorkerStop \/ WorkerJoin \/ FreeRoutes \/ UNCHANGED vars
      BY <3>3, Zenon DEF WorkerStop, WorkerJoin, FreeRoutes, vars, queues
    <3>. QED  BY <1>1, <3>1, <3>2, <3>3, Zenon
  <2>2. Open' => Open
    BY <1>1, Zenon DEF WorkerInit, WorkerStart, LoopExit, NotifyWorker, WorkerStop, WorkerJoin,
                FreeRoutes, WorkerNotifyCb, DrainNotifyFd, WorkerCheckStopping, vars,
                Upward, Downward, Open
  <2>3. Promise!Close \/ UNCHANGED Promise!hvars
    BY <2>1, <2>2, QuietStep, Zenon
  <2>. QED  BY <2>3, Zenon DEF Promise!HandoffNext
<1>2. ASSUME NEW i \in Item, AcceptCb(i) \/ ListenReadCb(i) PROVE Promise!HandoffNext
  BY <1>2, ArrivalStep, Zenon DEF Promise!HandoffNext
<1>3. ASSUME NEW w \in Worker, WorkerTakePending(w) PROVE UNCHANGED Promise!hvars
  BY <1>3, TakeStep, Zenon
<1>4. ASSUME NEW w \in Worker, WorkerProcessMsg(w) PROVE Promise!HandoffNext
  BY <1>4, ProcessStep, Zenon DEF Promise!HandoffNext
<1>5. CASE WorkerFree
  BY <1>5, FreeStep, Zenon DEF Promise!HandoffNext, TypeOK
<1>. QED
  BY <1>1, <1>2, <1>3, <1>4, <1>5, Zenon DEF Next, MainThread, WorkerThread, Terminated

(* The pool keeps Handoff's promise of safety: an item goes to one worker, *)
(* is served in the order of arrival, at most once, and is refused only on *)
(* arrival and given up only by a shutdown.                                *)
THEOREM PoolHandsOff == Spec => SafeHandoff
  BY HandoffBegins, HandoffStep, OwnershipInvariant, PTL
  DEF Spec, SafeHandoff, Promise!HandoffSafety
=============================================================================
