------------------------ MODULE DatagramRouteProofs ------------------------
(***************************************************************************)
(* Proofs about DatagramRoute: for any number of workers, addresses,       *)
(* chunks and descriptors.                                                 *)
(***************************************************************************)
EXTENDS DatagramRoute, TLAPS

(* The empty client list satisfies the invariant.                          *)
LEMMA InitIndInv == Init => IndInv
<1>. SUFFICES ASSUME Init PROVE IndInv
  OBVIOUS
<1>1. pool \subseteq Worker /\ unix \in BOOLEAN /\ freed \in BOOLEAN
  BY DatagramRouteAssumption, Zenon DEF Init
<1>. QED
  BY <1>1 DEF Init, IndInv, TypeOK, OneClientPerAddress, SocketsOwned, MappingInv,
              WorkerInv, Listed, Time, Client

(* Freeing clients unlinks their paths, or leaves them to be stray.        *)
LEMMA UnlinkKeepsPaths ==
  ASSUME IndInv, NEW C, C \subseteq Listed, UnlinkLocalPaths(C),
         Listed' = Listed \ C, UNCHANGED unix
  PROVE  /\ paths' \subseteq Chunk /\ stray' \subseteq Chunk
         /\ paths' = stray' \union (IF unix' THEN Listed' ELSE {})
<1>1. /\ paths \subseteq Chunk /\ stray \subseteq Chunk
      /\ paths = stray \union (IF unix THEN Listed ELSE {})
  BY DEF IndInv, TypeOK, SocketsOwned
<1>2. PICK done \in SUBSET C : /\ paths' = paths \ done
                               /\ stray' = (stray \union (paths \intersect C)) \ done
  BY DEF UnlinkLocalPaths
<1>3. CASE unix
  BY <1>1, <1>2, <1>3
<1>4. CASE ~unix
  BY <1>1, <1>2, <1>4
<1>. QED  BY <1>3, <1>4

(* Expiring clients keeps the list and the sockets in step, and removes no *)
(* mapping that is in use.                                                 *)
LEMMA CleanupIndInv ==
  ASSUME NEW w \in Worker, NEW a \in Addr, IndInv, CleanupIdleDatagramClients(w, a)
  PROVE  IndInv'
<1>. DEFINE kept == Listed \ Expired
<1>1. /\ Listed' = kept
      /\ \A c \in kept : clients'[c] = clients[c]
      /\ clients' = [c \in kept |-> clients[c]]
  BY DEF CleanupIdleDatagramClients, Restrict, Listed
<1>2. /\ open' = open \ {clients[c].fd : c \in Expired}
      /\ inbox' = [f \in Fd |-> IF f \in {clients[c].fd : c \in Expired} THEN 0 ELSE inbox[f]]
      /\ wpc' = [wpc EXCEPT ![w] = "handle"] /\ pkt' = [pkt EXCEPT ![w] = a]
      /\ UNCHANGED <<pool, unix, freed, now, cb, sentAt, delivered>>
  BY DEF CleanupIdleDatagramClients
<1>p. /\ paths' \subseteq Chunk /\ stray' \subseteq Chunk
      /\ paths' = stray' \union (IF unix' THEN Listed' ELSE {})
  <2>1. UnlinkLocalPaths(Expired) /\ Expired \subseteq Listed
    BY DEF CleanupIdleDatagramClients, Expired
  <2>. QED  BY <1>1, <1>2, <2>1, UnlinkKeepsPaths
<1>3. TypeOK'
  BY <1>1, <1>2, <1>p DEF IndInv, TypeOK, Expired, Time
<1>4. OneClientPerAddress'
  BY <1>1 DEF IndInv, OneClientPerAddress
<1>5. SocketsOwned'
  <2>1. open' = {clients'[c].fd : c \in Listed'}
    BY <1>1, <1>2 DEF IndInv, OneClientPerAddress, SocketsOwned, Expired
  <2>. QED  BY <2>1, <1>p, Zenon DEF SocketsOwned
<1>6. MappingInv'
  BY <1>1, <1>2 DEF IndInv, TypeOK, Client, MappingInv, Expired, Time
<1>7. WorkerInv'
  BY <1>2 DEF IndInv, TypeOK, WorkerInv
<1>. QED  BY <1>3, <1>4, <1>5, <1>6, <1>7 DEF IndInv

(* Handling a packet adds at most one client, for an address without one.  *)
LEMMA HandleIndInv ==
  ASSUME NEW w \in Worker, IndInv, DatagramRouteHandlePacket(w)
  PROVE  IndInv'
<1>. DEFINE a == pkt[w]
<1>0. a \in Addr /\ now \in Nat
  BY DEF IndInv, TypeOK, WorkerInv, DatagramRouteHandlePacket
<1>1. /\ wpc' = [wpc EXCEPT ![w] = "idle"] /\ pkt' = [pkt EXCEPT ![w] = None]
      /\ UNCHANGED <<pool, unix, freed, inbox, now, cb, delivered>>
  BY DEF DatagramRouteHandlePacket
<1>2. WorkerInv'
  BY <1>1 DEF IndInv, TypeOK, WorkerInv
<1>3. ASSUME NEW c \in FindDatagramClient(w, a), UseClient(c),
             sentAt' = [sentAt EXCEPT ![a] = now], UNCHANGED <<open, paths, stray>>
      PROVE  IndInv'
  <2>1. c \in Listed /\ clients[c].addr = a /\ clients[c] \in Client
    BY <1>3 DEF FindDatagramClient, IndInv, TypeOK
  <2>2. /\ Listed' = Listed
        /\ \A d \in Listed : d # c => clients'[d] = clients[d]
        /\ clients'[c] = [clients[c] EXCEPT !.seen = now]
        /\ clients' = [clients EXCEPT ![c] = [clients[c] EXCEPT !.seen = now]]
    BY <1>3, <2>1 DEF UseClient, Listed, IndInv, TypeOK
  <2>3. /\ clients'[c] \in Client /\ clients'[c].seen = now
        /\ clients'[c].addr = a /\ clients'[c].fd = clients[c].fd
    BY <1>0, <2>1, <2>2 DEF Client
  <2>4. \A d \in Listed : clients'[d].addr = clients[d].addr /\ clients'[d].fd = clients[d].fd
    BY <2>1, <2>2, <2>3
  <2>5. TypeOK'
    BY <1>0, <1>1, <1>3, <2>2, <2>3, Zenon DEF IndInv, TypeOK, Time
  <2>6. OneClientPerAddress' /\ SocketsOwned'
    BY <1>1, <1>3, <2>2, <2>4 DEF IndInv, OneClientPerAddress, SocketsOwned
  <2>7. MappingInv'
    <3>1. \A b \in Addr : b # a => sentAt'[b] = sentAt[b]
      BY <1>3 DEF IndInv, TypeOK
    <3>2. sentAt'[a] = now
      BY <1>0, <1>3 DEF IndInv, TypeOK
    <3>3. ASSUME NEW b \in Addr, b # a, NEW d \in Listed,
                 clients[d].addr = b, clients[d].seen = sentAt[b]
          PROVE  clients'[d].addr = b /\ clients'[d].seen = sentAt'[b]
      BY <2>1, <2>2, <3>1, <3>3
    <3>4. \A b \in Addr : b # a =>
            \/ freed'
            \/ sentAt'[b] = None
            \/ now' - sentAt'[b] > IDLE
            \/ \E d \in Listed' : clients'[d].addr = b /\ clients'[d].seen = sentAt'[b]
      BY <1>1, <2>2, <3>1, <3>3 DEF IndInv, MappingInv
    <3>. QED  BY <2>1, <2>2, <2>3, <3>2, <3>4, Zenon DEF MappingInv
  <2>. QED  BY <1>2, <2>5, <2>6, <2>7 DEF IndInv
<1>4. ASSUME FindDatagramClient(w, a) = {}, CreateDatagramClient(w, a),
             sentAt' = [sentAt EXCEPT ![a] = now]
      PROVE  IndInv'
  <2>1. PICK c \in Chunk \ Listed, f \in Fd \ open :
          /\ clients' = [d \in Listed \union {c} |->
                           IF d = c THEN [addr |-> a, fd |-> f, owner |-> w, seen |-> now]
                                    ELSE clients[d]]
          /\ open' = open \union {f}
          /\ IF unix THEN paths' = paths \union {c} /\ stray' = stray \ {c}
                     ELSE UNCHANGED <<paths, stray>>
    BY <1>4 DEF CreateDatagramClient, ConnectDatagramUpstream
  <2>2. /\ Listed' = Listed \union {c}
        /\ \A d \in Listed : clients'[d] = clients[d]
        /\ clients'[c] = [addr |-> a, fd |-> f, owner |-> w, seen |-> now]
    BY <2>1 DEF Listed
  <2>3. clients'[c] \in Client /\ \A d \in Listed : clients[d].addr # a /\ clients[d].fd # f
    BY <1>0, <1>4, <2>1, <2>2 DEF Client, FindDatagramClient, IndInv, SocketsOwned
  <2>4. TypeOK'
    BY <1>0, <1>1, <1>4, <2>1, <2>2, <2>3 DEF IndInv, TypeOK, Time
  <2>5. OneClientPerAddress' /\ SocketsOwned'
    <3>1. clients'[c].addr = a /\ clients'[c].fd = f
      BY <2>2
    <3>2. OneClientPerAddress'
      BY <2>2, <2>3, <3>1 DEF IndInv, OneClientPerAddress
    <3>3. open' = {clients'[d].fd : d \in Listed'}
      BY <2>1, <2>2, <3>1, Zenon DEF IndInv, SocketsOwned
    <3>4. paths' = stray' \union (IF unix' THEN Listed' ELSE {})
      BY <1>1, <2>1, <2>2 DEF IndInv, SocketsOwned
    <3>. QED  BY <3>2, <3>3, <3>4, Zenon DEF SocketsOwned
  <2>6. MappingInv'
    <3>1. \A b \in Addr : b # a => sentAt'[b] = sentAt[b]
      BY <1>4 DEF IndInv, TypeOK
    <3>2. sentAt'[a] = now
      BY <1>0, <1>4 DEF IndInv, TypeOK
    <3>. QED  BY <1>1, <2>2, <3>1, <3>2 DEF IndInv, MappingInv
  <2>. QED  BY <1>2, <2>4, <2>5, <2>6 DEF IndInv
<1>5. CASE CreateDatagramClientFails /\ UNCHANGED sentAt
  <2>1. UNCHANGED <<clients, open, sentAt>>
    BY <1>5 DEF CreateDatagramClientFails
  <2>2. /\ paths' \subseteq Chunk /\ stray' \subseteq Chunk
        /\ paths' = stray' \union (IF unix' THEN Listed' ELSE {})
    BY <1>1, <1>5 DEF CreateDatagramClientFails, IndInv, TypeOK, SocketsOwned, Listed
  <2>. QED
    BY <1>1, <1>2, <2>1, <2>2
       DEF IndInv, TypeOK, OneClientPerAddress, SocketsOwned, MappingInv, Listed
<1>. QED  BY <1>3, <1>4, <1>5 DEF DatagramRouteHandlePacket, SendDatagramPayloadToUpstream

(* Every step of every worker, of the upstream and of the clock preserves  *)
(* IndInv.                                                                 *)
LEMMA NextIndInv == IndInv /\ [Next]_vars => IndInv'
<1>. SUFFICES ASSUME IndInv, [Next]_vars PROVE IndInv'
  OBVIOUS
<1>. USE DEF IndInv, TypeOK, OneClientPerAddress, SocketsOwned, MappingInv, WorkerInv, Listed
<1>1. ASSUME NEW w \in pool, NEW a \in Addr, CleanupIdleDatagramClients(w, a)
      PROVE  IndInv'
  BY <1>1, CleanupIndInv
<1>2. ASSUME NEW w \in pool, DatagramRouteHandlePacket(w) PROVE IndInv'
  BY <1>2, HandleIndInv
<1>3. ASSUME NEW w \in pool, UpstreamReadLoop(w) PROVE IndInv'
  <2>1. UNCHANGED <<pool, unix, freed, clients, open, paths, stray, now, pkt, sentAt>>
    BY <1>3 DEF UpstreamReadLoop
  <2>2. inbox' \in [Fd -> Nat]
    BY <1>3 DEF UpstreamReadLoop
  <2>3. delivered' \subseteq Addr \X Addr
    <3>1. \A d \in Listed : clients[d].addr \in Addr
      BY DEF Client
    <3>2. \A c : ClientAddr(c) \subseteq Addr
      BY <3>1 DEF ClientAddr
    <3>. QED  BY <1>3, <3>1, <3>2 DEF UpstreamReadLoop
  <2>4. wpc' = [wpc EXCEPT ![w] = "idle"] /\ cb' = [cb EXCEPT ![w] = None]
    BY <1>3 DEF UpstreamReadLoop
  <2>. QED  BY <2>1, <2>2, <2>3, <2>4
<1>4. ASSUME NEW w \in pool, NEW c \in Chunk, UpstreamReadCb(w, c) PROVE IndInv'
  <2>1. /\ UNCHANGED <<pool, unix, freed, clients, open, paths, stray, inbox, now>>
        /\ UNCHANGED <<pkt, sentAt, delivered>>
    BY <1>4 DEF UpstreamReadCb
  <2>2. [chunk |-> c, fd |-> clients[c].fd] \in [chunk : Chunk, fd : Fd]
    BY <1>4 DEF UpstreamReadCb, Client
  <2>3. /\ wpc' = [wpc EXCEPT ![w] = "reply"]
        /\ cb' = [cb EXCEPT ![w] = [chunk |-> c, fd |-> clients[c].fd]]
    BY <1>4 DEF UpstreamReadCb
  <2>4. [chunk |-> c, fd |-> clients[c].fd] # None
    BY <2>2, DatagramRouteAssumption
  <2>. QED  BY <2>1, <2>2, <2>3, <2>4
<1>5. ASSUME NEW f \in Fd, UpstreamReply(f) PROVE IndInv'
  BY <1>5 DEF UpstreamReply
<1>6. CASE Tick
  <2>1. /\ UNCHANGED <<pool, unix, freed, clients, open, paths, stray, inbox>>
        /\ UNCHANGED <<wpc, pkt, cb, sentAt, delivered>> /\ now' = now + 1
    BY <1>6 DEF Tick
  <2>2. MappingInv'
    BY <2>1, DatagramRouteAssumption DEF Time
  <2>. QED  BY <2>1, <2>2
<1>7. CASE FreeDatagramRoute
  <2>1. /\ Listed' = {} /\ open' = {} /\ freed'
        /\ clients' = [c \in {} |-> None] /\ inbox' = [f \in Fd |-> 0]
        /\ UNCHANGED <<pool, unix, now, wpc, pkt, cb, sentAt, delivered>>
    BY <1>7 DEF FreeDatagramRoute
  <2>2. freed' = TRUE
    BY <1>7 DEF FreeDatagramRoute
  <2>3. /\ paths' \subseteq Chunk /\ stray' \subseteq Chunk
        /\ paths' = stray' \union (IF unix' THEN Listed' ELSE {})
    <3>1. UnlinkLocalPaths(Listed) /\ Listed' = Listed \ Listed
      BY <1>7, <2>1 DEF FreeDatagramRoute
    <3>. QED  BY <2>1, <3>1, UnlinkKeepsPaths
  <2>. QED  BY <2>1, <2>2, <2>3
<1>8. CASE UNCHANGED vars
  BY <1>8 DEF vars
<1>. QED  BY <1>1, <1>2, <1>3, <1>4, <1>5, <1>6, <1>7, <1>8 DEF Next, WorkerStep

-----------------------------------------------------------------------------
(* IndInv is an invariant with any number of workers.                      *)
THEOREM IndInvariant == Spec => []IndInv
  BY InitIndInv, NextIndInv, PTL DEF Spec

(* Every variable of a datagram route keeps its type.                      *)
THEOREM TypeCorrect == Spec => []TypeOK
<1>1. IndInv => TypeOK
  BY DEF IndInv
<1>. QED  BY <1>1, IndInvariant, PTL

(* Each client address has at most one client and one upstream socket.     *)
THEOREM OneSocketPerAddress == Spec => []OneClientPerAddress
<1>1. IndInv => OneClientPerAddress
  BY DEF IndInv
<1>. QED  BY <1>1, IndInvariant, PTL

(* No socket outlives its client, and no client its socket.                *)
THEOREM NoSocketLeak == Spec => []SocketsOwned
<1>1. IndInv => SocketsOwned
  BY DEF IndInv
<1>. QED  BY <1>1, IndInvariant, PTL

(* The client of an address stays for the idle timeout after the address's *)
(* last packet.                                                            *)
THEOREM MappingStays == Spec => []MappingKept
<1>1. IndInv => MappingKept
  BY DatagramRouteAssumption DEF IndInv, TypeOK, Time, MappingInv, MappingKept
<1>. QED  BY <1>1, IndInvariant, PTL

-----------------------------------------------------------------------------
(* A single worker cannot free a client while its callback waits.          *)
LEMMA NextCallbackClientAlive == IndInv /\ CallbackClientAlive /\ [Next]_vars => CallbackClientAlive'
<1>. SUFFICES ASSUME IndInv, CallbackClientAlive, [Next]_vars, SingleWorker'
              PROVE  CallbackClientAlive'
  BY DEF CallbackClientAlive
<1>0. UNCHANGED pool
  BY DEF Next, WorkerStep, CleanupIdleDatagramClients, UpstreamReadCb, UpstreamReadLoop,
         DatagramRouteHandlePacket, UpstreamReply, FreeDatagramRoute, Tick, vars
<1>. USE <1>0 DEF SingleWorker, CallbackClientAlive, IndInv, TypeOK, Listed
<1>1. ASSUME NEW w \in pool, NEW a \in Addr, CleanupIdleDatagramClients(w, a)
      PROVE  CallbackClientAlive'
  BY <1>1 DEF CleanupIdleDatagramClients
<1>2. ASSUME NEW w \in pool, WorkerStep(w) PROVE CallbackClientAlive'
  BY <1>2 DEF WorkerStep, DatagramRouteHandlePacket, UpstreamReadLoop
<1>3. ASSUME NEW w \in pool, NEW c \in Chunk, UpstreamReadCb(w, c)
      PROVE  CallbackClientAlive'
  BY <1>3 DEF UpstreamReadCb
<1>4. ASSUME NEW f \in Fd, UpstreamReply(f) PROVE CallbackClientAlive'
  BY <1>4 DEF UpstreamReply
<1>5. CASE FreeDatagramRoute
  BY <1>5 DEF FreeDatagramRoute
<1>6. CASE Tick \/ UNCHANGED vars
  BY <1>6 DEF Tick, vars
<1>. QED  BY <1>1, <1>2, <1>3, <1>4, <1>5, <1>6 DEF Next

(* So its callback finds its client and its socket.                        *)
LEMMA SingleWorkerCallback == Spec => []CallbackClientAlive
<1>1. Init => CallbackClientAlive
  BY DatagramRouteAssumption DEF Init, CallbackClientAlive
<1>. QED  BY <1>1, NextCallbackClientAlive, IndInvariant, PTL DEF Spec

(* With a single worker every reply goes to the client whose packets it    *)
(* answers.                                                                *)
THEOREM SingleWorkerReplies == Spec => []ReplyToOriginalClientAlone
<1>1. Init => ReplyToOriginalClientAlone
  BY DEF Init, ReplyToOriginalClient, ReplyToOriginalClientAlone
<1>2. IndInv /\ CallbackClientAlive /\ ReplyToOriginalClientAlone /\ [Next]_vars
        => ReplyToOriginalClientAlone'
  <2>. SUFFICES ASSUME IndInv, CallbackClientAlive, ReplyToOriginalClientAlone,
                       [Next]_vars, SingleWorker'
                PROVE  ReplyToOriginalClient'
    BY DEF ReplyToOriginalClientAlone
  <2>0. UNCHANGED pool
    BY DEF Next, WorkerStep, CleanupIdleDatagramClients, UpstreamReadCb, UpstreamReadLoop,
           DatagramRouteHandlePacket, UpstreamReply, FreeDatagramRoute, Tick, vars
  <2>00. SingleWorker /\ ReplyToOriginalClient
    BY <2>0 DEF SingleWorker, ReplyToOriginalClientAlone
  <2>1. ASSUME NEW w \in pool, UpstreamReadLoop(w) PROVE ReplyToOriginalClient'
    <3>1. /\ cb[w].chunk \in Listed /\ clients[cb[w].chunk].fd = cb[w].fd
          /\ ClientAddr(cb[w].chunk) = {clients[cb[w].chunk].addr}
      BY <2>00, <2>1 DEF UpstreamReadLoop, CallbackClientAlive, ClientAddr
    <3>2. \A d \in Listed : clients[d].fd = cb[w].fd => d = cb[w].chunk
      BY <3>1 DEF IndInv, OneClientPerAddress
    <3>3. \/ delivered' = delivered
          \/ \E a \in Addr : delivered' = delivered \union {<<a, a>>}
      BY <2>1, <3>1, <3>2 DEF UpstreamReadLoop, IndInv, TypeOK, Client
    <3>. QED  BY <2>00, <3>3 DEF ReplyToOriginalClient
  <2>2. CASE UNCHANGED delivered
    BY <2>00, <2>2 DEF ReplyToOriginalClient
  <2>. QED
    BY <2>1, <2>2 DEF Next, WorkerStep, CleanupIdleDatagramClients, UpstreamReadCb,
       DatagramRouteHandlePacket, UpstreamReply, FreeDatagramRoute, Tick, vars
<1>. QED  BY <1>1, <1>2, SingleWorkerCallback, IndInvariant, PTL DEF Spec
=============================================================================
