--------------------------- MODULE DatagramRoute ---------------------------
(***************************************************************************)
(* One datagram route: datagram_client.c and the packet path of            *)
(* datagram_listener.c.  Every client address has a datagram_client with a *)
(* connected socket to the upstream.  The clients are shared by all        *)
(* workers under clients_mu; the socket of a client is watched by the      *)
(* event loop of the worker that created it.                               *)
(*                                                                         *)
(* Each action is one critical section of clients_mu, or a step outside of *)
(* it.  Memory and descriptors are reused: Chunk is what calloc may        *)
(* return, Fd what socket(2) may return.  With a Unix upstream the socket  *)
(* of a client is bound to a path named after the client's chunk, which is *)
(* where the upstream answers to.                                          *)
(***************************************************************************)
EXTENDS Integers, Functions, FiniteSets

CONSTANTS
  Worker, Addr, Chunk, Fd,
  Pools,       \* the sets of workers a pool may consist of
  IDLE,        \* opts.idle_timeout_sec
  MaxTime,     \* bound on the clock
  MaxReplies,  \* bound on the replies waiting in one socket
  None         \* no packet, no time

ASSUME DatagramRouteAssumption ==
  /\ IDLE \in Nat /\ MaxTime \in Nat /\ MaxReplies \in Nat
  /\ Pools \subseteq SUBSET Worker
  /\ None \notin Addr \union Nat \union [chunk : Chunk, fd : Fd]

VARIABLES
  pool,       \* the workers of this process
  unix,       \* route->upstream is a Unix datagram socket
  freed,      \* free_datagram_route has run
  clients,    \* ctx->clients: a record for each chunk that is on the list
  open,       \* descriptors of upstream sockets that are open
  paths,      \* chunks whose unix_local_path is in the file system
  stray,      \* those of them that an unlink, or an earlier process, left there
  inbox,      \* inbox[f]: replies waiting in socket f
  now,        \* time(NULL)
  wpc,        \* wpc[w]: "idle", "handle" a packet, "reply": waits for clients_mu
  pkt,        \* pkt[w]: the source address of the packet w is handling
  cb,         \* cb[w]: the arguments of upstream_read_cb: a chunk and a fd
  sentAt,     \* sentAt[a]: when a's last packet went to the upstream
  delivered   \* <<a, b>>: a reply to a's packets was sent to b

vars == <<pool, unix, freed, clients, open, paths, stray, inbox, now,
          wpc, pkt, cb, sentAt, delivered>>

Client == [addr : Addr, fd : Fd, owner : Worker, seen : Nat]
Listed == DOMAIN clients
Time == Nat \union {None}

(* Which values each variable takes.                                       *)
TypeOK ==
  /\ pool \subseteq Worker /\ unix \in BOOLEAN /\ freed \in BOOLEAN
  /\ Listed \subseteq Chunk /\ clients \in [Listed -> Client]
  /\ open \subseteq Fd
  /\ paths \subseteq Chunk /\ stray \subseteq Chunk
  /\ inbox \in [Fd -> Nat]
  /\ now \in Nat
  /\ wpc \in [Worker -> {"idle", "handle", "reply"}]
  /\ pkt \in [Worker -> Addr \union {None}]
  /\ cb \in [Worker -> [chunk : Chunk, fd : Fd] \union {None}]
  /\ sentAt \in [Addr -> Time]
  /\ delivered \subseteq Addr \X Addr

(* The list is empty.  A process that was killed and had the same pid may  *)
(* have left paths behind.                                                 *)
Init ==
  /\ pool \in Pools /\ unix \in BOOLEAN /\ freed = FALSE
  /\ stray \in (IF unix THEN SUBSET Chunk ELSE {{}}) /\ paths = stray
  /\ clients = [c \in {} |-> None]
  /\ open = {} /\ inbox = [f \in Fd |-> 0]
  /\ now = 0
  /\ wpc = [w \in Worker |-> "idle"]
  /\ pkt = [w \in Worker |-> None]
  /\ cb = [w \in Worker |-> None]
  /\ sentAt = [a \in Addr |-> None]
  /\ delivered = {}

-----------------------------------------------------------------------------
(* The end of free_datagram_client, for the clients of the chunks C: their *)
(* paths are unlinked.  The result is not looked at: any of them may fail. *)
UnlinkLocalPaths(C) ==
  \E done \in SUBSET C :
    /\ paths' = paths \ done
    /\ stray' = (stray \union (paths \intersect C)) \ done

(* The clients that have been idle for longer than the timeout.            *)
Expired == {c \in Listed : now - clients[c].seen > IDLE}

(* Worker w processes a packet from a, first part:                         *)
(* cleanup_idle_datagram_clients unlinks the clients that are idle and     *)
(* free_datagram_client frees their event, socket, path and memory,        *)
(* whichever worker created them.                                          *)
CleanupIdleDatagramClients(w, a) ==
  /\ ~freed /\ wpc[w] = "idle"
  /\ LET closed == {clients[c].fd : c \in Expired} IN
     /\ clients' = Restrict(clients, Listed \ Expired)
     /\ open' = open \ closed
     /\ inbox' = [f \in Fd |-> IF f \in closed THEN 0 ELSE inbox[f]]
  /\ UnlinkLocalPaths(Expired)
  /\ wpc' = [wpc EXCEPT ![w] = "handle"]
  /\ pkt' = [pkt EXCEPT ![w] = a]
  /\ UNCHANGED <<pool, unix, freed, now, cb, sentAt, delivered>>

FindOwnDatagramClient(w, a) == {c \in Listed : clients[c].addr = a /\ clients[c].owner = w}

(* find_datagram_client: the clients of address a.                         *)
FindDatagramClient(w, a) == {c \in Listed : clients[c].addr = a}

UseClientNoTouch(c) == clients' = clients

(* A client that was found is used: its last_seen is refreshed.            *)
UseClient(c) == clients' = [clients EXCEPT ![c].seen = now]

(* connect_datagram_upstream for the client in chunk c: a socket connected *)
(* to the upstream, under any free descriptor; for a Unix upstream bound   *)
(* to its own path, from which what was there before has been unlinked.    *)
ConnectDatagramUpstream(c, f) ==
  /\ f \in Fd \ open /\ open' = open \union {f}
  /\ IF unix THEN paths' = paths \union {c} /\ stray' = stray \ {c}
             ELSE UNCHANGED <<paths, stray>>

(* create_datagram_client: memory, a connected non-blocking socket, and an *)
(* event on the loop of the worker at hand; onto the list.                 *)
CreateDatagramClient(w, a) ==
  \E c \in Chunk \ Listed, f \in Fd :
    /\ ConnectDatagramUpstream(c, f)
    /\ clients' = [d \in Listed \union {c} |->
                     IF d = c THEN [addr |-> a, fd |-> f, owner |-> w, seen |-> now]
                              ELSE clients[d]]

(* Its early returns.  The socket is closed again.  The path may not have  *)
(* been reached; it has been unlinked at the latest by                     *)
(* free_datagram_client; or it was bound and this unlink fails.            *)
CreateDatagramClientFails ==
  /\ UNCHANGED <<clients, open>>
  /\ \/ UNCHANGED <<paths, stray>>
     \/ /\ unix
        /\ \E c \in Chunk \ Listed :
             \/ paths' = paths \ {c} /\ stray' = stray \ {c}
             \/ paths' = paths \union {c} /\ stray' = stray \union {c}

(* send_datagram_payload_to_upstream: it leaves through the client's       *)
(* socket; a failed send is logged and loses the datagram.                 *)
SendDatagramPayloadToUpstream(a) == sentAt' = [sentAt EXCEPT ![a] = now]

(* Second part, datagram_route_handle_packet: find or create the client    *)
(* and send the payload to the upstream.  When the client cannot be        *)
(* created, the packet is dropped.                                         *)
DatagramRouteHandlePacket(w) ==
  /\ wpc[w] = "handle"
  /\ LET a == pkt[w] IN
     \/ /\ \E c \in FindDatagramClient(w, a) : UseClient(c)
        /\ SendDatagramPayloadToUpstream(a)
        /\ UNCHANGED <<open, paths, stray>>
     \/ /\ FindDatagramClient(w, a) = {}
        /\ CreateDatagramClient(w, a)
        /\ SendDatagramPayloadToUpstream(a)
     \/ /\ FindDatagramClient(w, a) = {}
        /\ CreateDatagramClientFails
        /\ UNCHANGED sentAt
  /\ wpc' = [wpc EXCEPT ![w] = "idle"]
  /\ pkt' = [pkt EXCEPT ![w] = None]
  /\ UNCHANGED <<pool, unix, freed, inbox, now, cb, delivered>>

(* The upstream answers to one of the sockets, over its path when it is a  *)
(* Unix socket.  It answers packets of the socket's client: an answer that *)
(* arrives after the client was expired, and finds its port or its path in *)
(* use by another one, is left out.                                        *)
UpstreamReply(f) ==
  /\ f \in open /\ inbox[f] < MaxReplies
  /\ unix => \E c \in paths \intersect Listed : clients[c].fd = f
  /\ inbox' = [inbox EXCEPT ![f] = @ + 1]
  /\ UNCHANGED <<pool, unix, freed, clients, open, paths, stray, now>>
  /\ UNCHANGED <<wpc, pkt, cb, sentAt, delivered>>

(* Worker w finds the socket of its client c readable and enters           *)
(* upstream_read_cb, which reads c->ctx and then asks for clients_mu.      *)
UpstreamReadCb(w, c) ==
  /\ ~freed /\ wpc[w] = "idle" /\ c \in Listed
  /\ clients[c].owner = w /\ inbox[clients[c].fd] > 0
  /\ wpc' = [wpc EXCEPT ![w] = "reply"]
  /\ cb' = [cb EXCEPT ![w] = [chunk |-> c, fd |-> clients[c].fd]]
  /\ UNCHANGED <<pool, unix, freed, clients, open, paths, stray, inbox, now>>
  /\ UNCHANGED <<pkt, sentAt, delivered>>

ClientAddrOfRoute(c) == {clients[d].addr : d \in Listed}

(* c->client_addr, as upstream_read_cb reads it: memory that has been      *)
(* freed may hold anything.                                                *)
ClientAddr(c) == IF c \in Listed THEN {clients[c].addr} ELSE Addr

(* The loop of upstream_read_cb under clients_mu: replies are read from fd *)
(* and sent to the client, until none is left or a send fails.             *)
UpstreamReadLoop(w) ==
  /\ wpc[w] = "reply"
  /\ LET f == cb[w].fd IN
     IF f \in open /\ inbox[f] > 0
     THEN /\ \E left \in 0..(inbox[f] - 1) : inbox' = [inbox EXCEPT ![f] = left]
          /\ \/ \E d \in Listed, b \in ClientAddr(cb[w].chunk) :
                  clients[d].fd = f /\ delivered' = delivered \union {<<clients[d].addr, b>>}
             \/ UNCHANGED delivered
     ELSE UNCHANGED <<inbox, delivered>>
  /\ wpc' = [wpc EXCEPT ![w] = "idle"]
  /\ cb' = [cb EXCEPT ![w] = None]
  /\ UNCHANGED <<pool, unix, freed, clients, open, paths, stray, now, pkt, sentAt>>

FreeDatagramRouteKeepsSockets ==
  /\ ~freed /\ \A w \in pool : wpc[w] = "idle"
  /\ clients' = [c \in {} |-> None] /\ inbox' = [f \in Fd |-> 0]
  /\ freed' = TRUE
  /\ UnlinkLocalPaths(Listed)
  /\ UNCHANGED <<pool, unix, open, now, wpc, pkt, cb, sentAt, delivered>>

(* free_datagram_route, once the threads of the pool have been joined:     *)
(* every client goes, with its event, socket, path and memory.             *)
FreeDatagramRoute ==
  /\ ~freed /\ \A w \in pool : wpc[w] = "idle"
  /\ clients' = [c \in {} |-> None] /\ inbox' = [f \in Fd |-> 0]
  /\ open' = open \ {clients[c].fd : c \in Listed}
  /\ freed' = TRUE
  /\ UnlinkLocalPaths(Listed)
  /\ UNCHANGED <<pool, unix, now, wpc, pkt, cb, sentAt, delivered>>

Tick ==
  /\ ~freed /\ now < MaxTime /\ now' = now + 1
  /\ UNCHANGED <<pool, unix, freed, clients, open, paths, stray, inbox>>
  /\ UNCHANGED <<wpc, pkt, cb, sentAt, delivered>>

WorkerStep(w) == DatagramRouteHandlePacket(w) \/ UpstreamReadLoop(w)

Next ==
  \/ \E w \in pool, a \in Addr : CleanupIdleDatagramClients(w, a)
  \/ \E w \in pool : WorkerStep(w)
  \/ \E w \in pool, c \in Chunk : UpstreamReadCb(w, c)
  \/ \E f \in Fd : UpstreamReply(f)
  \/ FreeDatagramRoute
  \/ Tick

Spec == Init /\ [][Next]_vars

(* Threads run, time passes, a readable socket is served; no packet is     *)
(* owed to the route.                                                      *)
Fairness ==
  /\ WF_vars(Tick)
  /\ \A w \in Worker : WF_vars(w \in pool /\ WorkerStep(w))
  /\ \A w \in Worker, c \in Chunk : WF_vars(w \in pool /\ UpstreamReadCb(w, c))

FairSpec == Spec /\ Fairness

-----------------------------------------------------------------------------
(* docs/tinyproxy.7: "One upstream UDP socket per observed client          *)
(* address", however many workers handle packets of one address at the     *)
(* same time, and no two clients share a socket.                           *)
OneClientPerAddress ==
  \A c, d \in Listed :
    c # d => clients[c].addr # clients[d].addr /\ clients[c].fd # clients[d].fd

(* Sockets do not leak, also not when a client cannot be created or the    *)
(* route is freed: the open ones are those of the listed clients.  With a  *)
(* Unix upstream every listed client has its path, whatever became of      *)
(* earlier clients in the same memory, and no other path is there but the  *)
(* ones an unlink, or an earlier process, left behind.                     *)
SocketsOwned ==
  /\ open = {clients[c].fd : c \in Listed}
  /\ paths = stray \union (IF unix THEN Listed ELSE {})

(* A mapping in use is kept: within the idle timeout after the last packet *)
(* of an address went out, its client is there to take the reply.          *)
MappingKept ==
  \A a \in Addr :
    ~freed /\ sentAt[a] # None /\ now - sentAt[a] <= IDLE
      => \E c \in Listed : clients[c].addr = a

SingleWorker == \A v, w \in pool : v = w

(* docs/tinyproxy.7: the mapping is kept "so upstream replies can be sent  *)
(* back to the correct original client address".                           *)
ReplyToOriginalClient == \A d \in delivered : d[1] = d[2]

(* The same of a process with one worker, where it holds.                  *)
ReplyToOriginalClientAlone == SingleWorker => ReplyToOriginalClient

-----------------------------------------------------------------------------
(* The client of the last packet of an address bears that packet's time,   *)
(* until it may be expired.                                                *)
MappingInv ==
  \A a \in Addr :
    \/ freed
    \/ sentAt[a] = None
    \/ now - sentAt[a] > IDLE
    \/ \E c \in Listed : clients[c].addr = a /\ clients[c].seen = sentAt[a]

(* What a worker holds between its critical sections.                      *)
WorkerInv ==
  \A w \in Worker :
    /\ wpc[w] = "handle" => pkt[w] \in Addr
    /\ wpc[w] = "reply" => cb[w] # None

(* What every step preserves, with any number of workers.                  *)
IndInv == TypeOK /\ OneClientPerAddress /\ SocketsOwned /\ MappingInv /\ WorkerInv

(* A callback that waits for clients_mu still has its client and its       *)
(* socket when it gets it: with one worker nobody can free them.           *)
CallbackClientAlive ==
  SingleWorker =>
    \A w \in pool :
      wpc[w] = "reply" => /\ cb[w].chunk \in Listed
                          /\ clients[cb[w].chunk].fd = cb[w].fd

-----------------------------------------------------------------------------
(* docs/tinyproxy.7: "Idle client mappings are expired after a timeout".   *)
IdleMappingExpires ==
  \A c \in Chunk : (c \in Listed /\ c \in Expired) ~> c \notin Listed
=============================================================================
