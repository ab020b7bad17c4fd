# tinyproxy in TLA+

tinyproxy is an L4 proxy on libevent. This directory holds TLA+ modules of its
concurrent and time-dependent core, of a process's life from its configuration
to its exit, and of the formats it reads and writes; TLC configurations that
check them on small instances, and TLAPS proofs of their safety properties for
all values of the constants. `PROJECT.json` lists the components, runs, mutants, source map,
findings, hazards and theorems; this file explains them.

## The system

| Part | Source | Model |
|---|---|---|
| `main`: start, signals, shutdown | `tinyproxy.c`, `route_runtime.c`, `signals.c` | `RouteLifecycle`; the pool's part of it in `WorkerQueue` |
| binding and freeing of listeners | `bind.c`, `stream_listener.c`, `datagram_listener.c`, `stream_route.c`, `datagram_route.c` | `RouteLifecycle` |
| configuration | `file_conf.c`, `endpoint.c` | `RouteConfig` (words), `ConfSyntax` (letters) |
| worker pool and worker queues | `worker_pool.c`, `worker.c`, `accept_cb`, `listen_read_cb` | `WorkerQueue`, `Handoff`, `WorkerQueueRefinement` |
| stream connection and pipe | `stream_conn.c`, `stream_pipe.c` | `StreamConn` |
| stream builtins and file backend | `stream_builtin.c`, `stream_file.c`, `x_builtins.c` | `StreamBackend` |
| SNI sniffer | `stream_sniff.c` | `StreamSniff` |
| datagram clients and packets | `datagram_client.c`, `datagram_listener.c`, `datagram_route.c` | `DatagramRoute` |
| PROXY v2 header, raw replies | `proxy_proto_v2.c`, `datagram_raw.c` | `WireFormats` |
| datagram builtins, logging, environment, platform wrappers | `datagram_builtin.c`, `klog.c`, `route.c`, `env.c`, `compat*` | not modelled |

How they interact: the main thread runs one event loop with the listeners. It
accepts a connection or receives a datagram, picks a worker round robin,
appends a message to the worker's `pending` list under `pending_mu` and writes
a byte to the worker's notify socket. The worker's own event loop drains the
socket, takes the list and processes it: a connection becomes a `conn_t` whose
callbacks all run on this worker; a datagram looks up or creates a
`datagram_client` in the route's list, which the workers share under
`clients_mu`. On SIGINT/SIGTERM the main loop ends and `main` stops the
listeners, stops and joins the workers, frees routes and then workers. Several
processes meet in the kernel's addresses and in the file system's paths, most
of all in a rolling restart, where a new process starts before the old one ends.

## Modules

**`StreamConn`** is one proxied connection. Every libevent callback is one
action, because all run on one thread; what interleaves is the order of the
callbacks, the peers and time.

| State | Code |
|---|---|
| `st` | message queued / `conn_t` live / `free_conn` done |
| `up` | upstream socket: connecting, polled (readable and writable in one pass, CONNECTED not yet reported), connected, failed (lost before CONNECTED with bytes for the client queued) |
| `cEv`, `uEv` | directions enabled on `conn->client`, `conn->upstream` |
| `cOut`, `uOut` | lengths of the two output buffers |
| `drain`, `fin` | `close_client_after_drain`, `close_after_client_eof` |
| `touched` | `activity_seq != idle_check_seq` |
| `conRem`, `idleRem`, `cwRem` | connect timeout, `idle_ev`, close-wait timeout |
| `cKick`, `uEof`, `quiet` | a write event that is pending with empty output; the upstream has ended; silence so far (history) |

`WorkerAdoptClientFd`/`AdoptFails` are `worker_adopt_client_fd` and its error
paths; `Pipe...Cb` the four callbacks of `stream_pipe.c`; `Upstream...` and
`Client...` the branches of the two event callbacks; `ConnIdleTimeoutCb` the
idle timer; `Tick` the clock. Bytes are counted and not named.

**`StreamBackend`** is a connection served inside the proxy: six builtins and
the file backend, with read and write timeouts in place of the idle timer.
`Fill` is the loop of `file_write_cb`. `FreeConn` is `free_conn`, which knows
nothing of the file; `FileDone` is `file_done`, which closes it first; an event
of the client (`EventFrees`) runs one or the other. `sock` counts client bytes the kernel
holds unread, since closing a socket with such bytes makes the kernel reset it.
`sent`, `failed` and `quiet` are history.

**`WorkerQueue`** is the pool over its whole life: init and start with their
undoing, the loop, stop, join, free (`mpc`, `mi` say where `main` is), and each
worker thread (`wpc`). A step is what a thread does between two points where
others can interfere: a critical section of `pending_mu`, one `send`, one
`recv`, one message. The branch of `worker_enqueue_*` for a stopping worker
(`ECANCELED`) is part of the action and is never taken, since `main` both
enqueues and stops.

**`Handoff`** is what the queues promise: one worker per item, arrival order,
nothing stands still, and only a shutdown gives items up. In
**`WorkerQueueRefinement`** the line of a worker is `taken \o pending`;
`SafeHandoff` is the refinement without fairness, `ImplementsHandoff` with it.

**`DatagramRoute`** is one datagram route with one or several workers, from its
start to `FreeDatagramRoute`, to a UDP or to a Unix upstream (`unix`). With a Unix
upstream every client also has a path to be answered at (`paths`), named after
the process and the client's memory, so a process that was killed may have left
one with the same name (`stray`); it is removed before the bind, and an `unlink`
that fails leaves one more. Each action is one
critical section of `clients_mu`, or a step outside of it. Memory (`Chunk`) and
descriptors (`Fd`) are reused, as `calloc` and `socket` do: a callback that
waits for the mutex holds a pair of them (`cb`) that may mean something else by
the time it runs. `sentAt` and `delivered` are history.

**`RouteConfig`** has the configuration as operators on the words of a line:
which endpoints, options and lines are accepted and what is stored for them,
which routes conflict, which pass `validate_route`. `WrapInt` is `int`
arithmetic.

**`RouteLifecycle`** is the life of several processes of the program on one
machine. `pc[p]` and `idx[p]` say where process `p` is in `main`, `routes[p]`
what it has read, `started[p]` is `route_ctx_count`, `sock[p][k]` and `raw[p]`
are the descriptors of its routes, `waited[p]` is `waited_ms`, `node[a]` is what
is at path `a`, `foreign` are addresses another program holds. `LoadLine`,
`Setup`, `NextRoute`, `StartStreamRoute`, `StartDatagramRoute`, `BindWithWait`
and `Listen` are the way up; `StopRouteListeners`, `JoinWorkers`, `FreeRoute`,
`UnlinkPath` and `Exit` the way down, and `undo` the freeing of a datagram route
that could not be started. A step lies between two system calls by which a
process sees or disturbs another: `unlink`, `bind` and `listen` are separate,
and so are the `lstat` and the `unlink` of a route that is freed. Every step of
the way up may fail where the code has a path for it, and so may the `lstat` and
the `unlink` of the way down (`LeaveSocket`); a process may be killed
anywhere, and what it has at a path then stays. `err`, `pend` and `rival` (a
process with a common path ran at the same time) are for the properties.

**`StreamSniff`** is the ClientHello parser with the state kept between two
looks at the client's input. The parser reads every field once, from left to
right, so no buffer is needed: a length is chosen when it is read. `hi` is the
end of the latest read.

**`ConfSyntax`** and **`WireFormats`** are pure operators: lines, comments,
ports and host and port texts; PROXY v2 headers, raw IPv4/UDP headers and the
checksum. Each is compared with what its reader expects: a grammar
(`Grammar`), a receiver (`ProxyV2Receive`), the sum of a valid header.
`RawHeaders` is the Linux build, on a host of either byte order:
`datagram_raw_send_udp_ipv4` stores the checksum without `htons`, so on a
little-endian host its two bytes are swapped. The kernel fills in the checksum
of a packet that comes with its header, so the packet that leaves is right;
`RawPacketValid` therefore says that the sum is right in the byte order of the
host. **`Formats`** supplies the inputs: texts that grow letter by letter, and
packets.

The operators above an action with almost its name (`...NoTimeout`, `...Bare`,
`...Unbounded`) are faulty variants. No specification uses them; they are
the mutants with which each property is shown to be able to fail.

## Runs

| Run | Shows |
|---|---|
| `stream_all` | bounded buffers, no lost resume, nothing after the end, no response cut by the upstream, for TCP and Unix upstreams (where callbacks run before CONNECTED); a timer for every connection, silence that ends between one and two idle periods, half-closed and connecting connections that end; two exceptions, see below |
| `backend_all` | all builtins and files: a response is ended only when whole, no silent connection kept, every response ends |
| `workers_safety` | one owner per fd, nothing lost or released twice, nothing freed in use, every step a step of `Handoff`, with failing notifies and failing start |
| `workers_live` | no lost wakeup, no join of a thread that sleeps with nothing to wake it, shutdown completes, the pool implements `Handoff` with its liveness |
| `datagram_all` | one or two workers: one client per address, no leaked socket or reply path up to the freeing of the route, a mapping in use stays; with one worker replies reach the address that asked |
| `lifecycle` | two processes, one address, one path: no descriptor is orphaned, replies have their socket until the workers are joined, nothing left at a path blocks or hides a later process, files that are not sockets are not removed on the way down, `bind_wait` is waited and no longer, a signal ends a process, a start comes to an end |
| `formats` | the SNI parser stays in its buffer, moves on with every step of a look and keeps a final outcome; host and port texts mean what the grammar says, and survive the log if they fit its buffer; CRLF files are LF files; headers, packets and checksums are what a receiver expects |

Type invariants, inductive invariants and what follows from them at once are
not in the runs; they are proved (see below).

Five runs show a disagreement between the code and what a comment or manual
page says of it:

| Run | What it shows |
|---|---|
| `stream_clienteof` | bytes accepted from a client are dropped when it closes |
| `backend_pinned` | an `http_ok` client that keeps sending is kept for ever after the half close |
| `backend_reset` | the file backend closes with the request unread, which resets the connection |
| `datagram_reply` | with two workers a reply may go to another address |
| `datagram_idle` | on a silent route idle mappings do not expire |

Other disagreements follow from the models, and the stated properties except
them explicitly or do not cover them:

* In a rolling restart with a Unix path the new process removes the old one's
  path, and the old one, when it ends, removes the new one's: `bind_wait`, which
  the manual recommends for this, is for inet listeners only. `AloneIsReachable`
  is about processes without such a rival.
* `bind_wait` waits for `bind` and not for `listen`: of two processes that bind
  before either listens, the second fails at once. UDP listeners share an address
  through `SO_REUSEADDR` and never wait for each other.
* `1000 * bind_wait_sec` overflows an `int` for values the parser accepts;
  `WaitHonoured` excludes them.
* A Unix stream listener that fails after `bind` leaves its socket file
  (`CleanExit`), and a datagram route without its mutex its raw socket
  (`NoOrphanFd`).
* Routes given with `-L` are not compared with each other, and a `unix` and a
  `unix-dgram` route on one path are no conflict.
* `-w 0` is one less than the CPUs, not "one per CPU" (the usage text), and with
  one CPU the program does not start.
* A ClientHello that arrives in two reads is parsed as two pieces, each from its
  own first byte. Pieces that are all too short get `need_more` for as long as they
  come; `ParseAdvances` is about one look, and about an outcome once it is final.
* `parse_port` takes what `strtoul` takes: blanks and a minus before the digits
  too. `Lenient` has these texts, and `ReadsAsWritten` says nothing of their value.

Three more disagreements with comments of `stream_conn.c` follow from the model
and are accepted by the stated properties. With a Unix upstream the client is
read before CONNECTED (`pipe_upstream_write_cb` resumes it; `PolledInv` and the
third chunk of `OutputBounded` describe it). After the half close
backpressure may switch client reads off for good, so that the idle timer and
not the close-wait timeout ends the connection. And where the idle timer does
not run, nothing ends it then: it could not be allocated, or the upstream sent
bytes and failed in the pass that would have reported CONNECTED, where it is
started. `Untimed` has these states and `HalfCloseEnds` the one such connection
may stay in, against the comment that a client must not "pin this connection
too long" (`stream_conn.c:219`).

### Bounds

* `CHUNK = 2`, watermarks `2 * CHUNK` and `CHUNK` as in the code: partial and
  full reads, overshoot and both sides of each watermark occur. The timeouts
  are 1 to 3 ticks; `quiet` saturates one tick past the largest bound.
* Files of 0, 1, 2, 3 and 5 bytes with `HIGH = 2`: empty, shorter than, equal
  to and longer than the watermark, and not a multiple of it. `MaxSock = 2`
  unread client bytes; the code tells apart only none and some.
* Two workers, two connections, two datagrams (one in the liveness run), notify
  socket of 2 bytes and drain buffer of 2: the full socket, a drain in several
  rounds and messages queued behind a batch all occur.
* Two addresses, two chunks and descriptors, a clock to 3 with
  idle timeout 1: expiry, reuse, and one more reply fit. `MaxReplies = 1` per
  socket, since replies in one socket are alike.
* Two processes, the second with other configurations than the first, so that a
  path is shared, an address is shared with the other process and with another
  program, a wildcard clashes, lines conflict, are blank, too long or unfit, a
  path is too long for its field (`LongPaths`), and options are accepted and refused. `HALF = 4` with `SECOND = 2` makes
  a `bind_wait` of 2 overflow and one of 1 fit; it is two intervals long. One
  CPU, so that `-w 0` fails.
* ClientHellos of up to 33 bytes for a buffer of 32, with bytes of 6 values and
  no random: every length field takes values that fit, that are too long by one,
  and zero; names are as long as allowed and longer.
* Texts of up to 6 letters of three alphabets, for endpoints, for the signs and
  blanks of a port and for lines, with hosts shorter than 3 letters, ports up to
  76, `ULONG_MAX = 99`, a log buffer of 6 letters (`LOG_LEN`), which a bracketed
  host overruns, and lines shorter than 3. Packets with payloads and buffers on both sides of each limit, with the real limits.

The bounds of TLC do not limit the theorems, which hold for all constants that
meet the `ASSUME` of their module.

### Fairness

`StreamConn` and `StreamBackend`: time passes and libevent serves due timers
and the rest of a pass it has begun, which reports CONNECTED or an error. A
write event with empty output comes at once, since a socket that was shut down
for writing is writable, and a socket at its end of file stays readable, so an
upstream whose reads are enabled again ends again. The peers owe nothing. `WorkerQueue`:
every thread keeps running, but the main loop may wait for ever for a signal.
`DatagramRoute`: time passes, threads run, readable sockets are served; no
packet is owed. `RouteLifecycle`: a running process gets on with `main`, since
none of its calls but the event loop blocks for ever; nobody owes it a start, a
signal or a free address. Nothing else is assumed.

## Proofs

| Module | Proved for all constants |
|---|---|
| `StreamConnProofs` | `IndInv`, and from it the types, buffer bounds, no lost resume, final end, armed timer (`TimerAlwaysArmed`), both idle bounds, unreachable timeout branch, response not cut; `HalfCloseAdvances`, `ConnectAdvances` |
| `StreamBackendProofs` | `IndInv`, and from it the types, the output bound, completeness and order of the response, bounded silence; `ResponseAdvances` |
| `WorkerQueueProofs` | `PoolInv` with types, no lost wakeup, nothing freed in use; `OwnInv`, one owner per item, everything accounted for; `SafeHandoff`: the pool implements the safety part of `Handoff`; `JoinsNoSleeper`, `NoWorkerSpins`, `ShutdownAdvances` |
| `DatagramRouteProofs` | `IndInv` for any number of workers, one socket per address, no leaked socket or reply path, mapping kept; with one worker correct replies |
| `EncodingProofs` | the wire formats, for all octets, ports and payloads: `ProxyV2Whole`, `ProxyV2Datagram`, `RawPacket`; host and port, for every text: `AllReadAsWritten`, `EveryEndpointReadBack` |
| `FormatProofs` | the SNI parser: `IndInv`, reads inside the buffer, the fuzzer's assertions, a name exactly when parsed, every look moves on and a final outcome is kept; `EveryCrLfAsLf`: the lines of every text; all properties of `Formats` |
| `RouteLifecycleStepProofs` | what a step of a process keeps of its own part of the invariant, and that it leaves the others' alone; what it does to the files at the paths, and how long a listener waits (lemmas) |
| `RouteLifecycleProofs` | `IndInv` for any processes and configurations, types, distinct routes, all or no routes served, no orphaned descriptor, sockets for replies, reachable paths, stale paths that never block a start, waits as long as told, a clean exit, files kept; `ProcessAdvances` |

The argument is always the same: the invariant is inductive, one step per
action, and the properties follow from it.

* `StreamConn`: none of the properties is inductive. `ConnectingInv`,
  `PolledInv`, `FailedInv` and `ConnectedInv` say, phase by phase, which directions are
  enabled, which timers run and which flags may be set. `OutputInv` sharpens
  the buffer bounds to where reads are still on, which is what makes one more
  read safe; `IdleInv` ties the silence to the timer's remaining time and to
  whether bytes came in since the last look.
* `StreamBackend`: `LiveInv` says per backend what is enabled, `TimeoutInv`
  that silence plus the time left never exceeds the timeout.
* `WorkerQueue`: `PoolInv` says how far `main` has come with each worker
  (started, told to stop, base open) and what the thread may then be doing.
  `NoLostWakeup` is inductive together with it. `OwnInv` adds where each item
  is: the lists hold every item at most once, `ArrivalInv` says that what has
  not arrived is on none, `EmptyInv` which lists are empty in which phase. From
  it a step of the pool is a step of `Handoff` or leaves its state alone.
* `DatagramRoute`: `MappingInv` relates a client's `seen` to `sentAt`,
  `WorkerInv` says what a worker holds between critical sections. With one
  worker, cleanup cannot run while the callback waits, so `CallbackClientAlive`
  is inductive too, and replies follow from it.
* `StreamSniff`: the position is inside the structure that is parsed, and its
  end inside the bytes copied; with that each check of the code is exactly what
  the next read needs. A turn of either loop is at least as long as the fixed
  part of what it reads, so it moves on even where the length in it is zero.
* `WireFormats`: a header is a chain of concatenations, and each lemma says
  where one part of it is. The sums of the words and the folding of the carries
  are recursive functions; that they exist is shown by the least number for
  which they would not, and then their equations can be used. Folding keeps the
  sum modulo 65535, so a header that holds the complement of its sum folds to
  all ones.
* `ConfSyntax`: a numeral has no colon, so where the grammar takes `HOST:PORT`
  there is one colon, and where it takes `[HOST]:PORT` the host ends at the
  first closing bracket: the two places where `split_host_port` looks. That
  `Decimal` writes what `NumeralValue` reads is shown for the least number for
  which it would not hold; the round trip then follows from the grammar.
  For the lines, `LfText` keeps every letter but the CRs that end a line, in
  order, so each line of a text is found in its LF form where the letters kept
  before it end, with the same letters less that one CR; `RawLine` takes off the
  CR that is left (of two CRs in a row it would keep one, so `CrLfAsLf` leaves
  such texts out). What is loaded from a line on is then the same in both texts,
  shown for the last line for which it would not be.
* `RouteLifecycle`: `PhaseInv` ties `idx` and `started` to the phase, `SockInv`
  says which sockets are then open, `PathInv` which paths a process without a
  rival holds, and `RivalInv` that such a process shares no path with a running
  one, which is what keeps the steps of all others off its paths. The proof
  has the invariant process by process (`Full`), so that a step of one process
  is compared with that process's part, and with the paths of the others.
  Four conjuncts carry what happened earlier. `ClearedInv`: between the unlink
  of `start` and the bind nothing is at the path unless a rival came, hence
  `StalePathNeverBlocks`. `WaitInv`: `waited` is less than an interval past
  `bind_wait` while the bind is retried; `BindWithWait` gives up only once it
  has reached it, where the sums fit an `int` (`WrapFits`), hence
  `WaitHonoured`. `HolderInv`: a socket of a process that is still at a path is
  that of a route it has yet to free, or of a stream listener that failed after
  `bind`, hence `CleanExit`; one it could not remove is no longer counted as its
  own (`LeftSocket`). `UnlinkInv`: between `lstat` and `unlink` of a
  freed listener no regular file appears at its path, since no process makes
  one; `FilesKept` follows with what each step does to the paths (`NodeCases`).

What must eventually happen rests on two things: nothing that is due can be
taken back, and it is given a turn. The second is fairness; the first is proved,
as action properties that say what decreases in every step:

| Property | Decreases, in this order | Behind |
|---|---|---|
| `HalfCloseAdvances` | what is still to come from the upstream (`Stage`), the room in the output to it, unnoticed activity, the timer that ends it (`LastTimer`: the idle timer, or close wait after an upstream lost before CONNECTED) | `HalfCloseEnds` |
| `ConnectAdvances` | connecting, polled, connected or failed; the connect timeout, the room in the output | `ConnectResolves` |
| `ResponseAdvances` | bytes still to be sent, the write timeout; bytes from the client change neither | `ResponseEnds` |
| `NoWorkerSpins`, `ShutdownAdvances` | what a worker has before it to its next sleep (`WorkerLeft`); the steps of `main` to its end (`MainLeft`) | `ShutdownCompletes`, `ImplementsHandoff` |
| `ProcessAdvances` | the phases of `main`, the routes left in one, the steps for one route, the wait left | `SignalEnds`, `StartResolves` |

Each quantity is bounded by an invariant proved here (`OutputBounded`,
`NothingSkipped`, the type invariants). `JoinsNoSleeper` adds that `main` joins
no thread that sleeps with nothing to wake it: `StoppingInv` says which workers
have been told to stop at each point of `main`, and `NoLostWakeup` that the byte
that tells them is there.

Assumptions: the ones in the modules (positive sizes and timeouts, a PROXY
header shorter than the resume watermark, an answer not longer than the high
watermark, disjoint connections and datagrams, positive intervals, at most
`MaxRoutes` lines, addresses of four and sixteen octets, ports below 65536,
letters that include the digits, the colon and the brackets, `PORT_MAX` not
above `ULONG_MAX`). `NoLostWakeup` and
`JoinsNoSleeper` assume that `send` on the notify socket fails only with
`EAGAIN`; `TimerAlwaysArmed`, `IdleBound` and `HalfCloseAdvances` that
`evtimer_new` succeeds: each says so in its statement. `TimerAlwaysArmed` and
`HalfCloseAdvances` also state the exception of an upstream lost before CONNECTED.

Only model-checked: the liveness properties themselves (`HalfCloseEnds`,
`ConnectResolves`, `ResponseEnds`, `ShutdownCompletes`, `SignalEnds`,
`StartResolves`) and `ImplementsHandoff` with its fairness. They need `ENABLED`,
which is out of the prover's reach.

## Not modelled

Datagram builtins (one answer per packet, without state), option parsing other
than `-w`, the splitting of a line into words, `endpoint_to_sockaddr`
(`inet_pton`), the characters of a server name. Logging, wording, socket options (keepalive),
Win32 variants: no property is about them. libevent and the kernel are modelled only by how the code uses
them: write callbacks come when output is empty, timeouts run per pending event
and restart on each activation, sends may be partial. A failed allocation is
modelled where the code has a path for it. Stream connections still open at
shutdown are not on any list and end with the process. The clock of
`DatagramRoute` does not jump; the code uses `time(NULL)`. An answer of the
upstream that comes after its mapping expired, when another client has the same
port or path, is left out: replies reach only the socket that asked. No program
makes a regular file at a listener's path after the start, so one that appears
between `lstat` and `unlink` is not covered by `FilesKept`. Which of two UDP
listeners on one address gets a packet, and which of two processes a client
reaches, is not modelled. A failed set-up of one of the two signal handlers is
modelled as the end of the process; the code passes `NULL` to `event_free` there.

`StreamConn` and `DatagramRoute` are not composed with `WorkerQueue`: a
connection lives on one worker, whose queue only hands it over, so nothing but
the handoff (`Handoff`) is shared; for datagrams the shared state is the list of
clients, which `DatagramRoute` has with all its workers.
