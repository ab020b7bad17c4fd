----------------------------- MODULE StreamConn -----------------------------
(***************************************************************************)
(* One proxied stream connection, from adoption by a worker to free_conn:  *)
(* stream_conn.c (lifecycle, timers, half close) and stream_pipe.c (the    *)
(* two byte pipes with backpressure).  Everything runs on the event loop   *)
(* of one worker, so every callback is one atomic step; the interleaving   *)
(* is the order in which libevent delivers the callbacks.                  *)
(*                                                                         *)
(* Bytes are counted, not named.  The two peers are unconstrained: they    *)
(* send, stop reading, close or reset whenever their side of the socket    *)
(* lets them.                                                              *)
(***************************************************************************)
EXTENDS Integers

CONSTANTS
  CHUNK,            \* STREAM_IO_CHUNK_SIZE: most bytes one read or write moves
  HDR,              \* bytes of PROXY v2 header queued at adoption (0: none)
  CONNECT_TIMEOUT,  \* opts.connect_timeout_sec, in ticks
  IDLE_TIMEOUT,     \* opts.idle_timeout_sec, in ticks
  CLOSE_WAIT        \* CLOSE_WAIT_TIMEOUT_SEC, in ticks

HIGH   == 2 * CHUNK  \* STREAM_READ_HIGH_WATER
RESUME == CHUNK      \* STREAM_WRITE_RESUME_WATER

ASSUME StreamConnAssumption ==
  /\ CHUNK \in Nat \ {0}
  /\ HDR \in Nat /\ HDR < RESUME
  /\ CONNECT_TIMEOUT \in Nat \ {0}
  /\ IDLE_TIMEOUT \in Nat \ {0}
  /\ CLOSE_WAIT \in Nat \ {0}

VARIABLES
  st,       \* "queued": fd in a worker's queue; "live": conn_t exists; "freed"
  up,       \* upstream: "connecting", "polled", "connected", or "failed" (lost
            \* before CONNECTED, when the client was already owed bytes)
  cEv, uEv, \* directions enabled on conn->client and conn->upstream
  cOut,     \* length of the client's output buffer (bytes from the upstream)
  uOut,     \* length of the upstream's output buffer (bytes from the client)
  cKick,    \* client's write event pending although its output is empty
  uEof,     \* the upstream closed or reset: it has no more bytes to give
  drain,    \* conn->close_client_after_drain
  fin,      \* conn->close_after_client_eof: SHUT_WR done on the client
  touched,  \* conn->activity_seq # conn->idle_check_seq
  conRem,   \* ticks left on the upstream's write timeout, or Off
  idleRem,  \* ticks left on conn->idle_ev, or Off
  cwRem,    \* ticks left on the client's read timeout, or Off
  quiet,    \* ticks since bytes last arrived from either peer, or since CONNECTED
  atOnce,   \* connect(2) to the upstream returned at once (a Unix socket)
  noTimer   \* evtimer_new failed for conn->idle_ev

bufs   == <<cOut, uOut>>
flags  == <<drain, fin>>
timers == <<conRem, idleRem, cwRem>>
idling == <<touched, quiet>>
origin == <<atOnce, noTimer>>
vars   == <<st, up, cEv, uEv, bufs, cKick, uEof, flags, timers, idling, origin>>

R == "EV_READ"
W == "EV_WRITE"
Off == -1

(* "polled": one poll of the loop found the connected upstream socket both *)
(* readable and writable.  libevent runs the read callback first; the      *)
(* write callback is next in the same pass.  It reports CONNECTED, or      *)
(* BEV_EVENT_ERROR when the socket has failed meanwhile.                   *)
Dispatching == st = "live" /\ up # "polled"

QuietCap == 2 * IDLE_TIMEOUT + 1  \* quiet saturates: longer silences are alike

FlagsOK ==
  /\ cKick \in BOOLEAN /\ uEof \in BOOLEAN
  /\ drain \in BOOLEAN /\ fin \in BOOLEAN /\ touched \in BOOLEAN
  /\ atOnce \in BOOLEAN /\ noTimer \in BOOLEAN

(* Which values each variable takes.                                       *)
TypeOK ==
  /\ FlagsOK
  /\ st \in {"queued", "live", "freed"}
  /\ up \in {"connecting", "polled", "connected", "failed"}
  /\ cEv \in SUBSET {R, W} /\ uEv \in SUBSET {R, W}
  /\ cOut \in Nat /\ uOut \in Nat
  /\ conRem \in {Off} \union 0..CONNECT_TIMEOUT
  /\ idleRem \in {Off} \union 0..IDLE_TIMEOUT
  /\ cwRem \in {Off} \union 0..CLOSE_WAIT
  /\ quiet \in 0..QuietCap

Init ==
  /\ st = "queued" /\ up = "connecting"
  /\ cEv = {} /\ uEv = {}
  /\ cOut = 0 /\ uOut = 0
  /\ cKick = FALSE /\ uEof = FALSE
  /\ drain = FALSE /\ fin = FALSE /\ touched = FALSE
  /\ conRem = Off /\ idleRem = Off /\ cwRem = Off
  /\ quiet = 0
  /\ atOnce = FALSE /\ noTimer = FALSE

-----------------------------------------------------------------------------
(* free_conn: the idle timer, both bufferevents (and sockets) and the      *)
(* conn_t go.                                                              *)
FreeConn ==
  /\ st' = "freed"
  /\ cEv' = {} /\ uEv' = {}
  /\ cOut' = 0 /\ uOut' = 0
  /\ cKick' = FALSE
  /\ conRem' = Off /\ idleRem' = Off /\ cwRem' = Off
  /\ UNCHANGED <<up, flags, idling, origin>>

FinishClientWriteNoTimeout ==
  /\ cEv' = (cEv \ {W}) \union {R}
  /\ cKick' = FALSE
  /\ UNCHANGED cwRem

(* finish_client_write: SHUT_WR, stop writing, keep reading for CLOSE_WAIT *)
(* ticks.  Disabling EV_WRITE also cancels a pending write event.          *)
FinishClientWrite ==
  /\ cEv' = (cEv \ {W}) \union {R}
  /\ cKick' = FALSE
  /\ cwRem' = CLOSE_WAIT

DrainClientThenCloseKeepUpstream ==
  /\ UNCHANGED uEv
  /\ IF cOut > 0
     THEN drain' = TRUE /\ UNCHANGED <<fin, cEv, cKick, cwRem>>
     ELSE FinishClientWrite /\ drain' = FALSE /\ fin' = TRUE

(* drain_client_then_close: the upstream is finished with; flush what the  *)
(* client still has to get, then half-close.                               *)
DrainClientThenClose ==
  /\ uEv' = {}
  /\ IF cOut > 0
     THEN drain' = TRUE /\ UNCHANGED <<fin, cEv, cKick, cwRem>>
     ELSE FinishClientWrite /\ drain' = FALSE /\ fin' = TRUE

-----------------------------------------------------------------------------
WorkerAdoptClientFdNoTimeout(u) ==
  /\ st = "queued"
  /\ st' = "live"
  /\ uOut' = HDR
  /\ uEv' = {R, W}
  /\ cEv' = IF u /\ HDR < RESUME THEN {R, W} ELSE {W}
  /\ atOnce' = u
  /\ UNCHANGED <<up, cOut, cKick, uEof, flags, timers, idling, noTimer>>

(* worker_adopt_client_fd: both bufferevents exist, the connect is under   *)
(* way, the PROXY v2 header is queued, the client is not read yet.  When   *)
(* connect(2) returns at once (u: a Unix socket) libevent has deferred one *)
(* upstream write callback, which runs before the next poll:               *)
(* pipe_upstream_write_cb then resumes the client.                         *)
WorkerAdoptClientFd(u) ==
  /\ st = "queued"
  /\ st' = "live"
  /\ uOut' = HDR
  /\ conRem' = CONNECT_TIMEOUT
  /\ uEv' = {R, W}
  /\ cEv' = IF u /\ HDR < RESUME THEN {R, W} ELSE {W}
  /\ atOnce' = u
  /\ UNCHANGED <<up, cOut, cKick, uEof, flags, idleRem, cwRem, idling, noTimer>>

(* Its early returns: no memory, no bufferevent, connect or PROXY v2       *)
(* header failed.  Each closes the client's fd and keeps no conn_t.        *)
AdoptFails ==
  /\ st = "queued"
  /\ FreeConn
  /\ UNCHANGED uEof

(* stream_upstream_event_cb, BEV_EVENT_CONNECTED: clear the timeouts of    *)
(* both sides, start the idle timer (ok: evtimer_new succeeded; the result *)
(* is ignored), read and write the client.  Enabling EV_WRITE schedules    *)
(* one write callback even when there is nothing to write.                 *)
UpstreamConnected(ok) ==
  /\ st = "live" /\ up \in {"connecting", "polled"}
  /\ up' = "connected"
  /\ conRem' = Off /\ cwRem' = Off
  /\ touched' = FALSE /\ quiet' = 0
  /\ idleRem' = IF ok THEN IDLE_TIMEOUT ELSE Off
  /\ noTimer' = ~ok
  /\ cEv' = {R, W}
  /\ cKick' = TRUE
  /\ UNCHANGED <<st, uEv, bufs, uEof, flags, atOnce>>

(* ... BEV_EVENT_TIMEOUT: only the connect has a timeout, so a connection  *)
(* that is up never gets here.                                             *)
UpstreamTimeout ==
  /\ Dispatching /\ conRem = 0
  /\ FreeConn
  /\ UNCHANGED uEof

UpstreamErrorFrees ==
  /\ st = "live"
  /\ \/ up \in {"connecting", "polled"}
     \/ up = "connected" /\ (R \in uEv \/ (W \in uEv /\ uOut > 0))
  /\ uEof' = TRUE
  /\ FreeConn

(* ... BEV_EVENT_ERROR: a response already queued is still delivered.      *)
(* While connecting it is the write callback's check of the socket that    *)
(* failed; libevent has then removed both of the upstream's events, and    *)
(* the connect timeout with them.                                          *)
UpstreamError ==
  /\ st = "live"
  /\ \/ up \in {"connecting", "polled"}
     \/ up = "connected" /\ (R \in uEv \/ (W \in uEv /\ uOut > 0))
  /\ uEof' = TRUE
  /\ IF cOut > 0
     THEN /\ DrainClientThenClose
          /\ up' = IF up = "connected" THEN up ELSE "failed"
          /\ conRem' = Off
          /\ UNCHANGED <<st, bufs, idleRem, idling, origin>>
     ELSE FreeConn

(* ... BEV_EVENT_EOF, possibly seen before CONNECTED is reported.          *)
UpstreamEof ==
  /\ Dispatching /\ R \in uEv
  /\ up' = IF up = "connecting" THEN "polled" ELSE up
  /\ uEof' = TRUE
  /\ DrainClientThenClose
  /\ UNCHANGED <<st, bufs, conRem, idleRem, idling, origin>>

-----------------------------------------------------------------------------
PauseLate(ev, len) == IF len > HIGH + CHUNK THEN ev \ {R} ELSE ev

(* The backpressure test of both read callbacks: stop reading a side once  *)
(* the other side's output has reached the high watermark.                 *)
Pause(ev, len) == IF len >= HIGH THEN ev \ {R} ELSE ev

PipeClientReadCbNoTouch(n) ==
  /\ Dispatching /\ R \in cEv
  /\ uOut' = uOut + n
  /\ cEv' = Pause(cEv, uOut + n)
  /\ cwRem' = IF cwRem = Off \/ R \notin cEv' THEN Off ELSE CLOSE_WAIT
  /\ quiet' = 0
  /\ UNCHANGED <<st, up, uEv, cOut, cKick, uEof, flags, conRem, idleRem, touched, origin>>

(* pipe_client_read_cb: n bytes from the client join the upstream output.  *)
(* A read restarts the client's read timeout; pausing removes it.          *)
PipeClientReadCb(n) ==
  /\ Dispatching /\ R \in cEv
  /\ uOut' = uOut + n
  /\ cEv' = Pause(cEv, uOut + n)
  /\ cwRem' = IF cwRem = Off \/ R \notin cEv' THEN Off ELSE CLOSE_WAIT
  /\ touched' = TRUE /\ quiet' = 0
  /\ UNCHANGED <<st, up, uEv, cOut, cKick, uEof, flags, conRem, idleRem, origin>>

(* pipe_upstream_read_cb: n bytes from the upstream join the client output *)
PipeUpstreamReadCb(n) ==
  /\ Dispatching /\ R \in uEv /\ ~uEof
  /\ up' = IF up = "connecting" THEN "polled" ELSE up
  /\ cOut' = cOut + n
  /\ uEv' = Pause(uEv, cOut + n)
  /\ touched' = TRUE /\ quiet' = 0
  /\ UNCHANGED <<st, cEv, uOut, cKick, uEof, flags, timers, origin>>

(* n bytes go to the client.  With the write low watermark at 0, libevent  *)
(* calls pipe_client_write_cb only once the output is empty: it completes  *)
(* a drain, or else lets the upstream be read again.                       *)
PipeClientWriteCb(n) ==
  /\ Dispatching /\ W \in cEv
  /\ \/ cOut > 0 /\ n > 0 /\ n <= cOut
     \/ cOut = 0 /\ n = 0 /\ cKick
  /\ cOut' = cOut - n
  /\ IF cOut' = 0 /\ drain
     THEN /\ FinishClientWrite
          /\ drain' = FALSE /\ fin' = TRUE
          /\ UNCHANGED uEv
     ELSE /\ cKick' = FALSE
          /\ uEv' = IF cOut' = 0 THEN uEv \union {R} ELSE uEv
          /\ UNCHANGED <<cEv, flags, cwRem>>
  /\ UNCHANGED <<st, up, uOut, uEof, conRem, idleRem, idling, origin>>

PipeUpstreamWriteCbNoResume(n) ==
  /\ Dispatching /\ up = "connected" /\ W \in uEv
  /\ uOut > 0 /\ n > 0 /\ n <= uOut
  /\ uOut' = uOut - n
  /\ cEv' = IF 0 < uOut' /\ uOut' < RESUME THEN cEv \union {R} ELSE cEv
  /\ UNCHANGED <<st, up, uEv, cOut, cKick, uEof, flags, timers, idling, origin>>

(* n bytes go to the upstream; pipe_upstream_write_cb runs once its output *)
(* is empty and lets the client be read again.                             *)
PipeUpstreamWriteCb(n) ==
  /\ Dispatching /\ up = "connected" /\ W \in uEv
  /\ uOut > 0 /\ n > 0 /\ n <= uOut
  /\ uOut' = uOut - n
  /\ cEv' = IF uOut' = 0 THEN cEv \union {R} ELSE cEv
  /\ UNCHANGED <<st, up, uEv, cOut, cKick, uEof, flags, timers, idling, origin>>

-----------------------------------------------------------------------------
(* stream_client_event_cb, BEV_EVENT_EOF: the client closed its sending    *)
(* side.                                                                   *)
ClientEof ==
  /\ Dispatching /\ R \in cEv
  /\ FreeConn
  /\ UNCHANGED uEof

(* stream_client_event_cb, BEV_EVENT_ERROR: a read failed, or a write of   *)
(* pending output did.                                                     *)
ClientError ==
  /\ Dispatching
  /\ R \in cEv \/ (W \in cEv /\ cOut > 0)
  /\ FreeConn
  /\ UNCHANGED uEof

(* stream_client_event_cb, BEV_EVENT_TIMEOUT: the close-wait read timeout. *)
ClientTimeout ==
  /\ Dispatching /\ cwRem = 0
  /\ FreeConn
  /\ UNCHANGED uEof

ConnIdleTimeoutCbNoReschedule ==
  /\ Dispatching /\ idleRem = 0
  /\ IF touched
     THEN /\ touched' = FALSE /\ idleRem' = Off
          /\ UNCHANGED <<st, up, cEv, uEv, bufs, cKick, flags, conRem, cwRem, quiet, origin>>
     ELSE FreeConn
  /\ UNCHANGED uEof

ConnIdleTimeoutCbNoSync ==
  /\ Dispatching /\ idleRem = 0
  /\ IF touched
     THEN /\ idleRem' = IDLE_TIMEOUT
          /\ UNCHANGED <<st, up, cEv, uEv, bufs, cKick, flags, conRem, cwRem, idling, origin>>
     ELSE FreeConn
  /\ UNCHANGED uEof

(* conn_idle_timeout_cb: bytes arrived since the last look, so look again  *)
(* one period later; otherwise close, whatever is still buffered.          *)
ConnIdleTimeoutCb ==
  /\ Dispatching /\ idleRem = 0
  /\ IF touched
     THEN /\ touched' = FALSE /\ idleRem' = IDLE_TIMEOUT
          /\ UNCHANGED <<st, up, cEv, uEv, bufs, cKick, flags, conRem, cwRem, quiet, origin>>
     ELSE FreeConn
  /\ UNCHANGED uEof

TickDown(rem) == IF rem = Off THEN Off ELSE rem - 1

(* Time passes; a timer that is due is served before time moves on.        *)
Tick ==
  /\ Dispatching
  /\ conRem # 0 /\ idleRem # 0 /\ cwRem # 0
  /\ conRem' = TickDown(conRem)
  /\ idleRem' = TickDown(idleRem)
  /\ cwRem' = TickDown(cwRem)
  /\ quiet' = IF quiet < QuietCap THEN quiet + 1 ELSE quiet
  /\ UNCHANGED <<st, up, cEv, uEv, bufs, cKick, uEof, flags, touched, origin>>

Next ==
  \/ \E u \in BOOLEAN : WorkerAdoptClientFd(u)
  \/ AdoptFails
  \/ \E ok \in BOOLEAN : UpstreamConnected(ok)
  \/ UpstreamTimeout
  \/ UpstreamError
  \/ UpstreamEof
  \/ \E n \in 1..CHUNK : PipeClientReadCb(n) \/ PipeUpstreamReadCb(n)
  \/ \E n \in 0..CHUNK : PipeClientWriteCb(n) \/ PipeUpstreamWriteCb(n)
  \/ ClientEof
  \/ ClientError
  \/ ClientTimeout
  \/ ConnIdleTimeoutCb
  \/ Tick

Spec == Init /\ [][Next]_vars

(* libevent serves due timers and the callbacks of the current pass; time  *)
(* passes.  A shut-down client socket is writable, so a scheduled empty    *)
(* write callback comes, and an upstream socket at its end stays readable, *)
(* so a reader that is enabled again meets the end again.  Nothing is      *)
(* assumed of the peers.                                                   *)
Fairness ==
  /\ WF_vars(Tick)
  /\ WF_vars(ConnIdleTimeoutCb)
  /\ WF_vars(ClientTimeout)
  /\ WF_vars(UpstreamTimeout)
  /\ WF_vars(up = "polled" /\ (UpstreamError \/ \E ok \in BOOLEAN : UpstreamConnected(ok)))
  /\ WF_vars(PipeClientWriteCb(0))
  /\ WF_vars(uEof /\ UpstreamEof)

FairSpec == Spec /\ Fairness

-----------------------------------------------------------------------------
(* Backpressure bounds memory: the client output never exceeds the high    *)
(* watermark by a full chunk; the upstream output may overshoot it by one  *)
(* more chunk because finish_client_write re-enables client reads without  *)
(* looking at the watermark, and by another one for a Unix upstream, where *)
(* the client is read before CONNECTED enables it again.                   *)
OutputBounded ==
  /\ cOut <= HIGH - 1 + CHUNK
  /\ uOut <= HIGH - 1 + (IF atOnce THEN 3 ELSE 2) * CHUNK

(* No lost resume: while a connection relays, a side that is paused has    *)
(* bytes queued towards the other, writable, side, so that a write         *)
(* callback is still to come and resume it; a drain has output to finish,  *)
(* also one that began before CONNECTED was ever reported.                 *)
NoLostResume ==
  st = "live" /\ up \in {"connected", "failed"} =>
    /\ drain => cOut > 0 /\ W \in cEv
    /\ ~drain /\ ~fin => /\ R \notin cEv => uOut > 0 /\ W \in uEv
                         /\ R \notin uEv => cOut > 0 /\ W \in cEv

(* After the upstream's end is being relayed (draining or half-closed), no *)
(* byte is written to it, and after SHUT_WR on the client no byte is       *)
(* queued for the client: nothing follows the end of the response.         *)
NothingAfterEnd ==
  st = "live" =>
    /\ drain \/ fin => uEof /\ W \notin uEv
    /\ drain => uEv = {}
    /\ fin => cOut = 0

(* The end of the upstream never discards response bytes the proxy already *)
(* holds: a step that ends the connection while the client is still owed   *)
(* bytes is the client's own failure or the idle timer's.                  *)
ResponseNotCut ==
  [][st = "live" /\ st' = "freed" /\ cOut > 0
       => ClientEof \/ ClientError \/ ConnIdleTimeoutCb]_vars

(* The upstream was lost before CONNECTED was reported, with bytes for the *)
(* client already queued.  Neither the connect timer nor the idle timer    *)
(* runs then: only the client's own reads and writes, and after the drain  *)
(* the close-wait timeout, until the client's bytes fill the upstream      *)
(* output and its reads are paused for good.                               *)
Untimed ==
  /\ up = "failed"
  /\ drain \/ cwRem # Off \/ (R \notin cEv /\ uOut >= HIGH)

(* A live connection always has the connect timer or the idle timer        *)
(* running, with two exceptions: the idle timer could not be allocated, or *)
(* the upstream was lost before CONNECTED and the connection is Untimed.   *)
TimerAlwaysArmed ==
  st = "live" /\ ~noTimer => conRem # Off \/ idleRem # Off \/ Untimed

(* An established connection on which no byte arrives is closed at the     *)
(* latest two idle periods after the last byte ...                         *)
IdleBound ==
  st = "live" /\ up = "connected" /\ ~noTimer => quiet <= 2 * IDLE_TIMEOUT

(* ... and the idle timer never closes one that was silent for less than   *)
(* one idle period.                                                        *)
IdleNotEarly ==
  [][ConnIdleTimeoutCb /\ st' = "freed" => quiet >= IDLE_TIMEOUT]_vars

(* The branch logged as "unreachable code reached at BEV_EVENT_TIMEOUT":   *)
(* no upstream timeout is delivered once the connection is established.    *)
NoTimeoutWhenConnected ==
  [][UpstreamTimeout => up # "connected"]_vars

(* Once the client has been half-closed the connection goes away, however  *)
(* long the client keeps sending, with one exception: without an idle      *)
(* timer (it could not be allocated, or the upstream was lost before       *)
(* CONNECTED) the client's bytes fill the upstream output, which is never  *)
(* written, its reads are paused, and the close-wait timeout with them.    *)
HalfCloseEnds == fin ~> (st = "freed" \/ (idleRem = Off /\ R \notin cEv /\ uOut >= HIGH))

(* The connect phase ends: in an established connection, in a freed one,   *)
(* or in one whose upstream is lost and which drains what it had sent.     *)
ConnectResolves ==
  (st = "live" /\ up \in {"connecting", "polled"}) ~>
     (st = "freed" \/ up = "connected" \/ (up = "failed" /\ drain))

HalfClosed == st = "live" /\ fin /\ ~noTimer

(* What a half-closed connection still has before it: CONNECTED, the write *)
(* callback that this schedules, the upstream's end for the second time.   *)
Stage == IF up = "polled" THEN 3 ELSE IF cKick THEN 2 ELSE IF R \in uEv THEN 1 ELSE 0

(* The timer that ends a half-closed connection: the idle timer, or after  *)
(* an upstream lost before CONNECTED only the close-wait timeout.          *)
LastTimer == IF up = "failed" THEN cwRem ELSE idleRem

HalfCloseStep ==
  HalfClosed /\ ~(up = "failed" /\ R \notin cEv) =>
    \/ st' = "freed" \/ noTimer'
    \/ up' = "failed" /\ R \notin cEv' /\ uOut' >= HIGH
    \/ /\ HalfClosed'
       /\ \/ Stage' < Stage
          \/ Stage' = Stage /\ uOut' > uOut
          \/ Stage' = Stage /\ uOut' = uOut /\ touched /\ ~touched'
          \/ Stage' = Stage /\ uOut' = uOut /\ touched' = touched /\ LastTimer' < LastTimer

(* Whatever the client does once it is half-closed, every step brings the  *)
(* connection closer to its end: a stage is behind it, an output that is   *)
(* bounded and never written grows, the idle timer takes note of the last  *)
(* bytes, or the last timer comes nearer.  The exception is the one of     *)
(* HalfCloseEnds.                                                          *)
HalfCloseAdvances == [][HalfCloseStep]_vars

ConnectStep ==
  st = "live" /\ up \in {"connecting", "polled"} =>
    \/ st' = "freed" \/ up' = "connected"
    \/ up' = "failed" /\ drain'
    \/ up = "connecting" /\ up' = "polled"
    \/ up' = up /\ conRem' < conRem
    \/ up' = up /\ conRem' = conRem /\ uOut' > uOut

(* Every step of the connect phase brings its end closer: only time can    *)
(* pass, and time runs against the connect timeout, and the client of a    *)
(* Unix upstream can only fill an output that is bounded.                  *)
ConnectAdvances == [][ConnectStep]_vars

-----------------------------------------------------------------------------
(* The inductive invariant behind the safety properties, by phase.         *)
ConnectingInv ==
  st = "live" /\ up = "connecting" =>
    /\ cOut = 0 /\ ~uEof /\ ~drain /\ ~fin /\ ~cKick
    /\ uEv = {R, W} /\ W \in cEv
    /\ conRem # Off /\ idleRem = Off /\ cwRem = Off /\ ~noTimer
    /\ ~atOnce => uOut = HDR /\ R \notin cEv

PolledInv ==
  st = "live" /\ up = "polled" =>
    /\ ~drain /\ ~cKick
    /\ conRem # Off /\ idleRem = Off
    /\ ~atOnce => uOut = HDR
    /\ ~noTimer /\ (cwRem # Off => fin)
    /\ IF fin THEN uEof /\ cOut = 0 /\ uEv = {}
              ELSE ~uEof /\ uEv = {R, W} /\ W \in cEv

FailedInv ==
  st = "live" /\ up = "failed" =>
    /\ conRem = Off /\ idleRem = Off /\ ~noTimer /\ ~cKick
    /\ uEof /\ uEv = {}
    /\ IF drain THEN ~fin /\ cOut > 0 /\ W \in cEv /\ cwRem = Off
                ELSE /\ fin /\ cOut = 0 /\ W \notin cEv
                     /\ IF R \in cEv THEN cwRem # Off ELSE cwRem = Off /\ uOut >= HIGH

ConnectedInv ==
  st = "live" /\ up = "connected" =>
    /\ conRem = Off
    /\ idleRem = Off => noTimer
    /\ cwRem # Off => fin
    /\ drain => ~fin /\ cOut > 0 /\ W \in cEv /\ uEv = {}
    /\ fin => cOut = 0 /\ W \notin uEv
    /\ uEof <=> drain \/ fin
    /\ ~drain /\ ~fin => /\ W \in uEv /\ W \in cEv
                         /\ R \notin cEv => uOut > 0
                         /\ R \notin uEv => cOut > 0

(* How far the outputs may be above the watermark: a reader that is still  *)
(* enabled adds at most one chunk.  For the upstream output, CONNECTED     *)
(* (Unix upstream) and the last finish_client_write each enable a reader   *)
(* that may have been paused.                                              *)
Halved == fin /\ up \in {"connected", "failed"} /\ ~cKick /\ R \notin uEv

OutputInv ==
  /\ cOut <= HIGH - 1 + CHUNK
  /\ R \in uEv /\ ~uEof => cOut <= HIGH - 1
  /\ uOut <= HIGH - 1 + (IF atOnce /\ up = "connected" THEN CHUNK ELSE 0)
                      + (IF Halved THEN CHUNK ELSE 0)
                      + (IF R \notin cEv \/ (up = "polled" /\ fin) THEN CHUNK ELSE 0)

(* While nothing has arrived since the last look, the timer was last set   *)
(* at most one period after the last byte; otherwise before it.            *)
IdleInv ==
  st = "live" /\ up = "connected" /\ idleRem # Off =>
    IF touched THEN quiet + idleRem <= IDLE_TIMEOUT
               ELSE /\ IDLE_TIMEOUT <= quiet + idleRem
                    /\ quiet + idleRem <= 2 * IDLE_TIMEOUT

QueuedInv ==
  /\ st = "queued" => Init
  /\ st = "freed" => cOut = 0 /\ uOut = 0

(* The conjunction that every step preserves.                              *)
IndInv ==
  /\ TypeOK
  /\ QueuedInv /\ ConnectingInv /\ PolledInv /\ FailedInv /\ ConnectedInv
  /\ OutputInv /\ IdleInv

-----------------------------------------------------------------------------
(* docs/tinyproxy.7: "TCP routes accept client connections and forward     *)
(* bytes to the configured upstream": the client closing its sending side  *)
(* does not discard bytes that were accepted from it.                      *)
AcceptedBytesForwarded ==
  [][ClientEof => uOut = 0]_vars

=============================================================================
