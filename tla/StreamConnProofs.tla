-------------------------- MODULE StreamConnProofs --------------------------
(***************************************************************************)
(* Proofs about StreamConn, for every chunk size, header length and        *)
(* timeout: IndInv is inductive, and the safety properties of StreamConn   *)
(* follow from it.                                                         *)
(***************************************************************************)
EXTENDS StreamConn, TLAPS

(* The initial state, a connection waiting in the queue, satisfies IndInv. *)
LEMMA InitIndInv == Init => IndInv
<1>. SUFFICES ASSUME Init PROVE IndInv
  OBVIOUS
<1>1. FlagsOK
  BY Zenon DEF Init, FlagsOK
<1>2. QED
  BY <1>1, StreamConnAssumption
     DEF Init, IndInv, TypeOK, QueuedInv, ConnectingInv, PolledInv, FailedInv, ConnectedInv,
         OutputInv, IdleInv, Halved, HIGH, RESUME, R, W, Off, QuietCap

(* free_conn, whoever calls it, leaves a state that satisfies IndInv.      *)
LEMMA FreeConnIndInv ==
  ASSUME IndInv, FreeConn, uEof' \in BOOLEAN
  PROVE  IndInv'
<1>1. FlagsOK'
  BY Zenon DEF FreeConn, IndInv, TypeOK, FlagsOK, flags, idling, origin
<1>2. QED
  BY <1>1, StreamConnAssumption
     DEF FreeConn, IndInv, TypeOK, QueuedInv, ConnectingInv, PolledInv, FailedInv, ConnectedInv,
         OutputInv, IdleInv, Halved, HIGH, RESUME, R, W, Off, QuietCap, flags, idling, origin

(* The flags of the connection stay Boolean.                               *)
LEMMA NextFlagsOK == FlagsOK /\ [Next]_vars => FlagsOK'
<1>. SUFFICES ASSUME FlagsOK, [Next]_vars PROVE FlagsOK'
  OBVIOUS
<1>. USE DEF FlagsOK, flags, idling, origin, FreeConn, FinishClientWrite, DrainClientThenClose
<1>1. CASE AdoptFails
  BY <1>1, Zenon DEF AdoptFails
<1>9. ASSUME NEW u \in BOOLEAN, WorkerAdoptClientFd(u) PROVE FlagsOK'
  BY <1>9 DEF WorkerAdoptClientFd
<1>2. ASSUME NEW ok \in BOOLEAN, UpstreamConnected(ok) PROVE FlagsOK'
  BY <1>2, Zenon DEF UpstreamConnected
<1>3. CASE UpstreamTimeout \/ UpstreamError \/ UpstreamEof
  BY <1>3, Zenon DEF UpstreamTimeout, UpstreamError, UpstreamEof
<1>4. ASSUME NEW n, PipeClientReadCb(n) \/ PipeUpstreamReadCb(n) PROVE FlagsOK'
  BY <1>4, Zenon DEF PipeClientReadCb, PipeUpstreamReadCb
<1>5. ASSUME NEW n, PipeClientWriteCb(n) \/ PipeUpstreamWriteCb(n) PROVE FlagsOK'
  BY <1>5, Zenon DEF PipeClientWriteCb, PipeUpstreamWriteCb
<1>6. CASE ClientEof \/ ClientError \/ ClientTimeout
  BY <1>6, Zenon DEF ClientEof, ClientError, ClientTimeout
<1>7. CASE ConnIdleTimeoutCb \/ Tick
  BY <1>7, Zenon DEF ConnIdleTimeoutCb, Tick
<1>8. CASE UNCHANGED vars
  BY <1>8 DEF vars
<1>. QED  BY <1>1, <1>2, <1>3, <1>4, <1>5, <1>6, <1>7, <1>8, <1>9 DEF Next

(* Every callback of the event loop, and the passing of time, preserves    *)
(* IndInv.                                                                 *)
LEMMA NextIndInv == IndInv /\ [Next]_vars => IndInv'
<1>. SUFFICES ASSUME IndInv, [Next]_vars PROVE IndInv'
  OBVIOUS
<1>0. FlagsOK'
  BY NextFlagsOK DEF IndInv, TypeOK
<1>. USE <1>0, StreamConnAssumption
     DEF IndInv, TypeOK, QueuedInv, ConnectingInv, PolledInv, FailedInv, ConnectedInv, OutputInv,
         IdleInv, Halved, HIGH, RESUME, R, W, Off, QuietCap, bufs, flags, timers, idling, origin
<1>1. ASSUME NEW u \in BOOLEAN, WorkerAdoptClientFd(u)
      PROVE  IndInv'
  BY <1>1 DEF WorkerAdoptClientFd, Init
<1>2. CASE AdoptFails
  BY <1>2, FreeConnIndInv DEF AdoptFails, FlagsOK
<1>3. ASSUME NEW ok \in BOOLEAN, UpstreamConnected(ok)
      PROVE  IndInv'
  <2>2. ok \/ noTimer'
    BY <1>3, Zenon DEF UpstreamConnected
  <2>3. TypeOK' /\ ConnectedInv'
    BY <1>3, <2>2 DEF UpstreamConnected
  <2>4. OutputInv'
    BY <1>3 DEF UpstreamConnected
  <2>5. QueuedInv' /\ ConnectingInv' /\ PolledInv' /\ FailedInv' /\ IdleInv'
    BY <1>3 DEF UpstreamConnected
  <2>. QED  BY <2>3, <2>4, <2>5, Zenon
<1>4. CASE UpstreamTimeout
  BY <1>4, FreeConnIndInv DEF UpstreamTimeout, FlagsOK
<1>5. CASE UpstreamError
  <2>1. CASE cOut > 0
    <3>1. TypeOK'
      BY <1>5, <2>1, Zenon DEF UpstreamError, Dispatching, DrainClientThenClose
    <3>2. QueuedInv' /\ ConnectingInv' /\ PolledInv' /\ FailedInv'
      BY <1>5, <2>1 DEF UpstreamError, Dispatching, DrainClientThenClose
    <3>3. ConnectedInv'
      BY <1>5, <2>1 DEF UpstreamError, Dispatching, DrainClientThenClose
    <3>4. OutputInv' /\ IdleInv'
      BY <1>5, <2>1 DEF UpstreamError, Dispatching, DrainClientThenClose
    <3>. QED  BY <3>1, <3>2, <3>3, <3>4, Zenon
  <2>2. CASE ~(cOut > 0)
    BY <1>5, <2>2, FreeConnIndInv DEF UpstreamError, FlagsOK
  <2>. QED  BY <2>1, <2>2
<1>6. CASE UpstreamEof
  <2>1. CASE cOut > 0
    <3>1. TypeOK'
      BY <1>6, <2>1, Zenon DEF UpstreamEof, Dispatching, DrainClientThenClose
    <3>2. QueuedInv' /\ ConnectingInv' /\ PolledInv' /\ FailedInv'
      BY <1>6, <2>1 DEF UpstreamEof, Dispatching, DrainClientThenClose
    <3>3. ConnectedInv'
      BY <1>6, <2>1 DEF UpstreamEof, Dispatching, DrainClientThenClose
    <3>4. OutputInv' /\ IdleInv'
      BY <1>6, <2>1 DEF UpstreamEof, Dispatching, DrainClientThenClose
    <3>. QED  BY <3>1, <3>2, <3>3, <3>4
  <2>2. CASE ~(cOut > 0)
    <3>0. /\ st = "live" /\ up # "polled" /\ R \in uEv
          /\ up' = IF up = "connecting" THEN "polled" ELSE up
          /\ cKick' = FALSE /\ drain' = FALSE /\ fin' = TRUE /\ uEof' = TRUE
          /\ cEv' = (cEv \ {W}) \union {R} /\ uEv' = {} /\ cwRem' = CLOSE_WAIT
          /\ UNCHANGED <<st, bufs, conRem, idleRem, idling, origin>>
      BY <1>6, <2>2 DEF UpstreamEof, Dispatching, DrainClientThenClose, FinishClientWrite
    <3>1. TypeOK'
      BY <2>2, <3>0
    <3>2. QueuedInv' /\ ConnectingInv' /\ PolledInv' /\ FailedInv'
      BY <2>2, <3>0
    <3>3. ConnectedInv'
      BY <2>2, <3>0
    <3>4. OutputInv' /\ IdleInv'
      BY <2>2, <3>0
    <3>. QED  BY <3>1, <3>2, <3>3, <3>4
  <2>. QED  BY <2>1, <2>2
<1>7. ASSUME NEW n \in 1..CHUNK, PipeClientReadCb(n)
      PROVE  IndInv'
  <2>0. st = "live" /\ up # "polled" /\ R \in cEv
    BY <1>7 DEF PipeClientReadCb, Dispatching
  <2>1. TypeOK'
    BY <1>7, <2>0 DEF PipeClientReadCb, Pause
  <2>2. QueuedInv' /\ ConnectingInv' /\ PolledInv'
    BY <1>7, <2>0 DEF PipeClientReadCb, Pause
  <2>3. FailedInv'
    BY <1>7, <2>0 DEF PipeClientReadCb, Pause
  <2>4. ConnectedInv'
    BY <1>7, <2>0 DEF PipeClientReadCb, Pause
  <2>5. OutputInv' /\ IdleInv'
    BY <1>7, <2>0 DEF PipeClientReadCb, Pause
  <2>. QED  BY <2>1, <2>2, <2>3, <2>4, <2>5, Zenon
<1>8. ASSUME NEW n \in 1..CHUNK, PipeUpstreamReadCb(n)
      PROVE  IndInv'
  <2>0. st = "live" /\ up \in {"connecting", "connected"} /\ R \in uEv /\ ~uEof
    BY <1>8 DEF PipeUpstreamReadCb, Dispatching
  <2>1. TypeOK'
    BY <1>8, <2>0 DEF PipeUpstreamReadCb, Pause
  <2>2. QueuedInv' /\ ConnectingInv' /\ PolledInv'
    BY <1>8, <2>0 DEF PipeUpstreamReadCb, Pause
  <2>3. FailedInv' /\ ConnectedInv'
    BY <1>8, <2>0 DEF PipeUpstreamReadCb, Pause
  <2>4. OutputInv' /\ IdleInv'
    BY <1>8, <2>0 DEF PipeUpstreamReadCb, Pause
  <2>. QED  BY <2>1, <2>2, <2>3, <2>4, Zenon
<1>9. ASSUME NEW n \in 0..CHUNK, PipeClientWriteCb(n)
      PROVE  IndInv'
  <2>1. CASE cOut - n = 0 /\ drain
    <3>0. /\ st = "live" /\ up # "polled" /\ W \in cEv
          /\ cOut' = 0 /\ cKick' = FALSE /\ drain' = FALSE /\ fin' = TRUE
          /\ cEv' = (cEv \ {W}) \union {R} /\ cwRem' = CLOSE_WAIT
          /\ UNCHANGED <<st, up, uEv, uOut, uEof, conRem, idleRem, idling, origin>>
      BY <1>9, <2>1 DEF PipeClientWriteCb, Dispatching, FinishClientWrite
    <3>a. up \in {"connected", "failed"}
      BY <2>1, <3>0
    <3>1. TypeOK'
      BY <2>1, <3>0, <3>a
    <3>2. QueuedInv' /\ ConnectingInv' /\ PolledInv' /\ FailedInv'
      BY <2>1, <3>0, <3>a
    <3>3. ConnectedInv'
      BY <2>1, <3>0, <3>a
    <3>4. OutputInv' /\ IdleInv'
      BY <2>1, <3>0, <3>a
    <3>. QED  BY <3>1, <3>2, <3>3, <3>4, Zenon
  <2>2. CASE ~(cOut - n = 0 /\ drain)
    <3>0. /\ st = "live" /\ up # "polled" /\ W \in cEv
          /\ (cOut > 0 /\ n > 0 /\ n <= cOut) \/ (cOut = 0 /\ n = 0 /\ cKick)
          /\ cOut' = cOut - n /\ cKick' = FALSE
          /\ uEv' = IF cOut' = 0 THEN uEv \union {R} ELSE uEv
          /\ UNCHANGED <<st, up, cEv, uOut, uEof, flags, timers, idling, origin>>
      BY <1>9, <2>2 DEF PipeClientWriteCb, Dispatching
    <3>a. up \in {"connected", "failed"} /\ (up = "failed" => drain /\ cOut' # 0)
      BY <2>2, <3>0 DEF FlagsOK
    <3>1. TypeOK'
      BY <2>2, <3>0, <3>a
    <3>2. QueuedInv' /\ ConnectingInv' /\ PolledInv' /\ FailedInv'
      BY <2>2, <3>0, <3>a
    <3>3. ConnectedInv'
      BY <2>2, <3>0, <3>a
    <3>4. OutputInv' /\ IdleInv'
      BY <2>2, <3>0, <3>a
    <3>. QED  BY <3>1, <3>2, <3>3, <3>4
  <2>. QED  BY <2>1, <2>2
<1>10. ASSUME NEW n \in 0..CHUNK, PipeUpstreamWriteCb(n)
       PROVE  IndInv'
  BY <1>10 DEF PipeUpstreamWriteCb, Dispatching
<1>11. CASE ClientEof
  BY <1>11, FreeConnIndInv DEF ClientEof, FlagsOK
<1>12. CASE ClientError
  BY <1>12, FreeConnIndInv DEF ClientError, FlagsOK
<1>13. CASE ClientTimeout
  BY <1>13, FreeConnIndInv DEF ClientTimeout, FlagsOK
<1>14. CASE ConnIdleTimeoutCb
  <2>1. CASE touched
    <3>0. /\ st = "live" /\ idleRem = 0 /\ touched
          /\ touched' = FALSE /\ idleRem' = IDLE_TIMEOUT
          /\ UNCHANGED <<st, up, cEv, uEv, bufs, cKick, uEof, flags, conRem, cwRem, quiet, origin>>
      BY <1>14, <2>1 DEF ConnIdleTimeoutCb, Dispatching
    <3>1. TypeOK'
      BY <3>0
    <3>2. QueuedInv' /\ ConnectingInv' /\ PolledInv' /\ FailedInv'
      BY <3>0
    <3>3. ConnectedInv'
      BY <3>0
    <3>4. OutputInv' /\ IdleInv'
      BY <3>0
    <3>. QED  BY <3>1, <3>2, <3>3, <3>4
  <2>2. CASE ~touched
    BY <1>14, <2>2, FreeConnIndInv DEF ConnIdleTimeoutCb, FlagsOK
  <2>. QED  BY <2>1, <2>2
<1>15. CASE Tick
  BY <1>15 DEF Tick, Dispatching, TickDown
<1>16. CASE UNCHANGED vars
  BY <1>16 DEF vars, Init
<1>. QED
  BY <1>1, <1>2, <1>3, <1>4, <1>5, <1>6, <1>7, <1>8, <1>9, <1>10, <1>11, <1>12, Zenon,
     <1>13, <1>14, <1>15, <1>16 DEF Next

-----------------------------------------------------------------------------
(* IndInv is an invariant, for every chunk size, header length and timeout *)
THEOREM IndInvariant == Spec => []IndInv
  BY InitIndInv, NextIndInv, PTL DEF Spec

(* Every variable of a connection keeps its type.                          *)
THEOREM TypeCorrect == Spec => []TypeOK
<1>1. IndInv => TypeOK
  BY DEF IndInv
<1>. QED  BY <1>1, IndInvariant, PTL

(* The two output buffers of a connection never grow past the watermark by *)
(* more than the stated number of chunks, whatever the peers do.           *)
THEOREM BoundedOutput == Spec => []OutputBounded
<1>1. IndInv => OutputBounded
  BY StreamConnAssumption
     DEF IndInv, TypeOK, OutputInv, OutputBounded, HIGH, RESUME
<1>. QED  BY <1>1, IndInvariant, PTL

(* A paused reader of a relaying connection always has the write callback  *)
(* that will resume it still to come.                                      *)
THEOREM ResumeNotLost == Spec => []NoLostResume
<1>1. IndInv => NoLostResume
  BY DEF IndInv, FailedInv, ConnectedInv, NoLostResume
<1>. QED  BY <1>1, IndInvariant, PTL

(* Nothing is written to an upstream that has ended, and nothing is queued *)
(* for a client whose stream has been shut down.                           *)
THEOREM EndIsFinal == Spec => []NothingAfterEnd
<1>1. IndInv => NothingAfterEnd
  BY DEF IndInv, TypeOK, ConnectingInv, PolledInv, FailedInv, ConnectedInv, NothingAfterEnd
<1>. QED  BY <1>1, IndInvariant, PTL

(* A live connection has a running timer that can end it, unless its idle  *)
(* timer could not be allocated or its upstream was lost before CONNECTED. *)
THEOREM TimerArmed == Spec => []TimerAlwaysArmed
<1>1. IndInv => TimerAlwaysArmed
  BY DEF IndInv, TypeOK, ConnectingInv, PolledInv, FailedInv, ConnectedInv, TimerAlwaysArmed,
         Untimed
<1>. QED  BY <1>1, IndInvariant, PTL

(* An established connection is never silent for longer than two idle      *)
(* periods.                                                                *)
THEOREM SilenceBounded == Spec => []IdleBound
<1>1. IndInv => IdleBound
  BY StreamConnAssumption
     DEF IndInv, TypeOK, ConnectedInv, IdleInv, IdleBound, Off, QuietCap
<1>. QED  BY <1>1, IndInvariant, PTL

(* The idle timer closes no connection before it was silent for a period.  *)
THEOREM IdleCloseNotEarly == Spec => IdleNotEarly
<1>1. IndInv /\ ConnIdleTimeoutCb /\ st' = "freed" => quiet >= IDLE_TIMEOUT
  BY StreamConnAssumption
     DEF IndInv, TypeOK, ConnectingInv, PolledInv, FailedInv, IdleInv, ConnIdleTimeoutCb,
         Dispatching, Off, QuietCap
<1>. QED  BY <1>1, IndInvariant, PTL DEF IdleNotEarly

(* The "unreachable" timeout branch of stream_upstream_event_cb is.        *)
THEOREM TimeoutBranchUnreachable == Spec => NoTimeoutWhenConnected
<1>1. IndInv /\ UpstreamTimeout => up # "connected"
  BY DEF IndInv, ConnectedInv, UpstreamTimeout, Dispatching, Off
<1>. QED  BY <1>1, IndInvariant, PTL DEF NoTimeoutWhenConnected

(* Only the client's own failure, or the idle timer, discards response     *)
(* bytes the proxy has already read.                                       *)
THEOREM ResponseKept == Spec => ResponseNotCut
<1>1. ASSUME IndInv, Next, st = "live", st' = "freed", cOut > 0
      PROVE  ClientEof \/ ClientError \/ ConnIdleTimeoutCb
  <2>1. ~UpstreamTimeout
    BY <1>1 DEF IndInv, TypeOK, ConnectingInv, FailedInv, ConnectedInv, UpstreamTimeout,
                Dispatching, Off
  <2>2. ~ClientTimeout
    BY <1>1 DEF IndInv, TypeOK, ConnectingInv, FailedInv, ConnectedInv, ClientTimeout,
                Dispatching, Off
  <2>3. ~UpstreamError
    BY <1>1 DEF UpstreamError
  <2>4. ~(AdoptFails \/ UpstreamEof \/ Tick)
    BY <1>1 DEF AdoptFails, UpstreamEof, Tick
  <2>8. \A u : ~WorkerAdoptClientFd(u)
    BY <1>1 DEF WorkerAdoptClientFd
  <2>5. \A ok : ~UpstreamConnected(ok)
    BY <1>1 DEF UpstreamConnected
  <2>6. \A n : ~(PipeClientReadCb(n) \/ PipeUpstreamReadCb(n))
    BY <1>1 DEF PipeClientReadCb, PipeUpstreamReadCb
  <2>7. \A n : ~(PipeClientWriteCb(n) \/ PipeUpstreamWriteCb(n))
    BY <1>1 DEF PipeClientWriteCb, PipeUpstreamWriteCb
  <2>. QED  BY <1>1, <2>1, <2>2, <2>3, <2>4, <2>5, <2>6, <2>7, <2>8 DEF Next
<1>2. IndInv /\ [Next]_vars =>
        [st = "live" /\ st' = "freed" /\ cOut > 0
           => ClientEof \/ ClientError \/ ConnIdleTimeoutCb]_vars
  BY <1>1
<1>. QED  BY <1>2, IndInvariant, PTL DEF ResponseNotCut, Spec

(* A half-closed connection moves towards its end with every callback.     *)
LEMMA HalfCloseMoves == IndInv /\ Next => HalfCloseStep
<1>. SUFFICES ASSUME IndInv, Next, HalfClosed, ~(up = "failed" /\ R \notin cEv),
                     st' # "freed", ~noTimer'
              PROVE  HalfCloseStep
  BY Zenon DEF HalfCloseStep
<1>0. st = "live" /\ fin /\ ~noTimer /\ up \in {"polled", "connected", "failed"}
      /\ cOut = 0 /\ uEof
      /\ W \notin uEv /\ idleRem \in Int /\ uOut \in Nat
      /\ cwRem \in Int
      /\ (up = "connected" => idleRem # Off)
      /\ (up = "failed" => cwRem # Off /\ idleRem = Off /\ uEv = {} /\ ~cKick)
  BY DEF HalfClosed, IndInv, TypeOK, ConnectingInv, PolledInv, FailedInv, ConnectedInv, Off, R, W
<1>. USE <1>0 DEF HalfCloseStep, HalfClosed, Stage, LastTimer, bufs, flags, timers, idling, origin
<1>1. ASSUME NEW ok \in BOOLEAN, UpstreamConnected(ok) PROVE HalfCloseStep
  BY <1>1 DEF UpstreamConnected, IndInv, PolledInv
<1>2. CASE UpstreamEof
  BY <1>2 DEF UpstreamEof, Dispatching, DrainClientThenClose, FinishClientWrite, R, W
<1>3. ASSUME NEW n \in 1..CHUNK, PipeClientReadCb(n) PROVE HalfCloseStep
  <2>1. Stage' = Stage /\ UNCHANGED <<st, fin, noTimer>> /\ uOut' = uOut + n
    BY <1>3, Zenon DEF PipeClientReadCb
  <2>2. uOut + n > uOut
    BY StreamConnAssumption
  <2>. QED  BY <2>1, <2>2, Zenon
<1>4. ASSUME NEW n \in 0..CHUNK, PipeClientWriteCb(n) PROVE HalfCloseStep
  <2>1. up = "connected" /\ cKick /\ ~drain
    BY <1>4 DEF PipeClientWriteCb, Dispatching, IndInv, ConnectedInv
  <2>2. UNCHANGED <<st, up, fin, noTimer>> /\ cKick' = FALSE
    BY <1>4, <2>1, Zenon DEF PipeClientWriteCb
  <2>. QED  BY <2>1, <2>2
<1>5. ASSUME NEW n \in 0..CHUNK, PipeUpstreamWriteCb(n) PROVE HalfCloseStep
  BY <1>5 DEF PipeUpstreamWriteCb
<1>6. CASE ConnIdleTimeoutCb
  BY <1>6 DEF ConnIdleTimeoutCb, FreeConn
<1>7. CASE Tick
  BY <1>7 DEF Tick, Dispatching, TickDown, Off
<1>8. ASSUME NEW n \in 1..CHUNK, PipeUpstreamReadCb(n) PROVE HalfCloseStep
  BY <1>8, Zenon DEF PipeUpstreamReadCb
<1>9. CASE UpstreamError
  BY <1>9 DEF UpstreamError, FreeConn
<1>. QED
  BY <1>1, <1>2, <1>3, <1>4, <1>5, <1>6, <1>7, <1>8, <1>9, Zenon
  DEF Next, WorkerAdoptClientFd, AdoptFails, UpstreamTimeout, ClientEof, ClientError,
      ClientTimeout, FreeConn

(* Half-closed, a connection goes forward whatever its client does.        *)
THEOREM HalfCloseGoesForward == Spec => HalfCloseAdvances
<1>1. IndInv /\ [Next]_vars => [HalfCloseStep]_vars
  BY HalfCloseMoves, Zenon
<1>. QED  BY <1>1, IndInvariant, PTL DEF Spec, HalfCloseAdvances

(* So does a connection that is being established.                         *)
LEMMA ConnectMoves == IndInv /\ Next => ConnectStep
<1>. SUFFICES ASSUME IndInv, Next, st = "live", up \in {"connecting", "polled"},
                     st' # "freed", up' # "connected"
              PROVE  ConnectStep
  BY Zenon DEF ConnectStep
<1>0. up \in {"polled", "connecting"} /\ conRem \in Int /\ conRem # Off /\ uOut \in Nat
      /\ (up = "connecting" => cOut = 0 /\ ~cKick)
  BY DEF IndInv, TypeOK, ConnectingInv, PolledInv, Off
<1>. USE <1>0 DEF ConnectStep, bufs, flags, timers, idling, origin
<1>1. CASE UpstreamEof
  BY <1>1, Zenon DEF UpstreamEof, Dispatching
<1>2. ASSUME NEW n \in 1..CHUNK, PipeUpstreamReadCb(n) PROVE ConnectStep
  BY <1>2, Zenon DEF PipeUpstreamReadCb, Dispatching
<1>3. ASSUME NEW n \in 1..CHUNK, PipeClientReadCb(n) PROVE ConnectStep
  BY <1>3, StreamConnAssumption DEF PipeClientReadCb, Dispatching
<1>4. ASSUME NEW n \in 0..CHUNK, PipeClientWriteCb(n) PROVE ConnectStep
  BY <1>4 DEF PipeClientWriteCb, Dispatching
<1>5. CASE Tick
  BY <1>5 DEF Tick, Dispatching, TickDown, Off
<1>6. CASE UpstreamError
  BY <1>6 DEF UpstreamError, DrainClientThenClose, FreeConn
<1>7. CASE ConnIdleTimeoutCb
  BY <1>7 DEF ConnIdleTimeoutCb, Dispatching, IndInv, ConnectingInv, Off
<1>. QED
  BY <1>1, <1>2, <1>3, <1>4, <1>5, <1>6, <1>7, Zenon
  DEF Next, WorkerAdoptClientFd, AdoptFails, UpstreamConnected, UpstreamTimeout, ClientEof,
      ClientError, ClientTimeout, PipeUpstreamWriteCb, FreeConn

(* The connect phase goes forward whatever the peers do.                   *)
THEOREM ConnectGoesForward == Spec => ConnectAdvances
<1>1. IndInv /\ [Next]_vars => [ConnectStep]_vars
  BY ConnectMoves, Zenon
<1>. QED  BY <1>1, IndInvariant, PTL DEF Spec, ConnectAdvances
=============================================================================
