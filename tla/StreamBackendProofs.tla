------------------------ MODULE StreamBackendProofs ------------------------
(***************************************************************************)
(* Proofs about StreamBackend, for every file length, watermark and        *)
(* timeout: IndInv is inductive, and the safety properties follow from it. *)
(***************************************************************************)
EXTENDS StreamBackend, TLAPS

(* A connection waiting in the queue satisfies IndInv.                     *)
LEMMA InitIndInv == Init => IndInv
<1>. SUFFICES ASSUME Init PROVE IndInv
  OBVIOUS
<1>1. FlagsOK
  BY Zenon DEF Init, FlagsOK
<1>2. FileClosed
  BY DEF Init, FileClosed
<1>3. QED
  BY <1>1, <1>2, StreamBackendAssumption
     DEF Init, IndInv, TypeOK, OutputBounded, NothingSkipped, LiveInv, TimeoutInv,
         QueuedInv, R, W, Off, QuietCap, Response

(* The flags stay Boolean and the file is open exactly while its           *)
(* connection lives, whatever step is taken.                               *)
LEMMA NextFlags ==
  FlagsOK /\ FileClosed /\ QueuedInv /\ [Next]_vars => FlagsOK' /\ FileClosed'
<1>. SUFFICES ASSUME FlagsOK, FileClosed, QueuedInv, [Next]_vars
              PROVE  FlagsOK' /\ FileClosed'
  OBVIOUS
<1>. USE DEF FlagsOK, FileClosed, FreeConn, FileDone, EventFrees
<1>1. CASE StartStreamBuiltin
  BY <1>1, Zenon DEF StartStreamBuiltin
<1>2. CASE StartStreamFile
  BY <1>2, Zenon DEF StartStreamFile, FileWriteCb
<1>3. CASE StartStreamFileFails \/ FileFails
  BY <1>3, Zenon DEF StartStreamFileFails, FileFails
<1>4. ASSUME NEW n, ClientWrite(n) PROVE FlagsOK' /\ FileClosed'
  BY <1>4, Zenon DEF ClientWrite, FinishClientWrite, FileWriteCb
<1>5. ASSUME NEW n, ClientRead(n) PROVE FlagsOK' /\ FileClosed'
  BY <1>5 DEF ClientRead
<1>6. CASE ClientEof \/ ClientError \/ ClientTimeout
  BY <1>6, Zenon DEF ClientEof, ClientError, ClientTimeout
<1>7. CASE ClientSends \/ Tick
  BY <1>7 DEF ClientSends, Tick
<1>8. CASE UNCHANGED vars
  BY <1>8 DEF vars
<1>. QED  BY <1>1, <1>2, <1>3, <1>4, <1>5, <1>6, <1>7, <1>8 DEF Next

(* A connection that is freed satisfies the rest of IndInv.                *)
LEMMA FreeConnIndInv ==
  ASSUME IndInv, FreeConn, FlagsOK', FileClosed',
         sent' \in Nat, quiet' \in 0..QuietCap, UNCHANGED <<backend, size, sock>>
  PROVE  IndInv'
BY StreamBackendAssumption
   DEF FreeConn, IndInv, TypeOK, OutputBounded, NothingSkipped, LiveInv, TimeoutInv,
       QueuedInv, R, W, Off, QuietCap

(* Every callback, and the passing of time, preserves IndInv.              *)
LEMMA NextIndInv == IndInv /\ [Next]_vars => IndInv'
<1>. SUFFICES ASSUME IndInv, [Next]_vars PROVE IndInv'
  OBVIOUS
<1>0. FlagsOK' /\ FileClosed'
  BY NextFlags DEF IndInv, TypeOK
<1>. USE <1>0, StreamBackendAssumption
<1>. DEFINE Freed == FreeConn /\ UNCHANGED <<backend, size, sock>>
                     /\ sent' \in Nat /\ quiet' \in 0..QuietCap
<1>f. ASSUME Freed PROVE IndInv'
  BY <1>f, FreeConnIndInv
<1>. HIDE DEF Freed
<1>1. CASE StartStreamBuiltin
  <2>1. CASE FreeConn
    BY <1>1, <2>1, <1>f DEF Freed, StartStreamBuiltin, IndInv, TypeOK
  <2>2. CASE st' = "live"
    BY <1>1, <2>2
       DEF StartStreamBuiltin, FreeConn, IndInv, TypeOK, OutputBounded, NothingSkipped,
           LiveInv, TimeoutInv, QueuedInv, R, W, Off, QuietCap, Response, Answering,
           BuiltinNames
  <2>. QED  BY <1>1, <2>1, <2>2 DEF StartStreamBuiltin
<1>2. CASE StartStreamFile
  <2>1. CASE FreeConn
    BY <1>2, <2>1, <1>f DEF Freed, StartStreamFile, IndInv, TypeOK
  <2>2. CASE st' = "live"
    <3>1. /\ left > 0 /\ out' = Fill /\ left' = left - Fill /\ wrRem' = IDLE_TIMEOUT
          /\ UNCHANGED <<backend, size, sent, sock, quiet, ev, fin, rdRem>>
      BY <1>2, <2>2 DEF StartStreamFile, FileWriteCb, FileDone, FreeConn
    <3>2. Fill \in Nat /\ Fill <= HIGH /\ Fill <= left /\ Fill > 0
      BY <3>1 DEF Fill, IndInv, TypeOK
    <3>. HIDE DEF Fill
    <3>3. backend = "file" /\ st = "queued"
      BY <1>2 DEF StartStreamFile
    <3>. QED
      BY <2>2, <3>1, <3>2, <3>3
         DEF IndInv, TypeOK, OutputBounded, NothingSkipped,
             LiveInv, TimeoutInv, QueuedInv, R, W, Off, QuietCap, Response
  <2>. QED  BY <1>2, <2>1, <2>2 DEF StartStreamFile, FileWriteCb, FileDone
<1>3. CASE StartStreamFileFails \/ FileFails
  BY <1>3, <1>f DEF Freed, StartStreamFileFails, FileFails, FileDone, IndInv, TypeOK, QuietCap
<1>4. ASSUME NEW n \in 1..HIGH, ClientWrite(n) PROVE IndInv'
  <2>1. CASE FreeConn
    <3>1. sent' \in Nat /\ quiet' \in 0..QuietCap
      BY <1>4 DEF ClientWrite, IndInv, TypeOK, QuietCap
    <3>. QED  BY <1>4, <2>1, <3>1, <1>f DEF Freed, ClientWrite
  <2>2. CASE n < out
    <3>1. /\ st = "live" /\ out' = out - n /\ wrRem' = IDLE_TIMEOUT /\ sent' = sent + n
          /\ quiet' = 0 /\ W \in ev
          /\ UNCHANGED <<backend, size, st, sock, left, ev, fin, rdRem>>
      BY <1>4, <2>2 DEF ClientWrite, IndInv, TypeOK
    <3>2. ~fin
      BY <2>2, <3>1 DEF IndInv, TypeOK, LiveInv
    <3>. QED
      BY <2>2, <3>1, <3>2
         DEF IndInv, TypeOK, OutputBounded, NothingSkipped,
             LiveInv, TimeoutInv, QueuedInv, R, W, Off, QuietCap, Response
  <2>3. CASE n = out /\ backend = "http_ok" /\ FinishClientWrite
    <3>1. /\ st = "live" /\ out' = 0 /\ rdRem' = CLOSE_WAIT /\ wrRem' = Off
          /\ sent' = sent + n /\ quiet' = 0 /\ fin' /\ ev' = (ev \ {W}) \union {R}
          /\ n = out /\ backend = "http_ok" /\ st' = "live"
          /\ UNCHANGED <<backend, size, sock, left>>
      BY <1>4, <2>3, Zenon DEF ClientWrite, FinishClientWrite, FreeConn, IndInv, TypeOK
    <3>. QED
      BY <3>1
         DEF IndInv, TypeOK, OutputBounded, NothingSkipped,
             LiveInv, TimeoutInv, QueuedInv, R, W, Off, QuietCap, Response
  <2>4. CASE n = out /\ backend = "file" /\ FileWriteCb /\ ~FreeConn
    <3>1. /\ left > 0 /\ out' = Fill /\ left' = left - Fill /\ wrRem' = IDLE_TIMEOUT
          /\ st = "live" /\ st' = "live" /\ sent' = sent + n /\ quiet' = 0 /\ n = out
          /\ backend = "file"
          /\ UNCHANGED <<backend, size, sock, ev, fin, rdRem>>
      BY <1>4, <2>4 DEF ClientWrite, FileWriteCb, FileDone
    <3>2. Fill \in Nat /\ Fill <= HIGH /\ Fill <= left /\ Fill > 0
      BY <3>1 DEF Fill, IndInv, TypeOK
    <3>. HIDE DEF Fill
    <3>. QED
      BY <3>1, <3>2
         DEF IndInv, TypeOK, OutputBounded, NothingSkipped,
             LiveInv, TimeoutInv, QueuedInv, R, W, Off, QuietCap, Response
  <2>. QED  BY <1>4, <2>1, <2>2, <2>3, <2>4 DEF ClientWrite
<1>5. ASSUME NEW n \in 1..MaxSock, ClientRead(n) PROVE IndInv'
  BY <1>5
     DEF ClientRead, IndInv, TypeOK, OutputBounded, NothingSkipped,
         LiveInv, TimeoutInv, QueuedInv, R, W, Off, QuietCap, Response
<1>6. CASE ClientEof \/ ClientError \/ ClientTimeout
  BY <1>6, <1>f DEF Freed, ClientEof, ClientError, ClientTimeout, EventFrees, FileDone,
                    IndInv, TypeOK
<1>7. CASE ClientSends
  BY <1>7
     DEF ClientSends, IndInv, TypeOK, OutputBounded, NothingSkipped,
         LiveInv, TimeoutInv, QueuedInv, R, W, Off, QuietCap, Response
<1>8. CASE Tick
  BY <1>8
     DEF Tick, TickDown, IndInv, TypeOK, OutputBounded, NothingSkipped,
         LiveInv, TimeoutInv, QueuedInv, R, W, Off, QuietCap, Response
<1>9. CASE UNCHANGED vars
  BY <1>9
     DEF vars, IndInv, TypeOK, OutputBounded, NothingSkipped,
         LiveInv, TimeoutInv, QueuedInv, R, W, Off, QuietCap, Response
<1>. QED  BY <1>1, <1>2, <1>3, <1>4, <1>5, <1>6, <1>7, <1>8, <1>9 DEF Next

(* IndInv holds throughout the life of a connection to a backend inside    *)
(* the proxy.                                                              *)
THEOREM IndInvariant == Spec => []IndInv
BY InitIndInv, NextIndInv, PTL DEF Spec

(* Every variable keeps its type.                                          *)
THEOREM TypeCorrect == Spec => []TypeOK
<1>1. IndInv => TypeOK
  BY DEF IndInv
<1>. QED  BY <1>1, IndInvariant, PTL

(* file_write_cb never queues more than the high watermark.                *)
THEOREM FileStreamed == Spec => []OutputBounded
<1>1. IndInv => OutputBounded
  BY DEF IndInv
<1>. QED  BY <1>1, IndInvariant, PTL

(* What was sent, what is queued and what the file still has add up to the *)
(* response.                                                               *)
THEOREM ResponseInOrder == Spec => []NothingSkipped
<1>1. IndInv => NothingSkipped
  BY DEF IndInv
<1>. QED  BY <1>1, IndInvariant, PTL

(* A connection on which nothing moves does not outlive its timeout.       *)
THEOREM SilentConnectionEnds == Spec => []SilenceBounded
<1>1. IndInv => SilenceBounded
  BY StreamBackendAssumption
     DEF IndInv, TypeOK, LiveInv, TimeoutInv, SilenceBounded, Off, BuiltinNames
<1>. QED  BY <1>1, IndInvariant, PTL

(* A backend that ends a connection by itself has sent its whole response. *)
THEOREM ResponseComplete == Spec => ResponseWhole
<1>. DEFINE Ends == (st' = "freed" /\ st # "freed") \/ (fin' /\ ~fin)
            Excused == \/ sent' = Response
                       \/ ClientEof \/ ClientError \/ ClientTimeout
                       \/ failed'
                       \/ StartStreamBuiltin /\ backend = "client_addr"
<1>1. ASSUME IndInv, [Next]_vars, Ends PROVE Excused
  <2>1. CASE StartStreamBuiltin
    BY <1>1, <2>1
       DEF StartStreamBuiltin, FreeConn, IndInv, TypeOK, QueuedInv, Response, Answering
  <2>2. CASE StartStreamFile
    BY <1>1, <2>2
       DEF StartStreamFile, FileWriteCb, FileDone, FreeConn, IndInv, TypeOK, QueuedInv, Response
  <2>3. CASE StartStreamFileFails \/ FileFails
    BY <2>3 DEF StartStreamFileFails, FileFails
  <2>4. ASSUME NEW n \in 1..HIGH, ClientWrite(n) PROVE sent' = Response
    <3>1. st = "live" /\ n = out /\ sent' = sent + n /\ (backend = "file" => left = 0)
      BY <1>1, <2>4 DEF ClientWrite, FileWriteCb, IndInv, TypeOK
    <3>2. sent \in Nat /\ out \in Nat /\ left \in Nat /\ NothingSkipped
      BY <1>1 DEF IndInv, TypeOK
    <3>3. sent + out = Response
      BY <3>1, <3>2, StreamBackendAssumption DEF NothingSkipped, Response
    <3>. QED  BY <3>1, <3>3
  <2>5. ASSUME NEW n \in 1..MaxSock, ClientRead(n) PROVE FALSE
    BY <1>1, <2>5 DEF ClientRead
  <2>6. CASE ClientSends \/ Tick \/ UNCHANGED vars
    BY <1>1, <2>6 DEF ClientSends, Tick, vars
  <2>. QED  BY <1>1, <2>1, <2>2, <2>3, <2>4, <2>5, <2>6 DEF Next
<1>2. IndInv /\ [Next]_vars => [Ends => Excused]_vars
  BY <1>1
<1>. QED  BY <1>2, IndInvariant, PTL DEF Spec, ResponseWhole

(* Every step of a connection whose response is served takes it further.   *)
LEMMA ServingMoves == IndInv /\ Next => ServingStep
<1>. SUFFICES ASSUME IndInv, Next, Serving, st' # "freed", ~fin' PROVE ServingStep
  BY Zenon DEF ServingStep
<1>0. /\ st = "live" /\ ~fin /\ backend \in {"file", "client_addr", "http_ok"}
      /\ wrRem \in Nat /\ sent \in Nat /\ left \in Nat /\ out \in Nat /\ sock \in Nat
  BY DEF Serving, Answering, IndInv, TypeOK, LiveInv, Off
<1>. USE <1>0, StreamBackendAssumption DEF ServingStep, Serving, Answering, Off
<1>1. ASSUME NEW n \in 1..HIGH, ClientWrite(n) PROVE ServingStep
  <2>1. sent' = sent + n /\ UNCHANGED backend
    BY <1>1, Zenon DEF ClientWrite
  <2>2. st' = "live" /\ wrRem' = IDLE_TIMEOUT
    BY <1>1, Zenon DEF ClientWrite, FreeConn, FileDone, FinishClientWrite, FileWriteCb
  <2>. QED  BY <2>1, <2>2
<1>2. ASSUME NEW n \in 1..MaxSock, ClientRead(n) PROVE ServingStep
  BY <1>2 DEF ClientRead
<1>3. CASE ClientSends
  BY <1>3 DEF ClientSends
<1>4. CASE Tick
  BY <1>4 DEF Tick, TickDown
<1>. QED
  BY <1>1, <1>2, <1>3, <1>4, Zenon
  DEF Next, StartStreamBuiltin, StartStreamFile, StartStreamFileFails, FileFails, ClientEof,
      ClientError, ClientTimeout, EventFrees, FileDone, FreeConn

(* A response goes forward whatever its client does, for every file length *)
(* and timeout.                                                            *)
THEOREM ResponseGoesForward == Spec => ResponseAdvances
<1>1. IndInv /\ [Next]_vars => [ServingStep]_vars
  BY ServingMoves, Zenon
<1>. QED  BY <1>1, IndInvariant, PTL DEF Spec, ResponseAdvances
=============================================================================
