--------------------------- MODULE StreamBackend ---------------------------
(***************************************************************************)
(* A stream connection of a route whose backend is inside the proxy: the   *)
(* builtins (stream_builtin.c, x_builtins.c) and the file backend          *)
(* (stream_file.c).  There is no upstream socket and no idle timer; the    *)
(* client's bufferevent has read and write timeouts instead.  As in        *)
(* StreamConn every callback is one step of one worker's event loop.       *)
(*                                                                         *)
(* Bytes are counted.  sock is what the client has sent and the proxy has  *)
(* not read: it waits in the kernel, and the kernel answers a close of a   *)
(* socket that still has such bytes with a reset.                          *)
(***************************************************************************)
EXTENDS Integers

CONSTANTS
  Backends,     \* the backends of the routes: some of BuiltinNames and "file"
  ANSWER,       \* length of the answer of client_addr and http_ok
  FileSizes,    \* lengths the file may have
  HIGH,         \* STREAM_READ_HIGH_WATER, a multiple of FILE_CHUNK_SIZE
  IDLE_TIMEOUT, \* opts.idle_timeout_sec, in ticks
  CLOSE_WAIT,   \* CLOSE_WAIT_TIMEOUT_SEC, in ticks
  MaxSock       \* bound on the client bytes waiting in the kernel

BuiltinNames == {"client_addr", "http_ok", "discard", "hang", "log_conn", "close"}

ASSUME StreamBackendAssumption ==
  /\ Backends \subseteq BuiltinNames \union {"file"}
  /\ ANSWER \in Nat \ {0} /\ FileSizes \subseteq Nat
  /\ HIGH \in Nat \ {0} /\ ANSWER <= HIGH
  /\ IDLE_TIMEOUT \in Nat \ {0} /\ CLOSE_WAIT \in Nat \ {0}
  /\ MaxSock \in Nat

VARIABLES
  backend,  \* route->upstream: which backend
  st,       \* "queued": fd in a worker's queue; "live": conn_t exists; "freed"
  ev,       \* directions enabled on conn->client
  out,      \* length of the client's output buffer
  size,     \* length of the file
  left,     \* bytes of the file not read yet
  fp,       \* fc->fp is open
  failed,   \* the file could not be opened, read or queued
  sent,     \* response bytes handed to the kernel
  fin,      \* conn->close_after_client_eof: SHUT_WR done
  sock,     \* client bytes in the kernel, unread
  rdRem,    \* ticks left on the client's read timeout, or Off
  wrRem,    \* ticks left on the client's write timeout, or Off
  quiet     \* ticks since a byte was last read from or written to the client

vars == <<backend, size, st, ev, out, left, fp, failed, sent, fin, sock, rdRem, wrRem, quiet>>

R == "EV_READ"
W == "EV_WRITE"
Off == -1

QuietCap == IDLE_TIMEOUT + CLOSE_WAIT + 1  \* quiet saturates

Answering == {"client_addr", "http_ok"}

(* The length of the whole response of a backend.                          *)
Response == IF backend = "file" THEN size
            ELSE IF backend \in Answering THEN ANSWER ELSE 0

FlagsOK == fp \in BOOLEAN /\ failed \in BOOLEAN /\ fin \in BOOLEAN

(* Which values each variable takes.                                       *)
TypeOK ==
  /\ FlagsOK
  /\ backend \in BuiltinNames \union {"file"}
  /\ st \in {"queued", "live", "freed"}
  /\ ev \in SUBSET {R, W}
  /\ out \in Nat /\ size \in Nat /\ left \in Nat /\ sent \in Nat
  /\ sock \in 0..MaxSock
  /\ rdRem \in {Off} \union Nat /\ wrRem \in {Off} \union Nat
  /\ quiet \in 0..QuietCap

Init ==
  /\ backend \in Backends
  /\ st = "queued" /\ ev = {W}
  /\ out = 0 /\ size \in FileSizes /\ left = size /\ sent = 0
  /\ fp = FALSE /\ failed = FALSE /\ fin = FALSE
  /\ sock \in 0..MaxSock
  /\ rdRem = Off /\ wrRem = Off
  /\ quiet = 0

-----------------------------------------------------------------------------
(* free_conn: the sockets and the timeouts go; of a file it knows nothing. *)
FreeConn ==
  /\ st' = "freed" /\ ev' = {} /\ out' = 0
  /\ rdRem' = Off /\ wrRem' = Off
  /\ UNCHANGED <<left, fin>>

(* file_done: fclose, then free_conn.                                      *)
FileDone == fp' = FALSE /\ FreeConn

(* An event that ends the connection runs file_event_cb on a file and      *)
(* stream_client_event_cb on a builtin.                                    *)
EventFrees == IF backend = "file" THEN FileDone ELSE FreeConn /\ UNCHANGED fp

StartStreamBuiltinNoTimeout ==
  /\ st = "queued" /\ backend # "file"
  /\ \/ /\ backend \notin {"log_conn", "close"}
        /\ st' = "live"
        /\ out' = Response
        /\ ev' = IF backend = "client_addr" THEN {W} ELSE {R, W}
        /\ UNCHANGED <<left, fp, fin, rdRem, wrRem>>
     \/ backend \in {"log_conn", "close", "client_addr"} /\ FreeConn /\ UNCHANGED fp
  /\ UNCHANGED <<backend, size, failed, sent, sock, quiet>>

(* start_stream_builtin with x_builtin_handle.  client_addr queues its     *)
(* answer and does not read; http_ok queues its answer and reads; discard  *)
(* and hang read; log_conn and close end at once, as does client_addr when *)
(* the peer's name cannot be had.  A timeout runs for every direction with *)
(* an event pending: reading if enabled, writing if there is output.       *)
StartStreamBuiltin ==
  /\ st = "queued" /\ backend # "file"
  /\ \/ /\ backend \notin {"log_conn", "close"}
        /\ st' = "live"
        /\ out' = Response
        /\ ev' = IF backend = "client_addr" THEN {W} ELSE {R, W}
        /\ rdRem' = IF backend = "client_addr" THEN Off ELSE IDLE_TIMEOUT
        /\ wrRem' = IF backend \in Answering THEN IDLE_TIMEOUT ELSE Off
        /\ UNCHANGED <<left, fp, fin>>
     \/ backend \in {"log_conn", "close", "client_addr"} /\ FreeConn /\ UNCHANGED fp
  /\ UNCHANGED <<backend, size, failed, sent, sock, quiet>>

(* The loop of file_write_cb, which always finds the output empty: chunks  *)
(* are read until the output reaches the high watermark or the file ends.  *)
Fill == IF left < HIGH THEN left ELSE HIGH

FileWriteCbEndsAtEof ==
  \/ left <= HIGH /\ FileDone
  \/ /\ left > HIGH
     /\ st' = "live" /\ fp' = TRUE
     /\ out' = Fill /\ left' = left - Fill
     /\ wrRem' = IDLE_TIMEOUT
     /\ UNCHANGED <<ev, fin, rdRem>>

(* file_write_cb: refill the output, or close once the file has ended and  *)
(* nothing is queued any more.                                             *)
FileWriteCb ==
  \/ left = 0 /\ FileDone
  \/ /\ left > 0
     /\ st' = "live" /\ fp' = TRUE
     /\ out' = Fill /\ left' = left - Fill
     /\ wrRem' = IDLE_TIMEOUT
     /\ UNCHANGED <<ev, fin, rdRem>>

(* start_stream_file: the file is open, the client is written and not      *)
(* read, and file_write_cb fills the output for the first time.            *)
StartStreamFile ==
  /\ st = "queued" /\ backend = "file"
  /\ FileWriteCb
  /\ UNCHANGED <<backend, size, failed, sent, sock, quiet>>

(* Its early returns: fopen fails, with nothing open; calloc fails, and    *)
(* the file is closed here; the first file_write_cb cannot read the file,  *)
(* or not queue what it read.                                              *)
StartStreamFileFails ==
  /\ st = "queued" /\ backend = "file"
  /\ \/ FreeConn /\ UNCHANGED fp
     \/ fp' = FALSE /\ FreeConn
     \/ FileDone
  /\ failed' = TRUE
  /\ UNCHANGED <<backend, size, sent, sock, quiet>>

(* The output was drained and file_write_cb cannot read the file, or not   *)
(* queue what it read: file_done.                                          *)
FileFails ==
  /\ st = "live" /\ backend = "file" /\ left > 0
  /\ sent' = sent + out
  /\ quiet' = 0
  /\ FileDone
  /\ failed' = TRUE
  /\ UNCHANGED <<backend, size, sock>>

-----------------------------------------------------------------------------
(* finish_client_write, as builtin_http_close_after_write_cb calls it.     *)
FinishClientWrite ==
  /\ ev' = (ev \ {W}) \union {R}
  /\ fin' = TRUE
  /\ rdRem' = CLOSE_WAIT /\ wrRem' = Off
  /\ out' = 0

(* n bytes go to the client.  The write callback runs once the output is   *)
(* empty: builtin_close_after_write_cb, builtin_http_close_after_write_cb  *)
(* or file_write_cb.                                                       *)
ClientWrite(n) ==
  /\ st = "live" /\ W \in ev
  /\ n <= out
  /\ sent' = sent + n
  /\ quiet' = 0
  /\ \/ /\ n < out
        /\ out' = out - n /\ wrRem' = IDLE_TIMEOUT
        /\ UNCHANGED <<st, ev, left, fp, fin, rdRem>>
     \/ n = out /\ backend = "client_addr" /\ FreeConn /\ UNCHANGED fp
     \/ n = out /\ backend = "http_ok" /\ FinishClientWrite /\ UNCHANGED <<st, left, fp>>
     \/ n = out /\ backend = "file" /\ FileWriteCb
  /\ UNCHANGED <<backend, size, failed, sock>>

ClientReadKeepIdle(n) ==
  /\ st = "live" /\ R \in ev
  /\ n <= sock
  /\ sock' = sock - n
  /\ rdRem' = IDLE_TIMEOUT
  /\ quiet' = 0
  /\ UNCHANGED <<backend, size, failed, st, ev, out, left, fp, sent, fin, wrRem>>

(* n bytes are read.  builtin_client_read_cb drops them; hang has no read  *)
(* callback and leaves them in the input buffer for good.  A read restarts *)
(* the read timeout.                                                       *)
ClientRead(n) ==
  /\ st = "live" /\ R \in ev
  /\ n <= sock
  /\ sock' = sock - n
  /\ rdRem' = IF fin THEN CLOSE_WAIT ELSE IDLE_TIMEOUT
  /\ quiet' = 0
  /\ UNCHANGED <<backend, size, failed, st, ev, out, left, fp, sent, fin, wrRem>>

(* stream_client_event_cb and file_event_cb: EOF, once everything sent     *)
(* before it was read ...                                                  *)
ClientEof ==
  /\ st = "live" /\ R \in ev /\ sock = 0
  /\ EventFrees
  /\ UNCHANGED <<backend, size, failed, sent, sock, quiet>>

(* ... an error of a read or a write ...                                   *)
ClientError ==
  /\ st = "live"
  /\ R \in ev \/ (W \in ev /\ out > 0)
  /\ EventFrees
  /\ UNCHANGED <<backend, size, failed, sent, sock, quiet>>

(* ... and a timeout of either.                                            *)
ClientTimeout ==
  /\ st = "live" /\ (rdRem = 0 \/ wrRem = 0)
  /\ EventFrees
  /\ UNCHANGED <<backend, size, failed, sent, sock, quiet>>

(* The client sends a byte.                                                *)
ClientSends ==
  /\ st # "freed" /\ sock < MaxSock
  /\ sock' = sock + 1
  /\ UNCHANGED <<backend, size, failed, st, ev, out, left, fp, sent, fin, rdRem, wrRem, quiet>>

TickDown(rem) == IF rem = Off THEN Off ELSE rem - 1

(* Time passes; a timeout that is due is served before time moves on.      *)
Tick ==
  /\ st = "live" /\ rdRem # 0 /\ wrRem # 0
  /\ rdRem' = TickDown(rdRem)
  /\ wrRem' = TickDown(wrRem)
  /\ quiet' = IF quiet < QuietCap THEN quiet + 1 ELSE quiet
  /\ UNCHANGED <<backend, size, failed, st, ev, out, left, fp, sent, fin, sock>>

Next ==
  \/ StartStreamBuiltin
  \/ StartStreamFile
  \/ StartStreamFileFails
  \/ FileFails
  \/ \E n \in 1..HIGH : ClientWrite(n)
  \/ \E n \in 1..MaxSock : ClientRead(n)
  \/ ClientEof
  \/ ClientError
  \/ ClientTimeout
  \/ ClientSends
  \/ Tick

Spec == Init /\ [][Next]_vars

(* Time passes and libevent serves due timeouts; the client owes nothing.  *)
Fairness == WF_vars(Tick) /\ WF_vars(ClientTimeout)

FairSpec == Spec /\ Fairness

-----------------------------------------------------------------------------
(* A file is streamed, not loaded: the output never exceeds the high       *)
(* watermark, however large the file and however slow the client.          *)
OutputBounded == out <= HIGH

(* No byte of a response is skipped or sent twice: while it is served,     *)
(* what was sent, what is queued and what the file still has add up.       *)
NothingSkipped ==
  st = "live" => sent + out + (IF backend = "file" THEN left ELSE 0) = Response

(* A backend closes or half-closes a connection by itself only after its   *)
(* whole response has been handed to the kernel; anything less is the end  *)
(* of the client, a timeout or a file that cannot be read.                 *)
ResponseWhole ==
  [][(st' = "freed" /\ st # "freed") \/ (fin' /\ ~fin)
     => \/ sent' = Response
        \/ ClientEof \/ ClientError \/ ClientTimeout
        \/ failed'
        \/ StartStreamBuiltin /\ backend = "client_addr"]_vars

(* A connection on which nothing moves is given up: after the idle timeout *)
(* or, once half-closed, after the close-wait timeout.                     *)
SilenceBounded ==
  st = "live" => quiet <= (IF fin THEN CLOSE_WAIT ELSE IDLE_TIMEOUT)

(* A response comes to its end whatever the client does: it is written to  *)
(* the end (and http_ok half-closed), or the connection is gone.           *)
ResponseEnds ==
  st = "live" /\ (backend = "file" \/ backend \in Answering) ~> st = "freed" \/ fin

Serving == st = "live" /\ (backend = "file" \/ backend \in Answering) /\ ~fin

ServingStep ==
  Serving =>
    \/ st' = "freed" \/ fin'
    \/ /\ Serving' /\ wrRem' # Off
       /\ \/ sent' > sent
          \/ sent' = sent /\ wrRem' < wrRem
          \/ sent' = sent /\ wrRem' = wrRem /\ sock' # sock

(* While a response is served, a step ends it, takes it further or takes   *)
(* time from its write timeout; bytes the client sends meanwhile, read or  *)
(* not, buy it no time.                                                    *)
ResponseAdvances == [][ServingStep]_vars

-----------------------------------------------------------------------------
(* The file is open exactly while its connection lives.                    *)
FileClosed == fp <=> st = "live" /\ backend = "file"

(* What keeps a connection of each backend going: output to write, with a  *)
(* write timeout, or reads, with a read timeout.                           *)
LiveInv ==
  st = "live" =>
    /\ backend \notin {"log_conn", "close"}
    /\ backend \in {"client_addr", "http_ok", "file"} /\ ~fin => out > 0 /\ wrRem # Off
    /\ backend \notin {"client_addr", "file"} => rdRem # Off
    /\ fin => backend = "http_ok" /\ out = 0

(* No timeout outlasts the patience shown since the last byte.             *)
TimeoutInv ==
  st = "live" =>
    /\ rdRem # Off => quiet + rdRem <= (IF fin THEN CLOSE_WAIT ELSE IDLE_TIMEOUT)
    /\ wrRem # Off => ~fin /\ quiet + wrRem <= IDLE_TIMEOUT

QueuedInv ==
  st = "queued" => out = 0 /\ left = size /\ sent = 0 /\ ~fin /\ quiet = 0
                     /\ rdRem = Off /\ wrRem = Off

(* The conjunction that every step preserves.                              *)
IndInv ==
  /\ TypeOK /\ OutputBounded /\ NothingSkipped /\ FileClosed
  /\ LiveInv /\ TimeoutInv /\ QueuedInv

-----------------------------------------------------------------------------
(* finish_client_write's comment: "Do not wait for the full idle timeout   *)
(* here; otherwise a client that never sends EOF/RST can pin this          *)
(* connection too long": a half-closed connection goes away.               *)
HalfCloseEnds == fin ~> st = "freed"

(* docs/tinyproxy.1: "Serve static HTTP response from file": a client that *)
(* sent a request gets the response and not a reset.  When the backend     *)
(* closes after its response, no byte of the client is left unread.        *)
NoResetAfterResponse ==
  [][(\E n \in 1..HIGH : ClientWrite(n)) /\ st' = "freed" => sock = 0]_vars
=============================================================================
