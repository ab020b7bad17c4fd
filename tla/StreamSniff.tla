----------------------------- MODULE StreamSniff -----------------------------
(***************************************************************************)
(* Passive SNI sniffing, stream_sniff.c: each piece of client input that   *)
(* pipe_client_read_cb sees is looked at before it is moved on, until the  *)
(* outcome is final.                                                       *)
(*                                                                         *)
(* parse_sni_from_client_hello reads every field of the buffer once, from  *)
(* left to right, so the content of the buffer is not a variable: a field  *)
(* gets its value when it is read.  What is kept is where the parser is    *)
(* (pos), where the structure it is in ends (end), and the end of the last *)
(* read (hi).                                                              *)
(***************************************************************************)
EXTENDS Naturals

CONSTANTS
  PieceLens,   \* lengths the client's input may have when it is looked at
  SNIFF_MAX,   \* STREAM_SNIFF_MAX, size of the buffer
  SNI_MAX,     \* STREAM_SNI_MAX
  RANDOM,      \* bytes of the random of a ClientHello
  OCTET        \* number of values of a byte

ASSUME StreamSniffAssumption ==
  /\ PieceLens \subseteq Nat \ {0}
  /\ SNIFF_MAX \in Nat \ {0} /\ SNI_MAX \in Nat /\ RANDOM \in Nat /\ OCTET \in Nat \ {0}

VARIABLES
  pc,         \* "idle", or the part of the ClientHello that is parsed next
  input,      \* bytes of client input at the latest look
  observed,   \* s->observed, the bytes of it that were copied to the buffer
  pos,        \* pos, then list_pos
  end,        \* record_end, then hs_end and extensions_end, then list_end
  hi,         \* end of the latest read
  status,     \* s->status
  done,       \* s->done
  sni         \* length of s->sni

piece == <<input, observed>>
sniff == <<status, done, sni>>
vars  == <<pc, piece, pos, end, hi, sniff>>

U8  == 0 .. OCTET - 1
U16 == 0 .. OCTET * OCTET - 1
U24 == 0 .. OCTET * OCTET * OCTET - 1

Init ==
  /\ pc = "idle"
  /\ input = 0 /\ observed = 0 /\ pos = 0 /\ end = 0 /\ hi = 0
  /\ status = "not_observed" /\ done = FALSE /\ sni = 0

-----------------------------------------------------------------------------
PeekUncut(len) ==
  /\ pc = "idle" /\ ~done
  /\ pc' = "record"
  /\ input' = len
  /\ observed' = len
  /\ pos' = 0 /\ end' = 0 /\ hi' = 0
  /\ UNCHANGED sniff

(* stream_sniff_peek_client_input up to the call of the parser.  The bytes *)
(* of an earlier look have been moved to the upstream by then: this one    *)
(* starts at the first byte that came after them.                          *)
Peek(len) ==
  /\ pc = "idle" /\ ~done
  /\ pc' = "record"
  /\ input' = len
  /\ observed' = IF len > SNIFF_MAX THEN SNIFF_MAX ELSE len
  /\ pos' = 0 /\ end' = 0 /\ hi' = 0
  /\ UNCHANGED sniff

(* The parser returns st, and the rest of stream_sniff_peek_client_input:  *)
(* more input is awaited only while there is room for it.                  *)
Return(st) ==
  /\ pc' = "idle"
  /\ status' = IF st = "need_more" /\ input >= SNIFF_MAX THEN "truncated" ELSE st
  /\ done' = ~(st = "need_more" /\ input < SNIFF_MAX)
  /\ UNCHANGED <<piece, pos, end>>

Fail == Return("parse_error")

(* Parsing goes on at p, with part l, in a structure that ends at e.       *)
Go(l, p, e) ==
  /\ pc' = l /\ pos' = p /\ end' = e
  /\ UNCHANGED <<piece, status, done>>

-----------------------------------------------------------------------------
(* The TLS record header.                                                  *)
Record ==
  /\ pc = "record"
  /\ \/ hi' = 1 /\ Return("not_tls")
     \/ hi' = 1 /\ observed < 5 /\ Return("need_more")
     \/ hi' = 2 /\ observed >= 5 /\ Fail
     \/ /\ observed >= 5
        /\ hi' = 5
        /\ \E len \in U16 :
             IF len = 0 THEN Fail
             ELSE IF 5 + len > observed THEN Return("need_more")
             ELSE Go("hello", 5, 5 + len)
  /\ UNCHANGED sni

(* The header of the handshake message.                                    *)
Hello ==
  /\ pc = "hello"
  /\ IF pos + 4 > end THEN Fail /\ UNCHANGED hi
     ELSE \/ hi' = pos + 1 /\ Return("not_tls")
          \/ /\ hi' = pos + 4
             /\ \E len \in U24 :
                  IF len = 0 \/ pos + 4 + len > end THEN Fail
                  ELSE Go("session", pos + 4, pos + 4 + len)
  /\ UNCHANGED sni

(* Version, random and session id.                                         *)
Session ==
  /\ pc = "session"
  /\ LET p == pos + 2 + RANDOM + 1 IN
     IF p > end THEN Fail /\ UNCHANGED hi
     ELSE /\ hi' = p
          /\ \E len \in U8 : IF p + len > end THEN Fail ELSE Go("ciphers", p + len, end)
  /\ UNCHANGED sni

(* The cipher suites, two bytes each.                                      *)
Ciphers ==
  /\ pc = "ciphers"
  /\ IF pos + 2 > end THEN Fail /\ UNCHANGED hi
     ELSE /\ hi' = pos + 2
          /\ \E len \in U16 :
               IF len = 0 \/ len % 2 # 0 \/ pos + 2 + len > end THEN Fail
               ELSE Go("compression", pos + 2 + len, end)
  /\ UNCHANGED sni

(* The compression methods.                                                *)
Compression ==
  /\ pc = "compression"
  /\ IF pos + 1 > end THEN Fail /\ UNCHANGED hi
     ELSE /\ hi' = pos + 1
          /\ \E len \in U8 :
               IF len = 0 \/ pos + 1 + len > end THEN Fail
               ELSE Go("extensions", pos + 1 + len, end)
  /\ UNCHANGED sni

(* The length of the extensions, which end where the message ends.         *)
Extensions ==
  /\ pc = "extensions"
  /\ \/ pos = end /\ Return("missing") /\ UNCHANGED hi
     \/ pos # end /\ pos + 2 > end /\ Fail /\ UNCHANGED hi
     \/ /\ pos + 2 <= end
        /\ hi' = pos + 2
        /\ \E len \in U16 : IF pos + 2 + len # end THEN Fail ELSE Go("ext", pos + 2, end)
  /\ UNCHANGED sni

-----------------------------------------------------------------------------
(* A server_name extension of ext_len bytes at pos + 4: its list fills it. *)
ServerName(len) ==
  \/ len < 2 /\ hi' = pos + 4 /\ Fail
  \/ /\ len >= 2
     /\ hi' = pos + 6
     /\ \E list \in U16 :
          IF 2 + list # len THEN Fail ELSE Go("name", pos + 6, pos + 4 + len)

(* One turn of the loop over the extensions, or its end.                   *)
Ext ==
  /\ pc = "ext"
  /\ \/ /\ pos + 4 > end
        /\ Return(IF pos = end THEN "missing" ELSE "parse_error")
        /\ UNCHANGED hi
     \/ /\ pos + 4 <= end
        /\ \E len \in U16 :
             \/ pos + 4 + len > end /\ hi' = pos + 4 /\ Fail
             \/ pos + 4 + len <= end /\ hi' = pos + 4 /\ Go("ext", pos + 4 + len, end)
             \/ pos + 4 + len <= end /\ ServerName(len)
  /\ UNCHANGED sni

(* A host_name of len bytes at p: valid_sni_name looks at all of it unless *)
(* it is too long, and refuses an empty one.                               *)
HostName(p, len) ==
  IF len > SNI_MAX THEN hi' = p /\ Return("name_too_long") /\ UNCHANGED sni
  ELSE /\ hi' = p + len
       /\ \/ Fail /\ UNCHANGED sni
          \/ len > 0 /\ Return("parsed") /\ sni' = len

NameNoStride ==
  /\ pc = "name"
  /\ \/ pos + 3 > end /\ Return("missing") /\ UNCHANGED <<hi, sni>>
     \/ /\ pos + 3 <= end
        /\ \E len \in U16 :
             \/ pos + 3 + len > end /\ hi' = pos + 3 /\ Fail /\ UNCHANGED sni
             \/ /\ pos + 3 + len <= end /\ hi' = pos + 3
                /\ Go("name", pos + len, end) /\ UNCHANGED sni
             \/ pos + 3 + len <= end /\ HostName(pos + 3, len)

(* One turn of the loop over the names of the list, or its end.            *)
Name ==
  /\ pc = "name"
  /\ \/ pos + 3 > end /\ Return("missing") /\ UNCHANGED <<hi, sni>>
     \/ /\ pos + 3 <= end
        /\ \E len \in U16 :
             \/ pos + 3 + len > end /\ hi' = pos + 3 /\ Fail /\ UNCHANGED sni
             \/ /\ pos + 3 + len <= end /\ hi' = pos + 3
                /\ Go("name", pos + 3 + len, end) /\ UNCHANGED sni
             \/ pos + 3 + len <= end /\ HostName(pos + 3, len)

Parse ==
  \/ Record
  \/ Hello
  \/ Session
  \/ Ciphers
  \/ Compression
  \/ Extensions
  \/ Ext
  \/ Name

Next == (\E len \in PieceLens : Peek(len)) \/ Parse

Spec == Init /\ [][Next]_vars

-----------------------------------------------------------------------------
Parts == {"record", "hello", "session", "ciphers", "compression", "extensions", "ext", "name"}
Final == {"parsed", "missing", "not_tls", "truncated", "name_too_long", "parse_error"}

(* Which values each variable takes.                                       *)
TypeOK ==
  /\ pc \in Parts \union {"idle"}
  /\ input \in Nat /\ observed \in Nat /\ pos \in Nat /\ end \in Nat /\ hi \in Nat
  /\ status \in Final \union {"not_observed", "need_more"}
  /\ done \in BOOLEAN
  /\ sni \in Nat

(* Every byte the parser reads, on its way into records, messages, lists   *)
(* and names whose lengths the client chose, is one that was copied to the *)
(* buffer.                                                                 *)
ReadsInside == hi <= observed /\ observed <= SNIFF_MAX

(* check_invariants of fuzz/fuzz_stream_sniff.c: the name fits its array,  *)
(* what was observed fits the buffer, and the outcome is final exactly     *)
(* when nothing more will be looked at.                                    *)
CheckInvariants ==
  /\ sni <= SNI_MAX
  /\ observed <= SNIFF_MAX
  /\ done <=> status \in Final

(* stream_sniff_log_sni: a name is logged if and only if one was parsed;   *)
(* its "<empty>" is never seen.                                            *)
NameIffParsed == status = "parsed" <=> sni > 0

(* Each step of the parser moves on in the buffer, or returns: neither     *)
(* loop can run for ever, whatever lengths it finds.                       *)
MovesOn == pc \in Parts /\ pc' \in Parts => pos' > pos

(* A final outcome stays as it was first seen.                             *)
OutcomeKept == done => UNCHANGED sniff

(* In every step: a call of the parser goes forward in the bytes it has,   *)
(* so that it returns, and no later piece of the stream changes a final    *)
(* outcome.  That there is a final outcome is not said: each look starts   *)
(* anew, and pieces that are all too short are answered need_more for as   *)
(* long as they come.                                                      *)
ParseAdvances == [][MovesOn /\ OutcomeKept]_vars

(* The invariant the proofs use: the parser is inside the structure it     *)
(* parses, which is inside the buffer.                                     *)
IndInv ==
  /\ TypeOK
  /\ ReadsInside
  /\ CheckInvariants
  /\ NameIffParsed
  /\ pc = "record" => observed > 0 /\ pos = 0
  /\ pc \in Parts => ~done
  /\ pc \in Parts \ {"record"} => 5 <= pos /\ pos <= end /\ end <= observed
=============================================================================
