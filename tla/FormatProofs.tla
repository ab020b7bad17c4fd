---------------------------- MODULE FormatProofs ----------------------------
(***************************************************************************)
(* Proofs about the formats: the SNI parser of StreamSniff, for every size *)
(* of the buffer, of a name and of the fields of a ClientHello, and the    *)
(* properties of Formats, for all addresses, ports, payloads and texts.    *)
(***************************************************************************)
EXTENDS Formats, EncodingProofs

(* The lengths a field can hold are natural numbers.                       *)
LEMMA Fields == U8 \subseteq Nat /\ U16 \subseteq Nat /\ U24 \subseteq Nat
<1>1. OCTET \in Int /\ OCTET * OCTET \in Int /\ (OCTET * OCTET) * OCTET \in Int
  BY StreamSniffAssumption
<1>2. \A k \in Int : 0 .. k - 1 \subseteq Nat
  OBVIOUS
<1> QED
  BY <1>1, <1>2 DEF U8, U16, U24

(* What the parser returns, stream_sniff_peek_client_input stores as a     *)
(* final outcome or as one that waits for more.                            *)
LEMMA ReturnStores ==
  ASSUME IndInv, NEW st \in (Final \ {"truncated", "parsed"}) \union {"need_more"}, Return(st),
         pc \in Parts, sni' = sni, hi' \in Nat, hi' <= observed
  PROVE  IndInv'
<1>a. /\ pc' = "idle" /\ input' = input /\ observed' = observed /\ pos' = pos /\ end' = end
      /\ status' = (IF st = "need_more" /\ input >= SNIFF_MAX THEN "truncated" ELSE st)
      /\ done' = ~(st = "need_more" /\ input < SNIFF_MAX)
  BY DEF Return, piece
<1>b. done' \in BOOLEAN
  BY <1>a
<1>c. input < SNIFF_MAX <=> ~(input >= SNIFF_MAX)
  BY StreamSniffAssumption DEF IndInv, TypeOK
<1>d. st \in Final => status' = st /\ done'
  BY <1>a, Zenon DEF Final
<1>e. st = "need_more" /\ input >= SNIFF_MAX => status' = "truncated" /\ done'
  BY <1>a, <1>c, Zenon
<1>f. st = "need_more" /\ ~(input >= SNIFF_MAX) => status' = "need_more" /\ ~done'
  BY <1>a, <1>c, Zenon
<1>1. /\ pc' = "idle" /\ input' = input /\ observed' = observed /\ pos' = pos /\ end' = end
      /\ status' \in (Final \ {"parsed"}) \union {"need_more"}
      /\ done' <=> status' \in Final
  BY <1>a, <1>d, <1>e, <1>f DEF Final
<1>2. ~done /\ sni = 0
  BY DEF IndInv, NameIffParsed, CheckInvariants, TypeOK, Final
<1>3. TypeOK'
  BY <1>1, <1>b DEF IndInv, TypeOK, Parts, Final
<1> QED
  BY <1>1, <1>b, <1>2, <1>3, StreamSniffAssumption
  DEF IndInv, TypeOK, ReadsInside, CheckInvariants, NameIffParsed, Parts, Final

(* A step further into the buffer keeps the parser inside it.              *)
LEMMA GoesOn ==
  ASSUME IndInv, NEW l \in Parts \ {"record"}, NEW p \in Nat, NEW e \in Nat, Go(l, p, e),
         pc \in Parts, 5 <= p, p <= e, e <= observed,
         sni' = sni, hi' \in Nat, hi' <= observed
  PROVE  IndInv'
<1>1. /\ pc' = l /\ pos' = p /\ end' = e /\ input' = input /\ observed' = observed
      /\ status' = status /\ done' = done
  BY DEF Go, piece
<1> QED
  BY <1>1 DEF IndInv, TypeOK, ReadsInside, CheckInvariants, NameIffParsed, Parts, Final

(* No outcome is final before the first look.                              *)
LEMMA InitIndInv == Init => IndInv
<1> SUFFICES ASSUME Init PROVE IndInv
  OBVIOUS
<1>1. done \in BOOLEAN /\ ~done
  BY Zenon DEF Init
<1>2. TypeOK
  BY <1>1 DEF Init, TypeOK, Parts, Final
<1>3. done <=> status \in Final
  BY <1>1 DEF Init, Final
<1> QED
  BY <1>1, <1>2, <1>3, StreamSniffAssumption
  DEF Init, IndInv, ReadsInside, CheckInvariants, NameIffParsed, Parts

(* A look at a piece of the input.                                         *)
LEMMA PeekInv == ASSUME IndInv, NEW len \in PieceLens, Peek(len) PROVE IndInv'
  BY StreamSniffAssumption
  DEF Peek, sniff, IndInv, TypeOK, ReadsInside, CheckInvariants, NameIffParsed, Parts, Final

(* A parse error found after a read inside the buffer.                     *)
LEMMA FailInv ==
  ASSUME IndInv, Fail, pc \in Parts, sni' = sni, hi' \in Nat, hi' <= observed PROVE IndInv'
  BY ReturnStores DEF Fail, Final

(* The TLS record header.                                                  *)
LEMMA RecordInv == ASSUME IndInv, Record PROVE IndInv'
<1>1. pc \in Parts /\ sni' = sni /\ observed \in Nat /\ observed >= 1
  BY DEF Record, IndInv, TypeOK, Parts
<1>2. CASE hi' = 1 /\ Return("not_tls")
  BY <1>1, <1>2, ReturnStores DEF Final
<1>3. CASE hi' = 1 /\ observed < 5 /\ Return("need_more")
  BY <1>1, <1>3, ReturnStores DEF Final
<1>4. CASE hi' = 2 /\ observed >= 5 /\ Fail
  BY <1>1, <1>4, FailInv
<1>5. ASSUME NEW len \in U16, observed >= 5, hi' = 5,
             IF len = 0 THEN Fail
             ELSE IF 5 + len > observed THEN Return("need_more")
             ELSE Go("hello", 5, 5 + len)
      PROVE  IndInv'
  <2>1. len \in Nat /\ hi' \in Nat /\ hi' <= observed
    BY <1>1, <1>5, Fields
  <2>2. CASE len = 0
    BY <1>1, <1>5, <2>1, <2>2, FailInv
  <2>3. CASE len # 0 /\ 5 + len > observed
    BY <1>1, <1>5, <2>1, <2>3, ReturnStores DEF Final
  <2>4. CASE len # 0 /\ ~(5 + len > observed)
    <3>1. Go("hello", 5, 5 + len) /\ 5 + len \in Nat /\ 5 <= 5 + len /\ 5 + len <= observed
      BY <1>1, <1>5, <2>1, <2>4
    <3>2. "hello" \in Parts \ {"record"} /\ 5 \in Nat /\ 5 <= 5
      BY DEF Parts
    <3> QED
      BY <1>1, <2>1, <3>1, <3>2, GoesOn
  <2> QED
    BY <2>2, <2>3, <2>4
<1> QED
  BY <1>2, <1>3, <1>4, <1>5 DEF Record

(* The header of the handshake message.                                    *)
LEMMA HelloInv == ASSUME IndInv, Hello PROVE IndInv'
<1>1. /\ pc \in Parts /\ sni' = sni /\ observed \in Nat /\ pos \in Nat /\ end \in Nat
      /\ 5 <= pos /\ pos <= end /\ end <= observed /\ hi \in Nat /\ hi <= observed
  BY DEF Hello, IndInv, TypeOK, ReadsInside, Parts
<1>2. CASE Fail /\ UNCHANGED hi
  BY <1>1, <1>2, FailInv
<1>3. CASE pos + 4 <= end /\ hi' = pos + 1 /\ Return("not_tls")
  BY <1>1, <1>3, ReturnStores DEF Final
<1>4. ASSUME NEW len \in U24, pos + 4 <= end, hi' = pos + 4,
             IF len = 0 \/ pos + 4 + len > end THEN Fail
             ELSE Go("session", pos + 4, pos + 4 + len)
      PROVE  IndInv'
  <2>1. len \in Nat /\ hi' \in Nat /\ hi' <= observed
    BY <1>1, <1>4, Fields
  <2>2. CASE len = 0 \/ pos + 4 + len > end
    BY <1>1, <1>4, <2>1, <2>2, FailInv
  <2>3. CASE ~(len = 0 \/ pos + 4 + len > end)
    <3>1. /\ Go("session", pos + 4, pos + 4 + len) /\ pos + 4 \in Nat /\ pos + 4 + len \in Nat
          /\ 5 <= pos + 4 /\ pos + 4 <= pos + 4 + len /\ pos + 4 + len <= observed
      BY <1>1, <1>4, <2>1, <2>3
    <3>2. "session" \in Parts \ {"record"}
      BY DEF Parts
    <3> QED
      BY <1>1, <2>1, <3>1, <3>2, GoesOn
  <2> QED
    BY <2>2, <2>3
<1>5. pos + 4 > end <=> ~(pos + 4 <= end)
  BY <1>1
<1> QED
  BY <1>2, <1>3, <1>4, <1>5 DEF Hello

(* Version, random and session id.                                         *)
LEMMA SessionInv == ASSUME IndInv, Session PROVE IndInv'
<1>1. /\ pc \in Parts /\ sni' = sni /\ observed \in Nat /\ pos \in Nat /\ end \in Nat
      /\ 5 <= pos /\ pos <= end /\ end <= observed /\ hi \in Nat /\ hi <= observed
  BY DEF Session, IndInv, TypeOK, ReadsInside, Parts
<1>2. CASE Fail /\ UNCHANGED hi
  BY <1>1, <1>2, FailInv
<1>3. ASSUME NEW len \in U8, pos + 2 + RANDOM + 1 <= end, hi' = pos + 2 + RANDOM + 1,
             IF pos + 2 + RANDOM + 1 + len > end THEN Fail
             ELSE Go("ciphers", pos + 2 + RANDOM + 1 + len, end)
      PROVE  IndInv'
  <2>1. len \in Nat /\ hi' \in Nat /\ hi' <= observed
    BY <1>1, <1>3, Fields, StreamSniffAssumption
  <2>2. CASE pos + 2 + RANDOM + 1 + len > end
    BY <1>1, <1>3, <2>1, <2>2, FailInv
  <2>3. CASE ~(pos + 2 + RANDOM + 1 + len > end)
    <3>1. /\ Go("ciphers", pos + 2 + RANDOM + 1 + len, end) /\ pos + 2 + RANDOM + 1 + len \in Nat
          /\ 5 <= pos + 2 + RANDOM + 1 + len /\ pos + 2 + RANDOM + 1 + len <= end
      BY <1>1, <1>3, <2>1, <2>3, StreamSniffAssumption
    <3>2. "ciphers" \in Parts \ {"record"}
      BY DEF Parts
    <3> QED
      BY <1>1, <2>1, <3>1, <3>2, GoesOn
  <2> QED
    BY <2>2, <2>3
<1>4. pos + 2 + RANDOM + 1 > end <=> ~(pos + 2 + RANDOM + 1 <= end)
  BY <1>1, StreamSniffAssumption
<1> QED
  BY <1>2, <1>3, <1>4 DEF Session

(* The cipher suites.                                                      *)
LEMMA CiphersInv == ASSUME IndInv, Ciphers PROVE IndInv'
<1>1. /\ pc \in Parts /\ sni' = sni /\ observed \in Nat /\ pos \in Nat /\ end \in Nat
      /\ 5 <= pos /\ pos <= end /\ end <= observed /\ hi \in Nat /\ hi <= observed
  BY DEF Ciphers, IndInv, TypeOK, ReadsInside, Parts
<1>2. CASE Fail /\ UNCHANGED hi
  BY <1>1, <1>2, FailInv
<1>3. ASSUME NEW len \in U16, pos + 2 <= end, hi' = pos + 2,
             IF len = 0 \/ len % 2 # 0 \/ pos + 2 + len > end THEN Fail
             ELSE Go("compression", pos + 2 + len, end)
      PROVE  IndInv'
  <2>1. len \in Nat /\ hi' \in Nat /\ hi' <= observed
    BY <1>1, <1>3, Fields, StreamSniffAssumption
  <2>2. CASE len = 0 \/ len % 2 # 0 \/ pos + 2 + len > end
    BY <1>1, <1>3, <2>1, <2>2, FailInv
  <2>3. CASE ~(len = 0 \/ len % 2 # 0 \/ pos + 2 + len > end)
    <3>1. /\ Go("compression", pos + 2 + len, end) /\ pos + 2 + len \in Nat
          /\ 5 <= pos + 2 + len /\ pos + 2 + len <= end
      BY <1>1, <1>3, <2>1, <2>3, StreamSniffAssumption
    <3>2. "compression" \in Parts \ {"record"}
      BY DEF Parts
    <3> QED
      BY <1>1, <2>1, <3>1, <3>2, GoesOn
  <2> QED
    BY <2>2, <2>3
<1>4. pos + 2 > end <=> ~(pos + 2 <= end)
  BY <1>1, StreamSniffAssumption
<1> QED
  BY <1>2, <1>3, <1>4 DEF Ciphers

(* The compression methods.                                                *)
LEMMA CompressionInv == ASSUME IndInv, Compression PROVE IndInv'
<1>1. /\ pc \in Parts /\ sni' = sni /\ observed \in Nat /\ pos \in Nat /\ end \in Nat
      /\ 5 <= pos /\ pos <= end /\ end <= observed /\ hi \in Nat /\ hi <= observed
  BY DEF Compression, IndInv, TypeOK, ReadsInside, Parts
<1>2. CASE Fail /\ UNCHANGED hi
  BY <1>1, <1>2, FailInv
<1>3. ASSUME NEW len \in U8, pos + 1 <= end, hi' = pos + 1,
             IF len = 0 \/ pos + 1 + len > end THEN Fail
             ELSE Go("extensions", pos + 1 + len, end)
      PROVE  IndInv'
  <2>1. len \in Nat /\ hi' \in Nat /\ hi' <= observed
    BY <1>1, <1>3, Fields, StreamSniffAssumption
  <2>2. CASE len = 0 \/ pos + 1 + len > end
    BY <1>1, <1>3, <2>1, <2>2, FailInv
  <2>3. CASE ~(len = 0 \/ pos + 1 + len > end)
    <3>1. /\ Go("extensions", pos + 1 + len, end) /\ pos + 1 + len \in Nat
          /\ 5 <= pos + 1 + len /\ pos + 1 + len <= end
      BY <1>1, <1>3, <2>1, <2>3, StreamSniffAssumption
    <3>2. "extensions" \in Parts \ {"record"}
      BY DEF Parts
    <3> QED
      BY <1>1, <2>1, <3>1, <3>2, GoesOn
  <2> QED
    BY <2>2, <2>3
<1>4. pos + 1 > end <=> ~(pos + 1 <= end)
  BY <1>1, StreamSniffAssumption
<1> QED
  BY <1>2, <1>3, <1>4 DEF Compression

(* The length of the extensions.                                           *)
LEMMA ExtensionsInv == ASSUME IndInv, Extensions PROVE IndInv'
<1>1. /\ pc \in Parts /\ sni' = sni /\ observed \in Nat /\ pos \in Nat /\ end \in Nat
      /\ 5 <= pos /\ pos <= end /\ end <= observed /\ hi \in Nat /\ hi <= observed
  BY DEF Extensions, IndInv, TypeOK, ReadsInside, Parts
<1>2. CASE Return("missing") /\ UNCHANGED hi
  BY <1>1, <1>2, ReturnStores DEF Final
<1>3. CASE Fail /\ UNCHANGED hi
  BY <1>1, <1>3, FailInv
<1>4. ASSUME NEW len \in U16, pos + 2 <= end, hi' = pos + 2,
             IF pos + 2 + len # end THEN Fail ELSE Go("ext", pos + 2, end)
      PROVE  IndInv'
  <2>1. hi' \in Nat /\ hi' <= observed /\ pos + 2 \in Nat /\ 5 <= pos + 2
    BY <1>1, <1>4
  <2>2. "ext" \in Parts \ {"record"}
    BY DEF Parts
  <2> QED
    BY <1>1, <1>4, <2>1, <2>2, FailInv, GoesOn
<1> QED
  BY <1>2, <1>3, <1>4 DEF Extensions

(* The extensions, one after the other.                                    *)
LEMMA ExtInv == ASSUME IndInv, Ext PROVE IndInv'
<1>1. /\ pc \in Parts /\ sni' = sni /\ observed \in Nat /\ pos \in Nat /\ end \in Nat
      /\ 5 <= pos /\ pos <= end /\ end <= observed /\ hi \in Nat /\ hi <= observed
  BY DEF Ext, IndInv, TypeOK, ReadsInside, Parts
<1>2. CASE Return(IF pos = end THEN "missing" ELSE "parse_error") /\ UNCHANGED hi
  <2>1. (IF pos = end THEN "missing" ELSE "parse_error")
          \in (Final \ {"truncated", "parsed"}) \union {"need_more"}
    BY DEF Final
  <2> QED
    BY <1>1, <1>2, <2>1, ReturnStores
<1>3. ASSUME NEW len \in U16, pos + 4 <= end,
             \/ hi' = pos + 4 /\ Fail
             \/ pos + 4 + len <= end /\ hi' = pos + 4 /\ Go("ext", pos + 4 + len, end)
             \/ pos + 4 + len <= end /\ ServerName(len)
      PROVE  IndInv'
  <2>1. len \in Nat
    BY <1>3, Fields
  <2>2. "ext" \in Parts \ {"record"} /\ "name" \in Parts \ {"record"}
    BY DEF Parts
  <2>3. CASE hi' = pos + 4 /\ Fail
    BY <1>1, <1>3, <2>3, FailInv
  <2>4. CASE pos + 4 + len <= end /\ hi' = pos + 4 /\ Go("ext", pos + 4 + len, end)
    <3>1. hi' \in Nat /\ hi' <= observed /\ pos + 4 + len \in Nat /\ 5 <= pos + 4 + len
      BY <1>1, <2>1, <2>4
    <3> QED
      BY <1>1, <2>2, <2>4, <3>1, GoesOn
  <2>5. CASE pos + 4 + len <= end /\ ServerName(len)
    <3>1. CASE len < 2 /\ hi' = pos + 4 /\ Fail
      BY <1>1, <1>3, <3>1, FailInv
    <3>2. ASSUME NEW list \in U16, len >= 2, hi' = pos + 6,
                 IF 2 + list # len THEN Fail ELSE Go("name", pos + 6, pos + 4 + len)
          PROVE  IndInv'
      <4>1. /\ hi' \in Nat /\ hi' <= observed /\ pos + 6 \in Nat /\ pos + 4 + len \in Nat
            /\ 5 <= pos + 6 /\ pos + 6 <= pos + 4 + len /\ pos + 4 + len <= observed
        BY <1>1, <2>1, <2>5, <3>2
      <4> QED
        BY <1>1, <2>2, <3>2, <4>1, FailInv, GoesOn
    <3> QED
      BY <2>5, <3>1, <3>2 DEF ServerName
  <2> QED
    BY <1>3, <2>3, <2>4, <2>5
<1> QED
  BY <1>2, <1>3 DEF Ext

(* The names of the list; the host name that is copied.                    *)
LEMMA NameInv == ASSUME IndInv, Name PROVE IndInv'
<1>1. /\ pc \in Parts /\ observed \in Nat /\ pos \in Nat /\ end \in Nat
      /\ 5 <= pos /\ pos <= end /\ end <= observed /\ hi \in Nat /\ hi <= observed
  BY DEF Name, IndInv, TypeOK, ReadsInside, Parts
<1>2. CASE Return("missing") /\ UNCHANGED <<hi, sni>>
  BY <1>1, <1>2, ReturnStores DEF Final
<1>3. ASSUME NEW len \in U16, pos + 3 <= end,
             \/ hi' = pos + 3 /\ Fail /\ UNCHANGED sni
             \/ /\ pos + 3 + len <= end /\ hi' = pos + 3
                /\ Go("name", pos + 3 + len, end) /\ UNCHANGED sni
             \/ pos + 3 + len <= end /\ HostName(pos + 3, len)
      PROVE  IndInv'
  <2>1. len \in Nat
    BY <1>3, Fields
  <2>2. "name" \in Parts \ {"record"}
    BY DEF Parts
  <2>3. CASE hi' = pos + 3 /\ Fail /\ UNCHANGED sni
    BY <1>1, <1>3, <2>3, FailInv
  <2>4. CASE /\ pos + 3 + len <= end /\ hi' = pos + 3
             /\ Go("name", pos + 3 + len, end) /\ UNCHANGED sni
    <3>1. hi' \in Nat /\ hi' <= observed /\ pos + 3 + len \in Nat /\ 5 <= pos + 3 + len
      BY <1>1, <2>1, <2>4
    <3> QED
      BY <1>1, <2>2, <2>4, <3>1, GoesOn
  <2>5. CASE pos + 3 + len <= end /\ HostName(pos + 3, len)
    <3>1. CASE hi' = pos + 3 /\ Return("name_too_long") /\ UNCHANGED sni
      BY <1>1, <1>3, <3>1, ReturnStores DEF Final
    <3>2. CASE hi' = pos + 3 + len /\ Fail /\ UNCHANGED sni
      BY <1>1, <2>1, <2>5, <3>2, FailInv
    <3>3. CASE /\ ~(len > SNI_MAX) /\ hi' = pos + 3 + len
               /\ len > 0 /\ Return("parsed") /\ sni' = len
      <4>1. /\ pc' = "idle" /\ status' = "parsed" /\ input' = input /\ observed' = observed
            /\ pos' = pos /\ end' = end
        BY <3>3 DEF Return, piece
      <4>2. done' = TRUE
        BY <3>3, Zenon DEF Return
      <4>3. hi' \in Nat /\ hi' <= observed /\ sni' \in Nat /\ sni' <= SNI_MAX /\ sni' > 0
        BY <1>1, <2>1, <2>5, <3>3, StreamSniffAssumption
      <4>4. TypeOK'
        BY <4>1, <4>2, <4>3 DEF IndInv, TypeOK, Parts, Final
      <4> QED
        BY <4>1, <4>2, <4>3, <4>4
        DEF IndInv, ReadsInside, CheckInvariants, NameIffParsed, Parts, Final
    <3> QED
      BY <2>5, <3>1, <3>2, <3>3 DEF HostName
  <2> QED
    BY <1>3, <2>3, <2>4, <2>5
<1> QED
  BY <1>2, <1>3 DEF Name

-----------------------------------------------------------------------------
(* Whatever the client sends, and in whatever pieces, the parser stays in  *)
(* the structure it parses and that in the buffer.                         *)
THEOREM Invariance == Spec => []IndInv
<1>1. Init => IndInv
  BY InitIndInv
<1>2. IndInv /\ [Next]_vars => IndInv'
  <2>1. ASSUME IndInv, Next PROVE IndInv'
    BY <2>1, PeekInv, RecordInv, HelloInv, SessionInv, CiphersInv, CompressionInv,
       ExtensionsInv, ExtInv, NameInv DEF Next, Parse
  <2>2. ASSUME IndInv, UNCHANGED vars PROVE IndInv'
    BY <2>2 DEF vars, piece, sniff, IndInv, TypeOK, ReadsInside, CheckInvariants, NameIffParsed
  <2> QED
    BY <2>1, <2>2
<1> QED
  BY <1>1, <1>2, PTL DEF Spec

(* No variable leaves its type.                                            *)
THEOREM TypeCorrect == Spec => []TypeOK
  BY Invariance, PTL DEF IndInv

(* parse_sni_from_client_hello never reads past the bytes that were copied *)
(* to its buffer.                                                          *)
THEOREM ReadsAreSafe == Spec => []ReadsInside
  BY Invariance, PTL DEF IndInv

(* What the fuzzer asserts after each input holds after every sequence of  *)
(* inputs.                                                                 *)
THEOREM FuzzInvariants == Spec => []CheckInvariants
  BY Invariance, PTL DEF IndInv

(* A name is stored exactly when one was parsed.                           *)
THEOREM NameStored == Spec => []NameIffParsed
  BY Invariance, PTL DEF IndInv

(* Both loops of the parser make progress with every turn.                 *)
LEMMA ParserProgress == IndInv /\ Next => MovesOn
<1> SUFFICES ASSUME IndInv, Next, pc \in Parts, pc' \in Parts PROVE pos' > pos
  BY Zenon DEF MovesOn
<1>1. pos \in Nat /\ end \in Nat
  BY DEF IndInv, TypeOK
<1>2. \A st : ~Return(st)
  BY DEF Return, Parts
<1>3. ~Fail
  BY <1>2 DEF Fail
<1>4. CASE Record
  BY <1>2, <1>3, <1>4 DEF Record, Go, IndInv
<1>5. CASE Hello
  BY <1>1, <1>2, <1>3, <1>5 DEF Hello, Go
<1>6. CASE Session
  BY <1>1, <1>2, <1>3, <1>6, Fields, StreamSniffAssumption DEF Session, Go
<1>7. CASE Ciphers
  BY <1>1, <1>2, <1>3, <1>7, Fields DEF Ciphers, Go
<1>8. CASE Compression
  BY <1>1, <1>2, <1>3, <1>8, Fields DEF Compression, Go
<1>9. CASE Extensions
  BY <1>1, <1>2, <1>3, <1>9 DEF Extensions, Go
<1>10. CASE Ext
  BY <1>1, <1>2, <1>3, <1>10, Fields DEF Ext, ServerName, Go
<1>11. CASE Name
  BY <1>1, <1>2, <1>3, <1>11, Fields DEF Name, HostName, Go
<1>12. CASE \E len \in PieceLens : Peek(len)
  BY <1>12 DEF Peek, Parts
<1> QED
  BY <1>4, <1>5, <1>6, <1>7, <1>8, <1>9, <1>10, <1>11, <1>12 DEF Next, Parse

(* A final outcome is never replaced.                                      *)
LEMMA OutcomeIsKept == IndInv /\ Next => OutcomeKept
<1> SUFFICES ASSUME IndInv, Next, done PROVE FALSE
  BY Zenon DEF OutcomeKept
<1>1. pc \notin Parts
  BY DEF IndInv
<1> QED
  BY <1>1 DEF Next, Parse, Peek, Record, Hello, Session, Ciphers, Compression, Extensions,
             Ext, Name, Parts

(* A call of the parser moves on with every step, whatever lengths it      *)
(* finds, and a final outcome stays.                                       *)
THEOREM ParserAdvances == Spec => ParseAdvances
<1>1. IndInv /\ [Next]_vars => [MovesOn /\ OutcomeKept]_vars
  BY ParserProgress, OutcomeIsKept, Zenon
<1> QED
  BY <1>1, Invariance, PTL DEF Spec, ParseAdvances

-----------------------------------------------------------------------------
(* The lines of a configuration text.  LfText keeps every letter but the   *)
(* CRs that end a line, so each line of the one text is found in the other *)
(* where the letters before it end; load_routes_from_text goes through     *)
(* both in step, from the last line back to the first.                     *)

(* From s to before e there is one line of t.                              *)
IsLine(t, s, e) ==
  /\ s \in Nat /\ e \in Nat /\ 1 <= s /\ s <= e /\ e <= Len(t) + 1
  /\ \A k \in s .. e - 1 : t[k] # "\n"
  /\ e = Len(t) + 1 \/ t[e] = "\n"

(* What Find finds from the s-th letter on.                                *)
LEMMA FoundFrom ==
  ASSUME NEW t \in Seq(Letters), NEW c, NEW s \in Nat, 1 <= s, s <= Len(t) + 1
  PROVE  \/ Find(t, c, s) = 0 /\ \A k \in s .. Len(t) : t[k] # c
         \/ /\ Find(t, c, s) \in s .. Len(t) /\ t[Find(t, c, s)] = c
            /\ \A k \in s .. Find(t, c, s) - 1 : t[k] # c
<1>. DEFINE at == {i \in s .. Len(t) : t[i] = c}
<1>1. Find(t, c, s) = IF at = {} THEN 0 ELSE Min(at)
  BY Zenon DEF Find
<1>2. CASE at = {}
  BY <1>1, <1>2, Zenon
<1>3. CASE at # {}
  <2>1. at \in SUBSET Nat
    BY EmptyLen
  <2>2. Min(at) \in at /\ \A y \in at : Min(at) <= y
    <3>. HIDE DEF at
    <3>. QED  BY <1>3, <2>1, MinOf, Zenon
  <2>. DEFINE m == Min(at)
              n == Len(t)
  <2>3. m \in s .. n /\ t[m] = c
    BY <2>2, Zenon
  <2>4. \A k \in s .. m - 1 : k \in s .. n /\ ~(m <= k)
    <3>1. n \in Nat
      BY EmptyLen
    <3>. HIDE DEF m, n
    <3>. QED  BY <2>3, <3>1
  <2>5. \A k \in s .. m - 1 : t[k] # c
    BY <2>2, <2>4, Zenon
  <2>6. Find(t, c, s) = m
    BY <1>1, <1>3, Zenon
  <2>. HIDE DEF m, n
  <2>. QED  BY <2>3, <2>5, <2>6, Zenon DEF n
<1>. QED  BY <1>2, <1>3, Zenon

(* LineEnd ends a line.                                                    *)
LEMMA LineEndOf ==
  ASSUME NEW t \in Seq(Letters), NEW s \in Nat, 1 <= s, s <= Len(t) + 1
  PROVE  IsLine(t, s, LineEnd(t, s))
<1>. DEFINE n == Len(t)
            f == Find(t, "\n", s)
<1>1. n \in Nat
  BY EmptyLen
<1>2. \/ f = 0 /\ \A k \in s .. n : t[k] # "\n"
      \/ f \in s .. n /\ t[f] = "\n" /\ \A k \in s .. f - 1 : t[k] # "\n"
  BY FoundFrom, Zenon
<1>3. LineEnd(t, s) = IF f = 0 THEN n + 1 ELSE f
  BY Zenon DEF LineEnd
<1>4. s <= n + 1
  BY Zenon
<1>. HIDE DEF f, n
<1>5. CASE f = 0
  <2>1. LineEnd(t, s) = n + 1
    BY <1>3, <1>5, Zenon
  <2>2. f \notin s .. n
    BY <1>1, <1>5
  <2>3. \A k \in s .. n : t[k] # "\n"
    BY <1>2, <2>2, Zenon
  <2>4. n + 1 \in Nat /\ n + 1 <= n + 1 /\ (n + 1) - 1 = n
    BY <1>1
  <2>. QED  BY <1>4, <2>1, <2>3, <2>4, Zenon DEF IsLine, n
<1>6. CASE f # 0
  <2>1. LineEnd(t, s) = f
    BY <1>3, <1>6, Zenon
  <2>2. f \in s .. n /\ t[f] = "\n" /\ \A k \in s .. f - 1 : t[k] # "\n"
    BY <1>2, <1>6, Zenon
  <2>3. f \in Nat /\ s <= f /\ f <= n + 1
    BY <1>1, <2>2
  <2>. QED  BY <2>1, <2>2, <2>3, Zenon DEF IsLine, n
<1>. QED  BY <1>5, <1>6, Zenon

(* A line ends in one place only.                                          *)
LEMMA OneLineEnd ==
  ASSUME NEW t \in Seq(Letters), NEW s, NEW e, IsLine(t, s, e)
  PROVE  LineEnd(t, s) = e
<1>. DEFINE f == LineEnd(t, s)
            n == Len(t)
<1>1. n \in Nat
  BY EmptyLen
<1>2. /\ s \in Nat /\ e \in Nat /\ 1 <= s /\ s <= e /\ e <= n + 1
      /\ (\A k \in s .. e - 1 : t[k] # "\n") /\ (e = n + 1 \/ t[e] = "\n")
  BY Zenon DEF IsLine
<1>3. s <= n + 1
  <2>. HIDE DEF n
  <2>. QED  BY <1>1, <1>2
<1>4. IsLine(t, s, f)
  BY <1>2, <1>3, LineEndOf, Zenon
<1>. HIDE DEF f
<1>5. /\ f \in Nat /\ s <= f /\ f <= n + 1
      /\ (\A k \in s .. f - 1 : t[k] # "\n") /\ (f = n + 1 \/ t[f] = "\n")
  BY <1>4, Zenon DEF IsLine
<1>. HIDE DEF n
<1>6. f = e \/ (f \in s .. e - 1 /\ f # n + 1) \/ (e \in s .. f - 1 /\ e # n + 1)
  BY <1>1, <1>2, <1>5
<1>7. f = e
  BY <1>2, <1>5, <1>6, Zenon
<1>. QED  BY <1>7, Zenon DEF f

(* w is the text of t from s to before e.                                  *)
IsPiece(w, t, s, e) == w \in Seq(Letters) /\ Len(w) = e - s /\ \A k \in 1 .. e - s : w[k] = t[s + k - 1]

(* SubSeq takes a piece.                                                   *)
LEMMA PieceOf ==
  ASSUME NEW t \in Seq(Letters), NEW s \in Nat, NEW e \in Nat, 1 <= s, s <= e, e <= Len(t) + 1
  PROVE  IsPiece(SubSeq(t, s, e - 1), t, s, e)
<1>1. Len(t) \in Nat /\ s \in Int /\ e - 1 \in Int
  BY EmptyLen
<1>2. \A k \in s .. e - 1 : t[k] \in Letters
  BY <1>1
<1>3. /\ SubSeq(t, s, e - 1) \in Seq(Letters)
      /\ Len(SubSeq(t, s, e - 1)) = IF s <= e - 1 THEN (e - 1) - s + 1 ELSE 0
      /\ \A k \in 1 .. (e - 1) - s + 1 : SubSeq(t, s, e - 1)[k] = t[s + k - 1]
  BY <1>1, <1>2, SubSeqProperties, SMT
<1>4. (IF s <= e - 1 THEN (e - 1) - s + 1 ELSE 0) = e - s /\ (e - 1) - s + 1 = e - s
  OBVIOUS
<1>. QED  BY <1>3, <1>4, Zenon DEF IsPiece

(* Where the line ends without its CR.                                     *)
Shorter(t, s, e) == IF s < e /\ t[e - 1] = "\r" THEN e - 1 ELSE e

(* RawLine is the piece from the start of the line to the CR or its end.   *)
LEMMA RawLineOf ==
  ASSUME NEW t \in Seq(Letters), NEW s, NEW e, IsLine(t, s, e)
  PROVE  IsPiece(RawLine(t, s), t, s, Shorter(t, s, e))
<1>. DEFINE n == Len(t)
            w == SubSeq(t, s, e - 1)
<1>1. s \in Nat /\ e \in Nat /\ 1 <= s /\ s <= e /\ e <= Len(t) + 1
  BY Zenon DEF IsLine
<1>2. IsPiece(w, t, s, e)
  BY <1>1, PieceOf, Zenon
<1>3. RawLine(t, s) = IF w # <<>> /\ w[Len(w)] = "\r" THEN SubSeq(w, 1, Len(w) - 1) ELSE w
  BY OneLineEnd, Zenon DEF RawLine
<1>. HIDE DEF w
<1>4. w \in Seq(Letters) /\ Len(w) = e - s /\ \A k \in 1 .. e - s : w[k] = t[s + k - 1]
  BY <1>2, Zenon DEF IsPiece
<1>5. w # <<>> <=> s < e
  <2>1. w = <<>> <=> e - s = 0
    BY <1>4, EmptyLen, Zenon
  <2>2. e - s = 0 <=> ~(s < e)
    BY <1>1
  <2>. QED  BY <2>1, <2>2, Zenon
<1>6. s < e => w[Len(w)] = t[e - 1]
  <2>1. s < e => e - s \in 1 .. e - s /\ s + (e - s) - 1 = e - 1
    BY <1>1
  <2>2. \A k \in 1 .. e - s : w[k] = t[s + k - 1]
    BY <1>4, Zenon
  <2>3. s < e => s + ((e - s) - 1) = e - 1
    BY <1>1
  <2>4. s < e => w[e - s] = t[e - 1]
    BY <1>1, <2>1, <2>2, <2>3, SMT
  <2>. QED  BY <1>4, <2>4, Zenon
<1>7. CASE s < e /\ t[e - 1] = "\r"
  <2>1. RawLine(t, s) = SubSeq(w, 1, Len(w) - 1)
    BY <1>3, <1>5, <1>6, <1>7, Zenon
  <2>. DEFINE v == SubSeq(w, 1, Len(w) - 1)
  <2>2. /\ Len(w) \in Nat /\ Len(w) <= Len(w) + 1 /\ 1 \in Nat /\ 1 <= 1 /\ 1 <= Len(w)
    <3>1. e - s \in Nat /\ e - s <= (e - s) + 1 /\ 1 <= e - s
      BY <1>1, <1>7
    <3>2. 1 \in Nat /\ 1 <= 1
      OBVIOUS
    <3>. QED  BY <1>4, <3>1, <3>2, Zenon
  <2>3. IsPiece(v, w, 1, Len(w))
    BY <1>4, <2>2, PieceOf, Zenon
  <2>. HIDE DEF v
  <2>4. v \in Seq(Letters) /\ Len(v) = (e - s) - 1 /\ \A k \in 1 .. (e - s) - 1 : v[k] = w[1 + k - 1]
    BY <1>4, <2>3, Zenon DEF IsPiece
  <2>5. /\ (e - s) - 1 = (e - 1) - s
        /\ \A k \in 1 .. (e - s) - 1 : 1 + k - 1 = k /\ k \in 1 .. e - s
    BY <1>1
  <2>6. \A k \in 1 .. (e - s) - 1 : v[k] = t[s + k - 1]
    <3>. SUFFICES ASSUME NEW k \in 1 .. (e - s) - 1 PROVE v[k] = t[s + k - 1]
      BY Zenon
    <3>1. v[k] = w[k] /\ k \in 1 .. e - s
      BY <2>4, <2>5, Zenon
    <3>. QED  BY <1>4, <3>1, Zenon
  <2>7. IsPiece(v, t, s, e - 1)
    BY <2>4, <2>5, <2>6, Zenon DEF IsPiece
  <2>. QED  BY <1>7, <2>1, <2>7, Zenon DEF Shorter, v
<1>8. CASE ~(s < e /\ t[e - 1] = "\r")
  <2>1. RawLine(t, s) = w
    BY <1>3, <1>5, <1>6, <1>8, Zenon
  <2>. QED  BY <1>2, <1>8, <2>1, Zenon DEF Shorter
<1>. QED  BY <1>7, <1>8, Zenon

(* Pieces of the same length with the same letters are the same text.      *)
LEMMA SamePiece ==
  ASSUME NEW v, NEW w, NEW t, NEW s, NEW e, NEW u, NEW p, NEW f,
         IsPiece(v, t, s, e), IsPiece(w, u, p, f), e - s = f - p,
         \A k \in 1 .. e - s : t[s + k - 1] = u[p + k - 1]
  PROVE  v = w
<1>1. v \in Seq(Letters) /\ Len(v) = e - s /\ \A k \in 1 .. e - s : v[k] = t[s + k - 1]
  BY Zenon DEF IsPiece
<1>2. w \in Seq(Letters) /\ Len(w) = f - p /\ \A k \in 1 .. f - p : w[k] = u[p + k - 1]
  BY Zenon DEF IsPiece
<1>3. \A k \in 1 .. e - s : v[k] = w[k]
  BY <1>1, <1>2, Zenon
<1>4. Len(v) = Len(w) /\ \A k \in 1 .. Len(v) : v[k] = w[k]
  BY <1>1, <1>2, <1>3, Zenon
<1>. QED  BY <1>1, <1>2, <1>4, SeqEqual, Zenon

(* What LfPrefixes adds at the n-th letter.                                *)
LfStep(t, n, lf) == IF EndsLine(t, n) THEN lf ELSE Append(lf, t[n])

(* There is a function that satisfies the recursion of LfPrefixes.         *)
LEMMA LfDefined ==
  ASSUME NEW t, Len(t) \in Nat, NEW n \in 0 .. Len(t)
  PROVE  \E f : f = [m \in 0 .. n |-> IF m = 0 THEN <<>> ELSE LfStep(t, m, f[m - 1])]
<1>. DEFINE Vals(k, f) == f = [m \in 0 .. k |-> IF m = 0 THEN <<>> ELSE LfStep(t, m, f[m - 1])]
            T == {k \in Nat : k <= Len(t) /\ ~\E f : Vals(k, f)}
<1>1. T = {}
  <2>. SUFFICES ASSUME T # {} PROVE FALSE
    BY Zenon
  <2>1. PICK k \in T : \A j \in T : k <= j
    <3>1. T \in SUBSET Nat
      BY Zenon
    <3>. HIDE DEF T
    <3>. QED  BY <3>1, NatMin, Zenon
  <2>2. k \in Nat /\ k <= Len(t) /\ ~\E f : Vals(k, f)
    BY Zenon
  <2>. HIDE DEF Vals
  <2>3. CASE k = 0
    <3>. DEFINE g == [m \in 0 .. 0 |-> <<>>]
    <3>1. g = [m \in 0 .. 0 |-> IF m = 0 THEN <<>> ELSE LfStep(t, m, g[m - 1])]
      <4>1. \A m \in 0 .. 0 : m = 0
        OBVIOUS
      <4>. QED  BY <4>1, Zenon
    <3>2. Vals(0, g)
      BY <3>1, Zenon DEF Vals
    <3>. QED  BY <2>2, <2>3, <3>2, Zenon
  <2>4. CASE k # 0
    <3>1. k - 1 \in Nat /\ k - 1 <= Len(t) /\ ~(k <= k - 1)
      BY <2>2, <2>4
    <3>2. PICK f : Vals(k - 1, f)
      BY <2>1, <3>1, Zenon
    <3>. DEFINE g == [m \in 0 .. k |-> IF m = k THEN LfStep(t, k, f[k - 1]) ELSE f[m]]
    <3>3. \A m \in 0 .. k - 1 : f[m] = IF m = 0 THEN <<>> ELSE LfStep(t, m, f[m - 1])
      BY <3>2, Zenon DEF Vals
    <3>4. /\ \A m \in 0 .. k - 1 : m \in 0 .. k /\ m # k
          /\ \A m \in 0 .. k : m # k => m \in 0 .. k - 1
          /\ \A m \in 0 .. k : m # 0 => m - 1 \in 0 .. k - 1
          /\ k \in 0 .. k
      BY <2>2, <2>4
    <3>5. \A m \in 0 .. k - 1 : g[m] = f[m]
      BY <3>4, Zenon
    <3>6. g[k] = LfStep(t, k, f[k - 1])
      BY <3>4, Zenon
    <3>7. g = [m \in 0 .. k |-> g[m]]
      BY Zenon
    <3>. HIDE DEF g
    <3>8. ASSUME NEW m \in 0 .. k PROVE g[m] = IF m = 0 THEN <<>> ELSE LfStep(t, m, g[m - 1])
      <4>1. CASE m = k
        <5>1. k - 1 \in 0 .. k - 1
          BY <2>4, <3>4, <4>1, Zenon
        <5>. QED  BY <2>4, <3>5, <3>6, <4>1, <5>1, Zenon
      <4>2. CASE m # k
        <5>1. m \in 0 .. k - 1 /\ (m # 0 => m - 1 \in 0 .. k - 1)
          BY <3>4, <4>2, Zenon
        <5>. QED  BY <3>3, <3>5, <5>1, Zenon
      <4>. QED  BY <4>1, <4>2, Zenon
    <3>9. Vals(k, g)
      BY <3>7, <3>8, Zenon DEF Vals
    <3>. QED  BY <2>2, <3>9, Zenon
  <2>. QED  BY <2>3, <2>4, Zenon
<1>2. n \in Nat /\ n <= Len(t)
  OBVIOUS
<1>. QED  BY <1>1, <1>2, Zenon

(* LfPrefixes, unfolded.                                                   *)
LEMMA LfUnfold ==
  ASSUME NEW t, Len(t) \in Nat
  PROVE  /\ LfPrefixes(t)[0] = <<>>
         /\ \A n \in 1 .. Len(t) : LfPrefixes(t)[n] = LfStep(t, n, LfPrefixes(t)[n - 1])
<1>1. Len(t) \in 0 .. Len(t) /\ 0 \in 0 .. Len(t) /\ \A n \in 1 .. Len(t) : n # 0 /\ n \in 0 .. Len(t)
  OBVIOUS
<1>2. \E f : f = [m \in 0 .. Len(t) |-> IF m = 0 THEN <<>> ELSE LfStep(t, m, f[m - 1])]
  BY <1>1, LfDefined, Zenon
<1>3. LfPrefixes(t) = [m \in 0 .. Len(t) |-> IF m = 0 THEN <<>> ELSE LfStep(t, m, LfPrefixes(t)[m - 1])]
  BY <1>2, Zenon DEF LfPrefixes, LfStep
<1>. HIDE DEF LfPrefixes
<1>4. \A m \in 0 .. Len(t) : LfPrefixes(t)[m] = IF m = 0 THEN <<>> ELSE LfStep(t, m, LfPrefixes(t)[m - 1])
  BY <1>3, Zenon
<1>. QED  BY <1>1, <1>4, Zenon

(* The next line starts after the first letter of this one.                *)
LEMMA NextLineOf ==
  ASSUME NEW t \in Seq(Letters), NEW s \in Nat, 1 <= s, s <= Len(t)
  PROVE  NextLine(t, s) \in Nat /\ s < NextLine(t, s) /\ NextLine(t, s) <= Len(t) + 1
<1>. DEFINE n == Len(t)
            e == LineEnd(t, s)
<1>1. n \in Nat
  BY EmptyLen
<1>2. s <= n + 1
  <2>. HIDE DEF n
  <2>1. s <= n
    BY Zenon DEF n
  <2>. QED  BY <1>1, <2>1
<1>3. IsLine(t, s, e)
  BY <1>2, LineEndOf, Zenon
<1>4. e \in Nat /\ s <= e /\ e <= n + 1 /\ s <= n
  <2>. HIDE DEF e
  <2>. QED  BY <1>3, Zenon DEF IsLine
<1>5. NextLine(t, s) = IF e = n + 1 THEN n + 1 ELSE e + 1
  BY Zenon DEF NextLine
<1>6. NextLine(t, s) \in Nat /\ s < NextLine(t, s) /\ NextLine(t, s) <= n + 1
  <2>. HIDE DEF e, n
  <2>. QED  BY <1>1, <1>4, <1>5
<1>. QED  BY <1>6, Zenon

(* load_routes_from_text at the end of the text, and on the line at s.     *)
Done == [rc |-> "ok", texts |-> <<>>]
LoadStep(t, s, f) == IF s = Len(t) + 1 THEN Done ELSE Loaded(RawLine(t, s), f[NextLine(t, s)])

(* There is a function that satisfies the recursion of TextsFrom.          *)
LEMMA TextsDefined ==
  ASSUME NEW t \in Seq(Letters)
  PROVE  \E f : f = [s \in 1 .. Len(t) + 1 |-> LoadStep(t, s, f)]
<1>. DEFINE n == Len(t)
            Vals(k, f) == f = [s \in (n + 1) - k .. n + 1 |-> LoadStep(t, s, f)]
            T == {k \in Nat : k <= n /\ ~\E f : Vals(k, f)}
<1>0. n \in Nat
  BY EmptyLen
<1>1. T = {}
  <2>. SUFFICES ASSUME T # {} PROVE FALSE
    BY Zenon
  <2>1. PICK k \in T : \A j \in T : k <= j
    <3>1. T \in SUBSET Nat
      BY Zenon
    <3>. HIDE DEF T
    <3>. QED  BY <3>1, NatMin, Zenon
  <2>2. k \in Nat /\ k <= n /\ ~\E f : Vals(k, f)
    BY Zenon
  <2>. HIDE DEF Vals
  <2>3. CASE k = 0
    <3>. DEFINE g == [s \in (n + 1) - 0 .. n + 1 |-> Done]
    <3>1. \A s \in (n + 1) - 0 .. n + 1 : s = n + 1
      <4>. HIDE DEF n
      <4>. QED  BY <1>0
    <3>2. g = [s \in (n + 1) - 0 .. n + 1 |-> LoadStep(t, s, g)]
      BY <3>1, Zenon DEF LoadStep
    <3>3. Vals(0, g)
      BY <3>2, Zenon DEF Vals
    <3>. QED  BY <2>2, <2>3, <3>3, Zenon
  <2>4. CASE k # 0
    <3>. DEFINE a == (n + 1) - k
    <3>1. k - 1 \in Nat /\ k - 1 <= n /\ ~(k <= k - 1)
      <4>. HIDE DEF n
      <4>. QED  BY <1>0, <2>2, <2>4
    <3>2. PICK f : Vals(k - 1, f)
      BY <2>1, <3>1, Zenon
    <3>. DEFINE g == [s \in a .. n + 1 |-> IF s = a THEN LoadStep(t, s, f) ELSE f[s]]
    <3>3. /\ (n + 1) - (k - 1) = a + 1 /\ a \in Nat /\ 1 <= a /\ a <= n /\ a \in a .. n + 1
          /\ \A s \in a + 1 .. n + 1 : s \in a .. n + 1 /\ s # a
          /\ \A s \in a .. n + 1 : s # a => s \in a + 1 .. n + 1
          /\ \A s \in a .. n + 1 : s \in Nat /\ 1 <= s /\ (s # n + 1 => s <= n)
          /\ \A s \in a .. n + 1 : \A x \in Nat : s < x /\ x <= n + 1 => x \in a + 1 .. n + 1
      <4>. HIDE DEF n
      <4>. QED  BY <1>0, <2>2, <2>4
    <3>4. \A s \in a + 1 .. n + 1 : f[s] = LoadStep(t, s, f)
      BY <3>2, <3>3, Zenon DEF Vals
    <3>. HIDE DEF a
    <3>5. \A s \in a + 1 .. n + 1 : g[s] = f[s]
      BY <3>3, Zenon
    <3>6. g[a] = LoadStep(t, a, f)
      BY <3>3, Zenon
    <3>7. g = [s \in a .. n + 1 |-> g[s]]
      BY Zenon
    <3>. HIDE DEF g
    <3>8. ASSUME NEW s \in a .. n + 1 PROVE LoadStep(t, s, g) = LoadStep(t, s, f)
      <4>1. CASE s = n + 1
        BY <4>1, Zenon DEF LoadStep
      <4>2. CASE s # n + 1
        <5>1. s \in Nat /\ 1 <= s /\ s <= Len(t)
          BY <3>3, <4>2, Zenon
        <5>2. NextLine(t, s) \in Nat /\ s < NextLine(t, s) /\ NextLine(t, s) <= n + 1
          BY <5>1, NextLineOf, Zenon
        <5>3. NextLine(t, s) \in a + 1 .. n + 1
          BY <3>3, <5>2, Zenon
        <5>4. g[NextLine(t, s)] = f[NextLine(t, s)]
          BY <3>5, <5>3, Zenon
        <5>. QED  BY <5>4, Zenon DEF LoadStep
      <4>. QED  BY <4>1, <4>2, Zenon
    <3>9. ASSUME NEW s \in a .. n + 1 PROVE g[s] = LoadStep(t, s, g)
      <4>1. CASE s = a
        BY <3>6, <3>8, <4>1, Zenon
      <4>2. CASE s # a
        <5>1. s \in a + 1 .. n + 1
          BY <3>3, <4>2, Zenon
        <5>. QED  BY <3>4, <3>5, <3>8, <5>1, Zenon
      <4>. QED  BY <4>1, <4>2, Zenon
    <3>10. g = [s \in a .. n + 1 |-> LoadStep(t, s, g)]
      BY <3>7, <3>9, Zenon
    <3>11. Vals(k, g)
      BY <3>10, Zenon DEF Vals, a
    <3>. QED  BY <2>2, <3>11, Zenon
  <2>. QED  BY <2>3, <2>4, Zenon
<1>2. n \in Nat /\ n <= n /\ (n + 1) - n = 1
  <2>. HIDE DEF n
  <2>. QED  BY <1>0
<1>3. \E f : Vals(n, f)
  <2>. HIDE DEF Vals
  <2>. QED  BY <1>1, <1>2, Zenon
<1>. QED  BY <1>2, <1>3, Zenon

(* TextsFrom, unfolded.                                                    *)
LEMMA TextsUnfold ==
  ASSUME NEW t \in Seq(Letters), NEW s \in 1 .. Len(t) + 1
  PROVE  TextsFrom(t)[s] = LoadStep(t, s, TextsFrom(t))
<1>1. \E f : f = [x \in 1 .. Len(t) + 1 |-> LoadStep(t, x, f)]
  BY TextsDefined, Zenon
<1>2. TextsFrom(t) = [x \in 1 .. Len(t) + 1 |-> LoadStep(t, x, TextsFrom(t))]
  BY <1>1, Zenon DEF TextsFrom, LoadStep, Done
<1>. HIDE DEF TextsFrom
<1>. QED  BY <1>2, Zenon

(* The n-th prefix holds the letters of t up to the n-th, less the CRs     *)
(* that end a line, each where the shorter prefix ended with it.           *)
Kept(t, L, n) ==
  /\ L[n] \in Seq(Letters)
  /\ \A m \in 0 .. n : Len(L[m]) \in Nat /\ Len(L[m]) <= Len(L[n])
  /\ \A m \in 1 .. n : ~EndsLine(t, m) => Len(L[m]) \in 1 .. Len(L[n]) /\ L[n][Len(L[m])] = t[m]

(* Appending a letter keeps the letters.                                   *)
LEMMA Appended ==
  ASSUME NEW s \in Seq(Letters), NEW c \in Letters
  PROVE  /\ Append(s, c) \in Seq(Letters) /\ Len(Append(s, c)) = Len(s) + 1
         /\ \A i \in 1 .. Len(s) : Append(s, c)[i] = s[i]
         /\ Append(s, c)[Len(s) + 1] = c
OBVIOUS

(* One step of LfPrefixes keeps what is there.                             *)
LEMMA KeptStep ==
  ASSUME NEW t \in Seq(Letters), NEW L, NEW k \in Nat, k # 0, k <= Len(t), Kept(t, L, k - 1),
         L[k] = LfStep(t, k, L[k - 1])
  PROVE  Kept(t, L, k)
<1>. DEFINE w == L[k - 1]
            v == L[k]
            a == Len(w)
            b == Len(v)
<1>1. /\ w \in Seq(Letters)
      /\ \A m \in 0 .. k - 1 : Len(L[m]) \in Nat /\ Len(L[m]) <= a
      /\ \A m \in 1 .. k - 1 : ~EndsLine(t, m) => Len(L[m]) \in 1 .. a /\ w[Len(L[m])] = t[m]
  BY Zenon DEF Kept
<1>2. /\ \A m \in 0 .. k : m # k => m \in 0 .. k - 1
      /\ \A m \in 1 .. k : m # k => m \in 1 .. k - 1
  OBVIOUS
<1>3. a \in Nat
  <2>. HIDE DEF w
  <2>. QED  BY <1>1, EmptyLen
<1>4. CASE EndsLine(t, k)
  <2>1. v = w
    BY <1>4, Zenon DEF LfStep
  <2>2. b = a /\ a <= a
    <3>1. b = a
      BY <2>1, Zenon
    <3>2. a <= a
      <4>. HIDE DEF a
      <4>. QED  BY <1>3
    <3>. QED  BY <3>1, <3>2, Zenon
  <2>3. \A m \in 0 .. k : Len(L[m]) \in Nat /\ Len(L[m]) <= b
    <3>. SUFFICES ASSUME NEW m \in 0 .. k PROVE Len(L[m]) \in Nat /\ Len(L[m]) <= b
      BY Zenon
    <3>1. CASE m = k
      BY <1>3, <2>2, <3>1, Zenon
    <3>2. CASE m # k
      BY <1>1, <1>2, <2>2, <3>2, Zenon
    <3>. QED  BY <3>1, <3>2, Zenon
  <2>4. \A m \in 1 .. k : ~EndsLine(t, m) => Len(L[m]) \in 1 .. b /\ v[Len(L[m])] = t[m]
    BY <1>1, <1>2, <1>4, <2>1, Zenon
  <2>. QED  BY <1>1, <2>1, <2>3, <2>4, Zenon DEF Kept
<1>5. CASE ~EndsLine(t, k)
  <2>1. v = Append(w, t[k])
    BY <1>5, Zenon DEF LfStep
  <2>2. t[k] \in Letters
    BY EmptyLen
  <2>3. /\ v \in Seq(Letters) /\ b = a + 1 /\ v[a + 1] = t[k]
        /\ \A i \in 1 .. a : v[i] = w[i]
    <3>. HIDE DEF w, v
    <3>. QED  BY <1>1, <2>1, <2>2, Appended, Zenon
  <2>4. \A x \in Nat : x <= a => x <= a + 1
    <3>. HIDE DEF a
    <3>. QED  BY <1>3
  <2>5. a + 1 \in Nat /\ a + 1 <= a + 1 /\ a + 1 \in 1 .. a + 1 /\ \A x \in 1 .. a : x \in 1 .. a + 1
    <3>. HIDE DEF a
    <3>. QED  BY <1>3
  <2>6. \A m \in 0 .. k : Len(L[m]) \in Nat /\ Len(L[m]) <= b
    <3>. SUFFICES ASSUME NEW m \in 0 .. k PROVE Len(L[m]) \in Nat /\ Len(L[m]) <= b
      BY Zenon
    <3>1. CASE m = k
      BY <2>3, <2>5, <3>1, Zenon
    <3>2. CASE m # k
      BY <1>1, <1>2, <2>3, <2>4, <3>2, Zenon
    <3>. QED  BY <3>1, <3>2, Zenon
  <2>7. \A m \in 1 .. k : ~EndsLine(t, m) => Len(L[m]) \in 1 .. b /\ v[Len(L[m])] = t[m]
    <3>. SUFFICES ASSUME NEW m \in 1 .. k, ~EndsLine(t, m)
                  PROVE  Len(L[m]) \in 1 .. b /\ v[Len(L[m])] = t[m]
      BY Zenon
    <3>1. CASE m = k
      BY <2>3, <2>5, <3>1, Zenon
    <3>2. CASE m # k
      <4>1. Len(L[m]) \in 1 .. a /\ w[Len(L[m])] = t[m]
        BY <1>1, <1>2, <3>2, Zenon
      <4>. QED  BY <2>3, <2>5, <4>1, Zenon
    <3>. QED  BY <3>1, <3>2, Zenon
  <2>. QED  BY <2>3, <2>6, <2>7, Zenon DEF Kept
<1>. QED  BY <1>4, <1>5, Zenon

(* Every prefix LfPrefixes computes holds the letters it has taken.        *)
LEMMA AllKept ==
  ASSUME NEW t \in Seq(Letters), NEW n \in 0 .. Len(t)
  PROVE  Kept(t, LfPrefixes(t), n)
<1>. DEFINE L == LfPrefixes(t)
            T == {k \in Nat : k <= Len(t) /\ ~Kept(t, L, k)}
<1>0. Len(t) \in Nat
  BY EmptyLen
<1>1. T = {}
  <2>. SUFFICES ASSUME T # {} PROVE FALSE
    BY Zenon
  <2>1. PICK k \in T : \A j \in T : k <= j
    <3>1. T \in SUBSET Nat
      BY Zenon
    <3>. HIDE DEF T
    <3>. QED  BY <3>1, NatMin, Zenon
  <2>2. k \in Nat /\ k <= Len(t) /\ ~Kept(t, L, k)
    BY Zenon
  <2>3. CASE k = 0
    <3>1. L[0] = <<>>
      BY <1>0, LfUnfold, Zenon
    <3>2. <<>> \in Seq(Letters) /\ Len(<<>>) = 0 /\ Len(<<>>) \in Nat /\ Len(<<>>) <= Len(<<>>)
      BY EmptySeq
    <3>3. (\A m \in 0 .. 0 : m = 0) /\ \A m \in 1 .. 0 : FALSE
      OBVIOUS
    <3>4. Kept(t, L, 0)
      <4>. HIDE DEF L
      <4>. QED  BY <3>1, <3>2, <3>3, Zenon DEF Kept
    <3>. QED  BY <2>2, <2>3, <3>4, Zenon
  <2>4. CASE k # 0
    <3>1. k - 1 \in Nat /\ k - 1 <= Len(t) /\ ~(k <= k - 1) /\ k \in 1 .. Len(t)
      BY <1>0, <2>2, <2>4
    <3>2. L[k] = LfStep(t, k, L[k - 1])
      BY <1>0, <3>1, LfUnfold, Zenon
    <3>3. Kept(t, L, k - 1)
      BY <2>1, <3>1, Zenon
    <3>. QED  BY <2>2, <2>4, <3>2, <3>3, KeptStep, Zenon
  <2>. QED  BY <2>3, <2>4, Zenon
<1>2. n \in Nat /\ n <= Len(t)
  BY <1>0
<1>. QED  BY <1>1, <1>2, Zenon

(* u is t without the CRs that end a line, and c says how many letters of  *)
(* u come from the first letters of t.                                     *)
Squeezed(t, u, c) ==
  /\ t \in Seq(Letters) /\ u \in Seq(Letters)
  /\ c[0] = 0 /\ c[Len(t)] = Len(u)
  /\ \A n \in 0 .. Len(t) : c[n] \in Nat /\ c[n] <= Len(u)
  /\ \A n \in 1 .. Len(t) : IF EndsLine(t, n) THEN c[n] = c[n - 1]
                            ELSE c[n] = c[n - 1] + 1 /\ u[c[n]] = t[n]

(* LfText leaves out the CRs that end a line and keeps the order of the    *)
(* rest.                                                                   *)
LEMMA LfSqueezed ==
  ASSUME NEW t \in Seq(Letters)
  PROVE  Squeezed(t, LfText(t), [n \in 0 .. Len(t) |-> Len(LfPrefixes(t)[n])])
<1>. DEFINE L == LfPrefixes(t)
            N == Len(t)
            c == [n \in 0 .. N |-> Len(L[n])]
            u == L[N]
<1>1. N \in Nat
  BY EmptyLen
<1>2. /\ 0 \in 0 .. N /\ N \in 0 .. N
      /\ \A n \in 1 .. N : n \in 0 .. N /\ n - 1 \in 0 .. N
  <2>. HIDE DEF N
  <2>. QED  BY <1>1
<1>3. Kept(t, L, N)
  BY <1>2, AllKept, Zenon
<1>4. /\ u \in Seq(Letters)
      /\ \A m \in 0 .. N : Len(L[m]) \in Nat /\ Len(L[m]) <= Len(u)
      /\ \A m \in 1 .. N : ~EndsLine(t, m) => u[Len(L[m])] = t[m]
  BY <1>3, Zenon DEF Kept
<1>5. \A n \in 0 .. N : c[n] = Len(L[n])
  BY Zenon
<1>6. c[0] = 0
  <2>1. L[0] = <<>>
    BY <1>1, LfUnfold, Zenon
  <2>2. Len(<<>>) = 0
    BY EmptySeq
  <2>. QED  BY <1>2, <1>5, <2>1, <2>2, Zenon
<1>7. ASSUME NEW n \in 1 .. N
      PROVE  IF EndsLine(t, n) THEN c[n] = c[n - 1] ELSE c[n] = c[n - 1] + 1 /\ u[c[n]] = t[n]
  <2>1. L[n] = LfStep(t, n, L[n - 1])
    BY <1>1, LfUnfold, Zenon
  <2>2. c[n] = Len(L[n]) /\ c[n - 1] = Len(L[n - 1])
    BY <1>2, <1>5, Zenon
  <2>. HIDE DEF c
  <2>3. CASE EndsLine(t, n)
    BY <2>1, <2>2, <2>3, Zenon DEF LfStep
  <2>4. CASE ~EndsLine(t, n)
    <3>1. L[n] = Append(L[n - 1], t[n])
      BY <2>1, <2>4, Zenon DEF LfStep
    <3>2. Kept(t, L, n - 1)
      BY <1>2, AllKept, Zenon
    <3>3. L[n - 1] \in Seq(Letters)
      BY <3>2, Zenon DEF Kept
    <3>4. t[n] \in Letters
      OBVIOUS
    <3>5. Len(L[n]) = Len(L[n - 1]) + 1
      <4>. DEFINE w == L[n - 1]
                  d == t[n]
      <4>1. w \in Seq(Letters) /\ d \in Letters /\ L[n] = Append(w, d)
        BY <3>1, <3>3, <3>4, Zenon
      <4>. HIDE DEF w, d
      <4>2. Len(Append(w, d)) = Len(w) + 1
        BY <4>1, Appended, Zenon
      <4>. QED  BY <4>1, <4>2, Zenon DEF w
    <3>. QED  BY <1>4, <2>2, <2>4, <3>5, Zenon
  <2>. QED  BY <2>3, <2>4, Zenon
<1>8. LfText(t) = u
  BY Zenon DEF LfText
<1>9. c[N] = Len(u)
  BY <1>2, <1>5, Zenon
<1>10. \A n \in 0 .. N : c[n] \in Nat /\ c[n] <= Len(u)
  BY <1>4, <1>5, Zenon
<1>11. Squeezed(t, u, c)
  <2>. HIDE DEF c, u
  <2>. QED  BY <1>4, <1>6, <1>7, <1>9, <1>10, Zenon DEF Squeezed
<1>. QED  BY <1>8, <1>11, Zenon

(* From a to b no letter of t is such a CR.                                *)
Clear(t, u, c, a, b) ==
  /\ Squeezed(t, u, c) /\ a \in Nat /\ b \in Nat /\ b <= Len(t)
  /\ \A i \in a + 1 .. b : ~EndsLine(t, i)

(* From a to b every letter of t is in u, right after the one before it.   *)
Follows(t, u, c, a, b) ==
  \A i \in Nat : a <= i /\ i <= b => c[i] = c[a] + (i - a) /\ (a < i => u[c[i]] = t[i])

(* A part of t without such CRs is found again in u.                       *)
LEMMA Straight ==
  ASSUME NEW t, NEW u, NEW c, NEW a, NEW b, Clear(t, u, c, a, b)
  PROVE  Follows(t, u, c, a, b)
<1>. DEFINE N == Len(t)
            T == {k \in Nat : a <= k /\ k <= b /\ c[k] # c[a] + (k - a)}
<1>0. /\ t \in Seq(Letters)
      /\ \A n \in 0 .. N : c[n] \in Nat
      /\ \A n \in 1 .. N : ~EndsLine(t, n) => c[n] = c[n - 1] + 1 /\ u[c[n]] = t[n]
  BY Zenon DEF Squeezed, Clear
<1>1. N \in Nat /\ b <= N /\ a \in Nat /\ b \in Nat /\ \A i \in a + 1 .. b : ~EndsLine(t, i)
  <2>1. N \in Nat
    BY <1>0, EmptyLen
  <2>. QED  BY <2>1, Zenon DEF Clear
<1>. HIDE DEF N
<1>2. T = {}
  <2>. SUFFICES ASSUME T # {} PROVE FALSE
    BY Zenon
  <2>1. PICK k \in T : \A j \in T : k <= j
    <3>1. T \in SUBSET Nat
      BY Zenon
    <3>. HIDE DEF T
    <3>. QED  BY <3>1, NatMin, Zenon
  <2>2. k \in Nat /\ a <= k /\ k <= b /\ c[k] # c[a] + (k - a)
    BY Zenon
  <2>3. a \in 0 .. N
    BY <1>1, <2>2
  <2>4. c[a] \in Nat
    BY <1>0, <2>3, Zenon
  <2>5. k # a
    BY <2>2, <2>4
  <2>6. /\ k - 1 \in Nat /\ a <= k - 1 /\ k - 1 <= b /\ ~(k <= k - 1)
        /\ k \in 1 .. N /\ k \in a + 1 .. b
    BY <1>1, <2>2, <2>5
  <2>7. c[k - 1] = c[a] + ((k - 1) - a)
    BY <2>1, <2>6, Zenon
  <2>8. c[k] = c[k - 1] + 1
    BY <1>0, <1>1, <2>6, Zenon
  <2>9. c[k] = c[a] + (k - a)
    <3>. HIDE DEF T
    <3>. QED  BY <1>1, <2>2, <2>4, <2>7, <2>8
  <2>. QED  BY <2>2, <2>9, Zenon
<1>. SUFFICES ASSUME NEW i \in Nat, a <= i, i <= b
              PROVE  c[i] = c[a] + (i - a) /\ (a < i => u[c[i]] = t[i])
  BY Zenon DEF Follows
<1>3. c[i] = c[a] + (i - a)
  BY <1>2, Zenon
<1>4. a < i => i \in 1 .. N /\ i \in a + 1 .. b
  BY <1>1
<1>. QED  BY <1>0, <1>1, <1>3, <1>4, Zenon

(* What CrLfAsLf asks of a text.                                           *)
NoCrCr(t) == \A i \in 1 .. Len(t) - 1 : ~(t[i] = "\r" /\ t[i + 1] = "\r")

(* No CR that ends a line is in what RawLine keeps of it.                  *)
LEMMA NoneInside ==
  ASSUME NEW t \in Seq(Letters), NEW s, NEW e, IsLine(t, s, e), NEW i \in s .. Shorter(t, s, e) - 1
  PROVE  ~EndsLine(t, i)
<1>. DEFINE N == Len(t)
<1>0. N \in Nat
  BY EmptyLen
<1>1. /\ s \in Nat /\ e \in Nat /\ 1 <= s /\ s <= e /\ e <= N + 1
      /\ (\A k \in s .. e - 1 : t[k] # "\n") /\ (e = N + 1 \/ t[e] = "\n")
  BY Zenon DEF IsLine
<1>2. Shorter(t, s, e) = IF s < e /\ t[e - 1] = "\r" THEN e - 1 ELSE e
  BY Zenon DEF Shorter
<1>. SUFFICES ASSUME EndsLine(t, i) PROVE FALSE
  OBVIOUS
<1>3. t[i] = "\r" /\ (i = N \/ t[i + 1] = "\n")
  BY Zenon DEF EndsLine
<1>. HIDE DEF N
<1>4. i \in s .. e - 1 /\ i + 1 \in s .. e
  BY <1>1, <1>2
<1>5. i # e - 1
  <2>. SUFFICES ASSUME i = e - 1 PROVE FALSE
    OBVIOUS
  <2>1. s < e /\ t[e - 1] = "\r"
    BY <1>1, <1>3, <1>4
  <2>2. Shorter(t, s, e) = e - 1
    BY <1>2, <2>1, Zenon
  <2>. QED  BY <1>1, <1>4, <2>2
<1>6. i + 1 \in s .. e - 1 /\ i # N
  BY <1>0, <1>1, <1>4, <1>5
<1>. QED  BY <1>1, <1>3, <1>6, Zenon

(* The line of u that starts at p has the letters of the line of t that    *)
(* starts at s, and what follows it is the same.                           *)
Mapped(t, s, e, u, p, q, c) ==
  /\ p \in Nat /\ q \in Nat
  /\ p = c[s - 1] + 1
  /\ q - p = Shorter(t, s, e) - s
  /\ q = c[e - 1] + 1
  /\ \A k \in 1 .. Shorter(t, s, e) - s : t[s + k - 1] = u[p + k - 1]
  /\ IF e = Len(t) + 1 THEN q = Len(u) + 1 ELSE q <= Len(u) /\ u[q] = "\n" /\ c[e] = q

(* Every line of t is found in u where the letters before it end.          *)
LEMMA LineMapped ==
  ASSUME NEW t, NEW u, NEW c, Squeezed(t, u, c), NEW s, NEW e, IsLine(t, s, e)
  PROVE  Mapped(t, s, e, u, c[s - 1] + 1, c[e - 1] + 1, c)
<1>. DEFINE N == Len(t)
            M == Len(u)
            b == Shorter(t, s, e)
            p == c[s - 1] + 1
            q == c[e - 1] + 1
<1>0. /\ t \in Seq(Letters) /\ u \in Seq(Letters) /\ c[N] = M
      /\ \A n \in 0 .. N : c[n] \in Nat /\ c[n] <= M
      /\ \A n \in 1 .. N : IF EndsLine(t, n) THEN c[n] = c[n - 1] ELSE c[n] = c[n - 1] + 1 /\ u[c[n]] = t[n]
  BY Zenon DEF Squeezed
<1>1. N \in Nat /\ M \in Nat
  BY <1>0, EmptyLen
<1>2. /\ s \in Nat /\ e \in Nat /\ 1 <= s /\ s <= e /\ e <= N + 1
      /\ (e = N + 1 \/ t[e] = "\n")
  BY Zenon DEF IsLine
<1>3. b = IF s < e /\ t[e - 1] = "\r" THEN e - 1 ELSE e
  BY Zenon DEF Shorter
<1>4. \A i \in s .. b - 1 : ~EndsLine(t, i)
  BY <1>0, NoneInside, Zenon
<1>5. e = N + 1 \/ ~EndsLine(t, e)
  BY <1>2 DEF EndsLine
<1>6. s < e /\ t[e - 1] = "\r" => EndsLine(t, e - 1)
  <2>1. (e = N + 1 => e - 1 = N) /\ (e - 1) + 1 = e
    <3>. HIDE DEF N
    <3>. QED  BY <1>1, <1>2
  <2>. QED  BY <1>2, <2>1, Zenon DEF EndsLine
<1>. HIDE DEF N, M, b
<1>7. /\ b \in Nat /\ s <= b /\ b <= e /\ (b = e \/ (b = e - 1 /\ EndsLine(t, e - 1) /\ s < e))
  BY <1>2, <1>3, <1>6
<1>8. \A i \in Nat : s - 1 <= i /\ i <= b - 1
        => c[i] = c[s - 1] + (i - (s - 1)) /\ (s - 1 < i => u[c[i]] = t[i])
  <2>1. s - 1 \in Nat /\ b - 1 \in Nat /\ b - 1 <= N /\ (s - 1) + 1 = s
    BY <1>1, <1>2, <1>7
  <2>. DEFINE a == s - 1
              d == b - 1
  <2>2. Clear(t, u, c, a, d)
    BY <1>4, <2>1, Zenon DEF N, Clear
  <2>. HIDE DEF a, d
  <2>3. Follows(t, u, c, a, d)
    BY <2>2, Straight, Zenon
  <2>. QED  BY <2>3, Zenon DEF a, d, Follows
<1>9. s - 1 \in 0 .. N /\ e - 1 \in 0 .. N /\ b - 1 \in Nat /\ s - 1 <= b - 1 /\ b - 1 <= b - 1
  BY <1>1, <1>2, <1>7
<1>10. c[s - 1] \in Nat /\ c[e - 1] \in Nat /\ c[e - 1] <= M
  BY <1>0, <1>9, Zenon
<1>11. c[e - 1] = c[b - 1]
  <2>1. CASE b = e
    BY <2>1, Zenon
  <2>2. CASE b = e - 1 /\ EndsLine(t, e - 1) /\ s < e
    <3>1. e - 1 \in 1 .. N /\ (e - 1) - 1 = b - 1
      BY <1>1, <1>2, <2>2
    <3>2. c[e - 1] = c[(e - 1) - 1]
      BY <1>0, <2>2, <3>1, Zenon
    <3>. QED  BY <3>1, <3>2, Zenon
  <2>. QED  BY <1>7, <2>1, <2>2, Zenon
<1>12. c[b - 1] = c[s - 1] + ((b - 1) - (s - 1))
  BY <1>8, <1>9, Zenon
<1>13. p \in Nat /\ q \in Nat /\ q - p = b - s
  BY <1>2, <1>7, <1>10, <1>11, <1>12
<1>14. ASSUME NEW k \in 1 .. b - s PROVE t[s + k - 1] = u[p + k - 1]
  <2>. DEFINE i == s + k - 1
  <2>1. i \in Nat /\ s - 1 <= i /\ i <= b - 1 /\ s - 1 < i
    BY <1>2, <1>7
  <2>2. c[i] = c[s - 1] + (i - (s - 1)) /\ u[c[i]] = t[i]
    <3>. HIDE DEF i
    <3>. QED  BY <1>8, <2>1, Zenon
  <2>. DEFINE x == c[i]
              y == c[s - 1]
  <2>3. x = y + (i - (s - 1)) /\ y \in Nat
    BY <1>10, <2>2, Zenon
  <2>. HIDE DEF x, y
  <2>4. x = (y + 1) + k - 1
    BY <1>2, <1>7, <2>3
  <2>. QED  BY <2>2, <2>4, Zenon DEF x, y
<1>15. IF e = N + 1 THEN q = M + 1 ELSE q <= M /\ u[q] = "\n" /\ c[e] = q
  <2>1. CASE e = N + 1
    <3>1. e - 1 = N
      BY <1>1, <2>1
    <3>. QED  BY <1>0, <2>1, <3>1, Zenon
  <2>2. CASE e # N + 1
    <3>1. e \in 1 .. N /\ e \in 0 .. N
      BY <1>1, <1>2, <2>2
    <3>2. c[e] = q /\ u[c[e]] = t[e] /\ c[e] <= M /\ t[e] = "\n"
      BY <1>0, <1>2, <1>5, <2>2, <3>1, Zenon
    <3>. QED  BY <2>2, <3>2, Zenon
  <2>. QED  BY <2>1, <2>2, Zenon
<1>. HIDE DEF p, q
<1>16. p = c[s - 1] + 1 /\ q = c[e - 1] + 1
  BY Zenon DEF p, q
<1>17. Mapped(t, s, e, u, p, q, c)
  BY <1>13, <1>14, <1>15, <1>16, Zenon DEF Mapped, N, M, b
<1>. QED  BY <1>16, <1>17, Zenon

(* What the lines at s of t and at p of u have in common.                  *)
Alike(t, s, u, p, c) ==
  /\ p \in Nat /\ 1 <= p /\ p <= Len(u) + 1
  /\ RawLine(t, s) = RawLine(u, p)
  /\ NextLine(u, p) = c[NextLine(t, s) - 1] + 1
  /\ p = Len(u) + 1 => RawLine(u, p) = <<>> /\ NextLine(u, p) = Len(u) + 1

(* Without its CR a line is the same line of the text without CRs, and the *)
(* next line of the one is the next line of the other.                     *)
LEMMA LinesAlike ==
  ASSUME NEW t, NEW u, NEW c, Squeezed(t, u, c), NoCrCr(t), NEW s \in Nat, 1 <= s, s <= Len(t)
  PROVE  Alike(t, s, u, c[s - 1] + 1, c)
<1>. DEFINE N == Len(t)
            M == Len(u)
            e == LineEnd(t, s)
            b == Shorter(t, s, e)
            p == c[s - 1] + 1
            q == c[e - 1] + 1
<1>0. t \in Seq(Letters) /\ u \in Seq(Letters) /\ c[N] = M
  BY Zenon DEF Squeezed
<1>1. N \in Nat /\ M \in Nat
  BY <1>0, EmptyLen
<1>2. s <= N + 1
  <2>1. s <= N
    BY Zenon
  <2>. HIDE DEF N
  <2>. QED  BY <1>1, <2>1
<1>3. IsLine(t, s, e)
  BY <1>0, <1>2, LineEndOf, Zenon
<1>4. NextLine(t, s) = IF e = N + 1 THEN N + 1 ELSE e + 1
  BY Zenon DEF NextLine
<1>. HIDE DEF e
<1>5. Mapped(t, s, e, u, p, q, c)
  BY <1>3, LineMapped, Zenon
<1>6. /\ e \in Nat /\ s <= e /\ e <= N + 1
      /\ \A k \in s .. e - 1 : t[k] # "\n"
  BY <1>3, Zenon DEF IsLine
<1>7. p = c[s - 1] + 1 /\ q = c[e - 1] + 1
  BY Zenon
<1>. HIDE DEF p, q
<1>8. /\ p \in Nat /\ q \in Nat /\ q - p = b - s
      /\ \A k \in 1 .. b - s : t[s + k - 1] = u[p + k - 1]
      /\ IF e = N + 1 THEN q = M + 1 ELSE q <= M /\ u[q] = "\n" /\ c[e] = q
  BY <1>5, Zenon DEF Mapped
<1>9. b = IF s < e /\ t[e - 1] = "\r" THEN e - 1 ELSE e
  BY Zenon DEF Shorter
<1>10. \A i \in 1 .. N - 1 : ~(t[i] = "\r" /\ t[i + 1] = "\r")
  BY Zenon DEF NoCrCr
<1>. HIDE DEF b, N, M
<1>11. b \in Nat /\ s <= b /\ b <= e
  BY <1>6, <1>9
<1>12. 1 <= p /\ p <= q /\ q <= M + 1
  <2>1. c[s - 1] \in Nat
    <3>1. s - 1 \in 0 .. N
      BY <1>1, <1>2
    <3>. QED  BY <3>1, Zenon DEF Squeezed, N
  <2>2. q = M + 1 \/ q <= M
    BY <1>8, Zenon
  <2>3. q \in Nat /\ p \in Nat /\ q - p = b - s
    BY <1>8, Zenon
  <2>. DEFINE y == c[s - 1]
  <2>4. p = y + 1 /\ y \in Nat
    BY <1>7, <2>1, Zenon
  <2>. HIDE DEF y
  <2>. QED  BY <1>1, <1>11, <2>2, <2>3, <2>4
<1>13. IsLine(u, p, q)
  <2>1. \A j \in p .. q - 1 : u[j] # "\n"
    <3>. SUFFICES ASSUME NEW j \in p .. q - 1 PROVE u[j] # "\n"
      BY Zenon
    <3>. DEFINE k == j - p + 1
    <3>1. k \in 1 .. b - s /\ p + k - 1 = j /\ s + k - 1 \in s .. e - 1
      BY <1>6, <1>8, <1>11
    <3>. HIDE DEF k
    <3>2. t[s + k - 1] = u[p + k - 1] /\ t[s + k - 1] # "\n"
      BY <1>6, <1>8, <3>1, Zenon
    <3>. QED  BY <3>1, <3>2, Zenon
  <2>2. q = M + 1 \/ u[q] = "\n"
    BY <1>8, Zenon
  <2>. QED  BY <1>8, <1>12, <2>1, <2>2, Zenon DEF IsLine, M
<1>14. Shorter(u, p, q) = q
  <2>. SUFFICES ASSUME p < q, u[q - 1] = "\r" PROVE FALSE
    BY Zenon DEF Shorter
  <2>. DEFINE k == b - s
  <2>1. k \in 1 .. b - s /\ s + k - 1 = b - 1 /\ p + k - 1 = q - 1 /\ s < b
    BY <1>8, <1>11
  <2>2. t[b - 1] = "\r"
    <3>1. t[s + k - 1] = u[p + k - 1]
      <4>. HIDE DEF k
      <4>. QED  BY <1>8, <2>1, Zenon
    <3>. QED  BY <2>1, <3>1, Zenon
  <2>3. CASE s < e /\ t[e - 1] = "\r"
    <3>1. b = e - 1
      BY <1>9, <2>3, Zenon
    <3>2. b - 1 \in 1 .. N - 1 /\ (b - 1) + 1 = e - 1
      BY <1>1, <1>6, <2>1, <3>1
    <3>. QED  BY <1>10, <2>2, <2>3, <3>2, Zenon
  <2>4. CASE ~(s < e /\ t[e - 1] = "\r")
    <3>1. b = e
      BY <1>9, <2>4, Zenon
    <3>. QED  BY <2>1, <2>2, <2>4, <3>1, Zenon
  <2>. QED  BY <2>3, <2>4, Zenon
<1>15. IsPiece(RawLine(t, s), t, s, b) /\ IsPiece(RawLine(u, p), u, p, q)
  <2>1. IsPiece(RawLine(t, s), t, s, b)
    BY <1>0, <1>3, RawLineOf, Zenon DEF b
  <2>2. IsPiece(RawLine(u, p), u, p, Shorter(u, p, q))
    BY <1>0, <1>13, RawLineOf, Zenon
  <2>. QED  BY <1>14, <2>1, <2>2, Zenon
<1>16. RawLine(t, s) = RawLine(u, p)
  <2>1. b - s = q - p
    BY <1>8, Zenon
  <2>. QED  BY <1>8, <1>15, <2>1, SamePiece, Zenon
<1>17. NextLine(u, p) = IF q = M + 1 THEN M + 1 ELSE q + 1
  <2>1. LineEnd(u, p) = q
    BY <1>0, <1>13, OneLineEnd, Zenon
  <2>. QED  BY <2>1, Zenon DEF NextLine, M
<1>18. NextLine(u, p) = c[NextLine(t, s) - 1] + 1
  <2>1. CASE e = N + 1
    <3>1. NextLine(t, s) = N + 1 /\ NextLine(u, p) = M + 1
      BY <1>4, <1>8, <1>17, <2>1, Zenon DEF N
    <3>2. (N + 1) - 1 = N
      BY <1>1
    <3>3. NextLine(t, s) - 1 = N
      BY <3>1, <3>2, Zenon
    <3>. QED  BY <1>0, <3>1, <3>3, Zenon
  <2>2. CASE e # N + 1
    <3>1. q <= M /\ c[e] = q /\ NextLine(t, s) = e + 1
      BY <1>4, <1>8, <2>2, Zenon DEF N
    <3>2. (e + 1) - 1 = e /\ q # M + 1
      BY <1>1, <1>6, <1>8, <3>1
    <3>3. NextLine(t, s) - 1 = e
      BY <3>1, <3>2, Zenon
    <3>4. NextLine(u, p) = q + 1
      BY <1>17, <3>2, Zenon
    <3>. QED  BY <3>1, <3>3, <3>4, Zenon
  <2>. QED  BY <2>1, <2>2, Zenon
<1>19. p = M + 1 => RawLine(u, p) = <<>> /\ NextLine(u, p) = M + 1
  <2>. SUFFICES ASSUME p = M + 1 PROVE RawLine(u, p) = <<>> /\ NextLine(u, p) = M + 1
    BY Zenon
  <2>1. q = M + 1 /\ q - p = 0
    BY <1>1, <1>8, <1>12
  <2>2. RawLine(u, p) \in Seq(Letters) /\ Len(RawLine(u, p)) = 0
    BY <1>15, <2>1, Zenon DEF IsPiece
  <2>3. RawLine(u, p) = <<>>
    BY <2>2, EmptyLen, Zenon
  <2>. QED  BY <1>17, <2>1, <2>3, Zenon
<1>20. p <= M + 1
  BY <1>1, <1>8, <1>12
<1>. QED  BY <1>7, <1>8, <1>12, <1>16, <1>18, <1>19, <1>20, Zenon DEF Alike, M

(* An empty line adds nothing.                                             *)
LEMMA EmptyLine == Loaded(<<>>, Done) = Done
<1>1. Len(<<>>) = 0 /\ DOMAIN <<>> = {}
  BY EmptySeq
<1>2. Trim(<<>>) = <<>>
  BY <1>1, Zenon DEF Trim
<1>3. Find(<<>>, "#", 1) = 0
  <2>1. \A i : i \notin 1 .. Len(<<>>)
    BY <1>1
  <2>. QED  BY <2>1, Zenon DEF Find
<1>4. Text(<<>>) = <<>>
  BY <1>2, <1>3, Zenon DEF Text
<1>5. ~(Len(<<>>) >= MAX_LINE_LEN)
  <2>1. MAX_LINE_LEN \in Nat \ {0}
    BY ConfSyntaxAssumption, Zenon
  <2>. QED  BY <1>1, <2>1
<1>. QED  BY <1>4, <1>5, Zenon DEF Loaded

(* From corresponding lines on the same texts are loaded.                  *)
LEMMA SameTexts ==
  ASSUME NEW t, NEW u, NEW c, Squeezed(t, u, c), NoCrCr(t)
  PROVE  TextsFrom(t)[1] = TextsFrom(u)[1]
<1>. DEFINE N == Len(t)
            M == Len(u)
            A == TextsFrom(t)
            B == TextsFrom(u)
            T == {k \in Nat : k <= N /\ A[(N + 1) - k] # B[c[N - k] + 1]}
<1>0. t \in Seq(Letters) /\ u \in Seq(Letters) /\ c[0] = 0 /\ c[N] = M
  BY Zenon DEF Squeezed
<1>1. N \in Nat /\ M \in Nat
  BY <1>0, EmptyLen
<1>2. B[M + 1] = Done
  <2>1. M + 1 \in 1 .. M + 1
    <3>. HIDE DEF M
    <3>. QED  BY <1>1
  <2>. QED  BY <1>0, <2>1, TextsUnfold, Zenon DEF LoadStep
<1>. HIDE DEF A, B
<1>3. T = {}
  <2>. SUFFICES ASSUME T # {} PROVE FALSE
    BY Zenon
  <2>1. PICK k \in T : \A j \in T : k <= j
    <3>1. T \in SUBSET Nat
      BY Zenon
    <3>. HIDE DEF T
    <3>. QED  BY <3>1, NatMin, Zenon
  <2>. DEFINE s == (N + 1) - k
              p == c[s - 1] + 1
              x == NextLine(t, s)
  <2>2. k \in Nat /\ k <= N /\ A[s] # B[c[N - k] + 1]
    BY Zenon
  <2>3. /\ s \in Nat /\ 1 <= s /\ s <= N + 1 /\ s \in 1 .. N + 1 /\ s - 1 = N - k
        /\ (k # 0 => s <= N /\ s # N + 1) /\ (k = 0 => s = N + 1 /\ N - k = N)
    <3>. HIDE DEF N
    <3>. QED  BY <1>1, <2>2
  <2>4. A[s] # B[p]
    BY <2>2, <2>3, Zenon
  <2>5. A[s] = IF s = N + 1 THEN Done ELSE Loaded(RawLine(t, s), A[x])
    BY <1>0, <2>3, TextsUnfold, Zenon DEF LoadStep, A
  <2>6. CASE k = 0
    BY <1>0, <1>2, <2>3, <2>4, <2>5, <2>6, Zenon
  <2>7. CASE k # 0
    <3>1. Alike(t, s, u, p, c)
      <4>. HIDE DEF s
      <4>1. s <= Len(t)
        BY <2>3, <2>7, Zenon
      <4>. QED  BY <2>3, <4>1, LinesAlike, Zenon
    <3>2. x \in Nat /\ s < x /\ x <= N + 1
      <4>. HIDE DEF s
      <4>. QED  BY <1>0, <2>3, <2>7, NextLineOf, Zenon
    <3>. DEFINE j == (N + 1) - x
    <3>3. j \in Nat /\ j <= N /\ ~(k <= j) /\ (N + 1) - j = x /\ N - j = x - 1
      <4>. HIDE DEF N, x
      <4>. QED  BY <1>1, <2>2, <3>2
    <3>4. A[x] = B[c[x - 1] + 1]
      <4>1. j \notin T
        <5>. HIDE DEF T, j
        <5>. QED  BY <2>1, <3>3, Zenon
      <4>2. A[(N + 1) - j] = B[c[N - j] + 1]
        <5>. HIDE DEF j
        <5>. QED  BY <3>3, <4>1, Zenon
      <4>. HIDE DEF j, x
      <4>. QED  BY <3>3, <4>2, Zenon
    <3>. HIDE DEF x, p, s
    <3>5. /\ p \in Nat /\ 1 <= p /\ p <= M + 1
          /\ RawLine(t, s) = RawLine(u, p)
          /\ NextLine(u, p) = c[x - 1] + 1
          /\ p = M + 1 => RawLine(u, p) = <<>> /\ NextLine(u, p) = M + 1
      BY <3>1, Zenon DEF Alike, x
    <3>6. p \in 1 .. M + 1
      <4>. HIDE DEF M
      <4>. QED  BY <1>1, <3>5
    <3>7. B[p] = IF p = M + 1 THEN Done ELSE Loaded(RawLine(u, p), B[NextLine(u, p)])
      BY <1>0, <3>6, TextsUnfold, Zenon DEF LoadStep, B
    <3>8. A[s] = Loaded(RawLine(u, p), B[NextLine(u, p)])
      BY <2>3, <2>5, <2>7, <3>4, <3>5, Zenon
    <3>9. CASE p = M + 1
      <4>1. A[s] = Loaded(<<>>, Done)
        BY <1>2, <3>5, <3>8, <3>9, Zenon
      <4>. QED  BY <2>4, <3>7, <3>9, <4>1, EmptyLine, Zenon
    <3>10. CASE p # M + 1
      BY <2>4, <3>7, <3>8, <3>10, Zenon
    <3>. QED  BY <3>9, <3>10, Zenon
  <2>. QED  BY <2>6, <2>7, Zenon
<1>4. N \in Nat /\ N <= N /\ (N + 1) - N = 1 /\ N - N = 0 /\ 0 + 1 = 1
  <2>. HIDE DEF N
  <2>. QED  BY <1>1
<1>5. A[(N + 1) - N] = B[c[N - N] + 1]
  BY <1>3, <1>4, Zenon
<1>. QED  BY <1>0, <1>4, <1>5, Zenon DEF A, B

(* Every text without two CRs in a row gives the same routes, and has the  *)
(* same lines refused for their length, with CRLF and with LF.             *)
THEOREM EveryCrLfAsLf == ASSUME NEW t \in Seq(Letters) PROVE CrLfAsLf(t)
<1>. DEFINE u == LfText(t)
            c == [n \in 0 .. Len(t) |-> Len(LfPrefixes(t)[n])]
<1>1. Squeezed(t, u, c)
  BY LfSqueezed, Zenon
<1>. HIDE DEF u, c
<1>2. ASSUME NoCrCr(t) PROVE TextsFrom(t)[1] = TextsFrom(u)[1]
  <2>1. Squeezed(t, u, c) /\ NoCrCr(t)
    BY <1>1, <1>2, Zenon
  <2>. HIDE DEF LfText
  <2>. QED  BY <2>1, SameTexts, SMT
<1>. QED  BY <1>2, Zenon DEF CrLfAsLf, RouteTexts, NoCrCr, u

-----------------------------------------------------------------------------
(* What the variables of Formats can be.                                   *)

(* Addresses have the family, the octets and the port they are to have.    *)
LEMMA AddressOf == ASSUME NEW x \in Addresses PROVE IsAddress(x)
<1>1. CASE x \in [family : {"inet"}, addr : Hosts4, port : Ports, whole : BOOLEAN]
  BY <1>1, FormatsAssumption DEF IsAddress, AddrBytes
<1>2. CASE x \in [family : {"inet6"}, addr : Hosts6, port : Ports, whole : BOOLEAN]
  BY <1>2, FormatsAssumption DEF IsAddress, AddrBytes
<1>3. CASE x \in [family : {"unix"}, addr : {<<>>}, port : {0}, whole : BOOLEAN]
  BY <1>3 DEF IsAddress, UINT16_MAX
<1>. QED  BY <1>1, <1>2, <1>3, Zenon DEF Addresses

(* A text is a sequence of letters, and a packet one of Packets or none.   *)
FormatsTypeOK == text \in Seq(Letters) /\ packet \in {<<>>} \union {<<p>> : p \in Packets}

(* text and packet keep that type.                                         *)
THEOREM FormatsTyped == FormatsSpec => []FormatsTypeOK
<1>1. FormatsInit => FormatsTypeOK
  BY DEF FormatsInit, FormatsTypeOK
<1>2. FormatsTypeOK /\ [FormatsNext]_<<vars, inputs>> => FormatsTypeOK'
  <2>. SUFFICES ASSUME FormatsTypeOK, [FormatsNext]_<<vars, inputs>> PROVE FormatsTypeOK'
    OBVIOUS
  <2>1. CASE UNCHANGED inputs
    BY <2>1 DEF FormatsTypeOK, inputs
  <2>2. CASE GrowText
    <3>1. PICK A \in Alphabets : \E c \in A : text' = Append(text, c)
      BY <2>2, Zenon DEF GrowText
    <3>2. PICK c \in A : text' = Append(text, c)
      BY <3>1, Zenon
    <3>3. c \in Letters
      BY FormatsAssumption, Zenon
    <3>. QED  BY <2>2, <3>2, <3>3, AppendProperties, Zenon DEF FormatsTypeOK, GrowText
  <2>3. CASE ChoosePacket
    BY <2>3, Zenon DEF FormatsTypeOK, ChoosePacket
  <2>. QED  BY <2>1, <2>2, <2>3, Zenon DEF FormatsNext, Sniff, inputs
<1>. QED  BY <1>1, <1>2, PTL DEF FormatsSpec

(* The addresses of a packet are addresses.                                *)
LEMMA PacketOf ==
  ASSUME FormatsTypeOK, NEW p \in Range(packet)
  PROVE  /\ IsAddress(p.src) /\ IsAddress(p.dst) /\ p.type \in {"stream", "dgram"}
         /\ p.buf \in Nat /\ p.len \in Nat /\ p.little \in BOOLEAN
<1>1. p \in Packets
  BY DEF FormatsTypeOK, Range
<1>2. p.src \in Addresses /\ p.dst \in Addresses
  BY <1>1, Zenon DEF Packets
<1>. QED  BY <1>1, <1>2, AddressOf, FormatsAssumption, Zenon DEF Packets

(* proxy_v2_build and send_datagram_payload_to_upstream: a receiver finds  *)
(* in every header what was put in, and the payload right behind it.       *)
THEOREM ProxyHeadersRead == FormatsSpec => []ProxyHeadersReadable
<1>1. FormatsTypeOK => ProxyHeadersReadable
  <2>. SUFFICES ASSUME FormatsTypeOK, NEW p \in Range(packet)
                PROVE  /\ ProxyHeaderReadable(p.buf, p.src, p.dst, p.type, p.len)
                       /\ ProxyDatagramWhole(p.src, p.dst, p.len)
    BY Zenon DEF ProxyHeadersReadable
  <2>1. ProxyDatagramWhole(p.src, p.dst, p.len)
    BY PacketOf, ProxyV2Datagram, Zenon
  <2>2. ProxyHeaderReadable(p.buf, p.src, p.dst, p.type, p.len)
    BY PacketOf, ProxyV2Whole, Zenon
  <2>. QED  BY <2>1, <2>2, Zenon
<1>. QED  BY <1>1, FormatsTyped, PTL

(* datagram_raw_send_udp_ipv4: every packet has its lengths, addresses and *)
(* ports, and a checksum that is right in the byte order of the host.      *)
THEOREM RawPacketsRead == FormatsSpec => []RawPacketsValid
<1>1. FormatsTypeOK => RawPacketsValid
  <2>. SUFFICES ASSUME FormatsTypeOK, NEW p \in Range(packet)
                PROVE  RawPacketValid(p.src, p.dst, p.len, p.little)
    BY Zenon DEF RawPacketsValid
  <2>. QED  BY PacketOf, RawPacket, Zenon
<1>. QED  BY <1>1, FormatsTyped, PTL

(* split_host_port: every text is read as the grammar says, or refused.    *)
THEOREM HostPortsRead == FormatsSpec => []HostPortsReadAsWritten
<1>1. FormatsTypeOK => HostPortsReadAsWritten
  BY AllReadAsWritten, Zenon DEF FormatsTypeOK, HostPortsReadAsWritten
<1>. QED  BY <1>1, FormatsTyped, PTL

(* endpoint_to_string: what the logs show for an endpoint is read as that. *)
THEOREM EndpointsReadBack == FormatsSpec => []EndpointsRoundTrip
<1>1. FormatsTypeOK => EndpointsRoundTrip
  BY EveryEndpointReadBack, Zenon DEF FormatsTypeOK, EndpointsRoundTrip
<1>. QED  BY <1>1, FormatsTyped, PTL

(* load_routes_from_text: CRLF line ends make no difference to the routes  *)
(* loaded or to the lines refused for their length.                        *)
THEOREM CrLfLoaded == FormatsSpec => []CrLfInsensitive
<1>1. FormatsTypeOK => CrLfInsensitive
  BY EveryCrLfAsLf, Zenon DEF FormatsTypeOK, CrLfInsensitive
<1>. QED  BY <1>1, FormatsTyped, PTL
=============================================================================
