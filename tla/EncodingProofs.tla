--------------------------- MODULE EncodingProofs ---------------------------
(***************************************************************************)
(* Proofs about the operators of WireFormats, for every address, port and  *)
(* payload, and about those of ConfSyntax that read and write hosts and    *)
(* ports, for every text.                                                  *)
(***************************************************************************)
EXTENDS WireFormats, ConfSyntax, SequenceTheorems, WellFoundedInduction, TLAPS

-----------------------------------------------------------------------------
(* Bytes.                                                                  *)

(* What concatenation does to the letters of its arguments.                *)
LEMMA Cat ==
  ASSUME NEW s \in Seq(Nat), NEW t \in Seq(Nat)
  PROVE  /\ s \o t \in Seq(Nat) /\ Len(s \o t) = Len(s) + Len(t)
         /\ \A i \in 1 .. Len(s) : (s \o t)[i] = s[i]
         /\ \A i \in 1 .. Len(t) : (s \o t)[Len(s) + i] = t[i]
<1>1. Len(s) \in Nat /\ Len(t) \in Nat
  OBVIOUS
<1>2. /\ s \o t \in Seq(Nat) /\ Len(s \o t) = Len(s) + Len(t)
      /\ \A i \in 1 .. Len(s) + Len(t) : (s \o t)[i] = IF i <= Len(s) THEN s[i] ELSE t[i - Len(s)]
  BY ConcatProperties, Zenon
<1>. QED  BY <1>1, <1>2

(* A pair is a sequence of two.                                            *)
LEMMA Pair ==
  ASSUME NEW a \in Nat, NEW b \in Nat
  PROVE  <<a, b>> \in Seq(Nat) /\ Len(<<a, b>>) = 2 /\ <<a, b>>[1] = a /\ <<a, b>>[2] = b
  OBVIOUS

(* put_u16 and htons: the two bytes of a uint16_t are read back as the     *)
(* number.                                                                 *)
LEMMA Uint16 ==
  ASSUME NEW v \in Nat, v <= UINT16_MAX
  PROVE  /\ U16Bytes(v) \in Seq(Nat) /\ Len(U16Bytes(v)) = 2
         /\ 256 * U16Bytes(v)[1] + U16Bytes(v)[2] = v
         /\ U16Bytes(v)[1] = v \div 256 /\ U16Bytes(v)[2] = v % 256
<1>1. v % 256 \in Nat /\ v \div 256 \in Nat /\ 256 * (v \div 256) + (v % 256) = v
  <2>1. 256 * (v \div 256) + (v % 256) = v
    OBVIOUS
  <2>2. v % 256 \in Nat
    OBVIOUS
  <2>3. v \div 256 \in Nat
    OBVIOUS
  <2>. QED  BY <2>1, <2>2, <2>3
<1>2. v \div 256 < 256
  BY DEF UINT16_MAX
<1>3. (v \div 256) % 256 = v \div 256
  BY <1>1, <1>2
<1>. QED  BY <1>1, <1>3 DEF U16Bytes

(* A part of s is t if it is as long as t and agrees with it.              *)
LEMMA Part ==
  ASSUME NEW s \in Seq(Nat), NEW t \in Seq(Nat), NEW k \in Nat, k + Len(t) <= Len(s),
         \A i \in 1 .. Len(t) : s[k + i] = t[i]
  PROVE  SubSeq(s, k + 1, k + Len(t)) = t
<1>1. Len(t) \in Nat /\ Len(s) \in Nat
  OBVIOUS
<1>2. \A i \in k + 1 .. k + Len(t) : s[i] \in Nat
  BY <1>1
<1>3. /\ SubSeq(s, k + 1, k + Len(t)) \in Seq(Nat)
      /\ Len(SubSeq(s, k + 1, k + Len(t))) = IF k + 1 <= k + Len(t) THEN k + Len(t) - (k + 1) + 1 ELSE 0
      /\ \A i \in 1 .. k + Len(t) - (k + 1) + 1 : SubSeq(s, k + 1, k + Len(t))[i] = s[k + 1 + i - 1]
  <2>1. k + 1 \in Int /\ k + Len(t) \in Int
    BY <1>1
  <2>. QED  BY <1>2, <2>1, SubSeqProperties, SMT
<1>4. Len(SubSeq(s, k + 1, k + Len(t))) = Len(t)
  BY <1>1, <1>3
<1>5. \A i \in 1 .. Len(t) : SubSeq(s, k + 1, k + Len(t))[i] = t[i]
  BY <1>1, <1>3
<1>. QED  BY <1>3, <1>4, <1>5, SeqEqual, Zenon

(* What SubSeq returns.                                                    *)
LEMMA Slice ==
  ASSUME NEW s \in Seq(Nat), NEW i \in Nat, i > 0, NEW n \in Nat, i + n <= Len(s) + 1
  PROVE  LET t == SubSeq(s, i, (i + n) - 1) IN
         t \in Seq(Nat) /\ Len(t) = n /\ \A k \in 1 .. n : t[k] = s[(i - 1) + k]
<1>1. Len(s) \in Nat
  OBVIOUS
<1>2. \A k \in i .. (i + n) - 1 : s[k] \in Nat
  BY <1>1
<1>3. /\ SubSeq(s, i, (i + n) - 1) \in Seq(Nat)
      /\ Len(SubSeq(s, i, (i + n) - 1)) = IF i <= (i + n) - 1 THEN ((i + n) - 1) - i + 1 ELSE 0
      /\ \A k \in 1 .. ((i + n) - 1) - i + 1 : SubSeq(s, i, (i + n) - 1)[k] = s[i + k - 1]
  <2>1. i \in Int /\ (i + n) - 1 \in Int
    OBVIOUS
  <2>. QED  BY <1>2, <2>1, SubSeqProperties, SMTT(30)
<1>4. /\ ((i + n) - 1) - i + 1 = n /\ (IF i <= (i + n) - 1 THEN ((i + n) - 1) - i + 1 ELSE 0) = n
      /\ \A k \in 1 .. n : i + k - 1 = (i - 1) + k
  OBVIOUS
<1>. QED  BY <1>3, <1>4, Zenon

(* Octets are natural numbers.                                             *)
LEMMA OctetsAreNats == ASSUME NEW s \in Seq(Octet) PROVE s \in Seq(Nat)
<1>1. Octet \subseteq Nat
  BY DEF Octet
<1>. QED  BY <1>1, SeqMonotonic, Zenon

(* What recvfrom and getsockname can give: an address has the bytes of its *)
(* family.                                                                 *)
IsAddress(x) ==
  /\ x = [family |-> x.family, addr |-> x.addr, port |-> x.port, whole |-> x.whole]
  /\ x.family \in {"inet", "inet6", "unix"}
  /\ x.family \in {"inet", "inet6"} => x.addr \in Seq(Octet) /\ Len(x.addr) = AddrBytes(x.family)
  /\ x.port \in Nat /\ x.port <= UINT16_MAX /\ x.whole \in BOOLEAN

-----------------------------------------------------------------------------
(* The PROXY protocol v2 header.                                           *)

(* r is s with the uint16_t v behind it.                                   *)
Longer16(r, s, v) ==
  /\ r \in Seq(Nat) /\ Len(r) = Len(s) + 2
  /\ \A i \in 1 .. Len(s) : r[i] = s[i]
  /\ 256 * r[Len(s) + 1] + r[Len(s) + 2] = v

(* A uint16_t is read back behind whatever it was appended to.             *)
LEMMA Append16 ==
  ASSUME NEW s \in Seq(Nat), NEW v \in Nat, v <= UINT16_MAX
  PROVE  Longer16(s \o U16Bytes(v), s, v)
<1>1. /\ U16Bytes(v) \in Seq(Nat) /\ Len(U16Bytes(v)) = 2
      /\ 256 * U16Bytes(v)[1] + U16Bytes(v)[2] = v
  BY Uint16
<1>2. /\ s \o U16Bytes(v) \in Seq(Nat) /\ Len(s \o U16Bytes(v)) = Len(s) + Len(U16Bytes(v))
      /\ \A i \in 1 .. Len(s) : (s \o U16Bytes(v))[i] = s[i]
      /\ \A i \in 1 .. Len(U16Bytes(v)) : (s \o U16Bytes(v))[Len(s) + i] = U16Bytes(v)[i]
  BY <1>1, Cat, Zenon
<1>3. (s \o U16Bytes(v))[Len(s) + 1] = U16Bytes(v)[1] /\ (s \o U16Bytes(v))[Len(s) + 2] = U16Bytes(v)[2]
  BY <1>1, <1>2
<1>4. Len(s \o U16Bytes(v)) = Len(s) + 2
  BY <1>1, <1>2, Zenon
<1>. QED  BY <1>1, <1>2, <1>3, <1>4, Zenon DEF Longer16

(* What proxy_v2_build writes.                                             *)
Header(x, l, a, b, p, q) == SIG \o <<33, x>> \o U16Bytes(l) \o a \o b \o U16Bytes(p) \o U16Bytes(q)

(* The header h as its receiver takes it apart.                            *)
HasParts(h, x, l, n, a, b, p, q) ==
  /\ h \in Seq(Nat) /\ Len(h) = 20 + 2 * n /\ h[14] = x /\ U16At(h, 15) = l
  /\ SubSeq(h, 17, 17 + n - 1) = a /\ SubSeq(h, 17 + n, 17 + n + n - 1) = b
  /\ U16At(h, 17 + 2 * n) = p /\ U16At(h, 19 + 2 * n) = q

(* Every part of the header is where the receiver looks for it, whatever   *)
(* the length n of an address.                                             *)
LEMMA HeaderParts ==
  ASSUME NEW x \in Nat, NEW l \in Nat, l <= UINT16_MAX, NEW n \in Nat,
         NEW a \in Seq(Nat), Len(a) = n, NEW b \in Seq(Nat), Len(b) = n,
         NEW p \in Nat, p <= UINT16_MAX, NEW q \in Nat, q <= UINT16_MAX
  PROVE  HasParts(Header(x, l, a, b, p, q), x, l, n, a, b, p, q)
<1>. DEFINE h1 == SIG \o <<33, x>>
            h2 == h1 \o U16Bytes(l)
            h3 == h2 \o a
            h4 == h3 \o b
            h5 == h4 \o U16Bytes(p)
            h == Header(x, l, a, b, p, q)
<1>1. h1 \in Seq(Nat) /\ Len(h1) = 14 /\ h1[14] = x
  <2>1. SIG \in Seq(Nat) /\ Len(SIG) = 12
    BY DEF SIG
  <2>2. <<33, x>> \in Seq(Nat) /\ Len(<<33, x>>) = 2 /\ <<33, x>>[2] = x
    OBVIOUS
  <2>3. /\ h1 \in Seq(Nat) /\ Len(h1) = Len(SIG) + Len(<<33, x>>)
        /\ \A i \in 1 .. Len(<<33, x>>) : h1[Len(SIG) + i] = <<33, x>>[i]
    BY <2>1, <2>2, Cat, ZenonT(60)
  <2>. HIDE DEF h1
  <2>4. h1[12 + 2] = x
    BY <2>1, <2>2, <2>3
  <2>. QED  BY <2>1, <2>2, <2>3, <2>4
<1>. HIDE DEF h1
<1>2. h1 \in Seq(Nat)
  BY <1>1, Zenon
<1>3. /\ h2 \in Seq(Nat) /\ Len(h2) = Len(h1) + 2 /\ \A i \in 1 .. Len(h1) : h2[i] = h1[i]
      /\ 256 * h2[Len(h1) + 1] + h2[Len(h1) + 2] = l
  <2>1. Longer16(h2, h1, l)
    BY <1>2, Append16, Zenon
  <2>. HIDE DEF h2
  <2>. QED  BY <2>1, Zenon DEF Longer16
<1>. HIDE DEF h2
<1>4. h2 \in Seq(Nat)
  BY <1>3, Zenon
<1>5. /\ h3 \in Seq(Nat) /\ Len(h3) = Len(h2) + Len(a) /\ \A i \in 1 .. Len(h2) : h3[i] = h2[i]
      /\ \A i \in 1 .. Len(a) : h3[Len(h2) + i] = a[i]
  BY <1>4, Cat, Zenon
<1>. HIDE DEF h3
<1>6. h3 \in Seq(Nat)
  BY <1>5, Zenon
<1>7. /\ h4 \in Seq(Nat) /\ Len(h4) = Len(h3) + Len(b) /\ \A i \in 1 .. Len(h3) : h4[i] = h3[i]
      /\ \A i \in 1 .. Len(b) : h4[Len(h3) + i] = b[i]
  BY <1>6, Cat, Zenon
<1>. HIDE DEF h4
<1>8. h4 \in Seq(Nat)
  BY <1>7, Zenon
<1>9. /\ h5 \in Seq(Nat) /\ Len(h5) = Len(h4) + 2 /\ \A i \in 1 .. Len(h4) : h5[i] = h4[i]
      /\ 256 * h5[Len(h4) + 1] + h5[Len(h4) + 2] = p
  <2>1. Longer16(h5, h4, p)
    BY <1>8, Append16, Zenon
  <2>. HIDE DEF h5
  <2>. QED  BY <2>1, Zenon DEF Longer16
<1>. HIDE DEF h5
<1>10. h5 \in Seq(Nat)
  BY <1>9, Zenon
<1>. HIDE DEF h
<1>11. /\ h \in Seq(Nat) /\ Len(h) = Len(h5) + 2 /\ \A i \in 1 .. Len(h5) : h[i] = h5[i]
       /\ 256 * h[Len(h5) + 1] + h[Len(h5) + 2] = q
  <2>1. h = h5 \o U16Bytes(q)
    BY Zenon DEF Header, h, h1, h2, h3, h4, h5
  <2>2. Longer16(h5 \o U16Bytes(q), h5, q)
    BY <1>10, Append16, Zenon
  <2>. QED  BY <2>1, <2>2, Zenon DEF Longer16
<1>13. /\ Len(h2) = 16 /\ Len(h3) = 16 + n /\ Len(h4) = 16 + 2 * n /\ Len(h5) = 18 + 2 * n
       /\ Len(h) = 20 + 2 * n
  <2>1. Len(h2) = Len(h1) + 2 /\ Len(h1) = 14 /\ Len(h3) = Len(h2) + n /\ Len(h4) = Len(h3) + n
        /\ Len(h5) = Len(h4) + 2 /\ Len(h) = Len(h5) + 2
    BY <1>1, <1>3, <1>5, <1>7, <1>9, <1>11, Zenon
  <2>2. Len(h2) = 16
    BY <2>1
  <2>3. Len(h3) = 16 + n
    BY <2>1, <2>2, Zenon
  <2>4. Len(h4) = 16 + 2 * n
    <3>1. Len(h4) = Len(h3) + n /\ Len(h3) = 16 + n
      BY <2>1, <2>3, Zenon
    <3>. QED  BY <3>1
  <2>5. Len(h5) = 18 + 2 * n
    <3>1. Len(h5) = Len(h4) + 2 /\ Len(h4) = 16 + 2 * n
      BY <2>1, <2>4, Zenon
    <3>. QED  BY <3>1
  <2>6. Len(h) = 20 + 2 * n
    <3>1. Len(h) = Len(h5) + 2 /\ Len(h5) = 18 + 2 * n
      BY <2>1, <2>5, Zenon
    <3>. QED  BY <3>1
  <2>. QED  BY <2>2, <2>3, <2>4, <2>5, <2>6, Zenon
<1>14. \A i \in 1 .. 18 + 2 * n : h[i] = h5[i]
  BY <1>11, <1>13, Zenon
<1>15. \A i \in 1 .. 16 + 2 * n : h[i] = h4[i]
  <2>1. \A i \in 1 .. 16 + 2 * n : h5[i] = h4[i]
    BY <1>9, <1>13, Zenon
  <2>2. \A i \in 1 .. 16 + 2 * n : i \in 1 .. 18 + 2 * n
    OBVIOUS
  <2>. QED  BY <2>1, <2>2, <1>14, Zenon
<1>16. \A i \in 1 .. 16 + n : h[i] = h3[i]
  <2>1. \A i \in 1 .. 16 + n : h4[i] = h3[i]
    BY <1>7, <1>13, Zenon
  <2>2. \A i \in 1 .. 16 + n : i \in 1 .. 16 + 2 * n
    OBVIOUS
  <2>. QED  BY <2>1, <2>2, <1>15, Zenon
<1>17. \A i \in 1 .. 16 : h[i] = h2[i]
  <2>1. \A i \in 1 .. 16 : h3[i] = h2[i]
    BY <1>5, <1>13, Zenon
  <2>2. \A i \in 1 .. 16 : i \in 1 .. 16 + n
    OBVIOUS
  <2>. QED  BY <2>1, <2>2, <1>16, Zenon
<1>18. h[14] = x
  <2>1. \A i \in 1 .. 14 : h2[i] = h1[i]
    BY <1>1, <1>3, Zenon
  <2>2. h[14] = h2[14] /\ h2[14] = h1[14]
    BY <1>17, <2>1
  <2>. QED  BY <1>1, <2>2
<1>19. 256 * h[15] + h[16] = l
  <2>1. 256 * h2[15] + h2[16] = l
    <3>1. Len(h1) + 1 = 15 /\ Len(h1) + 2 = 16
      BY <1>1
    <3>. QED  BY <1>3, <3>1
  <2>2. h[15] = h2[15] /\ h[16] = h2[16]
    BY <1>17
  <2>. QED  BY <2>1, <2>2
<1>20. 256 * h[17 + 2 * n] + h[18 + 2 * n] = p
  <2>1. 256 * h5[17 + 2 * n] + h5[18 + 2 * n] = p
    <3>1. Len(h4) + 1 = 17 + 2 * n /\ Len(h4) + 2 = 18 + 2 * n
      BY <1>13
    <3>. QED  BY <1>9, <3>1
  <2>2. h[17 + 2 * n] = h5[17 + 2 * n] /\ h[18 + 2 * n] = h5[18 + 2 * n]
    <3>1. 17 + 2 * n \in 1 .. 18 + 2 * n /\ 18 + 2 * n \in 1 .. 18 + 2 * n
      OBVIOUS
    <3>. QED  BY <1>14, <3>1, Zenon
  <2>. QED  BY <2>1, <2>2
<1>21. 256 * h[19 + 2 * n] + h[20 + 2 * n] = q
  <2>1. Len(h5) + 1 = 19 + 2 * n /\ Len(h5) + 2 = 20 + 2 * n
    BY <1>13
  <2>. QED  BY <1>11, <2>1
<1>22. SubSeq(h, 16 + 1, 16 + Len(a)) = a
  <2>1. \A i \in 1 .. n : h3[16 + i] = a[i]
    BY <1>5, <1>13, Zenon
  <2>2. \A i \in 1 .. Len(a) : h[16 + i] = a[i]
    BY <1>16, <2>1, SMTT(30)
  <2>3. 16 \in Nat /\ 16 + Len(a) <= Len(h) /\ h \in Seq(Nat)
    BY <1>11, <1>13
  <2>. QED  BY <2>2, <2>3, Part, Zenon
<1>23. SubSeq(h, (16 + n) + 1, (16 + n) + Len(b)) = b
  <2>1. \A i \in 1 .. n : h4[(16 + n) + i] = b[i]
    BY <1>7, <1>13, Zenon
  <2>2. \A i \in 1 .. Len(b) : h[(16 + n) + i] = b[i]
    BY <1>15, <2>1, SMTT(30)
  <2>3. 16 + n \in Nat /\ (16 + n) + Len(b) <= Len(h) /\ h \in Seq(Nat)
    BY <1>11, <1>13
  <2>. QED  BY <2>2, <2>3, Part, Zenon
<1>24. 16 + 1 = 17 /\ 16 + Len(a) = 17 + n - 1 /\ (16 + n) + 1 = 17 + n /\ (16 + n) + Len(b) = 17 + n + n - 1
  OBVIOUS
<1>25. SubSeq(h, 17, 17 + n - 1) = a /\ SubSeq(h, 17 + n, 17 + n + n - 1) = b
  BY <1>22, <1>23, <1>24
<1>26. U16At(h, 15) = l
  <2>1. 15 + 1 = 16
    OBVIOUS
  <2>. QED  BY <1>19, <2>1, Zenon DEF U16At
<1>27. U16At(h, 17 + 2 * n) = p
  <2>1. (17 + 2 * n) + 1 = 18 + 2 * n
    OBVIOUS
  <2>. QED  BY <1>20, <2>1, Zenon DEF U16At
<1>28. U16At(h, 19 + 2 * n) = q
  <2>1. (19 + 2 * n) + 1 = 20 + 2 * n
    OBVIOUS
  <2>. QED  BY <1>21, <2>1, Zenon DEF U16At
<1>29. h \in Seq(Nat) /\ Len(h) = 20 + 2 * n
  BY <1>11, <1>13, Zenon
<1>. QED  BY <1>18, <1>25, <1>26, <1>27, <1>28, <1>29, Zenon DEF h, HasParts

(* proxy_v2_build: a receiver finds in the header the addresses and the    *)
(* protocol that were put in, and the payload right behind it; a header    *)
(* fits its buffer, and is refused for nothing but its inputs.             *)
THEOREM ProxyV2Whole ==
  ASSUME NEW buf \in Nat, NEW src, IsAddress(src), NEW dst, IsAddress(dst), NEW type \in {"stream", "dgram"},
         NEW len \in Nat
  PROVE  /\ ProxyHeaderReadable(buf, src, dst, type, len)
         /\ LET b == ProxyV2Build(buf, src, dst, type) IN b # <<>> => Len(b) = 20 + 2 * AddrBytes(src.family)
<1>. DEFINE n == AddrBytes(src.family)
            x == (IF src.family = "inet" THEN 16 ELSE 32) + (IF type = "stream" THEN 1 ELSE 2)
            l == 2 * n + 4
            b == ProxyV2Build(buf, src, dst, type)
            r == ProxyV2Receive(b, Len(b) + len)
            bad == \/ src.family # dst.family \/ src.family \notin {"inet", "inet6"}
                   \/ ~(src.whole /\ dst.whole) \/ buf < 16 + l
<1>1. n \in Nat /\ n <= 16 /\ l \in Nat /\ l <= UINT16_MAX /\ x \in Nat
  BY DEF AddrBytes, UINT16_MAX
<1>2. CASE bad
  <2>1. b = <<>>
    BY <1>2 DEF ProxyV2Build
  <2>2. \/ src.family # dst.family \/ src.family = "unix" \/ ~(src.whole /\ dst.whole)
        \/ buf < (IF src.family = "inet" THEN 28 ELSE 52)
    BY <1>1, <1>2 DEF IsAddress, AddrBytes
  <2>. QED  BY <2>1, <2>2, Zenon DEF ProxyHeaderReadable
<1>3. CASE ~bad
  <2>1. b = Header(x, l, src.addr, dst.addr, src.port, dst.port)
    BY <1>3, Zenon DEF ProxyV2Build, Header
  <2>2. /\ src.family = dst.family /\ src.family \in {"inet", "inet6"} /\ src.whole = TRUE /\ dst.whole = TRUE
        /\ buf >= 16 + l
    BY <1>1, <1>3 DEF IsAddress
  <2>3. /\ src.addr \in Seq(Nat) /\ Len(src.addr) = n /\ dst.addr \in Seq(Nat) /\ Len(dst.addr) = n
        /\ src.port \in Nat /\ src.port <= UINT16_MAX /\ dst.port \in Nat /\ dst.port <= UINT16_MAX
    BY <2>2, OctetsAreNats, Zenon DEF IsAddress
  <2>. HIDE DEF n, x, l, b, bad
  <2>4. HasParts(b, x, l, n, src.addr, dst.addr, src.port, dst.port)
    BY <1>1, <2>1, <2>3, HeaderParts, Zenon
  <2>5. (IF b[14] \div 16 = 1 THEN "inet" ELSE "inet6") = src.family
    <3>1. b[14] = x
      BY <2>4, Zenon DEF HasParts
    <3>. QED  BY <2>2, <3>1 DEF x
  <2>6. (IF b[14] % 16 = 1 THEN "stream" ELSE "dgram") = type
    <3>1. b[14] = x
      BY <2>4, Zenon DEF HasParts
    <3>. QED  BY <3>1 DEF x
  <2>7. /\ r.src = [family |-> src.family, addr |-> src.addr, port |-> src.port, whole |-> TRUE]
        /\ r.dst = [family |-> src.family, addr |-> dst.addr, port |-> dst.port, whole |-> TRUE]
        /\ r.type = type /\ r.payload = (Len(b) + len) - 16 - l
    <3>. DEFINE f == IF b[14] \div 16 = 1 THEN "inet" ELSE "inet6"
                t == IF b[14] % 16 = 1 THEN "stream" ELSE "dgram"
                m == AddrBytes(f)
    <3>1. r = [src |-> [family |-> f, addr |-> SubSeq(b, 17, 17 + m - 1),
                        port |-> U16At(b, 17 + 2 * m), whole |-> TRUE],
               dst |-> [family |-> f, addr |-> SubSeq(b, 17 + m, 17 + m + m - 1),
                        port |-> U16At(b, 19 + 2 * m), whole |-> TRUE],
               type |-> t, payload |-> (Len(b) + len) - 16 - U16At(b, 15)]
      BY Zenon DEF ProxyV2Receive
    <3>4. f = src.family /\ t = type
      BY <2>5, <2>6
    <3>. HIDE DEF f, t, r
    <3>5. m = n
      BY <3>4, Zenon DEF n
    <3>. HIDE DEF m
    <3>2. r = [src |-> [family |-> src.family, addr |-> SubSeq(b, 17, 17 + n - 1),
                        port |-> U16At(b, 17 + 2 * n), whole |-> TRUE],
               dst |-> [family |-> src.family, addr |-> SubSeq(b, 17 + n, 17 + n + n - 1),
                        port |-> U16At(b, 19 + 2 * n), whole |-> TRUE],
               type |-> type, payload |-> (Len(b) + len) - 16 - U16At(b, 15)]
      BY <3>1, <3>4, <3>5, Zenon
    <3>3. r = [src |-> [family |-> src.family, addr |-> src.addr, port |-> src.port, whole |-> TRUE],
               dst |-> [family |-> src.family, addr |-> dst.addr, port |-> dst.port, whole |-> TRUE],
               type |-> type, payload |-> (Len(b) + len) - 16 - l]
      BY <2>4, <3>2, Zenon DEF HasParts
    <3>. QED  BY <3>3
  <2>. HIDE DEF r
  <2>8. r.src = src /\ r.dst = dst
    BY <2>2, <2>7, Zenon DEF IsAddress
  <2>9. Len(b) = 20 + 2 * n
    BY <2>4, Zenon DEF HasParts
  <2>10. Len(b) <= buf /\ r.payload = len
    BY <1>1, <2>2, <2>7, <2>9, SMTT(30) DEF l
  <2>11. b # <<>>
    BY <1>1, <2>9
  <2>. QED  BY <2>7, <2>8, <2>9, <2>10, <2>11, Zenon DEF ProxyHeaderReadable, n, r, b
<1>. QED  BY <1>2, <1>3

(* send_datagram_payload_to_upstream: a datagram comes right behind its    *)
(* header, and what does not fit one datagram together with it is not      *)
(* sent.                                                                   *)
THEOREM ProxyV2Datagram ==
  ASSUME NEW src, IsAddress(src), NEW dst, IsAddress(dst), NEW len \in Nat
  PROVE  ProxyDatagramWhole(src, dst, len)
<1>. DEFINE d == SendToUpstream(src, dst, len)
            size == 256
            hdr == ProxyV2Build(size, src, dst, "dgram")
<1>. SUFFICES ASSUME d.sent PROVE d.total <= UDP_MAX_PACKET /\ ProxyV2Receive(d.hdr, d.total).payload = len
  BY Zenon DEF ProxyDatagramWhole
<1>. DEFINE bad == src.family # "inet" \/ dst.family # "inet" \/ hdr = <<>> \/ Len(hdr) + len > UDP_MAX_PACKET
<1>1. d = IF bad THEN [sent |-> FALSE, hdr |-> <<>>, total |-> 0]
          ELSE [sent |-> TRUE, hdr |-> hdr, total |-> Len(hdr) + len]
  BY Zenon DEF SendToUpstream
<1>2. ~bad
  <2>. HIDE DEF d, hdr, bad
  <2>. QED  BY <1>1
<1>3. d.hdr = hdr /\ d.total = Len(hdr) + len
  <2>. HIDE DEF d, hdr, bad
  <2>. QED  BY <1>1, <1>2
<1>4. /\ Len(hdr) = 20 + 2 * AddrBytes(src.family) /\ ProxyV2Receive(hdr, Len(hdr) + len).payload = len
  <2>1. size \in Nat /\ "dgram" \in {"stream", "dgram"}
    OBVIOUS
  <2>. HIDE DEF size
  <2>2. hdr # <<>>
    BY <1>2, Zenon
  <2>3. ProxyHeaderReadable(size, src, dst, "dgram", len) /\ Len(hdr) = 20 + 2 * AddrBytes(src.family)
    BY <2>1, <2>2, ProxyV2Whole, Zenon
  <2>. QED  BY <2>2, <2>3, Zenon DEF ProxyHeaderReadable
<1>5. AddrBytes(src.family) \in Nat
  BY DEF AddrBytes
<1>6. Len(hdr) + len <= UDP_MAX_PACKET
  <2>1. ~(Len(hdr) + len > UDP_MAX_PACKET)
    BY <1>2, Zenon
  <2>. HIDE DEF hdr
  <2>. QED  BY <1>4, <1>5, <2>1 DEF UDP_MAX_PACKET
<1>. HIDE DEF d, hdr
<1>. QED  BY <1>3, <1>4, <1>6, Zenon

-----------------------------------------------------------------------------
(* The checksum.                                                           *)

(* A set of natural numbers has a least element, which is what the         *)
(* inductions below rest on.                                               *)
LEMMA NatMin ==
  ASSUME NEW T \in SUBSET Nat, T # {}
  PROVE  \E n \in T : \A m \in T : n <= m
<1>1. PICK n \in T : \A m \in T : ~(<<m, n>> \in OpToRel(<, Nat))
  BY WFMin, NatLessThanWellFounded, Zenon
<1>2. ASSUME NEW m \in T PROVE n <= m
  <2>1. ~(m < n)
    <3>. SUFFICES ASSUME m < n PROVE FALSE
      BY Zenon
    <3>1. <<m, n>> \in Nat \X Nat /\ <<m, n>>[1] = m /\ <<m, n>>[2] = n
      OBVIOUS
    <3>2. <<m, n>> \in OpToRel(<, Nat)
      BY <3>1, Zenon DEF OpToRel
    <3>. QED  BY <1>1, <3>2, Zenon
  <2>. QED  BY <2>1
<1>. QED  BY <1>2, Zenon

(* Adding the carries to the low sixteen bits keeps a sum modulo 65535,    *)
(* and keeps it positive.                                                  *)
LEMMA FoldStep ==
  ASSUME NEW s \in Nat, s >= 65536
  PROVE  /\ Carry(s) # 0
         /\ Low(s) + Carry(s) \in Nat \ {0}
         /\ 1 + ((s - 1) % 65535) = 1 + (((Low(s) + Carry(s)) - 1) % 65535)
<1>. DEFINE q == Carry(s)
            r == Low(s)
<1>1. s = 65536 * q + r /\ q \in Nat \ {0} /\ r \in Nat /\ r < 65536
  <2>1. s = 65536 * q + r
    BY SMT DEF Carry, Low
  <2>2. r \in Nat /\ r < 65536
    BY SMT DEF Low
  <2>3. q \in Int
    BY SMT DEF Carry
  <2>. HIDE DEF q, r
  <2>. QED  BY <2>1, <2>2, <2>3, SMT
<1>. HIDE DEF q, r
<1>2. \A a \in Nat, k \in Nat : (a + 65535 * k) % 65535 = a % 65535
  BY SMT
<1>3. s - 1 = ((r + q) - 1) + 65535 * q /\ (r + q) - 1 \in Nat
  BY <1>1, SMT
<1>4. (s - 1) % 65535 = ((r + q) - 1) % 65535
  BY <1>2, <1>3, <1>1, SMT
<1>5. r + q \in Nat \ {0} /\ q # 0
  BY <1>1, SMT
<1>. QED  BY <1>4, <1>5, SMT DEF q, r

(* There is a function that satisfies the recursion of FoldCarries.        *)
LEMMA FoldDefined ==
  \E f : f = [s \in Nat |-> IF Carry(s) = 0 THEN s ELSE f[Low(s) + Carry(s)]]
<1>. DEFINE g == [s \in Nat |-> IF s = 0 THEN 0 ELSE 1 + ((s - 1) % 65535)]
            h == [s \in Nat |-> IF Carry(s) = 0 THEN s ELSE g[Low(s) + Carry(s)]]
<1>1. ASSUME NEW s \in Nat, s < 65536 PROVE Carry(s) = 0 /\ g[s] = s
  <2>1. Carry(s) = 0
    BY <1>1, SMT DEF Carry
  <2>2. CASE s = 0
    BY <2>1, <2>2, SMT
  <2>3. CASE s # 0
    <3>1. s - 1 \in Nat /\ s - 1 < 65535
      BY <1>1, <2>3, SMT
    <3>2. (s - 1) % 65535 = s - 1
      BY <3>1, SMT
    <3>. QED  BY <2>1, <2>3, <3>2, SMT
  <2>. QED  BY <2>2, <2>3, SMT
<1>2. \A s \in Nat : s >= 65536 => Carry(s) # 0 /\ g[s] = g[Low(s) + Carry(s)]
  BY FoldStep, SMT
<1>3. ASSUME NEW s \in Nat PROVE g[s] = h[s]
  <2>. HIDE DEF g
  <2>. QED  BY <1>1, <1>2, SMT
<1>4. g = [s \in Nat |-> g[s]] /\ h = [s \in Nat |-> h[s]]
  BY SMT
<1>5. g = h
  <2>. HIDE DEF g, h
  <2>. QED  BY <1>3, <1>4, Zenon
<1>. HIDE DEF g
<1>. WITNESS g
<1>. QED  BY <1>5, SMT

(* The second loop of checksum16, unfolded.                                *)
LEMMA FoldUnfolds ==
  ASSUME NEW s \in Nat
  PROVE  /\ s < 65536 => FoldCarries[s] = s
         /\ s >= 65536 => FoldCarries[s] = FoldCarries[Low(s) + Carry(s)]
<1>1. FoldCarries = [n \in Nat |-> IF Carry(n) = 0 THEN n ELSE FoldCarries[Low(n) + Carry(n)]]
  BY FoldDefined, Zenon DEF FoldCarries
<1>2. FoldCarries[s] = IF Carry(s) = 0 THEN s ELSE FoldCarries[Low(s) + Carry(s)]
  BY <1>1, Zenon
<1>3. s < 65536 => Carry(s) = 0
  BY SMT DEF Carry
<1>4. s >= 65536 => Carry(s) # 0
  BY FoldStep, SMT
<1>. QED  BY <1>2, <1>3, <1>4, SMT

(* f is s folded to sixteen bits.                                          *)
Folded(s, f) == f \in Nat /\ f > 0 /\ f <= 65535 /\ \E k \in Nat : s = f + 65535 * k

(* A sum that two rounds of the loop fold.                                 *)
InReach(s) == s \in Nat /\ s > 0 /\ s < 1048576

(* The loop folds such a sum.                                              *)
LEMMA FoldValue == ASSUME NEW s, InReach(s) PROVE Folded(s, FoldCarries[s])
<1>. s \in Nat /\ s > 0 /\ s < 1048576
  BY SMT DEF InReach
<1>1. ASSUME NEW t \in Nat, t > 0, t < 65536
      PROVE  Folded(t, FoldCarries[t])
  <2>1. FoldCarries[t] = t /\ t = t + 65535 * 0
    BY <1>1, FoldUnfolds, SMT
  <2>. QED  BY <1>1, <2>1, SMT DEF Folded
<1>2. CASE s < 65536
  BY <1>1, <1>2, SMT
<1>3. CASE s >= 65536
  <2>. DEFINE q == Carry(s)
              r == Low(s)
  <2>1. s = 65536 * q + r /\ q \in Nat /\ q > 0 /\ q < 16 /\ r \in Nat /\ r < 65536
    <3>1. s = 65536 * q + r
      BY SMT DEF Carry, Low
    <3>2. r \in Nat /\ r < 65536
      BY SMT DEF Low
    <3>3. q \in Int
      BY SMT DEF Carry
    <3>. HIDE DEF q, r
    <3>. QED  BY <1>3, <3>1, <3>2, <3>3, SMT
  <2>2. FoldCarries[s] = FoldCarries[r + q]
    BY <1>3, FoldUnfolds, SMT
  <2>. HIDE DEF q, r
  <2>3. r + q \in Nat /\ r + q > 0 /\ s = (r + q) + 65535 * q
    BY <2>1, SMT
  <2>4. CASE r + q < 65536
    <3>1. FoldCarries[r + q] = r + q
      BY <2>3, <2>4, FoldUnfolds, SMT
    <3>. QED  BY <2>1, <2>2, <2>3, <2>4, <3>1, SMT DEF Folded
  <2>5. CASE r + q >= 65536
    <3>1. Carry(r + q) = 1 /\ Low(r + q) = (r + q) - 65536
      BY <2>1, <2>5, SMT DEF Carry, Low
    <3>2. FoldCarries[r + q] = FoldCarries[((r + q) - 65536) + 1]
      BY <2>3, <2>5, <3>1, FoldUnfolds, SMT
    <3>3. ((r + q) - 65536) + 1 \in Nat /\ ((r + q) - 65536) + 1 < 65536 /\ ((r + q) - 65536) + 1 > 0
      BY <2>1, <2>5, SMT
    <3>4. FoldCarries[((r + q) - 65536) + 1] = ((r + q) - 65536) + 1
      BY <3>3, FoldUnfolds, SMT
    <3>5. s = FoldCarries[s] + 65535 * (q + 1) /\ q + 1 \in Nat
      BY <2>1, <2>2, <2>3, <3>2, <3>4, SMT
    <3>. QED  BY <2>2, <3>2, <3>3, <3>4, <3>5, SMT DEF Folded
  <2>. QED  BY <2>3, <2>4, <2>5, SMT
<1>. QED  BY <1>2, <1>3, SMT

(* What the words of a header can sum up to.                               *)
HeaderSum(s) == s \in Nat /\ s > 0 /\ s < 900000

(* A sum and the complement of what it folds to fold to all ones.          *)
LEMMA FoldsToOnes ==
  ASSUME NEW s, HeaderSum(s)
  PROVE  LET f == FoldCarries[s] IN
         f \in Nat /\ f > 0 /\ f <= 65535 /\ FoldCarries[s + (65535 - f)] = 65535
<1>. DEFINE f == FoldCarries[s]
            t == s + (65535 - f)
            g == FoldCarries[t]
<1>1. Folded(s, f)
  <2>1. InReach(s)
    BY SMT DEF InReach, HeaderSum
  <2>. QED  BY <2>1, FoldValue, Zenon
<1>. HIDE DEF f, g
<1>2. f \in Nat /\ f > 0 /\ f <= 65535
  BY <1>1, SMT DEF Folded
<1>3. PICK k \in Nat : s = f + 65535 * k
  BY <1>1, SMT DEF Folded
<1>4. t = 65535 * k + 65535
  BY <1>2, <1>3, SMT
<1>5. InReach(t)
  <2>1. s \in Nat /\ s > 0 /\ s < 900000
    BY SMT DEF HeaderSum
  <2>2. t \in Nat /\ t > 0
    BY <1>2, <2>1, SMT
  <2>3. t < 1048576
    BY <1>2, <2>1, SMT
  <2>. QED  BY <2>2, <2>3, SMT DEF InReach
<1>. HIDE DEF t
<1>9. Folded(t, g)
  BY <1>5, FoldValue, Zenon DEF g
<1>6. g \in Nat /\ g > 0 /\ g <= 65535
  BY <1>9, SMT DEF Folded
<1>7. PICK j \in Nat : t = g + 65535 * j
  BY <1>9, SMT DEF Folded
<1>8. g = 65535
  BY <1>4, <1>6, <1>7, SMT
<1>. QED  BY <1>2, <1>8, SMT DEF f, g, t

(* There is a function that satisfies the recursion of WordSums.           *)
LEMMA SumsDefined ==
  ASSUME NEW w, Len(w) \in Nat, NEW n \in 0 .. Len(w)
  PROVE  \E f : f = [m \in 0 .. n |-> IF m = 0 THEN 0 ELSE f[m - 1] + w[m]]
<1>. DEFINE Sums(k, f) == f = [m \in 0 .. k |-> IF m = 0 THEN 0 ELSE f[m - 1] + w[m]]
            T == {k \in Nat : k <= Len(w) /\ ~\E f : Sums(k, f)}
<1>1. T = {}
  <2>. SUFFICES ASSUME T # {} PROVE FALSE
    BY Zenon
  <2>1. PICK k \in T : \A j \in T : k <= j
    <3>1. T \in SUBSET Nat
      BY Zenon
    <3>. HIDE DEF T
    <3>. QED  BY <3>1, NatMin, Zenon
  <2>2. k \in Nat /\ k <= Len(w) /\ ~\E f : Sums(k, f)
    BY Zenon
  <2>. HIDE DEF Sums
  <2>3. CASE k = 0
    <3>. DEFINE g == [m \in 0 .. 0 |-> 0]
    <3>1. Sums(0, g)
      BY DEF Sums
    <3>. QED  BY <2>2, <2>3, <3>1, Zenon
  <2>4. CASE k # 0
    <3>1. k - 1 \in Nat /\ k - 1 <= Len(w) /\ ~(k <= k - 1)
      BY <2>2, <2>4
    <3>2. PICK f : Sums(k - 1, f)
      BY <2>1, <3>1, Zenon
    <3>. DEFINE g == [m \in 0 .. k |-> IF m = k THEN f[k - 1] + w[k] ELSE f[m]]
    <3>3. \A m \in 0 .. k - 1 : g[m] = f[m] /\ f[m] = IF m = 0 THEN 0 ELSE f[m - 1] + w[m]
      BY <2>2, <2>4, <3>2 DEF Sums
    <3>4. g[k] = g[k - 1] + w[k]
      BY <2>2, <2>4
    <3>5. \A m \in 0 .. k : g[m] = IF m = 0 THEN 0 ELSE g[m - 1] + w[m]
      <4>. HIDE DEF g
      <4>. QED  BY <2>2, <2>4, <3>3, <3>4
    <3>6. g = [m \in 0 .. k |-> g[m]]
      BY Zenon
    <3>. HIDE DEF g
    <3>7. Sums(k, g)
      BY <3>5, <3>6, Zenon DEF Sums
    <3>. QED  BY <2>2, <3>7, Zenon
  <2>. QED  BY <2>3, <2>4, Zenon
<1>2. n \in Nat /\ n <= Len(w)
  OBVIOUS
<1>. QED  BY <1>1, <1>2, Zenon

(* The first loop of checksum16, unfolded.                                 *)
LEMMA SumsUnfold ==
  ASSUME NEW w, Len(w) \in Nat
  PROVE  /\ WordSums(w)[0] = 0
         /\ \A n \in 1 .. Len(w) : WordSums(w)[n] = WordSums(w)[n - 1] + w[n]
<1>1. Len(w) \in 0 .. Len(w)
  OBVIOUS
<1>2. \E f : f = [m \in 0 .. Len(w) |-> IF m = 0 THEN 0 ELSE f[m - 1] + w[m]]
  BY <1>1, SumsDefined, Zenon
<1>3. WordSums(w) = [m \in 0 .. Len(w) |-> IF m = 0 THEN 0 ELSE WordSums(w)[m - 1] + w[m]]
  BY <1>2, Zenon DEF WordSums
<1>. QED  BY <1>3

(* The sum of ten words.                                                   *)
LEMMA SumOfTen ==
  ASSUME NEW w, Len(w) = 10, \A n \in 1 .. 10 : w[n] \in Nat
  PROVE  WordSums(w)[10] = w[1] + w[2] + w[3] + w[4] + w[5] + w[6] + w[7] + w[8] + w[9] + w[10]
<1>. DEFINE S(n) == WordSums(w)[n]
<1>1. S(0) = 0 /\ \A n \in 1 .. 10 : S(n) = S(n - 1) + w[n]
  <2>1. Len(w) \in Nat
    OBVIOUS
  <2>2. WordSums(w)[0] = 0 /\ \A n \in 1 .. Len(w) : WordSums(w)[n] = WordSums(w)[n - 1] + w[n]
    BY <2>1, SumsUnfold, Zenon
  <2>. QED  BY <2>2, Zenon
<1>. HIDE DEF S
<1>2. /\ S(1) = S(0) + w[1] /\ S(2) = S(1) + w[2] /\ S(3) = S(2) + w[3] /\ S(4) = S(3) + w[4]
      /\ S(5) = S(4) + w[5] /\ S(6) = S(5) + w[6] /\ S(7) = S(6) + w[7] /\ S(8) = S(7) + w[8]
      /\ S(9) = S(8) + w[9] /\ S(10) = S(9) + w[10]
  <2>1. S(1) = S(0) + w[1]
    BY <1>1
  <2>2. S(2) = S(1) + w[2]
    BY <1>1
  <2>3. S(3) = S(2) + w[3]
    BY <1>1
  <2>4. S(4) = S(3) + w[4]
    BY <1>1
  <2>5. S(5) = S(4) + w[5]
    BY <1>1
  <2>6. S(6) = S(5) + w[6]
    BY <1>1
  <2>7. S(7) = S(6) + w[7]
    BY <1>1
  <2>8. S(8) = S(7) + w[8]
    BY <1>1
  <2>9. S(9) = S(8) + w[9]
    BY <1>1
  <2>10. S(10) = S(9) + w[10]
    BY <1>1
  <2>. QED  BY <2>1, <2>2, <2>3, <2>4, <2>5, <2>6, <2>7, <2>8, <2>9, <2>10, Zenon
<1>3. /\ w[1] \in Nat /\ w[2] \in Nat /\ w[3] \in Nat /\ w[4] \in Nat /\ w[5] \in Nat
      /\ w[6] \in Nat /\ w[7] \in Nat /\ w[8] \in Nat /\ w[9] \in Nat /\ w[10] \in Nat
  OBVIOUS
<1>4. S(10) = w[1] + w[2] + w[3] + w[4] + w[5] + w[6] + w[7] + w[8] + w[9] + w[10]
  BY <1>1, <1>2, <1>3
<1>. QED  BY <1>4 DEF S

-----------------------------------------------------------------------------
(* The headers of a reply in the name of the upstream.                     *)

(* The bytes of an IPv4 header with length l, checksum s and addresses a   *)
(* and b.                                                                  *)
IpBytes(h, l, s, a, b) ==
  /\ h[1] = 69 /\ h[2] = 0 /\ U16At(h, 3) = l
  /\ h[5] = 0 /\ h[6] = 0 /\ h[7] = 0 /\ h[8] = 0 /\ h[9] = 64 /\ h[10] = 17 /\ U16At(h, 11) = s
  /\ \A i \in 1 .. 4 : h[12 + i] = a[i] /\ h[16 + i] = b[i]

IpParts(h, l, s, a, b) == h \in Seq(Nat) /\ Len(h) = 20 /\ IpBytes(h, l, s, a, b)

AddrSum(a) == U16At(a, 1) + U16At(a, 3)

PartsSum(l, s, a, b) == 17664 + l + 16401 + s + AddrSum(a) + AddrSum(b)

Octets4(a) == \A i \in 1 .. 4 : a[i] \in Nat /\ a[i] <= 255

(* The words of a header sum up to the sum of its parts.                   *)
LEMMA HeaderSums ==
  ASSUME NEW h, NEW l \in Nat, NEW s \in Nat, NEW a, Octets4(a), NEW b, Octets4(b), IpParts(h, l, s, a, b)
  PROVE  Len(Words(h)) = 10 /\ WordSums(Words(h))[10] = PartsSum(l, s, a, b)
<1>. DEFINE w == Words(h)
<1>1. /\ h \in Seq(Nat) /\ Len(h) = 20
  BY Zenon DEF IpParts
<1>2. w = [n \in 1 .. 10 |-> 256 * h[2 * n - 1] + (IF 2 * n <= 20 THEN h[2 * n] ELSE 0)]
  <2>1. (20 + 1) \div 2 = 10
    OBVIOUS
  <2>. QED  BY <1>1, <2>1, ZenonT(60) DEF Words
<1>. HIDE DEF w
<1>3. \A n \in 1 .. 10 : w[n] = U16At(h, 2 * n - 1)
  <2>1. \A n \in 1 .. 10 : w[n] = 256 * h[2 * n - 1] + (IF 2 * n <= 20 THEN h[2 * n] ELSE 0)
    BY <1>2, Zenon
  <2>2. \A n \in 1 .. 10 : (2 * n - 1) + 1 = 2 * n /\ 2 * n <= 20
    OBVIOUS
  <2>. QED  BY <2>1, <2>2 DEF U16At
<1>4. Len(w) = 10
  BY <1>2
<1>5. /\ w[1] = U16At(h, 1) /\ w[2] = U16At(h, 3) /\ w[3] = U16At(h, 5) /\ w[4] = U16At(h, 7)
      /\ w[5] = U16At(h, 9) /\ w[6] = U16At(h, 11) /\ w[7] = U16At(h, 13) /\ w[8] = U16At(h, 15)
      /\ w[9] = U16At(h, 17) /\ w[10] = U16At(h, 19)
  BY <1>3
<1>6. /\ h[1] = 69 /\ h[2] = 0 /\ h[5] = 0 /\ h[6] = 0 /\ h[7] = 0 /\ h[8] = 0 /\ h[9] = 64 /\ h[10] = 17
      /\ U16At(h, 3) = l /\ U16At(h, 11) = s
  BY Zenon DEF IpParts, IpBytes
<1>7. U16At(h, 1) = 17664 /\ U16At(h, 5) = 0 /\ U16At(h, 7) = 0 /\ U16At(h, 9) = 16401
  BY <1>6, SMT DEF U16At
<1>8. /\ h[13] = a[1] /\ h[14] = a[2] /\ h[15] = a[3] /\ h[16] = a[4]
      /\ h[17] = b[1] /\ h[18] = b[2] /\ h[19] = b[3] /\ h[20] = b[4]
  <2>1. \A i \in 1 .. 4 : h[12 + i] = a[i] /\ h[16 + i] = b[i]
    BY Zenon DEF IpParts, IpBytes
  <2>. QED  BY <2>1
<1>9. /\ U16At(h, 13) = U16At(a, 1) /\ U16At(h, 15) = U16At(a, 3)
      /\ U16At(h, 17) = U16At(b, 1) /\ U16At(h, 19) = U16At(b, 3)
  BY <1>8 DEF U16At
<1>10. U16At(a, 1) \in Nat /\ U16At(a, 3) \in Nat /\ U16At(b, 1) \in Nat /\ U16At(b, 3) \in Nat
  <2>2. /\ a[1] \in Nat /\ a[2] \in Nat /\ a[3] \in Nat /\ a[4] \in Nat
        /\ b[1] \in Nat /\ b[2] \in Nat /\ b[3] \in Nat /\ b[4] \in Nat
    BY DEF Octets4
  <2>. QED  BY <2>2 DEF U16At
<1>11. \A n \in 1 .. 10 : w[n] \in Nat
  <2>1. \A i \in 1 .. 20 : h[i] \in Nat
    BY <1>1, ElementOfSeq, Zenon
  <2>2. ASSUME NEW n \in 1 .. 10 PROVE w[n] \in Nat
    <3>1. h[2 * n - 1] \in Nat /\ h[(2 * n - 1) + 1] \in Nat
      BY <2>1
    <3>. QED  BY <1>3, <3>1 DEF U16At
  <2>. QED  BY <2>2, Zenon
<1>12. WordSums(w)[10] = w[1] + w[2] + w[3] + w[4] + w[5] + w[6] + w[7] + w[8] + w[9] + w[10]
  BY <1>4, <1>11, SumOfTen, Zenon
<1>13. WordSums(w)[10] = 17664 + l + 0 + 0 + 16401 + s + U16At(a, 1) + U16At(a, 3) + U16At(b, 1) + U16At(b, 3)
  BY <1>5, <1>6, <1>7, <1>9, <1>12, SMT
<1>14. WordSums(w)[10] = PartsSum(l, s, a, b)
  BY <1>10, <1>13, SMT DEF PartsSum, AddrSum
<1>. QED  BY <1>4, <1>14, Zenon DEF w

(* r is made of s, of length m, and t, of length n.                        *)
Joined(r, s, t, m, n) == /\ \A i \in 1 .. m : r[i] = s[i]
                         /\ \A i \in 1 .. n : r[m + i] = t[i]

(* Concatenation joins its arguments.                                      *)
LEMMA Join ==
  ASSUME NEW s \in Seq(Nat), NEW t \in Seq(Nat), NEW m, Len(s) = m, NEW n, Len(t) = n
  PROVE  s \o t \in Seq(Nat) /\ Len(s \o t) = m + n /\ Joined(s \o t, s, t, m, n)
  BY Cat, Zenon DEF Joined

(* The header h5, put together from left to right.                         *)
IpChain(p1, p2, lb, l, sum, a, b, h1, h2, h3, h4, h5) ==
  /\ p1[1] = 69 /\ p1[2] = 0 /\ 256 * lb[1] + lb[2] = l
  /\ p2[1] = 0 /\ p2[2] = 0 /\ p2[3] = 0 /\ p2[4] = 0 /\ p2[5] = 64 /\ p2[6] = 17
  /\ Joined(h1, p1, lb, 2, 2) /\ Joined(h2, h1, p2, 4, 6) /\ Joined(h3, h2, sum, 10, 2)
  /\ Joined(h4, h3, a, 12, 4) /\ Joined(h5, h4, b, 16, 4)

(* What is put together that way is a header.                              *)
LEMMA JoinedBytes ==
  ASSUME NEW p1, NEW p2, NEW lb, NEW l, NEW sum, NEW a, NEW b, NEW h1, NEW h2, NEW h3, NEW h4, NEW h5,
         IpChain(p1, p2, lb, l, sum, a, b, h1, h2, h3, h4, h5)
  PROVE  IpBytes(h5, l, U16At(sum, 1), a, b)
<1>. /\ p1[1] = 69 /\ p1[2] = 0 /\ 256 * lb[1] + lb[2] = l
     /\ p2[1] = 0 /\ p2[2] = 0 /\ p2[3] = 0 /\ p2[4] = 0 /\ p2[5] = 64 /\ p2[6] = 17
     /\ Joined(h1, p1, lb, 2, 2) /\ Joined(h2, h1, p2, 4, 6) /\ Joined(h3, h2, sum, 10, 2)
     /\ Joined(h4, h3, a, 12, 4) /\ Joined(h5, h4, b, 16, 4)
  BY Zenon DEF IpChain
<1>1. /\ \A i \in 1 .. 16 : h5[i] = h4[i]
      /\ \A i \in 1 .. 4 : h5[16 + i] = b[i]
  BY Zenon DEF Joined
<1>2. /\ \A i \in 1 .. 12 : h5[i] = h3[i]
      /\ \A i \in 1 .. 4 : h5[12 + i] = a[i]
  <2>1. /\ \A i \in 1 .. 12 : h4[i] = h3[i]
        /\ \A i \in 1 .. 4 : h4[12 + i] = a[i]
    BY Zenon DEF Joined
  <2>. QED  BY <1>1, <2>1
<1>3. /\ \A i \in 1 .. 10 : h5[i] = h2[i]
      /\ h5[11] = sum[1] /\ h5[12] = sum[2]
  <2>1. /\ \A i \in 1 .. 10 : h3[i] = h2[i]
        /\ \A i \in 1 .. 2 : h3[10 + i] = sum[i]
    BY Zenon DEF Joined
  <2>. QED  BY <1>2, <2>1
<1>4. /\ \A i \in 1 .. 4 : h5[i] = h1[i]
      /\ h5[5] = 0 /\ h5[6] = 0 /\ h5[7] = 0 /\ h5[8] = 0 /\ h5[9] = 64 /\ h5[10] = 17
  <2>1. /\ \A i \in 1 .. 4 : h2[i] = h1[i]
        /\ \A i \in 1 .. 6 : h2[4 + i] = p2[i]
    BY Zenon DEF Joined
  <2>. QED  BY <1>3, <2>1
<1>5. h5[1] = 69 /\ h5[2] = 0 /\ h5[3] = lb[1] /\ h5[4] = lb[2]
  <2>1. /\ \A i \in 1 .. 2 : h1[i] = p1[i]
        /\ \A i \in 1 .. 2 : h1[2 + i] = lb[i]
    BY Zenon DEF Joined
  <2>. QED  BY <1>4, <2>1
<1>6. U16At(h5, 3) = l
  BY <1>5 DEF U16At
<1>7. U16At(h5, 11) = U16At(sum, 1)
  BY <1>3 DEF U16At
<1>8. \A i \in 1 .. 4 : h5[12 + i] = a[i] /\ h5[16 + i] = b[i]
  BY <1>1, <1>2, Zenon
<1>. QED  BY <1>4, <1>5, <1>6, <1>7, <1>8, Zenon DEF IpBytes

(* IpHeader has its parts where IPv4 has them.                             *)
LEMMA IpHeaderParts ==
  ASSUME NEW src, NEW dst, NEW len \in Nat, 28 + len <= UINT16_MAX,
         src.addr \in Seq(Nat), Len(src.addr) = 4, dst.addr \in Seq(Nat), Len(dst.addr) = 4,
         NEW sum \in Seq(Nat), Len(sum) = 2
  PROVE  LET h == IpHeader(src, dst, len, sum) IN
         IpParts(h, 28 + len, U16At(sum, 1), src.addr, dst.addr) /\ h[11] = sum[1] /\ h[12] = sum[2]
<1>. DEFINE l == 28 + len
            lb == U16Bytes(l)
            p1 == <<69, 0>>
            p2 == <<0, 0, 0, 0, 64, 17>>
            h1 == p1 \o lb
            h2 == h1 \o p2
            h3 == h2 \o sum
            h4 == h3 \o src.addr
            h5 == h4 \o dst.addr
<1>1. lb \in Seq(Nat) /\ Len(lb) = 2 /\ 256 * lb[1] + lb[2] = l
  <2>1. l \in Nat /\ l <= UINT16_MAX
    OBVIOUS
  <2>. QED  BY <2>1, Uint16, ZenonT(60)
<1>2. p1 \in Seq(Nat) /\ Len(p1) = 2 /\ p1[1] = 69 /\ p1[2] = 0
  OBVIOUS
<1>3. /\ p2 \in Seq(Nat) /\ Len(p2) = 6
      /\ p2[1] = 0 /\ p2[2] = 0 /\ p2[3] = 0 /\ p2[4] = 0 /\ p2[5] = 64 /\ p2[6] = 17
  OBVIOUS
<1>4. h5 = IpHeader(src, dst, len, sum)
  BY Zenon DEF IpHeader
<1>. HIDE DEF l, lb, p1, p2
<1>5. h1 \in Seq(Nat) /\ Len(h1) = 4 /\ Joined(h1, p1, lb, 2, 2)
  <2>1. h1 \in Seq(Nat) /\ Len(h1) = 2 + 2 /\ Joined(h1, p1, lb, 2, 2)
    BY <1>1, <1>2, Join, Zenon
  <2>. QED  BY <2>1
<1>. HIDE DEF h1
<1>6. h2 \in Seq(Nat) /\ Len(h2) = 10 /\ Joined(h2, h1, p2, 4, 6)
  <2>1. h2 \in Seq(Nat) /\ Len(h2) = 4 + 6 /\ Joined(h2, h1, p2, 4, 6)
    BY <1>3, <1>5, Join, Zenon
  <2>. QED  BY <2>1
<1>. HIDE DEF h2
<1>7. h3 \in Seq(Nat) /\ Len(h3) = 12 /\ Joined(h3, h2, sum, 10, 2)
  <2>1. h3 \in Seq(Nat) /\ Len(h3) = 10 + 2 /\ Joined(h3, h2, sum, 10, 2)
    BY <1>6, Join, Zenon
  <2>. QED  BY <2>1
<1>. HIDE DEF h3
<1>8. h4 \in Seq(Nat) /\ Len(h4) = 16 /\ Joined(h4, h3, src.addr, 12, 4)
  <2>1. h4 \in Seq(Nat) /\ Len(h4) = 12 + 4 /\ Joined(h4, h3, src.addr, 12, 4)
    BY <1>7, Join, Zenon
  <2>. QED  BY <2>1
<1>. HIDE DEF h4
<1>9. h5 \in Seq(Nat) /\ Len(h5) = 20 /\ Joined(h5, h4, dst.addr, 16, 4)
  <2>1. h5 \in Seq(Nat) /\ Len(h5) = 16 + 4 /\ Joined(h5, h4, dst.addr, 16, 4)
    BY <1>8, Join, Zenon
  <2>. QED  BY <2>1
<1>. HIDE DEF h5
<1>10. IpBytes(h5, l, U16At(sum, 1), src.addr, dst.addr) /\ h5[11] = sum[1] /\ h5[12] = sum[2]
  <2>1. IpChain(p1, p2, lb, l, sum, src.addr, dst.addr, h1, h2, h3, h4, h5)
    BY <1>1, <1>2, <1>3, <1>5, <1>6, <1>7, <1>8, <1>9, Zenon DEF IpChain
  <2>2. IpBytes(h5, l, U16At(sum, 1), src.addr, dst.addr)
    BY <2>1, JoinedBytes, Zenon
  <2>3. h5[11] = sum[1] /\ h5[12] = sum[2]
    <3>1. /\ \A i \in 1 .. 16 : h5[i] = h4[i]
          /\ \A i \in 1 .. 12 : h4[i] = h3[i]
          /\ \A i \in 1 .. 2 : h3[10 + i] = sum[i]
      BY <2>1, Zenon DEF IpChain, Joined
    <3>2. h5[11] = h4[11] /\ h5[12] = h4[12] /\ h4[11] = h3[11] /\ h4[12] = h3[12]
      BY <3>1
    <3>3. h3[11] = sum[1] /\ h3[12] = sum[2]
      BY <3>1
    <3>. QED  BY <3>2, <3>3, Zenon
  <2>. QED  BY <2>2, <2>3, Zenon
<1>. QED  BY <1>4, <1>9, <1>10, Zenon DEF IpParts, l

UdpBytes(h, p, q, l) == U16At(h, 1) = p /\ U16At(h, 3) = q /\ U16At(h, 5) = l

(* UdpHeader has its parts where UDP has them.                             *)
LEMMA UdpHeaderParts ==
  ASSUME NEW src, NEW dst, NEW len \in Nat, 28 + len <= UINT16_MAX,
         src.port \in Nat, src.port <= UINT16_MAX, dst.port \in Nat, dst.port <= UINT16_MAX
  PROVE  LET u == UdpHeader(src, dst, len) IN
         u \in Seq(Nat) /\ Len(u) = 8 /\ UdpBytes(u, src.port, dst.port, 8 + len)
<1>. DEFINE l == 8 + len
            u1 == U16Bytes(src.port)
            u2 == U16Bytes(dst.port)
            u3 == U16Bytes(l)
            u4 == <<0, 0>>
            h1 == u1 \o u2
            h2 == h1 \o u3
            h3 == h2 \o u4
<1>1. u1 \in Seq(Nat) /\ Len(u1) = 2 /\ 256 * u1[1] + u1[2] = src.port
  BY Uint16, ZenonT(60)
<1>2. u2 \in Seq(Nat) /\ Len(u2) = 2 /\ 256 * u2[1] + u2[2] = dst.port
  BY Uint16, ZenonT(60)
<1>3. u3 \in Seq(Nat) /\ Len(u3) = 2 /\ 256 * u3[1] + u3[2] = l
  <2>1. l \in Nat /\ l <= UINT16_MAX
    BY DEF UINT16_MAX
  <2>. QED  BY <2>1, Uint16, ZenonT(60)
<1>4. u4 \in Seq(Nat) /\ Len(u4) = 2
  OBVIOUS
<1>5. h3 = UdpHeader(src, dst, len)
  BY Zenon DEF UdpHeader
<1>. HIDE DEF l, u1, u2, u3, u4
<1>6. h1 \in Seq(Nat) /\ Len(h1) = 4 /\ Joined(h1, u1, u2, 2, 2)
  <2>1. h1 \in Seq(Nat) /\ Len(h1) = 2 + 2 /\ Joined(h1, u1, u2, 2, 2)
    BY <1>1, <1>2, Join, ZenonT(60)
  <2>. QED  BY <2>1
<1>. HIDE DEF h1
<1>7. h2 \in Seq(Nat) /\ Len(h2) = 6 /\ Joined(h2, h1, u3, 4, 2)
  <2>1. h2 \in Seq(Nat) /\ Len(h2) = 4 + 2 /\ Joined(h2, h1, u3, 4, 2)
    BY <1>3, <1>6, Join, Zenon
  <2>. QED  BY <2>1
<1>. HIDE DEF h2
<1>8. h3 \in Seq(Nat) /\ Len(h3) = 8 /\ Joined(h3, h2, u4, 6, 2)
  <2>1. h3 \in Seq(Nat) /\ Len(h3) = 6 + 2 /\ Joined(h3, h2, u4, 6, 2)
    BY <1>4, <1>7, Join, Zenon
  <2>. QED  BY <2>1
<1>. HIDE DEF h3
<1>9. UdpBytes(h3, src.port, dst.port, l)
  <2>1. /\ \A i \in 1 .. 6 : h3[i] = h2[i]
        /\ \A i \in 1 .. 4 : h2[i] = h1[i]
        /\ \A i \in 1 .. 2 : h2[4 + i] = u3[i]
        /\ \A i \in 1 .. 2 : h1[i] = u1[i]
        /\ \A i \in 1 .. 2 : h1[2 + i] = u2[i]
    BY <1>6, <1>7, <1>8, Zenon DEF Joined
  <2>2. /\ h3[1] = u1[1] /\ h3[2] = u1[2] /\ h3[3] = u2[1] /\ h3[4] = u2[2]
        /\ h3[5] = u3[1] /\ h3[6] = u3[2]
    BY <2>1
  <2>3. 256 * h3[1] + h3[2] = src.port /\ 256 * h3[3] + h3[4] = dst.port /\ 256 * h3[5] + h3[6] = l
    BY <1>1, <1>2, <1>3, <2>2, Zenon
  <2>4. 1 + 1 = 2 /\ 3 + 1 = 4 /\ 5 + 1 = 6
    OBVIOUS
  <2>. QED  BY <2>3, <2>4, Zenon DEF UdpBytes, U16At
<1>. QED  BY <1>5, <1>8, <1>9, Zenon DEF l

(* An address adds two words.                                              *)
LEMMA AddrSums == ASSUME NEW a, Octets4(a) PROVE AddrSum(a) \in Nat /\ AddrSum(a) <= 131070
<1>1. /\ a[1] \in Nat /\ a[1] <= 255 /\ a[2] \in Nat /\ a[2] <= 255
      /\ a[3] \in Nat /\ a[3] <= 255 /\ a[4] \in Nat /\ a[4] <= 255
  BY SMT DEF Octets4
<1>2. AddrSum(a) = (256 * a[1] + a[2]) + (256 * a[3] + a[4])
  BY SMT DEF AddrSum, U16At
<1>. QED  BY <1>1, <1>2, SMT

(* The sum of a header is in reach of the folding, and its checksum field  *)
(* is added to the rest.                                                   *)
LEMMA PartsSums ==
  ASSUME NEW l \in Nat, l <= UINT16_MAX, NEW a, Octets4(a), NEW b, Octets4(b)
  PROVE  /\ HeaderSum(PartsSum(l, 0, a, b))
         /\ \A s \in Nat : PartsSum(l, s, a, b) = PartsSum(l, 0, a, b) + s
<1>1. AddrSum(a) \in Nat /\ AddrSum(a) <= 131070 /\ AddrSum(b) \in Nat /\ AddrSum(b) <= 131070
  BY AddrSums, SMT
<1>2. HeaderSum(PartsSum(l, 0, a, b))
  BY <1>1, SMT DEF HeaderSum, PartsSum, UINT16_MAX
<1>3. \A s \in Nat : PartsSum(l, s, a, b) = PartsSum(l, 0, a, b) + s
  BY <1>1, SMT DEF PartsSum
<1>. QED  BY <1>2, <1>3, SMT

(* checksum16 of a header is the complement of its folded sum.             *)
LEMMA ChecksumOf ==
  ASSUME NEW h, NEW l \in Nat, NEW s \in Nat, NEW a, Octets4(a), NEW b, Octets4(b), IpParts(h, l, s, a, b)
  PROVE  Checksum16(h) = UINT16_MAX - FoldCarries[PartsSum(l, s, a, b)]
<1>1. Len(Words(h)) = 10 /\ WordSums(Words(h))[10] = PartsSum(l, s, a, b)
  BY HeaderSums, SMT
<1>. QED  BY <1>1, Zenon DEF Checksum16

(* The checksum of a header whose field is zero is a uint16_t; the header  *)
(* that holds it has checksum zero.                                        *)
LEMMA ChecksumFits ==
  ASSUME NEW h, NEW l \in Nat, l <= UINT16_MAX, NEW a, Octets4(a), NEW b, Octets4(b), IpParts(h, l, 0, a, b)
  PROVE  /\ Checksum16(h) \in Nat /\ Checksum16(h) <= UINT16_MAX
         /\ \A c : IpParts(c, l, Checksum16(h), a, b) => Checksum16(c) = 0
<1>. DEFINE S == PartsSum(l, 0, a, b)
            f == FoldCarries[S]
            v == Checksum16(h)
<1>1. HeaderSum(S) /\ \A s \in Nat : PartsSum(l, s, a, b) = S + s
  BY PartsSums, ZenonT(60)
<1>2. f \in Nat /\ f > 0 /\ f <= 65535 /\ FoldCarries[S + (65535 - f)] = 65535
  BY <1>1, FoldsToOnes, SMT
<1>3. 0 \in Nat
  OBVIOUS
<1>4. v = UINT16_MAX - f
  BY <1>3, ChecksumOf, Zenon
<1>. HIDE DEF S, f, v
<1>5. v \in Nat /\ v <= UINT16_MAX /\ v = 65535 - f
  BY <1>2, <1>4, SMT DEF UINT16_MAX
<1>6. ASSUME NEW c, IpParts(c, l, v, a, b) PROVE Checksum16(c) = 0
  <2>1. v \in Nat
    BY <1>5, SMT
  <2>2. Checksum16(c) = UINT16_MAX - FoldCarries[PartsSum(l, v, a, b)]
    BY <1>6, <2>1, ChecksumOf, Zenon
  <2>3. PartsSum(l, v, a, b) = S + v
    BY <1>1, <2>1, Zenon
  <2>4. FoldCarries[S + v] = 65535
    BY <1>2, <1>5, SMT
  <2>. QED  BY <2>2, <2>3, <2>4, SMT DEF UINT16_MAX
<1>. QED  BY <1>5, <1>6, SMT DEF v

(* A uint16_t in memory is read back in the order of the host.             *)
LEMMA HostBytes ==
  ASSUME NEW v \in Nat, v <= UINT16_MAX, NEW little \in BOOLEAN
  PROVE  LET s == HostU16(v, little) IN
         /\ s \in Seq(Nat) /\ Len(s) = 2
         /\ IF little THEN 256 * s[2] + s[1] = v ELSE 256 * s[1] + s[2] = v
<1>1. CASE little
  <2>1. v % 256 \in Nat /\ v \div 256 \in Nat
    BY Uint16, SMT
  <2>2. 256 * (v \div 256) + (v % 256) = v
    BY SMT
  <2>3. HostU16(v, little) = <<v % 256, v \div 256>>
    BY <1>1, SMT DEF HostU16
  <2>. DEFINE x == v % 256
              y == v \div 256
  <2>. HIDE DEF x, y
  <2>4. x \in Nat /\ y \in Nat /\ 256 * y + x = v /\ HostU16(v, little) = <<x, y>>
    BY <2>1, <2>2, <2>3, Zenon DEF x, y
  <2>5. <<x, y>> \in Seq(Nat) /\ Len(<<x, y>>) = 2 /\ <<x, y>>[1] = x /\ <<x, y>>[2] = y
    BY <2>4, Pair, Zenon
  <2>. QED  BY <1>1, <2>4, <2>5, ZenonT(60)
<1>2. CASE ~little
  <2>1. HostU16(v, little) = U16Bytes(v)
    BY <1>2, Zenon DEF HostU16
  <2>2. U16Bytes(v) \in Seq(Nat) /\ Len(U16Bytes(v)) = 2 /\ 256 * U16Bytes(v)[1] + U16Bytes(v)[2] = v
    BY Uint16, ZenonT(60)
  <2>. QED  BY <1>2, <2>1, <2>2, Zenon
<1>. QED  BY <1>1, <1>2, Zenon

(* c is the header of b, made of h and u, with s for its checksum.         *)
MendedFrom(c, c1, p, s, q, b, h, u) ==
  /\ \A k \in 1 .. 10 : p[k] = b[k]
  /\ \A k \in 1 .. 8 : q[k] = b[12 + k]
  /\ Joined(c1, p, s, 10, 2) /\ Joined(c, c1, q, 12, 8) /\ Joined(b, h, u, 20, 8)

(* It has all parts of h but the checksum.                                 *)
LEMMA MendedBytes ==
  ASSUME NEW c, NEW c1, NEW p, NEW s, NEW q, NEW b, NEW h, NEW u, MendedFrom(c, c1, p, s, q, b, h, u),
         NEW l, NEW v, NEW a, NEW d, IpBytes(h, l, v, a, d)
  PROVE  IpBytes(c, l, U16At(s, 1), a, d)
<1>1. /\ \A k \in 1 .. 10 : p[k] = b[k]
      /\ \A k \in 1 .. 8 : q[k] = b[12 + k]
      /\ \A k \in 1 .. 10 : c1[k] = p[k]
      /\ \A k \in 1 .. 2 : c1[10 + k] = s[k]
      /\ \A k \in 1 .. 12 : c[k] = c1[k]
      /\ \A k \in 1 .. 8 : c[12 + k] = q[k]
      /\ \A k \in 1 .. 20 : b[k] = h[k]
  BY Zenon DEF MendedFrom, Joined
<1>2. \A k \in 1 .. 10 : c[k] = h[k]
  BY <1>1
<1>3. \A k \in 1 .. 8 : c[12 + k] = h[12 + k]
  BY <1>1
<1>4. c[11] = s[1] /\ c[12] = s[2]
  BY <1>1
<1>5. U16At(c, 11) = U16At(s, 1)
  BY <1>4 DEF U16At
<1>6. U16At(c, 3) = l
  <2>1. c[3] = h[3] /\ c[3 + 1] = h[3 + 1]
    BY <1>2
  <2>. QED  BY <2>1, Zenon DEF IpBytes, U16At
<1>7. \A i \in 1 .. 4 : c[12 + i] = a[i] /\ c[16 + i] = d[i]
  <2>1. \A i \in 1 .. 4 : h[12 + i] = a[i] /\ h[16 + i] = d[i]
    BY Zenon DEF IpBytes
  <2>2. \A i \in 1 .. 4 : c[12 + i] = h[12 + i] /\ c[12 + (4 + i)] = h[12 + (4 + i)]
    BY <1>3
  <2>3. \A i \in 1 .. 4 : 12 + (4 + i) = 16 + i
    OBVIOUS
  <2>. QED  BY <2>1, <2>2, <2>3
<1>8. /\ c[1] = h[1] /\ c[2] = h[2] /\ c[5] = h[5] /\ c[6] = h[6] /\ c[7] = h[7]
      /\ c[8] = h[8] /\ c[9] = h[9] /\ c[10] = h[10]
  BY <1>2
<1>. QED  BY <1>5, <1>6, <1>7, <1>8, Zenon DEF IpBytes

(* The same for the sequences RawPacketValid builds.                       *)
LEMMA Mended ==
  ASSUME NEW b \in Seq(Nat), Len(b) = 28, NEW s \in Seq(Nat), Len(s) = 2,
         NEW h, NEW u, Joined(b, h, u, 20, 8), NEW l, NEW v, NEW a, NEW d, IpParts(h, l, v, a, d)
  PROVE  IpParts(SubSeq(b, 1, 10) \o s \o SubSeq(b, 13, 20), l, U16At(s, 1), a, d)
<1>. DEFINE p == SubSeq(b, 1, 10)
            q == SubSeq(b, 13, 20)
            c1 == p \o s
            c == c1 \o q
<1>1. p \in Seq(Nat) /\ Len(p) = 10 /\ \A k \in 1 .. 10 : p[k] = b[k]
  <2>1. 1 \in Nat /\ 1 > 0 /\ 10 \in Nat /\ 1 + 10 <= Len(b) + 1
    OBVIOUS
  <2>2. SubSeq(b, 1, (1 + 10) - 1) \in Seq(Nat) /\ Len(SubSeq(b, 1, (1 + 10) - 1)) = 10
        /\ \A k \in 1 .. 10 : SubSeq(b, 1, (1 + 10) - 1)[k] = b[(1 - 1) + k]
    BY <2>1, Slice, Zenon
  <2>3. (1 + 10) - 1 = 10 /\ \A k \in 1 .. 10 : (1 - 1) + k = k
    OBVIOUS
  <2>. QED  BY <2>2, <2>3, Zenon
<1>2. q \in Seq(Nat) /\ Len(q) = 8 /\ \A k \in 1 .. 8 : q[k] = b[12 + k]
  <2>1. 13 \in Nat /\ 13 > 0 /\ 8 \in Nat /\ 13 + 8 <= Len(b) + 1
    OBVIOUS
  <2>2. SubSeq(b, 13, (13 + 8) - 1) \in Seq(Nat) /\ Len(SubSeq(b, 13, (13 + 8) - 1)) = 8
        /\ \A k \in 1 .. 8 : SubSeq(b, 13, (13 + 8) - 1)[k] = b[(13 - 1) + k]
    BY <2>1, Slice, Zenon
  <2>3. (13 + 8) - 1 = 20 /\ 13 - 1 = 12
    OBVIOUS
  <2>. QED  BY <2>2, <2>3, Zenon
<1>. HIDE DEF p, q
<1>3. c1 \in Seq(Nat) /\ Len(c1) = 12 /\ Joined(c1, p, s, 10, 2)
  <2>1. c1 \in Seq(Nat) /\ Len(c1) = 10 + 2 /\ Joined(c1, p, s, 10, 2)
    BY <1>1, Join, Zenon
  <2>. QED  BY <2>1
<1>. HIDE DEF c1
<1>4. c \in Seq(Nat) /\ Len(c) = 20 /\ Joined(c, c1, q, 12, 8)
  <2>1. c \in Seq(Nat) /\ Len(c) = 12 + 8 /\ Joined(c, c1, q, 12, 8)
    BY <1>2, <1>3, Join, Zenon
  <2>. QED  BY <2>1
<1>. HIDE DEF c
<1>5. IpBytes(c, l, U16At(s, 1), a, d)
  <2>1. MendedFrom(c, c1, p, s, q, b, h, u)
    BY <1>1, <1>2, <1>3, <1>4, Zenon DEF MendedFrom
  <2>2. IpBytes(h, l, v, a, d)
    BY Zenon DEF IpParts
  <2>. QED  BY <2>1, <2>2, MendedBytes, Zenon
<1>. QED  BY <1>4, <1>5, Zenon DEF IpParts, c, c1, p, q

(* An IPv4 address has four octets.                                        *)
LEMMA FourOctets ==
  ASSUME NEW a \in Seq(Octet), Len(a) = 4
  PROVE  a \in Seq(Nat) /\ Octets4(a)
<1>1. a \in Seq(Nat)
  BY OctetsAreNats, Zenon
<1>2. \A i \in 1 .. 4 : a[i] \in Octet
  BY ElementOfSeq, Zenon
<1>3. \A x \in Octet : x \in Nat /\ x <= 255
  BY DEF Octet
<1>. QED  BY <1>1, <1>2, <1>3, Zenon DEF Octets4

PacketBytes(b, l, p, q, m, a, d, x, y) ==
  /\ U16At(b, 3) = l /\ U16At(b, 21) = p /\ U16At(b, 23) = q /\ U16At(b, 25) = m
  /\ b[11] = x /\ b[12] = y
  /\ \A i \in 1 .. 4 : b[12 + i] = a[i]
  /\ \A i \in 1 .. 4 : b[16 + i] = d[i]

(* A packet of an IPv4 and a UDP header has their parts.                   *)
LEMMA JoinedPacket ==
  ASSUME NEW b, NEW h, NEW u, Joined(b, h, u, 20, 8), NEW l, NEW v, NEW a, NEW d, IpBytes(h, l, v, a, d),
         NEW p, NEW q, NEW m, UdpBytes(u, p, q, m)
  PROVE  PacketBytes(b, l, p, q, m, a, d, h[11], h[12])
<1>1. /\ \A k \in 1 .. 20 : b[k] = h[k]
      /\ \A k \in 1 .. 8 : b[20 + k] = u[k]
  BY Zenon DEF Joined
<1>2. U16At(b, 3) = l
  <2>1. b[3] = h[3] /\ b[3 + 1] = h[3 + 1]
    BY <1>1
  <2>. QED  BY <2>1, Zenon DEF IpBytes, U16At
<1>3. U16At(b, 21) = p /\ U16At(b, 23) = q /\ U16At(b, 25) = m
  <2>1. /\ b[21] = u[1] /\ b[21 + 1] = u[1 + 1] /\ b[23] = u[3] /\ b[23 + 1] = u[3 + 1]
        /\ b[25] = u[5] /\ b[25 + 1] = u[5 + 1]
    BY <1>1
  <2>. QED  BY <2>1, Zenon DEF UdpBytes, U16At
<1>4. \A i \in 1 .. 4 : h[12 + i] = a[i] /\ h[16 + i] = d[i]
  BY Zenon DEF IpBytes
<1>5. \A i \in 1 .. 4 : b[12 + i] = a[i]
  BY <1>1, <1>4
<1>6. \A i \in 1 .. 4 : b[16 + i] = d[i]
  BY <1>1, <1>4
<1>7. b[11] = h[11] /\ b[12] = h[12]
  BY <1>1
<1>. QED  BY <1>2, <1>3, <1>5, <1>6, <1>7, Zenon DEF PacketBytes

(* The address at k of a packet.                                           *)
LEMMA PartAt ==
  ASSUME NEW s \in Seq(Nat), Len(s) = 28, NEW t \in Seq(Nat), Len(t) = 4, NEW k \in {12, 16},
         \A i \in 1 .. 4 : s[k + i] = t[i]
  PROVE  SubSeq(s, k + 1, k + 4) = t
<1>1. k \in Nat /\ k + Len(t) <= Len(s)
  OBVIOUS
<1>2. \A i \in 1 .. Len(t) : s[k + i] = t[i]
  BY Zenon
<1>3. SubSeq(s, k + 1, k + Len(t)) = t
  BY <1>1, <1>2, Part, Zenon
<1>. QED  BY <1>3, Zenon

(* datagram_raw_send_udp_ipv4: the packet has its lengths, addresses and   *)
(* ports where a receiver looks for them, and the checksum is right, read  *)
(* in the byte order of the host.                                          *)
THEOREM RawPacket ==
  ASSUME NEW src, IsAddress(src), NEW dst, IsAddress(dst), NEW len \in Nat, NEW little \in BOOLEAN
  PROVE  RawPacketValid(src, dst, len, little)
<1>. DEFINE bad == dst.family # "inet" \/ src.family # "inet" \/ ~dst.whole \/ len > UINT16_MAX - 20 - 8
            b == RawHeaders(src, dst, len, little)
<1>1. CASE bad
  <2>1. b = <<>>
    BY <1>1, Zenon DEF RawHeaders
  <2>. QED  BY <2>1, Zenon DEF RawPacketValid
<1>2. CASE ~bad
  <2>. DEFINE a == src.addr
              d == dst.addr
              zero == <<0, 0>>
              h0 == IpHeader(src, dst, len, zero)
              v == Checksum16(h0)
              sb == HostU16(v, little)
              h == IpHeader(src, dst, len, sb)
              u == UdpHeader(src, dst, len)
              l == 28 + len
              s == IF little THEN <<b[12], b[11]>> ELSE <<b[11], b[12]>>
              c == SubSeq(b, 1, 10) \o s \o SubSeq(b, 13, 20)
  <2>1. b = h \o u
    BY <1>2, Zenon DEF RawHeaders
  <2>2. src.family = "inet" /\ dst.family = "inet"
    BY <1>2, Zenon
  <2>3. l \in Nat /\ l <= UINT16_MAX
    <3>1. ~(len > UINT16_MAX - 20 - 8)
      BY <1>2, Zenon
    <3>. QED  BY <3>1, SMT DEF UINT16_MAX
  <2>4. a \in Seq(Nat) /\ Len(a) = 4 /\ Octets4(a)
    <3>1. AddrBytes(src.family) = 4
      BY <2>2, Zenon DEF AddrBytes
    <3>2. a \in Seq(Octet) /\ Len(a) = 4
      BY <2>2, <3>1, Zenon DEF IsAddress
    <3>. QED  BY <3>2, FourOctets, Zenon
  <2>5. d \in Seq(Nat) /\ Len(d) = 4 /\ Octets4(d)
    <3>1. AddrBytes(dst.family) = 4
      BY <2>2, Zenon DEF AddrBytes
    <3>2. d \in Seq(Octet) /\ Len(d) = 4
      BY <2>2, <3>1, Zenon DEF IsAddress
    <3>. QED  BY <3>2, FourOctets, Zenon
  <2>6. /\ src.port \in Nat /\ src.port <= UINT16_MAX /\ dst.port \in Nat /\ dst.port <= UINT16_MAX
    BY Zenon DEF IsAddress
  <2>7. zero \in Seq(Nat) /\ Len(zero) = 2 /\ U16At(zero, 1) = 0
    BY SMT DEF U16At
  <2>8. IpParts(h0, l, 0, a, d)
    <3>. HIDE DEF zero
    <3>. QED  BY <2>3, <2>4, <2>5, <2>7, IpHeaderParts, Zenon
  <2>. HIDE DEF h0
  <2>9. v \in Nat /\ v <= UINT16_MAX /\ \A x : IpParts(x, l, v, a, d) => Checksum16(x) = 0
    <3>. HIDE DEF l, a, d
    <3>. QED  BY <2>3, <2>4, <2>5, <2>8, ChecksumFits, Zenon
  <2>. HIDE DEF v
  <2>10. /\ sb \in Seq(Nat) /\ Len(sb) = 2
         /\ IF little THEN 256 * sb[2] + sb[1] = v ELSE 256 * sb[1] + sb[2] = v
    BY <2>9, HostBytes, ZenonT(60)
  <2>. HIDE DEF sb
  <2>11. IpParts(h, l, U16At(sb, 1), a, d) /\ h[11] = sb[1] /\ h[12] = sb[2]
    BY <2>3, <2>4, <2>5, <2>10, IpHeaderParts, Zenon
  <2>12. u \in Seq(Nat) /\ Len(u) = 8 /\ UdpBytes(u, src.port, dst.port, 8 + len)
    BY <2>3, <2>6, UdpHeaderParts, Zenon
  <2>. HIDE DEF h, u
  <2>13. b \in Seq(Nat) /\ Len(b) = 28 /\ Joined(b, h, u, 20, 8)
    <3>1. h \in Seq(Nat) /\ Len(h) = 20
      BY <2>11, Zenon DEF IpParts
    <3>2. h \o u \in Seq(Nat) /\ Len(h \o u) = 20 + 8 /\ Joined(h \o u, h, u, 20, 8)
      BY <2>12, <3>1, Join, Zenon
    <3>3. 20 + 8 = 28
      OBVIOUS
    <3>. HIDE DEF b
    <3>. QED  BY <2>1, <3>2, <3>3, Zenon
  <2>. HIDE DEF b
  <2>14. PacketBytes(b, l, src.port, dst.port, 8 + len, a, d, sb[1], sb[2])
    <3>1. IpBytes(h, l, U16At(sb, 1), a, d)
      BY <2>11, Zenon DEF IpParts
    <3>2. PacketBytes(b, l, src.port, dst.port, 8 + len, a, d, h[11], h[12])
      BY <2>12, <2>13, <3>1, JoinedPacket, Zenon
    <3>. QED  BY <2>11, <3>2, Zenon
  <2>15. s \in Seq(Nat) /\ Len(s) = 2 /\ U16At(s, 1) = v
    <3>1. b[11] = sb[1] /\ b[12] = sb[2]
      BY <2>14, Zenon DEF PacketBytes
    <3>2. sb[1] \in Nat /\ sb[2] \in Nat
      <4>1. 1 \in 1 .. 2 /\ 2 \in 1 .. 2
        OBVIOUS
      <4>. QED  BY <2>10, <4>1, ElementOfSeq, Zenon
    <3>3. \A x \in Nat, y \in Nat : /\ <<x, y>> \in Seq(Nat) /\ Len(<<x, y>>) = 2
                                   /\ U16At(<<x, y>>, 1) = 256 * x + y
      BY DEF U16At
    <3>4. CASE little
      <4>1. s = <<sb[2], sb[1]>>
        BY <3>1, <3>4, Zenon
      <4>2. 256 * sb[2] + sb[1] = v
        BY <2>10, <3>4, Zenon
      <4>. HIDE DEF s
      <4>. QED  BY <3>2, <3>3, <4>1, <4>2, ZenonT(60)
    <3>5. CASE ~little
      <4>1. s = <<sb[1], sb[2]>>
        BY <3>1, <3>5, Zenon
      <4>2. 256 * sb[1] + sb[2] = v
        BY <2>10, <3>5, Zenon
      <4>. HIDE DEF s
      <4>. QED  BY <3>2, <3>3, <4>1, <4>2, ZenonT(60)
    <3>. QED  BY <3>4, <3>5, Zenon
  <2>. HIDE DEF s
  <2>16. Checksum16(c) = 0
    <3>1. IpParts(c, l, U16At(s, 1), a, d)
      BY <2>11, <2>13, <2>15, Mended, Zenon
    <3>. QED  BY <2>9, <2>15, <3>1, Zenon
  <2>. HIDE DEF c
  <2>17. SubSeq(b, 13, 16) = a /\ SubSeq(b, 17, 20) = d
    <3>1. SubSeq(b, 12 + 1, 12 + 4) = a /\ SubSeq(b, 16 + 1, 16 + 4) = d
      <4>1. 12 \in {12, 16} /\ 16 \in {12, 16}
        OBVIOUS
      <4>. QED  BY <2>4, <2>5, <2>13, <2>14, <4>1, PartAt, Zenon DEF PacketBytes
    <3>2. 12 + 1 = 13 /\ 12 + 4 = 16 /\ 16 + 1 = 17 /\ 16 + 4 = 20
      OBVIOUS
    <3>. QED  BY <3>1, <3>2, Zenon
  <2>18. /\ U16At(b, 3) = l /\ U16At(b, 25) = 8 + len
         /\ U16At(b, 21) = src.port /\ U16At(b, 23) = dst.port
    BY <2>14, Zenon DEF PacketBytes
  <2>19. l = Len(b) + len /\ 8 + len = Len(b) - 20 + len
    <3>1. Len(b) = 28
      BY <2>13, Zenon
    <3>. QED  BY <3>1
  <2>20. /\ U16At(b, 3) = Len(b) + len /\ U16At(b, 25) = Len(b) - 20 + len
    BY <2>18, <2>19, Zenon
  <2>. QED  BY <2>16, <2>17, <2>18, <2>20, Zenon DEF RawPacketValid, b, s, c
<1>. QED  BY <1>1, <1>2, Zenon

-----------------------------------------------------------------------------
(* ConfSyntax: numerals, then host and port.                               *)

(* Min is the least element.                                               *)
LEMMA MinOf ==
  ASSUME NEW S \in SUBSET Nat, S # {}
  PROVE  Min(S) \in S /\ \A y \in S : Min(S) <= y
BY NatMin, Zenon DEF Min

(* The ten digits are different letters.                                   *)
LEMMA DigitsAre ==
  /\ Range(Digits) = {"0", "1", "2", "3", "4", "5", "6", "7", "8", "9"}
  /\ DOMAIN Digits = 1 .. 10
  /\ \A d \in 1 .. 10 : Digits[d] \in Range(Digits)
  /\ \A d, e \in 1 .. 10 : Digits[d] = Digits[e] => d = e
<1>1. DOMAIN Digits = 1 .. 10
  BY DEF Digits
<1>2. Range(Digits) = {Digits[d] : d \in 1 .. 10}
  BY <1>1, Zenon DEF Range
<1>3. {Digits[d] : d \in 1 .. 10} = {"0", "1", "2", "3", "4", "5", "6", "7", "8", "9"}
  BY DEF Digits
<1>4. \A d, e \in 1 .. 10 : Digits[d] = Digits[e] => d = e
  BY DEF Digits
<1>. QED  BY <1>1, <1>2, <1>3, <1>4, Zenon

(* What a digit stands for.                                                *)
LEMMA DigitValue ==
  ASSUME NEW c \in Range(Digits)
  PROVE  DigitOf(c) \in Nat /\ DigitOf(c) <= 9 /\ Digits[DigitOf(c) + 1] = c
<1>1. \E d \in DOMAIN Digits : Digits[d] = c
  BY Zenon DEF Range
<1>. DEFINE v == CHOOSE d \in DOMAIN Digits : Digits[d] = c
<1>2. v \in 1 .. 10 /\ Digits[v] = c
  BY <1>1, DigitsAre, Zenon
<1>3. DigitOf(c) = v - 1
  BY DEF DigitOf
<1>. HIDE DEF v
<1>4. v - 1 \in Nat /\ v - 1 <= 9 /\ (v - 1) + 1 = v
  BY <1>2
<1>. QED  BY <1>2, <1>3, <1>4, Zenon

(* The digit that stands for n.                                            *)
LEMMA DigitAt ==
  ASSUME NEW n \in Nat, n < 10
  PROVE  Digits[n + 1] \in Range(Digits) /\ DigitOf(Digits[n + 1]) = n
<1>1. n + 1 \in 1 .. 10
  OBVIOUS
<1>2. Digits[n + 1] \in Range(Digits)
  BY <1>1, DigitsAre, Zenon
<1>3. /\ DigitOf(Digits[n + 1]) \in Nat /\ DigitOf(Digits[n + 1]) <= 9
      /\ Digits[DigitOf(Digits[n + 1]) + 1] = Digits[n + 1]
  BY <1>2, DigitValue, Zenon
<1>. DEFINE d == DigitOf(Digits[n + 1])
<1>4. d + 1 \in 1 .. 10
  <2>. HIDE DEF d
  <2>1. d \in Nat /\ d <= 9
    BY <1>3 DEF d
  <2>. QED  BY <2>1
<1>5. d + 1 = n + 1
  BY <1>1, <1>3, <1>4, DigitsAre, Zenon
<1>6. d \in Nat
  BY <1>3
<1>. HIDE DEF d
<1>7. d = n
  BY <1>5, <1>6
<1>. QED  BY <1>2, <1>7, Zenon DEF d

(* There is a function that satisfies the recursion of PrefixValues.       *)
LEMMA ValuesDefined ==
  ASSUME NEW s, Len(s) \in Nat, NEW n \in 0 .. Len(s)
  PROVE  \E f : f = [m \in 0 .. n |-> IF m = 0 THEN 0 ELSE 10 * f[m - 1] + DigitOf(s[m])]
<1>. DEFINE Vals(k, f) == f = [m \in 0 .. k |-> IF m = 0 THEN 0 ELSE 10 * f[m - 1] + DigitOf(s[m])]
            T == {k \in Nat : k <= Len(s) /\ ~\E f : Vals(k, f)}
<1>1. T = {}
  <2>. SUFFICES ASSUME T # {} PROVE FALSE
    BY Zenon
  <2>1. PICK k \in T : \A j \in T : k <= j
    <3>1. T \in SUBSET Nat
      BY Zenon
    <3>. HIDE DEF T
    <3>. QED  BY <3>1, NatMin, Zenon
  <2>2. k \in Nat /\ k <= Len(s) /\ ~\E f : Vals(k, f)
    BY Zenon
  <2>. HIDE DEF Vals
  <2>3. CASE k = 0
    <3>. DEFINE g == [m \in 0 .. 0 |-> 0]
    <3>1. Vals(0, g)
      BY DEF Vals
    <3>. QED  BY <2>2, <2>3, <3>1, Zenon
  <2>4. CASE k # 0
    <3>1. k - 1 \in Nat /\ k - 1 <= Len(s) /\ ~(k <= k - 1)
      BY <2>2, <2>4
    <3>2. PICK f : Vals(k - 1, f)
      BY <2>1, <3>1, Zenon
    <3>. DEFINE g == [m \in 0 .. k |-> IF m = k THEN 10 * f[k - 1] + DigitOf(s[k]) ELSE f[m]]
    <3>3. \A m \in 0 .. k - 1 : f[m] = IF m = 0 THEN 0 ELSE 10 * f[m - 1] + DigitOf(s[m])
      BY <3>2, Zenon DEF Vals
    <3>8. \A m \in 0 .. k - 1 : g[m] = f[m]
      <4>1. \A m \in 0 .. k - 1 : m \in 0 .. k /\ m # k
        BY <2>2, <2>4
      <4>. QED  BY <4>1, Zenon
    <3>4. g[k] = 10 * g[k - 1] + DigitOf(s[k])
      BY <2>2, <2>4
    <3>5. \A m \in 0 .. k : g[m] = IF m = 0 THEN 0 ELSE 10 * g[m - 1] + DigitOf(s[m])
      <4>. HIDE DEF g
      <4>. QED  BY <2>2, <2>4, <3>3, <3>4, <3>8, SMTT(30)
    <3>6. g = [m \in 0 .. k |-> g[m]]
      BY Zenon
    <3>. HIDE DEF g
    <3>7. Vals(k, g)
      BY <3>5, <3>6, Zenon DEF Vals
    <3>. QED  BY <2>2, <3>7, Zenon
  <2>. QED  BY <2>3, <2>4, Zenon
<1>2. n \in Nat /\ n <= Len(s)
  OBVIOUS
<1>. QED  BY <1>1, <1>2, Zenon

(* PrefixValues, unfolded.                                                 *)
LEMMA ValuesUnfold ==
  ASSUME NEW s, Len(s) \in Nat
  PROVE  /\ PrefixValues(s)[0] = 0
         /\ \A n \in 1 .. Len(s) : PrefixValues(s)[n] = 10 * PrefixValues(s)[n - 1] + DigitOf(s[n])
<1>1. Len(s) \in 0 .. Len(s)
  OBVIOUS
<1>2. \E f : f = [m \in 0 .. Len(s) |-> IF m = 0 THEN 0 ELSE 10 * f[m - 1] + DigitOf(s[m])]
  BY <1>1, ValuesDefined, Zenon
<1>3. PrefixValues(s) = [m \in 0 .. Len(s) |-> IF m = 0 THEN 0 ELSE 10 * PrefixValues(s)[m - 1] + DigitOf(s[m])]
  BY <1>2, Zenon DEF PrefixValues
<1>. QED  BY <1>3

(* The values of the prefixes of a numeral do not depend on what follows.  *)
LEMMA ValuesAgree ==
  ASSUME NEW s, NEW r, Len(s) \in Nat, Len(r) \in Nat, Len(s) <= Len(r),
         \A i \in 1 .. Len(s) : r[i] = s[i] /\ s[i] \in Range(Digits)
  PROVE  \A n \in 0 .. Len(s) : PrefixValues(r)[n] = PrefixValues(s)[n] /\ PrefixValues(s)[n] \in Nat
<1>. DEFINE T == {k \in Nat : k <= Len(s) /\ ~(PrefixValues(r)[k] = PrefixValues(s)[k] /\ PrefixValues(s)[k] \in Nat)}
<1>1. T = {}
  <2>. SUFFICES ASSUME T # {} PROVE FALSE
    BY Zenon
  <2>1. PICK k \in T : \A j \in T : k <= j
    <3>1. T \in SUBSET Nat
      BY Zenon
    <3>. HIDE DEF T
    <3>. QED  BY <3>1, NatMin, Zenon
  <2>2. k \in Nat /\ k <= Len(s) /\ ~(PrefixValues(r)[k] = PrefixValues(s)[k] /\ PrefixValues(s)[k] \in Nat)
    BY Zenon
  <2>3. k # 0
    BY <2>2, ValuesUnfold
  <2>4. k - 1 \in Nat /\ k - 1 <= Len(s) /\ ~(k <= k - 1) /\ k \in 1 .. Len(s) /\ k \in 1 .. Len(r)
    BY <2>2, <2>3
  <2>5. PrefixValues(r)[k - 1] = PrefixValues(s)[k - 1] /\ PrefixValues(s)[k - 1] \in Nat
    BY <2>1, <2>4, Zenon
  <2>6. /\ PrefixValues(s)[k] = 10 * PrefixValues(s)[k - 1] + DigitOf(s[k])
        /\ PrefixValues(r)[k] = 10 * PrefixValues(r)[k - 1] + DigitOf(r[k])
    BY <2>4, ValuesUnfold, Zenon
  <2>7. r[k] = s[k] /\ DigitOf(s[k]) \in Nat
    BY <2>4, DigitValue, Zenon
  <2>8. PrefixValues(r)[k] = PrefixValues(s)[k]
    BY <2>5, <2>6, <2>7, Zenon
  <2>9. PrefixValues(s)[k] \in Nat
    BY <2>5, <2>6, <2>7, SMT
  <2>. QED  BY <2>2, <2>8, <2>9, Zenon
<1>2. \A n \in 0 .. Len(s) : n \in Nat /\ n <= Len(s)
  OBVIOUS
<1>. QED  BY <1>1, <1>2, Zenon

(* A numeral has a value.                                                  *)
LEMMA NumeralNat ==
  ASSUME NEW s \in Seq(Letters), IsNumeral(s)
  PROVE  NumeralValue(s) \in Nat
<1>1. Len(s) \in Nat /\ Len(s) <= Len(s) /\ Len(s) \in 0 .. Len(s) /\ DOMAIN s = 1 .. Len(s)
  OBVIOUS
<1>2. \A i \in 1 .. Len(s) : s[i] \in Range(Digits)
  BY <1>1, Zenon DEF IsNumeral, Range
<1>. QED  BY <1>1, <1>2, ValuesAgree, Zenon DEF NumeralValue

(* The empty text is the one of length zero.                               *)
LEMMA EmptyLen == ASSUME NEW h \in Seq(Letters) PROVE Len(h) \in Nat /\ (h = <<>> <=> Len(h) = 0)
<1>1. Len(<<>>) = 0 /\ (h # <<>> => Len(h) \in Nat \ {0})
  BY EmptySeq, Zenon
<1>2. Len(h) \in Nat
  OBVIOUS
<1>. QED  BY <1>1, <1>2, Zenon

(* A letter that is nowhere in a text.                                     *)
LEMMA NotIn ==
  ASSUME NEW h \in Seq(Letters), NEW c
  PROVE  c \notin Range(h) <=> \A k \in 1 .. Len(h) : h[k] # c
<1>1. DOMAIN h = 1 .. Len(h)
  OBVIOUS
<1>. QED  BY <1>1, Zenon DEF Range

(* h is what comes before the i-th letter of t.                            *)
IsBefore(h, t, i) == h \in Seq(Letters) /\ Len(h) = i - 1 /\ \A k \in 1 .. i - 1 : h[k] = t[k]

(* Before is that.                                                         *)
LEMMA BeforeOf ==
  ASSUME NEW t \in Seq(Letters), NEW i \in 1 .. Len(t)
  PROVE  IsBefore(Before(t, i), t, i)
<1>1. Len(t) \in Nat /\ i \in Nat /\ i >= 1 /\ i <= Len(t) /\ 1 \in Int /\ i - 1 \in Int
  BY EmptyLen
<1>2. \A k \in 1 .. i - 1 : t[k] \in Letters
  BY <1>1
<1>3. /\ Before(t, i) \in Seq(Letters)
      /\ Len(Before(t, i)) = IF 1 <= i - 1 THEN (i - 1) - 1 + 1 ELSE 0
      /\ \A k \in 1 .. (i - 1) - 1 + 1 : Before(t, i)[k] = t[1 + k - 1]
  BY <1>1, <1>2, SubSeqProperties, SMT DEF Before
<1>4. (IF 1 <= i - 1 THEN (i - 1) - 1 + 1 ELSE 0) = i - 1 /\ (i - 1) - 1 + 1 = i - 1
  BY <1>1
<1>5. \A k \in 1 .. i - 1 : 1 + k - 1 = k
  BY <1>1
<1>. QED  BY <1>3, <1>4, <1>5, Zenon DEF IsBefore

(* q is what comes after the i-th letter of t.                             *)
IsAfter(q, t, i) == q \in Seq(Letters) /\ Len(q) = Len(t) - i /\ \A k \in 1 .. Len(t) - i : q[k] = t[i + k]

(* After is that.                                                          *)
LEMMA AfterOf ==
  ASSUME NEW t \in Seq(Letters), NEW i \in 1 .. Len(t)
  PROVE  IsAfter(After(t, i), t, i)
<1>1. Len(t) \in Nat /\ i \in Nat /\ i >= 1 /\ i <= Len(t) /\ i + 1 \in Int /\ Len(t) \in Int
  BY EmptyLen
<1>2. \A k \in i + 1 .. Len(t) : t[k] \in Letters
  BY <1>1
<1>3. /\ After(t, i) \in Seq(Letters)
      /\ Len(After(t, i)) = IF i + 1 <= Len(t) THEN Len(t) - (i + 1) + 1 ELSE 0
      /\ \A k \in 1 .. Len(t) - (i + 1) + 1 : After(t, i)[k] = t[(i + 1) + k - 1]
  BY <1>1, <1>2, SubSeqProperties, SMT DEF After
<1>. DEFINE n == Len(t)
<1>4. n \in Nat
  BY <1>1
<1>5. /\ (IF i + 1 <= n THEN n - (i + 1) + 1 ELSE 0) = n - i /\ n - (i + 1) + 1 = n - i
      /\ \A k \in 1 .. n - i : (i + 1) + k - 1 = i + k
  <2>1. i <= n
    BY <1>1
  <2>. HIDE DEF n
  <2>. QED  BY <1>1, <1>4, <2>1
<1>. QED  BY <1>3, <1>5, Zenon DEF IsAfter

(* When what comes before a letter is a host without brackets.             *)
LEMMA PlainBefore ==
  ASSUME NEW t \in Seq(Letters), NEW j \in 1 .. Len(t)
  PROVE  IsPlain(Before(t, j)) <=> /\ \A k \in 1 .. j - 1 : t[k] # ":"
                                   /\ j # 1 => t[1] # "["
                                   /\ j - 1 < HOST_LEN
<1>. DEFINE h == Before(t, j)
<1>0. IsBefore(h, t, j)
  BY BeforeOf, Zenon
<1>. HIDE DEF h
<1>1. h \in Seq(Letters) /\ Len(h) = j - 1 /\ \A k \in 1 .. j - 1 : h[k] = t[k]
  BY <1>0, Zenon DEF IsBefore
<1>2. ":" \notin Range(h) <=> \A k \in 1 .. j - 1 : t[k] # ":"
  <2>1. ":" \notin Range(h) <=> \A k \in 1 .. Len(h) : h[k] # ":"
    BY <1>1, NotIn, Zenon
  <2>. QED  BY <1>1, <2>1, Zenon
<1>3. Len(t) \in Nat /\ j \in Nat
  BY EmptyLen
<1>4. (h # <<>> <=> j # 1) /\ (j # 1 => 1 \in 1 .. j - 1)
  BY <1>1, <1>3, EmptyLen, SMT
<1>5. (h # <<>> => h[1] # "[") <=> (j # 1 => t[1] # "[")
  BY <1>1, <1>4, Zenon
<1>. QED  BY <1>1, <1>2, <1>5, Zenon DEF IsPlain, h

(* When it is a host in brackets.                                          *)
LEMMA BracketedBefore ==
  ASSUME NEW t \in Seq(Letters), NEW j \in 1 .. Len(t)
  PROVE  IsBracketed(Before(t, j)) <=> /\ j - 1 \in 3 .. HOST_LEN + 1 /\ t[1] = "[" /\ t[j - 1] = "]"
                                       /\ \A k \in 1 .. j - 2 : t[k] # "]"
<1>. DEFINE h == Before(t, j)
<1>0. IsBefore(h, t, j)
  BY BeforeOf, Zenon
<1>. HIDE DEF h
<1>1. h \in Seq(Letters) /\ Len(h) = j - 1 /\ \A k \in 1 .. j - 1 : h[k] = t[k]
  BY <1>0, Zenon DEF IsBefore
<1>2. Len(t) \in Nat /\ j \in Nat /\ HOST_LEN \in Nat
  BY EmptyLen, ConfSyntaxAssumption
<1>. SUFFICES ASSUME j - 1 \in 3 .. HOST_LEN + 1
              PROVE  IsBracketed(h) <=> /\ t[1] = "[" /\ t[j - 1] = "]"
                                        /\ \A k \in 1 .. j - 2 : t[k] # "]"
  BY <1>1, Zenon DEF IsBracketed, h
<1>3. /\ 1 \in 1 .. j - 1 /\ j - 1 \in 1 .. j - 1 /\ (j - 1) - 1 = j - 2
      /\ \A k \in 1 .. j - 2 : k \in 1 .. j - 1
  BY <1>2
<1>4. h[1] = t[1] /\ h[j - 1] = t[j - 1]
  BY <1>1, <1>3, Zenon
<1>. DEFINE g == Before(h, j - 1)
<1>5. IsBefore(g, h, j - 1)
  BY <1>1, <1>3, BeforeOf, Zenon
<1>6. g = SubSeq(h, 1, Len(h) - 1)
  BY <1>1, Zenon DEF Before
<1>. HIDE DEF g
<1>7. "]" \notin Range(g) <=> \A k \in 1 .. j - 2 : t[k] # "]"
  <2>1. g \in Seq(Letters) /\ Len(g) = j - 2 /\ \A k \in 1 .. j - 2 : g[k] = h[k]
    BY <1>3, <1>5, Zenon DEF IsBefore
  <2>2. \A k \in 1 .. j - 2 : g[k] = t[k]
    BY <1>1, <1>3, <2>1, Zenon
  <2>3. "]" \notin Range(g) <=> \A k \in 1 .. Len(g) : g[k] # "]"
    BY <2>1, NotIn, Zenon
  <2>. QED  BY <2>1, <2>2, <2>3, Zenon
<1>. QED  BY <1>1, <1>4, <1>6, <1>7, Zenon DEF IsBracketed

(* A text without its sign has all letters but the sign.                   *)
LEMMA UnsignedOf ==
  ASSUME NEW q \in Seq(Letters)
  PROVE  /\ Unsigned(q) \in Seq(Letters)
         /\ \A k \in 1 .. Len(q) : q[k] = "+" \/ q[k] \in Range(Unsigned(q))
<1>1. DOMAIN q = 1 .. Len(q)
  OBVIOUS
<1>2. CASE ~(q # <<>> /\ q[1] = "+")
  BY <1>1, <1>2, Zenon DEF Unsigned, Range
<1>3. CASE q # <<>> /\ q[1] = "+"
  <2>1. /\ Tail(q) \in Seq(Letters) /\ Len(Tail(q)) = Len(q) - 1
        /\ \A i \in 1 .. Len(Tail(q)) : Tail(q)[i] = q[i + 1]
    BY <1>3, HeadTailProperties, Zenon
  <2>2. Unsigned(q) = Tail(q)
    BY <1>3, Zenon DEF Unsigned
  <2>. DEFINE r == Tail(q)
  <2>. HIDE DEF r
  <2>3. r \in Seq(Letters) /\ Len(r) = Len(q) - 1 /\ \A i \in 1 .. Len(q) - 1 : r[i] = q[i + 1]
    BY <2>1, Zenon DEF r
  <2>4. DOMAIN r = 1 .. Len(q) - 1
    <3>1. DOMAIN r = 1 .. Len(r)
      BY <2>3
    <3>. QED  BY <2>3, <3>1, Zenon
  <2>5. Len(q) \in Nat
    BY EmptyLen
  <2>6. \A k \in 1 .. Len(q) : k = 1 \/ (k - 1 \in 1 .. Len(q) - 1 /\ (k - 1) + 1 = k)
    <3>. DEFINE n == Len(q)
    <3>1. n \in Nat
      BY <2>5
    <3>. HIDE DEF n
    <3>2. \A k \in 1 .. n : k = 1 \/ (k - 1 \in 1 .. n - 1 /\ (k - 1) + 1 = k)
      BY <3>1
    <3>. QED  BY <3>2 DEF n
  <2>7. \A k \in 1 .. Len(q) : k # 1 => q[k] \in Range(r)
    <3>. SUFFICES ASSUME NEW k \in 1 .. Len(q), k # 1 PROVE q[k] \in Range(r)
      BY Zenon
    <3>1. k - 1 \in DOMAIN r /\ r[k - 1] = q[k]
      BY <2>3, <2>4, <2>6, Zenon
    <3>. QED  BY <3>1, Zenon DEF Range
  <2>. QED  BY <1>3, <2>2, <2>3, <2>7, Zenon DEF r
<1>. QED  BY <1>2, <1>3, Zenon

(* A port is written without a colon.                                      *)
LEMMA PortHasNoColon ==
  ASSUME NEW q \in Seq(Letters), IsPort(q)
  PROVE  \A k \in 1 .. Len(q) : q[k] # ":"
<1>1. Range(Unsigned(q)) \subseteq Range(Digits)
  BY Zenon DEF IsPort, IsNumeral
<1>2. ":" \notin Range(Digits) /\ ":" # "+"
  BY DigitsAre
<1>. QED  BY <1>1, <1>2, UnsignedOf, Zenon

(* A text that does not begin with a blank stays as it is.                 *)
LEMMA NoBlanks ==
  ASSUME NEW q \in Seq(Letters), q # <<>> => q[1] \notin Space
  PROVE  Unblanked(q) = q
<1>. DEFINE word == {i \in DOMAIN q : q[i] \notin Space}
<1>1. DOMAIN q = 1 .. Len(q) /\ Len(q) \in Nat
  OBVIOUS
<1>2. CASE q = <<>>
  <2>1. word = {}
    BY <1>2
  <2>. QED  BY <1>2, <2>1, Zenon DEF Unblanked
<1>3. CASE q # <<>>
  <2>1. 1 \in DOMAIN q
    <3>1. Len(q) # 0
      BY <1>3, EmptyLen, Zenon
    <3>. QED  BY <1>1, <3>1
  <2>2. word \in SUBSET Nat /\ 1 \in word /\ \A i \in word : i >= 1
    BY <1>1, <1>3, <2>1
  <2>3. Unblanked(q) = SubSeq(q, Min(word), Len(q))
    BY <2>2, Zenon DEF Unblanked
  <2>. HIDE DEF word
  <2>4. Min(word) \in word /\ \A y \in word : Min(word) <= y
    BY <2>2, MinOf, Zenon
  <2>5. Min(word) = 1
    <3>. DEFINE m == Min(word)
    <3>1. m \in word /\ m <= 1
      BY <2>2, <2>4, Zenon
    <3>. HIDE DEF m
    <3>2. m = 1
      BY <2>2, <3>1
    <3>. QED  BY <3>2 DEF m
  <2>6. \A k \in 1 .. Len(q) : q[k] \in Letters
    BY <1>1
  <2>7. /\ SubSeq(q, 1, Len(q)) \in Seq(Letters)
        /\ Len(SubSeq(q, 1, Len(q))) = IF 1 <= Len(q) THEN Len(q) - 1 + 1 ELSE 0
        /\ \A k \in 1 .. Len(q) - 1 + 1 : SubSeq(q, 1, Len(q))[k] = q[1 + k - 1]
    BY <1>1, <2>6, SubSeqProperties, SMT
  <2>8. /\ (IF 1 <= Len(q) THEN Len(q) - 1 + 1 ELSE 0) = Len(q) /\ Len(q) - 1 + 1 = Len(q)
        /\ \A k \in 1 .. Len(q) : 1 + k - 1 = k
    BY <1>1
  <2>9. SubSeq(q, 1, Len(q)) = q
    BY <2>7, <2>8, SeqEqual, Zenon
  <2>. QED  BY <2>3, <2>5, <2>9, Zenon
<1>. QED  BY <1>2, <1>3, Zenon

(* What strtoul makes of a text without a blank or a minus before it.      *)
LEMMA StrtoulOf ==
  ASSUME NEW q \in Seq(Letters), ~Lenient(q)
  PROVE  LET v == NumeralValue(Unsigned(q)) IN
         Strtoul(q) = IF ~IsNumeral(Unsigned(q)) \/ v > ULONG_MAX THEN 0 ELSE v
<1>1. Unblanked(q) = q
  BY NoBlanks, Zenon DEF Lenient
<1>2. Signed(q) <=> q # <<>> /\ q[1] = "+"
  BY Zenon DEF Signed, Lenient
<1>3. ~(Signed(q) /\ q[1] = "-")
  BY Zenon DEF Signed, Lenient
<1>4. (IF Signed(q) THEN Tail(q) ELSE q) = Unsigned(q)
  BY <1>2, Zenon DEF Unsigned
<1>. QED  BY <1>1, <1>3, <1>4, Zenon DEF Strtoul

(* A port of the grammar begins with neither.                              *)
LEMMA PortNotLenient == ASSUME NEW q \in Seq(Letters), IsPort(q) PROVE ~Lenient(q)
<1>1. Range(Unsigned(q)) \subseteq Range(Digits)
  BY Zenon DEF IsPort, IsNumeral
<1>2. \A c \in Space \union {"-"} : c \notin Range(Digits) /\ c # "+"
  BY DigitsAre DEF Space
<1>3. q # <<>> => 1 \in 1 .. Len(q)
  BY EmptyLen
<1>. QED  BY <1>1, <1>2, <1>3, UnsignedOf, Zenon DEF Lenient

(* parse_port takes the ports, each for its value, and nothing else that   *)
(* does not begin with a blank or a minus.                                 *)
LEMMA PortRead ==
  ASSUME NEW q \in Seq(Letters)
  PROVE  /\ IsPort(q) => ParsePort(q) = NumeralValue(Unsigned(q)) /\ ParsePort(q) # 0
         /\ ~IsPort(q) /\ ~Lenient(q) => ParsePort(q) = 0
<1>. SUFFICES ASSUME ~Lenient(q)
              PROVE  /\ IsPort(q) => ParsePort(q) = NumeralValue(Unsigned(q)) /\ ParsePort(q) # 0
                     /\ ~IsPort(q) => ParsePort(q) = 0
  BY PortNotLenient, Zenon
<1>. DEFINE u == Unsigned(q)
            v == NumeralValue(u)
            s == Strtoul(q)
<1>0. s = IF ~IsNumeral(u) \/ v > ULONG_MAX THEN 0 ELSE v
  BY StrtoulOf, Zenon
<1>1. ParsePort(q) = IF s \in 1 .. PORT_MAX THEN s ELSE 0
  BY Zenon DEF ParsePort
<1>2. IsPort(q) <=> IsNumeral(u) /\ v \in 1 .. PORT_MAX
  BY Zenon DEF IsPort
<1>3. IsNumeral(u) => v \in Nat
  BY UnsignedOf, NumeralNat, Zenon
<1>. HIDE DEF u, v, s
<1>4. PORT_MAX \in Nat /\ ULONG_MAX \in Nat /\ PORT_MAX <= ULONG_MAX
  BY ConfSyntaxAssumption
<1>5. CASE IsPort(q)
  <2>1. s = v /\ v \in 1 .. PORT_MAX /\ v # 0
    BY <1>0, <1>2, <1>3, <1>4, <1>5
  <2>. QED  BY <1>1, <1>5, <2>1, Zenon DEF u, v
<1>6. CASE ~IsPort(q)
  <2>1. s \notin 1 .. PORT_MAX
    BY <1>0, <1>2, <1>3, <1>4, <1>6
  <2>. QED  BY <1>1, <1>6, <2>1, Zenon
<1>. QED  BY <1>5, <1>6, Zenon

(* What split_host_port stores for a host and the text of a port.          *)
LEMMA EndpointOf ==
  ASSUME NEW b, NEW h \in Seq(Letters), NEW q \in Seq(Letters)
  PROVE  /\ Len(h) < HOST_LEN /\ IsPort(q) =>
              /\ Endpoint(b, h, q) = <<b, IF h = <<>> THEN ANY_HOST ELSE h, NumeralValue(Unsigned(q))>>
              /\ Endpoint(b, h, q) # Rejected
         /\ ~(Len(h) < HOST_LEN /\ IsPort(q)) => Endpoint(b, h, q) = Rejected \/ Lenient(q)
<1>1. Len(h) < HOST_LEN <=> ~(Len(h) >= HOST_LEN)
  BY EmptyLen, ConfSyntaxAssumption
<1>2. \A x, y : <<b, x, y>> # <<>>
  OBVIOUS
<1>3. CASE Len(h) < HOST_LEN /\ IsPort(q)
  <2>1. Endpoint(b, h, q) = <<b, IF h = <<>> THEN ANY_HOST ELSE h, NumeralValue(Unsigned(q))>>
    BY <1>1, <1>3, PortRead, Zenon DEF Endpoint
  <2>. QED  BY <1>2, <1>3, <2>1, Zenon DEF Rejected
<1>4. CASE ~(Len(h) < HOST_LEN /\ IsPort(q))
  BY <1>1, <1>4, PortRead, Zenon DEF Endpoint
<1>. QED  BY <1>3, <1>4, Zenon

(* Where the colons of a text are, what the two halves of the grammar      *)
(* accept at one of them, and what it stands for.                          *)
Colons(t) == {i \in DOMAIN t : t[i] = ":"}
PlainAt(t, j) == t[j] = ":" /\ IsPlain(Before(t, j)) /\ IsPort(After(t, j))
BracketedAt(t, j) == t[j] = ":" /\ IsBracketed(Before(t, j)) /\ IsPort(After(t, j))
PlainEndpoint(t, i) ==
  <<FALSE, IF Before(t, i) = <<>> THEN ANY_HOST ELSE Before(t, i), NumeralValue(Unsigned(After(t, i)))>>
BracketedEndpoint(t, i) == <<TRUE, SubSeq(t, 2, i - 2), NumeralValue(Unsigned(After(t, i)))>>

(* The grammar in these terms.                                             *)
LEMMA GrammarIs ==
  ASSUME NEW t
  PROVE  Grammar(t) = {PlainEndpoint(t, i) : i \in {j \in DOMAIN t : PlainAt(t, j)}}
                      \union {BracketedEndpoint(t, i) : i \in {j \in DOMAIN t : BracketedAt(t, j)}}
BY Zenon DEF Grammar, PlainEndpoint, PlainAt, BracketedEndpoint, BracketedAt

(* strchr finds the first one.                                             *)
LEMMA FindOf ==
  ASSUME NEW t \in Seq(Letters), NEW c
  PROVE  \/ Find(t, c, 1) = 0 /\ \A k \in 1 .. Len(t) : t[k] # c
         \/ /\ Find(t, c, 1) \in 1 .. Len(t) /\ t[Find(t, c, 1)] = c
            /\ \A k \in 1 .. Find(t, c, 1) - 1 : t[k] # c
<1>. DEFINE at == {i \in 1 .. Len(t) : t[i] = c}
<1>1. Find(t, c, 1) = IF at = {} THEN 0 ELSE Min(at)
  BY Zenon DEF Find
<1>2. CASE at = {}
  BY <1>1, <1>2, Zenon
<1>3. CASE at # {}
  <2>1. at \in SUBSET Nat
    BY EmptyLen
  <2>2. Min(at) \in at /\ \A y \in at : Min(at) <= y
    <3>. HIDE DEF at
    <3>. QED  BY <1>3, <2>1, MinOf, Zenon
  <2>. DEFINE m == Min(at)
              n == Len(t)
  <2>3. m \in 1 .. n /\ t[m] = c
    BY <2>2, Zenon
  <2>4. \A k \in 1 .. m - 1 : k \in 1 .. n /\ ~(m <= k)
    <3>1. n \in Nat
      BY EmptyLen
    <3>. HIDE DEF m, n
    <3>. QED  BY <2>3, <3>1
  <2>5. \A k \in 1 .. m - 1 : t[k] # c
    BY <2>2, <2>4, Zenon
  <2>6. Find(t, c, 1) = m
    BY <1>1, <1>3, Zenon
  <2>. HIDE DEF m, n
  <2>. QED  BY <2>3, <2>5, <2>6, Zenon DEF n
<1>. QED  BY <1>2, <1>3, Zenon

(* A text that does not begin with a bracket has no host in brackets.      *)
LEMMA NoBracket ==
  ASSUME NEW t \in Seq(Letters), ~(t # <<>> /\ t[1] = "["), NEW j \in 1 .. Len(t)
  PROVE  ~IsBracketed(Before(t, j))
<1>1. t # <<>>
  <2>1. Len(t) # 0
    BY EmptyLen
  <2>. QED  BY <2>1, EmptyLen, Zenon
<1>. QED  BY <1>1, BracketedBefore, Zenon

(* Where the grammar takes HOST:PORT, there is one colon.                  *)
LEMMA OneColon ==
  ASSUME NEW t \in Seq(Letters), NEW j \in 1 .. Len(t), PlainAt(t, j)
  PROVE  Colons(t) = {j}
<1>1. \A k \in 1 .. j - 1 : t[k] # ":"
  BY PlainBefore, Zenon DEF PlainAt
<1>2. IsAfter(After(t, j), t, j)
  BY AfterOf, Zenon
<1>3. \A k \in 1 .. Len(t) - j : t[j + k] # ":"
  BY <1>2, PortHasNoColon, Zenon DEF PlainAt, IsAfter
<1>4. Len(t) \in Nat /\ DOMAIN t = 1 .. Len(t)
  BY EmptyLen
<1>5. \A k \in 1 .. Len(t) : k = j \/ k \in 1 .. j - 1 \/ (k - j \in 1 .. Len(t) - j /\ j + (k - j) = k)
  <2>. DEFINE n == Len(t)
  <2>1. n \in Nat /\ j \in 1 .. n
    BY <1>4
  <2>. HIDE DEF n
  <2>2. \A k \in 1 .. n : k = j \/ k \in 1 .. j - 1 \/ (k - j \in 1 .. n - j /\ j + (k - j) = k)
    BY <2>1
  <2>. QED  BY <2>2 DEF n
<1>6. \A k \in 1 .. Len(t) : t[k] = ":" => k = j
  BY <1>1, <1>3, <1>5, Zenon
<1>7. t[j] = ":"
  BY Zenon DEF PlainAt
<1>. QED  BY <1>4, <1>6, <1>7, Zenon DEF Colons

(* split_host_port of a text with one colon.                               *)
LEMMA SplitPlain ==
  ASSUME NEW t \in Seq(Letters), ~(t # <<>> /\ t[1] = "["), NEW c \in 1 .. Len(t), Colons(t) = {c}
  PROVE  /\ SplitHostPort(t) = Endpoint(FALSE, Before(t, c), After(t, c))
         /\ IsPlain(Before(t, c)) <=> Len(Before(t, c)) < HOST_LEN
<1>1. Min(Colons(t)) = c
  <2>1. {c} \in SUBSET Nat /\ {c} # {}
    BY EmptyLen
  <2>2. Min({c}) \in {c}
    BY <2>1, MinOf, Zenon
  <2>. QED  BY <2>2, Zenon
<1>2. ~\A i \in Colons(t) : Colons(t) # {i}
  BY Zenon
<1>3. SplitHostPort(t) = Endpoint(FALSE, Before(t, c), After(t, c))
  BY <1>1, <1>2, Zenon DEF SplitHostPort, Colons, Before, After
<1>4. IsBefore(Before(t, c), t, c)
  BY BeforeOf, Zenon
<1>5. c # 1 => t[1] # "["
  <2>1. t # <<>>
    <3>1. Len(t) # 0
      BY EmptyLen
    <3>. QED  BY <3>1, EmptyLen, Zenon
  <2>. QED  BY <2>1, Zenon
<1>6. \A k \in 1 .. c - 1 : t[k] # ":"
  <2>1. DOMAIN t = 1 .. Len(t)
    OBVIOUS
  <2>2. \A k \in 1 .. c - 1 : k \in 1 .. Len(t) /\ k # c
    <3>. DEFINE n == Len(t)
    <3>1. n \in Nat /\ c \in 1 .. n
      BY EmptyLen
    <3>. HIDE DEF n
    <3>2. \A k \in 1 .. c - 1 : k \in 1 .. n /\ k # c
      BY <3>1
    <3>. QED  BY <3>2 DEF n
  <2>3. \A k \in DOMAIN t : t[k] = ":" => k = c
    BY Zenon DEF Colons
  <2>. QED  BY <2>1, <2>2, <2>3, Zenon
<1>. QED  BY <1>3, <1>4, <1>5, <1>6, PlainBefore, Zenon DEF IsBefore

(* A text that does not begin with a bracket is read as it is written.     *)
LEMMA PlainReads ==
  ASSUME NEW t \in Seq(Letters), ~(t # <<>> /\ t[1] = "[")
  PROVE  ReadsAsWritten(t)
<1>1. DOMAIN t = 1 .. Len(t)
  OBVIOUS
<1>2. \A j \in DOMAIN t : ~BracketedAt(t, j)
  BY <1>1, NoBracket, Zenon DEF BracketedAt
<1>3. Grammar(t) = {PlainEndpoint(t, i) : i \in {j \in DOMAIN t : PlainAt(t, j)}}
  BY <1>2, GrammarIs, Zenon
<1>4. \A j \in DOMAIN t : PlainAt(t, j) => Colons(t) = {j}
  BY <1>1, OneColon, Zenon
<1>5. CASE \A i \in Colons(t) : Colons(t) # {i}
  <2>1. SplitHostPort(t) = Rejected
    BY <1>5, Zenon DEF SplitHostPort, Colons
  <2>2. \A j \in DOMAIN t : ~PlainAt(t, j)
    BY <1>4, <1>5, Zenon
  <2>3. Grammar(t) = {}
    BY <1>3, <2>2, Zenon
  <2>. QED  BY <2>1, <2>3, Zenon DEF ReadsAsWritten
<1>6. CASE ~\A i \in Colons(t) : Colons(t) # {i}
  <2>1. PICK c \in Colons(t) : Colons(t) = {c}
    BY <1>6, Zenon
  <2>2. c \in 1 .. Len(t) /\ t[c] = ":"
    BY <1>1, Zenon DEF Colons
  <2>3. SplitHostPort(t) = Endpoint(FALSE, Before(t, c), After(t, c))
    BY <2>1, <2>2, SplitPlain, Zenon
  <2>4. PlainAt(t, c) <=> Len(Before(t, c)) < HOST_LEN /\ IsPort(After(t, c))
    BY <2>1, <2>2, SplitPlain, Zenon DEF PlainAt
  <2>5. Before(t, c) \in Seq(Letters) /\ After(t, c) \in Seq(Letters)
    BY <2>2, BeforeOf, AfterOf, Zenon DEF IsBefore, IsAfter
  <2>6. /\ PlainAt(t, c) => SplitHostPort(t) = PlainEndpoint(t, c) /\ SplitHostPort(t) # Rejected
        /\ ~PlainAt(t, c) => SplitHostPort(t) = Rejected \/ Lenient(After(t, c))
    BY <2>3, <2>4, <2>5, EndpointOf, Zenon DEF PlainEndpoint
  <2>7. \A j \in DOMAIN t : PlainAt(t, j) => j = c
    BY <1>4, <2>1, Zenon
  <2>8. PlainAt(t, c) => Grammar(t) = {PlainEndpoint(t, c)}
    BY <1>1, <1>3, <2>2, <2>7, Zenon
  <2>9. ~PlainAt(t, c) => Grammar(t) = {}
    BY <1>3, <2>7, Zenon
  <2>. QED  BY <1>1, <2>2, <2>6, <2>8, <2>9, Zenon DEF ReadsAsWritten
<1>. QED  BY <1>5, <1>6, Zenon

(* A host in brackets ends at the first closing one.                       *)
LEMMA ClosedBefore ==
  ASSUME NEW t \in Seq(Letters), t[1] = "[", NEW j \in 1 .. Len(t)
  PROVE  IsBracketed(Before(t, j)) <=>
           j = Find(t, "]", 1) + 1 /\ Find(t, "]", 1) > 2 /\ Find(t, "]", 1) - 2 < HOST_LEN
<1>. DEFINE f == Find(t, "]", 1)
            n == Len(t)
<1>1. \/ f = 0 /\ \A k \in 1 .. n : t[k] # "]"
      \/ f \in 1 .. n /\ t[f] = "]" /\ \A k \in 1 .. f - 1 : t[k] # "]"
  BY FindOf, Zenon
<1>2. n \in Nat /\ j \in 1 .. n /\ HOST_LEN \in Nat
  BY EmptyLen, ConfSyntaxAssumption
<1>. HIDE DEF f, n
<1>3. ASSUME j - 1 \in 3 .. HOST_LEN + 1, t[j - 1] = "]", \A k \in 1 .. j - 2 : t[k] # "]"
      PROVE  j = f + 1 /\ f > 2 /\ f - 2 < HOST_LEN
  <2>1. j - 1 \in 1 .. n
    BY <1>2, <1>3
  <2>2. f \in 1 .. n /\ t[f] = "]" /\ \A k \in 1 .. f - 1 : t[k] # "]"
    BY <1>1, <1>3, <2>1, Zenon
  <2>3. f = j - 1 \/ f \in 1 .. j - 2 \/ j - 1 \in 1 .. f - 1
    BY <1>2, <1>3, <2>2
  <2>4. f = j - 1
    BY <1>3, <2>2, <2>3, Zenon
  <2>. QED  BY <1>2, <1>3, <2>4
<1>4. ASSUME j = f + 1, f > 2, f - 2 < HOST_LEN
      PROVE  j - 1 \in 3 .. HOST_LEN + 1 /\ t[j - 1] = "]" /\ \A k \in 1 .. j - 2 : t[k] # "]"
  <2>1. f # 0 /\ (f \in 1 .. n => j - 1 = f /\ j - 2 = f - 1)
    BY <1>2, <1>4
  <2>2. f \in 1 .. n /\ t[f] = "]" /\ \A k \in 1 .. f - 1 : t[k] # "]"
    BY <1>1, <2>1, Zenon
  <2>3. j - 1 \in 3 .. HOST_LEN + 1
    BY <1>2, <1>4, <2>2
  <2>. QED  BY <2>1, <2>2, <2>3, Zenon
<1>5. IsBracketed(Before(t, j)) <=> /\ j - 1 \in 3 .. HOST_LEN + 1 /\ t[1] = "[" /\ t[j - 1] = "]"
                                    /\ \A k \in 1 .. j - 2 : t[k] # "]"
  BY BracketedBefore, Zenon
<1>. QED  BY <1>3, <1>4, <1>5, Zenon DEF f

(* The host between the brackets.                                          *)
LEMMA HostInside ==
  ASSUME NEW t \in Seq(Letters), NEW f \in Nat, f > 2, f <= Len(t)
  PROVE  SubSeq(t, 2, f - 1) \in Seq(Letters) /\ Len(SubSeq(t, 2, f - 1)) = f - 2
         /\ SubSeq(t, 2, f - 1) # <<>> /\ \A k \in 1 .. f - 2 : SubSeq(t, 2, f - 1)[k] = t[k + 1]
<1>1. Len(t) \in Nat /\ 2 \in Int /\ f - 1 \in Int
  BY EmptyLen
<1>2. \A k \in 2 .. f - 1 : t[k] \in Letters
  BY <1>1
<1>3. /\ SubSeq(t, 2, f - 1) \in Seq(Letters)
      /\ Len(SubSeq(t, 2, f - 1)) = IF 2 <= f - 1 THEN (f - 1) - 2 + 1 ELSE 0
      /\ \A k \in 1 .. (f - 1) - 2 + 1 : SubSeq(t, 2, f - 1)[k] = t[2 + k - 1]
  BY <1>1, <1>2, SubSeqProperties, SMT
<1>4. /\ (IF 2 <= f - 1 THEN (f - 1) - 2 + 1 ELSE 0) = f - 2 /\ (f - 1) - 2 + 1 = f - 2 /\ f - 2 # 0
      /\ \A k \in 1 .. f - 2 : 2 + k - 1 = k + 1
  OBVIOUS
<1>5. SubSeq(t, 2, f - 1) # <<>>
  BY <1>3, <1>4, EmptyLen, Zenon
<1>. QED  BY <1>3, <1>4, <1>5, Zenon

(* A text that begins with a bracket is read as it is written.             *)
LEMMA BracketedReads ==
  ASSUME NEW t \in Seq(Letters), t # <<>>, t[1] = "["
  PROVE  ReadsAsWritten(t)
<1>. DEFINE f == Find(t, "]", 1)
<1>1. DOMAIN t = 1 .. Len(t) /\ Len(t) \in Nat
  OBVIOUS
<1>2. \A j \in DOMAIN t : ~PlainAt(t, j)
  <2>. SUFFICES ASSUME NEW j \in 1 .. Len(t), PlainAt(t, j) PROVE FALSE
    BY <1>1, Zenon
  <2>1. j # 1
    <3>1. ":" # "["
      OBVIOUS
    <3>. QED  BY <3>1, Zenon DEF PlainAt
  <2>. QED  BY <2>1, PlainBefore, Zenon DEF PlainAt
<1>3. Grammar(t) = {BracketedEndpoint(t, i) : i \in {j \in DOMAIN t : BracketedAt(t, j)}}
  BY <1>2, GrammarIs, Zenon
<1>4. \A j \in DOMAIN t : BracketedAt(t, j) <=>
        t[j] = ":" /\ IsPort(After(t, j)) /\ j = f + 1 /\ f > 2 /\ f - 2 < HOST_LEN
  BY <1>1, ClosedBefore, Zenon DEF BracketedAt
<1>5. f \in Nat /\ f <= Len(t)
  <2>1. f = 0 \/ f \in 1 .. Len(t)
    BY FindOf, Zenon
  <2>. HIDE DEF f
  <2>. QED  BY <1>1, <2>1
<1>6. f <= 2 <=> ~(f > 2)
  <2>. HIDE DEF f
  <2>. QED  BY <1>5
<1>7. SplitHostPort(t) = IF f <= 2 \/ f + 1 \notin Colons(t) THEN Rejected
                         ELSE Endpoint(TRUE, SubSeq(t, 2, f - 1), SubSeq(t, f + 2, Len(t)))
  BY Zenon DEF SplitHostPort, Colons
<1>. HIDE DEF f
<1>8. CASE f <= 2 \/ f + 1 \notin Colons(t)
  <2>1. \A j \in DOMAIN t : ~BracketedAt(t, j)
    BY <1>4, <1>6, <1>8, Zenon DEF Colons
  <2>2. Grammar(t) = {}
    BY <1>3, <2>1, Zenon
  <2>. QED  BY <1>7, <1>8, <2>2, Zenon DEF ReadsAsWritten
<1>9. CASE ~(f <= 2 \/ f + 1 \notin Colons(t))
  <2>. DEFINE c == f + 1
  <2>1. c \in DOMAIN t /\ t[c] = ":" /\ f > 2
    BY <1>6, <1>9, Zenon DEF Colons
  <2>2. c + 1 = f + 2 /\ c - 2 = f - 1
    BY <1>5
  <2>. HIDE DEF c
  <2>3. SplitHostPort(t) = Endpoint(TRUE, SubSeq(t, 2, f - 1), After(t, c))
    BY <1>7, <1>9, <2>2, Zenon DEF After
  <2>4. BracketedAt(t, c) <=> f - 2 < HOST_LEN /\ IsPort(After(t, c))
    BY <1>4, <2>1, Zenon DEF c
  <2>. DEFINE h == SubSeq(t, 2, f - 1)
  <2>5. h \in Seq(Letters) /\ Len(h) = f - 2 /\ h # <<>>
    BY <1>5, <2>1, HostInside, Zenon
  <2>6. After(t, c) \in Seq(Letters)
    BY <1>1, <2>1, AfterOf, Zenon DEF IsAfter
  <2>7. BracketedEndpoint(t, c) = <<TRUE, h, NumeralValue(Unsigned(After(t, c)))>>
    BY <2>2, Zenon DEF BracketedEndpoint
  <2>. HIDE DEF h
  <2>8. /\ BracketedAt(t, c) => SplitHostPort(t) = BracketedEndpoint(t, c) /\ SplitHostPort(t) # Rejected
        /\ ~BracketedAt(t, c) => SplitHostPort(t) = Rejected \/ Lenient(After(t, c))
    BY <2>3, <2>4, <2>5, <2>6, <2>7, EndpointOf, Zenon DEF h
  <2>9. \A j \in DOMAIN t : BracketedAt(t, j) => j = c
    BY <1>4, Zenon DEF c
  <2>10. BracketedAt(t, c) => Grammar(t) = {BracketedEndpoint(t, c)}
    BY <1>3, <2>1, <2>9, Zenon
  <2>11. ~BracketedAt(t, c) => Grammar(t) = {}
    BY <1>3, <2>9, Zenon
  <2>. QED  BY <2>1, <2>8, <2>10, <2>11, Zenon DEF ReadsAsWritten
<1>. QED  BY <1>8, <1>9, Zenon

(* split_host_port: every text of the grammar is read as the one endpoint  *)
(* the grammar gives it, and every other is refused, unless its port       *)
(* begins with a blank or a minus.                                         *)
THEOREM AllReadAsWritten == ASSUME NEW t \in Seq(Letters) PROVE ReadsAsWritten(t)
BY PlainReads, BracketedReads, Zenon

(* One step of writing a number.                                           *)
Written(n, r) == IF n < 10 THEN <<Digits[n + 1]>> ELSE r \o <<Digits[(n % 10) + 1]>>

(* Division by ten.                                                        *)
LEMMA Tenth ==
  ASSUME NEW n \in Nat
  PROVE  /\ n \div 10 \in Nat /\ n \div 10 <= n /\ n % 10 \in Nat /\ n % 10 < 10
         /\ n = 10 * (n \div 10) + (n % 10) /\ (n >= 10 => ~(n <= n \div 10))
OBVIOUS

(* f writes the numbers up to m.                                           *)
WrittenTo(m, f) == f = [n \in 0 .. m |-> Written(n, f[n \div 10])]

(* It writes n.                                                            *)
Reaches(f, m, n) == m \in Nat /\ WrittenTo(m, f) /\ n \in Nat /\ n <= m

(* What it writes.                                                         *)
LEMMA WrittenAt ==
  ASSUME NEW f, NEW m, NEW n, Reaches(f, m, n)
  PROVE  f[n] = Written(n, f[n \div 10])
<1>1. n \in 0 .. m
  BY DEF Reaches
<1>. QED  BY <1>1, Zenon DEF WrittenTo, Reaches

(* Two such functions write the same.                                      *)
LEMMA SameWritten ==
  ASSUME NEW f, NEW m, NEW g, NEW k, NEW i, Reaches(f, m, i), Reaches(g, k, i)
  PROVE  f[i] = g[i]
<1>. DEFINE T == {n \in Nat : n <= m /\ n <= k /\ f[n] # g[n]}
<1>2. m \in Nat /\ k \in Nat /\ WrittenTo(m, f) /\ WrittenTo(k, g) /\ i \in Nat /\ i <= m /\ i <= k
  BY Zenon DEF Reaches
<1>1. T = {}
  <2>. SUFFICES ASSUME T # {} PROVE FALSE
    BY Zenon
  <2>1. PICK n \in T : \A j \in T : n <= j
    <3>1. T \in SUBSET Nat
      BY Zenon
    <3>. HIDE DEF T
    <3>. QED  BY <3>1, NatMin, Zenon
  <2>2. n \in Nat /\ n <= m /\ n <= k /\ f[n] # g[n]
    BY Zenon
  <2>3. f[n] = Written(n, f[n \div 10]) /\ g[n] = Written(n, g[n \div 10])
    <3>1. Reaches(f, m, n) /\ Reaches(g, k, n)
      BY <1>2, <2>2, Zenon DEF Reaches
    <3>. QED  BY <3>1, WrittenAt, Zenon
  <2>4. ~(n < 10)
    BY <2>2, <2>3, Zenon DEF Written
  <2>5. n \div 10 \in Nat /\ n \div 10 <= m /\ n \div 10 <= k /\ ~(n <= n \div 10)
    <3>1. n \div 10 \in Nat /\ n \div 10 <= n /\ (n >= 10 => ~(n <= n \div 10))
      BY <2>2, Tenth
    <3>2. n >= 10
      BY <2>2, <2>4
    <3>. DEFINE d == n \div 10
    <3>. HIDE DEF d
    <3>3. d \in Nat /\ d <= n
      BY <3>1 DEF d
    <3>4. d <= m /\ d <= k
      BY <1>2, <2>2, <3>3
    <3>. QED  BY <3>1, <3>2, <3>4, Zenon DEF d
  <2>6. f[n \div 10] = g[n \div 10]
    BY <2>1, <2>5, Zenon
  <2>. QED  BY <2>2, <2>3, <2>6, Zenon
<1>. QED  BY <1>1, <1>2, Zenon

(* There is one for every m.                                               *)
LEMMA WrittenExists == ASSUME NEW m \in Nat PROVE \E f : WrittenTo(m, f)
<1>. DEFINE T == {k \in Nat : ~\E f : WrittenTo(k, f)}
<1>1. T = {}
  <2>. SUFFICES ASSUME T # {} PROVE FALSE
    BY Zenon
  <2>1. PICK k \in T : \A j \in T : k <= j
    <3>1. T \in SUBSET Nat
      BY Zenon
    <3>. HIDE DEF T
    <3>. QED  BY <3>1, NatMin, Zenon
  <2>2. k \in Nat /\ ~\E f : WrittenTo(k, f)
    BY Zenon
  <2>3. CASE k = 0
    <3>. DEFINE g == [n \in 0 .. 0 |-> Written(0, 0)]
    <3>1. \A n \in 0 .. 0 : n = 0
      OBVIOUS
    <3>2. \A x, y : Written(0, x) = Written(0, y)
      <4>1. 0 < 10
        OBVIOUS
      <4>. QED  BY <4>1, Zenon DEF Written
    <3>3. \A n \in 0 .. 0 : g[n] = Written(n, g[n \div 10])
      BY <3>1, <3>2, Zenon
    <3>4. g = [n \in 0 .. 0 |-> g[n]]
      BY Zenon
    <3>. HIDE DEF g
    <3>5. WrittenTo(0, g)
      BY <3>3, <3>4, Zenon DEF WrittenTo
    <3>. QED  BY <2>2, <2>3, <3>5, Zenon
  <2>4. CASE k # 0
    <3>1. k - 1 \in Nat /\ ~(k <= k - 1)
      BY <2>2, <2>4
    <3>2. PICK f : WrittenTo(k - 1, f)
      BY <2>1, <3>1, Zenon
    <3>. DEFINE g == [n \in 0 .. k |-> IF n = k THEN Written(k, f[k \div 10]) ELSE f[n]]
    <3>3. \A n \in Nat : n <= k - 1 => n \in 0 .. k /\ n # k
      BY <2>2, <2>4
    <3>4. \A n \in Nat : n <= k - 1 => g[n] = f[n]
      BY <3>3, Zenon
    <3>5. k \in 0 .. k
      BY <2>2
    <3>6. g[k] = Written(k, f[k \div 10])
      BY <3>5, Zenon
    <3>7. g = [n \in 0 .. k |-> g[n]]
      BY Zenon
    <3>. HIDE DEF g
    <3>8. ASSUME NEW n \in 0 .. k PROVE g[n] = Written(n, g[n \div 10])
      <4>1. n \in Nat /\ n <= k /\ (n = k \/ n <= k - 1)
        BY <2>2
      <4>2. n \div 10 \in Nat /\ (n < 10 \/ n \div 10 <= k - 1)
        <5>1. n \div 10 \in Nat /\ (n >= 10 => ~(n <= n \div 10))
          BY <4>1, Tenth
        <5>. DEFINE d == n \div 10
        <5>. HIDE DEF d
        <5>2. d \in Nat /\ (n >= 10 => ~(n <= d))
          BY <5>1 DEF d
        <5>3. n < 10 \/ d <= k - 1
          BY <2>2, <4>1, <5>2
        <5>. QED  BY <5>1, <5>3, Zenon DEF d
      <4>3. g[n] = Written(n, f[n \div 10])
        <5>1. CASE n = k
          BY <3>6, <5>1, Zenon
        <5>2. CASE n <= k - 1
          <6>1. Reaches(f, k - 1, n)
            BY <3>1, <3>2, <4>1, <5>2, Zenon DEF Reaches
          <6>. QED  BY <3>4, <4>1, <5>2, <6>1, WrittenAt, Zenon
        <5>. QED  BY <4>1, <5>1, <5>2, Zenon
      <4>4. CASE n < 10
        BY <4>3, <4>4, Zenon DEF Written
      <4>5. CASE n \div 10 <= k - 1
        BY <3>4, <4>2, <4>3, <4>5, Zenon
      <4>. QED  BY <4>2, <4>4, <4>5, Zenon
    <3>9. WrittenTo(k, g)
      BY <3>7, <3>8, Zenon DEF WrittenTo
    <3>. QED  BY <2>2, <3>9, Zenon
  <2>. QED  BY <2>3, <2>4, Zenon
<1>. QED  BY <1>1, Zenon

(* Decimal, unfolded.                                                      *)
LEMMA DecimalUnfolds == ASSUME NEW n \in Nat PROVE Decimal[n] = Written(n, Decimal[n \div 10])
<1>. DEFINE c(m) == CHOOSE f : WrittenTo(m, f)
            g == [m \in Nat |-> c(m)[m]]
<1>1. \A m \in Nat : WrittenTo(m, c(m))
  BY WrittenExists, Zenon
<1>. HIDE DEF c
<1>2. ASSUME NEW m \in Nat PROVE g[m] = Written(m, g[m \div 10])
  <2>1. m \div 10 \in Nat /\ m \div 10 <= m
    BY Tenth
  <2>2. m <= m
    OBVIOUS
  <2>3. c(m)[m] = Written(m, c(m)[m \div 10])
    <3>1. Reaches(c(m), m, m)
      BY <1>1, <2>2, Zenon DEF Reaches
    <3>. QED  BY <3>1, WrittenAt, Zenon
  <2>4. m \div 10 <= m \div 10
    BY <2>1
  <2>5. c(m)[m \div 10] = c(m \div 10)[m \div 10]
    <3>1. Reaches(c(m), m, m \div 10)
      BY <1>1, <2>1, Zenon DEF Reaches
    <3>2. Reaches(c(m \div 10), m \div 10, m \div 10)
      BY <1>1, <2>1, <2>4, Zenon DEF Reaches
    <3>. QED  BY <3>1, <3>2, SameWritten, SMTT(20)
  <2>. QED  BY <2>1, <2>3, <2>5, Zenon
<1>3. g = [m \in Nat |-> g[m]]
  BY Zenon
<1>. HIDE DEF g
<1>4. g = [m \in Nat |-> Written(m, g[m \div 10])]
  BY <1>2, <1>3, Zenon
<1>5. \E f : f = [m \in Nat |-> IF m < 10 THEN <<Digits[m + 1]>> ELSE f[m \div 10] \o <<Digits[(m % 10) + 1]>>]
  BY <1>4, Zenon DEF Written
<1>6. Decimal = [m \in Nat |-> IF m < 10 THEN <<Digits[m + 1]>> ELSE Decimal[m \div 10] \o <<Digits[(m % 10) + 1]>>]
  BY <1>5, Zenon DEF Decimal
<1>. QED  BY <1>6, Zenon DEF Written

(* s is a numeral with value v.                                            *)
Numeral(s, v) == s \in Seq(Letters) /\ IsNumeral(s) /\ NumeralValue(s) = v

(* A sequence of one.                                                      *)
LEMMA Single == ASSUME NEW S, NEW c \in S PROVE <<c>> \in Seq(S) /\ Len(<<c>>) = 1 /\ <<c>>[1] = c
OBVIOUS

(* A text with one more letter.                                            *)
LEMMA OneMore ==
  ASSUME NEW s \in Seq(Letters), NEW c \in Letters
  PROVE  /\ s \o <<c>> \in Seq(Letters) /\ Len(s \o <<c>>) = Len(s) + 1
         /\ \A i \in 1 .. Len(s) : (s \o <<c>>)[i] = s[i]
         /\ (s \o <<c>>)[Len(s) + 1] = c
<1>1. <<c>> \in Seq(Letters) /\ Len(<<c>>) = 1 /\ <<c>>[1] = c
  BY Single, Zenon
<1>2. /\ s \o <<c>> \in Seq(Letters)
      /\ Len(s \o <<c>>) = Len(s) + Len(<<c>>)
      /\ \A i \in 1 .. Len(s) + Len(<<c>>) : (s \o <<c>>)[i] = IF i <= Len(s) THEN s[i] ELSE <<c>>[i - Len(s)]
  BY <1>1, ConcatProperties, Zenon
<1>. DEFINE n == Len(s)
            r == s \o <<c>>
            d == <<c>>
<1>3. n \in Nat
  BY EmptyLen
<1>. HIDE DEF n, r, d
<1>4. \A i \in 1 .. n + 1 : r[i] = IF i <= n THEN s[i] ELSE d[i - n]
  BY <1>1, <1>2, Zenon DEF n, r, d
<1>5. /\ \A i \in 1 .. n : i \in 1 .. n + 1 /\ i <= n
      /\ n + 1 \in 1 .. n + 1 /\ ~(n + 1 <= n) /\ (n + 1) - n = 1
  BY <1>3
<1>6. \A i \in 1 .. n : r[i] = s[i]
  BY <1>4, <1>5, Zenon
<1>7. r[n + 1] = c
  BY <1>1, <1>4, <1>5, Zenon DEF d
<1>. QED  BY <1>1, <1>2, <1>6, <1>7, Zenon DEF n, r

(* A numeral with one more digit.                                          *)
LEMMA DigitAppended ==
  ASSUME NEW s \in Seq(Letters), Range(s) \subseteq Range(Digits), NEW c \in Range(Digits)
  PROVE  /\ NumeralValue(s) \in Nat
         /\ Numeral(s \o <<c>>, 10 * NumeralValue(s) + DigitOf(c))
<1>. DEFINE r == s \o <<c>>
            n == Len(s)
<1>0. c \in Letters
  BY ConfSyntaxAssumption, Zenon
<1>1. r \in Seq(Letters) /\ Len(r) = n + 1 /\ (\A i \in 1 .. n : r[i] = s[i]) /\ r[n + 1] = c
  BY <1>0, OneMore, Zenon
<1>2. n \in Nat /\ DOMAIN s = 1 .. n
  BY EmptyLen
<1>. HIDE DEF r, n
<1>3. /\ n <= n + 1 /\ n + 1 \in Nat /\ n \in 0 .. n /\ n + 1 \in 1 .. n + 1 /\ (n + 1) - 1 = n
      /\ n + 1 # 0 /\ \A i \in 1 .. n + 1 : i \in 1 .. n \/ i = n + 1
  BY <1>2
<1>4. \A i \in 1 .. n : r[i] = s[i] /\ s[i] \in Range(Digits)
  BY <1>1, <1>2, Zenon DEF Range
<1>5. PrefixValues(r)[n] = PrefixValues(s)[n] /\ PrefixValues(s)[n] \in Nat
  <2>1. \A k \in 0 .. Len(s) : PrefixValues(r)[k] = PrefixValues(s)[k] /\ PrefixValues(s)[k] \in Nat
    <3>1. Len(s) \in Nat /\ Len(r) \in Nat /\ Len(s) <= Len(r)
      BY <1>1, <1>2, <1>3, Zenon DEF n
    <3>2. \A i \in 1 .. Len(s) : r[i] = s[i] /\ s[i] \in Range(Digits)
      BY <1>4, Zenon DEF n
    <3>. QED  BY <3>1, <3>2, ValuesAgree, Zenon
  <2>. QED  BY <1>3, <2>1, Zenon DEF n
<1>6. PrefixValues(r)[n + 1] = 10 * PrefixValues(r)[n] + DigitOf(c)
  <2>1. Len(r) \in Nat /\ n + 1 \in 1 .. Len(r)
    BY <1>1, <1>3, Zenon
  <2>2. PrefixValues(r)[n + 1] = 10 * PrefixValues(r)[(n + 1) - 1] + DigitOf(r[n + 1])
    BY <2>1, ValuesUnfold, Zenon
  <2>. QED  BY <1>1, <1>3, <2>2, Zenon
<1>7. NumeralValue(s) = PrefixValues(s)[n] /\ NumeralValue(r) = PrefixValues(r)[n + 1]
  BY <1>1, Zenon DEF NumeralValue, n
<1>8. NumeralValue(r) = 10 * NumeralValue(s) + DigitOf(c)
  BY <1>5, <1>6, <1>7, Zenon
<1>9. IsNumeral(r)
  <2>1. DOMAIN r = 1 .. n + 1
    <3>1. DOMAIN r = 1 .. Len(r)
      BY <1>1
    <3>. QED  BY <1>1, <3>1, Zenon
  <2>2. Range(r) \subseteq Range(Digits)
    BY <1>1, <1>3, <1>4, <2>1, Zenon DEF Range
  <2>3. r # <<>>
    BY <1>1, <1>3, EmptyLen, Zenon
  <2>. QED  BY <2>2, <2>3, Zenon DEF IsNumeral
<1>. QED  BY <1>1, <1>5, <1>7, <1>8, <1>9, Zenon DEF Numeral, r

(* What is written for a number has its value.                             *)
LEMMA DecimalValue == ASSUME NEW n \in Nat PROVE Numeral(Decimal[n], n)
<1>. DEFINE T == {k \in Nat : ~Numeral(Decimal[k], k)}
<1>1. T = {}
  <2>. SUFFICES ASSUME T # {} PROVE FALSE
    BY Zenon
  <2>1. PICK k \in T : \A j \in T : k <= j
    <3>1. T \in SUBSET Nat
      BY Zenon
    <3>. HIDE DEF T
    <3>. QED  BY <3>1, NatMin, Zenon
  <2>2. k \in Nat /\ ~Numeral(Decimal[k], k)
    BY Zenon
  <2>3. Decimal[k] = Written(k, Decimal[k \div 10])
    BY <2>2, DecimalUnfolds, Zenon
  <2>4. CASE k < 10
    <3>1. <<>> \in Seq(Letters) /\ Range(<<>>) \subseteq Range(Digits) /\ Len(<<>>) = 0
      BY DEF Range
    <3>2. Digits[k + 1] \in Range(Digits) /\ DigitOf(Digits[k + 1]) = k
      BY <2>2, <2>4, DigitAt, Zenon
    <3>. DEFINE c == Digits[k + 1]
    <3>. HIDE DEF c
    <3>3. Numeral(<<>> \o <<c>>, 10 * NumeralValue(<<>>) + DigitOf(c))
      BY <3>1, <3>2, DigitAppended, Zenon DEF c
    <3>4. NumeralValue(<<>>) = 0
      <4>1. Len(<<>>) \in Nat
        BY <3>1
      <4>. QED  BY <3>1, <4>1, ValuesUnfold, Zenon DEF NumeralValue
    <3>5. <<>> \o <<c>> = <<c>>
      <4>1. c \in Letters
        BY <3>2, ConfSyntaxAssumption, Zenon DEF c
      <4>2. <<c>> \in Seq(Letters)
        BY <4>1, Single, Zenon
      <4>. QED  BY <4>2, ConcatEmptySeq, Zenon
    <3>6. 10 * 0 + k = k
      BY <2>2
    <3>7. Numeral(<<c>>, k)
      BY <3>2, <3>3, <3>4, <3>5, <3>6, Zenon DEF c
    <3>8. Decimal[k] = <<c>>
      BY <2>3, <2>4, Zenon DEF Written, c
    <3>. QED  BY <2>2, <3>7, <3>8, Zenon
  <2>5. CASE ~(k < 10)
    <3>1. k \div 10 \in Nat /\ ~(k <= k \div 10)
      <4>1. k >= 10
        BY <2>2, <2>5
      <4>. QED  BY <2>2, <4>1, Tenth
    <3>2. k % 10 \in Nat /\ k % 10 < 10
      BY <2>2, Tenth
    <3>3. k = 10 * (k \div 10) + (k % 10)
      BY <2>2, Tenth
    <3>. DEFINE s == Decimal[k \div 10]
                c == Digits[(k % 10) + 1]
    <3>4. Numeral(s, k \div 10)
      BY <2>1, <3>1, Zenon
    <3>5. c \in Range(Digits) /\ DigitOf(c) = k % 10
      BY <3>2, DigitAt, Zenon
    <3>6. Decimal[k] = s \o <<c>>
      BY <2>3, <2>5, Zenon DEF Written
    <3>. HIDE DEF s, c
    <3>7. s \in Seq(Letters) /\ Range(s) \subseteq Range(Digits) /\ NumeralValue(s) = k \div 10
      BY <3>4, Zenon DEF Numeral, IsNumeral
    <3>8. Numeral(s \o <<c>>, 10 * NumeralValue(s) + DigitOf(c))
      BY <3>5, <3>7, DigitAppended, Zenon
    <3>9. 10 * NumeralValue(s) + DigitOf(c) = k
      BY <3>3, <3>5, <3>7, Zenon
    <3>. QED  BY <2>2, <3>6, <3>8, <3>9, Zenon
  <2>. QED  BY <2>4, <2>5, Zenon
<1>. QED  BY <1>1, Zenon

(* What is written for a port is read as that port.                        *)
LEMMA DecimalPort ==
  ASSUME NEW n \in 1 .. PORT_MAX
  PROVE  /\ Decimal[n] \in Seq(Letters) /\ IsPort(Decimal[n])
         /\ NumeralValue(Unsigned(Decimal[n])) = n
<1>. DEFINE d == Decimal[n]
<1>1. n \in Nat
  BY ConfSyntaxAssumption
<1>2. d \in Seq(Letters) /\ IsNumeral(d) /\ NumeralValue(d) = n
  BY <1>1, DecimalValue, Zenon DEF Numeral
<1>. HIDE DEF d
<1>3. Unsigned(d) = d
  <2>1. d # <<>> /\ Range(d) \subseteq Range(Digits)
    BY <1>2, Zenon DEF IsNumeral
  <2>2. 1 \in DOMAIN d
    <3>1. Len(d) \in Nat \ {0}
      BY <1>2, <2>1, EmptyLen
    <3>. QED  BY <1>2, <3>1
  <2>3. "+" \notin Range(Digits)
    BY DigitsAre
  <2>4. d[1] # "+"
    BY <2>1, <2>2, <2>3, Zenon DEF Range
  <2>. QED  BY <2>4, Zenon DEF Unsigned
<1>. QED  BY <1>2, <1>3, Zenon DEF IsPort, d

(* A text that is x, one letter and d.                                     *)
Parted(r, x, c, d) ==
  /\ r \in Seq(Letters) /\ Len(r) = (Len(x) + 1) + Len(d) /\ r[Len(x) + 1] = c
  /\ \A k \in 1 .. Len(x) : r[k] = x[k]
  /\ \A k \in 1 .. Len(d) : r[(Len(x) + 1) + k] = d[k]

(* Concatenation makes such a text.                                        *)
LEMMA PartedText ==
  ASSUME NEW x \in Seq(Letters), NEW c \in Letters, NEW d \in Seq(Letters)
  PROVE  Parted(x \o <<c>> \o d, x, c, d)
<1>. DEFINE y == x \o <<c>>
            r == y \o d
            n == Len(x)
            m == Len(d)
<1>1. y \in Seq(Letters) /\ Len(y) = n + 1 /\ (\A i \in 1 .. n : y[i] = x[i]) /\ y[n + 1] = c
  BY OneMore, Zenon
<1>2. n \in Nat /\ m \in Nat
  BY EmptyLen
<1>. HIDE DEF y, n
<1>3. /\ r \in Seq(Letters) /\ Len(r) = Len(y) + m
      /\ \A i \in 1 .. Len(y) + m : r[i] = IF i <= Len(y) THEN y[i] ELSE d[i - Len(y)]
  BY <1>1, ConcatProperties, Zenon
<1>. HIDE DEF r, m
<1>4. \A i \in 1 .. (n + 1) + m : r[i] = IF i <= n + 1 THEN y[i] ELSE d[i - (n + 1)]
  BY <1>1, <1>3, Zenon
<1>5. /\ \A i \in 1 .. n : i \in 1 .. (n + 1) + m /\ i <= n + 1
      /\ n + 1 \in 1 .. (n + 1) + m /\ n + 1 <= n + 1
      /\ \A k \in 1 .. m : (n + 1) + k \in 1 .. (n + 1) + m /\ ~((n + 1) + k <= n + 1) /\ ((n + 1) + k) - (n + 1) = k
  BY <1>2
<1>6. \A k \in 1 .. n : r[k] = x[k]
  BY <1>1, <1>4, <1>5, Zenon
<1>7. r[n + 1] = c
  BY <1>1, <1>4, <1>5, Zenon
<1>8. \A k \in 1 .. m : r[(n + 1) + k] = d[k]
  BY <1>4, <1>5, Zenon
<1>9. Len(r) = (n + 1) + m
  BY <1>1, <1>3, Zenon
<1>. QED  BY <1>3, <1>6, <1>7, <1>8, <1>9, Zenon DEF Parted, r, y, n, m

(* Such a text is parted again at that letter.                             *)
LEMMA PartedAt ==
  ASSUME NEW x \in Seq(Letters), NEW d \in Seq(Letters), NEW c, NEW r, Parted(r, x, c, d)
  PROVE  /\ r \in Seq(Letters) /\ Len(x) + 1 \in 1 .. Len(r) /\ r[Len(x) + 1] = c
         /\ Before(r, Len(x) + 1) = x /\ After(r, Len(x) + 1) = d
<1>. DEFINE n == Len(x)
            m == Len(d)
            l == Len(r)
            i == n + 1
            b == Before(r, i)
            a == After(r, i)
<1>1. n \in Nat /\ m \in Nat
  BY EmptyLen
<1>2. /\ r \in Seq(Letters) /\ l = i + m /\ r[i] = c
      /\ (\A k \in 1 .. n : r[k] = x[k]) /\ \A k \in 1 .. m : r[i + k] = d[k]
  BY Zenon DEF Parted
<1>3. i \in 1 .. l /\ i - 1 = n /\ l - i = m
  <2>1. l = (n + 1) + m
    BY <1>2
  <2>. HIDE DEF n, m, l
  <2>2. n + 1 \in 1 .. l /\ (n + 1) - 1 = n /\ l - (n + 1) = m
    BY <1>1, <2>1
  <2>. QED  BY <2>2, Zenon
<1>. HIDE DEF n, m, i
<1>4. IsBefore(b, r, i) /\ IsAfter(a, r, i)
  BY <1>2, <1>3, BeforeOf, AfterOf, Zenon
<1>. HIDE DEF a, b, l
<1>5. b = x
  <2>1. b \in Seq(Letters) /\ Len(b) = n /\ \A k \in 1 .. n : b[k] = r[k]
    BY <1>3, <1>4, Zenon DEF IsBefore
  <2>2. Len(b) = Len(x) /\ \A k \in 1 .. Len(b) : b[k] = x[k]
    BY <1>2, <2>1, Zenon DEF n
  <2>. QED  BY <2>1, <2>2, SeqEqual, Zenon
<1>6. a = d
  <2>1. a \in Seq(Letters) /\ Len(a) = m /\ \A k \in 1 .. m : a[k] = r[i + k]
    BY <1>3, <1>4, Zenon DEF IsAfter, l
  <2>2. Len(a) = Len(d) /\ \A k \in 1 .. Len(a) : a[k] = d[k]
    BY <1>2, <2>1, Zenon DEF m
  <2>. QED  BY <2>1, <2>2, SeqEqual, Zenon
<1>. QED  BY <1>2, <1>3, <1>5, <1>6, Zenon DEF a, b, i, n, l

(* If the grammar takes a text for e, it is read as e.                     *)
LEMMA OnlyReading ==
  ASSUME NEW r \in Seq(Letters), NEW e \in Grammar(r)
  PROVE  SplitHostPort(r) = e
<1>1. ReadsAsWritten(r)
  BY AllReadAsWritten, Zenon
<1>. QED  BY <1>1, Zenon DEF ReadsAsWritten

(* What endpoint_to_string writes for an IPv4 host and port is read back.  *)
LEMMA PlainRoundTrip ==
  ASSUME NEW x \in Seq(Letters), x # <<>>, IsPlain(x), NEW v \in 1 .. PORT_MAX
  PROVE  SplitHostPort(EndpointText(<<FALSE, x, v>>)) = <<FALSE, x, v>>
<1>. DEFINE d == Decimal[v]
            r == x \o <<":">> \o d
            i == Len(x) + 1
<1>1. d \in Seq(Letters) /\ IsPort(d) /\ NumeralValue(Unsigned(d)) = v
  BY DecimalPort, Zenon
<1>2. EndpointText(<<FALSE, x, v>>) = r
  BY Zenon DEF EndpointText
<1>. HIDE DEF d
<1>3. ":" \in Letters
  BY ConfSyntaxAssumption, Zenon
<1>4. Parted(r, x, ":", d)
  BY <1>1, <1>3, PartedText, Zenon
<1>. HIDE DEF r
<1>5. r \in Seq(Letters) /\ i \in 1 .. Len(r) /\ r[i] = ":" /\ Before(r, i) = x /\ After(r, i) = d
  BY <1>1, <1>4, PartedAt, Zenon
<1>. HIDE DEF i
<1>6. i \in DOMAIN r
  BY <1>5
<1>7. PlainAt(r, i)
  BY <1>1, <1>5, Zenon DEF PlainAt
<1>8. PlainEndpoint(r, i) = <<FALSE, x, v>>
  BY <1>1, <1>5, Zenon DEF PlainEndpoint
<1>9. <<FALSE, x, v>> \in Grammar(r)
  BY <1>6, <1>7, <1>8, GrammarIs, Zenon
<1>. QED  BY <1>2, <1>5, <1>9, OnlyReading, Zenon

(* What it writes for an IPv6 host and port is read back.                  *)
LEMMA BracketedRoundTrip ==
  ASSUME NEW x \in Seq(Letters), x # <<>>, "]" \notin Range(x), Len(x) < HOST_LEN, NEW v \in 1 .. PORT_MAX
  PROVE  SplitHostPort(EndpointText(<<TRUE, x, v>>)) = <<TRUE, x, v>>
<1>. DEFINE d == Decimal[v]
            y == <<"[">> \o x \o <<"]">>
            r == y \o <<":">> \o d
            n == Len(x)
            i == Len(y) + 1
<1>1. d \in Seq(Letters) /\ IsPort(d) /\ NumeralValue(Unsigned(d)) = v
  BY DecimalPort, Zenon
<1>2. EndpointText(<<TRUE, x, v>>) = r
  BY Zenon DEF EndpointText
<1>. HIDE DEF d
<1>3. ":" \in Letters /\ "[" \in Letters /\ "]" \in Letters
  BY ConfSyntaxAssumption, Zenon
<1>4. /\ y \in Seq(Letters) /\ Len(y) = n + 2 /\ y[1] = "[" /\ y[n + 2] = "]"
      /\ \A k \in 1 .. n : y[k + 1] = x[k]
  <2>. DEFINE z == <<"[">> \o x
  <2>1. <<"[">> \in Seq(Letters) /\ Len(<<"[">>) = 1 /\ <<"[">>[1] = "["
    BY <1>3, Single, Zenon
  <2>2. /\ z \in Seq(Letters) /\ Len(z) = Len(<<"[">>) + n
        /\ \A k \in 1 .. Len(<<"[">>) + n : z[k] = IF k <= Len(<<"[">>) THEN <<"[">>[k] ELSE x[k - Len(<<"[">>)]
    BY <2>1, ConcatProperties, Zenon
  <2>. HIDE DEF z
  <2>3. n \in Nat
    BY EmptyLen
  <2>. HIDE DEF n
  <2>4. \A k \in 1 .. 1 + n : z[k] = IF k <= 1 THEN <<"[">>[k] ELSE x[k - 1]
    BY <2>1, <2>2, Zenon
  <2>5. /\ 1 \in 1 .. 1 + n /\ 1 <= 1 /\ 1 + n = n + 1
        /\ \A k \in 1 .. n : k + 1 \in 1 .. 1 + n /\ ~(k + 1 <= 1) /\ (k + 1) - 1 = k
        /\ (n + 1) + 1 = n + 2
    BY <2>3
  <2>6. z[1] = "[" /\ \A k \in 1 .. n : z[k + 1] = x[k]
    <3>1. z[1] = "["
      BY <2>1, <2>4, <2>5, Zenon
    <3>2. ASSUME NEW k \in 1 .. n PROVE z[k + 1] = x[k]
      <4>1. k + 1 \in 1 .. 1 + n /\ ~(k + 1 <= 1) /\ (k + 1) - 1 = k
        BY <2>5, Zenon
      <4>2. z[k + 1] = x[(k + 1) - 1]
        BY <2>4, <4>1, Zenon
      <4>. QED  BY <4>1, <4>2, Zenon
    <3>. QED  BY <3>1, <3>2, Zenon
  <2>7. Len(z) = n + 1
    BY <2>1, <2>2, <2>5, Zenon
  <2>8. y = z \o <<"]">>
    BY Zenon DEF z
  <2>. HIDE DEF y
  <2>9. /\ y \in Seq(Letters) /\ Len(y) = Len(z) + 1
        /\ (\A k \in 1 .. Len(z) : y[k] = z[k]) /\ y[Len(z) + 1] = "]"
    BY <1>3, <2>2, <2>8, OneMore, Zenon
  <2>10. y \in Seq(Letters) /\ Len(y) = n + 2 /\ y[n + 2] = "]" /\ \A k \in 1 .. 1 + n : y[k] = z[k]
    BY <2>5, <2>7, <2>9, Zenon
  <2>. QED  BY <2>5, <2>6, <2>10, Zenon
<1>. HIDE DEF y
<1>5. Parted(r, y, ":", d)
  BY <1>1, <1>3, <1>4, PartedText, Zenon
<1>. HIDE DEF r
<1>6. r \in Seq(Letters) /\ i \in 1 .. Len(r) /\ r[i] = ":" /\ After(r, i) = d
  <2>1. y \in Seq(Letters) /\ d \in Seq(Letters)
    BY <1>1, <1>4, Zenon
  <2>. QED  BY <1>5, <2>1, PartedAt, Zenon
<1>7. \A k \in 1 .. n + 2 : r[k] = y[k]
  BY <1>4, <1>5, Zenon DEF Parted
<1>8. n \in Nat /\ n > 0 /\ n < HOST_LEN /\ HOST_LEN \in Nat
  <2>1. Len(x) \in Nat /\ Len(x) # 0 /\ HOST_LEN \in Nat
    BY EmptyLen, ConfSyntaxAssumption, Zenon
  <2>. QED  BY <2>1
<1>9. i = n + 3
  BY <1>4, <1>8
<1>. HIDE DEF n, i
<1>10. /\ i - 1 = n + 2 /\ i - 2 = n + 1 /\ n + 2 \in 3 .. HOST_LEN + 1
       /\ 1 \in 1 .. n + 2 /\ n + 2 \in 1 .. n + 2
       /\ \A k \in 1 .. n : k + 1 \in 1 .. n + 2
       /\ \A k \in 1 .. n + 1 : k \in 1 .. n + 2 /\ (k = 1 \/ (k - 1 \in 1 .. n /\ (k - 1) + 1 = k))
  BY <1>8, <1>9
<1>11. IsBracketed(Before(r, i))
  <2>1. r[1] = "[" /\ r[n + 2] = "]"
    BY <1>4, <1>7, <1>10, Zenon
  <2>2. \A k \in 1 .. n : x[k] # "]"
    BY NotIn, Zenon DEF n
  <2>3. "[" # "]"
    OBVIOUS
  <2>4. \A k \in 1 .. n + 1 : y[k] # "]"
    <3>. SUFFICES ASSUME NEW k \in 1 .. n + 1 PROVE y[k] # "]"
      BY Zenon
    <3>1. CASE k = 1
      BY <1>4, <2>3, <3>1, Zenon
    <3>2. CASE k - 1 \in 1 .. n /\ (k - 1) + 1 = k
      <4>1. y[(k - 1) + 1] = x[k - 1]
        BY <1>4, <3>2, Zenon
      <4>. QED  BY <2>2, <3>2, <4>1, Zenon
    <3>. QED  BY <1>10, <3>1, <3>2, Zenon
  <2>5. \A k \in 1 .. n + 1 : r[k] # "]"
    BY <1>7, <1>10, <2>4, Zenon
  <2>. QED  BY <1>6, <1>10, <2>1, <2>5, BracketedBefore, Zenon
<1>12. SubSeq(r, 2, i - 2) = x
  <2>. DEFINE h == SubSeq(r, 2, (n + 2) - 1)
  <2>1. n + 2 \in Nat /\ n + 2 > 2 /\ (n + 2) - 2 = n /\ (n + 2) - 1 = n + 1
    BY <1>8
  <2>2. n + 2 <= Len(r)
    <3>1. Len(r) \in Nat
      BY <1>6, EmptyLen
    <3>. QED  BY <1>6, <1>8, <1>9, <3>1
  <2>3. h \in Seq(Letters) /\ Len(h) = n /\ \A k \in 1 .. n : h[k] = r[k + 1]
    BY <1>6, <2>1, <2>2, HostInside, Zenon
  <2>4. h = SubSeq(r, 2, i - 2)
    BY <1>10, <2>1, Zenon
  <2>. HIDE DEF h
  <2>5. Len(h) = Len(x) /\ \A k \in 1 .. Len(h) : h[k] = x[k]
    <3>1. ASSUME NEW k \in 1 .. n PROVE h[k] = x[k]
      <4>1. h[k] = r[k + 1] /\ y[k + 1] = x[k]
        BY <1>4, <2>3, Zenon
      <4>2. r[k + 1] = y[k + 1]
        BY <1>7, <1>10, Zenon
      <4>. QED  BY <4>1, <4>2, Zenon
    <3>. QED  BY <2>3, <3>1, Zenon DEF n
  <2>. QED  BY <2>3, <2>4, <2>5, SeqEqual, Zenon
<1>13. i \in DOMAIN r
  BY <1>6
<1>14. BracketedAt(r, i)
  BY <1>1, <1>6, <1>11, Zenon DEF BracketedAt
<1>15. BracketedEndpoint(r, i) = <<TRUE, x, v>>
  BY <1>1, <1>6, <1>12, Zenon DEF BracketedEndpoint
<1>16. <<TRUE, x, v>> \in Grammar(r)
  BY <1>13, <1>14, <1>15, GrammarIs, Zenon
<1>. QED  BY <1>2, <1>6, <1>16, OnlyReading, Zenon

(* What Endpoint takes: a host that fits, and a port in its range.         *)
LEMMA EndpointTaken ==
  ASSUME NEW b, NEW h, Len(h) \in Nat, NEW q, Endpoint(b, h, q) # Rejected
  PROVE  /\ Len(h) < HOST_LEN /\ ParsePort(q) \in 1 .. PORT_MAX
         /\ Endpoint(b, h, q) = <<b, IF h = <<>> THEN ANY_HOST ELSE h, ParsePort(q)>>
<1>1. ~(Len(h) >= HOST_LEN) /\ ParsePort(q) # 0
      /\ Endpoint(b, h, q) = <<b, IF h = <<>> THEN ANY_HOST ELSE h, ParsePort(q)>>
  BY Zenon DEF Endpoint
<1>2. ParsePort(q) \in 1 .. PORT_MAX
  BY <1>1, Zenon DEF ParsePort
<1>3. Len(h) < HOST_LEN
  BY <1>1, ConfSyntaxAssumption
<1>. QED  BY <1>1, <1>2, <1>3, Zenon

(* endpoint_to_string and split_host_port: what the logs show for an       *)
(* endpoint that was read, if it fits their buffer, is read as the same    *)
(* endpoint.                                                               *)
THEOREM EveryEndpointReadBack == ASSUME NEW t \in Seq(Letters) PROVE LogRoundTrip(t)
<1>. DEFINE e == SplitHostPort(t)
<1>. SUFFICES ASSUME e # Rejected PROVE SplitHostPort(EndpointText(e)) = e
  BY Zenon DEF LogRoundTrip, EndpointToString
<1>1. DOMAIN t = 1 .. Len(t) /\ Len(t) \in Nat
  OBVIOUS
<1>2. CASE ~(t # <<>> /\ t[1] = "[")
  <2>1. PICK c \in Colons(t) : Colons(t) = {c}
    BY <1>2, Zenon DEF SplitHostPort, Colons
  <2>2. c \in 1 .. Len(t)
    BY <1>1, Zenon DEF Colons
  <2>. DEFINE h == Before(t, c)
              q == After(t, c)
              x == IF h = <<>> THEN ANY_HOST ELSE h
              v == ParsePort(q)
  <2>3. e = Endpoint(FALSE, h, q) /\ (IsPlain(h) <=> Len(h) < HOST_LEN)
    BY <1>2, <2>1, <2>2, SplitPlain, Zenon
  <2>4. h \in Seq(Letters)
    BY <2>2, BeforeOf, Zenon DEF IsBefore
  <2>. HIDE DEF e, h, q
  <2>5. Len(h) \in Nat
    BY <2>4
  <2>6. Len(h) < HOST_LEN /\ v \in 1 .. PORT_MAX /\ e = <<FALSE, x, v>>
    <3>1. Endpoint(FALSE, h, q) # Rejected
      BY <2>3, Zenon
    <3>2. /\ Len(h) < HOST_LEN /\ ParsePort(q) \in 1 .. PORT_MAX
          /\ Endpoint(FALSE, h, q) = <<FALSE, IF h = <<>> THEN ANY_HOST ELSE h, ParsePort(q)>>
      BY <2>5, <3>1, EndpointTaken
    <3>. QED  BY <2>3, <3>2
  <2>7. IsPlain(ANY_HOST) /\ ANY_HOST \in Seq(Letters) /\ ANY_HOST # <<>>
    BY ConfSyntaxAssumption, Zenon DEF IsPlain, Range
  <2>8. x \in Seq(Letters) /\ x # <<>> /\ IsPlain(x)
    BY <2>3, <2>4, <2>6, <2>7, Zenon
  <2>. HIDE DEF x, v
  <2>. QED  BY <2>6, <2>8, PlainRoundTrip, Zenon
<1>3. CASE t # <<>> /\ t[1] = "["
  <2>. DEFINE f == Find(t, "]", 1)
              x == SubSeq(t, 2, f - 1)
              q == SubSeq(t, f + 2, Len(t))
              v == ParsePort(q)
  <2>1. ~(f <= 2 \/ f + 1 \notin Colons(t)) /\ e = Endpoint(TRUE, x, q)
    BY <1>3, Zenon DEF SplitHostPort, Colons
  <2>2. f = 0 \/ (f \in 1 .. Len(t) /\ \A k \in 1 .. f - 1 : t[k] # "]")
    BY FindOf, Zenon
  <2>. HIDE DEF e, f, q
  <2>3. f \in Nat /\ f > 2 /\ f <= Len(t) /\ \A k \in 1 .. f - 2 : k + 1 \in 1 .. f - 1
    BY <1>1, <2>1, <2>2
  <2>4. \A k \in 1 .. f - 1 : t[k] # "]"
    <3>1. f # 0
      BY <2>3
    <3>. QED  BY <2>2, <3>1, Zenon
  <2>5. x \in Seq(Letters) /\ Len(x) = f - 2 /\ x # <<>> /\ \A k \in 1 .. f - 2 : x[k] = t[k + 1]
    BY <2>3, HostInside, Zenon
  <2>. HIDE DEF x
  <2>6. Len(x) \in Nat
    BY <2>5
  <2>7. Len(x) < HOST_LEN /\ v \in 1 .. PORT_MAX /\ e = <<TRUE, x, v>>
    BY <2>1, <2>5, <2>6, EndpointTaken, Zenon
  <2>8. \A k \in 1 .. Len(x) : x[k] # "]"
    BY <2>3, <2>4, <2>5, Zenon
  <2>9. "]" \notin Range(x)
    BY <2>5, <2>8, NotIn, Zenon
  <2>. HIDE DEF v
  <2>. QED  BY <2>5, <2>7, <2>9, BracketedRoundTrip, Zenon
<1>. QED  BY <1>2, <1>3, Zenon
=============================================================================
