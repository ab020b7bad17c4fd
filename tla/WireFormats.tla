---------------------------- MODULE WireFormats ----------------------------
(***************************************************************************)
(* The bytes the program puts on the wire itself: the PROXY protocol v2    *)
(* header (proxy_proto_v2.c) in front of a stream or of a datagram, and    *)
(* the IPv4 and UDP headers of a reply that is sent in the upstream's name *)
(* (datagram_raw.c).  A payload is its length.                             *)
(***************************************************************************)
EXTENDS Integers, Sequences

Octet == 0 .. 255
UDP_MAX_PACKET == 65535
UINT16_MAX == 65535
SIG == <<13, 10, 13, 10, 0, 13, 10, 81, 85, 73, 84, 10>>

(* put_u16, htons: the low sixteen bits, most significant byte first.      *)
U16Bytes(v) == <<(v \div 256) % 256, v % 256>>
U16At(b, i) == 256 * b[i] + b[i + 1]

AddrBytes(family) == IF family = "inet" THEN 4 ELSE 16

-----------------------------------------------------------------------------
ProxyV2BuildByEnd(buf_len, src, dst, type) ==
  LET addr_len == 2 * AddrBytes(src.family) + 4 IN
  IF \/ src.family # dst.family \/ src.family \notin {"inet", "inet6"}
     \/ ~(src.whole /\ dst.whole) \/ buf_len < 16 + addr_len
  THEN <<>>
  ELSE SIG \o <<33, (IF src.family = "inet" THEN 16 ELSE 32) + (IF type = "stream" THEN 1 ELSE 2)>>
       \o U16Bytes(addr_len)
       \o src.addr \o U16Bytes(src.port) \o dst.addr \o U16Bytes(dst.port)

(* proxy_v2_build, <<>> where it fails.  An address is whole if its        *)
(* socklen covers the structure of its family.                             *)
ProxyV2Build(buf_len, src, dst, type) ==
  LET addr_len == 2 * AddrBytes(src.family) + 4 IN
  IF \/ src.family # dst.family \/ src.family \notin {"inet", "inet6"}
     \/ ~(src.whole /\ dst.whole) \/ buf_len < 16 + addr_len
  THEN <<>>
  ELSE SIG \o <<33, (IF src.family = "inet" THEN 16 ELSE 32) + (IF type = "stream" THEN 1 ELSE 2)>>
       \o U16Bytes(addr_len)
       \o src.addr \o dst.addr \o U16Bytes(src.port) \o U16Bytes(dst.port)

(* send_datagram_payload_to_upstream with proxy_v2: what is sent for a     *)
(* payload of len bytes.                                                   *)
SendToUpstream(client, local, len) ==
  LET hdr == ProxyV2Build(256, client, local, "dgram") IN
  IF client.family # "inet" \/ local.family # "inet" \/ hdr = <<>> \/ Len(hdr) + len > UDP_MAX_PACKET
  THEN [sent |-> FALSE, hdr |-> <<>>, total |-> 0]
  ELSE [sent |-> TRUE, hdr |-> hdr, total |-> Len(hdr) + len]

-----------------------------------------------------------------------------
(* checksum16.  Its first loop: the words of b, the last one filled up     *)
(* with a zero byte, and their sums.                                       *)
Words(b) ==
  [n \in 1 .. (Len(b) + 1) \div 2 |->
     256 * b[2 * n - 1] + (IF 2 * n <= Len(b) THEN b[2 * n] ELSE 0)]

WordSums(w) == LET sum[n \in 0 .. Len(w)] == IF n = 0 THEN 0 ELSE sum[n - 1] + w[n] IN sum

(* Its second loop: the carries are added to the low sixteen bits.         *)
Carry(sum) == sum \div 65536
Low(sum) == sum % 65536
FoldCarries[sum \in Nat] == IF Carry(sum) = 0 THEN sum ELSE FoldCarries[Low(sum) + Carry(sum)]

Checksum16(b) == UINT16_MAX - FoldCarries[WordSums(Words(b))[Len(Words(b))]]

(* A uint16_t in memory.                                                   *)
HostU16(v, little) == IF little THEN <<v % 256, v \div 256>> ELSE U16Bytes(v)

(* The IPv4 header with sum as the bytes of its checksum.                  *)
IpHeader(src, dst, len, sum) ==
  <<69, 0>> \o U16Bytes(28 + len) \o <<0, 0, 0, 0, 64, 17>> \o sum \o src.addr \o dst.addr

UdpHeader(src, dst, len) == U16Bytes(src.port) \o U16Bytes(dst.port) \o U16Bytes(8 + len) \o <<0, 0>>

RawHeadersUnbounded(src, dst, len, little) ==
  IF dst.family # "inet" \/ src.family # "inet" \/ ~dst.whole
  THEN <<>>
  ELSE LET sum == Checksum16(IpHeader(src, dst, len, <<0, 0>>)) IN
       IpHeader(src, dst, len, HostU16(sum, little)) \o UdpHeader(src, dst, len)

(* datagram_raw_send_udp_ipv4 on Linux: the headers before a payload of    *)
(* len bytes, <<>> where it fails before sending.  The checksum, other     *)
(* than the lengths, goes to the header without htons.                     *)
RawHeaders(src, dst, len, little) ==
  IF dst.family # "inet" \/ src.family # "inet" \/ ~dst.whole \/ len > UINT16_MAX - 20 - 8
  THEN <<>>
  ELSE LET sum == Checksum16(IpHeader(src, dst, len, <<0, 0>>)) IN
       IpHeader(src, dst, len, HostU16(sum, little)) \o UdpHeader(src, dst, len)

-----------------------------------------------------------------------------
(* What a receiver makes of a PROXY v2 header that total bytes came with:  *)
(* the addresses, and how much is left for the payload.                    *)
ProxyV2Receive(b, total) ==
  LET family == IF b[14] \div 16 = 1 THEN "inet" ELSE "inet6"
      n == AddrBytes(family)
      whole(at, port) == [family |-> family, addr |-> SubSeq(b, at, at + n - 1),
                          port |-> U16At(b, port), whole |-> TRUE] IN
  [src |-> whole(17, 17 + 2 * n), dst |-> whole(17 + n, 19 + 2 * n),
   type |-> IF b[14] % 16 = 1 THEN "stream" ELSE "dgram",
   payload |-> total - 16 - U16At(b, 15)]

(* A receiver finds in the header the addresses and the protocol that were *)
(* put in, and the payload right behind it; the header never exceeds the   *)
(* buffer it is built in, and is refused for nothing but its inputs.       *)
ProxyHeaderReadable(buf_len, src, dst, type, len) ==
  LET b == ProxyV2Build(buf_len, src, dst, type)
      r == ProxyV2Receive(b, Len(b) + len) IN
  IF b = <<>>
  THEN src.family # dst.family \/ src.family = "unix" \/ ~(src.whole /\ dst.whole)
       \/ buf_len < (IF src.family = "inet" THEN 28 ELSE 52)
  ELSE /\ Len(b) <= buf_len /\ r.payload = len
       /\ r.src = src /\ r.dst = dst /\ r.type = type

(* A datagram comes right behind its header; what does not fit one         *)
(* datagram together with it is not sent at all.                           *)
ProxyDatagramWhole(client, local, len) ==
  LET d == SendToUpstream(client, local, len) IN
  d.sent => /\ d.total <= UDP_MAX_PACKET
            /\ ProxyV2Receive(d.hdr, d.total).payload = len

(* A reply in the upstream's name has the lengths of the packet, and the   *)
(* addresses and ports it is to have.  Its header sums to all ones if the  *)
(* checksum is read as this host stores a number: on a little-endian host  *)
(* its bytes are swapped, and it is left to the kernel, which fills the    *)
(* checksum of a packet that comes with its header in by itself.           *)
RawPacketValid(src, dst, len, little) ==
  LET b == RawHeaders(src, dst, len, little)
      sum == IF little THEN <<b[12], b[11]>> ELSE <<b[11], b[12]>> IN
  b # <<>> => /\ U16At(b, 3) = Len(b) + len /\ U16At(b, 25) = Len(b) - 20 + len
              /\ Checksum16(SubSeq(b, 1, 10) \o sum \o SubSeq(b, 13, 20)) = 0
              /\ SubSeq(b, 13, 16) = src.addr /\ SubSeq(b, 17, 20) = dst.addr
              /\ U16At(b, 21) = src.port /\ U16At(b, 23) = dst.port
=============================================================================
