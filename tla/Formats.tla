------------------------------ MODULE Formats ------------------------------
(***************************************************************************)
(* The formats the program reads and writes: the SNI parser as it is in    *)
(* StreamSniff, configuration texts that grow letter by letter for the     *)
(* operators of ConfSyntax, and packets for those of WireFormats.  Each    *)
(* behaviour is about one of the three.                                    *)
(***************************************************************************)
EXTENDS StreamSniff, ConfSyntax, WireFormats

CONSTANTS
  Alphabets,     \* sets of letters texts are made of
  MaxText,       \* bound on the length of a text
  Hosts4, Hosts6, Ports,   \* what addresses are made of
  BufLens,       \* sizes of the buffer a header is built in
  Lens           \* lengths of payloads

ASSUME FormatsAssumption ==
  /\ \A A \in Alphabets : A \subseteq Letters
  /\ MaxText \in Nat
  /\ \A h \in Hosts4 : h \in Seq(Octet) /\ Len(h) = 4
  /\ \A h \in Hosts6 : h \in Seq(Octet) /\ Len(h) = 16
  /\ \A p \in Ports : p \in Nat /\ p <= UINT16_MAX
  /\ BufLens \subseteq Nat /\ Lens \subseteq Nat

VARIABLES text, packet

(* Addresses as recvfrom and getsockname give them.                        *)
Addresses ==
  [family : {"inet"}, addr : Hosts4, port : Ports, whole : BOOLEAN] \union
  [family : {"inet6"}, addr : Hosts6, port : Ports, whole : BOOLEAN] \union
  [family : {"unix"}, addr : {<<>>}, port : {0}, whole : BOOLEAN]

Packets == [src : Addresses, dst : Addresses, type : {"stream", "dgram"},
            buf : BufLens, len : Lens, little : BOOLEAN]

inputs == <<text, packet>>

FormatsInit == Init /\ text = <<>> /\ packet = <<>>

Sniff == inputs = <<<<>>, <<>>>> /\ Next /\ UNCHANGED inputs

GrowText ==
  /\ packet = <<>> /\ Len(text) < MaxText
  /\ \E A \in Alphabets : Range(text) \subseteq A /\ \E c \in A : text' = Append(text, c)
  /\ UNCHANGED packet

ChoosePacket ==
  /\ inputs = <<<<>>, <<>>>>
  /\ \E p \in Packets : packet' = <<p>>
  /\ UNCHANGED text

FormatsNext ==
  \/ Sniff
  \/ input = 0 /\ (GrowText \/ ChoosePacket) /\ UNCHANGED vars

FormatsSpec == FormatsInit /\ [][FormatsNext]_<<vars, inputs>>

-----------------------------------------------------------------------------
(* ReadsAsWritten, for every text.                                         *)
HostPortsReadAsWritten == ReadsAsWritten(text)

(* LogRoundTrip, for every text.                                           *)
EndpointsRoundTrip == LogRoundTrip(text)

(* CrLfAsLf, for every text.                                               *)
CrLfInsensitive == CrLfAsLf(text)

(* ProxyHeaderReadable and ProxyDatagramWhole, for every buffer, pair of   *)
(* addresses and payload.                                                  *)
ProxyHeadersReadable ==
  \A p \in Range(packet) : /\ ProxyHeaderReadable(p.buf, p.src, p.dst, p.type, p.len)
                           /\ ProxyDatagramWhole(p.src, p.dst, p.len)

(* RawPacketValid, for every pair of addresses, payload and host.          *)
RawPacketsValid == \A p \in Range(packet) : RawPacketValid(p.src, p.dst, p.len, p.little)
=============================================================================
