---------------------------- MODULE RouteConfig ----------------------------
(***************************************************************************)
(* Routes and how they are read: parse_route_line and what it calls in     *)
(* file_conf.c, same_listen_endpoint, and validate_route with the          *)
(* predicates of endpoint.c.  A line is given as its fields: the keyword   *)
(* and the four words every route has, then its options; the text of an    *)
(* inet endpoint is a token with the host and port it stands for           *)
(* (SplitHostPort of module ConfSyntax computes them).                     *)
(***************************************************************************)
EXTENDS Integers, Sequences, Functions

CONSTANTS
  HostPorts,   \* the words split_host_port accepts, with their <<host, port>>
  Builtins,    \* the words x_builtin_parse accepts
  LongPaths,   \* the words that do not fit ep->path
  HALF         \* INT_MAX + 1

ASSUME RouteConfigAssumption == HALF \in Nat \ {0}

INT_MAX == HALF - 1

(* Signed arithmetic of the width of int, as the compiled code wraps it.   *)
WrapInt(x) == ((x + HALF) % (2 * HALF)) - HALF

-----------------------------------------------------------------------------
StreamProto == {"tcp", "unix"}
DatagramProto == {"udp", "unix-dgram"}
UnixProto == {"unix", "unix-dgram"}

(* The protocols parse_proto knows.                                        *)
Proto == StreamProto \union DatagramProto \union {"file", "builtin"}

(* parse_endpoint accepts the word as an endpoint of this protocol ...     *)
EndpointOK(proto, word) ==
  /\ proto \in Proto
  /\ proto \in {"tcp", "udp"} => word \in DOMAIN HostPorts
  /\ proto \in {"unix", "unix-dgram", "file"} => word # "" /\ word \notin LongPaths
  /\ proto = "builtin" => word \in Builtins

(* ... and stores this.                                                    *)
ParseEndpoint(proto, word) ==
  [proto |-> proto, addr |-> IF proto \in {"tcp", "udp"} THEN HostPorts[word] ELSE word]

(* same_listen_endpoint: the protocol comes first, so a "unix" and a       *)
(* "unix-dgram" listener on one path are different.                        *)
SameListenEndpoint(a, b) ==
  /\ a.proto = b.proto
  /\ a.proto \in StreamProto \union DatagramProto
  /\ a.addr = b.addr

-----------------------------------------------------------------------------
(* route_options_set_defaults, after the memset of the route.              *)
RouteOptionsSetDefaults ==
  [proxy_v2 |-> 0, keep_alive |-> 0, sni_sniff |-> 0, idle_timeout |-> 60,
   connect_timeout |-> 5, bind_wait |-> 0, broadcast_reply |-> "off"]

IntOptions == {"idle_timeout", "connect_timeout", "bind_wait"}
BoolOptions == {"proxy_v2", "keep_alive", "sni_sniff"}

(* parse_positive_int *)
ParsePositiveInt(v) == v \in 1..INT_MAX

(* One option of parse_route_options, a key with or without a value, is    *)
(* one the parser takes.                                                   *)
OptionOK(o) ==
  \/ o.key \in BoolOptions /\ o.form = "flag"
  \/ o.key \in IntOptions /\ o.form = "int" /\ ParsePositiveInt(o.int)
  \/ o.key = "broadcast_reply" /\ o.form = "flag"
  \/ o.key = "broadcast_reply" /\ o.form = "word" /\ o.word \in {"listen", "upstream"}

(* What it then stores under its key.                                      *)
StoredValue(o) ==
  IF o.key \in BoolOptions THEN 1
  ELSE IF o.key \in IntOptions THEN o.int
  ELSE IF o.form = "flag" THEN "listen" ELSE o.word

(* A later occurrence of a key overwrites an earlier one.                  *)
LastOccurrence(os, key) ==
  {k \in DOMAIN os : os[k].key = key /\ \A j \in DOMAIN os : j > k => os[j].key # key}

ParseRouteOptions(os) ==
  [key \in DOMAIN RouteOptionsSetDefaults |->
     IF LastOccurrence(os, key) = {} THEN RouteOptionsSetDefaults[key]
     ELSE StoredValue(os[CHOOSE k \in LastOccurrence(os, key) : TRUE])]

-----------------------------------------------------------------------------
(* parse_route_line accepts a line: four words, each what its place asks   *)
(* for, and options that are all known.                                    *)
RouteLineOK(l) ==
  /\ Len(l.words) = 4
  /\ EndpointOK(l.words[1], l.words[2])
  /\ EndpointOK(l.words[3], l.words[4])
  /\ \A k \in DOMAIN l.opts : OptionOK(l.opts[k])

ParseRouteLine(l) ==
  [listen   |-> ParseEndpoint(l.words[1], l.words[2]),
   upstream |-> ParseEndpoint(l.words[3], l.words[4]),
   opts     |-> ParseRouteOptions(l.opts)]

(* find_conflicting_route *)
FindConflictingRoute(routes, r) ==
  {k \in DOMAIN routes : SameListenEndpoint(routes[k].listen, r.listen)}

(* validate_route: streams go to streams, files and builtins, datagrams to *)
(* datagrams and builtins; nothing listens on a file or on a builtin.      *)
ValidateRoute(r) ==
  \/ r.listen.proto \in StreamProto /\ r.upstream.proto \in StreamProto \union {"file", "builtin"}
  \/ r.listen.proto \in DatagramProto /\ r.upstream.proto \in DatagramProto \union {"builtin"}
=============================================================================
