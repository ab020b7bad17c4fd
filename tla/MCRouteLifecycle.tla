-------------------------- MODULE MCRouteLifecycle --------------------------
(***************************************************************************)
(* An instance of RouteLifecycle: two processes, an inet address, a path,  *)
(* and configurations that share them.                                     *)
(***************************************************************************)
EXTENDS RouteLifecycle

CONSTANT First   \* one of Proc

Flag(k) == [key |-> k, form |-> "flag"]
Num(k, v) == [key |-> k, form |-> "int", int |-> v]
Word(k, v) == [key |-> k, form |-> "word", word |-> v]

Line(w, o) == [kind |-> "route", words |-> w, opts |-> o]
Blank == [kind |-> "blank"]

TcpWaits == Line(<<"tcp", "h:1", "tcp", "h:1">>, <<Num("bind_wait", 1)>>)
TcpWraps == Line(<<"tcp", ":1", "file", "f">>, <<Flag("keep_alive"), Num("bind_wait", 2)>>)
UnixStream == Line(<<"unix", "s", "builtin", "hang">>, <<>>)
UnixDgram == Line(<<"unix-dgram", "s", "unix-dgram", "u">>, <<>>)
UnixDgramBcast == Line(<<"unix-dgram", "s", "udp", "h:1">>, <<Flag("broadcast_reply")>>)
UdpSpoof ==
  Line(<<"udp", "h:1", "udp", "h:1">>, <<Num("bind_wait", 1), Word("broadcast_reply", "upstream")>>)
Unfit == Line(<<"udp", "0.0.0.0:1", "tcp", "h:1">>, <<>>)
TooLong == Line(<<"tcp", "h:1", "file", "fff">>, <<>>)

Long(l) == [l EXCEPT !.kind = "long"]

MCHostPorts == [w \in {"h:1", ":1", "0.0.0.0:1"} |-> IF w = "h:1" THEN <<"h", 1>> ELSE <<"0.0.0.0", 1>>]

MCForeign == {<<"h", 1>>}

File(w, ls) == [file |-> TRUE, w |-> w, lines |-> ls]
Inline(w, ls) == [file |-> FALSE, w |-> w, lines |-> ls]

MCConfigs ==
  [p \in Proc |->
     IF p = First
     THEN <<File(1, <<Blank, TcpWaits, UnixStream>>),
            File(0, <<UnixStream, UnixStream>>),
            Inline(1, <<UnixStream, UnixDgramBcast>>)>>
     ELSE <<File(1, <<UnixDgram, UdpSpoof>>),
            File(1, <<UnixDgram, Long(UnixStream)>>),
            Inline(2, <<TcpWraps, Unfit>>),
            Inline(0, <<Long(UnixDgram)>>),
            Inline(1, <<TooLong>>)>>]
=============================================================================
