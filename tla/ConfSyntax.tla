----------------------------- MODULE ConfSyntax -----------------------------
(***************************************************************************)
(* The text level of file_conf.c, as operators on sequences of one-letter  *)
(* strings: trim, parse_port, split_host_port, the lines that              *)
(* load_routes_from_text passes on; and the text endpoint_to_string writes *)
(* in the logs.                                                            *)
(***************************************************************************)
EXTENDS Integers, Sequences, Functions, FiniteSetsExt

CONSTANTS
  HOST_LEN,       \* sizeof(ep->host)
  PORT_MAX,       \* 65535
  ULONG_MAX,      \* ULONG_MAX
  LOG_LEN,        \* sizeof(buf) in log_print_endpoint
  MAX_LINE_LEN,   \* MAX_LINE_LEN
  ANY_HOST,       \* "0.0.0.0"
  Letters         \* the values of a char

(* isspace; VT and FF are the two that TLA+ has no letters for.            *)
Space == {" ", "\t", "\r", "\n", "VT", "FF"}
Digits == <<"0", "1", "2", "3", "4", "5", "6", "7", "8", "9">>

ASSUME ConfSyntaxAssumption ==
  /\ Range(Digits) \union {":", "[", "]"} \subseteq Letters
  /\ HOST_LEN \in Nat /\ PORT_MAX \in Nat /\ ULONG_MAX \in Nat /\ PORT_MAX <= ULONG_MAX
  /\ MAX_LINE_LEN \in Nat \ {0} /\ LOG_LEN \in Nat \ {0}
  /\ ANY_HOST \in Seq(Letters) /\ ANY_HOST # <<>> /\ Len(ANY_HOST) < HOST_LEN
  /\ ANY_HOST[1] # "[" /\ \A i \in DOMAIN ANY_HOST : ANY_HOST[i] # ":"

DigitOf(c) == (CHOOSE d \in DOMAIN Digits : Digits[d] = c) - 1
IsNumeral(s) == s # <<>> /\ Range(s) \subseteq Range(Digits)
PrefixValues(s) ==
  LET value[n \in 0 .. Len(s)] == IF n = 0 THEN 0 ELSE 10 * value[n - 1] + DigitOf(s[n]) IN value
NumeralValue(s) == PrefixValues(s)[Len(s)]

(* strchr, memchr: where c comes first from the s-th letter on, 0 if it    *)
(* does not.                                                               *)
Find(t, c, s) ==
  LET at == {i \in s .. Len(t) : t[i] = c} IN IF at = {} THEN 0 ELSE Min(at)

(* trim *)
Trim(s) ==
  LET word == {i \in DOMAIN s : s[i] \notin Space} IN
  IF word = {} THEN <<>> ELSE SubSeq(s, Min(word), Max(word))

-----------------------------------------------------------------------------
(* strtoul skips blanks and takes a sign ...                               *)
Unblanked(s) ==
  LET word == {i \in DOMAIN s : s[i] \notin Space} IN
  IF word = {} THEN <<>> ELSE SubSeq(s, Min(word), Len(s))

Signed(s) == s # <<>> /\ s[1] \in {"+", "-"}

(* ... and, of a whole text, makes this; 0 is also for what it refuses.  A *)
(* number after a minus is taken from zero, in unsigned arithmetic.        *)
Strtoul(s) ==
  LET num == Unblanked(s)
      body == IF Signed(num) THEN Tail(num) ELSE num
      v == NumeralValue(body) IN
  IF ~IsNumeral(body) \/ v > ULONG_MAX THEN 0
  ELSE IF Signed(num) /\ num[1] = "-" THEN (-v) % (ULONG_MAX + 1) ELSE v

(* parse_port, 0 if it fails.                                              *)
ParsePort(s) == IF Strtoul(s) \in 1 .. PORT_MAX THEN Strtoul(s) ELSE 0

Rejected == <<>>

(* What split_host_port stores for a host and the text of a port; ipv6     *)
(* says whether the host was in brackets.                                  *)
Endpoint(ipv6, host, port_s) ==
  IF Len(host) >= HOST_LEN \/ ParsePort(port_s) = 0 THEN Rejected
  ELSE <<ipv6, IF host = <<>> THEN ANY_HOST ELSE host, ParsePort(port_s)>>

SplitHostPortLastBracket(t) ==
  LET from(i) == SubSeq(t, i, Len(t))
      close == LET at == {i \in DOMAIN t : t[i] = "]"} IN IF at = {} THEN 0 ELSE Max(at)
      colons == {i \in DOMAIN t : t[i] = ":"} IN
  IF t # <<>> /\ t[1] = "["
  THEN IF close <= 2 \/ close + 1 \notin colons THEN Rejected
       ELSE Endpoint(TRUE, SubSeq(t, 2, close - 1), from(close + 2))
  ELSE IF \A i \in colons : colons # {i} THEN Rejected
       ELSE Endpoint(FALSE, SubSeq(t, 1, Min(colons) - 1), from(Min(colons) + 1))

(* split_host_port: the first "]" closes a bracketed host, and any other   *)
(* text has exactly one colon.                                             *)
SplitHostPort(t) ==
  LET from(i) == SubSeq(t, i, Len(t))
      close == Find(t, "]", 1)
      colons == {i \in DOMAIN t : t[i] = ":"} IN
  IF t # <<>> /\ t[1] = "["
  THEN IF close <= 2 \/ close + 1 \notin colons THEN Rejected
       ELSE Endpoint(TRUE, SubSeq(t, 2, close - 1), from(close + 2))
  ELSE IF \A i \in colons : colons # {i} THEN Rejected
       ELSE Endpoint(FALSE, SubSeq(t, 1, Min(colons) - 1), from(Min(colons) + 1))

(* "%u" *)
Decimal[n \in Nat] == IF n < 10 THEN <<Digits[n + 1]>> ELSE Decimal[n \div 10] \o <<Digits[(n % 10) + 1]>>

EndpointTextBare(e) == e[2] \o <<":">> \o Decimal[e[3]]

(* The formats of endpoint_to_string for inet endpoints.                   *)
EndpointText(e) ==
  (IF e[1] THEN <<"[">> \o e[2] \o <<"]">> ELSE e[2]) \o <<":">> \o Decimal[e[3]]

(* endpoint_to_string, as log_print_endpoint calls it: snprintf cuts what  *)
(* does not fit the buffer.                                                *)
EndpointToString(e) ==
  IF Len(EndpointText(e)) < LOG_LEN THEN EndpointText(e)
                                    ELSE SubSeq(EndpointText(e), 1, LOG_LEN - 1)

-----------------------------------------------------------------------------
(* Where the line that starts at s ends: at the newline or the end of the  *)
(* text.                                                                   *)
LineEnd(t, s) == LET stop == Find(t, "\n", s) IN IF stop = 0 THEN Len(t) + 1 ELSE stop

(* Where the next line starts.                                             *)
NextLine(t, s) == IF LineEnd(t, s) = Len(t) + 1 THEN Len(t) + 1 ELSE LineEnd(t, s) + 1

RawLineKeepsCr(t, s) == SubSeq(t, s, LineEnd(t, s) - 1)

(* The line that starts at s, less one CR.                                 *)
RawLine(t, s) ==
  LET raw == SubSeq(t, s, LineEnd(t, s) - 1) IN
  IF raw # <<>> /\ raw[Len(raw)] = "\r" THEN SubSeq(raw, 1, Len(raw) - 1) ELSE raw

(* A line without the blanks around it and without a comment.              *)
Text(l) ==
  LET hash == Find(Trim(l), "#", 1) IN
  IF hash = 0 THEN Trim(l) ELSE Trim(SubSeq(Trim(l), 1, hash - 1))

(* What load_routes_from_text gives parse_route_line, one after the other, *)
(* as long as that takes them, and whether it then refuses a line for its  *)
(* length: from a line with text l on, when rest is what comes after it.   *)
Loaded(l, rest) ==
  IF Len(l) >= MAX_LINE_LEN THEN [rc |-> "E2BIG", texts |-> <<>>]
  ELSE IF Text(l) = <<>> THEN rest
  ELSE [rc |-> rest.rc, texts |-> <<Text(l)>> \o rest.texts]

(* The same from the line that starts at s on.                             *)
TextsFrom(t) ==
  LET from[s \in 1 .. Len(t) + 1] ==
        IF s = Len(t) + 1 THEN [rc |-> "ok", texts |-> <<>>]
        ELSE Loaded(RawLine(t, s), from[NextLine(t, s)]) IN from

RouteTexts(t) == TextsFrom(t)[1]

-----------------------------------------------------------------------------
(* The endpoints a text stands for, by the grammar docs/tinyproxy.conf.5   *)
(* and the comments of split_host_port give: HOST:PORT, :PORT, [HOST]:PORT.*)
Before(t, i) == SubSeq(t, 1, i - 1)
After(t, i) == SubSeq(t, i + 1, Len(t))
Unsigned(q) == IF q # <<>> /\ q[1] = "+" THEN Tail(q) ELSE q
IsPort(q) == IsNumeral(Unsigned(q)) /\ NumeralValue(Unsigned(q)) \in 1 .. PORT_MAX
IsPlain(h) == ":" \notin Range(h) /\ (h # <<>> => h[1] # "[") /\ Len(h) < HOST_LEN
IsBracketed(h) ==
  /\ Len(h) \in 3 .. HOST_LEN + 1 /\ h[1] = "[" /\ h[Len(h)] = "]"
  /\ "]" \notin Range(SubSeq(h, 1, Len(h) - 1))

Grammar(t) ==
  {<<FALSE, IF Before(t, i) = <<>> THEN ANY_HOST ELSE Before(t, i), NumeralValue(Unsigned(After(t, i)))>> :
     i \in {j \in DOMAIN t : t[j] = ":" /\ IsPlain(Before(t, j)) /\ IsPort(After(t, j))}}
  \union
  {<<TRUE, SubSeq(t, 2, i - 2), NumeralValue(Unsigned(After(t, i)))>> :
     i \in {j \in DOMAIN t : t[j] = ":" /\ IsBracketed(Before(t, j)) /\ IsPort(After(t, j))}}

(* A port that strtoul takes and the grammar does not know: it begins with *)
(* a blank or a minus.                                                     *)
Lenient(q) == q # <<>> /\ q[1] \in Space \union {"-"}

(* A text of the grammar is read as the one endpoint the grammar gives it, *)
(* and any other is refused, but for such a port.                          *)
ReadsAsWritten(t) ==
  \/ Grammar(t) = {} /\ SplitHostPort(t) = Rejected
  \/ Grammar(t) = {SplitHostPort(t)} /\ SplitHostPort(t) # Rejected
  \/ Grammar(t) = {} /\ \E i \in DOMAIN t : t[i] = ":" /\ Lenient(After(t, i))

(* What the logs show for an inet endpoint, if they show all of it, can be *)
(* given to the parser again and is the same endpoint, however it was      *)
(* written in the first place.                                             *)
LogRoundTrip(t) ==
  SplitHostPort(t) # Rejected /\ Len(EndpointText(SplitHostPort(t))) < LOG_LEN
    => SplitHostPort(EndpointToString(SplitHostPort(t))) = SplitHostPort(t)

(* A text with LF for every CRLF, and without a CR at its end.             *)
EndsLine(t, i) == t[i] = "\r" /\ (i = Len(t) \/ t[i + 1] = "\n")
LfPrefixes(t) ==
  LET lf[n \in 0 .. Len(t)] ==
        IF n = 0 THEN <<>> ELSE IF EndsLine(t, n) THEN lf[n - 1] ELSE Append(lf[n - 1], t[n]) IN lf
LfText(t) == LfPrefixes(t)[Len(t)]

(* "Handle CRLF input nicely": a file with CRLF line ends has the routes   *)
(* of the same file with LF, and the same lines are too long.              *)
CrLfAsLf(t) ==
  (\A i \in 1 .. Len(t) - 1 : ~(t[i] = "\r" /\ t[i + 1] = "\r")) =>
    RouteTexts(t) = RouteTexts(LfText(t))
=============================================================================
