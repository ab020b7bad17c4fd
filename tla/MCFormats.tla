----------------------------- MODULE MCFormats -----------------------------
(***************************************************************************)
(* An instance of Formats.                                                 *)
(***************************************************************************)
EXTENDS Formats

MCAnyHost == <<"0">>
MCAlphabets == {{"[", "]", ":", "+", "0", "7", "a"}, {"\n", "\r", "#", " ", "a"},
                {":", "+", "-", "0", "7", " "}}
MCLetters == (UNION MCAlphabets) \union Range(Digits)
MCHosts4 == {<<10, 0, 0, 1>>, <<255, 255, 255, 254>>}
MCHosts6 == {[i \in 1..16 |-> a] : a \in {1, 2}}

(* 28 and 52 are the sizes of the two PROXY headers; 65507 is the largest  *)
(* UDP payload over IPv4.                                                  *)
MCBufLens == {27, 28, 51, 52, 256}
MCLens == {0, 1, 65507, 65508, 65535}
=============================================================================
