----------------------------- MODULE MCHttpRead -----------------------------
(***************************************************************************)
(* Requests for TLC: with and without content and keep-alive, a body that  *)
(* holds a line end, "/" as the URL, URLs with a host in front, request    *)
(* lines that are refused, a bare LF, a bare CR, a request that is longer  *)
(* than the buffer, and lengths that no client should send: one that has   *)
(* the NUL in the name judge.html, one in the slash before it, one in      *)
(* front of the buffer, and one at the end of int.                         *)
(***************************************************************************)
EXTENDS HttpRead, TLC

Crlf == <<"cr", "lf">>

Line(method, url) == <<method, url, "version">> \o Crlf
Header(h)         == <<h>> \o Crlf

Get       == Line("get", "file") \o Header("other") \o Crlf
Absolute  == Line("get", "http://host/file") \o Header("zero") \o Crlf
RootKeep  == Line("get", "root") \o Header("keep") \o Crlf
RootPost  == Line("post", "root") \o Header("three") \o Crlf
PostKeep  == Line("post", "file") \o Header("three") \o Header("keep") \o Crlf
LastWins  == Line("post", "file") \o Header("slash") \o Header("three") \o Crlf
Hosts     == Line("get", "http://host") \o Crlf
Refused   == Line("junk", "file") \o Crlf
Partial   == <<"post", "file">> \o Crlf \o Crlf
BareLf    == <<"get", "file", "lf">> \o Crlf
BareCr    == <<"get", "file", "cr", "version">> \o Crlf \o Crlf
TooLong   ==
  Line("get", "file") \o <<"other">> \o [i \in 1..9 |-> "x"] \o Crlf \o Crlf

\* The text of these begins behind ten cells.
MCLengths ==
  "zero" :> 0 @@ "three" :> 3 @@ "name" :> -7 @@ "slash" :> -9
  @@ "outside" :> -11 @@ "huge" :> 39

MCPath ==
  [t \in {"root", "judge", "file"} |-> t] @@ "http://host/file" :> "file"

MCHostOnly == {"http://host"}

MCRequests ==
  {Get, Absolute, RootKeep,
   RootPost \o <<"x", "x", "x">>, RootPost \o Crlf \o <<"x">>,
   PostKeep \o <<"x", "x", "x">>, LastWins \o <<"x", "x", "x">>,
   Hosts, Refused, Partial, BareLf, BareCr, TooLong}
  \cup {Line("post", "root") \o Header(h) \o Crlf :
          h \in {"name", "slash", "outside", "huge"}}

ASSUME MCRequestsAssumption == \A r \in MCRequests : NothingFollows(r)

=============================================================================
