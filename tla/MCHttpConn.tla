----------------------------- MODULE MCHttpConn -----------------------------
(***************************************************************************)
(* An instance of HttpConn for TLC: "/", behind whose answer the           *)
(* connection is closed, a login with its account, kept, one without a     *)
(* body, which finds what m_string was left as, one with a name that is    *)
(* too long, the same URL by GET, which has no file, a page by its         *)
(* number, which may not be read, a URL without a path, an empty file,     *)
(* and a request that is refused.                                          *)
(***************************************************************************)
EXTENDS HttpConn

Crlf == <<"cr", "lf">>

Line(method, url) == <<method, url, "version">> \o Crlf
Keep == <<"keep">> \o Crlf
Body == <<"two">> \o Crlf

Login == Line("post", "2CGISQL")

MCPath == [t \in {"root", "2CGISQL", "5", "empty"} |-> t]

MCHostOnly == {"http://host"}

MCLengths == "two" :> 2 @@ "three" :> 3

MCRequests ==
  {Line("get", "root") \o Crlf,
   Login \o Body \o Keep \o Crlf \o <<"x", "amp">>,
   Login \o Keep \o Crlf,
   Login \o <<"three">> \o Crlf \o Crlf \o <<"x", "x", "amp">>,
   Line("get", "2CGISQL") \o Keep \o Crlf,
   Line("post", "5") \o Crlf,
   Line("get", "http://host") \o Crlf,
   Line("get", "empty") \o Crlf,
   <<"junk">> \o Crlf \o Crlf}

\* This client waits for its answers, as the theorems about HttpConn suppose.
ASSUME MCRequestsAssumption == \A r \in MCRequests : R!NothingFollows(r)

MCFlag ==
  "2CGISQL" :> "2" @@ "5" :> "5" @@
  [n \in {"root", "judge", "empty", "welcome", "logError", "log",
         "registerError"} |-> "letter"]

MCSize ==
  "judge" :> 1 @@ "welcome" :> 2 @@ "logError" :> 1 @@ "empty" :> 0

=============================================================================
