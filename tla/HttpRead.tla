------------------------------ MODULE HttpRead ------------------------------
(***************************************************************************)
(* http/http_conn.cpp, the input half of one connection: read_once puts    *)
(* what has arrived behind what is in m_read_buf, and process_read goes on *)
(* parsing where it stopped, one line per round of its loop.               *)
(*                                                                         *)
(* The buffer is a sequence of cells.  A cell is a CR, an LF, a NUL that   *)
(* the parser has written, or a piece of text: the first cell of a line    *)
(* says what the line is, and a request line has a method, a URL and the   *)
(* version.  Indices count from 0 as in the code.                          *)
(***************************************************************************)
EXTENDS Integers, Sequences, FiniteSetsExt

CONSTANTS
  Path,             \* the path in each URL with one, behind http(s)://host or
                    \* alone; "root" is "/"
  HostOnly,         \* URLs "http://host" that have no slash behind the host
  Lengths,          \* the int that atol makes of each Content-length header
  Requests,         \* the requests the client may send, sequences of cells
  READ_BUFFER_SIZE,
  INT_MAX,
  MaxSent           \* bound: how many requests the client sends

Starts == {"get", "post"}       \* the methods that parse_request_line takes
Urls   == {"judge"} \cup {Path[t] : t \in DOMAIN Path}
Marks  == {"cr", "lf", "nul"}

\* "other" is any other header, and "amp" the text "&password=".
Cells ==
  Starts \cup DOMAIN Path \cup HostOnly \cup DOMAIN Lengths
         \cup {"junk", "version", "keep", "other", "x", "amp"} \cup Marks

ASSUME ReadAssumption ==
  /\ (DOMAIN Path \cup HostOnly \cup DOMAIN Lengths) \cap Marks = {}
  /\ DOMAIN Path \cap HostOnly = {}
  /\ \A h \in DOMAIN Lengths : Lengths[h] \in Int /\ Lengths[h] <= INT_MAX
  /\ Requests \subseteq Seq(Cells \ {"nul"})
  /\ READ_BUFFER_SIZE \in Nat \ {0}
  /\ INT_MAX \in Nat /\ INT_MAX >= 2 * READ_BUFFER_SIZE
  /\ MaxSent \in Nat

(***************************************************************************)
(* A request as a whole, without the buffer, the pieces and the state      *)
(* machine: what a correct parser makes of it.                             *)
(***************************************************************************)
Blank == <<"cr", "lf", "cr", "lf">>

HeadersEnds(r) == {i \in 4..Len(r) : SubSeq(r, i - 3, i) = Blank}
HeadersEnd(r)  == Min(HeadersEnds(r))
Headers(r)     == {r[i] : i \in {j \in 2..HeadersEnd(r) : r[j - 1] = "lf"}}

\* The last Content-length header within the first k cells counts.
LengthLines(r, k) == {j \in 2..k : r[j - 1] = "lf" /\ r[j] \in DOMAIN Lengths}
LengthAt(r, k) ==
  IF LengthLines(r, k) = {} THEN 0 ELSE Lengths[r[Max(LengthLines(r, k))]]

ContentSize(r) == LengthAt(r, HeadersEnd(r))

\* Every CR is followed by an LF, and every LF comes after a CR.
Regular(r) ==
  \A i \in 1..(HeadersEnd(r) - 1) : r[i] = "cr" <=> r[i + 1] = "lf"

GoodLine(r) ==
  /\ Len(r) > 3
  /\ r[1] \in Starts /\ r[2] \in DOMAIN Path /\ r[3] = "version" /\ r[4] = "cr"

Url(r) == IF Path[r[2]] = "root" THEN "judge" ELSE Path[r[2]]

\* A request that ends where its headers say it does.
WellFormed(r) ==
  /\ GoodLine(r)
  /\ HeadersEnds(r) # {} /\ Regular(r)
  /\ ContentSize(r) >= 0
  /\ Len(r) = HeadersEnd(r) + ContentSize(r)

\* The client waits for the answer before it sends more: nothing comes behind
\* what the headers announce.
NothingFollows(r) ==
  GoodLine(r) /\ HeadersEnds(r) # {} /\ Regular(r) =>
    Len(r) <= HeadersEnd(r) \/ Len(r) <= HeadersEnd(r) + ContentSize(r)

\* The requests on which the program is lost: a URL that ends with its host,
\* and a length below zero or at the end of int.
Odd(r) ==
  \/ Len(r) > 1 /\ r[2] \in HostOnly
  \/ /\ HeadersEnds(r) # {}
     /\ ContentSize(r) \notin 0..(INT_MAX - READ_BUFFER_SIZE)

\* Is the n-th cell inside of the body, some of it still to come?
InBody(r, n) ==
  WellFormed(r) /\ n > HeadersEnd(r) /\ n < Len(r)

-----------------------------------------------------------------------------
VARIABLES
  wire,             \* what was sent and has not been read
  sent,             \* the client's last request
  sentCount,        \* how many requests the client has sent
  answered,         \* and how many were answered
  cut,              \* did a recv end in the middle of the last request's body?
  m_read_buf,       \* its first m_read_idx cells
  m_checked_idx, m_start_line,
  m_check_state, m_method, cgi, m_url, m_linger, m_content_length,
  m_string,         \* where the body begins; -1, any address, until it is set
  line_status,      \* the local variable of process_read
  code,             \* what process_read returned
  pc                \* "wait" for input, "loop", "line", "respond", "closed";
                    \* "undefined": nothing is known of the program any more

client == <<wire, sent, sentCount, answered, cut>>
index  == <<m_checked_idx, m_start_line>>
target == <<m_method, cgi, m_url>>
parsed == <<m_check_state, target, m_linger, m_content_length, m_string>>
vars   == <<client, m_read_buf, index, parsed, line_status, code, pc>>

m_read_idx == Len(m_read_buf)
Cell(i)    == m_read_buf[i + 1]

\* Slip: init() forgets cgi.
Reset_Cgi ==
  /\ m_read_buf' = << >>
  /\ m_checked_idx' = 0 /\ m_start_line' = 0
  /\ m_check_state' = "requestline"
  /\ m_method' = "get" /\ m_url' = "none" /\ m_linger' = FALSE
  /\ m_content_length' = 0
  /\ UNCHANGED cgi

\* http_conn::init().  m_string stays as it is.
Reset ==
  /\ m_read_buf' = << >>
  /\ m_checked_idx' = 0 /\ m_start_line' = 0
  /\ m_check_state' = "requestline"
  /\ m_method' = "get" /\ cgi' = FALSE /\ m_url' = "none"
  /\ m_linger' = FALSE
  /\ m_content_length' = 0

Init ==
  /\ wire = << >> /\ sent = << >> /\ sentCount = 0 /\ answered = 0
  /\ cut = FALSE
  /\ m_read_buf = << >>
  /\ m_checked_idx = 0 /\ m_start_line = 0
  /\ m_check_state = "requestline"
  /\ m_method = "get" /\ cgi = FALSE /\ m_url = "none"
  /\ m_linger = FALSE
  /\ m_content_length = 0 /\ m_string = -1
  /\ line_status = "ok" /\ code = "NO_REQUEST"
  /\ pc = "wait"

-----------------------------------------------------------------------------
(***************************************************************************)
(* The client sends a request when the last one was answered.              *)
(***************************************************************************)
Send(r) ==
  /\ pc = "wait"
  /\ sentCount = answered /\ sentCount < MaxSent
  /\ wire' = r /\ sent' = r
  /\ sentCount' = sentCount + 1
  /\ cut' = FALSE
  /\ UNCHANGED <<answered, m_read_buf, index, parsed, line_status, code, pc>>

(***************************************************************************)
(* read_once: one recv returns what has arrived, as far as there is room;  *)
(* the network may deliver a request in any pieces.  A worker begins       *)
(* process_read.                                                           *)
(***************************************************************************)
\* Slip: the room left in the buffer is not looked at.
Receive_NoRoom(n) ==
  /\ pc = "wait"
  /\ n \in 1..Len(wire)
  /\ m_read_buf' = m_read_buf \o SubSeq(wire, 1, n)
  /\ cut' = (cut \/ InBody(sent, m_read_idx + n))
  /\ wire' = SubSeq(wire, n + 1, Len(wire))
  /\ line_status' = "ok"
  /\ pc' = "loop"
  /\ UNCHANGED <<sent, sentCount, answered, index, parsed, code>>

Receive(n) ==
  /\ pc = "wait"
  /\ n \in 1..Len(wire) /\ m_read_idx + n <= READ_BUFFER_SIZE
  /\ m_read_buf' = m_read_buf \o SubSeq(wire, 1, n)
  /\ cut' = (cut \/ InBody(sent, m_read_idx + n))
  /\ wire' = SubSeq(wire, n + 1, Len(wire))
  /\ line_status' = "ok"
  /\ pc' = "loop"
  /\ UNCHANGED <<sent, sentCount, answered, index, parsed, code>>

\* The buffer is full: read_once fails and main closes the connection.
ReadFull ==
  /\ pc = "wait"
  /\ wire # << >> /\ m_read_idx >= READ_BUFFER_SIZE
  /\ pc' = "closed"
  /\ UNCHANGED <<client, m_read_buf, index, parsed, line_status, code>>

-----------------------------------------------------------------------------
(***************************************************************************)
(* The condition of process_read's loop.  The content is not split into    *)
(* lines; otherwise parse_line looks for the end of a line from            *)
(* m_checked_idx on.                                                       *)
(***************************************************************************)
InContent == m_check_state = "content" /\ line_status = "ok"

Stops == {i \in m_checked_idx..(m_read_idx - 1) : Cell(i) \in {"cr", "lf"}}
Stop  == Min(Stops)

AtEnd == Stops # {} /\ Cell(Stop) = "cr" /\ Stop + 1 = m_read_idx

\* The two cells of the line's end, if parse_line finds it at Stop.
EndsAt ==
  IF Cell(Stop) = "cr" THEN <<Stop, Stop + 1>> ELSE <<Stop - 1, Stop>>

IsEnd ==
  IF Cell(Stop) = "cr" THEN Cell(Stop + 1) = "lf"
  ELSE Stop > 1 /\ Cell(Stop - 1) = "cr"

\* The line is not complete: process() waits for more input.
LineOpen ==
  /\ pc = "loop" /\ ~InContent
  /\ Stops = {} \/ AtEnd
  /\ m_checked_idx' = IF Stops = {} THEN m_read_idx ELSE Stop
  /\ line_status' = "open"
  /\ code' = "NO_REQUEST" /\ pc' = "wait"
  /\ UNCHANGED <<client, m_read_buf, m_start_line, parsed>>

\* A CR or LF on its own ends the loop as an incomplete line does.
LineBad ==
  /\ pc = "loop" /\ ~InContent
  /\ Stops # {} /\ ~AtEnd /\ ~IsEnd
  /\ m_checked_idx' = Stop
  /\ line_status' = "bad"
  /\ code' = "NO_REQUEST" /\ pc' = "wait"
  /\ UNCHANGED <<client, m_read_buf, m_start_line, parsed>>

LineOk ==
  /\ pc = "loop" /\ ~InContent
  /\ Stops # {} /\ ~AtEnd /\ IsEnd
  /\ m_read_buf' = [i \in 1..m_read_idx |->
       IF i - 1 \in {EndsAt[1], EndsAt[2]} THEN "nul" ELSE m_read_buf[i]]
  /\ m_checked_idx' = EndsAt[2] + 1
  /\ line_status' = "ok"
  /\ pc' = "line"
  /\ UNCHANGED <<client, m_start_line, parsed, code>>

-----------------------------------------------------------------------------
(***************************************************************************)
(* The body of the loop.  get_line() is the text from m_start_line to the  *)
(* next NUL.                                                               *)
(***************************************************************************)
Nuls == {i \in m_start_line..(m_read_idx - 1) : Cell(i) = "nul"}

get_line ==
  SubSeq(m_read_buf, m_start_line + 1,
         IF Nuls = {} THEN m_read_idx ELSE Min(Nuls))

IsLine(kinds) == get_line # << >> /\ get_line[1] \in kinds

NextLine == m_start_line' = m_checked_idx

InLine(state) == pc = "line" /\ m_check_state = state

Respond(c) == code' = c /\ pc' = "respond"
Continue   == pc' = "loop" /\ UNCHANGED code

HasMethod == IsLine(Starts) /\ Len(get_line) > 1

IsRequestLine ==
  HasMethod /\ Len(get_line) = 3 /\ get_line[2] \in DOMAIN Path
            /\ get_line[3] = "version"

\* strchr finds no slash behind the host, and m_url is NULL at line 321.
NullUrl ==
  HasMethod /\ Len(get_line) = 3 /\ get_line[2] \in HostOnly
            /\ get_line[3] = "version"

\* Slip: the name of the page is longer.
Judge_Longer == <<"x", "x", "x", "nul">>

\* The cells of "judge.html" and its NUL: as many bytes as the version, the
\* blank before it, and the end of the line have (11).
Judge == <<"x", "x", "nul">>

\* strcat(m_url, "judge.html") writes into the buffer, behind the URL.
Overlay ==
  [i \in 1..m_read_idx |->
     LET k == i - (m_start_line + 2)
     IN  IF k \in 1..Len(Judge) THEN Judge[k] ELSE m_read_buf[i]]

\* The method is known; a URL loses what precedes its path (314-325).
parse_request_line ==
  /\ InLine("requestline")
  /\ NextLine
  /\ m_method' = IF HasMethod THEN get_line[1] ELSE m_method
  /\ cgi' = (cgi \/ (HasMethod /\ get_line[1] = "post"))
  /\ IF IsRequestLine
     THEN /\ m_url' = IF Path[get_line[2]] = "root" THEN "judge"
                      ELSE Path[get_line[2]]
          /\ m_read_buf' = IF Path[get_line[2]] = "root" THEN Overlay
                           ELSE m_read_buf
          /\ m_check_state' = "header"
          /\ Continue
     ELSE /\ IF NullUrl THEN pc' = "undefined" /\ UNCHANGED code
             ELSE Respond("BAD_REQUEST")
          /\ UNCHANGED <<m_url, m_read_buf, m_check_state>>
  /\ UNCHANGED <<client, m_checked_idx, m_linger, m_content_length, m_string,
                 line_status>>

parse_headers ==
  /\ InLine("header")
  /\ get_line # << >>
  /\ NextLine /\ Continue
  /\ m_linger' = (m_linger \/ IsLine({"keep"}))
  /\ m_content_length' = IF IsLine(DOMAIN Lengths) THEN Lengths[get_line[1]]
                         ELSE m_content_length
  /\ UNCHANGED <<client, m_read_buf, m_checked_idx, m_check_state, target,
                 m_string, line_status>>

\* The empty line ends the headers, and the request if it has no content.
EndOfHeaders ==
  /\ InLine("header")
  /\ get_line = << >>
  /\ NextLine
  /\ IF m_content_length # 0
     THEN m_check_state' = "content" /\ Continue
     ELSE Respond("GET_REQUEST") /\ UNCHANGED m_check_state
  /\ UNCHANGED <<client, m_read_buf, m_checked_idx, target, m_linger,
                 m_content_length, m_string, line_status>>

\* Slip: one byte too many is waited for.
Complete_OffByOne == m_read_idx > m_content_length + m_checked_idx

Complete == m_read_idx >= m_content_length + m_checked_idx

\* text[m_content_length] is set to NUL.  A full buffer has it behind its end,
\* in the low byte of m_read_idx, which is 0 then.
NulAt == m_start_line + m_content_length

TextEnded == [i \in 1..m_read_idx |-> IF i = NulAt + 1 THEN "nul"
                                      ELSE m_read_buf[i]]

\* The cells of the URL, with the name that was written behind it.
UrlCells ==
  1..(IF m_read_buf[2] \in DOMAIN Path /\ Path[m_read_buf[2]] = "root"
      THEN Len(Judge) ELSE 1)

\* A length below zero has the NUL before the text: in the URL it leaves some
\* shorter path.
HandOn ==
  /\ m_string' = m_start_line
  /\ m_read_buf' = TextEnded
  /\ m_url' \in IF NulAt \in UrlCells THEN Urls ELSE {m_url}
  /\ Respond("GET_REQUEST")

ContentTurn == (pc = "loop" /\ InContent) \/ InLine("content")
InRange   == m_content_length + m_checked_idx <= INT_MAX

\* Slip: line_status is not set after the content.
parse_content_Spin ==
  /\ ContentTurn /\ InRange /\ (Complete => NulAt >= 0)
  /\ NextLine
  /\ IF Complete THEN HandOn /\ UNCHANGED line_status
     ELSE Continue /\ UNCHANGED <<line_status, m_string, m_read_buf, m_url>>
  /\ UNCHANGED <<client, m_checked_idx, m_check_state, m_method, cgi,
                 m_linger, m_content_length>>

parse_content ==
  /\ ContentTurn /\ InRange /\ (Complete => NulAt >= 0)
  /\ NextLine
  /\ IF Complete THEN HandOn /\ UNCHANGED line_status
     ELSE /\ line_status' = "open"
          /\ Continue
          /\ UNCHANGED <<m_string, m_read_buf, m_url>>
  /\ UNCHANGED <<client, m_checked_idx, m_check_state, m_method, cgi,
                 m_linger, m_content_length>>

\* The sum of line 387 overflows, the NUL is written before the buffer, or it
\* takes the slash from the URL and do_request has no file name to look at.
ContentOutside ==
  /\ ContentTurn
  /\ ~InRange \/ (Complete /\ (NulAt < 0 \/ NulAt = 1))
  /\ pc' = "undefined"
  /\ UNCHANGED <<client, m_read_buf, index, parsed, line_status, code>>

-----------------------------------------------------------------------------
(***************************************************************************)
(* The response is written; write() then waits for the next request, or    *)
(* main closes the connection.                                             *)
(***************************************************************************)
AnswerKeep ==
  /\ pc = "respond" /\ m_linger
  /\ answered' = answered + 1
  /\ Reset
  /\ pc' = "wait"
  /\ UNCHANGED <<wire, sent, sentCount, cut, m_string, line_status, code>>

AnswerClose ==
  /\ pc = "respond" /\ ~m_linger
  /\ answered' = answered + 1
  /\ pc' = "closed"
  /\ UNCHANGED <<wire, sent, sentCount, cut, m_read_buf, index, parsed,
                 line_status, code>>

\* main closes the connection for another reason, and its object is used for
\* a new one (HttpConn says when).
Close ==
  /\ pc \in {"wait", "respond"}
  /\ pc' = "closed"
  /\ UNCHANGED <<client, m_read_buf, index, parsed, line_status, code>>

NewConnection ==
  /\ pc = "closed"
  /\ wire' = << >> /\ sent' = << >>
  /\ answered' = sentCount /\ cut' = FALSE
  /\ Reset
  /\ pc' = "wait"
  /\ UNCHANGED <<sentCount, m_string, line_status, code>>

-----------------------------------------------------------------------------
process_read ==
  \/ LineOpen \/ LineBad \/ LineOk
  \/ parse_request_line \/ parse_headers \/ EndOfHeaders
  \/ parse_content \/ ContentOutside

read_once == (\E n \in 1..READ_BUFFER_SIZE : Receive(n)) \/ ReadFull

Answer == AnswerKeep \/ AnswerClose

Next ==
  \/ \E r \in Requests : Send(r)
  \/ read_once \/ process_read \/ Answer

Spec == Init /\ [][Next]_vars

\* What was sent arrives and epoll reports it, the worker runs on, and the
\* response is written.
FairSpec ==
  Spec /\ WF_vars(read_once) /\ WF_vars(process_read) /\ WF_vars(Answer)

-----------------------------------------------------------------------------
\* The indices of the parser are in order and in what was read.
TypeOK ==
  /\ {wire, sent} \subseteq Seq(Cells)
  /\ m_read_buf \in Seq(Cells) /\ m_read_idx <= READ_BUFFER_SIZE
  /\ m_checked_idx \in 0..m_read_idx /\ m_start_line \in 0..m_checked_idx
  /\ m_check_state \in {"requestline", "header", "content"}
  /\ m_method \in Starts /\ m_url \in Urls \cup {"none"}
  /\ cgi \in BOOLEAN /\ m_linger \in BOOLEAN
  /\ m_content_length \in Int /\ m_string \in -1..READ_BUFFER_SIZE
  /\ line_status \in {"ok", "open", "bad"}
  /\ code \in {"NO_REQUEST", "GET_REQUEST", "BAD_REQUEST"}
  /\ pc \in {"wait", "loop", "line", "respond", "closed", "undefined"}
  /\ sentCount \in 0..MaxSent /\ answered \in Nat
  /\ cut \in BOOLEAN

\* However a request was cut into pieces, what the parser hands on is what the
\* request says, and it hands it on when the last byte is there and not
\* before, for each request of a connection that is kept; the body is where
\* m_string points to, behind whatever init() and the parser left in the
\* buffer.  Only a length below zero is handed on with any path, and the
\* program is lost on nothing but what Odd names.
AnswerMatches ==
  /\ pc = "respond" =>
       IF code = "BAD_REQUEST" THEN ~GoodLine(sent)
       ELSE /\ GoodLine(sent) /\ HeadersEnds(sent) # {}
            /\ wire = << >>
            /\ m_method = sent[1] /\ cgi = (sent[1] = "post")
            /\ m_linger = ("keep" \in Headers(sent))
            /\ ContentSize(sent) >= 0 => WellFormed(sent) /\ m_url = Url(sent)
            /\ ContentSize(sent) > 0 =>
                 /\ m_string = HeadersEnd(sent) /\ m_read_idx = Len(sent)
                 /\ \A i \in (m_string + 1)..m_read_idx :
                      m_read_buf[i] = sent[i]
  /\ pc = "undefined" => Odd(sent)

\* Every well-formed request is answered in the end, unless it does not fit
\* into the buffer or a recv ended in the middle of its body: then parse_line
\* moves m_checked_idx over the part that is there (line 408), and
\* parse_content waits for as many bytes again behind the body (line 387).
GetsAnswer ==
  \A k \in 1..MaxSent :
    (sentCount = k /\ WellFormed(sent)) ~>
      (answered >= k \/ cut \/ Len(sent) > READ_BUFFER_SIZE)

=============================================================================
