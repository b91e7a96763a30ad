--------------------------- MODULE HttpConnProofs ---------------------------
(***************************************************************************)
(* Proofs about HttpConn and the two modules it is composed of, for any    *)
(* requests, files, buffer, and bounds.                                    *)
(***************************************************************************)
EXTENDS HttpConn, FiniteSetTheorems, SequenceTheorems, TLAPS

\* What m_url is as long as the parser has it: do_request may replace it by a
\* page that is no URL.
ParsedUrl == IF m_url \in R!Urls \cup {"none"} THEN m_url ELSE "none"

RP == INSTANCE HttpReadProofs WITH
  pc <- reading, wire <- input, m_url <- ParsedUrl

\* The steps of the output half, whatever the input half does.
WStep ==
  \/ \E head \in HeadSizes :
       \/ W!RespondPage(head)
       \/ \E size \in FileSizes : W!RespondFile(head, size)
       \/ W!NoContent(head)
  \/ W!NoAnswer
  \/ W!Writable \/ W!WriteAgain
  \/ \E n \in 0..Len(W!Pending) :
       W!WritePart(n) \/ W!WriteLastKeep(n) \/ W!WriteLastClose(n)
  \/ W!WriteError \/ W!CloseEarly \/ W!NewConnection
  \/ UNCHANGED writeHalf

-----------------------------------------------------------------------------
(***************************************************************************)
(* The inductive invariants                                                *)
(***************************************************************************)
Iovecs == [area : {"buf", "file"} \X Int, at : Int, len : Nat]

\* The bytes the iovecs in use stand for are not more than bytes_to_send.
Room ==
  /\ m_iv[1].len <= bytes_to_send
  /\ m_iv_count = 2 => m_iv[1].len + m_iv[2].len <= bytes_to_send

\* The counters of a response, in whatever parts it goes out.
Counted ==
  /\ m_write_idx = answer[1] /\ answer[1] \in HeadSizes
  /\ bytes_have_send + bytes_to_send = answer[1] + answer[2]
  /\ Room
  /\ m_iv_count \in {1, 2}
  /\ m_iv_count = 1 => answer[2] = 0
  /\ m_iv_count = 2 => m_file_address = responses

Sizes ==
  /\ m_iv \in Iovecs \X Iovecs
  /\ writing = "wait" => bytes_have_send = 0
  /\ W!Busy => Counted

\* The two halves take turns.
Turns ==
  /\ writing = "wait" => m_real_file = "none" /\ m_url \in R!Urls \cup {"none"}
  /\ reading \in {"wait", "loop", "line"} => writing = "wait"

Typed == TypeOK /\ RP!TypeOK /\ Sizes /\ Turns

\* The mappings that no response being sent needs are counted by dropped.
Left == IF W!Busy THEN mapped \ {responses} ELSE mapped

Accounted ==
  /\ mapped \subseteq 1..responses
  /\ Cardinality(Left) <= dropped
  /\ W!Busy /\ responses \in mapped => m_file_address = responses

\* A byte is its place in an area.
Places == ({"buf", "file"} \X Int) \X Int

\* The i-th byte of the response.
Place(i) ==
  IF i <= answer[1] THEN <<W!Buf, i - 1>>
  ELSE <<W!File(responses), i - answer[1] - 1>>

Goes(bytes, from) ==
  \A i \in 1..Len(bytes) : bytes[i] = Place(from + i)

\* What the iovecs say while m_write_buf's text went out in one part at most.
InText ==
  /\ m_iv[1] = W!Part(W!Buf, bytes_have_send, answer[1] - bytes_have_send)
  /\ m_iv_count = 2 => m_iv[2] = W!Part(W!File(responses), 0, answer[2])
  /\ pieces = 0 <=> bytes_have_send = 0

InFile ==
  /\ m_iv[1].len = 0
  /\ m_iv_count = 2 =>
       m_iv[2] = W!Part(W!File(responses), bytes_have_send - answer[1],
                        bytes_to_send)

Placed ==
  /\ output \in Seq(Places)
  /\ pieces <= 1 =>
       /\ W!Busy =>
            /\ Len(output) = bytes_have_send /\ Goes(output, 0)
            /\ IF bytes_have_send < answer[1] THEN InText ELSE InFile
       /\ writing = "wait" =>
            /\ Len(output) = answer[1] + answer[2] /\ Goes(output, 0)

\* m_url is what the parser made of it until do_request reads it.
Requested ==
  /\ RP!Follows \/ (Lost /\ Losing(sent))
  /\ writing = "wait" => RP!UrlRight

-----------------------------------------------------------------------------
(***************************************************************************)
(* The input half is the one that HttpReadProofs is about: as long as the  *)
(* parser has m_url, ParsedUrl is m_url, and nothing else tells R from RP. *)
(***************************************************************************)
LEMMA ReadAssumed == RP!ReadAssumption
BY RequestsAssumption
   DEF R!ReadAssumption, RP!ReadAssumption, R!Cells, RP!Cells, R!Starts, RP!Starts,
       R!Marks, RP!Marks

LEMMA SameUrls == R!Urls = RP!Urls
BY DEF R!Urls, RP!Urls

\* What is said about a request is the same.
LEMMA SameRequest ==
  ASSUME NEW r
  PROVE  /\ R!GoodLine(r) <=> RP!GoodLine(r)
         /\ R!WellFormed(r) <=> RP!WellFormed(r)
         /\ \A n : R!InBody(r, n) <=> RP!InBody(r, n)
         /\ R!NothingFollows(r) <=> RP!NothingFollows(r)
         /\ R!Odd(r) <=> RP!Odd(r)
         /\ R!HeadersEnds(r) = RP!HeadersEnds(r)
         /\ R!HeadersEnd(r) = RP!HeadersEnd(r)
         /\ R!ContentSize(r) = RP!ContentSize(r)
         /\ R!Url(r) = RP!Url(r)
<1>1. R!HeadersEnds(r) = RP!HeadersEnds(r)
  BY DEF R!HeadersEnds, RP!HeadersEnds, R!Blank, RP!Blank
<1>2. R!HeadersEnd(r) = RP!HeadersEnd(r)
  BY <1>1 DEF R!HeadersEnd, RP!HeadersEnd, R!Min, RP!Min
<1>3. R!ContentSize(r) = RP!ContentSize(r)
  <2>1. \A k : R!LengthLines(r, k) = RP!LengthLines(r, k)
    BY DEF R!LengthLines, RP!LengthLines
  <2>2. \A S : R!Max(S) = RP!Max(S)
    BY DEF R!Max, RP!Max
  <2>3. \A k : R!LengthAt(r, k) = RP!LengthAt(r, k)
    BY <2>1, <2>2 DEF R!LengthAt, RP!LengthAt
  <2> QED
    BY <1>2, <2>3 DEF R!ContentSize, RP!ContentSize
<1>4. R!Regular(r) <=> RP!Regular(r)
  BY <1>2 DEF R!Regular, RP!Regular
<1>5. R!GoodLine(r) <=> RP!GoodLine(r)
  BY DEF R!GoodLine, RP!GoodLine, R!Starts, RP!Starts
<1>6. R!WellFormed(r) <=> RP!WellFormed(r)
  BY <1>1, <1>2, <1>3, <1>4, <1>5 DEF R!WellFormed, RP!WellFormed
<1>7. \A n : R!InBody(r, n) <=> RP!InBody(r, n)
  BY <1>2, <1>6 DEF R!InBody, RP!InBody
<1>8. R!NothingFollows(r) <=> RP!NothingFollows(r)
  BY <1>1, <1>2, <1>3, <1>4, <1>5 DEF R!NothingFollows, RP!NothingFollows
<1>9. R!Odd(r) <=> RP!Odd(r)
  BY <1>1, <1>3 DEF R!Odd, RP!Odd
<1>10. R!Url(r) = RP!Url(r)
  BY DEF R!Url, RP!Url
<1> QED
  BY <1>1, <1>2, <1>3, <1>5, <1>6, <1>7, <1>8, <1>9, <1>10

\* And so is what parse_line and get_line find.
LEMMA SameLine ==
  /\ R!m_read_idx = RP!m_read_idx
  /\ R!InContent <=> RP!InContent
  /\ R!Stops = RP!Stops /\ R!Stop = RP!Stop
  /\ R!AtEnd <=> RP!AtEnd
  /\ R!EndsAt = RP!EndsAt
  /\ R!IsEnd <=> RP!IsEnd
  /\ R!get_line = RP!get_line
  /\ R!Overlay = RP!Overlay
  /\ R!HasMethod <=> RP!HasMethod
  /\ R!IsRequestLine <=> RP!IsRequestLine
  /\ R!NullUrl <=> RP!NullUrl
  /\ R!Complete <=> RP!Complete
  /\ R!NulAt = RP!NulAt /\ R!TextEnded = RP!TextEnded
  /\ R!UrlCells = RP!UrlCells
  /\ R!ContentTurn <=> RP!ContentTurn
  /\ R!InRange <=> RP!InRange
<1>1. R!m_read_idx = RP!m_read_idx /\ \A i : R!Cell(i) = RP!Cell(i)
  BY DEF R!m_read_idx, RP!m_read_idx, R!Cell, RP!Cell
<1>2. R!Stops = RP!Stops
  BY <1>1 DEF R!Stops, RP!Stops
<1>3. R!Stop = RP!Stop
  BY <1>2 DEF R!Stop, RP!Stop, R!Min, RP!Min
<1>4. R!AtEnd <=> RP!AtEnd
  BY <1>1, <1>2, <1>3 DEF R!AtEnd, RP!AtEnd
<1>5. R!EndsAt = RP!EndsAt
  BY <1>1, <1>3 DEF R!EndsAt, RP!EndsAt
<1>6. R!IsEnd <=> RP!IsEnd
  BY <1>1, <1>3 DEF R!IsEnd, RP!IsEnd
<1>7. R!get_line = RP!get_line
  <2>1. R!Nuls = RP!Nuls
    BY <1>1 DEF R!Nuls, RP!Nuls
  <2> QED
    BY <1>1, <2>1 DEF R!get_line, RP!get_line, R!Min, RP!Min
<1>8. R!HasMethod <=> RP!HasMethod
  BY <1>7 DEF R!HasMethod, RP!HasMethod, R!IsLine, RP!IsLine, R!Starts, RP!Starts
<1>9. R!IsRequestLine <=> RP!IsRequestLine
  BY <1>7, <1>8 DEF R!IsRequestLine, RP!IsRequestLine
<1>10. R!Overlay = RP!Overlay
  BY <1>1 DEF R!Overlay, RP!Overlay, R!Judge, RP!Judge
<1>11. (R!InContent <=> RP!InContent) /\ (R!Complete <=> RP!Complete)
  BY <1>1 DEF R!InContent, RP!InContent, R!Complete, RP!Complete
<1>12. R!NullUrl <=> RP!NullUrl
  BY <1>7, <1>8 DEF R!NullUrl, RP!NullUrl
<1>13. R!NulAt = RP!NulAt
  BY DEF R!NulAt, RP!NulAt
<1>14. R!TextEnded = RP!TextEnded
  BY <1>1, <1>13 DEF R!TextEnded, RP!TextEnded
<1>15. R!UrlCells = RP!UrlCells
  BY DEF R!UrlCells, RP!UrlCells, R!Judge, RP!Judge
<1>16. (R!ContentTurn <=> RP!ContentTurn) /\ (R!InRange <=> RP!InRange)
  BY <1>11 DEF R!ContentTurn, RP!ContentTurn, R!InLine, RP!InLine, R!InRange,
               RP!InRange
<1> QED
  BY <1>1, <1>2, <1>3, <1>4, <1>5, <1>6, <1>7, <1>8, <1>9, <1>10, <1>11, <1>12,
     <1>13, <1>14, <1>15, <1>16

\* Every action of the input half.
LEMMA SameSend ==
  ASSUME NEW r \in Requests, R!Send(r) PROVE RP!Send(r)
BY DEF R!Send, RP!Send, R!index, RP!index, R!parsed, RP!parsed, R!target,
       RP!target, ParsedUrl

LEMMA SameReceive ==
  ASSUME NEW n \in 1..READ_BUFFER_SIZE, R!Receive(n) PROVE RP!Receive(n)
BY SameLine, SameRequest
   DEF R!Receive, RP!Receive, R!index, RP!index, R!parsed, RP!parsed, R!target,
       RP!target, ParsedUrl

LEMMA SameProcessRead ==
  ASSUME m_url \in R!Urls \cup {"none"}, R!process_read
  PROVE  RP!process_read /\ m_url' \in R!Urls \cup {"none"}
<1> USE SameLine
    DEF R!client, RP!client, R!index, RP!index, R!parsed, RP!parsed, R!target,
        RP!target, R!InLine, RP!InLine, R!NextLine, RP!NextLine, R!Continue,
        RP!Continue, R!Respond, RP!Respond
<1>1. ASSUME m_url' = m_url PROVE ParsedUrl' = ParsedUrl
  BY <1>1 DEF ParsedUrl
<1>2. CASE R!LineOpen
  BY <1>1, <1>2 DEF R!LineOpen, RP!LineOpen, RP!process_read
<1>3. CASE R!LineBad
  BY <1>1, <1>3 DEF R!LineBad, RP!LineBad, RP!process_read
<1>4. CASE R!LineOk
  BY <1>1, <1>4 DEF R!LineOk, RP!LineOk, RP!process_read
<1>5. CASE R!parse_request_line
  <2>1. R!IsRequestLine => Path[R!get_line[2]] \in R!Urls
    BY DEF R!IsRequestLine, R!Urls
  <2>2. "judge" \in R!Urls
    BY DEF R!Urls
  <2>3. m_url' \in R!Urls \cup {"none"}
    BY <1>5, <2>1, <2>2 DEF R!parse_request_line
  <2>4. ParsedUrl = m_url /\ ParsedUrl' = m_url'
    BY <2>3 DEF ParsedUrl
  <2>5. RP!parse_request_line
    BY <1>5, <2>4 DEF R!parse_request_line, RP!parse_request_line
  <2> QED
    BY <2>3, <2>5 DEF RP!process_read
<1>6. CASE R!parse_headers
  BY <1>1, <1>6 DEF R!parse_headers, RP!parse_headers, RP!process_read, R!IsLine,
                    RP!IsLine
<1>7. CASE R!EndOfHeaders
  BY <1>1, <1>7 DEF R!EndOfHeaders, RP!EndOfHeaders, RP!process_read
<1>8. CASE R!parse_content
  <2>1. m_url' \in R!Urls \cup {"none"}
    BY <1>8 DEF R!parse_content, R!HandOn
  <2>2. ParsedUrl = m_url /\ ParsedUrl' = m_url'
    BY <2>1 DEF ParsedUrl
  <2>3. R!HandOn => RP!HandOn
    BY <2>2, SameUrls DEF R!HandOn, RP!HandOn
  <2>4. RP!parse_content
    BY <1>8, <2>2, <2>3 DEF R!parse_content, RP!parse_content
  <2> QED
    BY <2>1, <2>4 DEF RP!process_read
<1>9. CASE R!ContentOutside
  BY <1>1, <1>9 DEF R!ContentOutside, RP!ContentOutside, RP!process_read
<1> QED
  BY <1>2, <1>3, <1>4, <1>5, <1>6, <1>7, <1>8, <1>9 DEF R!process_read

LEMMA SameEnds ==
  /\ R!AnswerKeep => RP!AnswerKeep /\ m_url' = "none"
  /\ R!AnswerClose => RP!AnswerClose
  /\ R!ReadFull => RP!ReadFull
  /\ R!Close => RP!Close
  /\ R!NewConnection => RP!NewConnection /\ m_url' = "none"
<1> USE DEF R!client, RP!client, R!index, RP!index, R!parsed, RP!parsed, R!target,
            RP!target, R!Reset, RP!Reset, ParsedUrl
<1>1. R!AnswerKeep => RP!AnswerKeep /\ m_url' = "none"
  BY DEF R!AnswerKeep, RP!AnswerKeep
<1>2. R!AnswerClose => RP!AnswerClose
  BY DEF R!AnswerClose, RP!AnswerClose
<1>3. R!ReadFull => RP!ReadFull
  BY SameLine DEF R!ReadFull, RP!ReadFull
<1>4. R!Close => RP!Close
  BY DEF R!Close, RP!Close
<1>5. R!NewConnection => RP!NewConnection /\ m_url' = "none"
  BY DEF R!NewConnection, RP!NewConnection
<1> QED
  BY <1>1, <1>2, <1>3, <1>4, <1>5

\* Every step but do_request's is one of the input half, or none for it.
LEMMA InputStep ==
  ASSUME Turns, [Next]_vars, ~Process, ~RunsOff PROVE [RP!Step]_(RP!vars)
<1>1. ASSUME readHalf' = readHalf, m_url' = m_url, m_linger' = m_linger
      PROVE  UNCHANGED RP!vars
  BY <1>1 DEF readHalf, RP!vars, RP!client, RP!index, RP!parsed, RP!target,
              ParsedUrl
<1>2. CASE Read
  <2>1. m_url \in R!Urls \cup {"none"}
    BY <1>2 DEF Read, Turns
  <2> QED
    BY <1>2, <2>1, SameSend, SameReceive, SameProcessRead
       DEF Read, Send, Receive, RP!Step, RP!Next, RP!read_once
<1>3. CASE Write
  BY <1>1, <1>3 DEF Write, W!Writable, W!WriteAgain, W!WritePart, W!CountSent,
                    W!output
<1>4. CASE WriteLast
  BY <1>4, SameEnds DEF WriteLast, RP!Step, RP!Next, RP!Answer
<1>5. CASE CloseEarly
  BY <1>5, SameEnds DEF CloseEarly, RP!Step, RP!Next, RP!read_once
<1>6. CASE NewConnection
  BY <1>6, SameEnds DEF NewConnection, RP!Step
<1>7. CASE UNCHANGED vars
  BY <1>1, <1>7 DEF vars
<1> QED
  BY <1>2, <1>3, <1>4, <1>5, <1>6, <1>7 DEF Next, Undefined

LEMMA OutputStep ==
  ASSUME [Next]_vars PROVE WStep
<1>1. CASE Read
  BY <1>1 DEF Read, WStep
<1>2. CASE Process
  <2>1. ASSUME NEW f \in DOMAIN Size PROVE Size[f] \in FileSizes
    BY DEF FileSizes
  <2> QED
    BY <1>2, <2>1 DEF Process, do_request, Serve, WStep
<1>3. CASE Write
  BY <1>3 DEF Write, WStep
<1>4. CASE WriteLast
  BY <1>4 DEF WriteLast, WStep
<1>5. CASE CloseEarly
  BY <1>5 DEF CloseEarly, WStep
<1>6. CASE NewConnection
  BY <1>6 DEF NewConnection, WStep
<1>7. CASE UNCHANGED vars
  BY <1>7 DEF vars, WStep
<1>8. CASE RunsOff
  BY <1>8 DEF RunsOff, WStep
<1> QED
  BY <1>1, <1>2, <1>3, <1>4, <1>5, <1>6, <1>7, <1>8 DEF Next, Undefined

-----------------------------------------------------------------------------
(***************************************************************************)
(* The iovecs                                                              *)
(***************************************************************************)
LEMMA BytesAre ==
  ASSUME NEW p \in Iovecs
  PROVE  /\ W!Bytes(p) \in Seq(Places) /\ Len(W!Bytes(p)) = p.len
         /\ \A i \in 1..p.len : W!Bytes(p)[i] = <<p.area, p.at + i - 1>>
<1>1. p.len \in Nat /\ p.at \in Int /\ p.area \in {"buf", "file"} \X Int
  BY DEF Iovecs
<1>2. W!Bytes(p) \in [1..p.len -> Places]
  BY <1>1 DEF W!Bytes, Places
<1>3. W!Bytes(p) \in Seq(Places)
  BY <1>1, <1>2
<1>4. Len(W!Bytes(p)) = p.len
  BY <1>1, <1>2, <1>3
<1> QED
  BY <1>3, <1>4 DEF W!Bytes

LEMMA PendingIs ==
  ASSUME Sizes
  PROVE  /\ W!Pending \in Seq(Places)
         /\ Len(W!Pending) =
              m_iv[1].len + (IF m_iv_count = 2 THEN m_iv[2].len ELSE 0)
         /\ \A i \in 1..Len(W!Pending) :
              W!Pending[i] = IF i <= m_iv[1].len
                             THEN W!Bytes(m_iv[1])[i]
                             ELSE W!Bytes(m_iv[2])[i - m_iv[1].len]
<1>1. m_iv[1] \in Iovecs /\ m_iv[2] \in Iovecs
  BY DEF Sizes
<1>2. m_iv[1].len \in Nat /\ m_iv[2].len \in Nat
  BY <1>1 DEF Iovecs
<1> DEFINE b == W!Bytes(m_iv[1])
           c == W!Bytes(m_iv[2])
<1>3. b \in Seq(Places) /\ Len(b) = m_iv[1].len
  BY <1>1, BytesAre
<1>4. c \in Seq(Places) /\ Len(c) = m_iv[2].len
  BY <1>1, BytesAre
<1>5. CASE m_iv_count = 2
  <2>1. W!Pending = b \o c
    BY <1>5 DEF W!Pending
  <2> HIDE DEF b, c
  <2>2. /\ W!Pending \in Seq(Places)
        /\ Len(W!Pending) = m_iv[1].len + m_iv[2].len
        /\ \A i \in 1..Len(W!Pending) :
             W!Pending[i] = IF i <= m_iv[1].len THEN b[i] ELSE c[i - m_iv[1].len]
    <3>1. /\ b \o c \in Seq(Places)
          /\ Len(b \o c) = Len(b) + Len(c)
          /\ \A i \in 1..Len(b) + Len(c) :
               (b \o c)[i] = IF i <= Len(b) THEN b[i] ELSE c[i - Len(b)]
      BY <1>3, <1>4, ConcatProperties
    <3> QED
      BY <1>3, <1>4, <2>1, <3>1
  <2> QED
    BY <1>5, <2>2 DEF b, c
<1>6. CASE m_iv_count # 2
  <2>1. W!Pending = b \o << >>
    BY <1>6 DEF W!Pending
  <2>2. W!Pending = b
    BY <1>3, <2>1
  <2> QED
    BY <1>2, <1>3, <1>6, <2>2
<1> QED
  BY <1>5, <1>6

LEMMA PartIs ==
  ASSUME NEW area \in {"buf", "file"} \X Int, NEW at \in Int, NEW len \in Nat
  PROVE  W!Part(area, at, len) \in Iovecs
BY DEF W!Part, Iovecs

\* What part of a response can be sent, and what is then left to send.
LEMMA Advanced ==
  ASSUME Typed, W!Busy, NEW n \in 0..Len(W!Pending),
         W!Advance(bytes_have_send + n, bytes_to_send - n)
  PROVE  /\ n <= bytes_to_send
         /\ m_iv' \in Iovecs \X Iovecs
         /\ m_iv'[1].len <= bytes_to_send - n
         /\ m_iv_count = 2 => m_iv'[1].len + m_iv'[2].len <= bytes_to_send - n
<1>1. m_iv \in Iovecs \X Iovecs /\ m_iv[1] \in Iovecs /\ m_iv[2] \in Iovecs
      /\ m_iv_count \in {1, 2} /\ Room
  BY DEF Typed, Sizes, Counted
<1>2. m_iv[1].len \in Nat /\ m_iv[2].len \in Nat
  BY <1>1 DEF Iovecs
<1>3. bytes_have_send \in Nat /\ bytes_to_send \in Nat /\ m_write_idx \in Nat
      /\ m_file_address \in Int
  BY ConnAssumption, RequestsAssumption
     DEF Typed, TypeOK, W!TypeOK, W!counts, MaxResponses, R!ReadAssumption
<1>4. n \in Nat /\ n <= m_iv[1].len + (IF m_iv_count = 2 THEN m_iv[2].len ELSE 0)
  BY <1>2, PendingIs DEF Typed
<1>5. n <= bytes_to_send
  BY <1>1, <1>2, <1>3, <1>4 DEF Room
<1>6. PICK have \in Nat : have = bytes_have_send + n
  BY <1>3, <1>4
<1>7. PICK rest \in Nat : rest = bytes_to_send - n
  BY <1>3, <1>4, <1>5
<1>8. have >= n /\ m_iv[1].len <= bytes_to_send
      /\ (m_iv_count = 2 => m_iv[1].len + m_iv[2].len <= bytes_to_send)
  BY <1>1, <1>3, <1>4, <1>6 DEF Room
<1>9. W!Advance(have, rest)
  BY <1>6, <1>7
<1>10. W!Buf \in {"buf", "file"} \X Int /\ W!File(m_file_address) \in {"buf", "file"} \X Int
  BY <1>3 DEF W!Buf, W!File
<1>11. CASE have >= m_iv[1].len
  <2>1. m_iv' = <<[m_iv[1] EXCEPT !.len = 0],
                  W!Part(W!File(m_file_address), have - m_write_idx, rest)>>
    BY <1>9, <1>11 DEF W!Advance
  <2>2. [m_iv[1] EXCEPT !.len = 0] \in Iovecs
        /\ [m_iv[1] EXCEPT !.len = 0].len = 0
    BY <1>1 DEF Iovecs
  <2>3. W!Part(W!File(m_file_address), have - m_write_idx, rest) \in Iovecs
    BY <1>3, <1>10, PartIs
  <2>4. W!Part(W!File(m_file_address), have - m_write_idx, rest).len = rest
    BY DEF W!Part
  <2>5. m_iv'[1].len = 0 /\ m_iv'[2].len = rest
    BY <2>1, <2>2, <2>4
  <2>6. m_iv' \in Iovecs \X Iovecs
    BY <2>1, <2>2, <2>3
  <2> QED
    BY <1>5, <1>7, <2>5, <2>6
<1>12. CASE ~(have >= m_iv[1].len)
  <2>1. PICK len \in Nat : len = m_iv[1].len - have
    BY <1>2, <1>12
  <2>2. m_iv' = <<W!Part(W!Buf, have, len), m_iv[2]>>
    <3>1. m_iv' = <<W!Part(W!Buf, have, m_iv[1].len - have), m_iv[2]>>
      BY <1>9, <1>12 DEF W!Advance
    <3> QED
      BY <2>1, <3>1
  <2>3. W!Part(W!Buf, have, len) \in Iovecs /\ W!Part(W!Buf, have, len).len = len
    BY <1>10, PartIs DEF W!Part
  <2>4. len <= rest /\ (m_iv_count = 2 => len + m_iv[2].len <= rest)
    <3>1. PICK first \in Nat : first = m_iv[1].len
      BY <1>2
    <3>2. PICK second \in Nat : second = m_iv[2].len
      BY <1>2
    <3>3. PICK all \in Nat : all = bytes_to_send
      BY <1>3
    <3>4. len = first - have /\ rest = all - n /\ have >= n /\ first <= all
      BY <1>7, <1>8, <2>1, <3>1, <3>3
    <3>5. m_iv_count = 2 => first + second <= all
      BY <1>8, <3>1, <3>2, <3>3
    <3>6. len <= rest
      BY <1>4, <3>4
    <3>7. m_iv_count = 2 => len + second <= rest
      BY <1>4, <3>4, <3>5
    <3> QED
      BY <3>2, <3>6, <3>7
  <2> QED
    BY <1>1, <1>5, <1>7, <2>2, <2>3, <2>4
<1> QED
  BY <1>11, <1>12

-----------------------------------------------------------------------------
(***************************************************************************)
(* Types and counters of the output half                                   *)
(***************************************************************************)
OutputTypes == W!TypeOK /\ Sizes

LEMMA Ranges ==
  ASSUME W!TypeOK
  PROVE  /\ bytes_to_send \in Nat /\ bytes_have_send \in Nat
         /\ responses \in 0..MaxSent /\ MaxSent \in Nat
         /\ m_file_address \in -1..MaxSent /\ mapped \subseteq 1..MaxSent
         /\ answer[1] \in {0} \cup HeadSizes /\ answer[2] \in {0} \cup FileSizes
         /\ answer[1] \in Nat /\ answer[2] \in Nat /\ m_write_idx \in Nat
         /\ dropped \in Nat
<1>1. FileSizes \subseteq Nat
  BY ConnAssumption DEF FileSizes
<1>2. HeadSizes \subseteq Nat
  BY ConnAssumption
<1>3. MaxSent \in Nat
  BY RequestsAssumption DEF R!ReadAssumption
<1>4. answer[1] \in {0} \cup HeadSizes /\ answer[2] \in {0} \cup FileSizes
  <2>1. answer \in ({0} \cup HeadSizes) \X ({0} \cup FileSizes)
    BY DEF W!TypeOK
  <2>2. \A A, B : answer \in A \X B => answer[1] \in A /\ answer[2] \in B
    OBVIOUS
  <2> QED
    BY <2>1, <2>2
<1>5. answer[1] \in Nat /\ answer[2] \in Nat
  <2>1. ASSUME NEW x \in {0} \cup HeadSizes PROVE x \in Nat
    BY <1>2
  <2>2. ASSUME NEW x \in {0} \cup FileSizes PROVE x \in Nat
    BY <1>1
  <2> QED
    BY <1>4, <2>1, <2>2
<1>6. m_write_idx \in Nat
  BY <1>2 DEF W!TypeOK
<1>7. bytes_to_send \in Nat /\ bytes_have_send \in Nat
  BY DEF W!TypeOK, W!counts
<1>8. /\ responses \in 0..MaxSent /\ m_file_address \in -1..MaxSent
      /\ mapped \subseteq 1..MaxSent /\ dropped \in Nat
  BY DEF W!TypeOK, MaxResponses
<1> QED
  BY <1>3, <1>4, <1>5, <1>6, <1>7, <1>8

\* A response becomes ready.
LEMMA RespondTypes ==
  ASSUME OutputTypes, m_linger' \in BOOLEAN, NEW head \in HeadSizes,
         \/ W!RespondPage(head)
         \/ \E size \in FileSizes : W!RespondFile(head, size)
  PROVE  OutputTypes'
<1>1. W!TypeOK /\ Sizes /\ writing = "wait" /\ head \in Nat
  BY ConnAssumption DEF OutputTypes, W!RespondPage, W!RespondFile, W!Process
<1>2. m_iv \in Iovecs \X Iovecs /\ m_iv[2] \in Iovecs /\ bytes_have_send = 0
  BY <1>1 DEF Sizes
<1>3. W!Part(W!Buf, 0, head) \in Iovecs /\ W!Part(W!Buf, 0, head).len = head
  BY <1>1, PartIs DEF W!Buf, W!Part
<1>4. responses < MaxSent /\ responses' = responses + 1 /\ responses' \in 0..MaxSent
  BY <1>1, Ranges, SMTT(30)
     DEF W!RespondPage, W!RespondFile, W!Process, MaxResponses
<1>5. CASE W!RespondPage(head)
  <2>1. m_iv' = <<W!Part(W!Buf, 0, head), m_iv[2]>>
    BY <1>2, <1>5 DEF W!RespondPage
  <2>2. m_iv' \in Iovecs \X Iovecs /\ m_iv'[1].len = head
    BY <1>2, <1>3, <2>1
  <2>3. /\ answer' = <<head, 0>> /\ m_write_idx' = head /\ bytes_to_send' = head + 0
        /\ bytes_have_send' = 0 /\ writing' = "armed" /\ m_iv_count' = 1
        /\ m_file_address' = m_file_address /\ mapped' = mapped
        /\ pieces' = 0 /\ dropped' = dropped
    BY <1>2, <1>5 DEF W!RespondPage, W!Process, W!Ready
  <2>4. Sizes'
    BY <1>1, <2>2, <2>3 DEF Sizes, Counted, Room, W!Busy
  <2>5. \A i \in 1..2 : m_iv'[i].len \in Nat /\ m_iv'[i].at \in Int
    BY <2>2 DEF Iovecs
  <2>6. W!TypeOK'
    BY <1>1, <1>4, <2>3, <2>5 DEF W!TypeOK, W!counts, MaxResponses
  <2> QED
    BY <2>4, <2>6 DEF OutputTypes
<1>6. ASSUME NEW size \in FileSizes, W!RespondFile(head, size) PROVE OutputTypes'
  <2>1. size \in Nat
    BY ConnAssumption DEF FileSizes
  <2>2. W!Part(W!File(responses + 1), 0, size) \in Iovecs
        /\ W!Part(W!File(responses + 1), 0, size).len = size
    BY <1>1, <2>1, Ranges, PartIs DEF W!File, W!Part
  <2>3. m_iv' = <<W!Part(W!Buf, 0, head), W!Part(W!File(responses + 1), 0, size)>>
    BY <1>6 DEF W!RespondFile
  <2>4. m_iv' \in Iovecs \X Iovecs /\ m_iv'[1].len = head /\ m_iv'[2].len = size
    BY <1>3, <2>2, <2>3
  <2>5. /\ answer' = <<head, size>> /\ m_write_idx' = head
        /\ bytes_to_send' = head + size
        /\ bytes_have_send' = 0 /\ writing' = "armed" /\ m_iv_count' = 2
        /\ m_file_address' = responses + 1
        /\ mapped' = mapped \cup {responses + 1}
        /\ pieces' = 0 /\ dropped' = dropped
    BY <1>2, <1>6 DEF W!RespondFile, W!Process, W!Ready
  <2>6. Sizes'
    BY <1>1, <1>4, <2>1, <2>4, <2>5 DEF Sizes, Counted, Room, W!Busy
  <2>7. \A i \in 1..2 : m_iv'[i].len \in Nat /\ m_iv'[i].at \in Int
    BY <2>4 DEF Iovecs
  <2>8. mapped' \subseteq 1..MaxSent /\ m_file_address' \in -1..MaxSent
    BY <1>1, <1>4, <2>5, Ranges
  <2>9. bytes_to_send' \in Nat
    BY <1>1, <2>1, <2>5
  <2> QED
    BY <1>1, <1>4, <2>5, <2>6, <2>7, <2>8, <2>9
       DEF OutputTypes, W!TypeOK, W!counts, MaxResponses
<1> QED
  BY <1>5, <1>6

\* Some of it is written.
LEMMA WriteTypes ==
  ASSUME OutputTypes, Typed, m_linger' \in BOOLEAN, NEW n \in 0..Len(W!Pending),
         W!WritePart(n) \/ W!WriteLastKeep(n) \/ W!WriteLastClose(n)
  PROVE  OutputTypes'
<1>1. W!TypeOK /\ Sizes /\ writing = "writing" /\ W!Busy /\ Counted
      /\ W!Advance(bytes_have_send + n, bytes_to_send - n)
  BY DEF OutputTypes, W!WritePart, W!WriteLastKeep, W!WriteLastClose, W!Sent, W!Busy,
         Sizes
<1>2. n <= bytes_to_send /\ m_iv' \in Iovecs \X Iovecs
      /\ m_iv'[1].len <= bytes_to_send - n
      /\ (m_iv_count = 2 => m_iv'[1].len + m_iv'[2].len <= bytes_to_send - n)
  BY <1>1, Advanced
<1>3. n \in Nat /\ bytes_to_send - n \in Nat /\ bytes_have_send + n \in Nat
  <2>1. bytes_to_send \in Nat /\ bytes_have_send \in Nat
    BY <1>1, Ranges
  <2>2. Len(W!Pending) \in Nat
    BY <1>1, PendingIs
  <2>3. n \in Nat
    BY <2>2
  <2> QED
    BY <1>2, <2>1, <2>3
<1>4. \A i \in 1..2 : m_iv'[i].len \in Nat /\ m_iv'[i].at \in Int
  BY <1>2 DEF Iovecs
<1>5. /\ m_iv_count' = m_iv_count /\ answer' = answer /\ responses' = responses
      /\ dropped' = dropped
  BY DEF W!WritePart, W!WriteLastKeep, W!WriteLastClose, W!Sent, W!CountSent, W!Reset
<1>6. pieces' \in 0..2
  <2>1. pieces \in 0..2
    BY <1>1 DEF W!TypeOK
  <2>2. pieces' = pieces \/ (pieces < 2 /\ pieces' = pieces + 1)
    BY DEF W!WritePart, W!WriteLastKeep, W!WriteLastClose, W!Sent
  <2> QED
    BY <2>1, <2>2
<1>7. CASE W!WritePart(n)
  <2>1. /\ bytes_have_send' = bytes_have_send + n /\ bytes_to_send' = bytes_to_send - n
        /\ m_write_idx' = m_write_idx /\ writing' = "writing"
        /\ m_file_address' = m_file_address /\ mapped' = mapped
    BY <1>1, <1>7 DEF W!WritePart, W!CountSent
  <2>2. Counted'
    <3>1. bytes_have_send' + bytes_to_send' = bytes_have_send + bytes_to_send
      <4>1. PICK have \in Nat : have = bytes_have_send
        BY <1>1, Ranges
      <4>2. PICK rest \in Nat : rest = bytes_to_send
        BY <1>1, Ranges
      <4>3. (have + n) + (rest - n) = have + rest
        BY <1>3
      <4> QED
        BY <2>1, <4>1, <4>2, <4>3
    <3>2. Room'
      BY <1>2, <1>5, <2>1 DEF Room
    <3> QED
      BY <1>1, <1>5, <2>1, <3>1, <3>2 DEF Counted
  <2>3. Sizes'
    BY <1>2, <2>1, <2>2 DEF Sizes
  <2>4. W!TypeOK'
    BY <1>1, <1>3, <1>4, <1>5, <1>6, <2>1 DEF W!TypeOK, W!counts
  <2> QED
    BY <2>3, <2>4 DEF OutputTypes
<1>8. CASE W!WriteLastKeep(n)
  <2>1. /\ bytes_have_send' = 0 /\ bytes_to_send' = 0 /\ m_write_idx' = 0
        /\ writing' = "wait"
        /\ m_file_address' = 0 /\ mapped' = mapped \ {m_file_address}
    BY <1>8 DEF W!WriteLastKeep, W!Reset, W!unmap
  <2>2. Sizes'
    BY <1>2, <2>1 DEF Sizes, W!Busy
  <2>3. m_file_address' \in -1..MaxResponses
    BY <1>1, <2>1, Ranges DEF MaxResponses
  <2>4. W!TypeOK'
    BY <1>1, <1>4, <1>5, <1>6, <2>1, <2>3 DEF W!TypeOK, W!counts
  <2> QED
    BY <2>2, <2>4 DEF OutputTypes
<1>9. CASE W!WriteLastClose(n)
  <2>1. /\ bytes_have_send' = bytes_have_send + n /\ bytes_to_send' = bytes_to_send - n
        /\ m_write_idx' = m_write_idx /\ writing' = "closed"
        /\ m_file_address' = 0 /\ mapped' = mapped \ {m_file_address}
    BY <1>9 DEF W!WriteLastClose, W!CountSent, W!unmap
  <2>2. Sizes'
    BY <1>2, <2>1 DEF Sizes, W!Busy
  <2>3. m_file_address' \in -1..MaxResponses
    BY <1>1, <2>1, Ranges DEF MaxResponses
  <2>4. W!TypeOK'
    BY <1>1, <1>3, <1>4, <1>5, <1>6, <2>1, <2>3 DEF W!TypeOK, W!counts
  <2> QED
    BY <2>2, <2>4 DEF OutputTypes
<1> QED
  BY <1>7, <1>8, <1>9

LEMMA OtherTypes ==
  ASSUME OutputTypes, m_linger' \in BOOLEAN,
         \/ W!NoAnswer \/ \E head \in HeadSizes : W!NoContent(head)
         \/ W!Writable \/ W!WriteAgain \/ W!WriteError
         \/ W!CloseEarly \/ W!NewConnection \/ UNCHANGED writeHalf
  PROVE  OutputTypes'
<1>0. W!TypeOK /\ Sizes
  BY DEF OutputTypes
<1>1. m_iv \in Iovecs \X Iovecs /\ m_iv' = m_iv
  BY <1>0 DEF Sizes, W!NoAnswer, W!NoContent, W!Writable, W!WriteAgain, W!WriteError,
     W!CloseEarly, W!NewConnection, writeHalf, W!output
<1>2. -1 \in -1..MaxResponses /\ 0 \in -1..MaxResponses /\ 0 \in 0..2
      /\ (responses < MaxResponses => responses + 1 \in 0..MaxResponses)
      /\ dropped + 1 \in Nat
  BY <1>0, Ranges DEF MaxResponses
<1>3. CASE W!NoAnswer \/ \E head \in HeadSizes : W!NoContent(head)
  <2>1. /\ writing' = "closed" /\ answer' = <<0, 0>> /\ responses' = responses + 1
        /\ responses < MaxResponses
        /\ pieces' = 0 /\ m_iv_count' = m_iv_count
        /\ m_write_idx' \in {m_write_idx} \cup HeadSizes
        /\ bytes_to_send' = bytes_to_send /\ bytes_have_send' = bytes_have_send
        /\ (m_file_address' = m_file_address \/ m_file_address' = -1)
        /\ mapped' = mapped /\ dropped' = dropped
    BY <1>3 DEF W!NoAnswer, W!NoContent, W!Process, W!output
  <2>2. Sizes'
    BY <1>1, <2>1 DEF Sizes, W!Busy
  <2>3. W!TypeOK'
    BY <1>0, <1>1, <1>2, <2>1 DEF W!TypeOK, W!counts
  <2> QED
    BY <2>2, <2>3 DEF OutputTypes
<1>4. CASE W!Writable \/ W!WriteAgain
  <2>1. writing \in {"armed", "writing"} /\ writing' \in {"armed", "writing"}
    BY <1>4 DEF W!Writable, W!WriteAgain
  <2>2. /\ m_iv_count' = m_iv_count /\ m_write_idx' = m_write_idx
        /\ bytes_to_send' = bytes_to_send /\ bytes_have_send' = bytes_have_send
        /\ m_file_address' = m_file_address /\ mapped' = mapped /\ answer' = answer
        /\ responses' = responses /\ pieces' = pieces /\ dropped' = dropped
    BY <1>4 DEF W!Writable, W!WriteAgain, W!output, W!counts, W!ghosts
  <2>3. Sizes'
    BY <1>0, <1>1, <2>1, <2>2 DEF Sizes, W!Busy, Counted, Room
  <2>4. W!TypeOK'
    BY <1>0, <1>1, <2>1, <2>2 DEF W!TypeOK, W!counts
  <2> QED
    BY <2>3, <2>4 DEF OutputTypes
<1>5. CASE W!WriteError
  <2>1. /\ writing' = "closed" /\ m_file_address' = 0
        /\ mapped' = mapped \ {m_file_address}
        /\ m_iv_count' = m_iv_count /\ m_write_idx' = m_write_idx
        /\ bytes_to_send' = bytes_to_send /\ bytes_have_send' = bytes_have_send
        /\ answer' = answer
        /\ responses' = responses /\ pieces' = pieces /\ dropped' = dropped
    BY <1>5 DEF W!WriteError, W!unmap, W!output, W!counts, W!ghosts
  <2>2. Sizes'
    BY <1>1, <2>1 DEF Sizes, W!Busy
  <2>3. W!TypeOK'
    BY <1>0, <1>1, <1>2, <2>1 DEF W!TypeOK, W!counts
  <2> QED
    BY <2>2, <2>3 DEF OutputTypes
<1>6. CASE W!CloseEarly
  <2>1. /\ writing' = "closed" /\ m_file_address' = m_file_address
        /\ mapped' = mapped
        /\ m_iv_count' = m_iv_count /\ m_write_idx' = m_write_idx
        /\ bytes_to_send' = bytes_to_send /\ bytes_have_send' = bytes_have_send
        /\ answer' = answer /\ responses' = responses /\ pieces' = pieces
        /\ (dropped' = dropped \/ dropped' = dropped + 1)
    BY <1>6 DEF W!CloseEarly, W!output, W!counts
  <2>2. Sizes'
    BY <1>1, <2>1 DEF Sizes, W!Busy
  <2>3. W!TypeOK'
    BY <1>0, <1>1, <1>2, <2>1 DEF W!TypeOK, W!counts
  <2> QED
    BY <2>2, <2>3 DEF OutputTypes
<1>7. CASE W!NewConnection
  <2>1. /\ writing' = "wait" /\ m_file_address' = m_file_address
        /\ mapped' = mapped /\ m_iv_count' = m_iv_count /\ m_write_idx' = 0
        /\ bytes_to_send' = 0 /\ bytes_have_send' = 0
        /\ answer' = <<0, 0>> /\ responses' = responses /\ pieces' = 0
        /\ dropped' = dropped
    BY <1>7 DEF W!NewConnection, W!Reset
  <2>2. Sizes'
    BY <1>1, <2>1 DEF Sizes, W!Busy
  <2>3. W!TypeOK'
    BY <1>0, <1>1, <1>2, <2>1 DEF W!TypeOK, W!counts
  <2> QED
    BY <2>2, <2>3 DEF OutputTypes
<1>8. CASE UNCHANGED writeHalf
  <2>1. Sizes'
    BY <1>0, <1>8 DEF writeHalf, Sizes, Counted, Room, W!Busy
  <2>2. W!TypeOK'
    BY <1>0, <1>8 DEF writeHalf, W!TypeOK, W!counts
  <2> QED
    BY <2>1, <2>2 DEF OutputTypes
<1> QED
  BY <1>3, <1>4, <1>5, <1>6, <1>7, <1>8

-----------------------------------------------------------------------------
(***************************************************************************)
(* The type invariant                                                      *)
(***************************************************************************)
Files ==
  {"none"} \cup R!Urls \cup {Pages[c] : c \in DOMAIN Pages} \cup ResultPages

LEMMA OutputInit ==
  ASSUME Init PROVE OutputTypes
<1>1. MaxSent \in Nat
  BY RequestsAssumption DEF R!ReadAssumption
<1>2. m_iv = <<W!Part(W!Buf, 0, 0), W!Part(W!Buf, 0, 0)>>
  BY DEF Init, W!Init
<1>3. W!Part(W!Buf, 0, 0) \in Iovecs
  BY PartIs DEF W!Buf
<1>4. m_iv \in Iovecs \X Iovecs
  BY <1>2, <1>3
<1>5. \A i \in 1..2 : m_iv[i].len \in Nat /\ m_iv[i].at \in Int
  BY <1>4 DEF Iovecs
<1>6. Sizes
  BY <1>4 DEF Sizes, Init, W!Init, W!Busy
<1>7. -1 \in -1..MaxResponses /\ 0 \in 0..MaxResponses
  BY <1>1 DEF MaxResponses
<1>8. m_linger \in BOOLEAN
  BY DEF Init, W!Init
<1>9. W!TypeOK
  BY <1>5, <1>7, <1>8 DEF Init, W!Init, W!TypeOK, W!counts
<1> QED
  BY <1>6, <1>9 DEF OutputTypes

LEMMA TypedInit == Init => Typed
<1> SUFFICES ASSUME Init PROVE Typed
  OBVIOUS
<1>1. OutputTypes
  BY OutputInit
<1>2. RP!Init
  BY DEF Init, R!Init, RP!Init, ParsedUrl
<1>3. RP!TypeOK
  BY <1>2, ReadAssumed, RP!TypeInit
<1>4. TypeOK /\ Turns
  BY <1>1 DEF Init, R!Init, W!Init, OutputTypes, TypeOK, Turns, W!Busy
<1> QED
  BY <1>1, <1>3, <1>4 DEF Typed, OutputTypes

\* do_request and process_write leave what the parser has as it is.
LEMMA ProcessKeeps ==
  ASSUME Process
  PROVE  /\ UNCHANGED <<input, sent, sentCount, answered, cut, m_read_buf,
                        m_checked_idx, m_start_line, m_check_state, m_method, cgi,
                        m_content_length, m_string, line_status, code, m_linger>>
         /\ reading = "respond" /\ writing = "wait"
         /\ writing' \in {"armed", "closed"}
         /\ reading' = IF writing' = "closed" THEN "closed" ELSE "respond"
<1>1. InProcess /\ writing' \in {"armed", "closed"}
  BY DEF Process, do_request, Serve, InProcess, W!RespondPage, W!RespondFile,
         W!NoAnswer, W!NoContent, W!Ready
<1> QED
  BY <1>1 DEF Process, InProcess

LEMMA InputTypes == ASSUME Typed, [Next]_vars PROVE RP!TypeOK'
<1>1. CASE ~Process /\ ~RunsOff
  BY <1>1, InputStep, ReadAssumed, RP!TypeStep DEF Typed
<1>2. CASE Process
  <2>1. ParsedUrl' \in RP!Urls \cup {"none"}
    BY SameUrls DEF ParsedUrl
  <2>2. reading' \in {"wait", "loop", "line", "respond", "closed"}
    BY <1>2, ProcessKeeps
  <2> QED
    BY <1>2, <2>1, <2>2, ProcessKeeps DEF Typed, RP!TypeOK, RP!m_read_idx
<1>3. CASE RunsOff
  BY <1>3 DEF RunsOff, Typed, RP!TypeOK, RP!m_read_idx, ParsedUrl
<1> QED
  BY <1>1, <1>2, <1>3

\* The two halves take turns, and m_real_file is the name of a file.
LEMMA TurnsStep ==
  ASSUME Typed, [Next]_vars
  PROVE  /\ Turns'
         /\ (writing = "closed")' = (reading = "closed")'
         /\ W!Busy' => reading' = "respond"
         /\ m_real_file' \in Files
<1>1. /\ Turns /\ (writing = "closed") = (reading = "closed")
      /\ W!Busy => reading = "respond"
      /\ m_real_file \in Files
      /\ reading \in {"wait", "loop", "line", "respond", "closed", "undefined"}
      /\ writing \in {"wait", "armed", "writing", "closed"}
  BY DEF Typed, TypeOK, Files, RP!TypeOK, W!TypeOK
<1>2. CASE Read
  <2>1. writing = "wait" /\ m_real_file = "none" /\ m_url \in R!Urls \cup {"none"}
        /\ writing' = writing /\ m_real_file' = m_real_file
    BY <1>1, <1>2 DEF Read, Turns, writeHalf
  <2>2. m_url' \in R!Urls \cup {"none"} /\ reading' # "closed"
    <3>1. CASE R!process_read
      <4>1. reading' # "closed"
        BY <3>1 DEF R!process_read, R!LineOpen, R!LineBad, R!LineOk,
           R!parse_request_line, R!parse_headers, R!EndOfHeaders, R!parse_content,
           R!HandOn, R!ContentOutside, R!Continue, R!Respond
      <4> QED
        BY <2>1, <3>1, <4>1, SameProcessRead
    <3>2. CASE Send \/ Receive
      BY <2>1, <3>2 DEF Send, Receive, R!Send, R!Receive, R!parsed, R!target
    <3> QED
      BY <1>2, <3>1, <3>2 DEF Read
  <2> QED
    BY <1>1, <2>1, <2>2 DEF Turns, W!Busy
<1>3. CASE Process
  <2>1. m_real_file' \in Files
    <3>1. CASE code = "GET_REQUEST" /\ do_request
      <4>1. m_url \in R!Urls \cup {"none"}
        BY <1>1, <1>3, ProcessKeeps DEF Turns
      <4>2. m_url' \in NewUrl /\ m_real_file' = RealFile(m_url')
        BY <3>1 DEF do_request
      <4>3. m_url' \in R!Urls \cup {"none"} \cup ResultPages
        BY <4>1, <4>2 DEF NewUrl, IsAccount, ResultPages
      <4> QED
        BY <4>2, <4>3 DEF RealFile, Files
    <3>2. CASE m_real_file' = m_real_file
      BY <1>1, <3>2
    <3> QED
      BY <1>3, <3>1, <3>2 DEF Process
  <2> QED
    BY <1>3, <2>1, ProcessKeeps DEF Turns, W!Busy
<1>4. CASE Write
  <2>1. writing \in {"armed", "writing"} /\ writing' \in {"armed", "writing"}
    BY <1>4 DEF Write, W!Writable, W!WriteAgain, W!WritePart, W!Sent
  <2>2. reading = "respond"
    BY <1>1, <2>1 DEF W!Busy
  <2>3. reading' = "respond" /\ m_real_file' = m_real_file
    BY <1>4, <2>2 DEF Write, readHalf
  <2> QED
    BY <1>1, <2>1, <2>3 DEF Turns, W!Busy
<1>5. CASE WriteLast
  <2>1. \/ writing' = "wait" /\ reading' = "wait" /\ m_real_file' = "none"
           /\ m_url' = "none"
        \/ writing' = "closed" /\ reading' = "closed" /\ m_real_file' = m_real_file
    BY <1>5, SameEnds
       DEF WriteLast, W!WriteLastKeep, W!WriteLastClose, R!AnswerKeep, R!AnswerClose
  <2> QED
    BY <1>1, <2>1 DEF Turns, W!Busy, Files
<1>6. CASE CloseEarly
  <2>1. writing' = "closed" /\ reading' = "closed" /\ m_real_file' = m_real_file
    BY <1>6 DEF CloseEarly, W!CloseEarly, W!WriteError, R!ReadFull, R!Close
  <2> QED
    BY <1>1, <2>1 DEF Turns, W!Busy
<1>7. CASE NewConnection
  <2>1. writing' = "wait" /\ reading' = "wait" /\ m_real_file' = "none"
        /\ m_url' = "none"
    BY <1>7, SameEnds DEF NewConnection, W!NewConnection, R!NewConnection
  <2> QED
    BY <2>1 DEF Turns, W!Busy, Files
<1>8. CASE UNCHANGED vars
  BY <1>1, <1>8 DEF vars, readHalf, writeHalf, Turns, W!Busy
<1>9. CASE RunsOff
  <2>1. /\ writing = "wait" /\ writing' = "wait" /\ reading' = "undefined"
        /\ m_url' = m_url /\ m_real_file' = m_real_file
    BY <1>9 DEF RunsOff, InProcess, writeHalf
  <2> QED
    BY <1>1, <2>1 DEF Turns, W!Busy
<1> QED
  BY <1>2, <1>3, <1>4, <1>5, <1>6, <1>7, <1>8, <1>9 DEF Next, Undefined

LEMMA TypedStep == Typed /\ [Next]_vars => Typed'
<1> SUFFICES ASSUME Typed, [Next]_vars PROVE Typed'
  OBVIOUS
<1>1. RP!TypeOK'
  BY InputTypes
<1>2. m_linger' \in BOOLEAN
  BY <1>1 DEF RP!TypeOK
<1>3. OutputTypes
  BY DEF Typed, TypeOK, OutputTypes
<1>4. OutputTypes'
  <2>1. WStep
    BY OutputStep
  <2> QED
    BY <1>2, <1>3, <2>1, RespondTypes, WriteTypes, OtherTypes DEF WStep
<1>5. TypeOK' /\ Turns'
  BY <1>4, TurnsStep DEF TypeOK, OutputTypes, Files
<1> QED
  BY <1>1, <1>4, <1>5 DEF Typed, OutputTypes

\* Every variable of the object stays in its type: the counters never become
\* negative, in however many parts a response goes out, and the two halves
\* wait, work and are closed together.
THEOREM TypeCorrect == Spec => []TypeOK
<1>1. Typed => TypeOK
  BY DEF Typed
<1> QED
  BY <1>1, TypedInit, TypedStep, PTL DEF Spec

-----------------------------------------------------------------------------
(***************************************************************************)
(* The mappings                                                            *)
(***************************************************************************)
LEMMA SameCardinality == ASSUME NEW S PROVE W!Cardinality(S) = Cardinality(S)
BY DEF W!Cardinality, Cardinality

LEMMA FiniteMapped ==
  ASSUME W!TypeOK
  PROVE  /\ IsFiniteSet(mapped) /\ Cardinality(mapped) \in Nat
         /\ \A S \in SUBSET mapped : /\ Cardinality(S) \in Nat
                                     /\ Cardinality(S) <= Cardinality(mapped)
         /\ \A k : Cardinality(mapped) <= Cardinality(mapped \ {k}) + 1
<1>1. IsFiniteSet(mapped)
  <2>1. MaxSent \in Nat /\ mapped \subseteq 1..MaxSent
    BY Ranges
  <2>2. IsFiniteSet(1..MaxSent)
    BY <2>1, FS_Interval
  <2> QED
    BY <2>1, <2>2, FS_Subset
<1>2. Cardinality(mapped) \in Nat
  BY <1>1, FS_CardinalityType
<1>3. ASSUME NEW S \in SUBSET mapped
      PROVE  Cardinality(S) \in Nat /\ Cardinality(S) <= Cardinality(mapped)
  BY <1>1, FS_Subset, FS_CardinalityType
<1>4. ASSUME NEW k PROVE Cardinality(mapped) <= Cardinality(mapped \ {k}) + 1
  BY <1>1, <1>2, FS_RemoveElement
<1> QED
  BY <1>1, <1>2, <1>3, <1>4

LEMMA AccountedStep == Typed /\ Accounted /\ [Next]_vars => Accounted'
<1> SUFFICES ASSUME Typed, Accounted, [Next]_vars PROVE Accounted'
  OBVIOUS
<1>1. W!TypeOK /\ WStep
  BY OutputStep DEF Typed, TypeOK
<1>2. /\ mapped \subseteq 1..responses /\ responses \in Nat /\ dropped \in Nat
      /\ Cardinality(Left) <= dropped /\ Cardinality(Left) \in Nat
  BY <1>1, Ranges, FiniteMapped DEF Accounted, Left
<1>3. CASE \E head \in HeadSizes : W!RespondPage(head)
  <2>1. /\ Left = mapped /\ responses' = responses + 1 /\ mapped' = mapped
        /\ dropped' = dropped
    BY <1>3 DEF W!RespondPage, W!Process, Left, W!Busy
  <2>2. responses' \notin mapped /\ mapped' \subseteq 1..responses'
    BY <1>2, <2>1
  <2>3. Left' = mapped
    BY <2>1, <2>2 DEF Left
  <2> QED
    BY <1>2, <2>1, <2>2, <2>3 DEF Accounted
<1>4. CASE \E head \in HeadSizes, size \in FileSizes : W!RespondFile(head, size)
  <2>1. /\ Left = mapped /\ responses' = responses + 1
        /\ mapped' = mapped \cup {responses + 1}
        /\ m_file_address' = responses + 1
        /\ dropped' = dropped /\ writing' = "armed"
    BY <1>4 DEF W!RespondFile, W!Process, W!Ready, Left, W!Busy
  <2>2. responses' \notin mapped /\ mapped' \subseteq 1..responses'
    BY <1>2, <2>1
  <2>3. Left' = mapped
    BY <2>1, <2>2 DEF Left, W!Busy
  <2> QED
    BY <1>2, <2>1, <2>2, <2>3 DEF Accounted
<1>5. CASE W!NoAnswer \/ \E head \in HeadSizes : W!NoContent(head)
  <2>1. /\ Left = mapped /\ responses' = responses + 1 /\ mapped' = mapped
        /\ dropped' = dropped /\ writing' = "closed"
    BY <1>5 DEF W!NoAnswer, W!NoContent, W!Process, Left, W!Busy
  <2>2. mapped' \subseteq 1..responses'
    BY <1>2, <2>1
  <2> QED
    BY <1>2, <2>1, <2>2 DEF Accounted, Left, W!Busy
<1>6. CASE \/ W!Writable \/ W!WriteAgain \/ UNCHANGED writeHalf
           \/ \E n \in 0..Len(W!Pending) : W!WritePart(n)
  <2>1. /\ mapped' = mapped /\ responses' = responses /\ dropped' = dropped
        /\ m_file_address' = m_file_address
        /\ W!Busy' <=> W!Busy
    BY <1>6 DEF W!Writable, W!WriteAgain, W!WritePart, W!Sent, writeHalf, W!ghosts,
                W!Busy
  <2> QED
    BY <2>1 DEF Accounted, Left
<1>7. CASE \/ W!WriteError
           \/ \E n \in 0..Len(W!Pending) : W!WriteLastKeep(n) \/ W!WriteLastClose(n)
  <2>1. /\ mapped' = mapped \ {m_file_address} /\ responses' = responses
        /\ dropped' = dropped /\ W!Busy /\ ~W!Busy'
    BY <1>7 DEF W!WriteError, W!WriteLastKeep, W!WriteLastClose, W!Sent, W!unmap,
                W!ghosts, W!Busy
  <2>2. mapped' \in SUBSET Left
    <3>1. responses \in mapped => m_file_address = responses
      BY <2>1 DEF Accounted
    <3> QED
      BY <2>1, <3>1 DEF Left
  <2>3. Cardinality(mapped') \in Nat /\ Cardinality(mapped') <= Cardinality(Left)
    <3>1. IsFiniteSet(Left)
      BY <1>1, FiniteMapped, FS_Subset DEF Left
    <3> QED
      BY <2>2, <3>1, FS_Subset, FS_CardinalityType
  <2>4. Left' = mapped'
    BY <2>1 DEF Left
  <2>5. Cardinality(Left') <= dropped'
    BY <1>2, <2>1, <2>3, <2>4
  <2> QED
    BY <1>2, <2>1, <2>5 DEF Accounted
<1>8. CASE W!CloseEarly
  <2>1. /\ mapped' = mapped /\ responses' = responses /\ ~W!Busy'
        /\ dropped' = IF W!Busy THEN dropped + 1 ELSE dropped
    BY <1>8 DEF W!CloseEarly, W!Busy
  <2>2. Cardinality(mapped) <= IF W!Busy THEN Cardinality(Left) + 1
                               ELSE Cardinality(Left)
    BY <1>1, FiniteMapped DEF Left
  <2>3. Cardinality(mapped) \in Nat
    BY <1>1, FiniteMapped
  <2> QED
    BY <1>2, <2>1, <2>2, <2>3 DEF Accounted, Left
<1>9. CASE W!NewConnection
  <2>1. /\ mapped' = mapped /\ responses' = responses /\ dropped' = dropped
        /\ ~W!Busy /\ ~W!Busy'
    BY <1>9 DEF W!NewConnection, W!Busy
  <2> QED
    BY <2>1 DEF Accounted, Left
<1> QED
  BY <1>1, <1>3, <1>4, <1>5, <1>6, <1>7, <1>8, <1>9 DEF WStep

\* A mapping that outlives its response is one of a response that was cut off
\* by closing the connection, and there is one for each such response at most:
\* unmap() never misses the file that was sent, whatever m_file_address was
\* before.
THEOREM MappingsKept == Spec => []MappingsAccounted
<1>1. Init => Accounted
  <2> SUFFICES ASSUME Init PROVE Accounted
    OBVIOUS
  <2>1. mapped = {} /\ responses = 0 /\ dropped = 0 /\ ~W!Busy
    BY DEF Init, W!Init, W!Busy
  <2> QED
    BY <2>1, FS_EmptySet DEF Accounted, Left
<1>2. Typed /\ Accounted => MappingsAccounted
  <2> SUFFICES ASSUME Typed, Accounted PROVE MappingsAccounted
    OBVIOUS
  <2>1. W!TypeOK /\ Cardinality(Left) <= dropped
    BY DEF Typed, TypeOK, Accounted
  <2>2. Cardinality(mapped) \in Nat /\ dropped \in Nat
    BY <2>1, FiniteMapped, Ranges
  <2>3. Cardinality(Left) \in Nat
    <3>1. Left \in SUBSET mapped
      BY DEF Left
    <3> QED
      BY <2>1, <3>1, FiniteMapped
  <2>4. Cardinality(mapped) <= Cardinality(Left) + (IF W!Busy THEN 1 ELSE 0)
    <3>1. CASE W!Busy
      BY <2>1, <3>1, FiniteMapped DEF Left
    <3>2. CASE ~W!Busy
      BY <2>2, <3>2 DEF Left
    <3> QED
      BY <3>1, <3>2
  <2>5. Cardinality(mapped) <= dropped + (IF W!Busy THEN 1 ELSE 0)
    BY <2>1, <2>2, <2>3, <2>4
  <2> QED
    BY <2>5, SameCardinality DEF MappingsAccounted, W!MappingsAccounted
<1> QED
  BY <1>1, <1>2, TypedInit, TypedStep, AccountedStep, PTL DEF Spec

-----------------------------------------------------------------------------
(***************************************************************************)
(* The order of the bytes                                                  *)
(***************************************************************************)
LEMMA PendingGoes ==
  ASSUME Typed, Placed, W!Busy, pieces <= 1
  PROVE  Len(W!Pending) = bytes_to_send /\ Goes(W!Pending, bytes_have_send)
<1>1. Counted /\ W!TypeOK /\ Sizes
  BY DEF Typed, TypeOK, Sizes
<1>2. m_iv[1] \in Iovecs /\ m_iv[2] \in Iovecs
      /\ m_iv[1].len \in Nat /\ m_iv[2].len \in Nat
  BY <1>1 DEF Sizes, Iovecs
<1>3. PICK head \in Nat : head = answer[1]
  BY <1>1, Ranges
<1>4. PICK size \in Nat : size = answer[2]
  BY <1>1, Ranges
<1>5. PICK have \in Nat : have = bytes_have_send
  BY <1>1, Ranges
<1>6. PICK rest \in Nat : rest = bytes_to_send
  BY <1>1, Ranges
<1>7. have + rest = head + size /\ m_iv_count \in {1, 2}
      /\ (m_iv_count = 1 => size = 0)
  BY <1>1, <1>3, <1>4, <1>5, <1>6 DEF Counted
<1>8. /\ Len(W!Pending) =
           m_iv[1].len + (IF m_iv_count = 2 THEN m_iv[2].len ELSE 0)
      /\ \A i \in 1..Len(W!Pending) :
           W!Pending[i] = IF i <= m_iv[1].len THEN W!Bytes(m_iv[1])[i]
                          ELSE W!Bytes(m_iv[2])[i - m_iv[1].len]
  BY <1>1, PendingIs
<1>9. /\ \A i \in 1..m_iv[1].len :
           W!Bytes(m_iv[1])[i] = <<m_iv[1].area, m_iv[1].at + i - 1>>
      /\ \A i \in 1..m_iv[2].len :
           W!Bytes(m_iv[2])[i] = <<m_iv[2].area, m_iv[2].at + i - 1>>
  BY <1>2, BytesAre
<1>10. CASE have < head
  <2>1. m_iv[1].area = W!Buf /\ m_iv[1].at = have /\ m_iv[1].len = head - have
    BY <1>3, <1>5, <1>10 DEF Placed, InText, W!Part
  <2>2. m_iv_count = 2 => /\ m_iv[2].area = W!File(responses) /\ m_iv[2].at = 0
                          /\ m_iv[2].len = size
    BY <1>3, <1>4, <1>5, <1>10 DEF Placed, InText, W!Part
  <2>3. Len(W!Pending) = rest
    BY <1>7, <1>8, <2>1, <2>2
  <2>4. ASSUME NEW i \in 1..rest PROVE W!Pending[i] = Place(have + i)
    <3>1. CASE i <= head - have
      <4>1. W!Pending[i] = <<W!Buf, have + i - 1>>
        BY <1>8, <1>9, <2>1, <2>3, <3>1
      <4>2. have + i <= head
        BY <3>1
      <4> QED
        BY <1>3, <4>1, <4>2 DEF Place
    <3>2. CASE i > head - have
      <4>1. m_iv_count = 2
        BY <1>7, <3>2
      <4>2. PICK j \in 1..size : j = i - (head - have)
        BY <1>7, <1>10, <3>2
      <4>3. W!Pending[i] = W!Bytes(m_iv[2])[j]
        BY <1>8, <2>1, <2>3, <3>2, <4>2
      <4>4. W!Pending[i] = <<W!File(responses), j - 1>>
        BY <1>9, <2>2, <4>1, <4>3
      <4>5. have + i > head /\ have + i - head - 1 = j - 1
        BY <3>2, <4>2
      <4> QED
        BY <1>3, <4>4, <4>5 DEF Place
    <3> QED
      BY <3>1, <3>2
  <2> QED
    BY <1>5, <1>6, <2>3, <2>4 DEF Goes
<1>11. CASE have >= head
  <2>1. m_iv[1].len = 0
    BY <1>3, <1>5, <1>11 DEF Placed, InFile
  <2>2. m_iv_count = 2 => /\ m_iv[2].area = W!File(responses)
                          /\ m_iv[2].at = have - head /\ m_iv[2].len = rest
    BY <1>3, <1>5, <1>6, <1>11 DEF Placed, InFile, W!Part
  <2>3. m_iv_count = 1 => rest = 0
    BY <1>7, <1>11
  <2>4. Len(W!Pending) = rest
    BY <1>7, <1>8, <2>1, <2>2, <2>3
  <2>5. ASSUME NEW i \in 1..rest PROVE W!Pending[i] = Place(have + i)
    <3>1. m_iv_count = 2
      BY <1>7, <2>3
    <3>2. W!Pending[i] = W!Bytes(m_iv[2])[i]
      BY <1>8, <2>1, <2>4
    <3>3. W!Pending[i] = <<W!File(responses), have - head + i - 1>>
      BY <1>9, <2>2, <3>1, <3>2
    <3>4. have + i > head /\ have + i - head - 1 = have - head + i - 1
      BY <1>11
    <3> QED
      BY <1>3, <3>3, <3>4 DEF Place
  <2> QED
    BY <1>5, <1>6, <2>4, <2>5 DEF Goes
<1> QED
  BY <1>10, <1>11

\* What writev takes goes behind what the peer has.
LEMMA SentGoes ==
  ASSUME Typed, Placed, NEW n \in 0..Len(W!Pending), W!Sent(n), pieces' <= 1
  PROVE  /\ n <= bytes_to_send /\ Len(W!Pending) = bytes_to_send
         /\ Len(output') = bytes_have_send + n
         /\ \A i \in 1..(bytes_have_send + n) : output'[i] = Place(i)
<1>1. W!Busy /\ output' = output \o SubSeq(W!Pending, 1, n)
  BY DEF W!Sent, W!Busy
<1>2. pieces \in 0..2 /\ bytes_have_send \in Nat /\ bytes_to_send \in Nat
  BY Ranges DEF Typed, TypeOK, W!TypeOK
<1>3. pieces <= 1
  BY <1>2 DEF W!Sent
<1>4. /\ output \in Seq(Places) /\ Len(output) = bytes_have_send
      /\ Goes(output, 0)
  BY <1>1, <1>3 DEF Placed
<1>5. W!Pending \in Seq(Places)
  BY PendingIs DEF Typed
<1>6. Len(W!Pending) = bytes_to_send /\ Goes(W!Pending, bytes_have_send)
  BY <1>1, <1>3, PendingGoes
<1>7. PICK part \in Seq(Places) :
        /\ part = SubSeq(W!Pending, 1, n) /\ Len(part) = n
        /\ \A i \in 1..n : part[i] = W!Pending[i]
  <2>1. n \in Nat /\ n <= Len(W!Pending)
    BY <1>2, <1>6
  <2>2. SubSeq(W!Pending, 1, n) \in Seq(Places)
    BY <1>5, <2>1
  <2>3. Len(SubSeq(W!Pending, 1, n)) = n
    BY <1>5, <2>1
  <2>4. \A i \in 1..n : SubSeq(W!Pending, 1, n)[i] = W!Pending[i]
    BY <1>5, <2>1
  <2> QED
    BY <2>2, <2>3, <2>4
<1>8. /\ Len(output') = Len(output) + Len(part)
      /\ \A i \in 1..(Len(output) + Len(part)) :
           output'[i] = IF i <= Len(output) THEN output[i] ELSE part[i - Len(output)]
  BY <1>1, <1>4, <1>7, ConcatProperties
<1>9. ASSUME NEW i \in 1..(bytes_have_send + n) PROVE output'[i] = Place(i)
  <2>1. CASE i <= bytes_have_send
    <3>1. output'[i] = output[i] /\ i \in 1..Len(output)
      BY <1>2, <1>4, <1>7, <1>8, <2>1
    <3>2. output[i] = Place(0 + i) /\ 0 + i = i
      BY <1>4, <3>1 DEF Goes
    <3> QED
      BY <3>1, <3>2
  <2>2. CASE i > bytes_have_send
    <3>1. PICK j \in 1..n : j = i - bytes_have_send
      BY <1>2, <2>2
    <3>2. output'[i] = part[j]
      BY <1>2, <1>4, <1>7, <1>8, <2>2, <3>1
    <3>3. part[j] = W!Pending[j] /\ j \in 1..Len(W!Pending)
      BY <1>2, <1>6, <1>7
    <3>4. W!Pending[j] = Place(bytes_have_send + j)
      BY <1>6, <3>3 DEF Goes
    <3>5. bytes_have_send + j = i
      BY <1>2, <3>1
    <3> QED
      BY <3>2, <3>3, <3>4, <3>5
  <2> QED
    BY <1>2, <2>1, <2>2
<1> QED
  BY <1>2, <1>4, <1>6, <1>7, <1>8, <1>9

\* What is left in the iovecs then.
LEMMA AdvancedPlaced ==
  ASSUME Typed, Placed, NEW n \in 0..Len(W!Pending), W!Sent(n), pieces' <= 1,
         W!CountSent(n), ~W!AllSent(n)
  PROVE  IF bytes_have_send' < answer'[1] THEN InText' ELSE InFile'
<1>1. Counted /\ W!TypeOK /\ Sizes /\ W!Busy
  BY DEF Typed, TypeOK, Sizes, W!Sent, W!Busy
<1>2. m_iv[1] \in Iovecs /\ m_iv[1].len \in Nat
  BY <1>1 DEF Sizes, Iovecs
<1>3. PICK head \in Nat : head = answer[1]
  BY <1>1, Ranges
<1>4. PICK size \in Nat : size = answer[2]
  BY <1>1, Ranges
<1>5. PICK have \in Nat : have = bytes_have_send
  BY <1>1, Ranges
<1>6. PICK rest \in Nat : rest = bytes_to_send
  BY <1>1, Ranges
<1>7. n \in Nat /\ n <= rest /\ Len(W!Pending) = rest
  BY <1>6, SentGoes
<1>8. /\ bytes_have_send' = have + n /\ bytes_to_send' = rest - n
      /\ answer' = answer /\ responses' = responses /\ m_iv_count' = m_iv_count
  BY <1>5, <1>6 DEF W!CountSent, W!Sent
<1>9. /\ have + rest = head + size /\ m_write_idx = head /\ head > 0
      /\ (m_iv_count = 2 => m_file_address = responses)
  BY <1>1, <1>3, <1>4, <1>5, <1>6, ConnAssumption DEF Counted
<1>10. rest - n > 0
  BY <1>6, <1>7 DEF W!AllSent
<1>11. /\ pieces \in 0..2
       /\ pieces' = IF have + n < head /\ pieces < 2 THEN pieces + 1 ELSE pieces
  BY <1>1, <1>5, <1>9 DEF W!Sent, W!TypeOK
<1>12. pieces <= 1
  BY <1>11
<1>13. W!Advance(have + n, rest - n)
  BY <1>5, <1>6 DEF W!Sent
<1>14. CASE have + n < head
  <2>1. pieces = 0 /\ pieces' = 1
    BY <1>11, <1>12, <1>14
  <2>2. /\ have = 0 /\ m_iv[1].len = head
        /\ (m_iv_count = 2 => m_iv[2] = W!Part(W!File(responses), 0, answer[2]))
    <3>1. InText
      BY <1>1, <1>3, <1>5, <1>7, <1>12, <1>14 DEF Placed
    <3>2. have = 0
      BY <1>5, <2>1, <3>1 DEF InText
    <3>3. m_iv[1].len = head - have
      BY <1>3, <1>5, <3>1 DEF InText, W!Part
    <3> QED
      BY <3>1, <3>2, <3>3 DEF InText
  <2>3. n # 0
    BY <1>7, <1>10 DEF W!Sent
  <2>4. m_iv' = <<W!Part(W!Buf, n, head - n), m_iv[2]>>
    BY <1>7, <1>13, <1>14, <2>2 DEF W!Advance
  <2>5. m_iv'[1] = W!Part(W!Buf, n, head - n) /\ m_iv'[2] = m_iv[2]
    BY <2>4
  <2>6. bytes_have_send' = n /\ answer'[1] = head
    BY <1>3, <1>7, <1>8, <2>2
  <2>7. pieces' = 0 <=> bytes_have_send' = 0
    BY <2>1, <2>3, <2>6
  <2>8. InText'
    BY <1>8, <2>2, <2>5, <2>6, <2>7 DEF InText
  <2> QED
    BY <1>14, <2>2, <2>6, <2>8
<1>15. CASE have + n >= head
  <2>1. have + n >= m_iv[1].len
    <3>1. CASE have < head
      <4>1. InText
        BY <1>1, <1>3, <1>5, <1>12, <3>1 DEF Placed
      <4>2. m_iv[1].len = head - have
        BY <1>3, <1>5, <4>1 DEF InText, W!Part
      <4> QED
        BY <1>7, <1>15, <4>2
    <3>2. CASE have >= head
      <4>1. InFile
        BY <1>1, <1>3, <1>5, <1>12, <3>2 DEF Placed
      <4> QED
        BY <1>7, <4>1 DEF InFile
    <3> QED
      BY <3>1, <3>2
  <2>2. m_iv' = <<[m_iv[1] EXCEPT !.len = 0],
                  W!Part(W!File(m_file_address), have + n - head, rest - n)>>
    <3>1. PICK h : h = have + n
      OBVIOUS
    <3>2. W!Advance(h, rest - n) /\ h >= m_iv[1].len /\ m_write_idx = head
      BY <1>9, <1>13, <2>1, <3>1
    <3>3. m_iv' = <<[m_iv[1] EXCEPT !.len = 0],
                    W!Part(W!File(m_file_address), h - m_write_idx, rest - n)>>
      BY <3>2 DEF W!Advance
    <3> QED
      BY <3>1, <3>2, <3>3
  <2>3. [m_iv[1] EXCEPT !.len = 0].len = 0
    BY <1>2 DEF Iovecs
  <2>4. m_iv'[1].len = 0
    BY <2>2, <2>3
  <2>5. m_iv'[2] = W!Part(W!File(m_file_address), have + n - head, rest - n)
    BY <2>2
  <2>6. InFile'
    BY <1>3, <1>8, <1>9, <2>4, <2>5, SMTT(30) DEF InFile
  <2>7. ~(bytes_have_send' < answer'[1])
    BY <1>3, <1>7, <1>8, <1>15
  <2> QED
    BY <2>6, <2>7
<1> QED
  BY <1>7, <1>14, <1>15

LEMMA SentPlaces ==
  ASSUME Typed, Placed, NEW n \in 0..Len(W!Pending), W!Sent(n)
  PROVE  output' \in Seq(Places)
<1>1. output \in Seq(Places) /\ W!Pending \in Seq(Places)
  BY PendingIs DEF Typed, Placed
<1>2. SubSeq(W!Pending, 1, n) \in Seq(Places)
  BY <1>1
<1> QED
  BY <1>1, <1>2 DEF W!Sent

LEMMA PlacedStep == Typed /\ Placed /\ [Next]_vars => Placed'
<1> SUFFICES ASSUME Typed, Placed, [Next]_vars PROVE Placed'
  OBVIOUS
<1>1. WStep /\ W!TypeOK /\ Sizes
  BY OutputStep DEF Typed, TypeOK
<1>2. << >> \in Seq(Places) /\ Len(<< >>) = 0
  OBVIOUS
<1>3. ASSUME NEW head \in HeadSizes,
             \/ W!RespondPage(head)
             \/ \E size \in FileSizes : W!RespondFile(head, size)
      PROVE  Placed'
  <2>1. head \in Nat /\ head > 0
    BY ConnAssumption
  <2>2. PICK size \in Nat :
          \/ W!RespondPage(head) /\ size = 0
          \/ W!RespondFile(head, size)
    BY <1>3, ConnAssumption DEF FileSizes
  <2>3. /\ writing = "wait" /\ writing' = "armed" /\ output' = << >> /\ pieces' = 0
        /\ bytes_have_send' = bytes_have_send /\ answer' = <<head, size>>
        /\ responses' = responses + 1
    BY <2>2 DEF W!RespondPage, W!RespondFile, W!Process, W!Ready
  <2>4. bytes_have_send' = 0 /\ answer'[1] = head /\ answer'[2] = size
    BY <1>1, <2>3 DEF Sizes
  <2>5. m_iv'[1] = W!Part(W!Buf, 0, head)
    <3>1. m_iv \in Iovecs \X Iovecs
      BY <1>1 DEF Sizes
    <3>2. W!RespondPage(head) => m_iv' = [m_iv EXCEPT ![1] = W!Part(W!Buf, 0, head)]
      BY DEF W!RespondPage
    <3>3. W!RespondPage(head) => m_iv'[1] = W!Part(W!Buf, 0, head)
      BY <3>1, <3>2
    <3>4. W!RespondFile(head, size) => m_iv'[1] = W!Part(W!Buf, 0, head)
      BY DEF W!RespondFile
    <3> QED
      BY <2>2, <3>3, <3>4
  <2>6. m_iv_count' = 2 => m_iv'[2] = W!Part(W!File(responses'), 0, size)
    <3>1. W!RespondPage(head) => m_iv_count' = 1
      BY DEF W!RespondPage
    <3>2. W!RespondFile(head, size) =>
            m_iv'[2] = W!Part(W!File(responses + 1), 0, size)
      BY DEF W!RespondFile
    <3> QED
      BY <2>2, <2>3, <3>1, <3>2
  <2>7. InText'
    BY <2>1, <2>3, <2>4, <2>5, <2>6 DEF InText
  <2>8. Goes(output, 0)' /\ Len(output') = 0
    <3>1. output' = << >> /\ Len(output') = 0
      BY <1>2, <2>3
    <3>2. 1..Len(output') = {}
      BY <3>1
    <3> QED
      BY <3>1, <3>2 DEF Goes
  <2> QED
    BY <1>2, <2>1, <2>3, <2>4, <2>7, <2>8 DEF Placed, W!Busy
<1>4. CASE W!NoAnswer \/ \E head \in HeadSizes : W!NoContent(head)
  <2>1. writing' = "closed" /\ output' = << >>
    BY <1>4 DEF W!NoAnswer, W!NoContent, W!Process
  <2> QED
    BY <1>2, <2>1 DEF Placed, W!Busy
<1>5. CASE W!Writable \/ W!WriteAgain \/ UNCHANGED writeHalf
  <2>1. /\ m_iv' = m_iv /\ m_iv_count' = m_iv_count /\ answer' = answer
        /\ bytes_have_send' = bytes_have_send /\ bytes_to_send' = bytes_to_send
        /\ output' = output /\ responses' = responses /\ pieces' = pieces
        /\ (W!Busy' <=> W!Busy)
        /\ (writing' = "wait" <=> writing = "wait")
    BY <1>5 DEF W!Writable, W!WriteAgain, writeHalf, W!output, W!counts, W!ghosts,
                W!Busy
  <2>2. \A i : Place(i)' = Place(i)
    BY <2>1 DEF Place
  <2>3. Goes(output, 0) => Goes(output, 0)'
    BY <2>1, <2>2 DEF Goes
  <2>4. (InText => InText') /\ (InFile => InFile')
    BY <2>1 DEF InText, InFile
  <2> QED
    BY <2>1, <2>3, <2>4 DEF Placed
<1>6. ASSUME NEW n \in 0..Len(W!Pending),
             W!WritePart(n) \/ W!WriteLastKeep(n) \/ W!WriteLastClose(n)
      PROVE  Placed'
  <2>1. W!Sent(n) /\ answer' = answer /\ responses' = responses
    BY <1>6 DEF W!WritePart, W!WriteLastKeep, W!WriteLastClose, W!Sent
  <2>2. output' \in Seq(Places)
    BY <2>1, SentPlaces
  <2>3. ASSUME pieces' <= 1
        PROVE  /\ n <= bytes_to_send
               /\ Len(output') = bytes_have_send + n /\ Goes(output, 0)'
    <3>1. /\ n <= bytes_to_send
          /\ Len(output') = bytes_have_send + n
          /\ \A i \in 1..(bytes_have_send + n) : output'[i] = Place(i)
      BY <2>1, <2>3, SentGoes
    <3>2. \A i : Place(i)' = Place(i)
      BY <2>1 DEF Place
    <3>3. ASSUME NEW i \in 1..Len(output') PROVE output'[i] = Place(0 + i)'
      <4>1. output'[i] = Place(i) /\ 0 + i = i
        BY <3>1
      <4> QED
        BY <3>2, <4>1
    <3> QED
      BY <3>1, <3>3 DEF Goes
  <2>4. CASE W!WritePart(n)
    <3>1. writing' = "writing" /\ bytes_have_send' = bytes_have_send + n
          /\ W!CountSent(n) /\ ~W!AllSent(n)
      BY <2>1, <2>4 DEF W!WritePart, W!CountSent, W!Sent
    <3> QED
      BY <2>1, <2>2, <2>3, <3>1, AdvancedPlaced DEF Placed
  <2>5. CASE W!WriteLastKeep(n)
    <3>1. writing' = "wait" /\ bytes_to_send - n <= 0 /\ W!Busy
      BY <2>1, <2>5 DEF W!WriteLastKeep, W!AllSent, W!Sent, W!Busy
    <3>2. bytes_have_send + bytes_to_send = answer[1] + answer[2]
          /\ bytes_to_send \in Nat /\ bytes_have_send \in Nat
      BY <1>1, <3>1, Ranges DEF Sizes, Counted
    <3>3. pieces' <= 1 => Len(output') = answer'[1] + answer'[2]
      BY <2>1, <2>3, <3>1, <3>2
    <3> QED
      BY <2>2, <2>3, <3>1, <3>3 DEF Placed, W!Busy
  <2>6. CASE W!WriteLastClose(n)
    <3>1. writing' = "closed"
      BY <2>6 DEF W!WriteLastClose
    <3> QED
      BY <2>2, <3>1 DEF Placed, W!Busy
  <2> QED
    BY <1>6, <2>4, <2>5, <2>6
<1>7. CASE W!WriteError \/ W!CloseEarly
  <2>1. writing' = "closed" /\ output' = output
    BY <1>7 DEF W!WriteError, W!CloseEarly, W!ghosts
  <2> QED
    BY <2>1 DEF Placed, W!Busy
<1>8. CASE W!NewConnection
  <2>1. writing' = "wait" /\ output' = << >> /\ answer' = <<0, 0>>
    BY <1>8 DEF W!NewConnection
  <2>2. Goes(output, 0)' /\ Len(output') = answer'[1] + answer'[2]
    BY <1>2, <2>1 DEF Goes
  <2> QED
    BY <1>2, <2>1, <2>2 DEF Placed, W!Busy
<1> QED
  BY <1>1, <1>3, <1>4, <1>5, <1>6, <1>7, <1>8 DEF WStep

LEMMA PlacedInit == Init => Placed
<1> SUFFICES ASSUME Init PROVE Placed
  OBVIOUS
<1>1. output = << >> /\ answer = <<0, 0>> /\ writing = "wait"
  BY DEF Init, W!Init
<1>2. << >> \in Seq(Places) /\ Len(<< >>) = 0
  OBVIOUS
<1>3. Goes(output, 0) /\ Len(output) = answer[1] + answer[2]
  BY <1>1, <1>2 DEF Goes
<1> QED
  BY <1>1, <1>2, <1>3 DEF Placed, W!Busy

LEMMA ResponseIs ==
  ASSUME W!TypeOK
  PROVE  /\ W!Response \in Seq(Places)
         /\ Len(W!Response) = answer[1] + answer[2]
         /\ Goes(W!Response, 0)
<1>1. PICK head \in Nat : head = answer[1]
  BY Ranges
<1>2. PICK size \in Nat : size = answer[2]
  BY Ranges
<1> DEFINE b == W!Bytes(W!Part(W!Buf, 0, head))
           c == W!Bytes(W!Part(W!File(responses), 0, size))
<1>3. b \in Seq(Places) /\ Len(b) = head
      /\ \A i \in 1..head : b[i] = <<W!Buf, i - 1>>
  <2>1. W!Part(W!Buf, 0, head) \in Iovecs
    BY PartIs DEF W!Buf
  <2> QED
    BY <2>1, BytesAre DEF W!Part
<1>4. c \in Seq(Places) /\ Len(c) = size
      /\ \A i \in 1..size : c[i] = <<W!File(responses), i - 1>>
  <2>1. W!File(responses) \in {"buf", "file"} \X Int
    BY Ranges DEF W!File
  <2>2. W!Part(W!File(responses), 0, size) \in Iovecs
    BY <2>1, PartIs
  <2> QED
    BY <2>2, BytesAre DEF W!Part
<1>5. W!Response = b \o c
  BY <1>1, <1>2 DEF W!Response
<1> HIDE DEF b, c
<1>6. /\ b \o c \in Seq(Places) /\ Len(b \o c) = head + size
      /\ \A i \in 1..(head + size) :
           (b \o c)[i] = IF i <= head THEN b[i] ELSE c[i - head]
  BY <1>3, <1>4, ConcatProperties
<1>7. ASSUME NEW i \in 1..(head + size) PROVE (b \o c)[i] = Place(i)
  <2>1. CASE i <= head
    BY <1>1, <1>3, <1>6, <2>1 DEF Place
  <2>2. CASE ~(i <= head)
    <3>1. PICK j \in 1..size : j = i - head
      BY <2>2
    <3>2. (b \o c)[i] = <<W!File(responses), j - 1>>
      BY <1>4, <1>6, <2>2, <3>1
    <3>3. ~(i <= answer[1]) /\ i - answer[1] - 1 = j - 1
      BY <1>1, <2>2, <3>1
    <3>4. Place(i) = <<W!File(responses), j - 1>>
      BY <3>3 DEF Place
    <3> QED
      BY <3>2, <3>4
  <2> QED
    BY <2>1, <2>2
<1>8. ASSUME NEW i \in 1..Len(b \o c) PROVE (b \o c)[i] = Place(0 + i)
  <2>1. i \in 1..(head + size) /\ 0 + i = i
    BY <1>6
  <2> QED
    BY <1>7, <2>1
<1> QED
  BY <1>1, <1>2, <1>5, <1>6, <1>8 DEF Goes

\* What the peer has got, and the counters say, is the response from its
\* beginning on, whatever parts the socket took and however often it had no
\* room, as long as the text of m_write_buf went out in at most two parts.
THEOREM SendsWhole == Spec => []SendsInOrder
<1>1. Typed /\ Placed => SendsInOrder
  <2> SUFFICES ASSUME Typed, Placed, pieces <= 1
               PROVE  /\ W!Busy => /\ output \o W!Pending = W!Response
                                   /\ bytes_have_send = Len(output)
                                   /\ bytes_to_send = Len(W!Pending)
                      /\ writing = "wait" => output = W!Response
    BY DEF SendsInOrder, W!SendsInOrder
  <2>1. /\ W!Response \in Seq(Places) /\ output \in Seq(Places)
        /\ W!Pending \in Seq(Places)
        /\ Len(W!Response) = answer[1] + answer[2]
    BY ResponseIs, PendingIs DEF Typed, TypeOK, Placed
  <2>2. Goes(W!Response, 0)
    BY ResponseIs DEF Typed, TypeOK
  <2>3. CASE W!Busy
    <3>1. Len(output) = bytes_have_send /\ Goes(output, 0)
      BY <2>3 DEF Placed
    <3>2. Len(W!Pending) = bytes_to_send /\ Goes(W!Pending, bytes_have_send)
      BY <2>3, PendingGoes
    <3>3. bytes_have_send + bytes_to_send = answer[1] + answer[2]
          /\ bytes_have_send \in Nat /\ bytes_to_send \in Nat
      BY <2>3, Ranges DEF Typed, TypeOK, Sizes, Counted
    <3>4. /\ output \o W!Pending \in Seq(Places)
          /\ Len(output \o W!Pending) = bytes_have_send + bytes_to_send
          /\ \A i \in 1..(bytes_have_send + bytes_to_send) :
               (output \o W!Pending)[i] =
                 IF i <= bytes_have_send THEN output[i]
                 ELSE W!Pending[i - bytes_have_send]
      BY <2>1, <3>1, <3>2, ConcatProperties
    <3>5. ASSUME NEW i \in 1..(bytes_have_send + bytes_to_send)
          PROVE  (output \o W!Pending)[i] = W!Response[i]
      <4>1. W!Response[i] = Place(i)
        <5>1. i \in 1..Len(W!Response) /\ 0 + i = i
          BY <2>1, <3>3
        <5> QED
          BY <2>2, <5>1 DEF Goes
      <4>2. CASE i <= bytes_have_send
        <5>1. i \in 1..Len(output)
          BY <3>1, <3>3, <4>2
        <5>2. output[i] = Place(i)
          <6>1. 0 + i = i
            OBVIOUS
          <6> QED
            BY <3>1, <5>1, <6>1 DEF Goes
        <5> QED
          BY <3>4, <4>1, <4>2, <5>2
      <4>3. CASE ~(i <= bytes_have_send)
        <5>1. PICK j \in 1..bytes_to_send : j = i - bytes_have_send
          BY <3>3, <4>3
        <5>2. W!Pending[j] = Place(bytes_have_send + j)
          BY <3>2, <5>1 DEF Goes
        <5>3. Place(bytes_have_send + j) = Place(i)
          <6>1. bytes_have_send + j = i
            BY <3>3, <5>1
          <6> QED
            BY <6>1
        <5>4. (output \o W!Pending)[i] = W!Pending[j]
          BY <3>3, <3>4, <4>3, <5>1
        <5> QED
          BY <4>1, <5>2, <5>3, <5>4
      <4> QED
        BY <4>2, <4>3
    <3>6. output \o W!Pending = W!Response
      BY <2>1, <3>3, <3>4, <3>5, SeqEqual
    <3> QED
      BY <2>3, <3>1, <3>2, <3>6 DEF W!Busy
  <2>4. CASE writing = "wait"
    <3>1. Len(output) = answer[1] + answer[2] /\ Goes(output, 0)
      BY <2>4 DEF Placed
    <3>2. output = W!Response
      BY <2>1, <2>2, <3>1, SeqEqual DEF Goes
    <3> QED
      BY <2>4, <3>2 DEF W!Busy
  <2> QED
    BY <2>3, <2>4
<1> QED
  BY <1>1, TypedInit, TypedStep, PlacedInit, PlacedStep, PTL DEF Spec

-----------------------------------------------------------------------------
(***************************************************************************)
(* What is answered                                                        *)
(***************************************************************************)
LEMMA RequestedInit == Init => Requested
<1>1. Init => RP!Init
  BY DEF Init, R!Init, RP!Init, ParsedUrl
<1> QED
  BY <1>1, ReadAssumed, RP!FollowsInit DEF Requested

LEMMA SameFollowing ==
  ASSUME \A r \in Requests : R!NothingFollows(r)
  PROVE  \A r \in Requests : RP!NothingFollows(r)
BY SameRequest

\* A request that is being answered was understood.
LEMMA Understood ==
  ASSUME Requested, reading = "respond"
  PROVE  RP!Answering /\ sentCount # answered
BY DEF Requested, Lost, RP!Follows, RP!Fresh, RP!Parsing

\* The program does nothing that is known once it is lost.
LEMMA LostStays == ASSUME Typed, Lost, [Next]_vars PROVE UNCHANGED vars
<1>1. reading = "undefined" /\ writing \notin {"armed", "writing"}
  BY DEF Lost, Typed, TypeOK, W!Busy
<1> QED
  BY <1>1 DEF Next, Read, Send, Receive, R!Send, R!Receive, R!process_read,
     R!LineOpen, R!LineBad, R!LineOk, R!InLine, R!parse_request_line,
     R!parse_headers, R!EndOfHeaders, R!parse_content, R!ContentOutside,
     R!ContentTurn, Process, do_request, RunsOff, InProcess, Write, W!Writable,
     W!WriteAgain, W!WritePart, W!Sent, WriteLast, R!AnswerKeep, R!AnswerClose,
     CloseEarly, R!ReadFull, R!Close, NewConnection, R!NewConnection, Undefined

\* Two texts that are the same from a place on have the same account there.
LEMMA SameAccount ==
  ASSUME NEW text, NEW other, NEW at \in Nat, Len(text) \in Nat,
         Len(text) = Len(other),
         \A i \in (at + 1)..Len(text) : text[i] = other[i]
  PROVE  HasAccount(text, at) <=> HasAccount(other, at)
<1>1. Amps(text, at) = Amps(other, at)
  BY DEF Amps
<1>2. ASSUME NEW amp \in Amps(text, at)
      PROVE  PasswordEnds(text, amp) = PasswordEnds(other, amp)
  <2>1. amp \in Int /\ amp >= at + 2
    BY DEF Amps
  <2> QED
    BY <2>1 DEF PasswordEnds
<1> QED
  BY <1>1, <1>2 DEF HasAccount

LEMMA NoneBehind ==
  ASSUME NEW text, Len(text) \in Nat PROVE ~HasAccount(text, Len(text))
BY DEF HasAccount, Amps

\* The loops over the account run off for a request that is of those named,
\* whatever m_string was before the body came.
LEMMA RunsOffLosing ==
  ASSUME Typed, Requested, RunsOff PROVE Losing(sent)
<1>1. /\ RP!Answering /\ reading = "respond" /\ writing = "wait"
      /\ code # "BAD_REQUEST"
  BY Understood DEF RunsOff, InProcess
<1>2. /\ R!GoodLine(sent) /\ R!HeadersEnds(sent) # {}
      /\ R!ContentSize(sent) \in Int
  BY <1>1, SameRequest DEF RP!Answering
<1>3. CASE R!ContentSize(sent) < 0
  BY <1>2, <1>3 DEF Losing, R!Odd
<1>4. CASE R!ContentSize(sent) >= 0
  <2>1. m_url = R!Url(sent) /\ (cgi <=> sent[1] = "post")
    <3>1. ParsedUrl = m_url /\ cgi \in BOOLEAN
      BY <1>1 DEF Typed, Turns, ParsedUrl, RP!TypeOK
    <3>2. RP!UrlRight /\ RP!ContentSize(sent) >= 0
      BY <1>1, <1>4, SameRequest DEF Requested
    <3> QED
      BY <1>1, <3>1, <3>2, SameRequest DEF RP!UrlRight, RP!Answering
  <2>2. /\ IsAccount(sent[1] = "post", R!Url(sent))
        /\ ~HasAccount(m_read_buf, m_string)
    BY <2>1 DEF RunsOff, Scans, IsAccount
  <2>3. Len(sent) = R!HeadersEnd(sent) + R!ContentSize(sent)
        /\ Len(sent) \in Nat
    <3>1. RP!WellFormed(sent)
      BY <1>1, <1>4, SameRequest DEF RP!Answering
    <3>2. sent \in Seq(RP!Cells)
      BY DEF Typed, RP!TypeOK
    <3> QED
      BY <3>1, <3>2, SameRequest DEF R!WellFormed
  <2>4. R!HeadersEnd(sent) \in Nat
    <3>1. R!HeadersEnds(sent) \subseteq Nat
      BY <2>3 DEF R!HeadersEnds
    <3> QED
      BY <1>2, <3>1, ReadAssumed, RP!MinOfNats
         DEF R!HeadersEnd, R!Min, RP!Min
  <2>5. ~HasAccount(sent, R!HeadersEnd(sent))
    <3>1. CASE R!ContentSize(sent) = 0
      <4>1. R!HeadersEnd(sent) = Len(sent)
        BY <2>3, <2>4, <3>1
      <4> QED
        BY <2>3, <4>1, NoneBehind
    <3>2. CASE R!ContentSize(sent) > 0
      <4>1. /\ m_string = R!HeadersEnd(sent) /\ Len(m_read_buf) = Len(sent)
            /\ \A i \in (m_string + 1)..Len(m_read_buf) : m_read_buf[i] = sent[i]
        BY <1>1, <3>2, SameRequest DEF RP!Answering, RP!m_read_idx
      <4> QED
        BY <2>2, <2>3, <2>4, <4>1, SameAccount
    <3> QED
      BY <1>2, <1>4, <3>1, <3>2
  <2> QED
    BY <1>2, <2>2, <2>5 DEF Losing, NoAccount
<1> QED
  BY <1>2, <1>3, <1>4

\* The program is lost on the requests named.
LEMMA LostFits == ASSUME Requested, Lost PROVE Losing(sent)
BY SameRequest
   DEF Requested, Lost, Losing, RP!Follows, RP!Fresh, RP!Parsing, RP!Answering

LEMMA RequestedStep ==
  ASSUME \A r \in Requests : R!NothingFollows(r)
  PROVE  Typed /\ Requested /\ [Next]_vars => Requested'
<1> SUFFICES ASSUME Typed, Requested, [Next]_vars PROVE Requested'
  OBVIOUS
<1>1. CASE Process
  <2>1. RP!Answering /\ sentCount # answered
    BY <1>1, ProcessKeeps, Understood
  <2>2. writing' # "wait"
    BY <1>1, ProcessKeeps
  <2>3. CASE writing' = "closed"
    <3>1. reading' = "closed"
      BY <1>1, <2>3, ProcessKeeps
    <3> QED
      BY <2>2, <3>1 DEF Requested, RP!Follows
  <2>4. CASE writing' # "closed"
    <3>1. /\ reading' = "respond"
          /\ UNCHANGED <<input, sent, sentCount, answered, m_read_buf, m_method,
                         cgi, m_string, code, m_linger>>
      BY <1>1, <2>4, ProcessKeeps
    <3>2. RP!Answering'
      BY <2>1, <3>1 DEF RP!Answering, RP!m_read_idx
    <3> QED
      BY <2>1, <2>2, <3>1, <3>2 DEF Requested, RP!Follows
  <2> QED
    BY <2>3, <2>4
<1>2. CASE RunsOff
  <2>1. Losing(sent) /\ reading' = "undefined" /\ sent' = sent
    BY <1>2, RunsOffLosing DEF RunsOff
  <2>2. Losing(sent)'
    BY <2>1 DEF Losing, NoAccount
  <2> QED
    BY <2>1, <2>2 DEF Requested, Lost, RP!UrlRight
<1>3. CASE Lost
  <2>1. reading' = "undefined" /\ sent' = sent
    BY <1>3, LostStays DEF vars, readHalf, Lost
  <2>2. Losing(sent)
    BY <1>3, LostFits
  <2>3. Losing(sent)'
    BY <2>1, <2>2 DEF Losing, NoAccount
  <2> QED
    BY <2>1, <2>3 DEF Requested, Lost, RP!UrlRight
<1>4. CASE ~Process /\ ~RunsOff /\ ~Lost
  <2>1. [RP!Step]_(RP!vars)
    BY <1>4, InputStep DEF Typed
  <2>2. RP!Follows /\ RP!Follows'
    BY <1>4, <2>1, SameFollowing, ReadAssumed, RP!FollowsStep DEF Typed, Requested
  <2>3. ASSUME writing = "wait" PROVE RP!UrlRight'
    BY <2>1, <2>2, <2>3, SameFollowing, ReadAssumed, RP!UrlStep
       DEF Typed, Requested
  <2>4. ASSUME writing # "wait", writing' = "wait" PROVE reading' = "wait"
    BY <1>4, <2>4
       DEF Next, vars, writeHalf, Read, Write, W!Writable, W!WriteAgain, W!WritePart,
           WriteLast, W!WriteLastClose, R!AnswerKeep, CloseEarly, W!CloseEarly,
           W!WriteError, NewConnection, R!NewConnection, Undefined
  <2> QED
    BY <2>2, <2>3, <2>4 DEF Requested, RP!UrlRight
<1> QED
  BY <1>1, <1>2, <1>3, <1>4

\* The file that do_request chooses is one that was asked for.
LEMMA ChosenIsAsked ==
  ASSUME Typed, Requested, reading = "respond", writing = "wait",
         code = "GET_REQUEST", R!ContentSize(sent) >= 0, NEW url \in NewUrl
  PROVE  RealFile(url) \in Asked(sent)
<1>1. RP!Answering /\ RP!UrlRight /\ code # "BAD_REQUEST"
  BY Understood DEF Requested
<1>2. cgi <=> sent[1] = "post"
  <2>1. cgi \in BOOLEAN
    BY DEF Typed, RP!TypeOK
  <2> QED
    BY <1>1, <2>1 DEF RP!Answering
<1>3. PICK u : u = R!Url(sent)
  OBVIOUS
<1>4. m_url = u
  <2>1. ParsedUrl = m_url
    BY DEF Typed, Turns, ParsedUrl
  <2> QED
    BY <1>1, <1>3, <2>1, SameRequest DEF RP!UrlRight
<1>5. Asked(sent) =
        IF sent[1] = "post" /\ Flag[u] = "2" THEN {"welcome", "logError"}
        ELSE IF sent[1] = "post" /\ Flag[u] = "3" THEN {"log", "registerError"}
        ELSE IF Flag[u] \in DOMAIN Pages THEN {Pages[Flag[u]]}
        ELSE {u}
  BY <1>3 DEF Asked
<1>6. DOMAIN Results = {"2", "3"} /\ Results["2"] = {"welcome", "logError"}
      /\ Results["3"] = {"log", "registerError"}
  BY DEF Results
<1>7. CASE cgi /\ Flag[u] \in {"2", "3"}
  <2>1. url \in Results[Flag[u]]
    BY <1>4, <1>6, <1>7 DEF NewUrl, IsAccount
  <2>2. url \in ResultPages
    BY <1>6, <1>7, <2>1 DEF ResultPages
  <2>3. RealFile(url) = url
    BY <2>2, ConnAssumption DEF RealFile
  <2> QED
    BY <1>2, <1>5, <1>6, <1>7, <2>1, <2>3
<1>8. CASE ~(cgi /\ Flag[u] \in {"2", "3"})
  <2>1. url = u
    BY <1>4, <1>6, <1>8 DEF NewUrl, IsAccount
  <2> QED
    BY <1>2, <1>5, <1>8, <2>1 DEF RealFile
<1> QED
  BY <1>7, <1>8

LEMMA SameSent == R!GoodLine(sent) <=> RP!GoodLine(sent)
BY SameRequest

\* The first part of AnswersAsked.
AnswerFits ==
  W!Busy =>
    IF R!GoodLine(sent)
    THEN /\ R!ContentSize(sent) >= 0 => m_real_file \in Asked(sent)
         /\ answer[2] = (IF m_real_file \in DOMAIN Size
                         THEN Size[m_real_file] ELSE 0)
    ELSE m_real_file = "none" /\ answer[2] = 0

LEMMA AnswersStep ==
  Typed /\ Requested /\ AnswerFits /\ [Next]_vars => AnswerFits'
<1> SUFFICES ASSUME Typed, Requested, AnswerFits, [Next]_vars, W!Busy'
             PROVE  (IF R!GoodLine(sent)
                     THEN /\ R!ContentSize(sent) >= 0 => m_real_file \in Asked(sent)
                          /\ answer[2] = (IF m_real_file \in DOMAIN Size
                                          THEN Size[m_real_file] ELSE 0)
                     ELSE m_real_file = "none" /\ answer[2] = 0)'
  BY DEF AnswerFits
<1>1. CASE Process
  <2>1. /\ reading = "respond" /\ writing = "wait" /\ sent' = sent
        /\ RP!Answering
    BY <1>1, ProcessKeeps, Understood
  <2>2. CASE code = "GET_REQUEST" /\ do_request
    <3>1. PICK file : file = m_real_file'
      OBVIOUS
    <3>2. R!GoodLine(sent)
      BY <2>1, <2>2, SameSent DEF RP!Answering
    <3>3. ASSUME R!ContentSize(sent) >= 0 PROVE file \in Asked(sent)
      <4>1. m_url' \in NewUrl /\ m_real_file' = RealFile(m_url')
        BY <2>2 DEF do_request
      <4>2. PICK url \in NewUrl : m_real_file' = RealFile(url)
        BY <4>1
      <4> QED
        BY <2>1, <2>2, <3>1, <3>3, <4>2, ChosenIsAsked
    <3>4. answer'[2] = IF file \in DOMAIN Size THEN Size[file] ELSE 0
      <4>1. Serve(file)
        BY <2>2, <3>1 DEF do_request
      <4>2. CASE file \in Unreadable /\ \E head \in HeadSizes : W!RespondPage(head)
        <5>1. answer'[2] = 0
          BY <4>2 DEF W!RespondPage, W!Process
        <5> QED
          BY <4>2, <5>1, ConnAssumption
      <4>3. CASE /\ file \in DOMAIN Size
                 /\ \E head \in HeadSizes : W!RespondFile(head, Size[file])
        BY <4>3 DEF W!RespondFile, W!Process
      <4>4. CASE W!NoAnswer \/ \E head \in HeadSizes : W!NoContent(head)
        BY <4>4 DEF W!NoContent, W!NoAnswer, W!Busy
      <4> QED
        BY <4>1, <4>2, <4>3, <4>4 DEF Serve
    <3> QED
      BY <2>1, <3>1, <3>2, <3>3, <3>4 DEF R!GoodLine, Asked
  <2>3. CASE code = "BAD_REQUEST" /\ \E head \in HeadSizes : W!RespondPage(head)
    <3>1. ~R!GoodLine(sent)
      BY <2>1, <2>3, SameSent DEF RP!Answering
    <3>2. answer'[2] = 0
      BY <2>3 DEF W!RespondPage, W!Process
    <3>3. m_real_file' = "none"
      <4>1. m_real_file = "none"
        BY <2>1 DEF Typed, Turns
      <4>2. CASE UNCHANGED m_real_file
        BY <4>1, <4>2
      <4> QED
        BY <1>1, <2>3, <4>2 DEF Process
    <3> QED
      BY <2>1, <3>1, <3>2, <3>3 DEF R!GoodLine
  <2> QED
    BY <1>1, <2>2, <2>3 DEF Process
<1>2. CASE ~Process
  <2>1. W!Busy /\ UNCHANGED <<sent, m_real_file, answer>>
    BY <1>2 DEF Next, vars, readHalf, writeHalf, W!Busy, Read, Turns, Typed,
       Write, W!Writable, W!WriteAgain, W!WritePart, W!Sent,
       WriteLast, W!WriteLastKeep, W!WriteLastClose,
       CloseEarly, W!CloseEarly, W!WriteError, NewConnection, W!NewConnection,
       RunsOff, Undefined
  <2> QED
    BY <2>1 DEF AnswerFits, R!GoodLine, Asked
<1> QED
  BY <1>1, <1>2

\* For a client that waits for each answer, the response being sent is the one
\* to the request that it sent last: the file that was asked for, in its whole
\* size, or an error page, and never a file that the object served before.  And
\* the program is lost on no request but those that Losing names, whatever is
\* in the buffer and in m_string.
THEOREM AnswersFit ==
  ASSUME \A r \in Requests : R!NothingFollows(r)
  PROVE  Spec => []AnswersAsked
<1>1. Init => AnswerFits
  BY DEF Init, W!Init, AnswerFits, W!Busy
<1>2. Requested /\ AnswerFits => AnswersAsked
  BY LostFits DEF AnswerFits, AnswersAsked, Lost
<1> QED
  BY <1>1, <1>2, TypedInit, TypedStep, RequestedInit, RequestedStep, AnswersStep, PTL
     DEF Spec

-----------------------------------------------------------------------------
(***************************************************************************)
(* The cycle of a connection                                               *)
(***************************************************************************)
LEMMA OneObject ==
  ASSUME NEW from, NEW to, NEW S, from \in S
  PROVE  /\ <<from>>[1] \in S
         /\ <<to>> = [<<from>> EXCEPT ![1] = to]
OBVIOUS

\* The steps of the cycle that this object can take.
Moves(from, to) ==
  \/ from = to
  \/ from = "closed" /\ to = "idle"
  \/ from = "idle" /\ to \in {"work", "closed"}
  \/ from = "work" /\ to \in {"idle", "reply", "closed"}
  \/ from = "reply" /\ to \in {"idle", "closed"}

LEMMA MovesAreSteps ==
  ASSUME Moves(Phase, Phase'), ~Lost, ~Lost'
  PROVE  [Cycle!CNext]_(Cycle!cycle)
<1>0. ~Lost /\ UNCHANGED Lost
  BY DEF Lost
<1>1. PICK from, to : from = Phase /\ to = Phase'
  OBVIOUS
<1>2. <<Phase>> = <<from>> /\ <<Phase>>' = <<to>>
  BY <1>1
<1>3. <<to>> = [<<from>> EXCEPT ![1] = to] /\ <<from>>[1] = from
  BY OneObject
<1>4. CASE from = to
  BY <1>0, <1>2, <1>4 DEF Cycle!cycle
<1>5. CASE from = "closed" /\ to = "idle"
  BY <1>0, <1>2, <1>3, <1>5 DEF Cycle!CNext, Cycle!Accept, Cycle!Go
<1>6. CASE from = "idle" /\ to \in {"work", "closed"}
  BY <1>0, <1>2, <1>3, <1>6 DEF Cycle!CNext, Cycle!Begin, Cycle!Close, Cycle!Go
<1>7. CASE from = "work" /\ to \in {"idle", "reply", "closed"}
  BY <1>0, <1>2, <1>3, <1>7 DEF Cycle!CNext, Cycle!Await, Cycle!Reply, Cycle!Refuse,
                          Cycle!Go
<1>8. CASE from = "reply" /\ to \in {"idle", "closed"}
  BY <1>0, <1>2, <1>3, <1>8 DEF Cycle!CNext, Cycle!Sent, Cycle!Close, Cycle!Go
<1> QED
  BY <1>1, <1>4, <1>5, <1>6, <1>7, <1>8 DEF Moves

LEMMA CycleStep ==
  Typed /\ [Next]_vars /\ ~Lost /\ ~Lost' => Moves(Phase, Phase')
<1> SUFFICES ASSUME Typed, [Next]_vars, reading # "undefined",
                    reading' # "undefined"
             PROVE  Moves(Phase, Phase')
  BY DEF Lost
<1> USE DEF Lost
<1>1. /\ reading \in {"wait", "loop", "line", "respond", "closed"}
      /\ writing \in {"wait", "armed", "writing", "closed"}
      /\ (writing = "closed" <=> reading = "closed")
      /\ W!Busy => reading = "respond"
      /\ reading \in {"wait", "loop", "line"} => writing = "wait"
  BY DEF Typed, TypeOK, Turns, W!TypeOK, RP!TypeOK
<1>2. CASE Read
  <2>1. writing = "wait" /\ writing' = "wait"
    BY <1>2 DEF Read, writeHalf
  <2>2. CASE Send
    BY <1>1, <2>1, <2>2 DEF Send, R!Send, Phase, Moves
  <2>3. CASE Receive
    BY <1>1, <2>1, <2>3 DEF Receive, R!Receive, Phase, Moves
  <2>4. CASE R!process_read
    <3>1. reading \in {"loop", "line"}
          /\ reading' \in {"loop", "line", "respond", "wait"}
      BY <2>4 DEF R!process_read, R!LineOpen, R!LineBad, R!LineOk, R!InLine,
         R!parse_request_line, R!parse_headers, R!EndOfHeaders, R!parse_content,
         R!ContentTurn, R!ContentOutside, R!HandOn, R!Continue, R!Respond
    <3> QED
      BY <2>1, <3>1 DEF Phase, Moves
  <2> QED
    BY <1>2, <2>2, <2>3, <2>4 DEF Read
<1>3. CASE Process
  <2>1. /\ reading = "respond" /\ writing = "wait"
        /\ writing' \in {"armed", "closed"}
        /\ reading' = IF writing' = "closed" THEN "closed" ELSE "respond"
    BY <1>3, ProcessKeeps
  <2> QED
    BY <2>1 DEF Phase, Moves
<1>4. CASE Write
  <2>1. writing \in {"armed", "writing"} /\ writing' \in {"armed", "writing"}
        /\ reading' = reading
    BY <1>4 DEF Write, W!Writable, W!WriteAgain, W!WritePart, W!Sent, readHalf
  <2> QED
    BY <1>1, <2>1 DEF Phase, Moves, W!Busy
<1>5. CASE WriteLast
  <2>1. /\ writing = "writing" /\ reading = "respond"
        /\ \/ writing' = "wait" /\ reading' = "wait"
           \/ writing' = "closed" /\ reading' = "closed"
    BY <1>5 DEF WriteLast, W!WriteLastKeep, W!WriteLastClose, W!Sent,
       R!AnswerKeep, R!AnswerClose
  <2> QED
    BY <2>1 DEF Phase, Moves
<1>6. CASE CloseEarly
  <2>1. /\ writing' = "closed" /\ reading' = "closed"
        /\ \/ reading = "wait"
           \/ writing \in {"armed", "writing"}
    BY <1>6 DEF CloseEarly, W!CloseEarly, W!WriteError, R!ReadFull, R!Close
  <2> QED
    BY <1>1, <2>1 DEF Phase, Moves, W!Busy
<1>7. CASE NewConnection
  <2>1. reading = "closed" /\ writing' = "wait" /\ reading' = "wait"
    BY <1>7 DEF NewConnection, W!NewConnection, R!NewConnection
  <2> QED
    BY <2>1 DEF Phase, Moves
<1>8. CASE UNCHANGED vars
  BY <1>8 DEF vars, readHalf, writeHalf, Phase, Moves
<1> QED
  BY <1>2, <1>3, <1>4, <1>5, <1>6, <1>7, <1>8 DEF Next, RunsOff, Undefined

\* To be lost ends the cycle.
LEMMA LosingStops ==
  ASSUME ~Lost, Lost' PROVE Cycle!Stop
<1>1. Phase' = "closed"
  BY DEF Phase
<1>2. <<"closed">> = [o \in {1} |-> "closed"]
  OBVIOUS
<1>3. <<Phase>>' = [o \in {1} |-> "closed"]
  BY <1>1, <1>2
<1> QED
  BY <1>3 DEF Cycle!Stop

\* One object, with all of its parser, its buffers and its iovecs, takes no
\* step that the cycle of a connection does not have: a response is only begun
\* by a worker, a connection is never closed while one works on its request
\* unless there is no answer, and the next request waits for the last answer;
\* being lost on a request is the end of it.
\* (That every request comes to an end is left to TLC: IsConnectionCycle.)
THEOREM GoesRound == Spec => Cycle!CInit /\ [][Cycle!CNext]_(Cycle!cycle)
<1>1. Init => Cycle!CInit
  <2> SUFFICES ASSUME Init PROVE Cycle!CInit
    OBVIOUS
  <2>1. <<Phase>> = <<"idle">> /\ ~Lost
    BY DEF Init, R!Init, W!Init, Phase, Lost
  <2>2. <<"idle">> \in [{1} -> {"closed", "idle"}]
    OBVIOUS
  <2> QED
    BY <2>1, <2>2 DEF Cycle!CInit
<1>2. Typed /\ [Next]_vars => [Cycle!CNext]_(Cycle!cycle)
  <2> SUFFICES ASSUME Typed, [Next]_vars PROVE [Cycle!CNext]_(Cycle!cycle)
    OBVIOUS
  <2>1. CASE Lost
    <3>1. UNCHANGED <<Phase, Lost>>
      BY <2>1, LostStays DEF vars, readHalf, writeHalf, Phase, Lost
    <3> QED
      BY <3>1 DEF Cycle!cycle
  <2>2. CASE ~Lost /\ Lost'
    BY <2>2, LosingStops DEF Cycle!CNext
  <2>3. CASE ~Lost /\ ~Lost'
    BY <2>3, CycleStep, MovesAreSteps
  <2> QED
    BY <2>1, <2>2, <2>3
<1> QED
  BY <1>1, <1>2, TypedInit, TypedStep, PTL DEF Spec

=============================================================================
