--------------------------- MODULE HttpReadProofs ---------------------------
(***************************************************************************)
(* Proofs about HttpRead, for any requests, buffer size and lengths.       *)
(***************************************************************************)
EXTENDS HttpRead, SequenceTheorems, WellFoundedInduction, TLAPS

\* Every step of this half that HttpConn composes.
Step == Next \/ Close \/ NewConnection

\* Nothing was sent that is not answered, and init() has prepared the object.
Fresh ==
  /\ pc = "wait" /\ wire = << >>
  /\ m_read_buf = << >> /\ m_checked_idx = 0 /\ m_start_line = 0
  /\ m_check_state = "requestline" /\ ~cgi /\ ~m_linger
  /\ m_content_length = 0

\* The buffer and the wire hold the request, but for the cells that the
\* parser is through with.
Fed ==
  /\ sent \in Requests
  /\ m_read_idx + Len(wire) = Len(sent)
  /\ \A i \in 1..Len(wire) : wire[i] = sent[m_read_idx + i]
  /\ \A i \in (m_checked_idx + 1)..m_read_idx : m_read_buf[i] = sent[i]

Ends == {"cr", "lf"}

\* The cells from the one to the other are text and as they were sent.
IsText(buf, r, from, to) ==
  \A i \in from..to : buf[i] = r[i] /\ r[i] \notin Ends

\* parse_line has found a line behind the first k cells that ends with the
\* next-th.
IsFound(buf, r, k, next) ==
  /\ next >= k + 2 /\ IsText(buf, r, k + 1, next - 2)
  /\ r[next - 1] = "cr" /\ r[next] = "lf"
  /\ buf[next - 1] = "nul" /\ buf[next] = "nul"

\* The first k cells of a request are whole lines, none of them empty.
Whole(r, k) ==
  /\ r[k - 1] = "cr" /\ r[k] = "lf"
  /\ \A i \in 1..(k - 1) : r[i] = "cr" <=> r[i + 1] = "lf"
  /\ \A i \in 4..k : SubSeq(r, i - 3, i) # Blank

\* What the headers in the first k cells are.
Names(r, k) == {r[i] : i \in {j \in 2..k : r[j - 1] = "lf"}}

\* Between the start of the line and m_checked_idx there is no end of a line,
\* or there is exactly the one that was just found.
Scanned ==
  /\ pc \in {"wait", "loop"} =>
       IsText(m_read_buf, sent, m_start_line + 1, m_checked_idx)
  /\ pc = "line" => IsFound(m_read_buf, sent, m_start_line, m_checked_idx)

AtRequestLine ==
  m_check_state = "requestline" =>
    /\ Scanned
    /\ m_start_line = 0 /\ ~cgi /\ ~m_linger /\ m_content_length = 0

Target == m_method = sent[1] /\ cgi = (sent[1] = "post") /\ m_url = Url(sent)

\* The lines before m_start_line were parsed as they were sent.
Headed ==
  /\ GoodLine(sent) /\ Target
  /\ m_start_line >= 5 /\ Whole(sent, m_start_line)
  /\ (m_linger <=> "keep" \in Names(sent, m_start_line))
  /\ m_content_length = LengthAt(sent, m_start_line)

AtHeader ==
  m_check_state = "header" =>
    Scanned /\ m_read_buf[m_start_line] = "nul" /\ Headed

AtContent ==
  m_check_state = "content" =>
    /\ GoodLine(sent) /\ Target
    /\ HeadersEnds(sent) # {} /\ Regular(sent)
    /\ m_start_line >= HeadersEnd(sent)
    /\ (m_linger <=> "keep" \in Headers(sent))
    /\ m_content_length = ContentSize(sent) /\ m_content_length # 0

Parsing ==
  /\ pc \in {"wait", "loop", "line"}
  /\ Fed /\ AtRequestLine /\ AtHeader /\ AtContent

\* What AnswerMatches says, but for m_url, which do_request may replace.
Answering ==
  /\ pc = "respond"
  /\ code = "BAD_REQUEST" => ~GoodLine(sent) /\ ~m_linger
  /\ code # "BAD_REQUEST" =>
       /\ GoodLine(sent) /\ HeadersEnds(sent) # {}
       /\ wire = << >>
       /\ m_method = sent[1] /\ cgi = (sent[1] = "post")
       /\ (m_linger <=> "keep" \in Headers(sent))
       /\ ContentSize(sent) \in Int
       /\ ContentSize(sent) >= 0 => WellFormed(sent)
       /\ ContentSize(sent) > 0 =>
            /\ m_string = HeadersEnd(sent) /\ m_read_idx = Len(sent)
            /\ \A i \in (m_string + 1)..m_read_idx : m_read_buf[i] = sent[i]

\* The inductive invariant.
Follows ==
  \/ pc = "closed"
  \/ pc = "undefined" /\ Odd(sent)
  \/ Fresh
  \/ sentCount # answered /\ (Parsing \/ Answering)

\* And the rest of AnswerMatches.
UrlRight ==
  pc = "respond" /\ code # "BAD_REQUEST" /\ ContentSize(sent) >= 0 =>
    m_url = Url(sent)

-----------------------------------------------------------------------------
(***************************************************************************)
(* The least member of a set, and the places that the parser looks for     *)
(***************************************************************************)
Less == {nn \in Nat \X Nat : nn[1] < nn[2]}

LEMMA LessWF == IsWellFoundedOn(Less, Nat)
BY NatLessThanWellFounded DEF OpToRel, Less

\* A set of numbers has a least member.
LEMMA MinOfNats ==
  ASSUME NEW S, S \subseteq Nat, S # {}
  PROVE  Min(S) \in S /\ \A x \in S : Min(S) <= x
<1>1. \E x \in S : \A y \in S : ~(<<y, x>> \in Less)
  BY ONLY S \subseteq Nat, S # {}, LessWF, WFMin
<1>2. ASSUME NEW x \in S, NEW y \in S, ~(<<y, x>> \in Less) PROVE x <= y
  <2>1. x \in Nat /\ y \in Nat
    OBVIOUS
  <2>2. y < x => <<y, x>> \in Less
    BY <2>1 DEF Less
  <2> QED
    BY <1>2, <2>1, <2>2
<1>3. \E x \in S : \A y \in S : x <= y
  BY <1>1, <1>2
<1> QED
  BY <1>3 DEF Min

LEMMA MaxIs ==
  ASSUME NEW S, S \subseteq Nat, NEW m \in S, \A x \in S : x <= m
  PROVE  Max(S) = m
<1>1. \E x \in S : \A y \in S : x >= y
  OBVIOUS
<1>2. Max(S) \in S /\ \A y \in S : Max(S) >= y
  BY <1>1 DEF Max
<1>3. PICK x \in Nat : x = Max(S)
  BY <1>2
<1>4. x >= m /\ x <= m
  BY <1>2, <1>3
<1> QED
  BY <1>3, <1>4

\* Stop is the first end of a line from m_checked_idx on.
LEMMA StopIsFirst ==
  ASSUME TypeOK, Stops # {}
  PROVE  /\ Stop \in m_checked_idx..(m_read_idx - 1)
         /\ Cell(Stop) \in Ends
         /\ \A i \in m_checked_idx..(Stop - 1) : Cell(i) \notin Ends
<1>1. m_checked_idx \in Nat /\ m_read_idx \in Nat
  BY DEF TypeOK, m_read_idx
<1>2. Stops \subseteq Nat
  BY <1>1 DEF Stops
<1>3. Stop \in Stops /\ \A i \in Stops : Stop <= i
  BY <1>2, MinOfNats DEF Stop
<1>4. Stop \in m_checked_idx..(m_read_idx - 1) /\ Cell(Stop) \in Ends
  BY <1>3 DEF Stops, Ends
<1>5. ASSUME NEW i \in m_checked_idx..(Stop - 1), Cell(i) \in Ends PROVE FALSE
  <2>1. i \in Stops
    BY <1>1, <1>4, <1>5 DEF Stops, Ends
  <2> QED
    BY <1>1, <1>3, <1>4, <2>1
<1> QED
  BY <1>4, <1>5

-----------------------------------------------------------------------------
(***************************************************************************)
(* Types                                                                   *)
(***************************************************************************)
LEMMA TypeInit == Init => TypeOK
<1> SUFFICES ASSUME Init PROVE TypeOK
  OBVIOUS
<1>1. {wire, sent} \subseteq Seq(Cells) /\ m_read_buf \in Seq(Cells)
      /\ m_string \in -1..READ_BUFFER_SIZE /\ m_read_idx = 0
  BY ReadAssumption DEF Init, m_read_idx
<1>2. /\ m_read_idx <= READ_BUFFER_SIZE
      /\ m_checked_idx \in 0..m_read_idx /\ m_start_line \in 0..m_checked_idx
      /\ sentCount \in 0..MaxSent /\ answered \in Nat
  BY <1>1, ReadAssumption DEF Init
<1>3. cgi \in BOOLEAN /\ m_linger \in BOOLEAN /\ cut \in BOOLEAN
  BY DEF Init
<1> QED
  BY <1>1, <1>2, <1>3 DEF Init, TypeOK, Starts

LEMMA TypeReset ==
  ASSUME Reset
  PROVE  /\ m_read_buf' \in Seq(Cells) /\ m_read_idx' <= READ_BUFFER_SIZE
         /\ m_checked_idx' \in 0..m_read_idx' /\ m_start_line' \in 0..m_checked_idx'
         /\ m_check_state' \in {"requestline", "header", "content"}
         /\ m_method' \in Starts /\ m_url' \in Urls \cup {"none"}
         /\ cgi' \in BOOLEAN /\ m_linger' \in BOOLEAN
         /\ m_content_length' \in Int
<1>1. m_read_buf' \in Seq(Cells) /\ m_read_idx' = 0
  BY DEF Reset, m_read_idx
<1>2. /\ m_read_idx' <= READ_BUFFER_SIZE
      /\ m_checked_idx' \in 0..m_read_idx' /\ m_start_line' \in 0..m_checked_idx'
  BY <1>1, ReadAssumption DEF Reset
<1>3. cgi' \in BOOLEAN /\ m_linger' \in BOOLEAN
  BY DEF Reset
<1> QED
  BY <1>1, <1>2, <1>3 DEF Reset, Starts

LEMMA TypeLines ==
  ASSUME TypeOK, LineOpen \/ LineBad \/ LineOk PROVE TypeOK'
<1>1. m_checked_idx \in Nat /\ m_read_idx \in Nat /\ m_start_line \in Nat
      /\ m_start_line <= m_checked_idx /\ m_checked_idx <= m_read_idx
  BY DEF TypeOK, m_read_idx
<1>2. ASSUME m_checked_idx' \in m_checked_idx..m_read_idx
      PROVE  m_checked_idx' \in 0..m_read_idx /\ m_start_line \in 0..m_checked_idx'
  BY <1>1, <1>2
<1>3. CASE LineOpen
  <2>1. m_checked_idx' \in m_checked_idx..m_read_idx
    BY <1>1, <1>3, StopIsFirst DEF LineOpen
  <2> QED
    BY <1>2, <1>3, <2>1 DEF LineOpen, TypeOK, client, parsed, target, m_read_idx
<1>4. CASE LineBad
  <2>1. m_checked_idx' \in m_checked_idx..m_read_idx
    BY <1>1, <1>4, StopIsFirst DEF LineBad
  <2> QED
    BY <1>2, <1>4, <2>1 DEF LineBad, TypeOK, client, parsed, target, m_read_idx
<1>5. CASE LineOk
  <2>1. Stop \in m_checked_idx..(m_read_idx - 1)
    BY <1>5, StopIsFirst DEF LineOk
  <2>2. Cell(Stop) = "cr" => Stop + 1 < m_read_idx
    BY <1>1, <1>5, <2>1 DEF LineOk, AtEnd
  <2>3. m_checked_idx' \in m_checked_idx..m_read_idx
    BY <1>1, <1>5, <2>1, <2>2 DEF LineOk, EndsAt
  <2>4. m_read_buf' \in Seq(Cells) /\ Len(m_read_buf') = m_read_idx
    <3>1. m_read_buf \in Seq(Cells) /\ m_read_idx = Len(m_read_buf)
      BY DEF TypeOK, m_read_idx
    <3>2. m_read_buf' \in [1..m_read_idx -> Cells]
      BY <1>5, <3>1 DEF LineOk, Cells, Marks
    <3> QED
      BY <1>1, <3>2
  <2> QED
    BY <1>2, <1>5, <2>3, <2>4 DEF LineOk, TypeOK, client, parsed, target, m_read_idx
<1> QED
  BY <1>3, <1>4, <1>5

LEMMA TypeParse ==
  ASSUME TypeOK,
         \/ parse_request_line \/ parse_headers \/ EndOfHeaders
         \/ parse_content \/ ContentOutside
  PROVE  TypeOK'
<1>1. m_checked_idx \in Nat /\ m_read_idx \in Nat /\ m_start_line \in Nat
      /\ m_start_line <= m_checked_idx /\ m_checked_idx <= m_read_idx
      /\ m_read_buf \in Seq(Cells) /\ m_read_idx = Len(m_read_buf)
  BY DEF TypeOK, m_read_idx
<1>2. ASSUME m_start_line' = m_checked_idx, m_checked_idx' = m_checked_idx
      PROVE  m_start_line' \in 0..m_checked_idx'
  BY <1>1, <1>2
<1>3. CASE parse_request_line
  <2>1. m_method' \in Starts /\ cgi' \in BOOLEAN
    <3>1. HasMethod => get_line[1] \in Starts
      BY DEF HasMethod, IsLine
    <3>2. m_method \in Starts /\ cgi \in BOOLEAN
      BY DEF TypeOK
    <3>3. m_method' \in Starts
      BY <1>3, <3>1, <3>2 DEF parse_request_line
    <3>4. cgi' \in BOOLEAN
      BY <1>3, <3>2 DEF parse_request_line
    <3> QED
      BY <3>3, <3>4
  <2>2. m_read_buf' \in Seq(Cells) /\ Len(m_read_buf') = m_read_idx
    <3>1. Overlay \in [1..m_read_idx -> Cells]
      <4>1. ASSUME NEW k \in 1..Len(Judge) PROVE Judge[k] \in Cells
        BY DEF Judge, Cells, Marks
      <4>2. \A i \in 1..m_read_idx : m_read_buf[i] \in Cells
        BY <1>1
      <4> QED
        BY <4>1, <4>2 DEF Overlay
    <3>2. Overlay \in Seq(Cells) /\ Len(Overlay) = m_read_idx
      BY <1>1, <3>1
    <3>3. m_read_buf' = Overlay \/ m_read_buf' = m_read_buf
      BY <1>3 DEF parse_request_line
    <3> QED
      BY <1>1, <3>2, <3>3
  <2>3. m_url' \in Urls \cup {"none"}
        /\ m_check_state' \in {"requestline", "header", "content"}
        /\ pc' \in {"loop", "respond", "undefined"}
        /\ (code' = code \/ code' = "BAD_REQUEST")
    BY <1>3 DEF parse_request_line, TypeOK, IsRequestLine, Continue, Respond, Urls
  <2> QED
    BY <1>2, <1>3, <2>1, <2>2, <2>3
       DEF parse_request_line, NextLine, TypeOK, client, m_read_idx
<1>4. CASE parse_headers
  <2>1. m_linger' \in BOOLEAN /\ m_content_length' \in Int
    <3>1. IsLine(DOMAIN Lengths) => Lengths[get_line[1]] \in Int
      BY ReadAssumption DEF IsLine
    <3> QED
      BY <1>4, <3>1 DEF parse_headers, TypeOK
  <2> QED
    BY <1>2, <1>4, <2>1
       DEF parse_headers, NextLine, Continue, TypeOK, client, target, m_read_idx
<1>5. CASE EndOfHeaders
  BY <1>2, <1>5 DEF EndOfHeaders, NextLine, Continue, Respond, TypeOK, client,
                    target, m_read_idx
<1>6. CASE parse_content
  <2>1. /\ m_string' \in -1..READ_BUFFER_SIZE /\ m_url' \in Urls \cup {"none"}
        /\ m_read_buf' \in Seq(Cells) /\ Len(m_read_buf') = m_read_idx
        /\ pc' \in {"loop", "respond"} /\ code' \in {code, "GET_REQUEST"}
        /\ line_status' \in {line_status, "open"}
    <3>1. CASE ~Complete
      BY <1>1, <1>6, <3>1 DEF parse_content, Continue, TypeOK
    <3>2. CASE Complete
      <4>1. HandOn /\ UNCHANGED line_status
        BY <1>6, <3>2 DEF parse_content
      <4>2. m_start_line \in -1..READ_BUFFER_SIZE
        BY <1>1, ReadAssumption DEF TypeOK
      <4>3. m_read_buf' \in [1..m_read_idx -> Cells]
        <5>1. "nul" \in Cells /\ \A i \in 1..m_read_idx : m_read_buf[i] \in Cells
          BY <1>1 DEF Cells, Marks
        <5> QED
          BY <4>1, <5>1 DEF HandOn, TextEnded
      <4>4. m_read_buf' \in Seq(Cells) /\ Len(m_read_buf') = m_read_idx
        BY <1>1, <4>3
      <4>5. m_url' \in Urls \cup {"none"}
        BY <4>1 DEF HandOn, TypeOK
      <4> QED
        BY <4>1, <4>2, <4>4, <4>5 DEF HandOn, Respond
    <3> QED
      BY <3>1, <3>2
  <2>2. m_read_idx' = m_read_idx
    BY <2>1 DEF m_read_idx
  <2>3. UNCHANGED <<client, m_checked_idx, m_check_state, m_method, cgi, m_linger,
                    m_content_length>> /\ m_start_line' = m_checked_idx
    BY <1>6 DEF parse_content, NextLine
  <2>4. cgi' \in BOOLEAN /\ m_linger' \in BOOLEAN /\ cut' \in BOOLEAN
    BY <2>3 DEF TypeOK, client
  <2> QED
    BY <1>1, <1>2, <2>1, <2>2, <2>3, <2>4 DEF TypeOK, client
<1>7. CASE ContentOutside
  BY <1>7 DEF ContentOutside, TypeOK, client, index, parsed, target, m_read_idx
<1> QED
  BY <1>3, <1>4, <1>5, <1>6, <1>7

LEMMA TypeReceive ==
  ASSUME TypeOK, NEW n \in 1..READ_BUFFER_SIZE, Receive(n) PROVE TypeOK'
<1>1. n \in 1..Len(wire) /\ wire \in Seq(Cells) /\ m_read_buf \in Seq(Cells)
  BY DEF Receive, TypeOK
<1>2. SubSeq(wire, 1, n) \in Seq(Cells) /\ Len(SubSeq(wire, 1, n)) = n
  BY <1>1
<1>3. wire' \in Seq(Cells)
  BY <1>1 DEF Receive
<1>4. m_read_buf' \in Seq(Cells) /\ Len(m_read_buf') = Len(m_read_buf) + n
  BY <1>1, <1>2 DEF Receive
<1>5. cut' \in BOOLEAN
  BY DEF Receive, TypeOK, InBody
<1>6. /\ m_read_idx' <= READ_BUFFER_SIZE /\ m_checked_idx' \in 0..m_read_idx'
      /\ m_start_line' \in 0..m_checked_idx'
  BY <1>4 DEF Receive, TypeOK, m_read_idx, index
<1> QED
  BY <1>3, <1>4, <1>5, <1>6 DEF Receive, TypeOK, parsed, target, index

LEMMA TypeStep == TypeOK /\ [Step]_vars => TypeOK'
<1> SUFFICES ASSUME TypeOK, [Step]_vars PROVE TypeOK'
  OBVIOUS
<1>1. ASSUME NEW r \in Requests, Send(r) PROVE TypeOK'
  <2>1. r \in Seq(Cells)
    BY ReadAssumption
  <2>2. sentCount' \in 0..MaxSent
    BY <1>1, ReadAssumption DEF Send, TypeOK
  <2>3. cut' \in BOOLEAN
    BY <1>1 DEF Send
  <2> QED
    BY <1>1, <2>1, <2>2, <2>3 DEF Send, TypeOK, index, parsed, target, m_read_idx
<1>2. CASE read_once
  BY <1>2, TypeReceive
     DEF read_once, ReadFull, TypeOK, client, index, parsed, target, m_read_idx
<1>3. CASE process_read
  BY <1>3, TypeLines, TypeParse DEF process_read
<1>4. CASE AnswerKeep
  BY <1>4, TypeReset DEF AnswerKeep, TypeOK
<1>5. CASE AnswerClose \/ Close
  <2>1. answered' \in Nat
    BY <1>5 DEF AnswerClose, Close, TypeOK, client
  <2>2. UNCHANGED <<wire, sent, sentCount, cut, m_read_buf, index, parsed,
                    line_status, code>> /\ pc' = "closed"
    BY <1>5 DEF AnswerClose, Close, client
  <2>3. cgi' \in BOOLEAN /\ m_linger' \in BOOLEAN /\ cut' \in BOOLEAN
    BY <2>2 DEF TypeOK, parsed, target
  <2> QED
    BY <2>1, <2>2, <2>3 DEF TypeOK, index, parsed, target, m_read_idx
<1>6. CASE NewConnection
  <2>1. {wire', sent'} \subseteq Seq(Cells) /\ answered' \in Nat
    BY <1>6 DEF NewConnection, TypeOK
  <2>2. cut' \in BOOLEAN
    BY <1>6 DEF NewConnection
  <2> QED
    BY <1>6, <2>1, <2>2, TypeReset DEF NewConnection, TypeOK
<1>7. CASE UNCHANGED vars
  BY <1>7 DEF vars, TypeOK, client, index, parsed, target, m_read_idx
<1> QED
  BY <1>1, <1>2, <1>3, <1>4, <1>5, <1>6, <1>7 DEF Step, Next, Answer

\* Whatever the client sends, in whatever pieces, the parser's indices stay in
\* order and inside of what was read, and that inside of m_read_buf.
THEOREM TypeCorrect == Spec => []TypeOK
<1>1. [Next]_vars => [Step]_vars
  BY DEF Step
<1> QED
  BY <1>1, TypeInit, TypeStep, PTL DEF Spec

-----------------------------------------------------------------------------
(***************************************************************************)
(* Requests and their lines                                                *)
(***************************************************************************)
LEMMA RequestCells ==
  ASSUME NEW r \in Requests
  PROVE  /\ r \in Seq(Cells) /\ Len(r) \in Nat
         /\ \A i \in 1..Len(r) : r[i] \in Cells \ {"nul"}
BY ReadAssumption

LEMMA SameCells ==
  ASSUME NEW a \in Seq(Cells), NEW b \in Seq(Cells), NEW m \in Nat \ {0},
         NEW n \in Nat, n <= Len(a), n <= Len(b),
         \A i \in m..n : a[i] = b[i]
  PROVE  SubSeq(a, m, n) = SubSeq(b, m, n)
<1>1. ASSUME NEW c \in Seq(Cells), n <= Len(c)
      PROVE  /\ SubSeq(c, m, n) \in Seq(Cells)
             /\ Len(SubSeq(c, m, n)) = IF m <= n THEN n - m + 1 ELSE 0
             /\ \A i \in 1..(n - m + 1) : SubSeq(c, m, n)[i] = c[m + i - 1]
  <2>1. \A i \in m..n : c[i] \in Cells
    BY <1>1
  <2>2. m \in Int /\ n \in Int
    OBVIOUS
  <2> QED
    BY <2>1, <2>2, SubSeqProperties
<1> DEFINE s == SubSeq(a, m, n)
           t == SubSeq(b, m, n)
<1>2. s \in Seq(Cells) /\ t \in Seq(Cells) /\ Len(s) = Len(t)
      /\ Len(s) = IF m <= n THEN n - m + 1 ELSE 0
  BY <1>1
<1>3. ASSUME NEW i \in 1..(n - m + 1) PROVE s[i] = t[i]
  <2>1. m + i - 1 \in m..n
    OBVIOUS
  <2>2. s[i] = a[m + i - 1] /\ t[i] = b[m + i - 1]
    BY <1>1
  <2> QED
    BY <2>1, <2>2
<1> HIDE DEF s, t
<1>4. ASSUME NEW i \in 1..Len(s) PROVE s[i] = t[i]
  <2>1. i \in 1..(n - m + 1)
    BY <1>2
  <2> QED
    BY <1>3, <2>1
<1>5. s = t
  BY <1>2, <1>4, SeqEqual
<1> QED
  BY <1>5 DEF s, t

\* Where the empty line is.
LEMMA BlankAt ==
  ASSUME NEW r \in Seq(Cells), NEW i \in 4..Len(r)
  PROVE  SubSeq(r, i - 3, i) = Blank <=>
           r[i - 3] = "cr" /\ r[i - 2] = "lf" /\ r[i - 1] = "cr" /\ r[i] = "lf"
<1> DEFINE t == SubSeq(r, i - 3, i)
<1>1. /\ i - 3 \in 1..Len(r) /\ i \in 1..Len(r)
      /\ i - (i - 3) + 1 = 4
  OBVIOUS
<1>2. t \in Seq(Cells) /\ Len(t) = 4 /\ \A j \in 1..4 : t[j] = r[(i - 3) + j - 1]
  BY <1>1
<1> HIDE DEF t
<1>3. t[1] = r[i - 3] /\ t[2] = r[i - 2] /\ t[3] = r[i - 1] /\ t[4] = r[i]
  <2>1. ASSUME NEW j \in 1..4, NEW k \in 1..Len(r), (i - 3) + j - 1 = k
        PROVE  t[j] = r[k]
    BY <1>2, <2>1
  <2>2. /\ i - 3 \in 1..Len(r) /\ i - 2 \in 1..Len(r)
        /\ i - 1 \in 1..Len(r) /\ i \in 1..Len(r)
        /\ (i - 3) + 1 - 1 = i - 3 /\ (i - 3) + 2 - 1 = i - 2
        /\ (i - 3) + 3 - 1 = i - 1 /\ (i - 3) + 4 - 1 = i
    OBVIOUS
  <2>3. t[1] = r[i - 3]
    BY <2>1, <2>2
  <2>4. t[2] = r[i - 2]
    BY <2>1, <2>2
  <2>5. t[3] = r[i - 1]
    BY <2>1, <2>2
  <2>6. t[4] = r[i]
    BY <2>1, <2>2
  <2> QED
    BY <2>3, <2>4, <2>5, <2>6
<1>4. t = Blank <=> t[1] = "cr" /\ t[2] = "lf" /\ t[3] = "cr" /\ t[4] = "lf"
  <2>1. t = Blank => t[1] = "cr" /\ t[2] = "lf" /\ t[3] = "cr" /\ t[4] = "lf"
    BY DEF Blank
  <2>2. ASSUME t[1] = "cr", t[2] = "lf", t[3] = "cr", t[4] = "lf" PROVE t = Blank
    <3>1. Blank \in Seq(Cells) /\ Len(Blank) = 4
      BY DEF Blank, Cells, Marks
    <3>2. \A j \in 1..4 : j = 1 \/ j = 2 \/ j = 3 \/ j = 4
      OBVIOUS
    <3>3. \A j \in 1..4 : t[j] = Blank[j]
      BY <2>2, <3>2 DEF Blank
    <3> QED
      BY <1>2, <3>1, <3>3, SeqEqual
  <2> QED
    BY <2>1, <2>2
<1> QED
  BY <1>3, <1>4 DEF t

\* A request line that was found is one that the parser takes just when the
\* request says that it is good.
LEMMA FoundRequestLine ==
  ASSUME NEW r \in Requests, NEW buf, NEW next \in 1..Len(r),
         IsFound(buf, r, 0, next)
  PROVE  /\ GoodLine(r) <=> /\ next = 5
                            /\ r[1] \in Starts /\ r[2] \in DOMAIN Path
                            /\ r[3] = "version"
         /\ next = 5 => Whole(r, 5) /\ Names(r, 5) = {} /\ LengthAt(r, 5) = 0
<1>1. /\ next >= 2 /\ r[next - 1] = "cr" /\ r[next] = "lf"
      /\ \A i \in 1..(next - 2) : r[i] \notin Ends
  BY DEF IsFound, IsText
<1>2. Len(r) \in Nat
  BY RequestCells
<1>3. ASSUME GoodLine(r) PROVE next = 5
  <2>1. Len(r) > 3 /\ r[1] \notin Ends /\ r[2] \notin Ends /\ r[3] \notin Ends
        /\ r[4] = "cr"
    BY <1>3, ReadAssumption DEF GoodLine, Starts, Ends, Marks
  <2>2. next - 1 \notin {1, 2, 3}
    BY <1>1, <2>1 DEF Ends
  <2>3. 4 \notin 1..(next - 2)
    BY <1>1, <2>1 DEF Ends
  <2> QED
    BY <1>1, <1>2, <2>2, <2>3
<1>4. ASSUME next = 5, r[1] \in Starts, r[2] \in DOMAIN Path, r[3] = "version"
      PROVE  GoodLine(r)
  BY <1>1, <1>2, <1>4 DEF GoodLine
<1>5. ASSUME next = 5
      PROVE  Whole(r, 5) /\ Names(r, 5) = {} /\ LengthAt(r, 5) = 0
  <2>1. /\ r[1] \notin Ends /\ r[2] \notin Ends /\ r[3] \notin Ends
        /\ r[4] = "cr" /\ r[5] = "lf"
    BY <1>1, <1>5
  <2>2. \A i \in 1..4 : r[i] = "cr" <=> r[i + 1] = "lf"
    <3>1. \A i \in 1..4 : i = 1 \/ i = 2 \/ i = 3 \/ i = 4
      OBVIOUS
    <3> QED
      BY <2>1, <3>1 DEF Ends
  <2>3. SubSeq(r, 1, 4) # Blank /\ SubSeq(r, 2, 5) # Blank
    <3>1. r \in Seq(Cells) /\ 4 \in 4..Len(r) /\ 5 \in 4..Len(r)
      BY <1>2, <1>5, RequestCells
    <3>2. SubSeq(r, 4 - 3, 4) # Blank /\ SubSeq(r, 5 - 3, 5) # Blank
      BY <2>1, <3>1, BlankAt, SMTT(30) DEF Ends
    <3> QED
      BY <3>2
  <2>4. \A i \in 4..5 : i = 4 \/ i = 5
    OBVIOUS
  <2>5. Whole(r, 5)
    BY <2>1, <2>2, <2>3, <2>4 DEF Whole
  <2>6. \A j \in 2..5 : r[j - 1] # "lf"
    <3>1. \A j \in 2..5 : j - 1 = 1 \/ j - 1 = 2 \/ j - 1 = 3 \/ j - 1 = 4
      OBVIOUS
    <3> QED
      BY <2>1, <3>1 DEF Ends
  <2> QED
    BY <2>5, <2>6 DEF Names, LengthAt, LengthLines
<1> QED
  BY <1>3, <1>4, <1>5 DEF GoodLine

\* A header line that was found makes the whole lines longer by one.
LEMMA FoundHeader ==
  ASSUME NEW r \in Requests, NEW buf, NEW k \in Nat, k >= 5,
         NEW next \in 1..Len(r), Whole(r, k), IsFound(buf, r, k, next),
         next # k + 2
  PROVE  /\ Whole(r, next) /\ Names(r, next) = Names(r, k) \cup {r[k + 1]}
         /\ r[k + 1] \in DOMAIN Lengths => LengthAt(r, next) = Lengths[r[k + 1]]
         /\ r[k + 1] \notin DOMAIN Lengths => LengthAt(r, next) = LengthAt(r, k)
<1>1. /\ next > k + 2 /\ r[next - 1] = "cr" /\ r[next] = "lf"
      /\ \A i \in (k + 1)..(next - 2) : r[i] \notin Ends
  BY DEF IsFound, IsText
<1>2. /\ r[k] = "lf"
      /\ \A i \in 1..(k - 1) : r[i] = "cr" <=> r[i + 1] = "lf"
      /\ \A i \in 4..k : SubSeq(r, i - 3, i) # Blank
  BY DEF Whole
<1>3. ASSUME NEW i \in 1..(next - 1) PROVE r[i] = "cr" <=> r[i + 1] = "lf"
  <2>1. CASE i <= k - 1
    BY <1>2, <2>1
  <2>2. CASE i = k
    BY <1>1, <1>2, <2>2 DEF Ends
  <2>3. CASE i >= k + 1 /\ i < next - 2
    BY <1>1, <2>3 DEF Ends
  <2>4. CASE i = next - 2
    BY <1>1, <2>4 DEF Ends
  <2>5. CASE i = next - 1
    BY <1>1, <2>5
  <2> QED
    BY <2>1, <2>2, <2>3, <2>4, <2>5
<1>4. ASSUME NEW i \in 4..next PROVE SubSeq(r, i - 3, i) # Blank
  <2>0. r \in Seq(Cells) /\ i \in 4..Len(r)
    BY RequestCells
  <2>1. SubSeq(r, i - 3, i) = Blank => r[i - 2] = "lf" /\ r[i] = "lf"
    BY <2>0, BlankAt
  <2>2. CASE i <= k
    <3>1. i \in 4..k
      BY <2>2
    <3> QED
      BY <1>2, <3>1
  <2>3. CASE i >= k + 1 /\ i <= next - 1
    <3>1. r[i] # "lf"
      <4>1. CASE i = next - 1
        BY <1>1, <4>1
      <4>2. CASE i < next - 1
        BY <1>1, <2>3, <4>2 DEF Ends
      <4> QED
        BY <2>3, <4>1, <4>2
    <3> QED
      BY <2>1, <3>1
  <2>4. CASE i = next
    <3>1. i - 2 \in (k + 1)..(next - 2) /\ i - 2 = next - 2
      BY <1>1, <2>4
    <3> QED
      BY <1>1, <2>1, <3>1 DEF Ends
  <2> QED
    BY <2>2, <2>3, <2>4
<1>5. Whole(r, next)
  BY <1>1, <1>3, <1>4 DEF Whole
<1>6. ASSUME NEW j \in 2..next PROVE r[j - 1] = "lf" <=> j = k + 1 \/ (j \in 2..k /\ r[j - 1] = "lf")
  <2>1. CASE j <= k
    BY <2>1
  <2>2. CASE j = k + 1
    BY <1>2, <2>2
  <2>3. CASE j > k + 1
    BY <1>1, <2>3 DEF Ends
  <2> QED
    BY <2>1, <2>2, <2>3
<1>7. k + 1 \in 2..next /\ 2..k \subseteq 2..next
  BY <1>1
<1>8. {j \in 2..next : r[j - 1] = "lf"} = {j \in 2..k : r[j - 1] = "lf"} \cup {k + 1}
  BY <1>6, <1>7
<1>9. LengthLines(r, next) = LengthLines(r, k) \cup
        (IF r[k + 1] \in DOMAIN Lengths THEN {k + 1} ELSE {})
  BY <1>6, <1>7 DEF LengthLines
<1>10. ASSUME r[k + 1] \in DOMAIN Lengths
       PROVE  LengthAt(r, next) = Lengths[r[k + 1]]
  <2>1. k + 1 \in LengthLines(r, next) /\ LengthLines(r, next) \subseteq Nat
    <3>1. k + 1 \in LengthLines(r, next)
      BY <1>9, <1>10
    <3> QED
      BY <3>1 DEF LengthLines
  <2>2. \A x \in LengthLines(r, next) : x <= k + 1
    <3>1. LengthLines(r, next) = LengthLines(r, k) \cup {k + 1}
      BY <1>9, <1>10
    <3>2. \A x \in LengthLines(r, k) : x \in Nat /\ x <= k + 1
      BY DEF LengthLines
    <3> QED
      BY <3>1, <3>2
  <2>3. Max(LengthLines(r, next)) = k + 1
    BY <2>1, <2>2, MaxIs
  <2> QED
    BY <2>1, <2>3 DEF LengthAt
<1>11. r[k + 1] \notin DOMAIN Lengths => LengthAt(r, next) = LengthAt(r, k)
  BY <1>9 DEF LengthAt
<1> QED
  BY <1>5, <1>8, <1>10, <1>11 DEF Names

\* An empty line ends the headers.
LEMMA FoundEnd ==
  ASSUME NEW r \in Requests, NEW buf, NEW k \in Nat, k >= 5, k + 2 <= Len(r),
         Whole(r, k), IsFound(buf, r, k, k + 2)
  PROVE  /\ HeadersEnds(r) # {} /\ HeadersEnd(r) = k + 2 /\ Regular(r)
         /\ Headers(r) = Names(r, k) \cup {"cr"}
         /\ ContentSize(r) = LengthAt(r, k)
<1>1. r[k + 1] = "cr" /\ r[k + 2] = "lf"
  BY DEF IsFound
<1>2. /\ r[k - 1] = "cr" /\ r[k] = "lf"
      /\ \A i \in 1..(k - 1) : r[i] = "cr" <=> r[i + 1] = "lf"
      /\ \A i \in 4..k : SubSeq(r, i - 3, i) # Blank
  BY DEF Whole
<1>3. r \in Seq(Cells) /\ Len(r) \in Nat
  BY RequestCells
<1>4. k + 2 \in HeadersEnds(r)
  <2>1. k + 2 \in 4..Len(r) /\ k + 2 - 3 = k - 1 /\ k + 2 - 2 = k
        /\ k + 2 - 1 = k + 1
    BY <1>3
  <2>2. SubSeq(r, k + 2 - 3, k + 2) = Blank
    BY <1>1, <1>2, <1>3, <2>1, BlankAt
  <2> QED
    BY <2>1, <2>2 DEF HeadersEnds
<1>5. ASSUME NEW i \in HeadersEnds(r), i < k + 2 PROVE FALSE
  <2>1. i \in 4..Len(r) /\ SubSeq(r, i - 3, i) = Blank
    BY DEF HeadersEnds
  <2>2. i = k + 1
    <3>1. i \notin 4..k
      BY <1>2, <2>1
    <3> QED
      BY <1>5, <2>1, <3>1
  <2>3. r[i] = "lf"
    BY <1>3, <2>1, BlankAt
  <2> QED
    BY <1>1, <2>2, <2>3
<1>6. HeadersEnd(r) = k + 2
  <2>1. HeadersEnds(r) \subseteq Nat
    BY <1>3 DEF HeadersEnds
  <2>2. Min(HeadersEnds(r)) \in HeadersEnds(r) /\ Min(HeadersEnds(r)) <= k + 2
    BY <1>4, <2>1, MinOfNats
  <2> QED
    BY <1>5, <2>1, <2>2 DEF HeadersEnd
<1>7. Regular(r)
  <2>1. ASSUME NEW i \in 1..(k + 1) PROVE r[i] = "cr" <=> r[i + 1] = "lf"
    <3>1. CASE i <= k - 1
      BY <1>2, <3>1
    <3>2. CASE i = k
      BY <1>1, <1>2, <3>2
    <3>3. CASE i = k + 1
      BY <1>1, <3>3
    <3> QED
      BY <3>1, <3>2, <3>3
  <2> QED
    BY <1>6, <2>1 DEF Regular
<1>8. Headers(r) = Names(r, k) \cup {"cr"}
  <2>1. ASSUME NEW j \in 2..(k + 2)
        PROVE  r[j - 1] = "lf" <=> j = k + 1 \/ (j \in 2..k /\ r[j - 1] = "lf")
    <3>1. j <= k \/ j = k + 1 \/ j = k + 2
      OBVIOUS
    <3> QED
      BY <1>1, <1>2, <3>1
  <2>2. k + 1 \in 2..(k + 2) /\ 2..k \subseteq 2..(k + 2)
    OBVIOUS
  <2>3. {j \in 2..(k + 2) : r[j - 1] = "lf"}
          = {j \in 2..k : r[j - 1] = "lf"} \cup {k + 1}
    BY <2>1, <2>2
  <2> QED
    BY <1>1, <1>6, <2>3 DEF Headers, Names
<1>9. ContentSize(r) = LengthAt(r, k)
  <2>1. r[k + 1] \notin DOMAIN Lengths
    BY <1>1, ReadAssumption DEF Marks
  <2>2. ASSUME NEW j \in 2..(k + 2)
        PROVE  r[j - 1] = "lf" <=> j = k + 1 \/ (j \in 2..k /\ r[j - 1] = "lf")
    <3>1. j <= k \/ j = k + 1 \/ j = k + 2
      OBVIOUS
    <3> QED
      BY <1>1, <1>2, <3>1
  <2>3. LengthLines(r, k + 2) = LengthLines(r, k)
    BY <2>1, <2>2 DEF LengthLines
  <2> QED
    BY <1>6, <2>3 DEF ContentSize, LengthAt
<1> QED
  BY <1>4, <1>6, <1>7, <1>8, <1>9

-----------------------------------------------------------------------------
(***************************************************************************)
(* The parser follows the request                                          *)
(***************************************************************************)
LEMMA FollowsInit == Init => Follows /\ UrlRight
BY DEF Init, Follows, Fresh, UrlRight

\* The sizes, as numbers.
LEMMA Indices ==
  ASSUME TypeOK
  PROVE  /\ m_read_buf \in Seq(Cells) /\ m_read_idx = Len(m_read_buf)
         /\ m_read_idx \in Nat /\ m_checked_idx \in Nat /\ m_start_line \in Nat
         /\ m_start_line <= m_checked_idx /\ m_checked_idx <= m_read_idx
BY DEF TypeOK, m_read_idx

LEMMA FollowsSend ==
  ASSUME TypeOK, Follows, NEW r \in Requests, Send(r) PROVE Follows'
<1>1. Fresh /\ pc = "wait"
  BY DEF Send, Follows
<1>2. sentCount' # answered'
  BY DEF Send, TypeOK
<1>3. Fed'
  <2>1. /\ sent' = r /\ wire' = r /\ m_read_buf' = << >> /\ m_checked_idx' = 0
    BY <1>1 DEF Send, Fresh, index
  <2>2. Len(r) \in Nat /\ m_read_idx' = 0
    BY <2>1, RequestCells DEF m_read_idx
  <2>3. \A i \in 1..Len(r) : 0 + i = i
    BY <2>2
  <2> QED
    BY <2>1, <2>2, <2>3 DEF Fed
<1>4. AtRequestLine'
  <2>1. /\ pc' = "wait" /\ m_start_line' = 0 /\ m_checked_idx' = 0
        /\ ~cgi' /\ ~m_linger' /\ m_content_length' = 0
    BY <1>1 DEF Send, Fresh, index, parsed, target
  <2> QED
    BY <2>1 DEF AtRequestLine, Scanned, IsText
<1>5. m_check_state' = "requestline" /\ pc' = "wait"
  BY <1>1 DEF Send, Fresh, parsed
<1> QED
  BY <1>2, <1>3, <1>4, <1>5 DEF Follows, Parsing, AtHeader, AtContent

\* What the parser made of the lines before stays true while it looks for the
\* next one.
LEMMA StillParsed ==
  ASSUME TypeOK, UNCHANGED <<sent, m_start_line, parsed>>
  PROVE  /\ Headed => Headed'
         /\ AtContent => AtContent'
BY DEF Headed, Target, AtContent, parsed, target

LEMMA FollowsReceive ==
  ASSUME TypeOK, Follows, NEW n \in 1..READ_BUFFER_SIZE, Receive(n) PROVE Follows'
<1>1. pc = "wait" /\ pc' = "loop" /\ n \in 1..Len(wire)
      /\ UNCHANGED <<sent, sentCount, answered, index, parsed>>
  BY DEF Receive
<1>2. sentCount # answered /\ Parsing
  BY <1>1 DEF Follows, Fresh, Answering
<1>3. /\ wire \in Seq(Cells) /\ Len(wire) \in Nat /\ n \in Nat
      /\ m_read_buf \in Seq(Cells) /\ Len(m_read_buf) \in Nat
  BY <1>1 DEF TypeOK
<1>4. /\ Len(m_read_buf') = Len(m_read_buf) + n
      /\ \A i \in 1..Len(m_read_buf) : m_read_buf'[i] = m_read_buf[i]
      /\ \A i \in 1..n : m_read_buf'[Len(m_read_buf) + i] = wire[i]
  <2>1. SubSeq(wire, 1, n) \in Seq(Cells) /\ Len(SubSeq(wire, 1, n)) = n
        /\ \A i \in 1..n : SubSeq(wire, 1, n)[i] = wire[i]
    BY <1>1, <1>3
  <2> QED
    BY <1>3, <2>1 DEF Receive
<1>5. /\ Len(wire') = Len(wire) - n
      /\ \A i \in 1..Len(wire') : wire'[i] = wire[n + i]
  BY <1>1, <1>3 DEF Receive
<1>6. Fed'
  <2>1. /\ sent \in Requests /\ Len(m_read_buf) + Len(wire) = Len(sent)
        /\ \A i \in 1..Len(wire) : wire[i] = sent[Len(m_read_buf) + i]
        /\ \A i \in (m_checked_idx + 1)..Len(m_read_buf) : m_read_buf[i] = sent[i]
    BY <1>2 DEF Parsing, Fed, m_read_idx
  <2>2. Len(m_read_buf') + Len(wire') = Len(sent)
    <3>1. /\ Len(m_read_buf') = Len(m_read_buf) + n /\ Len(wire') = Len(wire) - n
          /\ Len(m_read_buf) + Len(wire) = Len(sent)
      BY <1>4, <1>5, <2>1
    <3>2. Len(m_read_buf) + n + (Len(wire) - n) = Len(m_read_buf) + Len(wire)
      BY <1>3
    <3> QED
      BY <3>1, <3>2
  <2>3. ASSUME NEW i \in 1..Len(wire')
        PROVE  wire'[i] = sent[Len(m_read_buf') + i]
    <3>1. n + i \in 1..Len(wire)
      BY <1>1, <1>3, <1>5
    <3>2. Len(m_read_buf) + (n + i) = Len(m_read_buf') + i
      BY <1>3, <1>4, <1>5
    <3> QED
      BY <1>5, <2>1, <3>1, <3>2
  <2>4. ASSUME NEW i \in (m_checked_idx + 1)..Len(m_read_buf')
        PROVE  m_read_buf'[i] = sent[i]
    <3>1. CASE i <= Len(m_read_buf)
      BY <1>3, <1>4, <2>1, <3>1, Indices
    <3>2. CASE i > Len(m_read_buf)
      <4>1. PICK j \in 1..n : i = Len(m_read_buf) + j
        <5>1. PICK len \in Nat : len = Len(m_read_buf)
          BY <1>3
        <5>2. i \in Int /\ i > len /\ i <= len + n
          BY <1>4, <3>2, <5>1, Indices
        <5>3. i - len \in 1..n /\ i = len + (i - len)
          BY <1>3, <5>2
        <5> QED
          BY <5>1, <5>3
      <4>2. j \in 1..Len(wire)
        BY <1>1, <1>3
      <4> QED
        BY <1>4, <2>1, <4>1, <4>2
    <3> QED
      BY <1>3, <3>1, <3>2, Indices
  <2> QED
    BY <1>1, <2>1, <2>2, <2>3, <2>4 DEF Fed, m_read_idx, index
<1>7. Scanned => Scanned'
  <2>1. \A i \in (m_start_line + 1)..m_checked_idx : i \in 1..Len(m_read_buf)
    BY Indices
  <2> QED
    BY <1>1, <1>4, <2>1 DEF Scanned, IsText, index
<1>8. AtHeader => AtHeader'
  <2>1. Headed => m_start_line \in 1..Len(m_read_buf)
    BY Indices DEF Headed
  <2> QED
    BY <1>1, <1>4, <1>7, <2>1, StillParsed DEF AtHeader, index, parsed
<1>9. (AtRequestLine => AtRequestLine') /\ (AtContent => AtContent')
  BY <1>1, <1>7, StillParsed DEF AtRequestLine, index, parsed, target
<1> QED
  BY <1>1, <1>2, <1>6, <1>8, <1>9 DEF Follows, Parsing

LEMMA FollowsNoLine ==
  ASSUME TypeOK, Follows, LineOpen \/ LineBad PROVE Follows'
<1>1. /\ pc = "loop" /\ pc' = "wait"
      /\ UNCHANGED <<client, m_read_buf, m_start_line, parsed>>
  BY DEF LineOpen, LineBad
<1>2. sentCount # answered /\ Parsing
  BY <1>1 DEF Follows, Fresh, Answering
<1>3. /\ m_checked_idx' \in m_checked_idx..m_read_idx
      /\ \A i \in m_checked_idx..(m_checked_idx' - 1) : Cell(i) \notin Ends
  <2>1. CASE LineOpen /\ Stops = {}
    BY <2>1, Indices DEF LineOpen, Stops, Ends
  <2>2. CASE Stops # {} /\ m_checked_idx' = Stop
    BY <2>2, StopIsFirst, Indices
  <2> QED
    BY <2>1, <2>2 DEF LineOpen, LineBad
<1>4. Fed /\ Fed'
  <2>1. Fed
    BY <1>2 DEF Parsing
  <2> QED
    BY <1>1, <1>3, <2>1, Indices DEF Fed, client, m_read_idx
<1>5. Scanned => Scanned'
  <2>1. PICK next \in Nat : next = m_checked_idx'
    BY <1>3, Indices
  <2>2. /\ next \in m_checked_idx..m_read_idx
        /\ \A i \in m_checked_idx..(next - 1) : Cell(i) \notin Ends
    BY <1>3, <2>1
  <2>3. ASSUME Scanned, NEW i \in (m_start_line + 1)..next
        PROVE  m_read_buf[i] = sent[i] /\ sent[i] \notin Ends
    <3>1. CASE i <= m_checked_idx
      BY <1>1, <2>3, <3>1, Indices DEF Scanned, IsText
    <3>2. CASE i > m_checked_idx
      <4>1. i - 1 \in m_checked_idx..(next - 1)
            /\ i \in (m_checked_idx + 1)..m_read_idx /\ i - 1 + 1 = i
        BY <2>2, <3>2, Indices
      <4>2. m_read_buf[i] \notin Ends
        BY <2>2, <4>1 DEF Cell
      <4>3. m_read_buf[i] = sent[i]
        BY <1>4, <4>1 DEF Fed
      <4> QED
        BY <4>2, <4>3
    <3> QED
      BY <2>2, <3>1, <3>2, Indices
  <2> QED
    BY <1>1, <2>1, <2>3 DEF Scanned, IsText, client
<1>6. AtHeader => AtHeader'
  BY <1>1, <1>5, StillParsed DEF AtHeader, client, parsed
<1>7. (AtRequestLine => AtRequestLine') /\ (AtContent => AtContent')
  BY <1>1, <1>5, StillParsed DEF AtRequestLine, client, parsed, target
<1> QED
  BY <1>1, <1>2, <1>4, <1>6, <1>7 DEF Follows, Parsing, client

LEMMA FollowsLineOk ==
  ASSUME TypeOK, Follows, LineOk PROVE Follows'
<1>1. /\ pc = "loop" /\ pc' = "line" /\ Stops # {} /\ ~AtEnd /\ IsEnd
      /\ UNCHANGED <<client, m_start_line, parsed>>
  BY DEF LineOk
<1>2. sentCount # answered /\ Parsing
  BY <1>1 DEF Follows, Fresh, Answering
<1>3. PICK k \in Nat : k = Stop
  BY <1>1, StopIsFirst, Indices
<1>4. /\ m_checked_idx <= k /\ k < m_read_idx /\ m_read_buf[k + 1] \in Ends
      /\ \A i \in m_checked_idx..(k - 1) : m_read_buf[i + 1] \notin Ends
  BY <1>1, <1>3, StopIsFirst, Indices DEF Cell
<1>5. PICK e \in Nat :
        /\ e < m_read_idx /\ m_checked_idx' = e + 1
        /\ m_read_buf[k + 1] = "cr" => e = k + 1
        /\ m_read_buf[k + 1] # "cr" => e = k
        /\ m_read_buf' = [i \in 1..m_read_idx |->
             IF i - 1 \in {e - 1, e} THEN "nul" ELSE m_read_buf[i]]
  <2>1. CASE m_read_buf[k + 1] = "cr"
    <3>1. EndsAt = <<k, k + 1>>
      BY <1>3, <2>1 DEF EndsAt, Cell
    <3>2. k + 1 < m_read_idx
      BY <1>1, <1>3, <1>4, <2>1, Indices DEF AtEnd, Cell
    <3>3. k + 1 - 1 = k
      OBVIOUS
    <3> QED
      BY <2>1, <3>1, <3>2, <3>3 DEF LineOk
  <2>2. CASE m_read_buf[k + 1] # "cr"
    <3>1. EndsAt = <<k - 1, k>>
      BY <1>3, <2>2 DEF EndsAt, Cell
    <3> QED
      BY <1>4, <2>2, <3>1 DEF LineOk
  <2> QED
    BY <2>1, <2>2
<1>6. m_checked_idx <= e /\ e - 1 <= k /\ k <= e
  BY <1>4, <1>5, Indices
<1>7. Fed /\ Fed'
  <2>1. Fed
    BY <1>2 DEF Parsing
  <2>2. Len(m_read_buf') = m_read_idx
    BY <1>5, Indices
  <2>3. ASSUME NEW i \in (e + 2)..m_read_idx PROVE m_read_buf'[i] = sent[i]
    <3>1. m_read_buf'[i] = m_read_buf[i]
      BY <1>5, <2>3, Indices
    <3>2. i \in (m_checked_idx + 1)..m_read_idx
      BY <1>6, Indices
    <3> QED
      BY <2>1, <3>1, <3>2 DEF Fed
  <2>4. m_checked_idx' + 1 = e + 2
    BY <1>5
  <2> QED
    BY <1>1, <2>1, <2>2, <2>3, <2>4 DEF Fed, client, m_read_idx
<1>8. ASSUME Scanned, m_start_line = 0 \/ m_read_buf[m_start_line] = "nul"
      PROVE  IsFound(m_read_buf', sent, m_start_line, e + 1)
  <2>1. ASSUME NEW i \in (m_start_line + 1)..k
        PROVE  m_read_buf[i] = sent[i] /\ sent[i] \notin Ends
    <3>1. CASE i <= m_checked_idx
      BY <1>1, <1>8, <2>1, <3>1, Indices DEF Scanned, IsText
    <3>2. CASE i > m_checked_idx
      <4>1. i - 1 \in m_checked_idx..(k - 1) /\ i - 1 + 1 = i
            /\ i \in (m_checked_idx + 1)..m_read_idx
        BY <1>4, <3>2, Indices
      <4> QED
        BY <1>4, <1>7, <4>1 DEF Fed
    <3> QED
      BY <3>1, <3>2, Indices
  <2>2. m_read_buf[k + 1] = "cr"
    <3>1. SUFFICES ASSUME m_read_buf[k + 1] # "cr" PROVE FALSE
      OBVIOUS
    <3>2. k > 1 /\ m_read_buf[k - 1 + 1] = "cr"
      BY <1>1, <1>3, <3>1 DEF IsEnd, Cell
    <3>3. m_read_buf[k] = "cr"
      BY <3>2
    <3>4. CASE k > m_start_line
      BY <2>1, <3>3, <3>4, Indices DEF Ends
    <3>5. CASE k = m_start_line
      BY <1>8, <3>2, <3>3, <3>5
    <3> QED
      BY <1>4, <3>4, <3>5, Indices
  <2>3. e = k + 1 /\ m_read_buf[k + 2] = "lf"
    <3>1. m_read_buf[k + 1 + 1] = "lf"
      BY <1>1, <1>3, <2>2 DEF IsEnd, Cell
    <3> QED
      BY <1>5, <2>2, <3>1
  <2>4. sent[k + 1] = "cr" /\ sent[k + 2] = "lf"
    <3>1. k + 1 \in (m_checked_idx + 1)..m_read_idx
          /\ k + 2 \in (m_checked_idx + 1)..m_read_idx
      BY <1>4, <1>5, <2>3, Indices
    <3> QED
      BY <1>7, <2>2, <2>3, <3>1 DEF Fed
  <2>5. m_read_buf'[k + 1] = "nul" /\ m_read_buf'[k + 2] = "nul"
    BY <1>5, <2>3, Indices
  <2>6. ASSUME NEW i \in (m_start_line + 1)..k PROVE m_read_buf'[i] = m_read_buf[i]
    BY <1>4, <1>5, <2>3, Indices
  <2>7. e + 1 - 2 = k /\ e + 1 - 1 = k + 1 /\ e + 1 = k + 2 /\ k + 2 >= m_start_line + 2
    BY <1>4, <2>3, Indices
  <2> QED
    BY <2>1, <2>4, <2>5, <2>6, <2>7 DEF IsFound, IsText
<1>9. Scanned /\ (m_start_line = 0 \/ m_read_buf[m_start_line] = "nul") => Scanned'
  BY <1>1, <1>5, <1>8 DEF Scanned, client
<1>10. AtHeader => AtHeader'
  <2>1. ASSUME Headed, m_read_buf[m_start_line] = "nul"
        PROVE  m_read_buf'[m_start_line] = "nul"
    <3>1. m_start_line \in 1..m_read_idx
      BY <2>1, Indices DEF Headed
    <3> QED
      BY <1>5, <2>1, <3>1
  <2> QED
    BY <1>1, <1>9, <2>1, StillParsed DEF AtHeader, client, parsed
<1>11. (AtRequestLine => AtRequestLine') /\ (AtContent => AtContent')
  BY <1>1, <1>9, StillParsed DEF AtRequestLine, client, parsed, target
<1> QED
  BY <1>1, <1>2, <1>7, <1>10, <1>11 DEF Follows, Parsing, client

\* get_line() is the line that was found, as it was sent.
LEMMA LineAsSent ==
  ASSUME TypeOK, Fed, IsFound(m_read_buf, sent, m_start_line, m_checked_idx)
  PROVE  /\ get_line = SubSeq(sent, m_start_line + 1, m_checked_idx - 2)
         /\ m_checked_idx \in 1..Len(sent)
         /\ Len(get_line) = m_checked_idx - 2 - m_start_line
         /\ \A i \in 1..(m_checked_idx - 2 - m_start_line) :
              get_line[i] = sent[m_start_line + i]
<1>1. /\ m_checked_idx >= m_start_line + 2
      /\ \A i \in (m_start_line + 1)..(m_checked_idx - 2) : m_read_buf[i] = sent[i]
      /\ m_read_buf[m_checked_idx - 1] = "nul"
  BY DEF IsFound, IsText
<1>2. /\ sent \in Requests /\ sent \in Seq(Cells) /\ Len(sent) \in Nat
      /\ m_checked_idx <= Len(sent)
      /\ \A i \in 1..Len(sent) : sent[i] # "nul"
  <2>1. sent \in Requests /\ m_read_idx + Len(wire) = Len(sent) /\ Len(wire) \in Nat
    BY DEF Fed, TypeOK
  <2> QED
    BY <2>1, RequestCells, Indices
<1>3. PICK n \in Nat : n = m_checked_idx - 2
  BY <1>1, Indices
<1>4. n + 1 \in (m_start_line + 1)..m_checked_idx /\ n + 1 <= m_read_idx
      /\ n <= Len(sent) /\ n >= m_start_line /\ m_checked_idx - 1 = n + 1
  <2>1. /\ m_start_line \in Nat /\ m_checked_idx \in Nat /\ m_read_idx \in Nat
        /\ Len(sent) \in Nat /\ m_checked_idx >= m_start_line + 2
        /\ m_checked_idx <= m_read_idx /\ m_checked_idx <= Len(sent)
    BY <1>1, <1>2, Indices
  <2> QED
    BY <1>3, <2>1
<1>5. n \in Nuls
  BY <1>1, <1>4, Indices DEF Nuls, Cell
<1>6. ASSUME NEW i \in Nuls PROVE n <= i
  <2>1. i \in m_start_line..(m_read_idx - 1) /\ m_read_buf[i + 1] = "nul"
    BY DEF Nuls, Cell
  <2>2. SUFFICES ASSUME i < n PROVE FALSE
    BY <2>1, Indices
  <2>3. i + 1 \in (m_start_line + 1)..n /\ i + 1 \in 1..Len(sent)
    BY <1>4, <2>1, <2>2, <1>2, Indices, SMTT(30)
  <2> QED
    BY <1>1, <1>2, <1>3, <2>1, <2>3
<1>7. Min(Nuls) = n
  <2>1. Nuls \subseteq Nat
    BY Indices DEF Nuls
  <2>2. Min(Nuls) \in Nuls /\ Min(Nuls) <= n
    BY <1>5, <2>1, MinOfNats
  <2>3. PICK m \in Nat : m = Min(Nuls)
    BY <2>1, <2>2
  <2>4. n <= m /\ m <= n
    BY <1>6, <2>2, <2>3
  <2> QED
    BY <2>3, <2>4
<1>8. get_line = SubSeq(m_read_buf, m_start_line + 1, n)
  BY <1>5, <1>7 DEF get_line
<1>9. SubSeq(m_read_buf, m_start_line + 1, n) = SubSeq(sent, m_start_line + 1, n)
  <2>1. /\ m_start_line + 1 \in Nat \ {0} /\ n <= Len(m_read_buf) /\ n <= Len(sent)
        /\ m_read_buf \in Seq(Cells) /\ sent \in Seq(Cells)
    BY <1>2, <1>4, Indices
  <2>2. \A i \in (m_start_line + 1)..n : m_read_buf[i] = sent[i]
    BY <1>1, <1>3
  <2> QED
    BY <2>1, <2>2, SameCells
<1>10. /\ Len(SubSeq(sent, m_start_line + 1, n)) = n - m_start_line
       /\ \A i \in 1..(n - m_start_line) :
            SubSeq(sent, m_start_line + 1, n)[i] = sent[m_start_line + i]
  <2>a. PICK start \in Nat : start = m_start_line
    BY Indices
  <2>b. PICK size \in Nat : size = Len(sent)
    BY <1>2
  <2>c. n >= start /\ n <= size
    BY <1>4, <2>a, <2>b
  <2>1. PICK m \in Int : m = start + 1
    BY <2>a
  <2>2. /\ n \in Int /\ m >= 1 /\ n - m + 1 = n - m_start_line
        /\ (IF m <= n THEN n - m + 1 ELSE 0) = n - m_start_line
    BY <2>a, <2>c, <2>1
  <2>3. \A i \in m..n : sent[i] \in Cells
    <3>1. \A i \in m..n : i \in 1..size
      BY <2>c, <2>1
    <3> QED
      BY <1>2, <2>b, <3>1
  <2>4. /\ Len(SubSeq(sent, m, n)) = n - m_start_line
        /\ \A i \in 1..(n - m_start_line) :
             SubSeq(sent, m, n)[i] = sent[m + i - 1]
    BY <2>2, <2>3, SubSeqProperties
  <2>5. \A i \in 1..(n - m_start_line) : m + i - 1 = m_start_line + i
    BY <2>a, <2>1
  <2> QED
    BY <2>a, <2>1, <2>4, <2>5
<1>11. m_checked_idx \in 1..Len(sent) /\ m_checked_idx - 2 - m_start_line = n - m_start_line
  BY <1>1, <1>2, <1>3, Indices
<1> QED
  BY <1>3, <1>8, <1>9, <1>10, <1>11

LEMMA FollowsRequestLine ==
  ASSUME TypeOK, Follows, parse_request_line PROVE Follows' /\ UrlRight'
<1>1. /\ pc = "line" /\ m_check_state = "requestline"
      /\ m_start_line' = m_checked_idx
      /\ UNCHANGED <<client, m_checked_idx, m_linger, m_content_length>>
  BY DEF parse_request_line, InLine, NextLine
<1>2. sentCount # answered /\ Fed /\ AtRequestLine
  BY <1>1 DEF Follows, Fresh, Answering, Parsing
<1>3. /\ IsFound(m_read_buf, sent, 0, m_checked_idx)
      /\ m_start_line = 0 /\ ~cgi /\ ~m_linger /\ m_content_length = 0
  BY <1>1, <1>2 DEF AtRequestLine, Scanned
<1>4. /\ m_checked_idx \in 1..Len(sent) /\ m_checked_idx >= 2
      /\ Len(get_line) = m_checked_idx - 2
      /\ \A i \in 1..(m_checked_idx - 2) : get_line[i] = sent[i]
  <2>1. m_checked_idx - 2 - 0 = m_checked_idx - 2 /\ \A i \in 1..(m_checked_idx - 2) : 0 + i = i
    BY Indices
  <2> QED
    BY <1>2, <1>3, <2>1, LineAsSent DEF IsFound
<1>5. sent \in Requests
  BY <1>2 DEF Fed
<1>6. /\ GoodLine(sent) <=> /\ m_checked_idx = 5
                            /\ sent[1] \in Starts /\ sent[2] \in DOMAIN Path
                            /\ sent[3] = "version"
      /\ m_checked_idx = 5 => /\ Whole(sent, 5) /\ Names(sent, 5) = {}
                             /\ LengthAt(sent, 5) = 0
  BY <1>3, <1>4, <1>5, FoundRequestLine
<1>7. IsRequestLine <=> GoodLine(sent)
  <2>1. ASSUME m_checked_idx = 5
        PROVE  get_line[1] = sent[1] /\ get_line[2] = sent[2] /\ get_line[3] = sent[3]
               /\ Len(get_line) = 3 /\ get_line # << >>
    <3>1. m_checked_idx - 2 = 3
      BY <2>1
    <3>2. Len(get_line) = 3 /\ \A i \in 1..3 : get_line[i] = sent[i]
      BY <1>4, <3>1
    <3>3. Len(<< >>) = 0
      OBVIOUS
    <3> QED
      BY <3>2, <3>3
  <2>2. Len(get_line) = 3 <=> m_checked_idx = 5
    BY <1>4, Indices
  <2> QED
    BY <1>6, <2>1, <2>2 DEF IsRequestLine, HasMethod, IsLine
<1>10. CASE NullUrl
  <2>1. ~IsRequestLine
    BY <1>10, ReadAssumption DEF NullUrl, IsRequestLine
  <2>2. pc' = "undefined" /\ sent' = sent
    BY <1>10, <2>1 DEF parse_request_line, client
  <2>3. Len(get_line) = 3 /\ get_line[2] \in HostOnly
    BY <1>10 DEF NullUrl
  <2>4. m_checked_idx = 5
    <3>1. Len(get_line) = 3 <=> m_checked_idx = 5
      BY <1>4, Indices
    <3> QED
      BY <2>3, <3>1
  <2>5. sent[2] \in HostOnly /\ Len(sent) > 1
    BY <1>4, <1>5, <2>3, <2>4, RequestCells
  <2> QED
    BY <2>2, <2>5 DEF Follows, Odd, UrlRight
<1>8. CASE ~IsRequestLine /\ ~NullUrl
  <2>1. pc' = "respond" /\ code' = "BAD_REQUEST"
    BY <1>8 DEF parse_request_line, Respond
  <2> QED
    BY <1>1, <1>2, <1>3, <1>7, <1>8, <2>1
       DEF Follows, Answering, UrlRight, client
<1>9. CASE IsRequestLine
  <2>1. /\ GoodLine(sent) /\ m_checked_idx = 5
        /\ get_line[1] = sent[1] /\ get_line[2] = sent[2] /\ HasMethod
    <3>1. GoodLine(sent) /\ m_checked_idx = 5 /\ HasMethod
      BY <1>6, <1>7, <1>9 DEF IsRequestLine
    <3>2. 1 \in 1..(m_checked_idx - 2) /\ 2 \in 1..(m_checked_idx - 2)
      BY <3>1
    <3> QED
      BY <1>4, <3>1, <3>2
  <2>2. /\ pc' = "loop" /\ m_check_state' = "header"
        /\ m_method' = sent[1]
        /\ m_url' = Url(sent)
        /\ \/ m_read_buf' = m_read_buf
           \/ m_read_buf' = Overlay
    BY <1>9, <2>1 DEF parse_request_line, Continue, Url
  <2>3. cgi' = (sent[1] = "post")
    BY <1>3, <2>1 DEF parse_request_line
  <2>4. Target'
    BY <1>1, <2>2, <2>3 DEF Target, client
  <2>5. Headed'
    <3>1. m_start_line' = 5 /\ sent' = sent /\ Names(sent', m_start_line') = {}
          /\ Whole(sent', m_start_line') /\ GoodLine(sent')
      BY <1>1, <1>6, <2>1 DEF client
    <3>2. ~m_linger' /\ m_content_length' = 0
      BY <1>1, <1>3
    <3>3. "keep" \notin Names(sent', m_start_line')
          /\ LengthAt(sent', m_start_line') = 0
      BY <1>6, <2>1, <3>1
    <3> QED
      BY <2>4, <3>1, <3>2, <3>3 DEF Headed
  <2>6. /\ Len(m_read_buf') = m_read_idx /\ m_read_buf'[5] = "nul"
        /\ \A i \in 6..m_read_idx : m_read_buf'[i] = m_read_buf[i]
    <3>1. 5 \in 1..m_read_idx /\ m_read_buf[5] = "nul"
      BY <1>3, <2>1, Indices DEF IsFound
    <3>2. Len(Overlay) = m_read_idx /\ Overlay[5] = "nul"
          /\ \A i \in 6..m_read_idx : Overlay[i] = m_read_buf[i]
      <4>1. Len(Judge) = 3 /\ Judge[3] = "nul"
        BY DEF Judge
      <4>2. Overlay = [i \in 1..m_read_idx |->
                         IF i - 2 \in 1..3 THEN Judge[i - 2] ELSE m_read_buf[i]]
        <5>1. m_start_line + 2 = 2
          BY <1>3
        <5> QED
          BY <4>1, <5>1 DEF Overlay
      <4>3. 5 - 2 = 3 /\ 3 \in 1..3
        OBVIOUS
      <4> QED
        BY <3>1, <4>1, <4>2, <4>3, Indices
    <3> QED
      BY <2>2, <3>1, <3>2, Indices
  <2>7. Fed'
    BY <1>1, <1>2, <2>1, <2>6, Indices DEF Fed, client, m_read_idx
  <2>8. Scanned'
    BY <1>1, <2>1, <2>2 DEF Scanned, IsText
  <2>9. AtHeader'
    BY <1>1, <2>1, <2>5, <2>6, <2>8 DEF AtHeader
  <2> QED
    BY <1>1, <1>2, <2>2, <2>7, <2>9
       DEF Follows, Parsing, AtRequestLine, AtContent, UrlRight, client
<1> QED
  BY <1>8, <1>9, <1>10

LEMMA FollowsHeaders ==
  ASSUME TypeOK, Follows, parse_headers PROVE Follows' /\ UrlRight'
<1>1. /\ pc = "line" /\ pc' = "loop" /\ m_check_state = "header"
      /\ m_start_line' = m_checked_idx /\ get_line # << >>
      /\ UNCHANGED <<client, m_read_buf, m_checked_idx, m_check_state, target>>
  BY DEF parse_headers, InLine, NextLine, Continue
<1>2. sentCount # answered /\ Fed /\ AtHeader
  BY <1>1 DEF Follows, Fresh, Answering, Parsing
<1>3. /\ IsFound(m_read_buf, sent, m_start_line, m_checked_idx)
      /\ Headed /\ sent \in Requests
  BY <1>1, <1>2 DEF AtHeader, Scanned, Fed
<1>4. PICK k \in Nat : k = m_start_line
  BY Indices
<1>5. PICK next \in Nat : next = m_checked_idx
  BY Indices
<1>6. /\ next \in 1..Len(sent) /\ next >= k + 2 /\ Len(get_line) = next - 2 - k
      /\ \A i \in 1..(next - 2 - k) : get_line[i] = sent[k + i]
      /\ get_line \in Seq(Cells)
  <2>1. get_line = SubSeq(sent, k + 1, next - 2) /\ sent \in Seq(Cells)
    BY <1>2, <1>3, <1>4, <1>5, LineAsSent, RequestCells
  <2>2. next - 2 <= Len(sent)
    BY <1>2, <1>3, <1>5, LineAsSent, RequestCells
  <2>3. get_line \in Seq(Cells)
    BY <1>4, <1>5, <2>1, <2>2
  <2> QED
    BY <1>2, <1>3, <1>4, <1>5, <2>3, LineAsSent DEF IsFound
<1>7. next # k + 2 /\ get_line[1] = sent[k + 1]
  <2>1. Len(get_line) # 0
    BY <1>1, <1>6
  <2>2. next # k + 2 /\ 1 \in 1..(next - 2 - k)
    BY <1>6, <2>1
  <2> QED
    BY <1>6, <2>2
<1>8. k >= 5 /\ Whole(sent, k)
  BY <1>3, <1>4 DEF Headed
<1>9. /\ Whole(sent, next) /\ Names(sent, next) = Names(sent, k) \cup {sent[k + 1]}
      /\ sent[k + 1] \in DOMAIN Lengths =>
           LengthAt(sent, next) = Lengths[sent[k + 1]]
      /\ sent[k + 1] \notin DOMAIN Lengths =>
           LengthAt(sent, next) = LengthAt(sent, k)
  BY <1>3, <1>4, <1>5, <1>6, <1>7, <1>8, FoundHeader
<1>10. m_linger' <=> "keep" \in Names(sent, next)
  <2>1. m_linger' <=> (m_linger \/ sent[k + 1] = "keep")
    BY <1>1, <1>7 DEF parse_headers, IsLine
  <2>2. m_linger <=> "keep" \in Names(sent, k)
    BY <1>3, <1>4 DEF Headed
  <2>3. "keep" \in Names(sent, next) <=>
          ("keep" \in Names(sent, k) \/ sent[k + 1] = "keep")
    BY <1>9
  <2> QED
    BY <2>1, <2>2, <2>3
<1>11. m_content_length' = LengthAt(sent, next)
  <2>1. m_content_length' = IF sent[k + 1] \in DOMAIN Lengths
                            THEN Lengths[sent[k + 1]] ELSE m_content_length
    BY <1>1, <1>7 DEF parse_headers, IsLine
  <2>2. m_content_length = LengthAt(sent, k)
    BY <1>3, <1>4 DEF Headed
  <2> QED
    BY <1>9, <2>1, <2>2
<1>12. Headed'
  <2>1. GoodLine(sent') /\ Target'
    BY <1>1, <1>3 DEF Headed, Target, target, client
  <2>2. m_start_line' = next /\ next >= 5 /\ sent' = sent
    BY <1>1, <1>5, <1>6, <1>8 DEF client
  <2> QED
    BY <1>9, <1>10, <1>11, <2>1, <2>2 DEF Headed
<1>13. Fed'
  BY <1>1, <1>2 DEF Fed, client, m_read_idx
<1>14. Scanned'
  BY <1>1, Indices DEF Scanned, IsText
<1>15. AtHeader'
  BY <1>1, <1>3, <1>12, <1>14 DEF AtHeader, IsFound
<1> QED
  BY <1>1, <1>2, <1>13, <1>15
     DEF Follows, Parsing, AtRequestLine, AtContent, UrlRight, client

LEMMA FollowsEndOfHeaders ==
  ASSUME \A r \in Requests : NothingFollows(r),
         TypeOK, Follows, EndOfHeaders
  PROVE  Follows' /\ UrlRight'
<1>1. /\ pc = "line" /\ m_check_state = "header"
      /\ m_start_line' = m_checked_idx /\ get_line = << >>
      /\ UNCHANGED <<client, m_read_buf, m_checked_idx, target, m_linger,
                     m_content_length, m_string>>
  BY DEF EndOfHeaders, InLine, NextLine
<1>2. sentCount # answered /\ Fed /\ AtHeader
  BY <1>1 DEF Follows, Fresh, Answering, Parsing
<1>3. /\ IsFound(m_read_buf, sent, m_start_line, m_checked_idx)
      /\ Headed /\ sent \in Requests
  BY <1>1, <1>2 DEF AtHeader, Scanned, Fed
<1>4. PICK k \in Nat : k = m_start_line
  BY Indices
<1>5. m_checked_idx = k + 2 /\ k + 2 <= Len(sent) /\ Len(sent) \in Nat
  <2>1. Len(get_line) = m_checked_idx - 2 - k /\ m_checked_idx \in 1..Len(sent)
    BY <1>2, <1>3, <1>4, LineAsSent
  <2>2. Len(get_line) = 0
    BY <1>1
  <2> QED
    BY <1>3, <1>4, <2>1, <2>2, Indices, RequestCells
<1>6. k >= 5 /\ Whole(sent, k)
  BY <1>3, <1>4 DEF Headed
<1>7. /\ HeadersEnds(sent) # {} /\ HeadersEnd(sent) = k + 2 /\ Regular(sent)
      /\ Headers(sent) = Names(sent, k) \cup {"cr"}
      /\ ContentSize(sent) = LengthAt(sent, k)
  BY <1>3, <1>4, <1>5, <1>6, FoundEnd
<1>8. GoodLine(sent) /\ Target
  BY <1>3 DEF Headed
<1>9. /\ m_linger <=> "keep" \in Headers(sent)
      /\ m_content_length = ContentSize(sent)
  <2>1. /\ m_linger <=> "keep" \in Names(sent, k)
        /\ m_content_length = LengthAt(sent, k)
    BY <1>3, <1>4 DEF Headed
  <2>2. "keep" \in Headers(sent) <=> "keep" \in Names(sent, k)
    BY <1>7
  <2> QED
    BY <1>7, <2>1, <2>2
<1>10. Target'
  BY <1>1, <1>8 DEF Target, target, client
<1>11. CASE m_content_length # 0
  <2>1. /\ pc' = "loop" /\ m_check_state' = "content" /\ sent' = sent
        /\ m_linger' = m_linger /\ m_content_length' = m_content_length
    BY <1>1, <1>11 DEF EndOfHeaders, Continue, client
  <2>2. Fed'
    BY <1>1, <1>2 DEF Fed, client, m_read_idx
  <2>4. m_start_line' >= HeadersEnd(sent')
    BY <1>1, <1>5, <1>7, <2>1
  <2>5. AtContent'
    BY <1>7, <1>8, <1>9, <1>10, <1>11, <2>1, <2>4 DEF AtContent
  <2> QED
    BY <1>1, <1>2, <2>1, <2>2, <2>5
       DEF Follows, Parsing, AtRequestLine, AtHeader, UrlRight, client
<1>12. CASE m_content_length = 0
  <2>1. pc' = "respond" /\ code' = "GET_REQUEST"
    BY <1>12 DEF EndOfHeaders, Respond
  <2>2. Len(sent) = k + 2 /\ Len(wire) = 0
    <3>1. Len(sent) <= k + 2
      <4>1. HeadersEnd(sent) = k + 2 /\ ContentSize(sent) = 0
        BY <1>7, <1>9, <1>12
      <4>2. \/ Len(sent) <= HeadersEnd(sent)
            \/ Len(sent) <= HeadersEnd(sent) + ContentSize(sent)
        BY <1>3, <1>7, <1>8 DEF NothingFollows
      <4> QED
        BY <4>1, <4>2
    <3>2. /\ m_read_idx + Len(wire) = Len(sent) /\ Len(wire) \in Nat
          /\ k + 2 <= m_read_idx /\ m_read_idx \in Nat
      BY <1>2, <1>5, Indices DEF Fed, TypeOK
    <3> QED
      BY <1>5, <3>1, <3>2
  <2>3. wire = << >> /\ WellFormed(sent)
    <3>1. wire \in Seq(Cells)
      BY DEF TypeOK
    <3>2. wire = << >>
      BY <2>2, <3>1, EmptySeq
    <3> QED
      BY <1>7, <1>8, <1>9, <1>12, <2>2, <3>2 DEF WellFormed
  <2>4. Answering'
    BY <1>1, <1>7, <1>8, <1>9, <1>10, <1>12, <2>1, <2>3
       DEF Answering, Target, client
  <2> QED
    BY <1>1, <1>2, <1>10, <2>4 DEF Follows, UrlRight, Target, client
<1> QED
  BY <1>11, <1>12

\* What the parser knows in the content.
LEMMA Content ==
  ASSUME TypeOK, Follows, ContentTurn
  PROVE  /\ pc \in {"loop", "line"} /\ m_check_state = "content"
         /\ sentCount # answered /\ Fed /\ AtContent /\ sent \in Requests
         /\ HeadersEnd(sent) \in Nat /\ HeadersEnd(sent) >= 4
         /\ Len(sent) \in Nat /\ ContentSize(sent) \in Int
<1>1. pc \in {"loop", "line"} /\ m_check_state = "content"
  BY DEF ContentTurn, InContent, InLine
<1>2. sentCount # answered /\ Fed /\ AtContent /\ sent \in Requests
  BY <1>1 DEF Follows, Fresh, Answering, Parsing, Fed
<1>3. HeadersEnds(sent) # {} /\ Len(sent) \in Nat
  BY <1>1, <1>2, RequestCells DEF AtContent
<1>4. HeadersEnds(sent) \subseteq Nat /\ HeadersEnds(sent) \subseteq 4..Len(sent)
  BY <1>3 DEF HeadersEnds
<1>5. HeadersEnd(sent) \in 4..Len(sent)
  BY <1>3, <1>4, MinOfNats DEF HeadersEnd
<1>6. ContentSize(sent) \in Int
  BY <1>1, <1>2 DEF AtContent, TypeOK
<1> QED
  BY <1>1, <1>2, <1>3, <1>5, <1>6

LEMMA FollowsOutside ==
  ASSUME TypeOK, Follows, ContentOutside PROVE Follows' /\ UrlRight'
<1>1. ContentTurn /\ pc' = "undefined" /\ sent' = sent
  BY DEF ContentOutside, client
<1>2. /\ HeadersEnds(sent) # {} /\ m_content_length = ContentSize(sent)
      /\ m_start_line >= HeadersEnd(sent) /\ HeadersEnd(sent) >= 4
      /\ HeadersEnd(sent) \in Nat /\ m_content_length \in Int
  BY <1>1, Content DEF AtContent
<1>3. m_checked_idx <= READ_BUFFER_SIZE /\ READ_BUFFER_SIZE \in Nat /\ INT_MAX \in Nat
  BY Indices, ReadAssumption DEF TypeOK
<1>4. m_content_length \notin 0..(INT_MAX - READ_BUFFER_SIZE)
  <2>1. CASE m_content_length + m_checked_idx > INT_MAX
    BY <1>2, <1>3, <2>1, Indices
  <2>2. CASE m_start_line + m_content_length <= 1
    BY <1>2, <2>2, Indices
  <2> QED
    BY <1>2, <1>3, <2>1, <2>2, Indices DEF ContentOutside, InRange, NulAt
<1> QED
  BY <1>1, <1>2, <1>4 DEF Follows, Odd, UrlRight

LEMMA FollowsContent ==
  ASSUME \A r \in Requests : NothingFollows(r),
         TypeOK, Follows, parse_content
  PROVE  Follows' /\ UrlRight'
<1>1. /\ ContentTurn /\ m_start_line' = m_checked_idx
      /\ UNCHANGED <<client, m_checked_idx, m_check_state, m_method, cgi, m_linger,
                     m_content_length>>
  BY DEF parse_content, NextLine
<1>2. /\ pc \in {"loop", "line"} /\ m_check_state = "content"
      /\ sentCount # answered /\ Fed /\ AtContent
  BY <1>1, Content
<1>3. /\ GoodLine(sent) /\ Target
      /\ HeadersEnds(sent) # {} /\ Regular(sent)
      /\ m_start_line >= HeadersEnd(sent)
      /\ (m_linger <=> "keep" \in Headers(sent))
      /\ m_content_length = ContentSize(sent) /\ m_content_length # 0
      /\ sent \in Requests
  BY <1>2 DEF AtContent, Fed
<1>4. PICK h \in Nat : h = HeadersEnd(sent) /\ h >= 4
  BY <1>1, Content
<1>5. PICK size \in Int : size = ContentSize(sent)
  BY <1>1, Content
<1>6. CASE ~Complete
  <2>1. pc' = "loop" /\ UNCHANGED <<m_read_buf, m_url>>
    BY <1>6 DEF parse_content, Continue
  <2>2. Fed'
    BY <1>1, <1>2, <2>1 DEF Fed, client, m_read_idx
  <2>3. m_start_line' >= HeadersEnd(sent) /\ Target'
    BY <1>1, <1>3, <1>4, <2>1, Indices DEF Target, client
  <2>4. AtContent'
    BY <1>1, <1>2, <1>3, <2>3 DEF AtContent, client
  <2> QED
    BY <1>1, <1>2, <2>1, <2>2, <2>4
       DEF Follows, Parsing, AtRequestLine, AtHeader, UrlRight, client
<1>7. CASE Complete
  <2>1. /\ pc' = "respond" /\ code' = "GET_REQUEST" /\ m_string' = m_start_line
        /\ m_read_buf' = TextEnded
        /\ m_url' \in IF NulAt \in UrlCells THEN Urls ELSE {m_url}
    BY <1>7 DEF parse_content, HandOn, Respond
  <2>2. /\ m_read_idx + Len(wire) = Len(sent) /\ Len(wire) \in Nat
        /\ m_read_idx >= size + m_checked_idx /\ m_start_line >= h
        /\ Len(sent) <= h \/ Len(sent) <= h + size
        /\ size # 0
    <3>1. Len(sent) <= h \/ Len(sent) <= h + size
      BY <1>3, <1>4, <1>5 DEF NothingFollows
    <3> QED
      BY <1>2, <1>3, <1>4, <1>5, <1>7, <3>1 DEF Fed, Complete, TypeOK
  <2>3. PICK len \in Nat : len = Len(sent)
    BY <1>1, Content
  <2>4. PICK rest \in Nat : rest = Len(wire)
    BY <2>2
  <2>5. /\ rest = 0
        /\ size > 0 => /\ m_start_line = h /\ len = h + size /\ m_read_idx = len
                       /\ m_checked_idx = h
    BY <1>4, <1>5, <2>2, <2>3, <2>4, Indices
  <2>6. wire = << >>
    <3>1. wire \in Seq(Cells)
      BY DEF TypeOK
    <3> QED
      BY <2>4, <2>5, <3>1, EmptySeq
  <2>7. size >= 0 => WellFormed(sent)
    BY <1>3, <1>4, <1>5, <2>2, <2>3, <2>5 DEF WellFormed
  <2>8. ASSUME size > 0
        PROVE  /\ m_string' = h /\ m_read_idx' = len /\ m_url' = m_url
               /\ \A i \in (h + 1)..len : m_read_buf'[i] = sent[i]
    <3>1. NulAt = len /\ NulAt > 3
      BY <1>3, <1>4, <1>5, <2>5, <2>8 DEF NulAt
    <3>2. NulAt \notin UrlCells
      BY <2>3, <3>1 DEF UrlCells, Judge
    <3>3. m_read_idx' = m_read_idx
      BY <2>1, Indices DEF TextEnded, m_read_idx
    <3>4. ASSUME NEW i \in (h + 1)..len PROVE m_read_buf'[i] = sent[i]
      <4>1. i \in 1..m_read_idx /\ i # NulAt + 1
        BY <1>4, <2>3, <2>5, <2>8, <3>1
      <4>2. m_read_buf[i] = sent[i]
        BY <1>2, <2>5, <2>8 DEF Fed
      <4> QED
        BY <2>1, <4>1, <4>2 DEF TextEnded
    <3> QED
      BY <2>1, <2>5, <2>8, <3>2, <3>3, <3>4
  <2>9. Answering'
    BY <1>1, <1>3, <1>4, <1>5, <2>1, <2>3, <2>6, <2>7, <2>8
       DEF Answering, Target, client
  <2>10. UrlRight'
    BY <1>1, <1>3, <1>5, <2>2, <2>8 DEF UrlRight, Target, client
  <2> QED
    BY <1>1, <1>2, <2>9, <2>10 DEF Follows, client
<1> QED
  BY <1>6, <1>7

\* Follows is inductive for the steps of HttpRead and for those that HttpConn
\* adds, when no request is followed by more than it announces.
LEMMA FollowsStep ==
  ASSUME \A r \in Requests : NothingFollows(r)
  PROVE  TypeOK /\ Follows /\ [Step]_vars => Follows'
<1> SUFFICES ASSUME TypeOK, Follows, [Step]_vars PROVE Follows'
  OBVIOUS
<1>1. ASSUME NEW r \in Requests, Send(r) PROVE Follows'
  BY <1>1, FollowsSend
<1>2. CASE \E n \in 1..READ_BUFFER_SIZE : Receive(n)
  BY <1>2, FollowsReceive
<1>3. CASE ReadFull \/ AnswerClose \/ Close
  BY <1>3 DEF ReadFull, AnswerClose, Close, Follows
<1>4. CASE process_read
  BY <1>4, FollowsNoLine, FollowsLineOk, FollowsRequestLine, FollowsHeaders,
     FollowsEndOfHeaders, FollowsContent, FollowsOutside DEF process_read
<1>5. CASE AnswerKeep
  <2>1. wire = << >>
    BY <1>5 DEF AnswerKeep, Follows, Fresh, Parsing, Answering
  <2> QED
    BY <1>5, <2>1 DEF AnswerKeep, Reset, Follows, Fresh
<1>6. CASE NewConnection
  BY <1>6 DEF NewConnection, Reset, Follows, Fresh
<1>7. CASE UNCHANGED vars
  <2>1. Fresh => Fresh'
    BY <1>7 DEF vars, Fresh, client, index, parsed, target
  <2>2. Answering => Answering'
    BY <1>7 DEF vars, Answering, client, parsed, target, m_read_idx
  <2>3. Parsing => Parsing'
    <3>1. Fed => Fed'
      BY <1>7 DEF vars, Fed, client, index, m_read_idx
    <3>2. Scanned => Scanned'
      BY <1>7 DEF vars, Scanned, client, index
    <3>3. (AtContent => AtContent') /\ (AtHeader => AtHeader')
      BY <1>7, <3>2, StillParsed DEF vars, AtHeader, client, index, parsed
    <3>4. AtRequestLine => AtRequestLine'
      BY <1>7, <3>2 DEF vars, AtRequestLine, index, parsed, target
    <3> QED
      BY <1>7, <3>1, <3>3, <3>4 DEF vars, Parsing
  <2> QED
    BY <1>7, <2>1, <2>2, <2>3 DEF vars, Follows, client
<1> QED
  BY <1>1, <1>2, <1>3, <1>4, <1>5, <1>6, <1>7 DEF Step, Next, read_once, Answer

LEMMA UrlStep ==
  ASSUME \A r \in Requests : NothingFollows(r)
  PROVE  TypeOK /\ Follows /\ UrlRight /\ [Step]_vars => UrlRight'
<1> SUFFICES ASSUME TypeOK, Follows, UrlRight, [Step]_vars PROVE UrlRight'
  OBVIOUS
<1>1. CASE \/ parse_request_line \/ parse_headers \/ EndOfHeaders
           \/ parse_content \/ ContentOutside
  BY <1>1, FollowsRequestLine, FollowsHeaders, FollowsEndOfHeaders,
     FollowsContent, FollowsOutside
<1>2. CASE UNCHANGED vars
  BY <1>2 DEF vars, UrlRight, client, parsed, target
<1>3. ASSUME pc' # "respond" PROVE UrlRight'
  BY <1>3 DEF UrlRight
<1> QED
  BY <1>1, <1>2, <1>3 DEF Step, Next, Send, read_once, Receive, ReadFull,
     process_read, LineOpen, LineBad, LineOk, Answer, AnswerKeep, AnswerClose,
     Close, NewConnection

\* For a client that waits for each answer, what the parser hands on is what
\* the request says, in whatever pieces it came and whatever is in it: the
\* method, the URL, whether the connection is kept and the whole body, once
\* the last byte is there; it refuses a request line just when it is bad, and
\* leaves defined behaviour only on a host without a path or a length that is
\* negative or at the end of int.
THEOREM ParsesRight ==
  ASSUME \A r \in Requests : NothingFollows(r)
  PROVE  Spec => []AnswerMatches
<1>1. [Next]_vars => [Step]_vars
  BY DEF Step
<1>2. TypeOK /\ Follows /\ UrlRight => AnswerMatches
  <2> SUFFICES ASSUME TypeOK, Follows, UrlRight PROVE AnswerMatches
    OBVIOUS
  <2>1. pc = "undefined" => Odd(sent)
    BY DEF Follows, Fresh, Parsing, Answering
  <2>2. CASE pc = "respond"
    <3>1. Answering
      BY <2>2 DEF Follows, Fresh, Parsing
    <3>2. m_linger \in BOOLEAN
      BY DEF TypeOK
    <3>3. code # "BAD_REQUEST" => m_linger = ("keep" \in Headers(sent))
      BY <3>1, <3>2 DEF Answering
    <3> QED
      BY <2>1, <2>2, <3>1, <3>3 DEF Answering, AnswerMatches, UrlRight
  <2> QED
    BY <2>1, <2>2 DEF AnswerMatches
<1> QED
  BY <1>1, <1>2, TypeInit, TypeStep, FollowsInit, FollowsStep, UrlStep, PTL DEF Spec

=============================================================================
