------------------------------ MODULE HttpConn ------------------------------
(***************************************************************************)
(* One http_conn object from request to response, over the connections it  *)
(* serves one after the other: HttpRead reads and parses, do_request       *)
(* chooses the file, HttpWrite answers, and init() prepares both halves    *)
(* for the next request.  They share m_linger.                             *)
(*                                                                         *)
(* A timer does not fire while a worker is in process() (Server has that). *)
(* Whether a login or a registration succeeds is left open (Accounts).     *)
(***************************************************************************)
EXTENDS Integers, Sequences, TLC

CONSTANTS
  Path, HostOnly, Lengths, Requests, READ_BUFFER_SIZE, INT_MAX,
  MaxSent,        \* see HttpRead
  AccountSize,    \* a name or password this long fits everywhere it is copied
  HeadSizes,      \* see HttpWrite
  Flag,           \* the character behind the last slash of each URL or page
  Size,           \* st_size of the files that can be read
  Unreadable      \* the files that others must not read, and the directories

\* The pages that stand for a number, and the results of a login and of a
\* registration.
Pages ==
  "0" :> "register" @@ "1" :> "log" @@ "5" :> "picture" @@ "6" :> "video"
  @@ "7" :> "fans"

Results ==
  [c \in {"2", "3"} |-> IF c = "2" THEN {"welcome", "logError"}
                        ELSE {"log", "registerError"}]

ResultPages == UNION {Results[c] : c \in DOMAIN Results}

FileSizes    == {Size[f] : f \in DOMAIN Size}
MaxResponses == MaxSent

VARIABLES
  reading, input, sent, sentCount, answered, cut, m_read_buf, m_checked_idx,
  m_start_line, m_check_state, m_method, cgi, m_url, m_content_length,
  m_string, line_status, code,
  m_linger,
  writing, m_iv, m_iv_count, m_write_idx, bytes_to_send, bytes_have_send,
  m_file_address, mapped, answer, output, responses, pieces, dropped,
  m_real_file     \* the file that do_request chose

R == INSTANCE HttpRead WITH pc <- reading, wire <- input
W == INSTANCE HttpWrite WITH pc <- writing, wire <- output

ASSUME RequestsAssumption == R!ReadAssumption

\* The names of the results begin with a letter.
ASSUME ConnAssumption ==
  /\ AccountSize \in Nat
  /\ HeadSizes \subseteq Nat \ {0}
  /\ \A f \in DOMAIN Size : Size[f] \in Nat
  /\ R!Urls \cup ResultPages \subseteq DOMAIN Flag
  /\ \A f \in ResultPages : Flag[f] \notin DOMAIN Pages
  /\ Unreadable \cap DOMAIN Size = {}

\* What only the one half changes.
readHalf ==
  <<reading, input, sent, sentCount, answered, cut, m_read_buf, m_checked_idx,
    m_start_line, m_check_state, m_method, cgi, m_content_length, m_string,
    line_status, code>>
writeHalf ==
  <<writing, m_iv, m_iv_count, m_write_idx, bytes_to_send, bytes_have_send,
    m_file_address, mapped, answer, output, responses, pieces, dropped>>
vars == <<readHalf, m_url, m_linger, writeHalf, m_real_file>>

Init == R!Init /\ W!Init /\ m_real_file = "none"

-----------------------------------------------------------------------------
(***************************************************************************)
(* do_request (http_conn.cpp:463-607)                                      *)
(***************************************************************************)
\* A POST to a login or a registration.
IsAccount(posted, url) == posted /\ Flag[url] \in DOMAIN Results

(***************************************************************************)
(* Lines 494-503 read the name and the password in the text from at on,    *)
(* whose first cell is "user=", and copy them into two arrays.  The first  *)
(* loop ends at a '&' and not at a NUL, the second one at a NUL.           *)
(***************************************************************************)
Amps(text, at) == {i \in (at + 2)..Len(text) : text[i] = "amp"}

PasswordEnds(text, amp) ==
  {i \in (amp + 1)..Len(text) : text[i] = "nul"} \cup {Len(text) + 1}

HasAccount(text, at) ==
  /\ at >= 0
  /\ \E amp \in Amps(text, at) :
       /\ amp <= at + 2 + AccountSize
       /\ \A i \in Amps(text, at) : amp <= i
       /\ \E end \in PasswordEnds(text, amp) : end <= amp + 1 + AccountSize

Scans == IsAccount(cgi, m_url) => HasAccount(m_read_buf, m_string)

\* m_url is replaced by the result, and the tests that follow read the new
\* text, in which no digit is.
NewUrl ==
  IF IsAccount(cgi, m_url) THEN Results[Flag[m_url]] ELSE {m_url}

RealFile(url) ==
  IF Flag[url] \in DOMAIN Pages THEN Pages[Flag[url]] ELSE url

\* stat(), and the response that process_write has for its outcome.
Serve(file) ==
  \/ file \in Unreadable /\ \E head \in HeadSizes : W!RespondPage(head)
  \/ /\ file \in DOMAIN Size
     /\ \/ Size[file] > 0
           /\ \E head \in HeadSizes : W!RespondFile(head, Size[file])
        \/ Size[file] = 0 /\ \E head \in HeadSizes : W!NoContent(head)
  \/ file \notin DOMAIN Size \cup Unreadable /\ W!NoAnswer

InProcess == reading = "respond" /\ writing = "wait"

do_request ==
  /\ InProcess
  /\ Scans
  /\ m_url' \in NewUrl
  /\ m_real_file' = RealFile(m_url')
  /\ Serve(m_real_file')

\* The worker has parsed a request.  Without an answer it closes.
Process ==
  /\ \/ code = "GET_REQUEST" /\ do_request
     \/ /\ InProcess /\ code = "BAD_REQUEST"
        /\ \E head \in HeadSizes : W!RespondPage(head)
        /\ UNCHANGED <<m_url, m_real_file>>
  /\ reading' = IF writing' = "closed" THEN "closed" ELSE reading
  /\ UNCHANGED <<input, sent, sentCount, answered, cut, m_read_buf,
                 m_checked_idx, m_start_line, m_check_state, m_method, cgi,
                 m_content_length, m_string, line_status, code, m_linger>>

\* There is no '&' to find, or there is more text than the arrays hold: the
\* worker reads or writes where there is nothing of its own.
RunsOff ==
  /\ InProcess /\ code = "GET_REQUEST"
  /\ ~Scans
  /\ reading' = "undefined"
  /\ UNCHANGED <<input, sent, sentCount, answered, cut, m_read_buf,
                 m_checked_idx, m_start_line, m_check_state, m_method, cgi,
                 m_content_length, m_string, line_status, code, m_url, m_linger,
                 writeHalf, m_real_file>>

-----------------------------------------------------------------------------
(***************************************************************************)
(* The two halves in turn                                                  *)
(***************************************************************************)
Send == \E r \in Requests : R!Send(r)

Receive == \E n \in 1..READ_BUFFER_SIZE : R!Receive(n)

Read ==
  /\ writing = "wait"
  /\ Send \/ Receive \/ R!process_read
  /\ UNCHANGED <<writeHalf, m_real_file>>

Write ==
  /\ \/ W!Writable \/ W!WriteAgain
     \/ \E n \in 0..Len(W!Pending) : W!WritePart(n)
  /\ UNCHANGED <<readHalf, m_url, m_real_file>>

\* init() empties m_real_file, too.
WriteLast ==
  \E n \in 0..Len(W!Pending) :
    \/ W!WriteLastKeep(n) /\ R!AnswerKeep /\ m_real_file' = "none"
    \/ W!WriteLastClose(n) /\ R!AnswerClose /\ UNCHANGED m_real_file

\* read_once finds the buffer full, writev fails, the peer hangs up, or the
\* timer fires.
CloseEarly ==
  /\ \/ R!ReadFull /\ W!CloseEarly
     \/ R!Close /\ reading = "wait" /\ W!CloseEarly
     \/ R!Close /\ writing = "armed" /\ W!CloseEarly
     \/ R!Close /\ W!WriteError
  /\ UNCHANGED m_real_file

NewConnection ==
  R!NewConnection /\ W!NewConnection /\ m_real_file' = "none"

\* Nothing is said of what comes then; this is no deadlock.
Undefined == reading = "undefined" /\ UNCHANGED vars

Next ==
  \/ Read \/ Process \/ RunsOff \/ Write \/ WriteLast \/ CloseEarly
  \/ NewConnection \/ Undefined

Spec == Init /\ [][Next]_vars

\* What was sent arrives, the worker runs on, and the socket is writable again
\* and again and takes some bytes, as long as the peer reads.
FairSpec ==
  /\ Spec
  /\ WF_vars(Receive /\ UNCHANGED <<writeHalf, m_real_file>>)
  /\ WF_vars(R!process_read /\ UNCHANGED <<writeHalf, m_real_file>>)
  /\ WF_vars(Process \/ RunsOff)
  /\ WF_vars(W!Writable /\ UNCHANGED <<readHalf, m_url, m_real_file>>)
  /\ SF_vars((Write \/ WriteLast) /\ output' # output)

-----------------------------------------------------------------------------
\* The two halves are closed together, and a response is under way only while
\* the reading half waits for it.
TypeOK ==
  /\ W!TypeOK
  /\ (writing = "closed") = (reading = "closed")
  /\ W!Busy => reading = "respond"
  /\ m_real_file \in {"none"} \cup R!Urls \cup {Pages[c] : c \in DOMAIN Pages}
                     \cup ResultPages

SendsInOrder      == W!SendsInOrder
MappingsAccounted == W!MappingsAccounted

\* What a request asks for, as the pages of root/ use it: a number of a page,
\* "/" for judge.html, a login or a registration by POST, or a file.
Asked(r) ==
  LET url == R!Url(r) IN
  IF r[1] = "post" /\ Flag[url] = "2" THEN {"welcome", "logError"}
  ELSE IF r[1] = "post" /\ Flag[url] = "3" THEN {"log", "registerError"}
  ELSE IF Flag[url] \in DOMAIN Pages THEN {Pages[Flag[url]]}
  ELSE {url}

\* The requests that no correct server could answer either, but this one is
\* lost on: see R!Odd, and a login or a registration without an account.
NoAccount(r) ==
  /\ R!GoodLine(r) /\ R!HeadersEnds(r) # {}
  /\ IsAccount(r[1] = "post", R!Url(r)) /\ ~HasAccount(r, R!HeadersEnd(r))

Losing(r) == R!Odd(r) \/ NoAccount(r)

\* The response in the object is the one to the request that the client sent
\* last on this connection, however it came in and whatever the object served
\* before: the file asked for and nothing else of it, or an error page; only a
\* length below zero can have another file chosen.  And the program is lost on
\* no request but those of Losing, though neither the constructor nor init()
\* sets m_string.
AnswersAsked ==
  /\ W!Busy =>
       IF R!GoodLine(sent)
       THEN /\ R!ContentSize(sent) >= 0 => m_real_file \in Asked(sent)
            /\ answer[2] = (IF m_real_file \in DOMAIN Size
                            THEN Size[m_real_file] ELSE 0)
       ELSE m_real_file = "none" /\ answer[2] = 0
  /\ reading = "undefined" => Losing(sent)

Lost == reading = "undefined"

Phase ==
  IF reading = "closed" \/ Lost THEN "closed"
  ELSE IF writing # "wait" THEN "reply"
  ELSE IF reading = "wait" THEN "idle" ELSE "work"

Cycle == INSTANCE ConnectionCycle WITH
  Objects <- {1}, Refusing <- TRUE, phase <- <<Phase>>, stopped <- Lost

\* One object goes through the cycle that Server keeps all of them in: reading
\* and writing take turns, and a worker comes back from every request, whole,
\* in pieces or broken, unless the program is lost on it: that ends the cycle
\* as the end of the process does, and AnswersAsked says on which requests.
IsConnectionCycle == Cycle!CSpec

\* A request that came in whole is answered in the end, or the connection is
\* closed; nobody waits for the other for ever.  Except for the two ways of
\* stopping halfway, a body that came in pieces and a text that goes out in
\* more than two, and for the requests that the program is lost on.
Completes ==
  \A k \in 1..MaxSent :
    (sentCount = k /\ R!WellFormed(sent) /\ ~Losing(sent)) ~>
      (answered >= k \/ reading = "closed" \/ cut \/ pieces > 1)

=============================================================================
