----------------------------- MODULE HttpWrite -----------------------------
(***************************************************************************)
(* http/http_conn.cpp, the output half of one http_conn object: a worker   *)
(* maps the file and builds the response (do_request, process_write), main *)
(* writes it when the socket has room (write), in as many parts as the     *)
(* socket takes.  The object serves one connection after the other.        *)
(*                                                                         *)
(* Only sizes and positions count.  A byte of a response is its place: the *)
(* i-th byte of m_write_buf or of the file that was mapped for a response. *)
(* HttpConn says which response a request gets, and when.                  *)
(***************************************************************************)
EXTENDS Integers, Sequences, FiniteSets

CONSTANTS
  HeadSizes,      \* how long the text in m_write_buf may be
  FileSizes,      \* st_size of the files there are
  MaxResponses    \* bound: how many requests are processed

VARIABLES
  pc,               \* "wait" for a request, "armed" for output, "writing",
                    \* "closed"
  m_iv, m_iv_count, m_write_idx,
  bytes_to_send, bytes_have_send,
  m_linger,
  m_file_address,   \* the mapping it points to, 0 for NULL, -1 for an address
                    \* that none has: MAP_FAILED, or what was left in memory
                    \* before the object's first file
  mapped,           \* the mappings that exist
  answer,           \* of the last response: the sizes of the text and the file
  wire,             \* the bytes of the response that were sent
  responses,        \* how many requests were processed
  pieces,           \* how many writev calls ended within m_write_buf's text,
                    \* 2 for more than one
  dropped           \* how many responses were cut off by closing the connection

counts == <<bytes_to_send, bytes_have_send>>
output == <<m_iv, m_iv_count, m_write_idx, m_linger>>
ghosts == <<wire, responses, pieces, dropped>>
vars   == <<pc, output, counts, m_file_address, mapped, answer, ghosts>>

Part(area, at, len) == [area |-> area, at |-> at, len |-> len]
Buf       == <<"buf", 0>>
File(map) == <<"file", map>>

Init ==
  /\ pc = "wait"
  /\ m_iv = <<Part(Buf, 0, 0), Part(Buf, 0, 0)>> /\ m_iv_count = 0 /\ m_write_idx = 0
  /\ bytes_to_send = 0 /\ bytes_have_send = 0
  /\ m_linger = FALSE
  /\ m_file_address = -1 /\ mapped = {}
  /\ answer = <<0, 0>> /\ wire = << >>
  /\ responses = 0 /\ pieces = 0 /\ dropped = 0

\* http_conn::init().  m_iv and m_file_address stay as they are.
Reset ==
  /\ bytes_to_send' = 0 /\ bytes_have_send' = 0
  /\ m_write_idx' = 0 /\ m_linger' = FALSE
  /\ UNCHANGED m_iv_count

-----------------------------------------------------------------------------
(***************************************************************************)
(* process(): the codes that process_write has an answer for               *)
(***************************************************************************)
Process(head, size) ==
  /\ pc = "wait"
  /\ responses < MaxResponses
  /\ responses' = responses + 1
  /\ answer' = <<head, size>>
  /\ wire' = << >> /\ pieces' = 0
  /\ UNCHANGED <<bytes_have_send, dropped>>

\* The text of process_write, with the content of an error page, is in
\* m_write_buf.
Ready(head, size) ==
  /\ m_write_idx' = head
  /\ bytes_to_send' = head + size
  /\ pc' = "armed"
  /\ UNCHANGED m_linger

\* INTERNAL_ERROR, BAD_REQUEST, FORBIDDEN_REQUEST.
RespondPage(head) ==
  /\ Process(head, 0)
  /\ Ready(head, 0)
  /\ m_iv' = [m_iv EXCEPT ![1] = Part(Buf, 0, head)]
  /\ m_iv_count' = 1
  /\ UNCHANGED <<m_file_address, mapped>>

\* FILE_REQUEST: do_request has mapped the file, whatever m_file_address was.
RespondFile(head, size) ==
  /\ Process(head, size)
  /\ Ready(head, size)
  /\ m_file_address' = responses + 1
  /\ mapped' = mapped \cup {responses + 1}
  /\ m_iv' = <<Part(Buf, 0, head), Part(File(m_file_address'), 0, size)>>
  /\ m_iv_count' = 2

\* NO_RESOURCE: process_write has no case for it and the connection is closed
\* without a response.
NoAnswer ==
  /\ Process(0, 0)
  /\ pc' = "closed"
  /\ UNCHANGED <<output, bytes_to_send, m_file_address, mapped>>

\* FILE_REQUEST for an empty file: mmap refuses it, and process_write writes
\* the text and runs on into its default case.
NoContent(head) ==
  /\ Process(0, 0)
  /\ pc' = "closed"
  /\ m_file_address' = -1
  /\ m_write_idx' = head
  /\ UNCHANGED <<m_iv, m_iv_count, m_linger, bytes_to_send, mapped>>

-----------------------------------------------------------------------------
(***************************************************************************)
(* write(), called for EPOLLOUT                                            *)
(***************************************************************************)
Writable ==
  /\ pc = "armed"
  /\ pc' = "writing"
  /\ UNCHANGED <<output, counts, m_file_address, mapped, answer, ghosts>>

\* EAGAIN: the rest waits until there is room again.
WriteAgain ==
  /\ pc = "writing"
  /\ pc' = "armed"
  /\ UNCHANGED <<output, counts, m_file_address, mapped, answer, ghosts>>

unmap ==
  /\ mapped' = mapped \ {m_file_address}
  /\ m_file_address' = 0

WriteError ==
  /\ pc = "writing"
  /\ unmap
  /\ pc' = "closed"
  /\ UNCHANGED <<output, counts, answer, ghosts>>

\* The bytes that the iovecs in use stand for.
Bytes(part) == [i \in 1..part.len |-> <<part.area, part.at + i - 1>>]
Pending == Bytes(m_iv[1]) \o (IF m_iv_count = 2 THEN Bytes(m_iv[2]) ELSE << >>)

\* Slip: the length of the text is compared, but the first iovec still shrinks
\* by all that was sent.
Advance_HalfFixed(have, rest) ==
  m_iv' = IF have >= m_write_idx
          THEN <<[m_iv[1] EXCEPT !.len = 0],
                 Part(File(m_file_address), have - m_write_idx, rest)>>
          ELSE <<Part(Buf, have, m_iv[1].len - have), m_iv[2]>>

\* Slip: after any part, the first iovec is taken to be sent.
Advance_Done(have, rest) ==
  m_iv' = <<[m_iv[1] EXCEPT !.len = 0],
            Part(File(m_file_address), have - m_write_idx, rest)>>

\* What is left in the iovecs, by the arithmetic of lines 674-684: the length
\* of the first one shrinks by all that was sent, not by the last part.
Advance(have, rest) ==
  m_iv' = IF have >= m_iv[1].len
          THEN <<[m_iv[1] EXCEPT !.len = 0],
                 Part(File(m_file_address), have - m_write_idx, rest)>>
          ELSE <<Part(Buf, have, m_iv[1].len - have), m_iv[2]>>

\* writev takes n bytes, 0 only if there are none.
Sent(n) ==
  /\ pc = "writing"
  /\ n \in 0..Len(Pending) /\ (n = 0 => Pending = << >>)
  /\ wire' = wire \o SubSeq(Pending, 1, n)
  /\ pieces' = IF bytes_have_send + n < m_write_idx /\ pieces < 2
               THEN pieces + 1 ELSE pieces
  /\ Advance(bytes_have_send + n, bytes_to_send - n)
  /\ UNCHANGED <<answer, responses, dropped>>

CountSent(n) ==
  /\ bytes_have_send' = bytes_have_send + n
  /\ bytes_to_send' = bytes_to_send - n
  /\ UNCHANGED <<m_iv_count, m_write_idx, m_linger>>

\* Slip: the response is taken to be sent when its text is.
AllSent_Text(n) == bytes_have_send + n >= m_write_idx

AllSent(n) == bytes_to_send - n <= 0

\* write() goes on with the rest.
WritePart(n) ==
  /\ Sent(n) /\ CountSent(n)
  /\ ~AllSent(n)
  /\ UNCHANGED <<pc, m_file_address, mapped>>

\* All is sent and the connection is kept: init() prepares for the next
\* request.
WriteLastKeep(n) ==
  /\ Sent(n)
  /\ AllSent(n)
  /\ m_linger
  /\ unmap /\ Reset
  /\ pc' = "wait"

\* Slip: the response is not unmapped when the connection is closed.
WriteLastClose_Leak(n) ==
  /\ Sent(n) /\ CountSent(n)
  /\ AllSent(n)
  /\ ~m_linger
  /\ pc' = "closed"
  /\ UNCHANGED <<m_file_address, mapped>>

WriteLastClose(n) ==
  /\ Sent(n) /\ CountSent(n)
  /\ AllSent(n)
  /\ ~m_linger
  /\ unmap
  /\ pc' = "closed"

-----------------------------------------------------------------------------
(***************************************************************************)
(* The peer hangs up or the timer fires while the connection waits; the    *)
(* object is used again for another connection.                            *)
(***************************************************************************)
CloseEarly ==
  /\ pc \in {"wait", "armed"}
  /\ dropped' = IF pc = "armed" THEN dropped + 1 ELSE dropped
  /\ pc' = "closed"
  /\ UNCHANGED <<output, counts, m_file_address, mapped, answer, wire,
                 responses, pieces>>

NewConnection ==
  /\ pc = "closed"
  /\ Reset
  /\ answer' = <<0, 0>> /\ wire' = << >> /\ pieces' = 0
  /\ pc' = "wait"
  /\ UNCHANGED <<m_iv, m_file_address, mapped, responses, dropped>>

-----------------------------------------------------------------------------
Busy == pc \in {"armed", "writing"}

TypeOK ==
  /\ pc \in {"wait", "armed", "writing", "closed"}
  /\ \A i \in 1..2 : m_iv[i].len \in Nat /\ m_iv[i].at \in Int
  /\ m_iv_count \in 0..2 /\ m_write_idx \in {0} \cup HeadSizes
  /\ counts \in Nat \X Nat /\ m_linger \in BOOLEAN
  /\ m_file_address \in -1..MaxResponses /\ mapped \subseteq 1..MaxResponses
  /\ answer \in ({0} \cup HeadSizes) \X ({0} \cup FileSizes)
  /\ responses \in 0..MaxResponses /\ pieces \in 0..2 /\ dropped \in Nat

\* The response to send: the text, then the file that was mapped for it.
Response ==
  Bytes(Part(Buf, 0, answer[1])) \o Bytes(Part(File(responses), 0, answer[2]))

\* What the peer gets, and the counters say, is a part of the response from
\* its beginning on, wherever the parts end, also when the socket had no room
\* in between, and the connection is only kept for the next request when all
\* was sent; provided that m_write_buf's text goes out in at most two parts.
SendsInOrder ==
  pieces <= 1 =>
    /\ Busy => /\ wire \o Pending = Response
               /\ bytes_have_send = Len(wire)
               /\ bytes_to_send = Len(Pending)
    /\ pc = "wait" => wire = Response

\* A mapping that no response being sent needs is one of a response that was
\* cut off by closing the connection: main closes without unmap(), and the
\* next file overwrites m_file_address (lines 300, 620).
MappingsAccounted ==
  Cardinality(mapped) <= dropped + (IF Busy THEN 1 ELSE 0)

=============================================================================
