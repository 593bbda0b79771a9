------------------------------- MODULE HttpConn -------------------------------
(***************************************************************************)
(* One http_conn object over the life of its connections: input that       *)
(* arrives in pieces is read into m_read_buf, process_read() takes it      *)
(* apart line by line, process_write() prepares the response, and write()  *)
(* sends it in as many writev() calls as the send buffer asks for, after   *)
(* which init() makes the object ready for the next request.               *)
(*                                                                         *)
(* One thread at a time works on the object, as EPOLLONESHOT is meant to   *)
(* ensure; WebServer is about when that fails.  A byte is CR, LF, NUL or a *)
(* token that stands for the whole text of a line: what the analysis       *)
(* functions make of it is all they look at.                               *)
(***************************************************************************)
EXTENDS Integers, Sequences

CONSTANTS
    Requests,     \* what clients ask: [line, headers, body]
    BufSize,      \* READ_BUFFER_SIZE
    IntMax,       \* the largest int
    HeadSizes,    \* lengths of the text process_write() puts into m_write_buf
    FileSizes,    \* st_size of the files with something in them
    TrigModes,    \* values of m_TRIGMode: 0 level-triggered, 1 edge-triggered
    MaxRequests,  \* bound on the requests and on the connections
    CutBody,      \* whether the network may deliver a body in two pieces
    None

CR  == "\r"
LF  == "\n"
NUL == "NUL"

\* Request lines: for a file, by GET or by POST; an empty file, one that does
\* not exist or may not be read, a directory; and one with a syntax error.
Lines   == {"get", "post", "empty", "missing", "forbidden", "dir", "junk"}
\* What atol() makes of the number of a length line.
Lengths == [len1 |-> 1, len2 |-> 2, minus |-> -1]
Headers == {"keep", "other"} \cup DOMAIN Lengths
Bytes   == Lines \cup Headers \cup {"b", CR, LF, NUL}

ASSUME HttpConnAssumption ==
    /\ Requests \subseteq [line : Lines, headers : Seq(Headers), body : Seq({"b"})]
    /\ None \notin Requests
    /\ {BufSize, IntMax} \subseteq Nat \ {0}
    /\ HeadSizes \subseteq 1..IntMax /\ HeadSizes # {}
    /\ FileSizes \subseteq 1..IntMax
    /\ TrigModes \subseteq {0, 1}
    /\ MaxRequests \in Nat
    /\ CutBody \in BOOLEAN

\* n is the length the last length line among the first k headers of r gives; 0
\* when there is none.
Announces(r, k, n) ==
    \/ n = 0 /\ \A i \in 1..k : r.headers[i] \notin DOMAIN Lengths
    \/ \E i \in 1..k : /\ r.headers[i] \in DOMAIN Lengths /\ n = Lengths[r.headers[i]]
                       /\ \A j \in (i + 1)..k : r.headers[j] \notin DOMAIN Lengths

\* r announces the body it comes with.
Announced(r) == Announces(r, Len(r.headers), Len(r.body))

VARIABLES
    m_TRIGMode,
    asked,    \* how many requests and connections there have been
    announced,\* history: every request of this connection announced its body
    client,   \* the request the client waits for, and what is left to send of it
    inbox,    \* the socket's receive buffer
    at,       \* "in", "out": armed for that event; "parse", "answer", "write": in
              \* process_read(), process_write(), write(); "closed"
    rd,       \* the members of the object that reading uses, and how far past
              \* the end of m_read_buf the NUL behind a body was written
    line_status,
    ret,      \* what process_read() returned
    wr        \* the members that writing uses, the length of the response, and the
              \* number of writev() calls that ended before its header was sent

vars == <<m_TRIGMode, asked, announced, client, inbox, at, rd, line_status, ret, wr>>

\* The bytes of a request: its line, the headers, the empty line, the body.
Encode(r) ==
    <<r.line, CR, LF>>
    \o [i \in 1..(3 * Len(r.headers)) |->
           <<r.headers[(i - 1) \div 3 + 1], CR, LF>>[1 + ((i - 1) % 3)]]
    \o <<CR, LF>> \o r.body

NoRequest == [req |-> None, unsent |-> <<>>]

\* init(): what it resets of either half.  m_string is not reset.
\* Faults: m_linger stays, or m_read_idx with what was read.
NewReadKeepsLinger(r) ==
    [ m_read_buf |-> <<>>, m_check_idx |-> 0, m_start_line |-> 0,
      m_check_state |-> "requestline", m_linger |-> "m_linger" \in DOMAIN r /\ r.m_linger,
      m_content_length |-> 0, m_url |-> None, m_string |-> r.m_string, past |-> 0 ]
NewReadKeepsInput(r) ==
    [ m_read_buf |-> IF "m_read_buf" \in DOMAIN r THEN r.m_read_buf ELSE <<>>,
      m_check_idx |-> 0, m_start_line |-> 0,
      m_check_state |-> "requestline", m_linger |-> FALSE,
      m_content_length |-> 0, m_url |-> None, m_string |-> r.m_string, past |-> 0 ]
NewRead(r)  == [ m_read_buf |-> <<>>, m_check_idx |-> 0, m_start_line |-> 0,
                 m_check_state |-> "requestline", m_linger |-> FALSE,
                 m_content_length |-> 0, m_url |-> None, m_string |-> r.m_string,
                 past |-> 0 ]
NewWrite(w) == [ m_write_idx |-> 0, byte_to_send |-> 0, byte_have_send |-> 0,
                 iv0 |-> w.iv0, iv1 |-> w.iv1, m_iv_count |-> w.m_iv_count,
                 m_file_address |-> w.m_file_address, total |-> 0, cuts |-> 0 ]

\* An int: sizes up to 2 * IntMax + 1 wrap once.
ToInt(x) == IF x <= IntMax THEN x ELSE x - 2 * (IntMax + 1)

-----------------------------------------------------------------------------
(* The client and the network.                                              *)

\* A new connection on the object: init(sockfd, ...).
Accept ==
    /\ at = "closed" /\ asked < MaxRequests
    /\ asked' = asked + 1
    /\ announced' = TRUE
    /\ at' = "in"
    /\ client' = NoRequest
    /\ inbox' = <<>>
    /\ rd' = NewRead(rd)
    /\ wr' = NewWrite(wr)
    /\ UNCHANGED <<m_TRIGMode, line_status, ret>>

\* A client waits for an answer before it asks again; what it has not sent of the
\* request by the time of the answer it keeps to itself.
Ask(r) ==
    /\ at # "closed" /\ client.req = None /\ asked < MaxRequests
    /\ asked' = asked + 1
    /\ announced' = (announced /\ Announced(r))
    /\ client' = [req |-> r, unsent |-> Encode(r)]
    /\ UNCHANGED <<m_TRIGMode, inbox, at, rd, line_status, ret, wr>>

Arrive(n) ==
    /\ at # "closed" /\ n \in 1..Len(client.unsent)
    /\ LET rest == Len(client.unsent) - n
       IN  CutBody \/ rest = 0 \/ rest >= Len(client.req.body)
    /\ inbox' = inbox \o SubSeq(client.unsent, 1, n)
    /\ client' = [client EXCEPT !.unsent = SubSeq(@, n + 1, Len(@))]
    /\ UNCHANGED <<m_TRIGMode, asked, announced, at, rd, line_status, ret, wr>>

\* The client hangs up, or its timer is due: the fd is closed and the object
\* stays as it is.
Close ==
    /\ at \in {"in", "out"}
    /\ at' = "closed"
    /\ UNCHANGED <<m_TRIGMode, asked, announced, client, inbox, rd, line_status, ret, wr>>

-----------------------------------------------------------------------------
(* read_once().                                                             *)

\* Edge-triggered, the last recv() of a loop that has filled the buffer is for
\* no bytes and returns 0, which is taken for the end of the input.
\* Fault: the bound of the buffer is off by one.
RoomTooMuch == BufSize + 1 - Len(rd.m_read_buf)
Room == BufSize - Len(rd.m_read_buf)

ReadOnce ==
    /\ at = "in" /\ inbox # <<>>
    /\ LET n == IF Len(inbox) < Room THEN Len(inbox) ELSE Room
       IN  /\ rd' = [rd EXCEPT !.m_read_buf = @ \o SubSeq(inbox, 1, n)]
           /\ inbox' = SubSeq(inbox, n + 1, Len(inbox))
           /\ at' = IF Room = 0 \/ (m_TRIGMode = 1 /\ n = Room)
                    THEN "closed" ELSE "parse"
    /\ line_status' = "ok"
    /\ UNCHANGED <<m_TRIGMode, asked, announced, client, ret, wr>>

-----------------------------------------------------------------------------
(* process_read(): a step is a turn of its loop.                            *)

\* parse_line() stops at the first CR, or at the end of what has been read.
LineEnd ==
    LET buf == rd.m_read_buf
        crs == {i \in rd.m_check_idx..(Len(buf) - 1) : buf[i + 1] = CR}
    IN  IF crs = {} THEN Len(buf) ELSE CHOOSE i \in crs : \A j \in crs : i <= j

LineStatus(end) ==
    IF end + 1 >= Len(rd.m_read_buf) THEN "open"
    ELSE IF rd.m_read_buf[end + 2] = LF THEN "ok" ELSE "bad"

LineTaken(end) == [rd EXCEPT !.m_read_buf[end + 1] = NUL,
                             !.m_read_buf[end + 2] = NUL,
                             !.m_check_idx = end + 2]

\* The first byte of the line in hand; init() has zeroed what is not yet read.
Text(r) == IF r.m_start_line < Len(r.m_read_buf)
           THEN r.m_read_buf[r.m_start_line + 1] ELSE NUL

\* do_request(): what becomes of the request for line l.
do_request(l) == CASE l = "missing"   -> "NO_RESOURCE"
                   [] l = "forbidden" -> "FORBIDDEN_REQUEST"
                   [] l = "dir"       -> "BAD_REQUEST"
                   [] OTHER           -> "FILE_REQUEST"

\* process_read() goes on with r, or returns code.
GoOn(r) == rd' = r /\ line_status' = "ok" /\ UNCHANGED <<at, ret, wr>>

\* Neither open() nor mmap() is checked; a length of 0 is one mmap() refuses.
Return(r, code) ==
    /\ rd' = r
    /\ ret' = code
    /\ at' = "answer"
    /\ IF code = "FILE_REQUEST"
       THEN \E a \in (IF r.m_url = "empty" THEN {"failed"} ELSE {"mapped", "failed"}) :
               wr' = [wr EXCEPT !.m_file_address = a]
       ELSE UNCHANGED wr
    /\ UNCHANGED line_status

analyze_request_line(r, text) ==
    IF text \in Lines \ {"junk"}
    THEN GoOn([r EXCEPT !.m_url = text, !.m_check_state = "header"])
    ELSE Return(r, "BAD_REQUEST")

analyze_request_header(r, text) ==
    CASE text = NUL /\ r.m_content_length # 0 -> GoOn([r EXCEPT !.m_check_state = "content"])
      [] text = NUL /\ r.m_content_length = 0 -> Return(r, do_request(r.m_url))
      [] text = "keep"             -> GoOn([r EXCEPT !.m_linger = TRUE])
      [] text \in DOMAIN Lengths   -> GoOn([r EXCEPT !.m_content_length = Lengths[text]])
      [] OTHER                     -> GoOn(r)

\* How many bytes past m_read_buf its byte i is.
Past(i) == IF i < BufSize THEN 0 ELSE i - BufSize + 1

\* text[m_content_length] = '\0' and m_string = text, for a body whose bytes are
\* not NUL: m_string is a pointer, so it ends with that NUL, or where a length
\* below 0 puts it before text, with what has been read.  Past what has been read
\* the buffer is 0 already; the byte behind a full buffer is the lowest of
\* m_read_idx, 0 since READ_BUFFER_SIZE is a multiple of 256.
Ended(r, start) ==
    LET i   == start + r.m_content_length
        len == Len(r.m_read_buf)
    IN  [r EXCEPT !.m_read_buf = IF i \in 0..(len - 1) THEN [@ EXCEPT ![i + 1] = NUL] ELSE @,
                  !.m_string = SubSeq(r.m_read_buf, start + 1,
                                      IF r.m_content_length < 0 THEN len ELSE i),
                  !.past = Past(i)]

\* Faults: a body that is just complete is not; the loop goes on without a whole
\* body; the header is taken for a part of the body.
analyze_contentStrict(r, start) ==
    IF Len(r.m_read_buf) > r.m_content_length + r.m_check_idx
    THEN Return(Ended(r, start), do_request(r.m_url))
    ELSE rd' = r /\ line_status' = "open" /\ UNCHANGED <<at, ret, wr>>
analyze_contentLoops(r, start) ==
    IF Len(r.m_read_buf) >= r.m_content_length + r.m_check_idx
    THEN Return(Ended(r, start), do_request(r.m_url))
    ELSE GoOn(r)
analyze_contentAnyTime(r, start) ==
    IF Len(r.m_read_buf) >= r.m_content_length
    THEN Return([r EXCEPT !.past = Past(start + r.m_content_length)], do_request(r.m_url))
    ELSE rd' = r /\ line_status' = "open" /\ UNCHANGED <<at, ret, wr>>
\* start is the line's start, from before m_start_line moved on.
analyze_content(r, start) ==
    IF Len(r.m_read_buf) >= r.m_content_length + r.m_check_idx
    THEN Return(Ended(r, start), do_request(r.m_url))
    ELSE rd' = r /\ line_status' = "open" /\ UNCHANGED <<at, ret, wr>>

Analyze(r) ==
    LET moved == [r EXCEPT !.m_start_line = r.m_check_idx]
    IN  CASE r.m_check_state = "requestline" -> analyze_request_line(moved, Text(r))
          [] r.m_check_state = "header"      -> analyze_request_header(moved, Text(r))
          [] r.m_check_state = "content"     -> analyze_content(moved, r.m_start_line)

\* Without a whole line the function runs off its end; the value that is left
\* in the register is NO_REQUEST, and process() arms the fd for reading.
NextLine ==
    /\ at = "parse"
    /\ IF rd.m_check_state = "content" /\ line_status = "ok" THEN Analyze(rd)
       ELSE IF LineStatus(LineEnd) = "ok" THEN Analyze(LineTaken(LineEnd))
       ELSE /\ rd' = [rd EXCEPT !.m_check_idx = LineEnd]
            /\ at' = "in"
            /\ UNCHANGED <<line_status, ret, wr>>
    /\ UNCHANGED <<m_TRIGMode, asked, announced, client, inbox>>

-----------------------------------------------------------------------------
(* process_write().                                                         *)

\* A response of h bytes in m_write_buf, with or without a file of f bytes.
Prepared(h, f) ==
    LET idx == wr.m_write_idx + h
    IN  [wr EXCEPT !.m_write_idx = idx,
                   !.byte_to_send = ToInt(idx + f),
                   !.iv0 = [base |-> 0, len |-> idx],
                   !.iv1 = IF f = 0 THEN @ ELSE [base |-> 0, len |-> f],
                   !.m_iv_count = IF f = 0 THEN 1 ELSE 2,
                   !.total = idx + f]

process_write ==
    /\ at = "answer"
    /\ IF ret = "NO_RESOURCE"
       THEN at' = "closed" /\ UNCHANGED wr
       ELSE /\ at' = "out"
            /\ \E h \in HeadSizes :
                  IF ret = "FILE_REQUEST" /\ rd.m_url # "empty"
                  THEN \E f \in FileSizes : wr' = Prepared(h, f)
                  ELSE wr' = Prepared(h, 0)
    /\ UNCHANGED <<m_TRIGMode, asked, announced, client, inbox, rd, line_status, ret>>

-----------------------------------------------------------------------------
(* write().                                                                 *)

\* The object is done with the response and waits for the next request.
Reset(w) ==
    /\ rd' = NewRead(rd)
    /\ wr' = NewWrite(w)
    /\ at' = "in"

StartWrite ==
    /\ at = "out"
    /\ IF wr.byte_to_send = 0 THEN Reset(wr) ELSE at' = "write" /\ UNCHANGED <<rd, wr>>
    /\ UNCHANGED <<m_TRIGMode, asked, announced, client, inbox, line_status, ret>>

\* What m_iv comes to, and what one writev() can take of it: nothing of a file that
\* is not mapped.
VecLen  == wr.iv0.len + (IF wr.m_iv_count = 2 THEN wr.iv1.len ELSE 0)
Offered == IF wr.m_file_address = "failed" THEN wr.iv0.len ELSE VecLen

\* The next n bytes offered are the next n bytes of the response: those of
\* m_write_buf that are left, and then those of the file.
InPlace(n) ==
    /\ n > 0 /\ wr.iv0.len > 0 =>
          wr.iv0.base = wr.byte_have_send /\ wr.iv0.base + wr.iv0.len <= wr.m_write_idx
    /\ n > wr.iv0.len =>
          /\ wr.iv1.base >= 0
          /\ wr.m_write_idx + wr.iv1.base = wr.byte_have_send + wr.iv0.len
          /\ wr.byte_have_send + n <= wr.total

\* Fault: the file is sent from where the response stands, header included.
AdvancedWithHeader(n) ==
    LET have == wr.byte_have_send + n
        left == wr.byte_to_send - n
        w    == [wr EXCEPT !.byte_have_send = have, !.byte_to_send = left,
                           !.cuts = IF n > 0 /\ have < wr.m_write_idx THEN @ + 1 ELSE @]
    IN  IF have < wr.iv0.len
        THEN [w EXCEPT !.iv0 = [base |-> have, len |-> @.len - have]]
        ELSE [w EXCEPT !.iv0.len = 0, !.iv1 = [base |-> have, len |-> left]]

\* The object after writev() has taken n bytes.
Advanced(n) ==
    LET have == wr.byte_have_send + n
        left == wr.byte_to_send - n
        w    == [wr EXCEPT !.byte_have_send = have, !.byte_to_send = left,
                           !.cuts = IF n > 0 /\ have < wr.m_write_idx THEN @ + 1 ELSE @]
    IN  IF have < wr.iv0.len
        THEN [w EXCEPT !.iv0 = [base |-> have, len |-> @.len - have]]
        ELSE [w EXCEPT !.iv0.len = 0,
                       !.iv1 = [base |-> have - wr.m_write_idx, len |-> left]]

\* Fault: the last byte is waited for once more.
OverLate(n) == wr.byte_to_send - n < 0
Over(n) == wr.byte_to_send - n <= 0

\* writev() takes n bytes.  With nothing in m_iv it returns 0.
Writev(n) ==
    /\ at = "write"
    /\ n \in 0..Offered /\ (n = 0 => VecLen = 0)
    /\ IF ~Over(n) THEN wr' = Advanced(n) /\ UNCHANGED <<at, rd, client>>
       ELSE LET w == [Advanced(n) EXCEPT !.m_file_address = "null"]
            IN  /\ client' = NoRequest
                /\ IF rd.m_linger THEN Reset(w)
                   ELSE at' = "closed" /\ wr' = w /\ UNCHANGED rd
    /\ UNCHANGED <<m_TRIGMode, asked, announced, inbox, line_status, ret>>

\* The send buffer is full: EAGAIN.
WriteAgain ==
    /\ at = "write" /\ Offered > 0
    /\ at' = "out"
    /\ UNCHANGED <<m_TRIGMode, asked, announced, client, inbox, rd, line_status, ret, wr>>

\* The connection is broken, or the file is not mapped: EFAULT.
WriteError ==
    /\ at = "write" /\ VecLen > 0
    /\ at' = "closed"
    /\ wr' = [wr EXCEPT !.m_file_address = "null"]
    /\ UNCHANGED <<m_TRIGMode, asked, announced, client, inbox, rd, line_status, ret>>

-----------------------------------------------------------------------------
Init ==
    /\ m_TRIGMode \in TrigModes
    /\ asked = 0
    /\ announced = TRUE
    /\ client = NoRequest
    /\ inbox = <<>>
    /\ at = "closed"
    /\ wr = [ m_write_idx |-> 0, byte_to_send |-> 0, byte_have_send |-> 0,
              iv0 |-> [base |-> 0, len |-> 0], iv1 |-> [base |-> 0, len |-> 0],
              m_iv_count |-> 0, m_file_address |-> "null", total |-> 0, cuts |-> 0 ]
    /\ rd = NewRead([m_string |-> <<>>])
    /\ line_status = "ok"
    /\ ret = None

Thread == NextLine \/ process_write \/ WriteAgain \/ WriteError
          \/ \E n \in 0..Offered : Writev(n)

Next == \/ Accept \/ Close
        \/ \E r \in Requests : Ask(r)
        \/ \E n \in 1..Len(client.unsent) : Arrive(n)
        \/ ReadOnce \/ NextLine \/ process_write
        \/ StartWrite \/ WriteAgain \/ WriteError
        \/ \E n \in 0..Offered : Writev(n)

Spec == Init /\ [][Next]_vars

\* A thread that works on the object gets the processor.
FairSpec == Spec /\ WF_vars(Thread)

-----------------------------------------------------------------------------
Codes == {"NO_RESOURCE", "FORBIDDEN_REQUEST", "BAD_REQUEST", "FILE_REQUEST"}
IOVec == [base : Int, len : Int]
Reading == [ m_read_buf : Seq(Bytes), m_check_idx : Nat, m_start_line : Nat,
             m_check_state : {"requestline", "header", "content"},
             m_linger : BOOLEAN, m_content_length : Int,
             m_url : Lines \cup {None}, m_string : Seq(Bytes), past : Nat ]
Writing == [ m_write_idx : Nat, byte_to_send : Int, byte_have_send : Nat,
             iv0 : IOVec, iv1 : IOVec, m_iv_count : 0..2,
             m_file_address : {"null", "mapped", "failed"}, total : Nat, cuts : Nat ]

\* Types; read_once() never fills m_read_buf past its end, the question of its
\* comment; the indices of the parser stay within what has been read.
TypeOK ==
    /\ m_TRIGMode \in TrigModes
    /\ asked \in 0..MaxRequests
    /\ announced \in BOOLEAN
    /\ client \in [req : Requests \cup {None}, unsent : Seq(Bytes)]
    /\ inbox \in Seq(Bytes)
    /\ at \in {"in", "parse", "answer", "out", "write", "closed"}
    /\ rd \in Reading
    /\ Len(rd.m_read_buf) <= BufSize
    /\ rd.m_start_line <= rd.m_check_idx /\ rd.m_check_idx <= Len(rd.m_read_buf)
    /\ line_status \in {"ok", "open"}
    /\ ret \in Codes \cup {None}
    /\ wr \in Writing

\* Whatever length a client announces and whatever it sends, the NUL that
\* analyze_content() writes behind the body goes past the end of m_read_buf only when
\* level-triggered input has filled all of it, and then by one byte.
NulInside ==
    rd.past # 0 => rd.past = 1 /\ m_TRIGMode = 0 /\ Len(rd.m_read_buf) = BufSize

\* Whatever pieces the input comes in, and whatever request or client the object
\* had before, process_read() finds what the request says: its result, and unless
\* the request line is refused, the whole request, its keep-alive and its body.
\* This takes a client whose requests announce the bodies they come with.
RightAnswer ==
    at = "answer" /\ announced =>
        LET r == client.req
        IN  IF r.line = "junk" THEN ret = "BAD_REQUEST"
            ELSE /\ ret = do_request(r.line)
                 /\ client.unsent = <<>> /\ inbox = <<>>
                 /\ rd.m_linger = \E i \in DOMAIN r.headers : r.headers[i] = "keep"
                 /\ r.body # <<>> => rd.m_string = r.body

\* "判断请求体是否完整": the object is not left waiting for input when all of the
\* request has been read.  This takes a body that is announced and arrives in one
\* piece.
NeverStuck ==
    at = "in" /\ announced /\ client.req # None => client.unsent # <<>> \/ inbox # <<>>

\* read_once() gives a connection up only for a request that fills the buffer, if
\* the bodies of the connection's requests were announced.
RefusedOnlyIfTooLong ==
    [][ReadOnce /\ announced /\ at' = "closed" => Len(Encode(client.req)) >= BufSize]_vars

\* "每次调用writev成功后，都需要根据成功写入的字节数，调整iovec的io_base和io_len":
\* up to the second writev() that ends inside the header, and in a response whose
\* header is cut once at most to its end, the client gets the bytes in their order,
\* none twice and none left out, however the file is cut.  From the second cut on
\* the bookkeeping of write() is wrong.
Intact == [][\A n \in 0..Offered : Writev(n) /\ wr.cuts <= 1 => InPlace(n)]_vars

\* write() takes a response for done when writev() has taken as many bytes as it is
\* long and not before, if its length fits an int; so it never does when the file
\* could not be mapped.
WholeResponse ==
    [][\A n \in 0..Offered :
          Writev(n) /\ wr.total <= IntMax => (Over(n) <=> wr.byte_have_send + n = wr.total)]_vars

\* process() and write() return: neither loop goes on for ever, unless the header is
\* cut a second time, after which write() may call writev() with nothing for ever.
Returns == at \in {"parse", "answer", "write"} ~> at \in {"in", "out", "closed"} \/ wr.cuts > 1
=============================================================================
