---------------------------- MODULE HttpConnProofs ----------------------------
(***************************************************************************)
(* Theorems about module HttpConn, for every set of requests, every size   *)
(* of buffer, header and file, and every way the socket takes a response.  *)
(***************************************************************************)
EXTENDS HttpConn, WellFoundedInduction, SequenceTheorems, TLAPS

(***************************************************************************)
(* The parser's part.                                                      *)
(***************************************************************************)

\* A set of natural numbers that is not empty has a least element.
LEMMA Least ==
    ASSUME NEW S, S \subseteq Nat, S # {}
    PROVE  \E i \in S : \A j \in S : i <= j
<1>1. \E i \in S : \A j \in S : ~ (<<j, i>> \in OpToRel(<, Nat))
  BY NatLessThanWellFounded, WFMin
<1>2. PICK i \in S : \A j \in S : ~ (<<j, i>> \in OpToRel(<, Nat))
  BY <1>1
<1>3. \A j \in S : ~ (j < i)
  BY <1>2 DEF OpToRel
<1> QED BY <1>3

\* A parser's state that process_read() may be in.
Parsing(r) ==
    /\ r \in Reading
    /\ Len(r.m_read_buf) <= BufSize
    /\ r.m_start_line <= r.m_check_idx /\ r.m_check_idx <= Len(r.m_read_buf)

\* parse_line() stops within what has been read.
LEMMA LineEndInside ==
    ASSUME Parsing(rd)
    PROVE  /\ LineEnd \in rd.m_check_idx..Len(rd.m_read_buf)
           /\ LineEnd \in Nat
<1> DEFINE buf == rd.m_read_buf
           crs == {i \in rd.m_check_idx..(Len(buf) - 1) : buf[i + 1] = CR}
<1>1. Len(buf) \in Nat /\ rd.m_check_idx \in Nat /\ rd.m_check_idx <= Len(buf)
  BY LenProperties DEF Parsing, Reading
<1>2. CASE crs = {}
  <2>1. LineEnd = Len(buf)
    BY <1>2 DEF LineEnd
  <2> QED BY <1>1, <2>1
<1>3. CASE crs # {}
  <2>1. \E i \in crs : \A j \in crs : i <= j
    <3> HIDE DEF crs
    <3>1. crs \subseteq Nat
      BY <1>1 DEF crs
    <3> QED BY <3>1, <1>3, Least
  <2>2. LineEnd = CHOOSE i \in crs : \A j \in crs : i <= j
    BY <1>3 DEF LineEnd
  <2>3. LineEnd \in crs
    BY <2>1, <2>2
  <2> QED BY <1>1, <2>3
<1> QED BY <1>2, <1>3

\* What parse_line() makes of a line leaves the parser within what has been read.
LEMMA LineTakenOK ==
    ASSUME Parsing(rd), LineStatus(LineEnd) = "ok"
    PROVE  /\ LineTaken(LineEnd) \in Reading
           /\ Len(LineTaken(LineEnd).m_read_buf) = Len(rd.m_read_buf)
           /\ LineTaken(LineEnd).m_start_line = rd.m_start_line
           /\ LineTaken(LineEnd).m_check_idx = LineEnd + 2
           /\ LineTaken(LineEnd).m_check_idx <= Len(rd.m_read_buf)
<1> DEFINE e   == LineEnd
           buf == rd.m_read_buf
           b1  == [buf EXCEPT ![e + 1] = NUL]
           b2  == [b1 EXCEPT ![e + 2] = NUL]
<1>1. e \in Nat /\ Len(buf) \in Nat /\ buf \in Seq(Bytes)
  BY LineEndInside, LenProperties DEF Parsing, Reading
<1>2. e + 1 < Len(buf)
  BY <1>1 DEF LineStatus
<1>3. NUL \in Bytes
  BY DEF Bytes
<1>4. b1 \in Seq(Bytes) /\ Len(b1) = Len(buf)
  <2> HIDE DEF e, buf
  <2>1. e + 1 \in 1..Len(buf)
    BY <1>1, <1>2
  <2> QED BY <1>1, <1>3, <2>1, ExceptSeq
<1>5. b2 \in Seq(Bytes) /\ Len(b2) = Len(buf)
  <2> HIDE DEF e, b1
  <2>1. e + 2 \in 1..Len(b1)
    BY <1>1, <1>2, <1>4
  <2> QED BY <1>4, <1>3, <2>1, ExceptSeq
<1>6. LineTaken(e) = [rd EXCEPT !.m_read_buf = b2, !.m_check_idx = e + 2]
  BY DEF LineTaken, Parsing, Reading
<1>7. rd \in Reading
  BY DEF Parsing
<1>8. e + 2 \in Nat /\ e + 2 <= Len(buf)
  BY <1>1, <1>2
<1>9. /\ LineTaken(e).m_read_buf = b2
      /\ LineTaken(e).m_start_line = rd.m_start_line
      /\ LineTaken(e).m_check_idx = e + 2
      /\ LineTaken(e) \in Reading
  <2> HIDE DEF b1, b2, e
  <2> QED BY <1>5, <1>6, <1>7, <1>8 DEF Reading
<1> QED BY <1>5, <1>8, <1>9

\* A parser's state with as many bytes in it as rd, and no NUL written since.
Kept(r) ==
    /\ Parsing(r)
    /\ Len(r.m_read_buf) = Len(rd.m_read_buf)
    /\ r.past = rd.past

\* A parser's state that may follow rd when process_read() returns.
Left(r) ==
    /\ Parsing(r)
    /\ Len(r.m_read_buf) = Len(rd.m_read_buf)
    /\ r.past \in {0, rd.past} \/ (r.past = 1 /\ Len(r.m_read_buf) = BufSize)

\* Whether do_request() has come to open() and mmap().
Opened ==
    \/ wr' = wr
    \/ \E a \in {"mapped", "failed"} : wr' = [wr EXCEPT !.m_file_address = a]

\* The outcome of an analysis that leaves the object in state r.
Analyzed ==
    /\ line_status' \in {"ok", "open"}
    /\ \/ at' = "parse" /\ Kept(rd') /\ UNCHANGED <<ret, wr>>
       \/ at' = "answer" /\ Left(rd') /\ ret' \in Codes /\ Opened

LEMMA GoOnOK ==
    ASSUME NEW r, Kept(r), at = "parse", GoOn(r)
    PROVE  Analyzed
BY DEF GoOn, Analyzed

LEMMA ReturnOK ==
    ASSUME NEW r, NEW code \in Codes, Left(r), line_status \in {"ok", "open"},
           Return(r, code)
    PROVE  Analyzed
BY DEF Return, Analyzed, Opened, Codes

\* What analyze_content() makes of the object when it takes the body for complete.
LEMMA EndedOK ==
    ASSUME NEW r, Kept(r), NEW start \in Nat, start <= r.m_check_idx,
           Len(r.m_read_buf) >= r.m_content_length + r.m_check_idx
    PROVE  Left(Ended(r, start))
<1> DEFINE i    == start + r.m_content_length
           len  == Len(r.m_read_buf)
           last == IF r.m_content_length < 0 THEN len ELSE i
           buf  == IF i \in 0..(len - 1) THEN [r.m_read_buf EXCEPT ![i + 1] = NUL]
                   ELSE r.m_read_buf
           body == SubSeq(r.m_read_buf, start + 1, last)
<1>1. /\ r \in Reading /\ r.m_content_length \in Int /\ r.m_check_idx \in Nat
      /\ r.m_start_line \in Nat /\ r.m_start_line <= r.m_check_idx
      /\ r.m_check_idx <= len /\ len <= BufSize
      /\ r.m_read_buf \in Seq(Bytes) /\ len \in Nat
  BY LenProperties DEF Kept, Parsing, Reading
<1>2. BufSize \in Nat
  BY HttpConnAssumption DEF HttpConnAssumption
<1>3. i \in Int /\ i <= len /\ last \in Int /\ last <= len
  BY <1>1
<1>4. buf \in Seq(Bytes) /\ Len(buf) = len
  <2>1. CASE i \in 0..(len - 1)
    <3> HIDE DEF i, len
    <3>1. NUL \in Bytes /\ i + 1 \in 1..len
      BY <1>1, <2>1 DEF Bytes
    <3> QED BY <1>1, <2>1, <3>1, ExceptSeq DEF len
  <2> QED BY <1>1, <2>1
<1>5. body \in Seq(Bytes)
  <2> HIDE DEF last
  <2>1. \A j \in (start + 1)..last : r.m_read_buf[j] \in Bytes
    <3> TAKE j \in (start + 1)..last
    <3>1. j \in 1..len
      BY <1>1, <1>3
    <3> QED BY <1>1, <3>1, ElementOfSeq
  <2> QED BY <1>1, <1>3, <2>1, SubSeqProperties
<1>6. Past(i) \in Nat /\ (Past(i) = 0 \/ (Past(i) = 1 /\ len = BufSize))
  <2> HIDE DEF i, len
  <2> QED BY <1>1, <1>2, <1>3 DEF Past
<1>7. Ended(r, start) = [r EXCEPT !.m_read_buf = buf, !.m_string = body, !.past = Past(i)]
  <2>1. r.m_read_buf = r.m_read_buf
    OBVIOUS
  <2> QED BY <1>1 DEF Ended, Reading
<1> HIDE DEF i, len, last, buf, body
<1>8. /\ Ended(r, start) \in Reading
      /\ Ended(r, start).m_read_buf = buf /\ Ended(r, start).past = Past(i)
      /\ Ended(r, start).m_start_line = r.m_start_line
      /\ Ended(r, start).m_check_idx = r.m_check_idx
  BY <1>1, <1>4, <1>5, <1>6, <1>7 DEF Reading
<1>9. len = Len(rd.m_read_buf)
  BY DEF len, Kept
<1> QED BY <1>1, <1>4, <1>6, <1>8, <1>9 DEF Left, Parsing

LEMMA do_requestCode == ASSUME NEW l PROVE do_request(l) \in Codes
BY DEF do_request, Codes

\* Each of the three analysis functions keeps the parser's state in order.
LEMMA AnalyzeOK ==
    ASSUME NEW r, Kept(r), at = "parse", line_status \in {"ok", "open"}, Analyze(r)
    PROVE  Analyzed
<1> USE DEF Kept
<1> DEFINE moved == [r EXCEPT !.m_start_line = r.m_check_idx]
<1>1. Kept(moved) /\ moved.m_check_idx = r.m_check_idx /\ moved.m_read_buf = r.m_read_buf
  BY DEF Parsing, Reading
<1>1a. Left(moved)
  <2> HIDE DEF moved
  <2> QED BY <1>1 DEF Left
<1>2. r.m_check_state \in {"requestline", "header", "content"}
  BY DEF Parsing, Reading
<1>3. CASE r.m_check_state = "requestline"
  <2>1. analyze_request_line(moved, Text(r))
    BY <1>3 DEF Analyze
  <2> HIDE DEF moved
  <2>2. CASE Text(r) \in Lines \ {"junk"}
    <3>1. Kept([moved EXCEPT !.m_url = Text(r), !.m_check_state = "header"])
      BY <1>1, <2>2 DEF Parsing, Reading
    <3> QED BY <2>1, <2>2, <3>1, GoOnOK DEF analyze_request_line
  <2>3. CASE Text(r) \notin Lines \ {"junk"}
    <3>1. "BAD_REQUEST" \in Codes
      BY DEF Codes
    <3> QED BY <1>1a, <2>1, <2>3, <3>1, ReturnOK DEF analyze_request_line
  <2> QED BY <2>2, <2>3
<1>4. CASE r.m_check_state = "header"
  <2>1. analyze_request_header(moved, Text(r))
    BY <1>4 DEF Analyze
  <2> HIDE DEF moved
  <2>0. NUL # "keep" /\ NUL \notin DOMAIN Lengths /\ "keep" \notin DOMAIN Lengths
    BY DEF NUL, Lengths
  <2>2. /\ Kept([moved EXCEPT !.m_check_state = "content"])
        /\ Kept([moved EXCEPT !.m_linger = TRUE])
        /\ \A n \in Int : Kept([moved EXCEPT !.m_content_length = n])
    BY <1>1 DEF Parsing, Reading
  <2>3. \A t \in DOMAIN Lengths : Lengths[t] \in Int
    BY DEF Lengths
  <2>4. do_request(moved.m_url) \in Codes
    BY do_requestCode
  <2>5. CASE Text(r) = NUL /\ moved.m_content_length # 0
    BY <2>0, <2>1, <2>2, <2>5, GoOnOK DEF analyze_request_header
  <2>6. CASE Text(r) = NUL /\ moved.m_content_length = 0
    BY <1>1a, <2>0, <2>1, <2>4, <2>6, ReturnOK DEF analyze_request_header
  <2>7. CASE Text(r) # NUL /\ Text(r) = "keep"
    BY <2>0, <2>1, <2>2, <2>7, GoOnOK DEF analyze_request_header
  <2>8. CASE Text(r) # NUL /\ Text(r) # "keep" /\ Text(r) \in DOMAIN Lengths
    <3>1. GoOn([moved EXCEPT !.m_content_length = Lengths[Text(r)]])
      <4> HIDE DEF Lengths
      <4> QED BY <2>0, <2>1, <2>8 DEF analyze_request_header
    <3> QED BY <2>2, <2>3, <2>8, <3>1, GoOnOK
  <2>9. CASE Text(r) # NUL /\ Text(r) # "keep" /\ Text(r) \notin DOMAIN Lengths
    BY <1>1, <2>1, <2>9, GoOnOK DEF analyze_request_header
  <2>10. moved.m_content_length \in Int
    BY <1>1 DEF Parsing, Reading
  <2> QED BY <2>5, <2>6, <2>7, <2>8, <2>9, <2>10
<1>5. CASE r.m_check_state = "content"
  <2>1. analyze_content(moved, r.m_start_line)
    BY <1>5 DEF Analyze
  <2>2. r.m_start_line \in Nat /\ r.m_start_line <= moved.m_check_idx
    BY <1>1 DEF Parsing, Reading
  <2> HIDE DEF moved
  <2>3. CASE Len(moved.m_read_buf) >= moved.m_content_length + moved.m_check_idx
    <3>1. Left(Ended(moved, r.m_start_line))
      BY <1>1, <2>2, <2>3, EndedOK
    <3>2. Return(Ended(moved, r.m_start_line), do_request(moved.m_url))
      BY <2>1, <2>3 DEF analyze_content
    <3> QED BY <3>1, <3>2, do_requestCode, ReturnOK
  <2>4. CASE ~(Len(moved.m_read_buf) >= moved.m_content_length + moved.m_check_idx)
    <3>1. rd' = moved /\ line_status' = "open" /\ UNCHANGED <<at, ret, wr>>
      BY <2>1, <2>4 DEF analyze_content
    <3> QED BY <1>1, <3>1 DEF Analyzed
  <2> QED BY <2>3, <2>4
<1> QED BY <1>2, <1>3, <1>4, <1>5

LEMMA NextLineOK ==
    ASSUME Parsing(rd), line_status \in {"ok", "open"}, ret \in Codes \cup {None}, NextLine
    PROVE  /\ Parsing(rd')
           /\ line_status' \in {"ok", "open"}
           /\ \/ at' \in {"parse", "in"} /\ Kept(rd') /\ UNCHANGED <<ret, wr>>
              \/ at' = "answer" /\ Left(rd') /\ ret' \in Codes /\ Opened
<1>1. at = "parse"
  BY DEF NextLine
<1>2. CASE rd.m_check_state = "content" /\ line_status = "ok"
  <2>1. Analyze(rd)
    BY <1>2 DEF NextLine
  <2>2. Kept(rd)
    BY DEF Kept
  <2> QED BY <1>1, <2>1, <2>2, AnalyzeOK DEF Analyzed, Kept, Left
<1>3. CASE /\ ~(rd.m_check_state = "content" /\ line_status = "ok")
           /\ LineStatus(LineEnd) = "ok"
  <2>1. Analyze(LineTaken(LineEnd))
    BY <1>3 DEF NextLine
  <2>2. Kept(LineTaken(LineEnd))
    <3>1. rd.m_start_line \in Nat /\ rd.m_check_idx \in Nat
      BY DEF Parsing, Reading
    <3>2. LineTaken(LineEnd).past = rd.past
      BY DEF LineTaken, Parsing, Reading
    <3> QED BY <1>3, <3>1, <3>2, LineTakenOK, LineEndInside DEF Kept, Parsing
  <2> QED BY <1>1, <2>1, <2>2, AnalyzeOK DEF Analyzed, Kept, Left
<1>4. CASE /\ ~(rd.m_check_state = "content" /\ line_status = "ok")
           /\ LineStatus(LineEnd) # "ok"
  <2>1. rd' = [rd EXCEPT !.m_check_idx = LineEnd] /\ at' = "in"
        /\ UNCHANGED <<line_status, ret, wr>>
    BY <1>4 DEF NextLine
  <2>2. /\ LineEnd \in Nat /\ rd.m_check_idx \in Nat /\ rd.m_start_line \in Nat
        /\ rd.m_start_line <= LineEnd /\ LineEnd <= Len(rd.m_read_buf)
    BY LineEndInside, LenProperties DEF Parsing, Reading
  <2>3. Kept(rd')
    BY <2>1, <2>2 DEF Kept, Parsing, Reading
  <2> QED BY <2>1, <2>3 DEF Kept
<1> QED BY <1>2, <1>3, <1>4

(***************************************************************************)
(* Types.                                                                  *)
(***************************************************************************)

\* A request is a sequence of bytes.
LEMMA EncodeType == ASSUME NEW r \in Requests PROVE Encode(r) \in Seq(Bytes)
<1> DEFINE k == Len(r.headers)
           line(i) == <<r.headers[(i - 1) \div 3 + 1], CR, LF>>
           heads == [i \in 1..(3 * k) |-> line(i)[1 + ((i - 1) % 3)]]
<1>1. /\ r.line \in Bytes /\ r.headers \in Seq(Headers) /\ r.body \in Seq(Bytes)
      /\ CR \in Bytes /\ LF \in Bytes /\ Headers \subseteq Bytes /\ k \in Nat
  <2>1. r.line \in Lines /\ r.headers \in Seq(Headers) /\ r.body \in Seq({"b"})
    BY HttpConnAssumption DEF HttpConnAssumption
  <2>2. {"b"} \subseteq Bytes /\ Lines \subseteq Bytes /\ Headers \subseteq Bytes
        /\ CR \in Bytes /\ LF \in Bytes
    BY DEF Bytes
  <2>3. r.body \in Seq(Bytes)
    BY <2>1, <2>2, SeqMonotonic
  <2> QED BY <2>1, <2>2, <2>3, LenProperties
<1>2. heads \in Seq(Bytes)
  <2> HIDE DEF k
  <2>1. \A i \in 1..(3 * k) : line(i)[1 + ((i - 1) % 3)] \in Bytes
    <3> TAKE i \in 1..(3 * k)
    <3>1. (i - 1) \div 3 + 1 \in 1..k /\ 1 + ((i - 1) % 3) \in {1, 2, 3}
      BY <1>1
    <3>2. r.headers[(i - 1) \div 3 + 1] \in Bytes
      BY <1>1, <3>1, ElementOfSeq DEF k
    <3> HIDE DEF Bytes
    <3> QED BY <1>1, <3>1, <3>2
  <2>2. 3 * k \in Nat
    BY <1>1
  <2>3. heads \in [1..(3 * k) -> Bytes]
    <3> HIDE DEF line
    <3> QED BY <2>1
  <2> HIDE DEF heads
  <2> QED BY <2>2, <2>3
<1>3. <<r.line, CR, LF>> \in Seq(Bytes) /\ <<CR, LF>> \in Seq(Bytes)
  BY <1>1
<1>4. Encode(r) = ((<<r.line, CR, LF>> \o heads) \o <<CR, LF>>) \o r.body
  BY DEF Encode
<1> HIDE DEF heads
<1>5. <<r.line, CR, LF>> \o heads \in Seq(Bytes)
  BY <1>2, <1>3, ConcatProperties
<1>6. (<<r.line, CR, LF>> \o heads) \o <<CR, LF>> \in Seq(Bytes)
  BY <1>3, <1>5, ConcatProperties
<1> QED BY <1>1, <1>4, <1>6, ConcatProperties

\* The object as init() leaves it.
LEMMA FreshObject ==
    ASSUME rd \in Reading, wr \in Writing
    PROVE  Parsing(NewRead(rd)) /\ NewWrite(wr) \in Writing
<1>1. /\ rd.m_string \in Seq(Bytes) /\ wr.iv0 \in IOVec /\ wr.iv1 \in IOVec
      /\ wr.m_iv_count \in 0..2 /\ wr.m_file_address \in {"null", "mapped", "failed"}
  BY DEF Reading, Writing
<1>2. <<>> \in Seq(Bytes) /\ Len(<<>>) = 0
  BY EmptySeq
<1>3. BufSize \in Nat
  BY HttpConnAssumption DEF HttpConnAssumption
<1> QED BY <1>1, <1>2, <1>3 DEF Parsing, NewRead, NewWrite, Reading, Writing

LEMMA OfferedInt == ASSUME wr \in Writing PROVE Offered \in Int /\ VecLen \in Int
BY DEF Offered, VecLen, Writing, IOVec

LEMMA AdvancedType ==
    ASSUME wr \in Writing, NEW n \in Nat
    PROVE  Advanced(n) \in Writing
<1> DEFINE have == wr.byte_have_send + n
           left == wr.byte_to_send - n
           c    == IF n > 0 /\ have < wr.m_write_idx THEN wr.cuts + 1 ELSE wr.cuts
           w    == [wr EXCEPT !.byte_have_send = have, !.byte_to_send = left, !.cuts = c]
           a    == [base |-> have, len |-> wr.iv0.len - have]
           z    == [wr.iv0 EXCEPT !.len = 0]
           b    == [base |-> have - wr.m_write_idx, len |-> left]
<1>1. /\ have \in Nat /\ left \in Int /\ c \in Nat /\ wr.iv0 \in IOVec
      /\ a \in IOVec /\ b \in IOVec /\ z \in IOVec
  BY DEF Writing, IOVec
<1>2. Advanced(n) = IF have < wr.iv0.len THEN [w EXCEPT !.iv0 = a]
                    ELSE [w EXCEPT !.iv0 = z, !.iv1 = b]
  BY DEF Advanced, Writing
<1> HIDE DEF c, a, b, z, have, left
<1> QED BY <1>1, <1>2 DEF Writing

LEMMA PreparedType ==
    ASSUME wr \in Writing, NEW h \in HeadSizes, NEW f \in FileSizes \cup {0}
    PROVE  Prepared(h, f) \in Writing
<1>1. h \in Nat /\ f \in Nat /\ IntMax \in Nat
  BY HttpConnAssumption DEF HttpConnAssumption
<1> DEFINE idx == wr.m_write_idx + h
           b   == ToInt(idx + f)
           i0  == [base |-> 0, len |-> idx]
           i1  == IF f = 0 THEN wr.iv1 ELSE [base |-> 0, len |-> f]
           c   == IF f = 0 THEN 1 ELSE 2
<1>2. /\ idx \in Nat /\ b \in Int /\ idx + f \in Nat /\ c \in 0..2
      /\ i0 \in IOVec /\ i1 \in IOVec
  BY <1>1 DEF ToInt, Writing, IOVec
<1>3. Prepared(h, f) = [wr EXCEPT !.m_write_idx = idx, !.byte_to_send = b, !.iv0 = i0,
                                  !.iv1 = i1, !.m_iv_count = c, !.total = idx + f]
  BY DEF Prepared, Writing
<1> HIDE DEF b, i0, i1, c
<1> QED BY <1>2, <1>3 DEF Writing

LEMMA TypesInductive == TypeOK /\ [Next]_vars => TypeOK'
<1> SUFFICES ASSUME TypeOK, [Next]_vars PROVE TypeOK'
  OBVIOUS
<1> USE DEF TypeOK
<1>a. Parsing(rd)
  BY DEF Parsing
<1>b. TypeOK' <=> /\ m_TRIGMode' \in TrigModes
                  /\ asked' \in 0..MaxRequests
                  /\ client' \in [req : Requests \cup {None}, unsent : Seq(Bytes)]
                  /\ inbox' \in Seq(Bytes)
                  /\ at' \in {"in", "parse", "answer", "out", "write", "closed"}
                  /\ Parsing(rd')
                  /\ line_status' \in {"ok", "open"}
                  /\ ret' \in Codes \cup {None}
                  /\ wr' \in Writing
                  /\ announced' \in BOOLEAN
  BY DEF Parsing
<1>c. NoRequest \in [req : Requests \cup {None}, unsent : Seq(Bytes)]
  BY EmptySeq DEF NoRequest
<1>d. MaxRequests \in Nat /\ BufSize \in Nat
  BY HttpConnAssumption DEF HttpConnAssumption
<1> USE <1>a
<1>1. CASE Accept
  BY <1>1, <1>b, <1>c, <1>d, FreshObject, EmptySeq DEF Accept
<1>2. CASE Close
  BY <1>2, <1>b DEF Close
<1>3. ASSUME NEW r \in Requests, Ask(r) PROVE TypeOK'
  <2>1. client' \in [req : Requests \cup {None}, unsent : Seq(Bytes)]
    BY <1>3, EncodeType DEF Ask
  <2>2. announced' \in BOOLEAN
    BY <1>3 DEF Ask
  <2> QED BY <1>3, <1>b, <1>d, <2>1, <2>2 DEF Ask
<1>4. ASSUME NEW n \in 1..Len(client.unsent), Arrive(n) PROVE TypeOK'
  <2>1. client.unsent \in Seq(Bytes) /\ Len(client.unsent) \in Nat
    BY LenProperties
  <2>2. SubSeq(client.unsent, 1, n) \in Seq(Bytes)
    <3>1. \A i \in 1..n : client.unsent[i] \in Bytes
      BY <2>1, ElementOfSeq
    <3> QED BY <2>1, <3>1, SubSeqProperties
  <2>3. SubSeq(client.unsent, n + 1, Len(client.unsent)) \in Seq(Bytes)
    <3>1. \A i \in (n + 1)..Len(client.unsent) : client.unsent[i] \in Bytes
      BY <2>1, ElementOfSeq
    <3> QED BY <2>1, <3>1, SubSeqProperties
  <2>4. inbox' \in Seq(Bytes)
    BY <1>4, <2>2, ConcatProperties DEF Arrive
  <2>5. client' \in [req : Requests \cup {None}, unsent : Seq(Bytes)]
    BY <1>4, <2>3 DEF Arrive
  <2> QED BY <1>4, <1>b, <2>4, <2>5 DEF Arrive
<1>5. CASE ReadOnce
  <2> DEFINE n == IF Len(inbox) < Room THEN Len(inbox) ELSE Room
             got == SubSeq(inbox, 1, n)
  <2>1. /\ rd.m_read_buf \in Seq(Bytes) /\ Len(rd.m_read_buf) \in Nat
        /\ Len(inbox) \in Nat /\ rd.m_check_idx \in Nat /\ rd.m_start_line \in Nat
    BY LenProperties DEF Reading
  <2>2. Room \in Nat /\ Room = BufSize - Len(rd.m_read_buf)
    BY <1>d, <2>1 DEF Room
  <2>3. n \in Nat /\ n <= Len(inbox) /\ n <= Room
    BY <2>1, <2>2
  <2>4. rd' = [rd EXCEPT !.m_read_buf = @ \o got] /\ inbox' = SubSeq(inbox, n + 1, Len(inbox))
    BY <1>5 DEF ReadOnce
  <2> HIDE DEF n
  <2>5. got \in Seq(Bytes) /\ Len(got) = n
    <3>1. \A i \in 1..n : inbox[i] \in Bytes
      BY <2>1, <2>3, ElementOfSeq
    <3> QED BY <2>1, <2>3, <3>1, SubSeqProperties
  <2>6. inbox' \in Seq(Bytes)
    <3>1. \A i \in (n + 1)..Len(inbox) : inbox[i] \in Bytes
      BY <2>1, <2>3, ElementOfSeq
    <3> QED BY <2>1, <2>3, <2>4, <3>1, SubSeqProperties
  <2> DEFINE buf == rd.m_read_buf \o got
  <2>7. buf \in Seq(Bytes) /\ Len(buf) = Len(rd.m_read_buf) + n
    <3> HIDE DEF got
    <3> QED BY <2>1, <2>5, ConcatProperties
  <2>8. Parsing(rd')
    <3> HIDE DEF buf
    <3>1. rd' = [rd EXCEPT !.m_read_buf = buf]
      BY <2>4 DEF buf
    <3>2. rd' \in Reading /\ rd'.m_read_buf = buf /\ rd'.m_check_idx = rd.m_check_idx
          /\ rd'.m_start_line = rd.m_start_line
      BY <2>7, <3>1 DEF Reading
    <3> QED BY <1>d, <2>1, <2>2, <2>3, <2>7, <3>2 DEF Parsing
  <2>9. at' \in {"closed", "parse"}
    BY <1>5 DEF ReadOnce
  <2> QED BY <1>5, <1>b, <2>6, <2>8, <2>9 DEF ReadOnce
<1>6. CASE NextLine
  <2>1. wr' \in Writing
    BY <1>6, NextLineOK DEF Writing, Opened
  <2> QED BY <1>6, <1>b, <2>1, NextLineOK DEF NextLine
<1>7. CASE process_write
  <2>1. wr' \in Writing
    BY <1>7, PreparedType DEF process_write
  <2> QED BY <1>7, <1>b, <2>1 DEF process_write
<1>8. CASE StartWrite
  BY <1>8, <1>b, FreshObject DEF StartWrite, Reset
<1>9. CASE WriteAgain
  BY <1>9, <1>b DEF WriteAgain
<1>10. CASE WriteError
  <2>1. wr' \in Writing
    BY <1>10 DEF WriteError, Writing
  <2> QED BY <1>10, <1>b, <2>1 DEF WriteError
<1>11. ASSUME NEW n \in 0..Offered, Writev(n) PROVE TypeOK'
  <2>1. n \in Nat
    BY OfferedInt
  <2>2. Advanced(n) \in Writing
    BY <2>1, AdvancedType
  <2>4. CASE ~Over(n)
    BY <1>11, <1>b, <2>2, <2>4 DEF Writev
  <2>5. CASE Over(n)
    <3> DEFINE w == [Advanced(n) EXCEPT !.m_file_address = "null"]
    <3>1. w \in Writing
      BY <2>2 DEF Writing
    <3> HIDE DEF w
    <3>2. NewWrite(w) \in Writing
      BY <3>1 DEF NewWrite, Writing
    <3>3. /\ client' = NoRequest
          /\ \/ rd' = NewRead(rd) /\ wr' = NewWrite(w) /\ at' = "in"
             \/ at' = "closed" /\ wr' = w /\ rd' = rd
      BY <1>11, <2>5 DEF Writev, Reset, w
    <3> QED BY <1>11, <1>b, <1>c, <3>1, <3>2, <3>3, FreshObject DEF Writev
  <2> QED BY <2>4, <2>5
<1>12. CASE UNCHANGED vars
  BY <1>12, <1>b DEF vars
<1> QED BY <1>1, <1>2, <1>3, <1>4, <1>5, <1>6, <1>7, <1>8, <1>9, <1>10, <1>11, <1>12 DEF Next

LEMMA TypesInitially == Init => TypeOK
<1> SUFFICES ASSUME Init PROVE TypeOK
  OBVIOUS
<1>1. <<>> \in Seq(Bytes) /\ Len(<<>>) = 0
  BY EmptySeq
<1>2. MaxRequests \in Nat /\ BufSize \in Nat
  BY HttpConnAssumption DEF HttpConnAssumption
<1>3. wr \in Writing
  BY <1>2 DEF Init, Writing, IOVec
<1>4. rd \in Reading /\ Len(rd.m_read_buf) = 0 /\ rd.m_start_line = 0 /\ rd.m_check_idx = 0
  BY <1>1 DEF Init, NewRead, Reading
<1> QED BY <1>1, <1>2, <1>3, <1>4 DEF Init, TypeOK, NoRequest

\* The object's state is well typed; read_once() never fills m_read_buf past its end
\* and the indices of the parser stay within what has been read, whatever is sent.
THEOREM TypeCorrect == Spec => []TypeOK
BY TypesInitially, TypesInductive, PTL DEF Spec

(***************************************************************************)
(* The NUL behind a body.                                                  *)
(***************************************************************************)

\* Only a turn of process_read() that returns writes it, and edge-triggered input
\* that has filled the buffer is not parsed.
NulInv ==
    /\ NulInside
    /\ at \in {"in", "parse"} => rd.past = 0
    /\ at \in {"in", "parse"} /\ m_TRIGMode # 0 => Len(rd.m_read_buf) < BufSize

LEMMA NulReadOnce == ASSUME TypeOK, NulInv, ReadOnce PROVE NulInv'
<1> DEFINE n   == IF Len(inbox) < Room THEN Len(inbox) ELSE Room
           got == SubSeq(inbox, 1, n)
<1>1. /\ rd.m_read_buf \in Seq(Bytes) /\ Len(rd.m_read_buf) \in Nat
      /\ inbox \in Seq(Bytes) /\ Len(inbox) \in Nat /\ BufSize \in Nat
      /\ Len(rd.m_read_buf) <= BufSize /\ m_TRIGMode \in {0, 1}
  <2>1. rd.m_read_buf \in Seq(Bytes) /\ inbox \in Seq(Bytes) /\ Len(rd.m_read_buf) <= BufSize
    BY DEF TypeOK, Reading
  <2>2. BufSize \in Nat /\ m_TRIGMode \in {0, 1}
    BY HttpConnAssumption DEF TypeOK, HttpConnAssumption
  <2> QED BY <2>1, <2>2, LenProperties
<1>2. Room \in Nat /\ Room = BufSize - Len(rd.m_read_buf)
  BY <1>1 DEF Room
<1>3. n \in Nat /\ n <= Len(inbox) /\ n <= Room
  <2>1. Len(inbox) \in Nat /\ Room \in Nat
    BY <1>1, <1>2
  <2> HIDE DEF got
  <2> QED BY <2>1
<1>4. /\ rd' = [rd EXCEPT !.m_read_buf = @ \o got]
      /\ at' = IF Room = 0 \/ (m_TRIGMode = 1 /\ n = Room) THEN "closed" ELSE "parse"
      /\ at = "in" /\ UNCHANGED m_TRIGMode
  BY DEF ReadOnce
<1> HIDE DEF n
<1>5. got \in Seq(Bytes) /\ Len(got) = n
  <2>1. \A i \in 1..n : inbox[i] \in Bytes
    BY <1>1, <1>3, ElementOfSeq
  <2> QED BY <1>1, <1>3, <2>1, SubSeqProperties
<1>6. Len(rd.m_read_buf \o got) = Len(rd.m_read_buf) + n
  <2> HIDE DEF got
  <2> QED BY <1>1, <1>5, ConcatProperties
<1>7. rd'.past = rd.past /\ rd'.m_read_buf = rd.m_read_buf \o got
  BY <1>4 DEF TypeOK, Reading
<1> HIDE DEF got
<1> QED BY <1>1, <1>2, <1>3, <1>4, <1>6, <1>7 DEF NulInv, NulInside

LEMMA NulInductive == TypeOK /\ NulInv /\ [Next]_vars => NulInv'
<1> SUFFICES ASSUME TypeOK, NulInv, [Next]_vars PROVE NulInv'
  OBVIOUS
<1>1. CASE Accept
  <2>1. rd'.past = 0 /\ rd'.m_read_buf = <<>>
    BY <1>1 DEF Accept, NewRead
  <2> QED BY <2>1, EmptySeq, HttpConnAssumption DEF NulInv, NulInside, HttpConnAssumption
<1>2. CASE Reset(wr) \/ \E w : Reset(w)
  <2>1. rd'.past = 0 /\ rd'.m_read_buf = <<>>
    BY <1>2 DEF Reset, NewRead
  <2> QED BY <2>1, EmptySeq, HttpConnAssumption DEF NulInv, NulInside, HttpConnAssumption
<1>3. CASE ReadOnce
  BY <1>3, NulReadOnce
<1>4. CASE NextLine
  <2>1. /\ at = "parse" /\ UNCHANGED m_TRIGMode
        /\ \/ at' \in {"parse", "in"} /\ Kept(rd')
           \/ at' = "answer" /\ Left(rd')
    BY <1>4, NextLineOK DEF NextLine, TypeOK, Parsing
  <2>2. m_TRIGMode \in {0, 1} /\ Len(rd.m_read_buf) \in Nat
    BY HttpConnAssumption, LenProperties DEF TypeOK, Reading, HttpConnAssumption
  <2> QED BY <2>1, <2>2 DEF NulInv, NulInside, Kept, Left
<1>5. CASE UNCHANGED <<rd, m_TRIGMode>> /\ (at' = at \/ at' \notin {"in", "parse"})
  BY <1>5 DEF NulInv, NulInside
<1>6. ASSUME NEW n \in 0..Offered, Writev(n) PROVE NulInv'
  BY <1>2, <1>5, <1>6 DEF Writev
<1>7. CASE Close
  BY <1>5, <1>7 DEF Close
<1>8. CASE process_write
  BY <1>5, <1>8 DEF process_write
<1>9. CASE StartWrite
  BY <1>2, <1>5, <1>9 DEF StartWrite
<1> QED
  BY <1>1, <1>3, <1>4, <1>5, <1>6, <1>7, <1>8, <1>9
     DEF Next, vars, Ask, Arrive, WriteAgain, WriteError

\* For any requests, with whatever length they announce and however they arrive, the
\* NUL behind a body goes past m_read_buf only level-triggered with the buffer full,
\* and then by one byte.
THEOREM NulStaysInside == Spec => []NulInside
<1>1. Init => TypeOK /\ NulInv
  <2>1. Init => rd.past = 0 /\ at = "closed"
    BY DEF Init, NewRead
  <2> QED BY <2>1, TypesInitially DEF NulInv, NulInside
<1>2. TypeOK /\ NulInv /\ [Next]_vars => (TypeOK /\ NulInv)'
  BY TypesInductive, NulInductive
<1>3. NulInv => NulInside
  BY DEF NulInv
<1> QED BY <1>1, <1>2, <1>3, PTL DEF Spec

(***************************************************************************)
(* Sending.                                                                *)
(***************************************************************************)

Sending == at \in {"out", "write"}



\* Before a response is prepared there is nothing of one.
IdleInv == at \in {"in", "parse", "answer"} =>
               wr.m_write_idx = 0 /\ wr.byte_have_send = 0 /\ wr.cuts = 0

\* What is left to send, and that no writev() is offered more than that.  A
\* length that does not fit an int ends the response with its first writev().
SizeInv == Sending =>
    /\ wr.m_write_idx >= 1 /\ wr.m_iv_count \in {1, 2}
    /\ wr.total \in wr.m_write_idx..(2 * IntMax)
    /\ wr.m_iv_count = 1 => wr.total = wr.m_write_idx
    /\ wr.byte_to_send = ToInt(wr.total) - wr.byte_have_send
    /\ wr.total > IntMax => wr.byte_have_send = 0
    /\ wr.iv0.len >= 0
    /\ wr.m_iv_count = 2 => wr.iv1.len >= 0
    /\ wr.byte_have_send + VecLen <= wr.total

\* Where the two parts stand until the header is cut a second time.
PlaceInv == Sending /\ wr.cuts <= 1 =>
    \/ /\ wr.byte_have_send = 0
       /\ wr.iv0.base = 0 /\ wr.iv0.len = wr.m_write_idx
       /\ wr.m_iv_count = 2 => wr.iv1.base = 0 /\ wr.iv1.len = wr.total - wr.m_write_idx
    \/ /\ wr.byte_have_send \in 1..(wr.m_write_idx - 1) /\ wr.cuts >= 1
       /\ wr.iv0.base = wr.byte_have_send
       /\ wr.iv0.len = wr.m_write_idx - wr.byte_have_send
       /\ wr.m_iv_count = 2 => wr.iv1.base = 0 /\ wr.iv1.len = wr.total - wr.m_write_idx
    \/ /\ wr.byte_have_send >= wr.m_write_idx /\ wr.iv0.len = 0
       /\ wr.iv1.base = wr.byte_have_send - wr.m_write_idx
       /\ wr.iv1.len = wr.total - wr.byte_have_send

SendInv == TypeOK /\ IdleInv /\ SizeInv

LEMMA AdvancedFields ==
    ASSUME wr \in Writing, NEW n \in Nat
    PROVE  LET a    == Advanced(n)
               have == wr.byte_have_send + n
           IN  /\ a.byte_have_send = have
               /\ a.byte_to_send = wr.byte_to_send - n
               /\ a.m_write_idx = wr.m_write_idx /\ a.total = wr.total
               /\ a.m_iv_count = wr.m_iv_count
               /\ a.cuts = IF n > 0 /\ have < wr.m_write_idx THEN wr.cuts + 1 ELSE wr.cuts
               /\ have < wr.iv0.len => /\ a.iv0.base = have /\ a.iv0.len = wr.iv0.len - have
                                       /\ a.iv1 = wr.iv1
               /\ ~(have < wr.iv0.len) =>
                      /\ a.iv0.len = 0
                      /\ a.iv1.base = have - wr.m_write_idx
                      /\ a.iv1.len = wr.byte_to_send - n
<1> DEFINE have == wr.byte_have_send + n
           left == wr.byte_to_send - n
           c    == IF n > 0 /\ have < wr.m_write_idx THEN wr.cuts + 1 ELSE wr.cuts
           w    == [wr EXCEPT !.byte_have_send = have, !.byte_to_send = left, !.cuts = c]
           a    == [base |-> have, len |-> wr.iv0.len - have]
           z    == [wr.iv0 EXCEPT !.len = 0]
           b    == [base |-> have - wr.m_write_idx, len |-> left]
<1>1. Advanced(n) = IF have < wr.iv0.len THEN [w EXCEPT !.iv0 = a]
                    ELSE [w EXCEPT !.iv0 = z, !.iv1 = b]
  BY DEF Advanced, Writing
<1>2. z.len = 0
  BY DEF Writing, IOVec
<1> HIDE DEF have, left, c, a, z, b
<1>3. CASE have < wr.iv0.len
  <2>1. Advanced(n) = [w EXCEPT !.iv0 = a]
    BY <1>1, <1>3
  <2>2. /\ Advanced(n).byte_have_send = have /\ Advanced(n).byte_to_send = left
        /\ Advanced(n).m_write_idx = wr.m_write_idx /\ Advanced(n).total = wr.total
        /\ Advanced(n).m_iv_count = wr.m_iv_count
        /\ Advanced(n).cuts = c /\ Advanced(n).iv0 = a /\ Advanced(n).iv1 = wr.iv1
    BY <2>1 DEF Writing
  <2> QED BY <1>3, <2>2 DEF have, left, c, a
<1>4. CASE ~(have < wr.iv0.len)
  <2>1. Advanced(n) = [w EXCEPT !.iv0 = z, !.iv1 = b]
    BY <1>1, <1>4
  <2>2. /\ Advanced(n).byte_have_send = have /\ Advanced(n).byte_to_send = left
        /\ Advanced(n).m_write_idx = wr.m_write_idx /\ Advanced(n).total = wr.total
        /\ Advanced(n).m_iv_count = wr.m_iv_count
        /\ Advanced(n).cuts = c /\ Advanced(n).iv0 = z /\ Advanced(n).iv1 = b
    BY <2>1 DEF Writing
  <2> QED BY <1>2, <1>4, <2>2 DEF have, left, c, b
<1> QED BY <1>3, <1>4

LEMMA PreparedFields ==
    ASSUME wr \in Writing, NEW h \in HeadSizes, NEW f \in FileSizes \cup {0}
    PROVE  LET p   == Prepared(h, f)
               idx == wr.m_write_idx + h
           IN  /\ p.m_write_idx = idx /\ p.total = idx + f /\ p.byte_to_send = ToInt(idx + f)
               /\ p.byte_have_send = wr.byte_have_send /\ p.cuts = wr.cuts
               /\ p.iv0.base = 0 /\ p.iv0.len = idx
               /\ f = 0 => p.m_iv_count = 1
               /\ f # 0 => p.m_iv_count = 2 /\ p.iv1.base = 0 /\ p.iv1.len = f
BY DEF Prepared, Writing

\* A writev() takes no more than there is.
LEMMA OfferedAtMost ==
    ASSUME SendInv, Sending
    PROVE  /\ Offered \in Int /\ VecLen \in Int /\ Offered <= VecLen
           /\ wr.byte_have_send + Offered <= wr.total
<1>1. Offered \in Int /\ VecLen \in Int
  BY OfferedInt DEF SendInv, TypeOK
<1>2. /\ wr.iv0.len \in Int /\ wr.iv1.len \in Int
      /\ wr.byte_have_send \in Nat /\ wr.total \in Nat
  BY DEF SendInv, TypeOK, Writing, IOVec
<1>3. /\ wr.iv0.len >= 0 /\ (wr.m_iv_count = 2 => wr.iv1.len >= 0)
      /\ wr.byte_have_send + VecLen <= wr.total
  BY DEF SendInv, SizeInv
<1>4. Offered = wr.iv0.len \/ Offered = VecLen
  BY DEF Offered
<1>5. VecLen = wr.iv0.len \/ (wr.m_iv_count = 2 /\ VecLen = wr.iv0.len + wr.iv1.len)
  BY <1>2 DEF VecLen
<1> QED BY <1>1, <1>2, <1>3, <1>4, <1>5

\* Whether a writev() ends the response.
LEMMA OverMeaning ==
    ASSUME SendInv, Sending, NEW n \in 0..Offered
    PROVE  /\ n \in Nat
           /\ wr.total <= IntMax => (Over(n) <=> wr.byte_have_send + n = wr.total)
           /\ wr.total > IntMax => Over(n)
           /\ ~Over(n) => wr.total <= IntMax /\ wr.byte_to_send = wr.total - wr.byte_have_send
<1>1. /\ wr.byte_have_send \in Nat /\ wr.byte_to_send \in Int /\ wr.total \in Nat
      /\ Offered \in Int /\ n \in Nat
  BY OfferedInt DEF SendInv, TypeOK, Writing
<1>2. IntMax \in Nat
  BY HttpConnAssumption DEF HttpConnAssumption
<1>3. wr.byte_have_send + n <= wr.total
  BY <1>1, OfferedAtMost
<1> QED BY <1>1, <1>2, <1>3 DEF SendInv, SizeInv, Over, ToInt

LEMMA SendInitially == Init => SendInv /\ PlaceInv
BY TypesInitially DEF Init, SendInv, IdleInv, SizeInv, PlaceInv, Sending

\* A step that leaves the response as it is.
LEMMA SendUnchanged ==
    ASSUME SendInv, TypeOK', UNCHANGED wr,
           Sending' => Sending,
           at' \in {"in", "parse", "answer"} => at \in {"in", "parse", "answer"}
    PROVE  SendInv' /\ (PlaceInv => PlaceInv')
<1>1. VecLen' = VecLen
  BY DEF VecLen
<1>2. IdleInv' /\ SizeInv'
  BY <1>1 DEF SendInv, IdleInv, SizeInv, Sending
<1>3. PlaceInv => PlaceInv'
  BY DEF PlaceInv, Sending
<1> QED BY <1>2, <1>3 DEF SendInv

\* The object as init() leaves it has no response in hand.
LEMMA SendReset ==
    ASSUME TypeOK', at' = "in", NEW w, wr' = NewWrite(w)
    PROVE  SendInv' /\ PlaceInv'
BY DEF SendInv, IdleInv, SizeInv, PlaceInv, Sending, NewWrite

LEMMA SendNextLine ==
    ASSUME SendInv, PlaceInv, TypeOK', NextLine
    PROVE  SendInv' /\ PlaceInv'
<1>1. at = "parse" /\ at' \in {"in", "parse", "answer"}
  BY NextLineOK DEF NextLine, SendInv, TypeOK, Parsing
<1>2. /\ wr'.m_write_idx = wr.m_write_idx /\ wr'.byte_have_send = wr.byte_have_send
      /\ wr'.cuts = wr.cuts
  BY NextLineOK DEF SendInv, TypeOK, Parsing, Writing, Opened
<1> QED BY <1>1, <1>2 DEF SendInv, IdleInv, SizeInv, PlaceInv, Sending

LEMMA SendPrepared ==
    ASSUME SendInv, TypeOK', process_write
    PROVE  SendInv' /\ PlaceInv'
<1>1. CASE ret = "NO_RESOURCE"
  BY <1>1 DEF process_write, SendInv, IdleInv, SizeInv, PlaceInv, Sending
<1>2. CASE ret # "NO_RESOURCE"
  <2>1. PICK h \in HeadSizes, f \in FileSizes \cup {0} : wr' = Prepared(h, f)
    BY <1>2 DEF process_write
  <2>2. at = "answer" /\ at' = "out"
    BY <1>2 DEF process_write
  <2>3. wr.m_write_idx = 0 /\ wr.byte_have_send = 0 /\ wr.cuts = 0
    BY <2>2 DEF SendInv, IdleInv
  <2>4. h \in 1..IntMax /\ f \in 0..IntMax /\ IntMax \in Nat
    BY HttpConnAssumption DEF HttpConnAssumption
  <2>5. /\ wr'.m_write_idx = h /\ wr'.total = h + f /\ wr'.byte_to_send = ToInt(h + f)
        /\ wr'.byte_have_send = 0 /\ wr'.iv0.base = 0 /\ wr'.iv0.len = h
        /\ f = 0 => wr'.m_iv_count = 1
        /\ f # 0 => wr'.m_iv_count = 2 /\ wr'.iv1.base = 0 /\ wr'.iv1.len = f
    BY <2>1, <2>3, <2>4, PreparedFields DEF SendInv, TypeOK
  <2>6. ToInt(h + f) \in Int
    BY <2>4 DEF ToInt
  <2>7. VecLen' = h + f
    BY <2>4, <2>5 DEF VecLen
  <2>8. SizeInv'
    BY <2>4, <2>5, <2>6, <2>7 DEF SizeInv
  <2>9. PlaceInv'
    BY <2>4, <2>5 DEF PlaceInv
  <2> QED BY <2>2, <2>8, <2>9 DEF SendInv, IdleInv
<1> QED BY <1>1, <1>2

\* A writev() that does not end the response offers less, and not more than is left.
LEMMA SizeAdvanced ==
    ASSUME SendInv, TypeOK', at = "write", NEW n \in 0..Offered, ~Over(n),
           wr' = Advanced(n), at' = "write"
    PROVE  SendInv'
<1> DEFINE have == wr.byte_have_send + n
<1>1. /\ n \in Nat /\ wr.total <= IntMax /\ wr.byte_to_send = wr.total - wr.byte_have_send
      /\ wr.byte_to_send - n > 0
  <2>1. /\ n \in Nat /\ wr.total <= IntMax
        /\ wr.byte_to_send = wr.total - wr.byte_have_send
    BY OverMeaning DEF Sending
  <2>2. wr.byte_to_send \in Int
    BY DEF SendInv, TypeOK, Writing
  <2> QED BY <2>1, <2>2 DEF Over
<1>2. /\ wr.byte_have_send \in Nat /\ wr.total \in Nat /\ wr.m_write_idx \in Nat
      /\ wr.iv0.len \in Int /\ wr.iv1.len \in Int /\ IntMax \in Nat
  BY HttpConnAssumption DEF SendInv, TypeOK, Writing, IOVec, HttpConnAssumption
<1>3. /\ wr'.byte_have_send = have
      /\ wr'.byte_to_send = wr.byte_to_send - n
      /\ wr'.m_write_idx = wr.m_write_idx /\ wr'.total = wr.total
      /\ wr'.m_iv_count = wr.m_iv_count
      /\ have < wr.iv0.len => wr'.iv0.len = wr.iv0.len - have /\ wr'.iv1.len = wr.iv1.len
      /\ ~(have < wr.iv0.len) => wr'.iv0.len = 0 /\ wr'.iv1.len = wr.byte_to_send - n
  <2>1. wr \in Writing
    BY DEF SendInv, TypeOK
  <2> QED BY <1>1, <2>1, AdvancedFields
<1>4. /\ wr.m_write_idx >= 1 /\ wr.m_iv_count \in {1, 2}
      /\ wr.total \in wr.m_write_idx..(2 * IntMax)
      /\ wr.m_iv_count = 1 => wr.total = wr.m_write_idx
      /\ wr.iv0.len >= 0
      /\ wr.m_iv_count = 2 => wr.iv1.len >= 0
      /\ wr.byte_have_send + VecLen <= wr.total
  BY DEF SendInv, SizeInv, Sending
<1>5. /\ wr'.iv0.len >= 0
      /\ wr'.m_iv_count = 2 => wr'.iv1.len >= 0
      /\ wr'.byte_have_send + VecLen' <= wr'.total
  BY <1>1, <1>2, <1>3, <1>4 DEF VecLen
<1>6. wr'.byte_to_send = ToInt(wr'.total) - wr'.byte_have_send
  BY <1>1, <1>2, <1>3 DEF ToInt
<1> QED BY <1>1, <1>2, <1>3, <1>4, <1>5, <1>6 DEF SendInv, IdleInv, SizeInv, Sending

\* With one cut at most the two parts stay where they belong.
LEMMA PlaceAdvanced ==
    ASSUME SendInv, PlaceInv, at = "write", NEW n \in 0..Offered, ~Over(n),
           n = 0 => VecLen = 0, wr' = Advanced(n)
    PROVE  PlaceInv'
<1> SUFFICES ASSUME wr'.cuts <= 1 PROVE PlaceInv'
  BY DEF PlaceInv
<1> DEFINE have == wr.byte_have_send + n
<1>1. /\ n \in Nat /\ wr.byte_to_send = wr.total - wr.byte_have_send
  BY OverMeaning DEF Sending
<1>2. /\ wr.byte_have_send \in Nat /\ wr.total \in Nat /\ wr.m_write_idx \in Nat
      /\ wr.iv0.len \in Int /\ wr.iv1.len \in Int /\ wr.cuts \in Nat
      /\ wr.byte_to_send \in Int
  BY DEF SendInv, TypeOK, Writing, IOVec
<1>3. /\ wr'.byte_have_send = have
      /\ wr'.m_write_idx = wr.m_write_idx /\ wr'.total = wr.total
      /\ wr'.m_iv_count = wr.m_iv_count
      /\ wr'.cuts = IF n > 0 /\ have < wr.m_write_idx THEN wr.cuts + 1 ELSE wr.cuts
      /\ have < wr.iv0.len => /\ wr'.iv0.base = have /\ wr'.iv0.len = wr.iv0.len - have
                              /\ wr'.iv1 = wr.iv1
      /\ ~(have < wr.iv0.len) => /\ wr'.iv0.len = 0
                                 /\ wr'.iv1.base = have - wr.m_write_idx
                                 /\ wr'.iv1.len = wr.byte_to_send - n
  <2>1. wr \in Writing
    BY DEF SendInv, TypeOK
  <2> QED BY <1>1, <2>1, AdvancedFields
<1>4. wr.cuts <= 1
  BY <1>1, <1>2, <1>3
<1>5. CASE n = 0
  <2>1. wr.iv0.len = 0
    BY <1>2, <1>5 DEF SendInv, SizeInv, Sending, VecLen
  <2>2. wr.m_write_idx >= 1
    BY DEF SendInv, SizeInv, Sending
  <2> QED BY <1>1, <1>2, <1>3, <1>4, <1>5, <2>1, <2>2 DEF PlaceInv, Sending
<1>6. CASE n > 0
  BY <1>1, <1>2, <1>3, <1>4, <1>6 DEF PlaceInv, Sending
<1> QED BY <1>1, <1>5, <1>6

LEMMA SendInductive ==
    SendInv /\ [Next]_vars => SendInv' /\ (PlaceInv => PlaceInv')
<1> SUFFICES ASSUME SendInv, [Next]_vars
             PROVE  SendInv' /\ (PlaceInv => PlaceInv')
  OBVIOUS
<1>0. TypeOK /\ TypeOK'
  BY TypesInductive DEF SendInv
<1>1. CASE Accept
  BY <1>0, <1>1, SendReset DEF Accept
<1>2. CASE Close
  BY <1>0, <1>2, SendUnchanged DEF Close, Sending
<1>3. ASSUME NEW r \in Requests, Ask(r)
      PROVE  SendInv' /\ (PlaceInv => PlaceInv')
  BY <1>0, <1>3, SendUnchanged DEF Ask, Sending
<1>4. ASSUME NEW n \in 1..Len(client.unsent), Arrive(n)
      PROVE  SendInv' /\ (PlaceInv => PlaceInv')
  BY <1>0, <1>4, SendUnchanged DEF Arrive, Sending
<1>5. CASE ReadOnce
  BY <1>0, <1>5, SendUnchanged DEF ReadOnce, Sending
<1>6. CASE NextLine
  <2>1. PlaceInv
    BY <1>6 DEF NextLine, PlaceInv, Sending
  <2> QED BY <1>0, <1>6, <2>1, SendNextLine
<1>7. CASE process_write
  BY <1>0, <1>7, SendPrepared
<1>8. CASE StartWrite
  BY <1>0, <1>8, SendReset, SendUnchanged DEF StartWrite, Reset, Sending
<1>9. CASE WriteAgain
  BY <1>0, <1>9, SendUnchanged DEF WriteAgain, Sending
<1>10. CASE WriteError
  BY <1>0, <1>10 DEF WriteError, SendInv, IdleInv, SizeInv, PlaceInv, Sending
<1>11. ASSUME NEW n \in 0..Offered, Writev(n)
       PROVE  SendInv' /\ (PlaceInv => PlaceInv')
  <2>1. at = "write" /\ (n = 0 => VecLen = 0)
    BY <1>11 DEF Writev
  <2>2. CASE ~Over(n)
    <3>1. wr' = Advanced(n) /\ at' = "write"
      BY <1>11, <2>1, <2>2 DEF Writev
    <3> QED BY <1>0, <2>1, <2>2, <3>1, SizeAdvanced, PlaceAdvanced
  <2>3. CASE Over(n)
    <3> DEFINE w == [Advanced(n) EXCEPT !.m_file_address = "null"]
    <3>1. \/ wr' = NewWrite(w) /\ at' = "in"
          \/ at' = "closed"
      BY <1>11, <2>3 DEF Writev, Reset
    <3> HIDE DEF w
    <3>2. CASE at' = "closed"
      BY <1>0, <3>2 DEF SendInv, IdleInv, SizeInv, PlaceInv, Sending
    <3> QED BY <1>0, <3>1, <3>2, SendReset
  <2> QED BY <2>2, <2>3
<1>12. CASE UNCHANGED vars
  BY <1>0, <1>12, SendUnchanged DEF vars, Sending
<1> QED BY <1>1, <1>2, <1>3, <1>4, <1>5, <1>6, <1>7, <1>8, <1>9, <1>10, <1>11, <1>12 DEF Next

\* While the parts stand where they belong, a writev() takes the bytes that are next.
LEMMA InPlaceIfPlaced ==
    ASSUME SendInv, PlaceInv, at = "write", wr.cuts <= 1, NEW n \in 0..Offered
    PROVE  InPlace(n)
<1>1. /\ wr.byte_have_send \in Nat /\ wr.total \in Nat /\ wr.m_write_idx \in Nat
      /\ wr.iv0.len \in Int /\ wr.iv1.len \in Int /\ n \in Nat
      /\ Offered \in Int /\ VecLen \in Int
  BY OfferedInt DEF SendInv, TypeOK, Writing, IOVec
<1>2. /\ wr.m_iv_count \in {1, 2} /\ wr.byte_have_send + VecLen <= wr.total
      /\ wr.iv0.len >= 0 /\ (wr.m_iv_count = 2 => wr.iv1.len >= 0)
  BY DEF SendInv, SizeInv, Sending
<1>3. n <= VecLen
  BY <1>1, OfferedAtMost DEF Sending
<1>4. /\ wr.m_iv_count = 1 => n <= wr.iv0.len
      /\ wr.m_iv_count = 2 => n <= wr.iv0.len + wr.iv1.len
  BY <1>1, <1>3 DEF VecLen
<1>5. \/ wr.byte_have_send = 0 /\ wr.iv0.base = 0 /\ wr.iv0.len = wr.m_write_idx
      \/ /\ wr.iv0.base = wr.byte_have_send
         /\ wr.iv0.len = wr.m_write_idx - wr.byte_have_send
      \/ wr.byte_have_send >= wr.m_write_idx /\ wr.iv0.len = 0
  BY DEF PlaceInv, Sending
<1>6. n > 0 /\ wr.iv0.len > 0 =>
          wr.iv0.base = wr.byte_have_send /\ wr.iv0.base + wr.iv0.len <= wr.m_write_idx
  BY <1>1, <1>5
<1>7. n > wr.iv0.len =>
          /\ wr.iv1.base >= 0
          /\ wr.m_write_idx + wr.iv1.base = wr.byte_have_send + wr.iv0.len
  BY <1>1, <1>2, <1>4 DEF PlaceInv, Sending
<1>8. wr.byte_have_send + n <= wr.total
  BY <1>1, <1>2, <1>3
<1> QED BY <1>6, <1>7, <1>8 DEF InPlace

\* For all lengths and all ways the socket takes a response: up to the second writev()
\* that ends inside the header, and so to the end of a response without one, the bytes
\* are sent in their order; write() keeps m_iv and the counters in step.
THEOREM IntactIfCutOnce == Spec => Intact
<1>1. Init => SendInv /\ PlaceInv
  BY SendInitially
<1>2. SendInv /\ PlaceInv /\ [Next]_vars => (SendInv /\ PlaceInv)'
  BY SendInductive
<1>3. SendInv /\ PlaceInv /\ [Next]_vars =>
          [\A n \in 0..Offered : Writev(n) /\ wr.cuts <= 1 => InPlace(n)]_vars
  BY InPlaceIfPlaced DEF Writev
<1> QED BY <1>1, <1>2, <1>3, PTL DEF Spec, Intact

\* write() takes a response for done with its last byte and not before, however it is
\* cut, if its length fits an int.
THEOREM DoneWithLastByte == Spec => WholeResponse
<1>1. Init => SendInv
  BY SendInitially
<1>2. SendInv /\ [Next]_vars => SendInv'
  BY SendInductive
<1>3. SendInv /\ [Next]_vars =>
          [\A n \in 0..Offered : Writev(n) /\ wr.total <= IntMax =>
              (Over(n) <=> wr.byte_have_send + n = wr.total)]_vars
  BY OverMeaning DEF Writev, Sending
<1> QED BY <1>1, <1>2, <1>3, PTL DEF Spec, WholeResponse
=============================================================================
