-------------------------- MODULE HttpConnInputProofs --------------------------
(***************************************************************************)
(* Theorems about the input of module HttpConn: however a request is cut   *)
(* on its way, what process_read() makes of it is what it says.  The       *)
(* invariant relates the read buffer, the socket's buffer and what the     *)
(* client still holds to the request's bytes, and the parser's registers   *)
(* to the number of lines it has taken.                                    *)
(***************************************************************************)
EXTENDS HttpConnProofs

(***************************************************************************)
(* The bytes of a request.                                                 *)
(***************************************************************************)

\* The text of line q: the request line, and then the headers.
Word(r, q) == IF q = 0 THEN r.line ELSE r.headers[q]

\* Where the body starts, and where the CR stands that ends line q, the empty
\* line being the last.
BodyAt(r)  == 3 * Len(r.headers) + 5
CRAt(r, q) == IF q <= Len(r.headers) THEN 3 * q + 1 ELSE 3 * q

\* The three kinds of marks are no text.
LEMMA Marks ==
    /\ CR \notin Lines \cup Headers \cup {"b"} /\ LF \notin Lines \cup Headers \cup {"b"}
    /\ NUL \notin Lines \cup Headers \cup {"b"}
    /\ CR # LF /\ CR # NUL /\ LF # NUL
BY DEF CR, LF, NUL, Lines, Headers, Lengths

LEMMA RequestType ==
    ASSUME NEW r \in Requests
    PROVE  /\ r.line \in Lines /\ r.headers \in Seq(Headers) /\ r.body \in Seq({"b"})
           /\ Len(r.headers) \in Nat /\ Len(r.body) \in Nat
           /\ \A i \in 1..Len(r.headers) : r.headers[i] \in Headers
           /\ \A i \in 1..Len(r.body) : r.body[i] = "b"
<1>1. r.line \in Lines /\ r.headers \in Seq(Headers) /\ r.body \in Seq({"b"})
  BY HttpConnAssumption DEF HttpConnAssumption
<1>2. Len(r.headers) \in Nat /\ Len(r.body) \in Nat
  BY <1>1, LenProperties
<1>3. \A i \in 1..Len(r.headers) : r.headers[i] \in Headers
  BY <1>1, ElementOfSeq
<1>4. \A i \in 1..Len(r.body) : r.body[i] \in {"b"}
  BY <1>1, ElementOfSeq
<1> QED BY <1>1, <1>2, <1>3, <1>4

\* Where each byte of a request stands.
LEMMA EncodeShape ==
    ASSUME NEW r \in Requests
    PROVE  /\ Encode(r) \in Seq(Bytes)
           /\ Len(Encode(r)) = BodyAt(r) + Len(r.body)
           /\ \A q \in 0..Len(r.headers) :
                 /\ Encode(r)[3 * q + 1] = Word(r, q)
                 /\ Encode(r)[3 * q + 2] = CR /\ Encode(r)[3 * q + 3] = LF
           /\ Encode(r)[3 * Len(r.headers) + 4] = CR
           /\ Encode(r)[3 * Len(r.headers) + 5] = LF
           /\ \A j \in 1..Len(r.body) : Encode(r)[BodyAt(r) + j] = r.body[j]
<1> DEFINE k == Len(r.headers)
           b == Len(r.body)
           line(i) == <<r.headers[(i - 1) \div 3 + 1], CR, LF>>
           first == <<r.line, CR, LF>>
           heads == [i \in 1..(3 * k) |-> line(i)[1 + ((i - 1) % 3)]]
           last == <<CR, LF>>
           s1 == first \o heads
           s2 == s1 \o last
<1>1. /\ r.line \in Bytes /\ r.headers \in Seq(Headers) /\ r.body \in Seq(Bytes)
      /\ CR \in Bytes /\ LF \in Bytes /\ Headers \subseteq Bytes /\ k \in Nat
      /\ Len(r.body) \in Nat
  <2>1. r.line \in Lines /\ r.headers \in Seq(Headers) /\ r.body \in Seq({"b"})
    BY HttpConnAssumption DEF HttpConnAssumption
  <2>2. {"b"} \subseteq Bytes /\ Lines \subseteq Bytes /\ Headers \subseteq Bytes
        /\ CR \in Bytes /\ LF \in Bytes
    BY DEF Bytes
  <2>3. r.body \in Seq(Bytes)
    BY <2>1, <2>2, SeqMonotonic
  <2> QED BY <2>1, <2>2, <2>3, LenProperties
<1>2. heads \in [1..(3 * k) -> Bytes] /\ Len(heads) = 3 * k /\ heads \in Seq(Bytes)
  <2> HIDE DEF k
  <2>1. \A i \in 1..(3 * k) : line(i)[1 + ((i - 1) % 3)] \in Bytes
    <3> TAKE i \in 1..(3 * k)
    <3>1. (i - 1) \div 3 + 1 \in 1..k /\ 1 + ((i - 1) % 3) \in {1, 2, 3}
      BY <1>1
    <3>2. r.headers[(i - 1) \div 3 + 1] \in Bytes
      BY <1>1, <3>1, ElementOfSeq DEF k
    <3> HIDE DEF Bytes
    <3> QED BY <1>1, <3>1, <3>2
  <2>2. 3 * k \in Nat
    BY <1>1
  <2>3. heads \in [1..(3 * k) -> Bytes]
    <3> HIDE DEF line
    <3> QED BY <2>1
  <2> HIDE DEF heads
  <2> QED BY <2>2, <2>3
<1>3. /\ first \in Seq(Bytes) /\ Len(first) = 3 /\ last \in Seq(Bytes) /\ Len(last) = 2
      /\ first[1] = r.line /\ first[2] = CR /\ first[3] = LF /\ last[1] = CR /\ last[2] = LF
  BY <1>1
<1>4. Encode(r) = s2 \o r.body
  BY DEF Encode
<1>5. \A q \in 1..k : /\ heads[3 * q - 2] = r.headers[q]
                      /\ heads[3 * q - 1] = CR /\ heads[3 * q] = LF
  <2> HIDE DEF k
  <2> TAKE q \in 1..k
  <2>1. /\ 3 * q - 2 \in 1..(3 * k) /\ 3 * q - 1 \in 1..(3 * k) /\ 3 * q \in 1..(3 * k)
        /\ (3 * q - 2 - 1) \div 3 + 1 = q /\ 1 + ((3 * q - 2 - 1) % 3) = 1
        /\ 1 + ((3 * q - 1 - 1) % 3) = 2 /\ 1 + ((3 * q - 1) % 3) = 3
    BY <1>1
  <2>2. /\ heads[3 * q - 2] = line(3 * q - 2)[1] /\ heads[3 * q - 1] = line(3 * q - 1)[2]
        /\ heads[3 * q] = line(3 * q)[3]
    <3> HIDE DEF line
    <3> QED BY <2>1
  <2> QED BY <2>1, <2>2
<1>a. k \in Nat /\ b \in Nat
  BY <1>1
<1> HIDE DEF heads, first, last, k, b
<1>6. /\ s1 \in Seq(Bytes) /\ Len(s1) = 3 * k + 3
      /\ \A i \in 1..(3 * k + 3) : s1[i] = IF i <= 3 THEN first[i] ELSE heads[i - 3]
  <2>1. /\ s1 \in Seq(Bytes) /\ Len(s1) = Len(first) + Len(heads)
        /\ \A i \in 1..(Len(first) + Len(heads)) :
              s1[i] = IF i <= Len(first) THEN first[i] ELSE heads[i - Len(first)]
    BY <1>2, <1>3, ConcatProperties
  <2>2. Len(first) + Len(heads) = 3 * k + 3
    BY <1>1, <1>2, <1>3
  <2> HIDE DEF s1
  <2> QED BY <1>3, <2>1, <2>2
<1> HIDE DEF s1
<1>7. /\ s2 \in Seq(Bytes) /\ Len(s2) = 3 * k + 5
      /\ \A i \in 1..(3 * k + 5) : s2[i] = IF i <= 3 * k + 3 THEN s1[i] ELSE last[i - (3 * k + 3)]
  <2>1. /\ s2 \in Seq(Bytes) /\ Len(s2) = Len(s1) + Len(last)
        /\ \A i \in 1..(Len(s1) + Len(last)) :
              s2[i] = IF i <= Len(s1) THEN s1[i] ELSE last[i - Len(s1)]
    BY <1>3, <1>6, ConcatProperties
  <2>2. Len(s1) + Len(last) = 3 * k + 5
    BY <1>1, <1>3, <1>6
  <2> HIDE DEF s2
  <2> QED BY <1>6, <2>1, <2>2
<1> HIDE DEF s2
<1>8. /\ Encode(r) \in Seq(Bytes) /\ Len(Encode(r)) = 3 * k + 5 + b
      /\ \A i \in 1..(3 * k + 5 + b) :
            Encode(r)[i] = IF i <= 3 * k + 5 THEN s2[i] ELSE r.body[i - (3 * k + 5)]
  <2>1. /\ Encode(r) \in Seq(Bytes) /\ Len(Encode(r)) = Len(s2) + Len(r.body)
        /\ \A i \in 1..(Len(s2) + Len(r.body)) :
              Encode(r)[i] = IF i <= Len(s2) THEN s2[i] ELSE r.body[i - Len(s2)]
    <3>1. s2 \in Seq(Bytes) /\ r.body \in Seq(Bytes)
      BY <1>1, <1>7
    <3>2. /\ s2 \o r.body \in Seq(Bytes) /\ Len(s2 \o r.body) = Len(s2) + Len(r.body)
          /\ \A i \in 1..(Len(s2) + Len(r.body)) :
                (s2 \o r.body)[i] = IF i <= Len(s2) THEN s2[i] ELSE r.body[i - Len(s2)]
      BY <3>1, ConcatProperties, Zenon
    <3> QED BY <1>4, <3>2
  <2> QED BY <1>7, <2>1 DEF b
<1>9. ASSUME NEW i \in 1..(3 * k + 3)
      PROVE  Encode(r)[i] = IF i <= 3 THEN first[i] ELSE heads[i - 3]
  <2>1. /\ i \in 1..(3 * k + 5) /\ i \in 1..(3 * k + 5 + b)
        /\ i <= 3 * k + 3 /\ i <= 3 * k + 5
    BY <1>a
  <2>2. Encode(r)[i] = s2[i]
    BY <1>8, <2>1
  <2>3. s2[i] = s1[i]
    BY <1>7, <2>1
  <2> QED BY <1>6, <2>2, <2>3
<1>10. ASSUME NEW q \in 0..k
       PROVE  /\ Encode(r)[3 * q + 1] = Word(r, q)
              /\ Encode(r)[3 * q + 2] = CR /\ Encode(r)[3 * q + 3] = LF
  <2>1. CASE q = 0
    BY <1>1, <1>3, <1>9, <2>1 DEF Word
  <2>2. CASE q # 0
    <3>1. q \in 1..k /\ 3 * q + 1 \in 1..(3 * k + 3) /\ 3 * q + 2 \in 1..(3 * k + 3)
          /\ 3 * q + 3 \in 1..(3 * k + 3) /\ ~(3 * q + 1 <= 3) /\ ~(3 * q + 2 <= 3)
          /\ ~(3 * q + 3 <= 3)
          /\ 3 * q + 1 - 3 = 3 * q - 2 /\ 3 * q + 2 - 3 = 3 * q - 1 /\ 3 * q + 3 - 3 = 3 * q
      BY <1>1, <2>2
    <3>2. /\ Encode(r)[3 * q + 1] = heads[3 * q - 2]
          /\ Encode(r)[3 * q + 2] = heads[3 * q - 1]
          /\ Encode(r)[3 * q + 3] = heads[3 * q]
      BY <1>9, <3>1
    <3> QED BY <1>5, <2>2, <3>1, <3>2 DEF Word
  <2> QED BY <2>1, <2>2
<1>11. Encode(r)[3 * k + 4] = CR /\ Encode(r)[3 * k + 5] = LF
  <2>1. /\ 3 * k + 4 \in 1..(3 * k + 5) /\ 3 * k + 5 \in 1..(3 * k + 5)
        /\ 3 * k + 4 \in 1..(3 * k + 5 + b) /\ 3 * k + 5 \in 1..(3 * k + 5 + b)
        /\ 3 * k + 4 - (3 * k + 3) = 1 /\ 3 * k + 5 - (3 * k + 3) = 2
        /\ ~(3 * k + 4 <= 3 * k + 3) /\ ~(3 * k + 5 <= 3 * k + 3)
        /\ 3 * k + 4 <= 3 * k + 5
    BY <1>a
  <2>2. s2[3 * k + 4] = last[1] /\ s2[3 * k + 5] = last[2]
    <3>1. k \in Nat
      BY <1>1
    <3>2. /\ s2[3 * k + 4] = last[3 * k + 4 - (3 * k + 3)]
          /\ s2[3 * k + 5] = last[3 * k + 5 - (3 * k + 3)]
      BY <1>7, <2>1, <3>1
    <3> QED BY <2>1, <3>2
  <2>3. Encode(r)[3 * k + 4] = s2[3 * k + 4] /\ Encode(r)[3 * k + 5] = s2[3 * k + 5]
    BY <1>8, <2>1
  <2> QED BY <1>3, <2>2, <2>3
<1>12. ASSUME NEW j \in 1..b PROVE Encode(r)[3 * k + 5 + j] = r.body[j]
  <2>1. /\ 3 * k + 5 + j \in 1..(3 * k + 5 + b) /\ ~(3 * k + 5 + j <= 3 * k + 5)
        /\ 3 * k + 5 + j - (3 * k + 5) = j
    BY <1>a
  <2>2. Encode(r)[3 * k + 5 + j] = r.body[3 * k + 5 + j - (3 * k + 5)]
    <3>1. k \in Nat
      BY <1>1
    <3> QED BY <1>8, <2>1, <3>1
  <2> QED BY <2>1, <2>2
<1> QED BY <1>8, <1>10, <1>11, <1>12 DEF BodyAt, k, b

\* The CR that ends line q is the first from the line's start, its LF is next, and the
\* body has none.
LEMMA LineShape ==
    ASSUME NEW r \in Requests, NEW q \in 0..(Len(r.headers) + 1)
    PROVE  /\ CRAt(r, q) \in Nat /\ 3 * q <= CRAt(r, q) /\ CRAt(r, q) + 2 <= BodyAt(r)
           /\ BodyAt(r) <= Len(Encode(r))
           /\ Encode(r)[CRAt(r, q) + 1] = CR /\ Encode(r)[CRAt(r, q) + 2] = LF
           /\ \A i \in (3 * q)..(CRAt(r, q) - 1) :
                 i = 3 * q /\ q <= Len(r.headers) /\ Encode(r)[i + 1] \notin {CR, LF}
           /\ \A i \in (BodyAt(r) + 1)..Len(Encode(r)) : Encode(r)[i] \notin {CR, LF}
<1> DEFINE k == Len(r.headers)
           E == Encode(r)
<1>1. k \in Nat /\ q \in Nat /\ q <= k + 1 /\ Len(r.body) \in Nat
  BY RequestType
<1>2. CRAt(r, q) \in Nat /\ 3 * q <= CRAt(r, q) /\ CRAt(r, q) + 2 <= BodyAt(r)
  BY <1>1 DEF CRAt, BodyAt
<1>3. E[CRAt(r, q) + 1] = CR /\ E[CRAt(r, q) + 2] = LF
  <2>1. CASE q <= k
    <3>1. q \in 0..k
      BY <1>1, <2>1
    <3>2. CRAt(r, q) + 1 = 3 * q + 2 /\ CRAt(r, q) + 2 = 3 * q + 3
      BY <1>1, <2>1 DEF CRAt
    <3>3. E[3 * q + 2] = CR /\ E[3 * q + 3] = LF
      BY <3>1, EncodeShape
    <3> QED BY <3>2, <3>3
  <2>2. CASE ~(q <= k)
    <3>1. CRAt(r, q) + 1 = 3 * k + 4 /\ CRAt(r, q) + 2 = 3 * k + 5
      BY <1>1, <2>2 DEF CRAt
    <3> QED BY <3>1, EncodeShape
  <2> QED BY <2>1, <2>2
<1>4. ASSUME NEW i \in (3 * q)..(CRAt(r, q) - 1)
      PROVE  i = 3 * q /\ q <= k /\ E[i + 1] \notin {CR, LF}
  <2>1. i = 3 * q /\ q \in 0..k
    BY <1>1 DEF CRAt
  <2>2. E[i + 1] = Word(r, q)
    BY <2>1, EncodeShape
  <2>3. Word(r, q) \in Lines \cup Headers
    <3>1. CASE q = 0
      BY <3>1, RequestType DEF Word
    <3>2. CASE q # 0
      <4>1. q \in 1..k
        BY <2>1, <3>2
      <4> QED BY <3>2, <4>1, RequestType DEF Word
    <3> QED BY <3>1, <3>2
  <2> QED BY <1>1, <2>1, <2>2, <2>3, Marks
<1>5. ASSUME NEW i \in (BodyAt(r) + 1)..Len(E) PROVE E[i] \notin {CR, LF}
  <2>1. Len(E) = BodyAt(r) + Len(r.body) /\ BodyAt(r) \in Nat
    <3>1. BodyAt(r) \in Nat
      BY <1>1 DEF BodyAt
    <3> QED BY <3>1, EncodeShape
  <2>2. i - BodyAt(r) \in 1..Len(r.body) /\ BodyAt(r) + (i - BodyAt(r)) = i
    BY <1>1, <2>1
  <2>3. E[BodyAt(r) + (i - BodyAt(r))] = r.body[i - BodyAt(r)]
    BY <2>2, EncodeShape
  <2>4. r.body[i - BodyAt(r)] = "b"
    BY <2>2, RequestType
  <2> QED BY <2>2, <2>3, <2>4, Marks
<1>6. BodyAt(r) <= Len(E)
  <2>1. Len(E) = BodyAt(r) + Len(r.body) /\ BodyAt(r) \in Nat
    <3>1. BodyAt(r) \in Nat
      BY <1>1 DEF BodyAt
    <3> QED BY <3>1, EncodeShape
  <2> QED BY <1>1, <2>1
<1> QED BY <1>2, <1>3, <1>4, <1>5, <1>6

\* Two readings of the length lines of the same headers agree.
LEMMA AnnouncesOnce ==
    ASSUME NEW r, NEW k \in Int, NEW n, NEW m, Announces(r, k, n), Announces(r, k, m)
    PROVE  n = m
<1>1. CASE \A i \in 1..k : r.headers[i] \notin DOMAIN Lengths
  BY <1>1 DEF Announces
<1>2. CASE \E i \in 1..k : r.headers[i] \in DOMAIN Lengths
  <2>1. PICK i \in 1..k : /\ r.headers[i] \in DOMAIN Lengths /\ n = Lengths[r.headers[i]]
                          /\ \A l \in (i + 1)..k : r.headers[l] \notin DOMAIN Lengths
    BY <1>2, Zenon DEF Announces
  <2>2. PICK j \in 1..k : /\ r.headers[j] \in DOMAIN Lengths /\ m = Lengths[r.headers[j]]
                          /\ \A l \in (j + 1)..k : r.headers[l] \notin DOMAIN Lengths
    BY <1>2, Zenon DEF Announces
  <2>3. ~(i < j)
    <3>1. i < j => j \in (i + 1)..k
      BY <2>1, <2>2
    <3> QED BY <2>1, <2>2, <3>1
  <2>4. ~(j < i)
    <3>1. j < i => i \in (j + 1)..k
      BY <2>1, <2>2
    <3> QED BY <2>1, <2>2, <3>1
  <2>5. i = j
    BY <2>1, <2>2, <2>3, <2>4
  <2> QED BY <2>1, <2>2, <2>5
<1> QED BY <1>1, <1>2

\* One header more.
LEMMA AnnouncesNext ==
    ASSUME NEW r, NEW k \in Nat, NEW n, Announces(r, k, n)
    PROVE  /\ r.headers[k + 1] \in DOMAIN Lengths =>
                 Announces(r, k + 1, Lengths[r.headers[k + 1]])
           /\ r.headers[k + 1] \notin DOMAIN Lengths => Announces(r, k + 1, n)
<1>1. ASSUME r.headers[k + 1] \in DOMAIN Lengths
      PROVE  Announces(r, k + 1, Lengths[r.headers[k + 1]])
  <2>1. k + 1 \in 1..(k + 1) /\ \A j \in (k + 1 + 1)..(k + 1) : FALSE
    OBVIOUS
  <2> QED BY <1>1, <2>1, Zenon DEF Announces
<1>2. ASSUME r.headers[k + 1] \notin DOMAIN Lengths
      PROVE  Announces(r, k + 1, n)
  <2>1. \A i \in 1..(k + 1) : i \in 1..k \/ i = k + 1
    OBVIOUS
  <2>2. CASE n = 0 /\ \A i \in 1..k : r.headers[i] \notin DOMAIN Lengths
    <3>1. \A i \in 1..(k + 1) : r.headers[i] \notin DOMAIN Lengths
      BY <1>2, <2>1, <2>2, Zenon
    <3> QED BY <2>2, <3>1, Zenon DEF Announces
  <2>3. ASSUME NEW i \in 1..k, r.headers[i] \in DOMAIN Lengths, n = Lengths[r.headers[i]],
               \A j \in (i + 1)..k : r.headers[j] \notin DOMAIN Lengths
        PROVE  Announces(r, k + 1, n)
    <3>1. i \in 1..(k + 1)
      OBVIOUS
    <3>2. \A j \in (i + 1)..(k + 1) : j \in (i + 1)..k \/ j = k + 1
      OBVIOUS
    <3>3. \A j \in (i + 1)..(k + 1) : r.headers[j] \notin DOMAIN Lengths
      BY <1>2, <2>3, <3>2, Zenon
    <3> QED BY <2>3, <3>1, <3>3, Zenon DEF Announces
  <2> QED BY <2>2, <2>3, Zenon DEF Announces
<1> QED BY <1>1, <1>2

\* No length is announced before the first header.
LEMMA AnnouncesNone ==
    ASSUME NEW r, NEW k \in Int, NEW n, Announces(r, k, n), k <= 0
    PROVE  n = 0
<1>1. \A i \in 1..k : FALSE
  OBVIOUS
<1> QED BY <1>1, Zenon DEF Announces

(***************************************************************************)
(* The way of the bytes.                                                   *)
(***************************************************************************)

\* Of the bytes E, b have been read, then come those of in, then those of un.
InFlight(E, b, in, un) ==
    /\ b + Len(in) + Len(un) = Len(E)
    /\ \A i \in 1..Len(in) : in[i] = E[b + i]
    /\ \A i \in 1..Len(un) : un[i] = E[b + Len(in) + i]

\* buf holds the bytes it was given, but that parse_line() has put NUL in the place of
\* the marks before index c.
Held(E, buf, c) ==
    \A i \in 1..Len(buf) : i > c \/ E[i] \notin {CR, LF} => buf[i] = E[i]

LEMMA SeqCut ==
    ASSUME NEW s \in Seq(Bytes), NEW n \in 0..Len(s)
    PROVE  /\ SubSeq(s, 1, n) \in Seq(Bytes) /\ Len(SubSeq(s, 1, n)) = n
           /\ \A i \in 1..n : SubSeq(s, 1, n)[i] = s[i]
           /\ SubSeq(s, n + 1, Len(s)) \in Seq(Bytes)
           /\ Len(SubSeq(s, n + 1, Len(s))) = Len(s) - n
           /\ \A i \in 1..(Len(s) - n) : SubSeq(s, n + 1, Len(s))[i] = s[n + i]
<1> DEFINE l == Len(s)
<1>1. l \in Nat /\ n \in Nat /\ n <= l /\ \A i \in 1..l : s[i] \in Bytes
  BY LenProperties, ElementOfSeq
<1> HIDE DEF l
<1>2. \A i \in 1..n : s[i] \in Bytes
  BY <1>1
<1>3. \A i \in (n + 1)..l : s[i] \in Bytes
  BY <1>1
<1>4. /\ SubSeq(s, 1, n) \in Seq(Bytes) /\ Len(SubSeq(s, 1, n)) = IF 1 <= n THEN n - 1 + 1 ELSE 0
      /\ \A i \in 1..(n - 1 + 1) : SubSeq(s, 1, n)[i] = s[1 + i - 1]
  BY <1>1, <1>2, SubSeqProperties
<1>5. /\ SubSeq(s, n + 1, l) \in Seq(Bytes)
      /\ Len(SubSeq(s, n + 1, l)) = IF n + 1 <= l THEN l - (n + 1) + 1 ELSE 0
      /\ \A i \in 1..(l - (n + 1) + 1) : SubSeq(s, n + 1, l)[i] = s[n + 1 + i - 1]
  BY <1>1, <1>3, SubSeqProperties
<1>6. /\ SubSeq(s, 1, n) \in Seq(Bytes) /\ Len(SubSeq(s, 1, n)) = n
      /\ \A i \in 1..n : SubSeq(s, 1, n)[i] = s[i]
  BY <1>1, <1>4
<1>7. /\ SubSeq(s, n + 1, l) \in Seq(Bytes)
      /\ Len(SubSeq(s, n + 1, l)) = l - n
      /\ \A i \in 1..(l - n) : SubSeq(s, n + 1, l)[i] = s[n + i]
  BY <1>1, <1>5
<1> QED BY <1>6, <1>7 DEF l

\* n of the bytes the client holds reach the socket.
LEMMA BytesArrive ==
    ASSUME NEW E, NEW b \in Nat, NEW in \in Seq(Bytes), NEW un \in Seq(Bytes),
           InFlight(E, b, in, un), NEW n \in 1..Len(un)
    PROVE  InFlight(E, b, in \o SubSeq(un, 1, n), SubSeq(un, n + 1, Len(un)))
<1> DEFINE got  == SubSeq(un, 1, n)
           rest == SubSeq(un, n + 1, Len(un))
           all  == in \o got
           p    == Len(in)
           u    == Len(un)
<1>1. p \in Nat /\ u \in Nat /\ n \in Nat /\ n <= u
  BY LenProperties
<1>2. /\ got \in Seq(Bytes) /\ Len(got) = n /\ \A i \in 1..n : got[i] = un[i]
      /\ rest \in Seq(Bytes) /\ Len(rest) = u - n
      /\ \A i \in 1..(u - n) : rest[i] = un[n + i]
  <2>1. n \in 0..Len(un)
    BY <1>1
  <2> QED BY <2>1, SeqCut
<1> HIDE DEF got, rest
<1>3. /\ Len(all) = p + Len(got)
      /\ \A i \in 1..(p + Len(got)) : all[i] = IF i <= p THEN in[i] ELSE got[i - p]
  BY <1>2, ConcatProperties
<1> HIDE DEF all, p, u
<1>4. /\ b + p + u = Len(E)
      /\ \A i \in 1..p : in[i] = E[b + i]
      /\ \A i \in 1..u : un[i] = E[b + p + i]
  BY DEF InFlight, p, u
<1>5. ASSUME NEW i \in 1..Len(all) PROVE all[i] = E[b + i]
  <2>1. i \in 1..(p + n) /\ i \in 1..(p + Len(got))
    BY <1>2, <1>3
  <2>2. CASE i <= p
    <3>1. i \in 1..p
      BY <1>1, <2>1, <2>2
    <3> QED BY <1>3, <1>4, <2>1, <2>2, <3>1
  <2>3. CASE ~(i <= p)
    <3>1. i - p \in 1..n /\ i - p \in 1..u /\ b + p + (i - p) = b + i
      BY <1>1, <2>1, <2>3
    <3>2. all[i] = got[i - p]
      BY <1>3, <2>1, <2>3
    <3>3. got[i - p] = un[i - p] /\ un[i - p] = E[b + p + (i - p)]
      BY <1>2, <1>4, <3>1
    <3> QED BY <3>1, <3>2, <3>3
  <2> QED BY <2>2, <2>3
<1>6. ASSUME NEW i \in 1..Len(rest) PROVE rest[i] = E[b + Len(all) + i]
  <2>1. i \in 1..(u - n)
    BY <1>2
  <2>2. n + i \in 1..u /\ b + p + (n + i) = b + (p + n) + i
    BY <1>1, <2>1
  <2>3. rest[i] = un[n + i] /\ un[n + i] = E[b + p + (n + i)]
    BY <1>2, <1>4, <2>1, <2>2
  <2>4. Len(all) = p + n
    BY <1>2, <1>3
  <2> QED BY <2>2, <2>3, <2>4
<1>7. b + Len(all) + Len(rest) = Len(E)
  <2>1. Len(all) = p + n /\ Len(rest) = u - n
    BY <1>2, <1>3
  <2>2. b + (p + n) + (u - n) = b + p + u
    BY <1>1
  <2> QED BY <1>4, <2>1, <2>2
<1>8. InFlight(E, b, all, rest)
  BY <1>5, <1>6, <1>7 DEF InFlight
<1> QED BY <1>8 DEF all, rest, got

\* n of the bytes in the socket reach the buffer.
LEMMA BytesReceived ==
    ASSUME NEW E, NEW buf \in Seq(Bytes), NEW in \in Seq(Bytes), NEW un \in Seq(Bytes),
           InFlight(E, Len(buf), in, un), NEW n \in 0..Len(in),
           NEW c \in Nat, c <= Len(buf), Held(E, buf, c)
    PROVE  LET new == buf \o SubSeq(in, 1, n)
           IN  /\ new \in Seq(Bytes) /\ Len(new) = Len(buf) + n
               /\ InFlight(E, Len(new), SubSeq(in, n + 1, Len(in)), un)
               /\ Held(E, new, c)
               /\ Len(SubSeq(in, n + 1, Len(in))) = Len(in) - n
<1> DEFINE got  == SubSeq(in, 1, n)
           rest == SubSeq(in, n + 1, Len(in))
           new  == buf \o got
           b    == Len(buf)
           p    == Len(in)
           u    == Len(un)
<1>1. p \in Nat /\ u \in Nat /\ b \in Nat /\ n \in Nat /\ n <= p
  BY LenProperties
<1>2. /\ got \in Seq(Bytes) /\ Len(got) = n /\ \A i \in 1..n : got[i] = in[i]
      /\ rest \in Seq(Bytes) /\ Len(rest) = p - n
      /\ \A i \in 1..(p - n) : rest[i] = in[n + i]
  BY SeqCut
<1> HIDE DEF got, rest
<1>3. /\ new \in Seq(Bytes) /\ Len(new) = b + Len(got)
      /\ \A i \in 1..(b + Len(got)) : new[i] = IF i <= b THEN buf[i] ELSE got[i - b]
  BY <1>2, ConcatProperties
<1> HIDE DEF new, b, p, u
<1>4. /\ b + p + u = Len(E)
      /\ \A i \in 1..p : in[i] = E[b + i]
      /\ \A i \in 1..u : un[i] = E[b + p + i]
      /\ \A i \in 1..b : i > c \/ E[i] \notin {CR, LF} => buf[i] = E[i]
      /\ c <= b
  BY DEF InFlight, Held, b, p, u
<1>5. Len(new) = b + n
  BY <1>2, <1>3
<1>6. ASSUME NEW i \in 1..Len(new), i > c \/ E[i] \notin {CR, LF} PROVE new[i] = E[i]
  <2>1. i \in 1..(b + n) /\ i \in 1..(b + Len(got))
    BY <1>2, <1>5
  <2>2. CASE i <= b
    <3>1. i \in 1..b
      BY <1>1, <2>1, <2>2
    <3>2. new[i] = buf[i]
      BY <1>3, <2>1, <2>2
    <3> QED BY <1>4, <1>6, <3>1, <3>2
  <2>3. CASE ~(i <= b)
    <3>1. i - b \in 1..n /\ i - b \in 1..p /\ b + (i - b) = i
      BY <1>1, <2>1, <2>3
    <3>2. new[i] = got[i - b]
      BY <1>3, <2>1, <2>3
    <3>3. got[i - b] = in[i - b] /\ in[i - b] = E[b + (i - b)]
      BY <1>2, <1>4, <3>1
    <3> QED BY <3>1, <3>2, <3>3
  <2> QED BY <2>2, <2>3
<1>7. ASSUME NEW i \in 1..Len(rest) PROVE rest[i] = E[Len(new) + i]
  <2>1. i \in 1..(p - n)
    BY <1>2
  <2>2. n + i \in 1..p /\ b + (n + i) = b + n + i
    BY <1>1, <2>1
  <2>3. rest[i] = in[n + i] /\ in[n + i] = E[b + (n + i)]
    BY <1>2, <1>4, <2>1, <2>2
  <2> QED BY <1>5, <2>2, <2>3
<1>8. ASSUME NEW i \in 1..u PROVE un[i] = E[Len(new) + Len(rest) + i]
  <2>1. b + n + (p - n) + i = b + p + i
    BY <1>1
  <2> QED BY <1>2, <1>4, <1>5, <2>1
<1>9. Len(new) + Len(rest) + u = Len(E)
  <2>1. b + n + (p - n) + u = b + p + u
    BY <1>1
  <2> QED BY <1>2, <1>4, <1>5, <2>1
<1>10. InFlight(E, Len(new), rest, un) /\ Held(E, new, c)
  BY <1>6, <1>7, <1>8, <1>9 DEF InFlight, Held, u
<1>11. /\ new \in Seq(Bytes) /\ Len(new) = Len(buf) + n
       /\ Len(rest) = Len(in) - n
  BY <1>2, <1>3, <1>5 DEF b, p
<1> QED BY <1>10, <1>11 DEF new, got, rest

(***************************************************************************)
(* Where parse_line() stops.                                               *)
(***************************************************************************)

\* The first CR from m_check_idx on, or the end.
LEMMA FirstCR ==
    ASSUME Parsing(rd), NEW e \in rd.m_check_idx..Len(rd.m_read_buf),
           \A i \in rd.m_check_idx..(e - 1) : rd.m_read_buf[i + 1] # CR,
           e < Len(rd.m_read_buf) => rd.m_read_buf[e + 1] = CR
    PROVE  LineEnd = e
<1> DEFINE buf == rd.m_read_buf
           crs == {i \in rd.m_check_idx..(Len(buf) - 1) : buf[i + 1] = CR}
           c   == rd.m_check_idx
           l   == Len(buf)
<1>1. l \in Nat /\ c \in Nat /\ c <= l /\ e \in c..l
  BY LenProperties DEF Parsing, Reading
<1>2. /\ \A i \in crs : i \in c..(l - 1) /\ buf[i + 1] = CR
      /\ \A i \in c..(l - 1) : buf[i + 1] = CR => i \in crs
  OBVIOUS
<1>3. LineEnd = IF crs = {} THEN l ELSE CHOOSE i \in crs : \A j \in crs : i <= j
  BY DEF LineEnd
<1> HIDE DEF crs
<1>4. /\ \A i \in c..(e - 1) : buf[i + 1] # CR
      /\ e < l => buf[e + 1] = CR
  OBVIOUS
<1> HIDE DEF c, l, buf
<1>5. \A i \in crs : i \in Nat /\ e <= i
  <2> TAKE i \in crs
  <2>1. i \in c..(l - 1) /\ buf[i + 1] = CR
    BY <1>2
  <2>2. i < e => i \in c..(e - 1)
    BY <1>1, <2>1
  <2>3. ~(i < e)
    BY <1>4, <2>1, <2>2
  <2> QED BY <1>1, <2>1, <2>3
<1>6. CASE e = l
  <2>1. crs = {}
    <3> SUFFICES ASSUME NEW i \in crs PROVE FALSE
      OBVIOUS
    <3>1. i \in c..(l - 1) /\ e <= i
      BY <1>2, <1>5
    <3> QED BY <1>1, <1>6, <3>1
  <2> QED BY <1>3, <1>6, <2>1
<1>7. CASE e # l
  <2>1. e \in c..(l - 1) /\ e < l
    BY <1>1, <1>7
  <2>2. e \in crs /\ \A j \in crs : e <= j
    BY <1>2, <1>4, <1>5, <2>1
  <2>3. \A i \in crs : (\A j \in crs : i <= j) => i = e
    <3> TAKE i \in crs
    <3>1. i \in Nat /\ e <= i /\ e \in Nat
      BY <1>1, <1>5
    <3> QED BY <2>2, <3>1
  <2>4. LineEnd = CHOOSE i \in crs : \A j \in crs : i <= j
    BY <1>3, <2>2
  <2>5. (CHOOSE i \in crs : \A j \in crs : i <= j) = e
    BY <2>2, <2>3
  <2> QED BY <2>4, <2>5
<1> QED BY <1>6, <1>7

\* In line q, parse_line() stops at the CR that ends the line, or for want of it at the
\* end of what has been read; it never takes a line for a bad one.
LEMMA LineEndOfLine ==
    ASSUME Parsing(rd), NEW r \in Requests, NEW q \in 0..(Len(r.headers) + 1),
           Len(rd.m_read_buf) <= Len(Encode(r)),
           Held(Encode(r), rd.m_read_buf, rd.m_check_idx),
           rd.m_check_idx \in (3 * q)..CRAt(r, q)
    PROVE  /\ CRAt(r, q) + 2 <= Len(rd.m_read_buf) =>
                 LineEnd = CRAt(r, q) /\ LineStatus(LineEnd) = "ok"
           /\ ~(CRAt(r, q) + 2 <= Len(rd.m_read_buf)) =>
                 /\ LineStatus(LineEnd) = "open"
                 /\ LineEnd \in rd.m_check_idx..CRAt(r, q)
<1> DEFINE E == Encode(r)
           buf == rd.m_read_buf
           c == rd.m_check_idx
           l == Len(buf)
           e == CRAt(r, q)
           s == 3 * q
<1>1. l \in Nat /\ c \in Nat /\ c <= l
  BY LenProperties DEF Parsing, Reading
<1>2. /\ e \in Nat /\ s \in Nat /\ s <= e
      /\ E[e + 1] = CR /\ E[e + 2] = LF
      /\ \A i \in s..(e - 1) : E[i + 1] \notin {CR, LF}
  <2>1. q \in Nat
    BY RequestType
  <2> QED BY <2>1, LineShape
<1>3. c \in s..e /\ \A i \in 1..l : i > c => buf[i] = E[i]
  BY DEF Held
<1> HIDE DEF E, l, e, s, c, buf
<1>4. \A i \in c..(l - 1) : buf[i + 1] = E[i + 1]
  <2> TAKE i \in c..(l - 1)
  <2>1. i + 1 \in 1..l /\ i + 1 > c
    BY <1>1
  <2> QED BY <1>3, <2>1
<1>5. \A i \in c..(e - 1) : E[i + 1] # CR
  <2> TAKE i \in c..(e - 1)
  <2>1. i \in s..(e - 1)
    BY <1>1, <1>2, <1>3
  <2> QED BY <1>2, <2>1
<1>6. CASE e < l
  <2>1. e \in c..l /\ e \in c..(l - 1) /\ \A i \in c..(e - 1) : i \in c..(l - 1)
    BY <1>1, <1>2, <1>3, <1>6
  <2>2. \A i \in c..(e - 1) : buf[i + 1] # CR
    BY <1>4, <1>5, <2>1
  <2>3. buf[e + 1] = CR
    BY <1>2, <1>4, <2>1
  <2>4. LineEnd = e
    <3>1. /\ e \in rd.m_check_idx..Len(rd.m_read_buf)
          /\ \A i \in rd.m_check_idx..(e - 1) : rd.m_read_buf[i + 1] # CR
          /\ rd.m_read_buf[e + 1] = CR
      BY <2>1, <2>2, <2>3 DEF c, l, buf
    <3> QED BY <3>1, FirstCR
  <2>5. CASE e + 2 <= l
    <3>1. e + 1 \in c..(l - 1) /\ e + 1 + 1 = e + 2 /\ ~(e + 1 >= l)
      BY <1>1, <1>2, <2>1, <2>5
    <3>2. buf[e + 2] = LF
      BY <1>2, <1>4, <3>1
    <3>3. LineStatus(e) = "ok"
      BY <3>1, <3>2 DEF LineStatus, l, buf
    <3> QED BY <2>4, <2>5, <3>3 DEF e, l, buf
  <2>6. CASE ~(e + 2 <= l)
    <3>1. e + 1 >= l
      BY <1>1, <1>2, <2>6
    <3>2. LineStatus(e) = "open"
      BY <3>1 DEF LineStatus, l, buf
    <3>3. e \in c..e
      BY <1>1, <1>2, <2>1
    <3> QED BY <2>4, <2>6, <3>2, <3>3 DEF e, l, c, buf
  <2> QED BY <2>5, <2>6
<1>7. CASE ~(e < l)
  <2>1. l \in c..l /\ l \in c..e /\ ~(e + 2 <= l) /\ l + 1 >= l
        /\ \A i \in c..(l - 1) : i \in c..(e - 1)
    BY <1>1, <1>2, <1>3, <1>7
  <2>2. \A i \in c..(l - 1) : buf[i + 1] # CR
    BY <1>4, <1>5, <2>1
  <2>3. LineEnd = l
    <3>1. /\ l \in rd.m_check_idx..Len(rd.m_read_buf)
          /\ \A i \in rd.m_check_idx..(l - 1) : rd.m_read_buf[i + 1] # CR
          /\ ~(l < Len(rd.m_read_buf))
      BY <1>1, <2>1, <2>2 DEF c, l, buf
    <3> QED BY <3>1, FirstCR
  <2>4. LineStatus(l) = "open"
    BY <2>1 DEF LineStatus, l, buf
  <2> QED BY <2>1, <2>3, <2>4 DEF e, l, c, buf
<1> QED BY <1>6, <1>7

\* The body has no CR: parse_line() runs to its end.
LEMMA LineEndOfBody ==
    ASSUME Parsing(rd), NEW r \in Requests,
           Len(rd.m_read_buf) <= Len(Encode(r)),
           Held(Encode(r), rd.m_read_buf, rd.m_check_idx),
           rd.m_check_idx >= BodyAt(r)
    PROVE  LineEnd = Len(rd.m_read_buf) /\ LineStatus(LineEnd) = "open"
<1> DEFINE E == Encode(r)
           buf == rd.m_read_buf
           c == rd.m_check_idx
           l == Len(buf)
           b == BodyAt(r)
           z == Len(E)
<1>1. /\ l \in Nat /\ c \in Nat /\ c <= l /\ c >= b /\ l <= z
      /\ \A i \in 1..l : i > c => buf[i] = E[i]
  BY LenProperties DEF Parsing, Reading, Held
<1>2. b \in Nat /\ z \in Nat
  <2>1. Len(r.headers) \in Nat /\ Encode(r) \in Seq(Bytes)
    BY RequestType, EncodeShape
  <2> QED BY <2>1, LenProperties DEF BodyAt
<1>3. \A i \in (b + 1)..z : E[i] # CR
  <2>1. 0 \in 0..(Len(r.headers) + 1)
    BY RequestType
  <2> QED BY <2>1, LineShape
<1> HIDE DEF E, l, b, z, c, buf
<1>4. \A i \in c..(l - 1) : buf[i + 1] # CR
  <2> TAKE i \in c..(l - 1)
  <2>1. i + 1 \in 1..l /\ i + 1 > c /\ i + 1 \in (b + 1)..z
    BY <1>1, <1>2
  <2> QED BY <1>1, <1>3, <2>1
<1>5. LineEnd = l
  <2>1. l \in c..l /\ ~(l < l)
    BY <1>1
  <2>2. /\ l \in rd.m_check_idx..Len(rd.m_read_buf)
        /\ \A i \in rd.m_check_idx..(l - 1) : rd.m_read_buf[i + 1] # CR
        /\ ~(l < Len(rd.m_read_buf))
    BY <1>4, <2>1 DEF c, l, buf
  <2> QED BY <2>2, FirstCR
<1>6. LineStatus(l) = "open"
  <2>1. l + 1 >= l
    BY <1>1
  <2> QED BY <2>1 DEF LineStatus, l, buf
<1> QED BY <1>5, <1>6 DEF l, buf

(***************************************************************************)
(* What has been read and analysed.                                        *)
(***************************************************************************)

Lingers(r, k) == \E i \in 1..k : r.headers[i] = "keep"

\* The object as init() leaves it.
Fresh ==
    /\ rd.m_read_buf = <<>> /\ rd.m_check_idx = 0 /\ rd.m_start_line = 0
    /\ rd.m_check_state = "requestline" /\ rd.m_linger = FALSE
    /\ rd.m_content_length = 0

\* The parser p has taken q lines of r, and knows what they say.
AtLine(p, r, q) ==
    /\ p.m_start_line = 3 * q /\ p.m_check_idx \in (3 * q)..CRAt(r, q)
    /\ p.m_check_state = IF q = 0 THEN "requestline" ELSE "header"
    /\ q > 0 => p.m_url = r.line /\ r.line # "junk"
    /\ p.m_linger = Lingers(r, q - 1)
    /\ Announces(r, q - 1, p.m_content_length)

\* It has taken all lines, and waits for the body.
AtBody(p, r) ==
    /\ p.m_start_line >= BodyAt(r)
    /\ p.m_check_state = "content"
    /\ p.m_url = r.line /\ r.line # "junk"
    /\ p.m_linger = Lingers(r, Len(r.headers))
    /\ p.m_content_length = Len(r.body) /\ r.body # <<>>

Following(r) ==
    /\ InFlight(Encode(r), Len(rd.m_read_buf), inbox, client.unsent)
    /\ Held(Encode(r), rd.m_read_buf, rd.m_check_idx)
    /\ (\E q \in 0..(Len(r.headers) + 1) : AtLine(rd, r, q)) \/ AtBody(rd, r)

\* Before a request comes, while it is read, and after that.  The byte count is for
\* StartWrite: it never finds a response of no bytes.
ReadInv ==
    /\ at = "in" /\ client.req = None => Fresh /\ inbox = <<>> /\ client.unsent = <<>>
    /\ at \in {"in", "parse"} /\ client.req # None => Following(client.req)
    /\ client.req # None => Announced(client.req)
    /\ at \in {"parse", "answer", "out", "write"} => client.req # None
    /\ at \in {"answer", "out", "write"} /\ rd.m_linger => inbox = <<>> /\ client.unsent = <<>>
    /\ Sending => wr.byte_to_send # 0
    /\ RightAnswer

\* A body that arrives in one piece is read in one piece, unless the buffer is full.
WholeInv ==
    ~CutBody /\ at \in {"in", "parse"} /\ client.req # None =>
        LET r == client.req
            b == Len(rd.m_read_buf)
            e == Len(Encode(r))
        IN  /\ client.unsent = <<>> \/ Len(client.unsent) >= Len(r.body)
            /\ BodyAt(r) < b /\ b < e => b = BufSize
            /\ AtBody(rd, r) /\ rd.m_check_idx > BodyAt(r) => b = BufSize /\ b < e
            /\ AtBody(rd, r) /\ at = "parse" /\ line_status = "open" => b < e
            /\ at = "in" => b < e

\* Both hold as long as the requests of the connection announced their bodies.
HonestInv == announced => ReadInv
HonestWholeInv == announced => WholeInv

(***************************************************************************)
(* Taking a line.                                                          *)
(***************************************************************************)

\* The parser t has line q in hand.
InHand(t, r, q) ==
    /\ t.m_start_line = 3 * q /\ t.m_check_idx = CRAt(r, q) + 2
    /\ t.m_check_state = IF q = 0 THEN "requestline" ELSE "header"
    /\ q > 0 => t.m_url = r.line /\ r.line # "junk"
    /\ t.m_linger = Lingers(r, q - 1)
    /\ Announces(r, q - 1, t.m_content_length)
    /\ Held(Encode(r), t.m_read_buf, t.m_check_idx)
    /\ Text(t) = IF q <= Len(r.headers) THEN Word(r, q) ELSE NUL

LEMMA LineInHand ==
    ASSUME Parsing(rd), NEW r \in Requests, NEW q \in 0..(Len(r.headers) + 1),
           AtLine(rd, r, q),
           Len(rd.m_read_buf) <= Len(Encode(r)),
           Held(Encode(r), rd.m_read_buf, rd.m_check_idx),
           LineStatus(LineEnd) = "ok"
    PROVE  /\ Parsing(LineTaken(LineEnd)) /\ InHand(LineTaken(LineEnd), r, q)
           /\ Len(LineTaken(LineEnd).m_read_buf) = Len(rd.m_read_buf)
           /\ CRAt(r, q) + 2 <= Len(rd.m_read_buf)
<1> DEFINE e   == CRAt(r, q)
           buf == rd.m_read_buf
           l   == Len(buf)
           b1  == [buf EXCEPT ![e + 1] = NUL]
           b2  == [b1 EXCEPT ![e + 2] = NUL]
           t   == LineTaken(e)
           E   == Encode(r)
           c   == rd.m_check_idx
           s   == 3 * q
<1>1. LineEnd = e /\ e + 2 <= l
  <2>1. c \in s..e
    BY DEF AtLine
  <2>2. "ok" # "open"
    OBVIOUS
  <2> QED BY <2>1, <2>2, LineEndOfLine
<1>2. /\ q \in Nat /\ s \in Nat /\ e \in Nat /\ s <= e /\ c \in s..e
      /\ E[e + 1] = CR /\ E[e + 2] = LF
      /\ q <= Len(r.headers) => e = s + 1 /\ E[s + 1] = Word(r, q)
                                /\ Word(r, q) \notin {CR, LF}
      /\ ~(q <= Len(r.headers)) => e = s
  <2>1. q \in Nat /\ s \in Nat
    BY RequestType
  <2>2. /\ e \in Nat /\ s <= e /\ E[e + 1] = CR /\ E[e + 2] = LF
        /\ \A i \in s..(e - 1) : E[i + 1] \notin {CR, LF}
    BY LineShape
  <2>3. c \in s..e
    BY DEF AtLine
  <2>4. ASSUME q <= Len(r.headers)
        PROVE  e = s + 1 /\ E[s + 1] = Word(r, q) /\ Word(r, q) \notin {CR, LF}
    <3>1. q \in 0..Len(r.headers)
      BY <2>1, <2>4, RequestType
    <3>2. e = s + 1
      BY <2>4 DEF CRAt
    <3>3. E[s + 1] = Word(r, q)
      BY <3>1, EncodeShape
    <3>4. s \in s..(e - 1)
      BY <2>1, <3>2
    <3> QED BY <2>2, <3>2, <3>3, <3>4
  <2>5. ASSUME ~(q <= Len(r.headers)) PROVE e = s
    BY <2>5 DEF CRAt
  <2> QED BY <2>1, <2>2, <2>3, <2>4, <2>5
<1>3. l \in Nat /\ buf \in Seq(Bytes) /\ rd \in Reading /\ NUL \in Bytes
  BY LenProperties DEF Parsing, Reading, Bytes
<1> HIDE DEF e, l, E, s, c
<1>4. /\ b1 \in Seq(Bytes) /\ Len(b1) = l
      /\ \A j \in 1..l : b1[j] = IF j = e + 1 THEN NUL ELSE buf[j]
  <2>1. e + 1 \in 1..l
    BY <1>1, <1>2, <1>3
  <2> HIDE DEF buf
  <2> QED BY <1>3, <2>1, ExceptSeq DEF l
<1>5. /\ b2 \in Seq(Bytes) /\ Len(b2) = l
      /\ \A j \in 1..l : b2[j] = IF j = e + 2 THEN NUL ELSE b1[j]
  <2>1. e + 2 \in 1..l
    BY <1>1, <1>2, <1>3
  <2> HIDE DEF b1
  <2> QED BY <1>3, <1>4, <2>1, ExceptSeq
<1>6. t = [rd EXCEPT !.m_read_buf = b2, !.m_check_idx = e + 2]
  BY <1>3 DEF LineTaken, Reading
<1> HIDE DEF b1, b2
<1>7. /\ t.m_read_buf = b2 /\ t.m_check_idx = e + 2 /\ t.m_start_line = rd.m_start_line
      /\ t.m_check_state = rd.m_check_state /\ t.m_linger = rd.m_linger
      /\ t.m_content_length = rd.m_content_length /\ t.m_url = rd.m_url
  BY <1>3, <1>6 DEF Reading
<1>8. Parsing(t) /\ Len(t.m_read_buf) = l
  <2>1. /\ t \in Reading /\ Len(t.m_read_buf) = Len(rd.m_read_buf)
        /\ t.m_check_idx <= Len(rd.m_read_buf)
    BY <1>1, LineTakenOK
  <2>2. rd.m_start_line \in Nat /\ c \in Nat /\ rd.m_start_line <= c
    BY DEF Parsing, Reading, c
  <2>3. t.m_start_line <= t.m_check_idx
    BY <1>2, <1>7, <2>2
  <2> QED BY <2>1, <2>3 DEF Parsing, l
<1> HIDE DEF t
<1>9. \A j \in 1..l : j > c \/ E[j] \notin {CR, LF} => buf[j] = E[j]
  BY DEF Held, l, c, E
<1>10. Held(E, b2, e + 2)
  <2> SUFFICES ASSUME NEW j \in 1..l, j > e + 2 \/ E[j] \notin {CR, LF}
               PROVE  b2[j] = E[j]
    BY <1>5 DEF Held
  <2>1. j # e + 1 /\ j # e + 2
    <3>1. CASE j > e + 2
      BY <1>2, <3>1
    <3>2. CASE E[j] \notin {CR, LF}
      BY <1>2, <3>2
    <3> QED BY <3>1, <3>2
  <2>2. b2[j] = buf[j]
    BY <1>4, <1>5, <2>1
  <2>3. j > c \/ E[j] \notin {CR, LF}
    BY <1>2
  <2> QED BY <1>9, <2>2, <2>3
<1>11. Text(t) = IF q <= Len(r.headers) THEN Word(r, q) ELSE NUL
  <2>1. t.m_start_line = s
    BY <1>7 DEF AtLine, s
  <2>2. s < l /\ s + 1 \in 1..l
    BY <1>1, <1>2, <1>3
  <2>3. Text(t) = b2[s + 1]
    BY <1>7, <1>8, <2>1, <2>2 DEF Text
  <2>4. CASE q <= Len(r.headers)
    <3>1. s + 1 # e + 1 /\ s + 1 # e + 2
      BY <1>2, <2>4
    <3>2. b2[s + 1] = buf[s + 1]
      BY <1>4, <1>5, <2>2, <3>1
    <3>3. buf[s + 1] = E[s + 1]
      BY <1>2, <1>9, <2>2, <2>4
    <3> QED BY <1>2, <2>3, <2>4, <3>2, <3>3
  <2>5. CASE ~(q <= Len(r.headers))
    <3>1. s + 1 = e + 1 /\ s + 1 # e + 2
      BY <1>2, <2>5
    <3>2. b2[s + 1] = NUL
      BY <1>4, <1>5, <2>2, <3>1
    <3> QED BY <2>3, <2>5, <3>2
  <2> QED BY <2>4, <2>5
<1>12. InHand(t, r, q)
  <2>1. /\ t.m_start_line = 3 * q /\ t.m_check_idx = CRAt(r, q) + 2
        /\ t.m_check_state = IF q = 0 THEN "requestline" ELSE "header"
        /\ q > 0 => t.m_url = r.line /\ r.line # "junk"
        /\ t.m_linger = Lingers(r, q - 1)
        /\ Announces(r, q - 1, t.m_content_length)
    BY <1>7 DEF AtLine, e
  <2>2. Held(Encode(r), t.m_read_buf, t.m_check_idx)
    BY <1>7, <1>10 DEF E
  <2> QED BY <1>11, <2>1, <2>2 DEF InHand
<1> QED BY <1>1, <1>8, <1>12 DEF t, l, e

LEMMA LingersNext ==
    ASSUME NEW r, NEW k \in Int
    PROVE  /\ k <= 0 => Lingers(r, k) = FALSE
           /\ k \in Nat /\ r.headers[k + 1] = "keep" => Lingers(r, k + 1) = TRUE
           /\ k \in Nat /\ r.headers[k + 1] # "keep" => Lingers(r, k + 1) = Lingers(r, k)
<1>1. ASSUME k <= 0 PROVE Lingers(r, k) = FALSE
  <2>1. \A i \in 1..k : FALSE
    BY <1>1
  <2> QED BY <2>1, Zenon DEF Lingers
<1>2. ASSUME k \in Nat, r.headers[k + 1] = "keep" PROVE Lingers(r, k + 1) = TRUE
  <2>1. k + 1 \in 1..(k + 1)
    BY <1>2
  <2> QED BY <1>2, <2>1, Zenon DEF Lingers
<1>3. ASSUME k \in Nat, r.headers[k + 1] # "keep" PROVE Lingers(r, k + 1) = Lingers(r, k)
  <2>1. /\ \A i \in 1..(k + 1) : i \in 1..k \/ i = k + 1
        /\ \A i \in 1..k : i \in 1..(k + 1)
    BY <1>3
  <2> QED BY <1>3, <2>1, Zenon DEF Lingers
<1> QED BY <1>1, <1>2, <1>3

\* process_read() goes on after a line of r, with l bytes read.
WentOn(r, l) ==
    /\ at' = "parse" /\ line_status' = "ok"
    /\ Len(rd'.m_read_buf) = l
    /\ Held(Encode(r), rd'.m_read_buf, rd'.m_check_idx)
    /\ \/ \E q \in 0..(Len(r.headers) + 1) : AtLine(rd', r, q)
       \/ AtBody(rd', r) /\ rd'.m_check_idx = BodyAt(r)

\* It returns what r says, with l bytes read.
Said(r, l) ==
    /\ at' = "answer"
    /\ IF r.line = "junk" THEN ret' = "BAD_REQUEST" /\ rd'.m_linger = FALSE
       ELSE /\ ret' = do_request(r.line)
            /\ l = Len(Encode(r))
            /\ rd'.m_linger = Lingers(r, Len(r.headers))
            /\ r.body # <<>> => rd'.m_string = r.body

\* The parser moved on from line q: its fields.
LEMMA MovedOn ==
    ASSUME NEW t, Parsing(t), NEW r \in Requests, NEW q \in 0..(Len(r.headers) + 1),
           InHand(t, r, q)
    PROVE  LET moved == [t EXCEPT !.m_start_line = t.m_check_idx]
           IN  /\ moved \in Reading
               /\ moved.m_read_buf = t.m_read_buf
               /\ moved.m_check_idx = CRAt(r, q) + 2 /\ moved.m_start_line = CRAt(r, q) + 2
               /\ moved.m_check_state = IF q = 0 THEN "requestline" ELSE "header"
               /\ q > 0 => moved.m_url = r.line /\ r.line # "junk"
               /\ moved.m_linger = Lingers(r, q - 1)
               /\ Announces(r, q - 1, moved.m_content_length)
               /\ Held(Encode(r), moved.m_read_buf, moved.m_check_idx)
BY DEF Parsing, Reading, InHand

\* A parser that has taken one line more.
LEMMA OneLineMore ==
    ASSUME NEW p, NEW r \in Requests, NEW q \in 0..Len(r.headers),
           p.m_check_idx = CRAt(r, q) + 2, p.m_start_line = CRAt(r, q) + 2,
           p.m_check_state = "header", p.m_url = r.line, r.line # "junk",
           p.m_linger = Lingers(r, q), Announces(r, q, p.m_content_length)
    PROVE  \E i \in 0..(Len(r.headers) + 1) : AtLine(p, r, i)
<1>1. Len(r.headers) \in Nat /\ q \in Nat /\ q + 1 \in 0..(Len(r.headers) + 1) /\ (q + 1) - 1 = q
      /\ q + 1 > 0 /\ q + 1 # 0
  BY RequestType
<1>2. CRAt(r, q) + 2 = 3 * (q + 1)
  BY <1>1 DEF CRAt
<1>3. 3 * (q + 1) <= CRAt(r, q + 1) /\ CRAt(r, q + 1) \in Nat
  BY <1>1, LineShape
<1>4. p.m_check_idx \in (3 * (q + 1))..CRAt(r, q + 1)
  BY <1>1, <1>2, <1>3
<1>5. AtLine(p, r, q + 1)
  BY <1>1, <1>2, <1>4 DEF AtLine
<1> QED BY <1>1, <1>5

LEMMA RequestLineRead ==
    ASSUME NEW t, Parsing(t), NEW r \in Requests, InHand(t, r, 0),
           at = "parse", Analyze(t)
    PROVE  WentOn(r, Len(t.m_read_buf)) \/ Said(r, Len(t.m_read_buf))
<1> DEFINE moved == [t EXCEPT !.m_start_line = t.m_check_idx]
           p == [moved EXCEPT !.m_url = r.line, !.m_check_state = "header"]
<1>1. Len(r.headers) \in Nat /\ 0 \in 0..(Len(r.headers) + 1) /\ 0 \in 0..Len(r.headers)
      /\ r.line \in Lines /\ 0 <= Len(r.headers)
  BY RequestType
<1>2. /\ moved \in Reading
      /\ moved.m_read_buf = t.m_read_buf
      /\ moved.m_check_idx = CRAt(r, 0) + 2 /\ moved.m_start_line = CRAt(r, 0) + 2
      /\ moved.m_linger = Lingers(r, 0 - 1)
      /\ Announces(r, 0 - 1, moved.m_content_length)
      /\ Held(Encode(r), moved.m_read_buf, moved.m_check_idx)
  BY <1>1, MovedOn
<1>3. t.m_check_state = "requestline" /\ Text(t) = r.line
  <2>1. Word(r, 0) = r.line
    BY DEF Word
  <2>2. /\ t.m_check_state = IF 0 = 0 THEN "requestline" ELSE "header"
        /\ Text(t) = IF 0 <= Len(r.headers) THEN Word(r, 0) ELSE NUL
    BY Zenon DEF InHand
  <2> QED BY <1>1, <2>1, <2>2
<1>4. analyze_request_line(moved, r.line)
  BY <1>3 DEF Analyze
<1>5. Lingers(r, 0 - 1) = FALSE /\ Lingers(r, 0) = FALSE
  <2>1. 0 - 1 \in Int /\ 0 - 1 <= 0 /\ 0 \in Int /\ 0 <= 0
    OBVIOUS
  <2>2. \A k \in Int : k <= 0 => Lingers(r, k) = FALSE
    BY LingersNext, Zenon
  <2> QED BY <2>1, <2>2, Zenon
<1>6. Announces(r, 0, moved.m_content_length)
  <2>1. moved.m_content_length = 0
    BY <1>2, AnnouncesNone
  <2>2. \A i \in 1..0 : FALSE
    OBVIOUS
  <2> QED BY <2>1, <2>2, Zenon DEF Announces
<1> HIDE DEF moved
<1>7. CASE r.line = "junk"
  <2>1. Return(moved, "BAD_REQUEST")
    BY <1>4, <1>7 DEF analyze_request_line
  <2> QED BY <1>2, <1>5, <1>7, <2>1 DEF Return, Said
<1>8. CASE r.line # "junk"
  <2>1. GoOn(p)
    BY <1>1, <1>4, <1>8 DEF analyze_request_line
  <2>2. /\ p.m_read_buf = moved.m_read_buf
        /\ p.m_check_idx = moved.m_check_idx /\ p.m_start_line = moved.m_start_line
        /\ p.m_check_state = "header" /\ p.m_url = r.line
        /\ p.m_linger = moved.m_linger /\ p.m_content_length = moved.m_content_length
    BY <1>2 DEF Reading
  <2> HIDE DEF p
  <2>3. \E i \in 0..(Len(r.headers) + 1) : AtLine(p, r, i)
    <3>1. /\ p.m_check_idx = CRAt(r, 0) + 2 /\ p.m_start_line = CRAt(r, 0) + 2
          /\ p.m_linger = Lingers(r, 0) /\ Announces(r, 0, p.m_content_length)
      BY <1>2, <1>5, <1>6, <2>2
    <3> QED BY <1>1, <1>8, <2>2, <3>1, OneLineMore
  <2>4. rd' = p /\ line_status' = "ok" /\ at' = "parse"
    BY <2>1 DEF GoOn
  <2> QED BY <1>2, <2>2, <2>3, <2>4 DEF WentOn
<1> QED BY <1>7, <1>8

LEMMA HeaderRead ==
    ASSUME NEW t, Parsing(t), NEW r \in Requests, NEW q \in 1..Len(r.headers),
           InHand(t, r, q), at = "parse", Analyze(t)
    PROVE  WentOn(r, Len(t.m_read_buf))
<1> DEFINE moved == [t EXCEPT !.m_start_line = t.m_check_idx]
           h == r.headers[q]
           n == moved.m_content_length
<1>1. /\ Len(r.headers) \in Nat /\ q \in Nat /\ q # 0 /\ q > 0 /\ q <= Len(r.headers)
      /\ q \in 0..(Len(r.headers) + 1) /\ q \in 0..Len(r.headers)
      /\ q - 1 \in Nat /\ q - 1 \in Int /\ (q - 1) + 1 = q
  BY RequestType
<1>2. /\ moved \in Reading
      /\ moved.m_read_buf = t.m_read_buf
      /\ moved.m_check_idx = CRAt(r, q) + 2 /\ moved.m_start_line = CRAt(r, q) + 2
      /\ moved.m_check_state = "header"
      /\ moved.m_url = r.line /\ r.line # "junk"
      /\ moved.m_linger = Lingers(r, q - 1)
      /\ Announces(r, q - 1, n)
      /\ Held(Encode(r), moved.m_read_buf, moved.m_check_idx)
  <2>1. /\ moved \in Reading
        /\ moved.m_read_buf = t.m_read_buf
        /\ moved.m_check_idx = CRAt(r, q) + 2 /\ moved.m_start_line = CRAt(r, q) + 2
        /\ moved.m_check_state = IF q = 0 THEN "requestline" ELSE "header"
        /\ q > 0 => moved.m_url = r.line /\ r.line # "junk"
        /\ moved.m_linger = Lingers(r, q - 1)
        /\ Announces(r, q - 1, moved.m_content_length)
        /\ Held(Encode(r), moved.m_read_buf, moved.m_check_idx)
    BY <1>1, MovedOn
  <2> HIDE DEF moved
  <2> QED BY <1>1, <2>1
<1>3. t.m_check_state = "header" /\ Text(t) = h
  <2>1. Word(r, q) = h
    BY <1>1 DEF Word
  <2>2. /\ t.m_check_state = IF q = 0 THEN "requestline" ELSE "header"
        /\ Text(t) = IF q <= Len(r.headers) THEN Word(r, q) ELSE NUL
    BY Zenon DEF InHand
  <2> QED BY <1>1, <2>1, <2>2
<1>4. analyze_request_header(moved, h)
  BY <1>3 DEF Analyze
<1>5. h \in Headers /\ h # NUL
  BY RequestType, Marks
<1>6. /\ h = "keep" => Lingers(r, q) = TRUE
      /\ h # "keep" => Lingers(r, q) = Lingers(r, q - 1)
  <2>1. \A k \in Int : /\ k \in Nat /\ r.headers[k + 1] = "keep" => Lingers(r, k + 1) = TRUE
                       /\ k \in Nat /\ r.headers[k + 1] # "keep" =>
                             Lingers(r, k + 1) = Lingers(r, k)
    BY LingersNext, Zenon
  <2>2. /\ r.headers[(q - 1) + 1] = "keep" => Lingers(r, (q - 1) + 1) = TRUE
        /\ r.headers[(q - 1) + 1] # "keep" => Lingers(r, (q - 1) + 1) = Lingers(r, q - 1)
    BY <1>1, <2>1, Zenon
  <2> QED BY <1>1, <2>2
<1>7. /\ h \in DOMAIN Lengths => Announces(r, q, Lengths[h])
      /\ h \notin DOMAIN Lengths => Announces(r, q, n)
  <2> HIDE DEF n
  <2>1. /\ r.headers[(q - 1) + 1] \in DOMAIN Lengths =>
              Announces(r, (q - 1) + 1, Lengths[r.headers[(q - 1) + 1]])
        /\ r.headers[(q - 1) + 1] \notin DOMAIN Lengths => Announces(r, (q - 1) + 1, n)
    BY <1>1, <1>2, AnnouncesNext
  <2> QED BY <1>1, <2>1
<1> HIDE DEF moved
<1>8. ASSUME NEW p, GoOn(p), p.m_read_buf = moved.m_read_buf,
             p.m_check_idx = moved.m_check_idx, p.m_start_line = moved.m_start_line,
             p.m_check_state = "header", p.m_url = moved.m_url,
             p.m_linger = Lingers(r, q), Announces(r, q, p.m_content_length)
      PROVE  WentOn(r, Len(t.m_read_buf))
  <2>1. \E i \in 0..(Len(r.headers) + 1) : AtLine(p, r, i)
    <3>1. /\ p.m_check_idx = CRAt(r, q) + 2 /\ p.m_start_line = CRAt(r, q) + 2
          /\ p.m_url = r.line /\ r.line # "junk"
      BY <1>2, <1>8
    <3> QED BY <1>1, <1>8, <3>1, OneLineMore
  <2>2. rd' = p /\ line_status' = "ok" /\ at' = "parse"
    BY <1>8 DEF GoOn
  <2> QED BY <1>2, <1>8, <2>1, <2>2 DEF WentOn
<1>9. "keep" \notin DOMAIN Lengths
  BY DEF Lengths
<1>10. CASE h = "keep"
  <2> DEFINE p == [moved EXCEPT !.m_linger = TRUE]
  <2>1. GoOn(p)
    BY <1>4, <1>5, <1>9, <1>10 DEF analyze_request_header
  <2>2. /\ p.m_read_buf = moved.m_read_buf
        /\ p.m_check_idx = moved.m_check_idx /\ p.m_start_line = moved.m_start_line
        /\ p.m_check_state = moved.m_check_state /\ p.m_url = moved.m_url
        /\ p.m_linger = TRUE /\ p.m_content_length = n
    BY <1>2 DEF Reading
  <2> HIDE DEF p, n, h
  <2>3. p.m_linger = Lingers(r, q) /\ Announces(r, q, p.m_content_length)
    BY <1>6, <1>7, <1>9, <1>10, <2>2
  <2> QED BY <1>2, <1>8, <2>1, <2>2, <2>3
<1>11. CASE h # "keep" /\ h \in DOMAIN Lengths
  <2> DEFINE p == [moved EXCEPT !.m_content_length = Lengths[h]]
  <2>1. GoOn(p)
    <3> HIDE DEF Lengths
    <3> QED BY <1>4, <1>5, <1>11 DEF analyze_request_header
  <2>2. /\ p.m_read_buf = moved.m_read_buf
        /\ p.m_check_idx = moved.m_check_idx /\ p.m_start_line = moved.m_start_line
        /\ p.m_check_state = moved.m_check_state /\ p.m_url = moved.m_url
        /\ p.m_linger = moved.m_linger /\ p.m_content_length = Lengths[h]
    BY <1>2 DEF Reading
  <2> HIDE DEF p, n, h
  <2>3. p.m_linger = Lingers(r, q) /\ Announces(r, q, p.m_content_length)
    BY <1>2, <1>6, <1>7, <1>11, <2>2
  <2> QED BY <1>2, <1>8, <2>1, <2>2, <2>3
<1>12. CASE h # "keep" /\ h \notin DOMAIN Lengths
  <2>1. GoOn(moved)
    BY <1>4, <1>5, <1>12 DEF analyze_request_header
  <2>2. moved.m_linger = Lingers(r, q) /\ Announces(r, q, moved.m_content_length)
    BY <1>2, <1>6, <1>7, <1>12
  <2> QED BY <1>2, <1>8, <2>1, <2>2
<1> QED BY <1>10, <1>11, <1>12

\* The empty line ends the request, or the body comes.
LEMMA EmptyLineRead ==
    ASSUME NEW t, Parsing(t), NEW r \in Requests, InHand(t, r, Len(r.headers) + 1),
           CRAt(r, Len(r.headers) + 1) + 2 <= Len(t.m_read_buf), Announced(r),
           Len(t.m_read_buf) <= Len(Encode(r)), at = "parse", Analyze(t)
    PROVE  WentOn(r, Len(t.m_read_buf)) \/ Said(r, Len(t.m_read_buf))
<1> DEFINE moved == [t EXCEPT !.m_start_line = t.m_check_idx]
           k == Len(r.headers)
           q == k + 1
           b == Len(r.body)
           p == [moved EXCEPT !.m_check_state = "content"]
<1>1. /\ k \in Nat /\ q \in Nat /\ q # 0 /\ q > 0 /\ ~(q <= k) /\ q - 1 = k
      /\ q \in 0..(k + 1) /\ b \in Nat
  BY RequestType
<1>2. CRAt(r, q) + 2 = BodyAt(r) /\ BodyAt(r) \in Nat
  BY <1>1 DEF CRAt, BodyAt
<1>3. /\ moved \in Reading
      /\ moved.m_read_buf = t.m_read_buf
      /\ moved.m_check_idx = BodyAt(r) /\ moved.m_start_line = BodyAt(r)
      /\ moved.m_check_state = "header"
      /\ moved.m_url = r.line /\ r.line # "junk"
      /\ moved.m_linger = Lingers(r, k)
      /\ Announces(r, k, moved.m_content_length)
      /\ Held(Encode(r), moved.m_read_buf, moved.m_check_idx)
  <2>1. /\ moved \in Reading
        /\ moved.m_read_buf = t.m_read_buf
        /\ moved.m_check_idx = CRAt(r, q) + 2 /\ moved.m_start_line = CRAt(r, q) + 2
        /\ moved.m_check_state = IF q = 0 THEN "requestline" ELSE "header"
        /\ q > 0 => moved.m_url = r.line /\ r.line # "junk"
        /\ moved.m_linger = Lingers(r, q - 1)
        /\ Announces(r, q - 1, moved.m_content_length)
        /\ Held(Encode(r), moved.m_read_buf, moved.m_check_idx)
    BY <1>1, MovedOn
  <2> HIDE DEF moved
  <2> QED BY <1>1, <1>2, <2>1
<1>4. t.m_check_state = "header" /\ Text(t) = NUL
  <2>1. /\ t.m_check_state = IF q = 0 THEN "requestline" ELSE "header"
        /\ Text(t) = IF q <= Len(r.headers) THEN Word(r, q) ELSE NUL
    BY Zenon DEF InHand
  <2> QED BY <1>1, <2>1
<1>5. analyze_request_header(moved, NUL)
  BY <1>4 DEF Analyze
<1>6. moved.m_content_length = b
  <2>1. Announces(r, k, b)
    BY DEF Announced
  <2> HIDE DEF moved, b
  <2> QED BY <1>1, <1>3, <2>1, AnnouncesOnce
<1>7. NUL # "keep" /\ NUL \notin DOMAIN Lengths
  BY DEF NUL, Lengths
<1> HIDE DEF moved
<1>8. CASE b = 0
  <2>1. Return(moved, do_request(moved.m_url))
    BY <1>5, <1>6, <1>7, <1>8 DEF analyze_request_header
  <2>2. rd' = moved /\ ret' = do_request(r.line) /\ at' = "answer"
    BY <1>3, <2>1 DEF Return
  <2>3. Len(t.m_read_buf) = Len(Encode(r))
    <3>1. Len(Encode(r)) = BodyAt(r)
      BY <1>2, <1>8, EncodeShape
    <3>2. BodyAt(r) <= Len(t.m_read_buf) /\ Len(t.m_read_buf) \in Nat
      BY <1>2, LenProperties DEF Parsing, Reading
    <3> QED BY <1>2, <3>1, <3>2
  <2>4. r.body = <<>>
    BY <1>8, RequestType, EmptySeq
  <2> QED BY <1>3, <2>2, <2>3, <2>4 DEF Said
<1>9. CASE b # 0
  <2>1. GoOn(p)
    BY <1>5, <1>6, <1>7, <1>9 DEF analyze_request_header
  <2>2. /\ p.m_read_buf = moved.m_read_buf
        /\ p.m_check_idx = moved.m_check_idx /\ p.m_start_line = moved.m_start_line
        /\ p.m_check_state = "content" /\ p.m_url = moved.m_url
        /\ p.m_linger = moved.m_linger /\ p.m_content_length = moved.m_content_length
    BY <1>3 DEF Reading
  <2> HIDE DEF p
  <2>3. rd' = p /\ line_status' = "ok" /\ at' = "parse"
    BY <2>1 DEF GoOn
  <2>4. r.body # <<>>
    BY <1>9, EmptySeq
  <2>5. AtBody(p, r)
    <3>1. BodyAt(r) >= BodyAt(r)
      BY <1>2
    <3> QED BY <1>3, <1>6, <2>2, <2>4, <3>1 DEF AtBody
  <2> QED BY <1>3, <2>2, <2>3, <2>5 DEF WentOn
<1> QED BY <1>8, <1>9

(***************************************************************************)
(* Taking the body.                                                        *)
(***************************************************************************)

\* process_read() has looked for the body in vain: its loop goes on with an open line.
NotWhole(r) ==
    /\ AtBody(rd, r) /\ AtBody(rd', r)
    /\ at' = "parse" /\ line_status' = "open"
    /\ rd'.m_read_buf = rd.m_read_buf /\ rd'.m_check_idx = rd.m_check_idx
    /\ Len(rd.m_read_buf) < Len(r.body) + rd.m_check_idx

LEMMA BodyRead ==
    ASSUME Parsing(rd), NEW r \in Requests, AtBody(rd, r),
           Len(rd.m_read_buf) <= Len(Encode(r)),
           Held(Encode(r), rd.m_read_buf, rd.m_check_idx), at = "parse", Analyze(rd)
    PROVE  Said(r, Len(rd.m_read_buf)) \/ NotWhole(r)
<1> DEFINE moved == [rd EXCEPT !.m_start_line = rd.m_check_idx]
           buf == rd.m_read_buf
           l == Len(buf)
           c == rd.m_check_idx
           s == rd.m_start_line
           b == Len(r.body)
           a == BodyAt(r)
           E == Encode(r)
           text == SubSeq(buf, s + 1, s + b)
           p == Ended(moved, s)
<1>1. /\ l \in Nat /\ c \in Nat /\ s \in Nat /\ s <= c /\ c <= l /\ b \in Nat
      /\ a \in Nat /\ s >= a /\ rd \in Reading /\ buf \in Seq(Bytes)
  <2>1. Len(r.headers) \in Nat /\ b \in Nat
    BY RequestType
  <2>2. a \in Nat
    BY <2>1 DEF BodyAt
  <2>3. l \in Nat
    BY LenProperties DEF Parsing, Reading
  <2> QED BY <2>1, <2>2, <2>3 DEF Parsing, Reading, AtBody
<1>2. /\ moved \in Reading
      /\ moved.m_read_buf = buf /\ moved.m_check_idx = c /\ moved.m_start_line = c
      /\ moved.m_check_state = "content" /\ moved.m_url = r.line /\ r.line # "junk"
      /\ moved.m_linger = Lingers(r, Len(r.headers))
      /\ moved.m_content_length = b /\ r.body # <<>>
  BY <1>1 DEF Reading, AtBody
<1>3. analyze_content(moved, s)
  BY <1>2 DEF Analyze, AtBody
<1>4. Len(E) = a + b /\ l <= Len(E)
  BY EncodeShape
<1> HIDE DEF moved, b, a
<1>5. CASE l >= b + c
  <2>1. l = a + b /\ s = a /\ c = a
    <3> HIDE DEF l, c, s, E
    <3> QED BY <1>1, <1>4, <1>5
  <2>2. Return(p, do_request(r.line))
    <3> HIDE DEF p
    <3> QED BY <1>2, <1>3, <1>5 DEF analyze_content, p
  <2>3. \A j \in 1..b : buf[a + j] = r.body[j]
    <3> TAKE j \in 1..b
    <3>1. a + j \in 1..l /\ a + j > c
      <4> HIDE DEF l, c
      <4> QED BY <1>1, <2>1
    <3>2. buf[a + j] = E[a + j]
      BY <3>1 DEF Held
    <3>3. E[a + j] = r.body[j]
      BY EncodeShape DEF a, b
    <3> QED BY <3>2, <3>3
  <2>4. r.body \in Seq(Bytes) /\ \A j \in 1..b : r.body[j] \in Bytes
    <3>1. r.body \in Seq({"b"}) /\ {"b"} \subseteq Bytes
      BY RequestType DEF Bytes
    <3>2. r.body \in Seq(Bytes)
      BY <3>1, SeqMonotonic
    <3> QED BY <3>2, ElementOfSeq DEF b
  <2>5. text = r.body
    <3>1. \A i \in (a + 1)..(a + b) : buf[i] \in Bytes
      <4> TAKE i \in (a + 1)..(a + b)
      <4>1. i - a \in 1..b /\ a + (i - a) = i
        BY <1>1
      <4> QED BY <2>3, <2>4, <4>1
    <3>2. a + 1 \in Int /\ a + b \in Int
      BY <1>1
    <3>3. /\ SubSeq(buf, a + 1, a + b) \in Seq(Bytes)
          /\ Len(SubSeq(buf, a + 1, a + b)) = IF a + 1 <= a + b THEN (a + b) - (a + 1) + 1 ELSE 0
          /\ \A i \in 1..((a + b) - (a + 1) + 1) : SubSeq(buf, a + 1, a + b)[i] = buf[a + 1 + i - 1]
      <4> DEFINE m == a + 1
                 n == a + b
      <4>1. m \in Int /\ n \in Int /\ \A i \in m..n : buf[i] \in Bytes
        BY <3>1, <3>2
      <4> HIDE DEF m, n
      <4>2. /\ SubSeq(buf, m, n) \in Seq(Bytes)
            /\ Len(SubSeq(buf, m, n)) = IF m <= n THEN n - m + 1 ELSE 0
            /\ \A i \in 1..(n - m + 1) : SubSeq(buf, m, n)[i] = buf[m + i - 1]
        BY <4>1, SubSeqProperties
      <4> QED BY <4>2 DEF m, n
    <3>4. Len(SubSeq(buf, a + 1, a + b)) = b
      BY <1>1, <3>3
    <3>5. \A j \in 1..b : SubSeq(buf, a + 1, a + b)[j] = r.body[j]
      <4> TAKE j \in 1..b
      <4>1. j \in 1..((a + b) - (a + 1) + 1) /\ a + 1 + j - 1 = a + j
        BY <1>1
      <4> QED BY <2>3, <3>3, <4>1
    <3>6. SubSeq(buf, a + 1, a + b) = r.body
      <4>1. Len(r.body) = b
        BY DEF b
      <4> QED BY <2>4, <3>3, <3>4, <3>5, <4>1, SeqEqual
    <3> QED BY <2>1, <3>6
  <2>6. p.m_string = text /\ p.m_linger = moved.m_linger
    <3>1. ~(moved.m_content_length < 0) /\ s + moved.m_content_length = s + b
      BY <1>1, <1>2
    <3>2. p.m_string = SubSeq(moved.m_read_buf, s + 1, s + b) /\ p.m_linger = moved.m_linger
      BY <1>2, <3>1 DEF Ended, Reading
    <3> QED BY <1>2, <3>2
  <2>7. rd' = p /\ ret' = do_request(r.line) /\ at' = "answer"
    BY <2>2 DEF Return
  <2> HIDE DEF p, text
  <2> QED BY <1>2, <1>4, <2>1, <2>5, <2>6, <2>7 DEF Said
<1>6. CASE ~(l >= b + c)
  <2>1. rd' = moved /\ line_status' = "open" /\ at' = "parse"
    BY <1>2, <1>3, <1>6 DEF analyze_content
  <2>2. l < b + c
    <3> HIDE DEF l, c
    <3> QED BY <1>1, <1>6
  <2>3. c >= BodyAt(r)
    <3> HIDE DEF c, s
    <3> QED BY <1>1 DEF a
  <2>4. AtBody(moved, r)
    BY <1>2, <2>3 DEF AtBody, b
  <2> QED BY <1>2, <2>1, <2>2, <2>4 DEF NotWhole, b
<1> QED BY <1>5, <1>6

(***************************************************************************)
(* A turn of process_read()'s loop.                                        *)
(***************************************************************************)

\* process_read() gives up for the moment: within a line, or within the body.
WaitsForLine(r) ==
    /\ at' = "in" /\ rd'.m_read_buf = rd.m_read_buf
    /\ Held(Encode(r), rd'.m_read_buf, rd'.m_check_idx)
    /\ \E q \in 0..(Len(r.headers) + 1) : AtLine(rd', r, q)
    /\ Len(rd.m_read_buf) < Len(Encode(r))

WaitsForBody(r) ==
    /\ at' = "in" /\ line_status = "open" /\ AtBody(rd, r)
    /\ rd'.m_read_buf = rd.m_read_buf /\ rd'.m_check_idx = Len(rd.m_read_buf)
    /\ Held(Encode(r), rd'.m_read_buf, rd'.m_check_idx)
    /\ AtBody(rd', r)

\* The marks that may be gone are those before a later index too.
LEMMA HeldLater ==
    ASSUME NEW E, NEW buf \in Seq(Bytes), NEW c \in Nat, NEW d \in Nat, c <= d, Held(E, buf, c)
    PROVE  Held(E, buf, d)
<1>1. Len(buf) \in Nat
  BY LenProperties
<1> QED BY <1>1 DEF Held

LEMMA LineOpen ==
    ASSUME Parsing(rd), NEW r \in Requests, NEW q \in 0..(Len(r.headers) + 1),
           AtLine(rd, r, q), Len(rd.m_read_buf) <= Len(Encode(r)),
           Held(Encode(r), rd.m_read_buf, rd.m_check_idx),
           LineStatus(LineEnd) # "ok",
           rd' = [rd EXCEPT !.m_check_idx = LineEnd], at' = "in"
    PROVE  WaitsForLine(r)
<1>1. /\ ~(CRAt(r, q) + 2 <= Len(rd.m_read_buf))
      /\ LineEnd \in rd.m_check_idx..CRAt(r, q)
  <2>1. rd.m_check_idx \in (3 * q)..CRAt(r, q)
    BY DEF AtLine
  <2> QED BY <2>1, LineEndOfLine
<1>2. /\ Len(rd.m_read_buf) \in Nat /\ Len(Encode(r)) \in Nat /\ CRAt(r, q) \in Nat
      /\ CRAt(r, q) + 2 <= BodyAt(r) /\ BodyAt(r) <= Len(Encode(r)) /\ BodyAt(r) \in Nat
      /\ q \in Nat
  <2>1. Encode(r) \in Seq(Bytes) /\ rd.m_read_buf \in Seq(Bytes) /\ Len(r.headers) \in Nat
    BY EncodeShape, RequestType DEF Parsing, Reading
  <2>2. BodyAt(r) \in Nat
    BY <2>1 DEF BodyAt
  <2> QED BY <2>1, <2>2, LineShape, LenProperties
<1>3. LineEnd \in Nat /\ rd.m_check_idx \in Nat /\ rd.m_check_idx <= LineEnd
      /\ rd.m_read_buf \in Seq(Bytes) /\ rd \in Reading
  BY LineEndInside DEF Parsing, Reading
<1>4. /\ rd'.m_read_buf = rd.m_read_buf /\ rd'.m_check_idx = LineEnd
      /\ rd'.m_start_line = rd.m_start_line /\ rd'.m_check_state = rd.m_check_state
      /\ rd'.m_linger = rd.m_linger /\ rd'.m_url = rd.m_url
      /\ rd'.m_content_length = rd.m_content_length
  BY <1>3 DEF Reading
<1>5. Held(Encode(r), rd.m_read_buf, LineEnd)
  BY <1>3, HeldLater
<1>6. LineEnd \in (3 * q)..CRAt(r, q)
  <2>1. rd.m_check_idx \in (3 * q)..CRAt(r, q)
    BY DEF AtLine
  <2> QED BY <1>1, <1>2, <1>3, <2>1
<1>7. AtLine(rd', r, q)
  BY <1>4, <1>6 DEF AtLine
<1>8. Len(rd.m_read_buf) < Len(Encode(r))
  BY <1>1, <1>2
<1> QED BY <1>4, <1>5, <1>7, <1>8 DEF WaitsForLine

LEMMA BodyOpen ==
    ASSUME Parsing(rd), NEW r \in Requests, AtBody(rd, r), line_status = "open",
           Len(rd.m_read_buf) <= Len(Encode(r)),
           Held(Encode(r), rd.m_read_buf, rd.m_check_idx),
           rd' = [rd EXCEPT !.m_check_idx = LineEnd], at' = "in"
    PROVE  WaitsForBody(r)
<1>1. /\ rd.m_check_idx \in Nat /\ rd.m_start_line \in Nat
      /\ rd.m_start_line <= rd.m_check_idx /\ rd.m_check_idx <= Len(rd.m_read_buf)
      /\ rd.m_start_line >= BodyAt(r) /\ BodyAt(r) \in Nat /\ Len(rd.m_read_buf) \in Nat
      /\ rd \in Reading /\ rd.m_read_buf \in Seq(Bytes)
  <2>1. rd.m_read_buf \in Seq(Bytes) /\ Len(r.headers) \in Nat
    BY RequestType DEF Parsing, Reading
  <2>2. BodyAt(r) \in Nat /\ Len(rd.m_read_buf) \in Nat
    BY <2>1, LenProperties DEF BodyAt
  <2> QED BY <2>1, <2>2 DEF Parsing, Reading, AtBody
<1>2. LineEnd = Len(rd.m_read_buf)
  <2>1. rd.m_check_idx >= BodyAt(r)
    BY <1>1
  <2> QED BY <2>1, LineEndOfBody
<1>3. /\ rd'.m_read_buf = rd.m_read_buf /\ rd'.m_check_idx = Len(rd.m_read_buf)
      /\ rd'.m_start_line = rd.m_start_line /\ rd'.m_check_state = rd.m_check_state
      /\ rd'.m_linger = rd.m_linger /\ rd'.m_url = rd.m_url
      /\ rd'.m_content_length = rd.m_content_length
  BY <1>1, <1>2 DEF Reading
<1>4. Held(Encode(r), rd.m_read_buf, Len(rd.m_read_buf))
  BY <1>1, HeldLater
<1>5. AtBody(rd', r)
  BY <1>3 DEF AtBody
<1> QED BY <1>3, <1>4, <1>5 DEF WaitsForBody

\* What a turn of the loop makes of r, whatever has been read of it.
LEMMA TurnOfLoop ==
    ASSUME Parsing(rd), line_status \in {"ok", "open"}, NEW r \in Requests,
           Len(rd.m_read_buf) <= Len(Encode(r)),
           Held(Encode(r), rd.m_read_buf, rd.m_check_idx), Announced(r),
           (\E q \in 0..(Len(r.headers) + 1) : AtLine(rd, r, q)) \/ AtBody(rd, r),
           NextLine
    PROVE  \/ WentOn(r, Len(rd.m_read_buf)) \/ Said(r, Len(rd.m_read_buf))
           \/ NotWhole(r) \/ WaitsForLine(r) \/ WaitsForBody(r)
<1>1. at = "parse"
  BY DEF NextLine
<1>2. ASSUME NEW q \in 0..(Len(r.headers) + 1), AtLine(rd, r, q)
      PROVE  \/ WentOn(r, Len(rd.m_read_buf)) \/ Said(r, Len(rd.m_read_buf))
             \/ WaitsForLine(r)
  <2>1. rd.m_check_state # "content"
    BY <1>2 DEF AtLine
  <2>2. CASE LineStatus(LineEnd) = "ok"
    <3> DEFINE t == LineTaken(LineEnd)
    <3>1. /\ Parsing(t) /\ InHand(t, r, q) /\ Len(t.m_read_buf) = Len(rd.m_read_buf)
          /\ CRAt(r, q) + 2 <= Len(t.m_read_buf)
      BY <1>2, <2>2, LineInHand
    <3>2. Analyze(t)
      BY <2>1, <2>2 DEF NextLine
    <3> HIDE DEF t
    <3>3. CASE q = 0
      BY <1>1, <3>1, <3>2, <3>3, RequestLineRead
    <3>4. CASE q \in 1..Len(r.headers)
      BY <1>1, <3>1, <3>2, <3>4, HeaderRead
    <3>5. CASE q = Len(r.headers) + 1
      BY <1>1, <3>1, <3>2, <3>5, EmptyLineRead
    <3>6. q = 0 \/ q \in 1..Len(r.headers) \/ q = Len(r.headers) + 1
      BY RequestType
    <3> QED BY <3>3, <3>4, <3>5, <3>6
  <2>3. CASE LineStatus(LineEnd) # "ok"
    <3>1. rd' = [rd EXCEPT !.m_check_idx = LineEnd] /\ at' = "in"
      BY <2>1, <2>3 DEF NextLine
    <3> QED BY <1>2, <2>3, <3>1, LineOpen
  <2> QED BY <2>2, <2>3
<1>3. ASSUME AtBody(rd, r)
      PROVE  Said(r, Len(rd.m_read_buf)) \/ NotWhole(r) \/ WaitsForBody(r)
  <2>1. rd.m_check_state = "content"
    BY <1>3 DEF AtBody
  <2>2. CASE line_status = "ok"
    <3>1. Analyze(rd)
      BY <2>1, <2>2 DEF NextLine
    <3> QED BY <1>1, <1>3, <3>1, BodyRead
  <2>3. CASE line_status = "open"
    <3>1. rd.m_check_idx >= BodyAt(r)
      <4>1. /\ rd.m_check_idx \in Nat /\ rd.m_start_line \in Nat
            /\ rd.m_start_line <= rd.m_check_idx /\ rd.m_start_line >= BodyAt(r)
            /\ Len(r.headers) \in Nat
        BY <1>3, RequestType DEF Parsing, Reading, AtBody
      <4>2. BodyAt(r) \in Nat
        BY <4>1 DEF BodyAt
      <4> QED BY <4>1, <4>2
    <3>2. LineStatus(LineEnd) = "open"
      BY <3>1, LineEndOfBody
    <3>3. rd' = [rd EXCEPT !.m_check_idx = LineEnd] /\ at' = "in"
      BY <2>3, <3>2 DEF NextLine
    <3> QED BY <1>3, <2>3, <3>3, BodyOpen
  <2> QED BY <2>2, <2>3
<1> QED BY <1>2, <1>3

(***************************************************************************)
(* The invariant of reading.                                               *)
(***************************************************************************)

LEMMA NewReadFresh ==
    ASSUME rd' = NewRead(rd)
    PROVE  Fresh'
BY DEF NewRead, Fresh

LEMMA RequestNotNone == ASSUME NEW r \in Requests PROVE r # None
BY HttpConnAssumption DEF HttpConnAssumption

\* The lengths that go with a request on its way.
LEMMA InFlightLens ==
    ASSUME TypeOK, NEW r \in Requests,
           InFlight(Encode(r), Len(rd.m_read_buf), inbox, client.unsent)
    PROVE  /\ Len(rd.m_read_buf) \in Nat /\ Len(inbox) \in Nat /\ Len(client.unsent) \in Nat
           /\ Len(Encode(r)) \in Nat
           /\ Len(rd.m_read_buf) + Len(inbox) + Len(client.unsent) = Len(Encode(r))
           /\ Len(rd.m_read_buf) <= Len(Encode(r))
           /\ Len(rd.m_read_buf) = Len(Encode(r)) => inbox = <<>> /\ client.unsent = <<>>
<1>1. /\ rd.m_read_buf \in Seq(Bytes) /\ inbox \in Seq(Bytes) /\ client.unsent \in Seq(Bytes)
      /\ Encode(r) \in Seq(Bytes)
  BY EncodeShape DEF TypeOK, Reading
<1>2. /\ Len(rd.m_read_buf) \in Nat /\ Len(inbox) \in Nat /\ Len(client.unsent) \in Nat
      /\ Len(Encode(r)) \in Nat
  BY <1>1, LenProperties
<1>3. Len(rd.m_read_buf) + Len(inbox) + Len(client.unsent) = Len(Encode(r))
  BY DEF InFlight
<1>4. /\ Len(inbox) = 0 => inbox = <<>>
      /\ Len(client.unsent) = 0 => client.unsent = <<>>
  BY <1>1, EmptySeq
<1>5. /\ Len(rd.m_read_buf) <= Len(Encode(r))
      /\ Len(rd.m_read_buf) = Len(Encode(r)) => Len(inbox) = 0 /\ Len(client.unsent) = 0
  <2> DEFINE l == Len(rd.m_read_buf)
             i == Len(inbox)
             u == Len(client.unsent)
             e == Len(Encode(r))
  <2> HIDE DEF l, i, u, e
  <2>1. l \in Nat /\ i \in Nat /\ u \in Nat /\ e \in Nat /\ l + i + u = e
    BY <1>2, <1>3 DEF l, i, u, e
  <2>2. l <= e /\ (l = e => i = 0 /\ u = 0)
    BY <2>1
  <2> QED BY <2>2 DEF l, i, u, e
<1> QED BY <1>2, <1>3, <1>4, <1>5

\* A step after which the object reads on.
LEMMA ReadsOn ==
    ASSUME NEW r, client'.req = r, r # None, Announced(r), at' \in {"in", "parse"},
           Following(r)'
    PROVE  ReadInv'
<1>1. Following(client.req)'
  BY DEF Following
<1> QED BY <1>1 DEF ReadInv, Sending, RightAnswer

LEMMA ReadAsk ==
    ASSUME TypeOK, ReadInv, NEW r \in Requests, Announced(r), Ask(r)
    PROVE  ReadInv'
<1>1. at = "in" /\ Fresh /\ inbox = <<>>
  BY DEF Ask, ReadInv, TypeOK
<1>2. client'.req = r /\ client'.unsent = Encode(r) /\ UNCHANGED <<inbox, at, rd>> /\ r # None
  BY RequestNotNone DEF Ask
<1>3. Len(rd.m_read_buf) = 0 /\ Len(inbox) = 0 /\ Encode(r) \in Seq(Bytes)
  BY <1>1, EmptySeq, EncodeShape DEF Fresh
<1>4. Len(Encode(r)) \in Nat
  BY <1>3, LenProperties
<1>5. InFlight(Encode(r), 0, inbox, Encode(r))
  <2> DEFINE E == Encode(r)
             e == Len(E)
  <2> HIDE DEF E, e
  <2>1. e \in Nat
    BY <1>4 DEF e, E
  <2>2. 0 + 0 + e = e /\ \A i \in 1..e : i = 0 + 0 + i
    BY <2>1
  <2>3. \A i \in 1..0 : FALSE
    OBVIOUS
  <2>4. \A i \in 1..e : E[i] = E[0 + 0 + i]
    BY <2>2
  <2> QED BY <1>3, <2>2, <2>3, <2>4 DEF InFlight, E, e
<1>6. Held(Encode(r), rd.m_read_buf, rd.m_check_idx)
  BY <1>3 DEF Held
<1>7. AtLine(rd, r, 0)
  <2>1. Lingers(r, 0 - 1) = FALSE
    <3>1. 0 - 1 \in Int /\ 0 - 1 <= 0
      OBVIOUS
    <3>2. \A k \in Int : k <= 0 => Lingers(r, k) = FALSE
      BY LingersNext, Zenon
    <3> QED BY <3>1, <3>2, Zenon
  <2>2. Announces(r, 0 - 1, 0)
    <3>1. \A i \in 1..(0 - 1) : FALSE
      OBVIOUS
    <3> QED BY <3>1, Zenon DEF Announces
  <2>3. 0 \in (3 * 0)..CRAt(r, 0) /\ 3 * 0 = 0
    <3>1. 0 \in 0..(Len(r.headers) + 1)
      BY RequestType
    <3> QED BY <3>1, LineShape
  <2>4. ~(0 > 0)
    OBVIOUS
  <2> QED BY <1>1, <2>1, <2>2, <2>3, <2>4 DEF AtLine, Fresh
<1>8. Following(r)'
  <2>1. 0 \in 0..(Len(r.headers) + 1)
    BY RequestType
  <2>2. AtLine(rd', r, 0) /\ Held(Encode(r), rd'.m_read_buf, rd'.m_check_idx)
    BY <1>2, <1>6, <1>7
  <2>3. InFlight(Encode(r), Len(rd'.m_read_buf), inbox', client'.unsent)
    BY <1>2, <1>3, <1>5
  <2> QED BY <2>1, <2>2, <2>3 DEF Following
<1> QED BY <1>1, <1>2, <1>8, ReadsOn

LEMMA ReadArrive ==
    ASSUME TypeOK, ReadInv, NEW n \in 1..Len(client.unsent), Arrive(n)
    PROVE  ReadInv'
<1>1. /\ client.unsent \in Seq(Bytes) /\ inbox \in Seq(Bytes) /\ rd.m_read_buf \in Seq(Bytes)
      /\ Len(client.unsent) \in Nat /\ Len(rd.m_read_buf) \in Nat
      /\ client \in [req : Requests \cup {None}, unsent : Seq(Bytes)]
  BY LenProperties DEF TypeOK, Reading
<1>2. client.unsent # <<>>
  BY <1>1, EmptySeq
<1>3. /\ client'.req = client.req
      /\ client'.unsent = SubSeq(client.unsent, n + 1, Len(client.unsent))
      /\ inbox' = inbox \o SubSeq(client.unsent, 1, n)
      /\ UNCHANGED <<at, rd, ret, wr, announced>> /\ at # "closed"
  BY <1>1 DEF Arrive
<1>4. CASE at \in {"in", "parse"}
  <2>1. PICK r : r = client.req
    OBVIOUS
  <2>2. r # None /\ Following(r) /\ Announced(r)
    BY <1>2, <1>4, <2>1 DEF ReadInv
  <2>3. InFlight(Encode(r), Len(rd.m_read_buf), inbox, client.unsent)
    BY <2>2 DEF Following
  <2>4. InFlight(Encode(r), Len(rd.m_read_buf), inbox', client'.unsent)
    <3>1. InFlight(Encode(r), Len(rd.m_read_buf),
                   inbox \o SubSeq(client.unsent, 1, n),
                   SubSeq(client.unsent, n + 1, Len(client.unsent)))
      BY <1>1, <2>3, BytesArrive
    <3> QED BY <1>3, <3>1
  <2>5. Following(r)'
    BY <1>3, <2>2, <2>4 DEF Following
  <2> QED BY <1>3, <1>4, <2>1, <2>2, <2>5, ReadsOn
<1>5. CASE at \notin {"in", "parse"}
  <2>1. at \in {"answer", "out", "write"}
    BY <1>3, <1>5 DEF TypeOK
  <2>2. client.req # None /\ ~rd.m_linger
    BY <1>2, <2>1 DEF ReadInv
  <2>3. RightAnswer'
    <3>1. RightAnswer
      BY DEF ReadInv
    <3> QED BY <1>2, <1>3, <3>1 DEF RightAnswer
  <2> QED BY <1>3, <2>1, <2>2, <2>3 DEF ReadInv, Sending
<1> QED BY <1>4, <1>5

\* Only a new connection makes up for a request that did not announce its body.
LEMMA AnnouncedBefore ==
    ASSUME [Next]_vars, announced'
    PROVE  Accept \/ announced
BY DEF Next, vars, Ask, Arrive, Close, ReadOnce, NextLine, process_write, StartWrite,
       WriteAgain, WriteError, Writev

\* What read_once() takes.
Taken == IF Len(inbox) < Room THEN Len(inbox) ELSE Room

LEMMA ReadOnceFields ==
    ASSUME TypeOK, ReadOnce
    PROVE  /\ Len(inbox) \in Nat /\ Len(rd.m_read_buf) \in Nat /\ Room \in Nat
           /\ Len(rd.m_read_buf) + Room = BufSize
           /\ Taken \in 0..Len(inbox) /\ Taken <= Room
           /\ Taken < Len(inbox) => Taken = Room
           /\ rd'.m_read_buf = rd.m_read_buf \o SubSeq(inbox, 1, Taken)
           /\ inbox' = SubSeq(inbox, Taken + 1, Len(inbox))
           /\ rd'.m_check_idx = rd.m_check_idx /\ rd'.m_start_line = rd.m_start_line
           /\ rd'.m_check_state = rd.m_check_state /\ rd'.m_linger = rd.m_linger
           /\ rd'.m_url = rd.m_url /\ rd'.m_content_length = rd.m_content_length
           /\ at' \in {"closed", "parse"} /\ line_status' = "ok"
           /\ at' = "closed" => Room = 0 \/ Taken = Room
           /\ Room = 0 => at' = "closed"
           /\ UNCHANGED <<client, wr, ret>>
<1> DEFINE i == Len(inbox)
           l == Len(rd.m_read_buf)
<1>1. i \in Nat /\ l \in Nat /\ l <= BufSize /\ BufSize \in Nat
  BY LenProperties, HttpConnAssumption DEF TypeOK, Reading, HttpConnAssumption
<1>2. Room \in Nat /\ l + Room = BufSize
  BY <1>1 DEF Room
<1>3. Taken = IF i < Room THEN i ELSE Room
  BY DEF Taken
<1>4. /\ rd' = [rd EXCEPT !.m_read_buf = @ \o SubSeq(inbox, 1, Taken)]
      /\ inbox' = SubSeq(inbox, Taken + 1, Len(inbox))
      /\ at' = IF Room = 0 \/ (m_TRIGMode = 1 /\ Taken = Room) THEN "closed" ELSE "parse"
      /\ line_status' = "ok" /\ UNCHANGED <<client, wr, ret>>
  BY DEF ReadOnce, Taken
<1> HIDE DEF i, l
<1>5. Taken \in 0..i /\ Taken <= Room /\ (Taken < i => Taken = Room)
  BY <1>1, <1>2, <1>3
<1>6. rd \in Reading
  BY DEF TypeOK
<1>7. /\ rd'.m_read_buf = rd.m_read_buf \o SubSeq(inbox, 1, Taken)
      /\ rd'.m_check_idx = rd.m_check_idx /\ rd'.m_start_line = rd.m_start_line
      /\ rd'.m_check_state = rd.m_check_state /\ rd'.m_linger = rd.m_linger
      /\ rd'.m_url = rd.m_url /\ rd'.m_content_length = rd.m_content_length
  BY <1>4, <1>6 DEF Reading
<1> QED BY <1>1, <1>2, <1>4, <1>5, <1>7 DEF i, l

\* A request's bytes on their way, before and after read_once().
LEMMA ReadOnceBytes ==
    ASSUME TypeOK, ReadOnce, NEW r \in Requests, Following(r)
    PROVE  /\ InFlight(Encode(r), Len(rd'.m_read_buf), inbox', client.unsent)
           /\ Held(Encode(r), rd'.m_read_buf, rd.m_check_idx)
           /\ Len(rd'.m_read_buf) = Len(rd.m_read_buf) + Taken
           /\ Len(inbox') = Len(inbox) - Taken
<1>1. /\ rd.m_read_buf \in Seq(Bytes) /\ inbox \in Seq(Bytes) /\ client.unsent \in Seq(Bytes)
      /\ rd.m_check_idx \in Nat /\ rd.m_check_idx <= Len(rd.m_read_buf)
  BY DEF TypeOK, Reading
<1>2. /\ InFlight(Encode(r), Len(rd.m_read_buf), inbox, client.unsent)
      /\ Held(Encode(r), rd.m_read_buf, rd.m_check_idx)
  BY DEF Following
<1>3. /\ rd'.m_read_buf = rd.m_read_buf \o SubSeq(inbox, 1, Taken)
      /\ inbox' = SubSeq(inbox, Taken + 1, Len(inbox)) /\ Taken \in 0..Len(inbox)
  BY ReadOnceFields
<1>4. LET new == rd.m_read_buf \o SubSeq(inbox, 1, Taken)
      IN  /\ new \in Seq(Bytes) /\ Len(new) = Len(rd.m_read_buf) + Taken
          /\ InFlight(Encode(r), Len(new), SubSeq(inbox, Taken + 1, Len(inbox)), client.unsent)
          /\ Held(Encode(r), new, rd.m_check_idx)
          /\ Len(SubSeq(inbox, Taken + 1, Len(inbox))) = Len(inbox) - Taken
  <2> DEFINE E == Encode(r)
             n == Taken
             buf == rd.m_read_buf
             un == client.unsent
             c == rd.m_check_idx
             new == buf \o SubSeq(inbox, 1, n)
  <2>1. /\ InFlight(E, Len(buf), inbox, un) /\ Held(E, buf, c) /\ n \in 0..Len(inbox)
        /\ buf \in Seq(Bytes) /\ un \in Seq(Bytes) /\ c \in Nat /\ c <= Len(buf)
    BY <1>1, <1>2, <1>3
  <2> HIDE DEF E, n, buf, un, c
  <2>2. inbox \in Seq(Bytes)
    BY <1>1
  <2>3. /\ new \in Seq(Bytes) /\ Len(new) = Len(buf) + n
        /\ InFlight(E, Len(new), SubSeq(inbox, n + 1, Len(inbox)), un)
        /\ Held(E, new, c)
        /\ Len(SubSeq(inbox, n + 1, Len(inbox))) = Len(inbox) - n
    BY <2>1, <2>2, BytesReceived
  <2> QED BY <2>3, Zenon DEF E, n, buf, un, c
<1> QED BY <1>3, <1>4

\* read_once() changes what the parser will read, and not what it has found.
LEMMA ReadOnceProgress ==
    ASSUME TypeOK, ReadOnce, NEW r
    PROVE  /\ \A q : AtLine(rd', r, q) <=> AtLine(rd, r, q)
           /\ AtBody(rd', r) <=> AtBody(rd, r)
BY ReadOnceFields DEF AtLine, AtBody

LEMMA ReadReadOnce ==
    ASSUME TypeOK, ReadInv, ReadOnce
    PROVE  ReadInv'
<1>a. PICK r : r = client.req
  OBVIOUS
<1>1. at = "in" /\ inbox # <<>> /\ r # None /\ r \in Requests
  BY <1>a DEF ReadOnce, ReadInv, TypeOK
<1>2. Following(r) /\ Announced(r)
  BY <1>a, <1>1 DEF ReadInv
<1>3. client' = client /\ at' \in {"closed", "parse"} /\ rd'.m_check_idx = rd.m_check_idx
  BY ReadOnceFields
<1>4. CASE at' = "closed"
  BY <1>3, <1>4 DEF ReadInv, Sending, RightAnswer
<1>5. CASE at' = "parse"
  <2>1. /\ InFlight(Encode(r), Len(rd'.m_read_buf), inbox', client.unsent)
        /\ Held(Encode(r), rd'.m_read_buf, rd'.m_check_idx)
    BY <1>1, <1>2, <1>3, ReadOnceBytes
  <2>2. (\E q \in 0..(Len(r.headers) + 1) : AtLine(rd', r, q)) \/ AtBody(rd', r)
    BY <1>2, ReadOnceProgress DEF Following
  <2>3. Following(r)'
    BY <1>3, <2>1, <2>2 DEF Following
  <2> QED BY <1>a, <1>1, <1>2, <1>3, <1>5, <2>3, ReadsOn
<1> QED BY <1>3, <1>4, <1>5

LEMMA LingersAll ==
    ASSUME NEW r \in Requests
    PROVE  Lingers(r, Len(r.headers)) = \E i \in DOMAIN r.headers : r.headers[i] = "keep"
<1>1. DOMAIN r.headers = 1..Len(r.headers)
  BY RequestType, LenProperties
<1> QED BY <1>1 DEF Lingers

LEMMA ReadNextLine ==
    ASSUME TypeOK, ReadInv, NextLine
    PROVE  ReadInv'
<1>1. at = "parse" /\ UNCHANGED <<client, inbox>>
  BY DEF NextLine
<1>2. PICK r : r = client.req
  OBVIOUS
<1>3. r # None /\ r \in Requests /\ Following(r) /\ Announced(r)
  BY <1>1, <1>2 DEF ReadInv, TypeOK
<1>4. Parsing(rd) /\ line_status \in {"ok", "open"}
  BY DEF TypeOK, Parsing
<1>5. InFlight(Encode(r), Len(rd.m_read_buf), inbox, client.unsent)
  BY <1>3 DEF Following
<1>6. /\ Len(rd.m_read_buf) <= Len(Encode(r))
      /\ Len(rd.m_read_buf) = Len(Encode(r)) => inbox = <<>> /\ client.unsent = <<>>
  BY <1>3, <1>5, InFlightLens
<1>7. \/ WentOn(r, Len(rd.m_read_buf)) \/ Said(r, Len(rd.m_read_buf))
      \/ NotWhole(r) \/ WaitsForLine(r) \/ WaitsForBody(r)
  <2>1. /\ Held(Encode(r), rd.m_read_buf, rd.m_check_idx)
        /\ (\E q \in 0..(Len(r.headers) + 1) : AtLine(rd, r, q)) \/ AtBody(rd, r)
    BY <1>3 DEF Following
  <2> QED BY <1>3, <1>4, <1>6, <2>1, TurnOfLoop
<1>8. ASSUME at' \in {"in", "parse"}, Len(rd'.m_read_buf) = Len(rd.m_read_buf),
             Held(Encode(r), rd'.m_read_buf, rd'.m_check_idx),
             (\E q \in 0..(Len(r.headers) + 1) : AtLine(rd', r, q)) \/ AtBody(rd', r)
      PROVE  ReadInv'
  <2>1. Following(r)'
    BY <1>1, <1>5, <1>8 DEF Following
  <2> QED BY <1>1, <1>2, <1>3, <1>8, <2>1, ReadsOn
<1>9. CASE WentOn(r, Len(rd.m_read_buf))
  BY <1>8, <1>9 DEF WentOn
<1>10. CASE NotWhole(r)
  <2>1. Held(Encode(r), rd.m_read_buf, rd.m_check_idx)
    BY <1>3 DEF Following
  <2> QED BY <1>8, <1>10, <2>1 DEF NotWhole
<1>11. CASE WaitsForLine(r)
  BY <1>8, <1>11 DEF WaitsForLine
<1>12. CASE WaitsForBody(r)
  BY <1>8, <1>12 DEF WaitsForBody
<1>13. CASE Said(r, Len(rd.m_read_buf))
  <2>1. at' = "answer" /\ client'.req = r /\ client'.unsent = client.unsent /\ inbox' = inbox
    BY <1>1, <1>2, <1>13 DEF Said
  <2>2. CASE r.line = "junk"
    <3>1. ret' = "BAD_REQUEST" /\ rd'.m_linger = FALSE
      BY <1>13, <2>2 DEF Said
    <3>2. RightAnswer'
      BY <2>1, <2>2, <3>1 DEF RightAnswer
    <3> QED BY <1>3, <2>1, <3>1, <3>2 DEF ReadInv, Sending
  <2>3. CASE r.line # "junk"
    <3>1. /\ ret' = do_request(r.line) /\ Len(rd.m_read_buf) = Len(Encode(r))
          /\ rd'.m_linger = Lingers(r, Len(r.headers))
          /\ r.body # <<>> => rd'.m_string = r.body
      BY <1>13, <2>3 DEF Said
    <3>2. inbox = <<>> /\ client.unsent = <<>>
      BY <1>6, <3>1
    <3>3. rd'.m_linger = \E i \in DOMAIN r.headers : r.headers[i] = "keep"
      BY <1>3, <3>1, LingersAll
    <3>4. RightAnswer'
      BY <2>1, <2>3, <3>1, <3>2, <3>3 DEF RightAnswer
    <3> QED BY <1>3, <2>1, <3>2, <3>4 DEF ReadInv, Sending
  <2> QED BY <2>2, <2>3
<1> QED BY <1>7, <1>9, <1>10, <1>11, <1>12, <1>13

\* A response has at least a byte, so its length is not 0, even where it does not fit
\* an int.
LEMMA ReadPrepared ==
    ASSUME SendInv, ReadInv, process_write
    PROVE  ReadInv'
<1>1. at = "answer" /\ UNCHANGED <<client, inbox, rd>> /\ at' \in {"out", "closed"}
  BY DEF process_write
<1>2. at' = "out" => wr'.byte_to_send # 0
  <2> SUFFICES ASSUME at' = "out" PROVE wr'.byte_to_send # 0
    OBVIOUS
  <2>1. PICK h \in HeadSizes, f \in FileSizes \cup {0} : wr' = Prepared(h, f)
    BY DEF process_write
  <2>2. wr.m_write_idx = 0
    BY <1>1 DEF SendInv, IdleInv
  <2>3. h \in 1..IntMax /\ f \in 0..IntMax /\ IntMax \in Nat
    BY HttpConnAssumption DEF HttpConnAssumption
  <2>4. wr'.byte_to_send = ToInt(h + f)
    BY <2>1, <2>2, <2>3, PreparedFields DEF SendInv, TypeOK
  <2>5. ToInt(h + f) # 0
    BY <2>3 DEF ToInt
  <2> QED BY <2>4, <2>5
<1>3. RightAnswer'
  BY <1>1 DEF RightAnswer
<1> QED BY <1>1, <1>2, <1>3 DEF ReadInv, Sending

LEMMA ReadWritev ==
    ASSUME SendInv, ReadInv, NEW n \in 0..Offered, Writev(n)
    PROVE  ReadInv'
<1>1. at = "write" /\ UNCHANGED inbox
  BY DEF Writev
<1>2. client.req # None /\ (rd.m_linger => inbox = <<>> /\ client.unsent = <<>>)
  BY <1>1 DEF ReadInv
<1>3. CASE ~Over(n)
  <2>1. wr' = Advanced(n) /\ UNCHANGED <<at, rd, client>>
    BY <1>3 DEF Writev
  <2>2. n \in Nat /\ wr \in Writing /\ wr.byte_to_send \in Int
    BY OfferedInt DEF SendInv, TypeOK, Writing
  <2>3. wr'.byte_to_send = wr.byte_to_send - n
    BY <2>1, <2>2, AdvancedFields
  <2>4. wr'.byte_to_send # 0
    BY <1>3, <2>2, <2>3 DEF Over
  <2> QED BY <1>1, <1>2, <2>1, <2>4 DEF ReadInv, Sending, RightAnswer
<1>4. CASE Over(n)
  <2>1. client' = NoRequest
    BY <1>4 DEF Writev
  <2>2. CASE rd.m_linger
    <3>1. rd' = NewRead(rd) /\ at' = "in"
      BY <1>4, <2>2 DEF Writev, Reset
    <3>2. Fresh'
      BY <3>1, NewReadFresh
    <3> QED BY <1>1, <1>2, <2>1, <2>2, <3>1, <3>2 DEF ReadInv, Sending, RightAnswer, NoRequest
  <2>3. CASE ~rd.m_linger
    <3>1. at' = "closed"
      BY <1>4, <2>3 DEF Writev
    <3> QED BY <2>1, <3>1 DEF ReadInv, Sending, RightAnswer, NoRequest
  <2> QED BY <2>2, <2>3
<1> QED BY <1>3, <1>4

LEMMA ReadInductive == SendInv /\ HonestInv /\ [Next]_vars => HonestInv'
<1> SUFFICES ASSUME SendInv, HonestInv, [Next]_vars, announced' PROVE ReadInv'
  BY DEF HonestInv
<1>0. TypeOK
  BY DEF SendInv
<1>a. Accept \/ ReadInv
  BY AnnouncedBefore DEF HonestInv
<1>1. CASE Accept
  <2>1. /\ at' = "in" /\ client' = NoRequest /\ inbox' = <<>> /\ rd' = NewRead(rd)
    BY <1>1 DEF Accept
  <2>2. Fresh'
    BY <2>1, NewReadFresh
  <2> QED BY <2>1, <2>2 DEF ReadInv, Sending, RightAnswer, NoRequest
<1> SUFFICES ASSUME ReadInv PROVE ReadInv'
  BY <1>1, <1>a
<1>2. CASE Close
  BY <1>2 DEF Close, ReadInv, Sending, RightAnswer
<1>3. ASSUME NEW r \in Requests, Ask(r) PROVE ReadInv'
  <2>1. Announced(r)
    BY <1>3 DEF Ask
  <2> QED BY <1>0, <1>3, <2>1, ReadAsk
<1>4. ASSUME NEW n \in 1..Len(client.unsent), Arrive(n) PROVE ReadInv'
  BY <1>0, <1>4, ReadArrive
<1>5. CASE ReadOnce
  BY <1>0, <1>5, ReadReadOnce
<1>6. CASE NextLine
  BY <1>0, <1>6, ReadNextLine
<1>7. CASE process_write
  BY <1>7, ReadPrepared
<1>8. CASE StartWrite
  <2>1. at = "out" /\ wr.byte_to_send # 0
    BY <1>8 DEF StartWrite, ReadInv, Sending
  <2>2. at' = "write" /\ UNCHANGED <<rd, wr, client, inbox, ret>>
    BY <1>8, <2>1 DEF StartWrite
  <2> QED BY <2>1, <2>2 DEF ReadInv, Sending, RightAnswer
<1>9. CASE WriteAgain
  BY <1>9 DEF WriteAgain, ReadInv, Sending, RightAnswer
<1>10. CASE WriteError
  BY <1>10 DEF WriteError, ReadInv, Sending, RightAnswer
<1>11. ASSUME NEW n \in 0..Offered, Writev(n) PROVE ReadInv'
  BY <1>11, ReadWritev
<1>12. CASE UNCHANGED vars
  <2>1. Following(client.req) = Following(client.req)'
    BY <1>12 DEF Following, vars
  <2> QED BY <1>12, <2>1 DEF vars, ReadInv, Sending, RightAnswer, Fresh
<1> QED BY <1>1, <1>2, <1>3, <1>4, <1>5, <1>6, <1>7, <1>8, <1>9, <1>10, <1>11, <1>12 DEF Next

LEMMA ReadInitially == Init => HonestInv
BY DEF Init, HonestInv, ReadInv, Sending, RightAnswer, NoRequest

\* However a request is cut on its way, and whatever the object was used for before,
\* process_read() returns what the request says: its result and, unless the request line
\* is refused, the whole request read, its keep-alive and its body; provided that the
\* requests of the connection announce the bodies they come with.
THEOREM AnswersRight == Spec => []RightAnswer
<1>1. Init => SendInv /\ HonestInv
  BY SendInitially, ReadInitially
<1>2. SendInv /\ HonestInv /\ [Next]_vars => (SendInv /\ HonestInv)'
  BY SendInductive, ReadInductive
<1>3. HonestInv => RightAnswer
  BY DEF HonestInv, ReadInv, RightAnswer
<1> QED BY <1>1, <1>2, <1>3, PTL DEF Spec

\* read_once() gives a connection up only for a request that fills the buffer, as long as
\* the requests of the connection announce the bodies they come with.
THEOREM RefusesOnlyTooLong == Spec => RefusedOnlyIfTooLong
<1>1. Init => SendInv /\ HonestInv
  BY SendInitially, ReadInitially
<1>2. SendInv /\ HonestInv /\ [Next]_vars => (SendInv /\ HonestInv)'
  BY SendInductive, ReadInductive
<1>3. SendInv /\ HonestInv /\ [Next]_vars =>
          [ReadOnce /\ announced /\ at' = "closed" => Len(Encode(client.req)) >= BufSize]_vars
  <2> SUFFICES ASSUME SendInv, ReadInv, ReadOnce, at' = "closed"
               PROVE  Len(Encode(client.req)) >= BufSize
    BY DEF HonestInv
  <2>1. PICK r : r = client.req
    OBVIOUS
  <2>2. r \in Requests /\ Following(r) /\ TypeOK
    BY <2>1 DEF SendInv, ReadOnce, ReadInv, TypeOK
  <2>3. InFlight(Encode(r), Len(rd.m_read_buf), inbox, client.unsent)
    BY <2>2 DEF Following
  <2>4. /\ Len(rd.m_read_buf) \in Nat /\ Len(inbox) \in Nat /\ Len(client.unsent) \in Nat
        /\ Len(Encode(r)) \in Nat
        /\ Len(rd.m_read_buf) + Len(inbox) + Len(client.unsent) = Len(Encode(r))
    BY <2>2, <2>3, InFlightLens
  <2>5. /\ Room \in Nat /\ Len(rd.m_read_buf) + Room = BufSize
        /\ Taken \in 0..Len(inbox) /\ (Room = 0 \/ Taken = Room)
    BY <2>2, ReadOnceFields
  <2>6. Len(Encode(r)) >= BufSize
    <3> DEFINE l == Len(rd.m_read_buf)
               i == Len(inbox)
               u == Len(client.unsent)
               e == Len(Encode(r))
    <3>1. /\ l \in Nat /\ i \in Nat /\ u \in Nat /\ e \in Nat /\ l + i + u = e
          /\ Room \in Nat /\ l + Room = BufSize /\ Taken \in 0..i /\ (Room = 0 \/ Taken = Room)
      BY <2>4, <2>5
    <3> HIDE DEF l, i, u, e
    <3>2. e >= BufSize
      BY <3>1
    <3> QED BY <3>2 DEF e
  <2> QED BY <2>1, <2>6
<1> QED BY <1>1, <1>2, <1>3, PTL DEF Spec, RefusedOnlyIfTooLong

(***************************************************************************)
(* A body in one piece.                                                    *)
(***************************************************************************)

\* What WholeInv says of request r, with the state's lengths: b bytes read, u unsent.
Whole(r, b, u) ==
    /\ u = 0 \/ u >= Len(r.body)
    /\ BodyAt(r) < b /\ b < Len(Encode(r)) => b = BufSize
    /\ AtBody(rd, r) /\ rd.m_check_idx > BodyAt(r) => b = BufSize /\ b < Len(Encode(r))
    /\ AtBody(rd, r) /\ at = "parse" /\ line_status = "open" => b < Len(Encode(r))
    /\ at = "in" => b < Len(Encode(r))

LEMMA WholeMeans ==
    ASSUME TypeOK, NEW r, client.req = r, r # None, at \in {"in", "parse"}, ~CutBody, WholeInv
    PROVE  Whole(r, Len(rd.m_read_buf), Len(client.unsent))
<1>1. client.unsent = <<>> => Len(client.unsent) = 0
  BY EmptySeq
<1> QED BY <1>1 DEF WholeInv, Whole

LEMMA WholeKept ==
    ASSUME TypeOK', NEW r, client'.req = r, Whole(r, Len(rd.m_read_buf), Len(client.unsent))'
    PROVE  WholeInv'
<1>1. Len(client.unsent)' = 0 => client'.unsent = <<>>
  <2>1. client'.unsent \in Seq(Bytes)
    BY DEF TypeOK
  <2> QED BY <2>1, EmptySeq
<1> QED BY <1>1 DEF WholeInv, Whole

\* A request has more bytes than its body.
LEMMA RequestLens ==
    ASSUME NEW r \in Requests
    PROVE  /\ Len(r.body) \in Nat /\ BodyAt(r) \in Nat /\ BodyAt(r) > 0
           /\ Len(Encode(r)) = BodyAt(r) + Len(r.body) /\ Len(Encode(r)) \in Nat
<1>1. Len(r.body) \in Nat /\ Len(r.headers) \in Nat
  BY RequestType
<1>2. BodyAt(r) \in Nat /\ BodyAt(r) > 0
  BY <1>1 DEF BodyAt
<1>3. Len(Encode(r)) = BodyAt(r) + Len(r.body)
  BY EncodeShape
<1> QED BY <1>1, <1>2, <1>3

LEMMA WholeAsk ==
    ASSUME TypeOK, TypeOK', ReadInv, ~CutBody, NEW r \in Requests, Ask(r)
    PROVE  WholeInv'
<1>1. at = "in" /\ Fresh
  BY DEF Ask, ReadInv, TypeOK
<1>2. client'.req = r /\ client'.unsent = Encode(r) /\ UNCHANGED <<at, rd>>
  BY DEF Ask
<1>3. Len(rd'.m_read_buf) = 0 /\ rd'.m_check_state # "content"
  BY <1>1, <1>2, EmptySeq DEF Fresh
<1>4. ~AtBody(rd', r)
  BY <1>3 DEF AtBody
<1>5. /\ Len(Encode(r)) >= Len(r.body) /\ ~(BodyAt(r) < 0) /\ 0 < Len(Encode(r))
  <2> DEFINE b == Len(r.body)
             a == BodyAt(r)
             e == Len(Encode(r))
  <2>1. b \in Nat /\ a \in Nat /\ a > 0 /\ e = a + b /\ e \in Nat
    BY RequestLens
  <2> HIDE DEF b, a, e
  <2>2. e >= b /\ ~(a < 0) /\ 0 < e
    BY <2>1
  <2> QED BY <2>2 DEF b, a, e
<1>6. Whole(r, Len(rd.m_read_buf), Len(client.unsent))'
  BY <1>1, <1>2, <1>3, <1>4, <1>5 DEF Whole
<1> QED BY <1>2, <1>6, WholeKept

LEMMA WholeArrive ==
    ASSUME TypeOK, TypeOK', ReadInv, WholeInv, ~CutBody,
           NEW n \in 1..Len(client.unsent), Arrive(n)
    PROVE  WholeInv'
<1>1. PICK r : r = client.req
  OBVIOUS
<1>2. client'.req = r /\ UNCHANGED <<at, rd, line_status>>
  BY <1>1 DEF Arrive, TypeOK
<1>3. CASE at \in {"in", "parse"} /\ r # None
  <2>1. Whole(r, Len(rd.m_read_buf), Len(client.unsent))
    BY <1>1, <1>3, WholeMeans
  <2>2. client.unsent \in Seq(Bytes) /\ Len(client.unsent) \in Nat /\ n \in 0..Len(client.unsent)
    BY LenProperties DEF TypeOK
  <2>3. client'.unsent = SubSeq(client.unsent, n + 1, Len(client.unsent))
    BY DEF Arrive, TypeOK
  <2>4. Len(client'.unsent) = Len(client.unsent) - n
    BY <2>2, <2>3, SeqCut
  <2>5. Len(client.unsent) - n = 0 \/ Len(client.unsent) - n >= Len(r.body)
    BY <1>1 DEF Arrive
  <2> QED BY <1>2, <2>1, <2>4, <2>5, WholeKept DEF Whole
<1>4. CASE ~(at \in {"in", "parse"} /\ r # None)
  BY <1>2, <1>4 DEF WholeInv
<1> QED BY <1>3, <1>4

LEMMA WholeReadOnce ==
    ASSUME TypeOK, TypeOK', ReadInv, WholeInv, ~CutBody, ReadOnce
    PROVE  WholeInv'
<1>1. PICK r : r = client.req
  OBVIOUS
<1>2. /\ at = "in" /\ inbox # <<>> /\ r # None /\ r \in Requests /\ Following(r)
      /\ client'.req = r /\ client'.unsent = client.unsent
  BY <1>1 DEF ReadOnce, ReadInv, TypeOK
<1>3. Whole(r, Len(rd.m_read_buf), Len(client.unsent))
  BY <1>1, <1>2, WholeMeans
<1>4. CASE at' = "closed"
  BY <1>4 DEF WholeInv
<1>5. CASE at' # "closed"
  <2> DEFINE l == Len(rd.m_read_buf)
             i == Len(inbox)
             u == Len(client.unsent)
             e == Len(Encode(r))
             a == BodyAt(r)
             b == Len(r.body)
             m == Len(rd'.m_read_buf)
             t == Taken
  <2>1. /\ l \in Nat /\ i \in Nat /\ u \in Nat /\ l + i + u = e
        /\ a \in Nat /\ b \in Nat /\ e = a + b
    <3>1. InFlight(Encode(r), Len(rd.m_read_buf), inbox, client.unsent)
      BY <1>2 DEF Following
    <3> QED BY <1>2, <3>1, InFlightLens, RequestLens
  <2>2. /\ t \in 0..i /\ (t < i => t = Room) /\ Room \in Nat /\ l + Room = BufSize
        /\ Room # 0 /\ rd'.m_check_idx = rd.m_check_idx /\ at' = "parse" /\ line_status' = "ok"
    BY <1>5, ReadOnceFields
  <2>3. m = l + t
    BY <1>2, ReadOnceBytes
  <2>4. /\ u = 0 \/ u >= b
        /\ AtBody(rd, r) /\ rd.m_check_idx > a => l = BufSize
    BY <1>3 DEF Whole
  <2> HIDE DEF l, i, u, e, a, b, m, t
  <2>5. a < m /\ m < e => m = BufSize
    BY <2>1, <2>2, <2>3, <2>4
  <2>6. ~(AtBody(rd', r) /\ rd'.m_check_idx > a)
    <3>1. l # BufSize
      BY <2>1, <2>2
    <3>2. AtBody(rd', r) <=> AtBody(rd, r)
      BY ReadOnceProgress
    <3> QED BY <2>2, <2>4, <3>1, <3>2
  <2>7. Whole(r, Len(rd.m_read_buf), Len(client.unsent))'
    <3>1. u = 0 \/ u >= Len(r.body)
      BY <2>4 DEF b
    <3>2. BodyAt(r) < Len(rd'.m_read_buf) /\ Len(rd'.m_read_buf) < Len(Encode(r)) =>
              Len(rd'.m_read_buf) = BufSize
      BY <2>5 DEF a, m, e
    <3>3. ~(AtBody(rd', r) /\ rd'.m_check_idx > BodyAt(r))
      BY <2>6 DEF a
    <3>4. Len(client'.unsent) = u
      BY <1>2 DEF u
    <3> QED BY <2>2, <3>1, <3>2, <3>3, <3>4 DEF Whole
  <2> QED BY <1>2, <2>7, WholeKept
<1> QED BY <1>4, <1>5

LEMMA WholeNextLine ==
    ASSUME TypeOK, TypeOK', ReadInv, WholeInv, ~CutBody, NextLine
    PROVE  WholeInv'
<1>1. PICK r : r = client.req
  OBVIOUS
<1>2. /\ at = "parse" /\ UNCHANGED <<client, inbox>>
      /\ r # None /\ r \in Requests /\ Following(r) /\ Announced(r) /\ client'.req = r
  BY <1>1 DEF NextLine, ReadInv, TypeOK
<1> DEFINE l == Len(rd.m_read_buf)
           u == Len(client.unsent)
           e == Len(Encode(r))
           a == BodyAt(r)
           b == Len(r.body)
           c == rd.m_check_idx
<1>3. InFlight(Encode(r), l, inbox, client.unsent)
  BY <1>2 DEF Following
<1>4. l \in Nat /\ l <= e /\ a \in Nat /\ b \in Nat /\ e = a + b /\ c \in Nat
  BY <1>2, <1>3, InFlightLens, RequestLens DEF TypeOK, Reading
<1>5. Whole(r, l, u)
  BY <1>1, <1>2, WholeMeans
<1>6. WentOn(r, l) \/ Said(r, l) \/ NotWhole(r) \/ WaitsForLine(r) \/ WaitsForBody(r)
  <2>1. /\ Held(Encode(r), rd.m_read_buf, rd.m_check_idx)
        /\ (\E q \in 0..(Len(r.headers) + 1) : AtLine(rd, r, q)) \/ AtBody(rd, r)
    BY <1>2 DEF Following
  <2>2. Parsing(rd) /\ line_status \in {"ok", "open"}
    BY DEF TypeOK, Parsing
  <2> QED BY <1>2, <1>4, <2>1, <2>2, TurnOfLoop
<1>7. \A p, q : AtLine(p, r, q) => ~AtBody(p, r)
  BY DEF AtLine, AtBody
<1>8. /\ u = 0 \/ u >= b
      /\ a < l /\ l < e => l = BufSize
      /\ AtBody(rd, r) /\ c > a => l = BufSize /\ l < e
      /\ AtBody(rd, r) /\ line_status = "open" => l < e
  BY <1>2, <1>5 DEF Whole
<1> HIDE DEF l, u, e, a, b, c
<1>9. ASSUME Len(rd'.m_read_buf) = l,
             AtBody(rd', r) /\ rd'.m_check_idx > a => l = BufSize /\ l < e,
             AtBody(rd', r) /\ at' = "parse" /\ line_status' = "open" => l < e,
             at' = "in" => l < e
      PROVE  WholeInv'
  <2>1. Len(client'.unsent) = u
    BY <1>2 DEF u
  <2>2. Whole(r, Len(rd.m_read_buf), Len(client.unsent))'
    BY <1>8, <1>9, <2>1 DEF Whole, e, a, b
  <2> QED BY <1>2, <2>2, WholeKept
<1>10. CASE WentOn(r, l)
  <2>1. /\ at' = "parse" /\ line_status' = "ok" /\ Len(rd'.m_read_buf) = l
        /\ AtBody(rd', r) => rd'.m_check_idx = a
    BY <1>7, <1>10 DEF WentOn, a
  <2>2. ~(a > a)
    BY <1>4
  <2> QED BY <1>9, <2>1, <2>2
<1>11. CASE Said(r, l)
  BY <1>11 DEF Said, WholeInv
<1>12. CASE NotWhole(r)
  <2>1. /\ at' = "parse" /\ Len(rd'.m_read_buf) = l /\ rd'.m_check_idx = c
        /\ AtBody(rd, r) /\ l < b + c
    BY <1>12 DEF NotWhole, l, c, b
  <2>2. c >= a
    <3>1. /\ rd.m_start_line \in Nat /\ rd.m_start_line <= c /\ rd.m_start_line >= a
      BY <2>1 DEF TypeOK, Reading, AtBody, c, a
    <3> QED BY <1>4, <3>1
  <2>3. l < e
    BY <1>4, <1>8, <2>1, <2>2
  <2> QED BY <1>8, <1>9, <2>1, <2>3
<1>13. CASE WaitsForLine(r)
  <2>1. at' = "in" /\ Len(rd'.m_read_buf) = l /\ ~AtBody(rd', r) /\ l < e
    BY <1>7, <1>13 DEF WaitsForLine, l, e
  <2> QED BY <1>9, <2>1
<1>14. CASE WaitsForBody(r)
  <2>1. /\ at' = "in" /\ Len(rd'.m_read_buf) = l /\ rd'.m_check_idx = l
        /\ AtBody(rd, r) /\ line_status = "open"
    BY <1>14 DEF WaitsForBody, l
  <2> QED BY <1>8, <1>9, <2>1
<1> QED BY <1>6, <1>10, <1>11, <1>12, <1>13, <1>14

LEMMA WholeInductive ==
    ASSUME ~CutBody
    PROVE  SendInv /\ HonestInv /\ HonestWholeInv /\ [Next]_vars => HonestWholeInv'
<1> SUFFICES ASSUME SendInv, HonestInv, HonestWholeInv, [Next]_vars, announced'
             PROVE  WholeInv'
  BY DEF HonestWholeInv
<1>0. TypeOK /\ TypeOK'
  BY TypesInductive DEF SendInv
<1>a. Accept \/ (ReadInv /\ WholeInv)
  BY AnnouncedBefore DEF HonestInv, HonestWholeInv
<1>1. CASE Accept
  BY <1>1 DEF Accept, NoRequest, WholeInv
<1> SUFFICES ASSUME ReadInv, WholeInv PROVE WholeInv'
  BY <1>1, <1>a
<1>2. CASE Close
  BY <1>2 DEF Close, WholeInv
<1>3. ASSUME NEW r \in Requests, Ask(r) PROVE WholeInv'
  BY <1>0, <1>3, WholeAsk
<1>4. ASSUME NEW n \in 1..Len(client.unsent), Arrive(n) PROVE WholeInv'
  BY <1>0, <1>4, WholeArrive
<1>5. CASE ReadOnce
  BY <1>0, <1>5, WholeReadOnce
<1>6. CASE NextLine
  BY <1>0, <1>6, WholeNextLine
<1>7. CASE process_write
  BY <1>7 DEF process_write, WholeInv
<1>8. CASE StartWrite
  <2>1. at' = "write"
    BY <1>8 DEF StartWrite, ReadInv, Sending
  <2> QED BY <2>1 DEF WholeInv
<1>9. CASE WriteAgain
  BY <1>9 DEF WriteAgain, WholeInv
<1>10. CASE WriteError
  BY <1>10 DEF WriteError, WholeInv
<1>11. ASSUME NEW n \in 0..Offered, Writev(n) PROVE WholeInv'
  <2>1. client' = NoRequest \/ at' \notin {"in", "parse"}
    BY <1>11 DEF Writev
  <2> QED BY <2>1 DEF NoRequest, WholeInv
<1>12. CASE UNCHANGED vars
  BY <1>12 DEF vars, WholeInv
<1> QED BY <1>1, <1>2, <1>3, <1>4, <1>5, <1>6, <1>7, <1>8, <1>9, <1>10, <1>11, <1>12 DEF Next

\* If bodies are announced and arrive in one piece, the object never waits for input when
\* all of the request has been read, however the head is cut and however long the request
\* is.
THEOREM NotLeftWaiting ==
    ASSUME ~CutBody
    PROVE  Spec => []NeverStuck
<1>1. Init => SendInv /\ HonestInv /\ HonestWholeInv
  <2>1. Init => HonestWholeInv
    BY DEF Init, HonestWholeInv, WholeInv
  <2> QED BY <2>1, SendInitially, ReadInitially
<1>2. SendInv /\ HonestInv /\ HonestWholeInv /\ [Next]_vars =>
          (SendInv /\ HonestInv /\ HonestWholeInv)'
  BY SendInductive, ReadInductive, WholeInductive
<1>3. SendInv /\ HonestInv /\ HonestWholeInv => NeverStuck
  <2> SUFFICES ASSUME SendInv, ReadInv, WholeInv, at = "in", client.req # None,
                      client.unsent = <<>>, inbox = <<>>
               PROVE  FALSE
    BY DEF NeverStuck, HonestInv, HonestWholeInv
  <2>1. PICK r : r = client.req
    OBVIOUS
  <2>2. TypeOK /\ r \in Requests /\ r # None /\ Following(r)
    BY <2>1 DEF SendInv, ReadInv, TypeOK
  <2>3. Whole(r, Len(rd.m_read_buf), Len(client.unsent))
    BY <2>1, <2>2, WholeMeans
  <2>4. Len(rd.m_read_buf) < Len(Encode(r))
    BY <2>3 DEF Whole
  <2>5. InFlight(Encode(r), Len(rd.m_read_buf), inbox, client.unsent)
    BY <2>2 DEF Following
  <2>6. /\ Len(rd.m_read_buf) \in Nat /\ Len(Encode(r)) \in Nat
        /\ Len(rd.m_read_buf) + Len(inbox) + Len(client.unsent) = Len(Encode(r))
    BY <2>2, <2>5, InFlightLens
  <2>7. Len(inbox) = 0 /\ Len(client.unsent) = 0
    BY EmptySeq
  <2> QED BY <2>4, <2>6, <2>7
<1> QED BY <1>1, <1>2, <1>3, PTL DEF Spec
=============================================================================
