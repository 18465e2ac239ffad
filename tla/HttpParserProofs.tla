-------------------------- MODULE HttpParserProofs --------------------------
(***************************************************************************)
(* ParserInv is an invariant of HttpParser, for arrays of any size and any *)
(* streams, up to the first write behind the header array: one lemma per   *)
(* state of the machine, then the theorems.                                *)
(***************************************************************************)
EXTENDS HttpParser, TLAPS

USE SMTT(60)

\* What Feed fixes for the action of each state.
Feeding(c) ==
  /\ status = "INCOMPLETE" /\ pos < Len(stream) /\ c = stream[pos + 1]
  /\ pos' = pos + 1 /\ UNCHANGED <<caller, stream, start, kept>>

\* The sizes of the arrays are numbers.
LEMMA Sizes ==
  /\ METHOD_SIZE \in Nat \ {0} /\ MAX_PATH \in Nat \ {0} /\ ver \in Nat \ {0}
  /\ ROW \in Nat /\ ROW >= 4 /\ MAX_HEADERS \in Nat
BY ParserBounds

\* Appending to a text.
LEMMA AppendSeq ==
  ASSUME NEW S, NEW t \in Seq(S), NEW e \in S
  PROVE  Append(t, e) \in Seq(S) /\ Len(Append(t, e)) = Len(t) + 1 /\ Len(t) \in Nat
OBVIOUS

\* A byte appended to a text.
LEMMA AppendText ==
  ASSUME NEW t \in Texts, NEW c \in STRING
  PROVE  Append(t, c) \in Texts /\ Len(Append(t, c)) = Len(t) + 1 /\ Len(t) \in Nat
BY AppendSeq, ZenonT(60) DEF Texts

\* A byte stored where there is room for it.
LEMMA StoredText ==
  ASSUME NEW t \in Texts, NEW c \in STRING, NEW n \in Nat, Room(t, n)
  PROVE  Append(t, c) \in Texts /\ Len(Append(t, c)) < n
<1>1. Append(t, c) \in Texts /\ Len(Append(t, c)) = Len(t) + 1 /\ Len(t) \in Nat
  BY AppendText, ZenonT(60)
<1>2. \A l \in Nat : l < n - 1 => l + 1 < n
  OBVIOUS
<1>3. QED
  BY <1>1, <1>2, ZenonT(60) DEF Room

\* The empty text.
LEMMA EmptyText == <<>> \in Texts /\ Len(<<>>) = 0
BY DEF Texts

\* The fields of the two structures.
LEMMA Fields ==
  ASSUME ParserInv
  PROVE  /\ p \in http_parser /\ req \in http_request
         /\ p.method_tmp \in Texts /\ p.name \in Texts /\ p.value \in Texts
         /\ p.host_seen \in BOOLEAN
         /\ req.path \in Texts /\ req.query_string \in Texts /\ req.version \in Texts
         /\ req.headers \in Seq(header)
<1>1. p \in http_parser /\ req \in http_request
  BY DEF ParserInv, TypeInv
<1>2. QED
  BY <1>1, ZenonT(60) DEF http_parser, http_request

\* The byte fed is one of the stream.
LEMMA FedByte ==
  ASSUME ParserInv, NEW c, Feeding(c)
  PROVE  /\ c \in STRING
         /\ pos' \in 0 .. Len(stream') /\ start' \in 0 .. pos'
         /\ stream'[pos'] = c /\ pos' > 0 /\ pos' - 1 = pos
         /\ stream' \in Texts /\ caller' \in {"reactor", "once", "returned"}
BY DEF ParserInv, TypeInv, Feeding, Texts

\* A malformed byte, or one written behind the array: nothing but the status changes.
LEMMA RejectInv ==
  ASSUME ParserInv, NEW c, Feeding(c), Reject \/ Lost
  PROVE  ParserInv'
<1>1. p' = p /\ req' = req /\ kept' = kept /\ status' \in {"ERROR", "UNDEFINED"}
  BY DEF Reject, Lost, Feeding
<1>2. TypeInv'
  BY <1>1, FedByte DEF ParserInv, TypeInv
<1>3. StoresFit'
  BY <1>1 DEF ParserInv, StoresFit, RowsExist, InValue
<1>4. OwnHost' = OwnHost /\ InValue' = InValue
  BY <1>1 DEF OwnHost, InValue
<1>5. QED
  BY <1>1, <1>2, <1>3, <1>4 DEF ParserInv, HostRequired

\* A step that keeps the header lines, and does not end the request.
LEMMA TextInv ==
  ASSUME ParserInv, NEW c, Feeding(c), NEW q \in http_parser, NEW r \in http_request,
         Becomes(q, r), r.headers = req.headers,
         Len(q.method_tmp) < METHOD_SIZE, Len(q.name) < ROW,
         Len(r.path) < MAX_PATH, Len(r.query_string) < MAX_PATH, Len(r.version) < ver,
         q.state \in {"P_HEADER_VALUE", "P_HEADER_VALUE_CR"} =>
           RowFits(q.name, q.value) /\ Len(req.headers) < MAX_HEADERS,
         q.host_seen => \/ OwnHost
                        \/ /\ q.state \in {"P_HEADER_VALUE", "P_HEADER_VALUE_CR"}
                           /\ q.name = <<"Host">>,
         q.state = "P_HEADER_NAME" /\ q.name = <<>> => c = "LF"
  PROVE  ParserInv'
<1>1. p' = q /\ req' = r /\ status' = "INCOMPLETE" /\ kept' = kept
  BY DEF Becomes, Feeding
<1>2. TypeInv'
  BY <1>1, FedByte DEF ParserInv, TypeInv
<1>3. StoresFit'
  <2>1. RowsExist'
    BY <1>1 DEF ParserInv, StoresFit, RowsExist, InValue
  <2>2. QED
    BY <1>1, <2>1 DEF ParserInv, StoresFit
<1>4. OwnHost' = OwnHost
  BY <1>1 DEF OwnHost
<1>5. QED
  BY <1>1, <1>2, <1>3, <1>4, FedByte DEF ParserInv, HostRequired, InValue

\* A step that changes the parser only, and keeps its texts.
LEMMA StateInv ==
  ASSUME ParserInv, NEW c, Feeding(c),
         NEW s \in {"P_PATH", "P_QUERY", "P_VERSION", "P_VERSION_CR", "P_HEADER_NAME_CR"},
         ~InValue, NEW r \in http_request, r.headers = req.headers,
         Len(r.path) < MAX_PATH, Len(r.query_string) < MAX_PATH, Len(r.version) < ver,
         Becomes([p EXCEPT !.state = s], r)
  PROVE  ParserInv'
<1> DEFINE q == [p EXCEPT !.state = s]
<1>1. /\ q \in http_parser /\ q.state = s /\ q.name = p.name /\ q.method_tmp = p.method_tmp
      /\ q.host_seen = p.host_seen
  BY Fields, ZenonT(60) DEF http_parser
<1> HIDE DEF q
<1>2. Becomes(q, r)
  BY DEF q
<1>3. QED
  BY <1>1, <1>2, TextInv DEF ParserInv, StoresFit

\* P_METHOD: a blank ends the token, a byte with room is stored.
LEMMA FeedMethodInv ==
  ASSUME ParserInv, NEW c, Feeding(c), FeedMethod(c)
  PROVE  ParserInv'
<1> DEFINE r1 == [req EXCEPT !.method = method_from_token(p.method_tmp), !.path = <<>>]
           q2 == [p EXCEPT !.method_tmp = Append(@, c)]
<1>1. p.state = "P_METHOD" /\ ~InValue
  BY DEF FeedMethod, InValue
<1>2. CASE Becomes([p EXCEPT !.state = "P_PATH"], r1)
  <2>1. method_from_token(p.method_tmp)
          \in {"HTTP_GET", "HTTP_HEAD", "HTTP_POST", "HTTP_UNSUPPORTED"}
    BY DEF method_from_token
  <2>2. /\ r1 \in http_request /\ r1.headers = req.headers /\ r1.path = <<>>
        /\ r1.query_string = req.query_string /\ r1.version = req.version
    BY <2>1, Fields, EmptyText, ZenonT(60) DEF http_request
  <2> HIDE DEF r1
  <2>3. Len(r1.path) < MAX_PATH /\ Len(r1.query_string) < MAX_PATH /\ Len(r1.version) < ver
    BY <2>2, EmptyText, Sizes DEF ParserInv, StoresFit
  <2>4. QED
    BY <1>1, <1>2, <2>2, <2>3, StateInv, ZenonT(60)
<1>3. CASE Room(p.method_tmp, METHOD_SIZE) /\ Becomes(q2, req)
  <2>1. Append(p.method_tmp, c) \in Texts /\ Len(Append(p.method_tmp, c)) < METHOD_SIZE
    BY <1>3, Fields, FedByte, StoredText, Sizes, ZenonT(60)
  <2>2. /\ q2 \in http_parser /\ q2.method_tmp = Append(p.method_tmp, c)
        /\ q2.name = p.name /\ q2.state = p.state /\ q2.host_seen = p.host_seen
    BY <2>1, Fields, ZenonT(60) DEF http_parser
  <2> HIDE DEF q2
  <2>3. QED
    BY <1>1, <1>3, <2>1, <2>2, Fields, TextInv DEF ParserInv, StoresFit
<1>4. QED
  BY <1>2, <1>3, RejectInv DEF FeedMethod

\* P_PATH: a blank or "?" ends the path, a byte with room is stored.
LEMMA FeedPathInv ==
  ASSUME ParserInv, NEW c, Feeding(c), FeedPath(c)
  PROVE  ParserInv'
<1> DEFINE r1 == [req EXCEPT !.version = <<>>]
           r2 == [req EXCEPT !.query_string = <<>>]
           r3 == [req EXCEPT !.path = Append(@, c)]
<1>1. p.state = "P_PATH" /\ ~InValue
  BY DEF FeedPath, InValue
<1>2. CASE Becomes([p EXCEPT !.state = "P_VERSION"], r1)
  <2>1. /\ r1 \in http_request /\ r1.headers = req.headers /\ r1.path = req.path
        /\ r1.query_string = req.query_string /\ r1.version = <<>>
    BY Fields, EmptyText, ZenonT(60) DEF http_request
  <2> HIDE DEF r1
  <2>2. Len(r1.path) < MAX_PATH /\ Len(r1.query_string) < MAX_PATH /\ Len(r1.version) < ver
    BY <2>1, EmptyText, Sizes DEF ParserInv, StoresFit
  <2>3. QED
    BY <1>1, <1>2, <2>1, <2>2, StateInv, ZenonT(60)
<1>3. CASE Becomes([p EXCEPT !.state = "P_QUERY"], r2)
  <2>1. /\ r2 \in http_request /\ r2.headers = req.headers /\ r2.path = req.path
        /\ r2.query_string = <<>> /\ r2.version = req.version
    BY Fields, EmptyText, ZenonT(60) DEF http_request
  <2> HIDE DEF r2
  <2>2. Len(r2.path) < MAX_PATH /\ Len(r2.query_string) < MAX_PATH /\ Len(r2.version) < ver
    BY <2>1, EmptyText, Sizes DEF ParserInv, StoresFit
  <2>3. QED
    BY <1>1, <1>3, <2>1, <2>2, StateInv, ZenonT(60)
<1>4. CASE Room(req.path, MAX_PATH) /\ Becomes(p, r3)
  <2>1. Append(req.path, c) \in Texts /\ Len(Append(req.path, c)) < MAX_PATH
    BY <1>4, Fields, FedByte, StoredText, Sizes, ZenonT(60)
  <2>2. /\ r3 \in http_request /\ r3.headers = req.headers /\ r3.path = Append(req.path, c)
        /\ r3.query_string = req.query_string /\ r3.version = req.version
    BY <2>1, Fields, ZenonT(60) DEF http_request
  <2> HIDE DEF r3
  <2>3. QED
    BY <1>1, <1>4, <2>1, <2>2, Fields, TextInv DEF ParserInv, StoresFit
<1>5. QED
  BY <1>2, <1>3, <1>4, RejectInv DEF FeedPath

\* P_QUERY: a blank ends the query, a byte with room is stored.
LEMMA FeedQueryInv ==
  ASSUME ParserInv, NEW c, Feeding(c), FeedQuery(c)
  PROVE  ParserInv'
<1> DEFINE r1 == [req EXCEPT !.version = <<>>]
           r2 == [req EXCEPT !.query_string = Append(@, c)]
<1>1. p.state = "P_QUERY" /\ ~InValue
  BY DEF FeedQuery, InValue
<1>2. CASE Becomes([p EXCEPT !.state = "P_VERSION"], r1)
  <2>1. /\ r1 \in http_request /\ r1.headers = req.headers /\ r1.path = req.path
        /\ r1.query_string = req.query_string /\ r1.version = <<>>
    BY Fields, EmptyText, ZenonT(60) DEF http_request
  <2> HIDE DEF r1
  <2>2. Len(r1.path) < MAX_PATH /\ Len(r1.query_string) < MAX_PATH /\ Len(r1.version) < ver
    BY <2>1, EmptyText, Sizes DEF ParserInv, StoresFit
  <2>3. QED
    BY <1>1, <1>2, <2>1, <2>2, StateInv, ZenonT(60)
<1>3. CASE Room(req.query_string, MAX_PATH) /\ Becomes(p, r2)
  <2>1. Append(req.query_string, c) \in Texts /\ Len(Append(req.query_string, c)) < MAX_PATH
    BY <1>3, Fields, FedByte, StoredText, Sizes, ZenonT(60)
  <2>2. /\ r2 \in http_request /\ r2.headers = req.headers /\ r2.path = req.path
        /\ r2.query_string = Append(req.query_string, c) /\ r2.version = req.version
    BY <2>1, Fields, ZenonT(60) DEF http_request
  <2> HIDE DEF r2
  <2>3. QED
    BY <1>1, <1>3, <2>1, <2>2, Fields, TextInv DEF ParserInv, StoresFit
<1>4. QED
  BY <1>2, <1>3, RejectInv DEF FeedQuery

\* The LF that ends the request line.
LEMMA HeaderLinesInv ==
  ASSUME ParserInv, NEW c, Feeding(c), c = "LF", ~InValue, HeaderLines
  PROVE  ParserInv'
<1> DEFINE q == [p EXCEPT !.state = "P_HEADER_NAME", !.name = <<>>]
<1>1. /\ q \in http_parser /\ q.state = "P_HEADER_NAME" /\ q.name = <<>>
      /\ q.method_tmp = p.method_tmp /\ q.host_seen = p.host_seen
  BY Fields, EmptyText, ZenonT(60) DEF http_parser
<1>2. Becomes(q, req)
  BY DEF HeaderLines
<1> HIDE DEF q
<1>3. QED
  BY <1>1, <1>2, Fields, EmptyText, Sizes, TextInv DEF ParserInv, StoresFit

\* P_VERSION and P_VERSION_CR: the line ends, or a byte with room is stored.
LEMMA FeedVersionInv ==
  ASSUME ParserInv, NEW c, Feeding(c), FeedVersion(c) \/ FeedVersionCR(c)
  PROVE  ParserInv'
<1> DEFINE r == [req EXCEPT !.version = Append(@, c)]
<1>1. p.state \in {"P_VERSION", "P_VERSION_CR"} /\ ~InValue
  BY DEF FeedVersion, FeedVersionCR, InValue
<1>2. CASE Becomes([p EXCEPT !.state = "P_VERSION_CR"], req)
  BY <1>1, <1>2, Fields, StateInv DEF ParserInv, StoresFit
<1>3. CASE Room(req.version, ver) /\ Becomes(p, r)
  <2>1. Append(req.version, c) \in Texts /\ Len(Append(req.version, c)) < ver
    BY <1>3, Fields, FedByte, StoredText, Sizes, ZenonT(60)
  <2>2. /\ r \in http_request /\ r.headers = req.headers /\ r.path = req.path
        /\ r.query_string = req.query_string /\ r.version = Append(req.version, c)
    BY <2>1, Fields, ZenonT(60) DEF http_request
  <2> HIDE DEF r
  <2>3. QED
    BY <1>1, <1>3, <2>1, <2>2, Fields, TextInv DEF ParserInv, StoresFit
<1>4. QED
  BY <1>1, <1>2, <1>3, HeaderLinesInv, RejectInv DEF FeedVersion, FeedVersionCR

\* The blank line: the request is complete.
LEMMA FinalizeInv ==
  ASSUME ParserInv, NEW c, Feeding(c), parser_finalize, ~InValue,
         req.version = <<"HTTP/1.1">> => OwnHost \/ AtBareLF'
  PROVE  ParserInv'
<1> DEFINE q == [p EXCEPT !.state = "P_DONE"]
           k == KeepAlive(req.version, req.headers)
           r == [req EXCEPT !.parsed = TRUE, !.keep_alive = k]
<1>1. /\ q \in http_parser /\ q.state = "P_DONE" /\ q.name = p.name
      /\ q.method_tmp = p.method_tmp /\ q.host_seen = p.host_seen
  BY Fields, ZenonT(60) DEF http_parser
<1>2. k \in BOOLEAN
  BY ZenonT(60) DEF KeepAlive
<1> HIDE DEF k
<1>3. /\ r \in http_request /\ r.headers = req.headers /\ r.path = req.path
      /\ r.query_string = req.query_string /\ r.version = req.version
  BY <1>2, Fields, ZenonT(60) DEF http_request
<1>4. p' = q /\ req' = r /\ status' = "DONE" /\ kept' = kept
  BY DEF parser_finalize, Feeding, k
<1> HIDE DEF q, r
<1>5. TypeInv'
  BY <1>1, <1>3, <1>4, FedByte DEF ParserInv, TypeInv
<1>6. StoresFit'
  <2>1. RowsExist'
    BY <1>1, <1>3, <1>4 DEF ParserInv, StoresFit, RowsExist, InValue
  <2>2. QED
    BY <1>1, <1>3, <1>4, <2>1 DEF ParserInv, StoresFit
<1>7. OwnHost' = OwnHost
  BY <1>3, <1>4 DEF OwnHost
<1>8. HostRequired' /\ ~InValue'
  BY <1>1, <1>3, <1>4, <1>7 DEF HostRequired, InValue
<1>9. p.host_seen => OwnHost \/ (InValue /\ p.name = <<"Host">>)
  BY DEF ParserInv
<1>10. QED
  BY <1>1, <1>4, <1>5, <1>6, <1>7, <1>8, <1>9 DEF ParserInv

\* P_HEADER_NAME: a bare LF here is behind another LF, so it is a bare one.
LEMMA FeedHeaderNameInv ==
  ASSUME ParserInv, NEW c, Feeding(c), FeedHeaderName(c)
  PROVE  ParserInv'
<1> DEFINE q1 == [p EXCEPT !.state = "P_HEADER_VALUE", !.value = <<>>, !.host_seen = HostSeen]
           q2 == [p EXCEPT !.name = Append(@, c)]
<1>1. p.state = "P_HEADER_NAME" /\ ~InValue
  BY DEF FeedHeaderName, InValue
<1>2. CASE ~Behind(Len(p.name) + 1) /\ Becomes(q1, req)
  <2>1. HostSeen \in BOOLEAN /\ (HostSeen => OwnHost \/ p.name = <<"Host">>)
    BY <1>1, Fields DEF HostSeen, ParserInv
  <2>2. /\ q1 \in http_parser /\ q1.state = "P_HEADER_VALUE" /\ q1.name = p.name
        /\ q1.value = <<>> /\ q1.method_tmp = p.method_tmp /\ q1.host_seen = HostSeen
    BY <2>1, Fields, EmptyText, ZenonT(60) DEF http_parser
  <2>3. RowFits(p.name, <<>>)
    <3>1. Len(p.name) \in Nat
      BY Fields DEF Texts
    <3>2. Len(p.name) < ROW
      BY ZenonT(60) DEF ParserInv, StoresFit
    <3>3. Len(p.name) + 2 + Len(<<>>) < ROW + 2
      BY <3>1, <3>2, EmptyText, Sizes
    <3>4. QED
      BY <3>3 DEF RowFits
  <2> HIDE DEF q1
  <2>4. Len(req.headers) < MAX_HEADERS
    <3>1. Len(req.headers) \in Nat
      BY Fields
    <3>2. \/ ~(Len(req.headers) + 0 >= MAX_HEADERS)
          \/ ~(Len(req.headers) + 1 >= MAX_HEADERS)
      BY <1>2, ZenonT(60) DEF Behind
    <3>3. QED
      BY <3>1, <3>2, Sizes
  <2>5. QED
    BY <1>2, <2>1, <2>2, <2>3, <2>4, Fields, TextInv DEF ParserInv, StoresFit
<1>3. CASE Becomes([p EXCEPT !.state = "P_HEADER_NAME_CR"], req)
  <2>1. Len(req.path) < MAX_PATH /\ Len(req.query_string) < MAX_PATH /\ Len(req.version) < ver
    BY DEF ParserInv, StoresFit
  <2>2. QED
    BY <1>1, <1>3, <2>1, Fields, StateInv, ZenonT(60)
<1>4. CASE c = "LF" /\ p.name = <<>> /\ parser_finalize
  <2>1. stream[pos] = "LF" /\ pos > 0
    BY <1>1, <1>4 DEF ParserInv, Feeding
  <2>2. AtBareLF'
    BY <1>4, <2>1, FedByte DEF AtBareLF, Feeding
  <2>3. QED
    BY <1>1, <1>4, <2>2, FinalizeInv
<1>5. CASE Len(p.name) < ROW - 1 /\ Becomes(q2, req)
  <2>1. Room(p.name, ROW)
    BY <1>5 DEF Room
  <2>2. Append(p.name, c) \in Texts /\ Len(Append(p.name, c)) < ROW
    BY <2>1, Fields, FedByte, StoredText, Sizes, ZenonT(60)
  <2>3. Append(p.name, c) # <<>>
    <3>1. Len(Append(p.name, c)) = Len(p.name) + 1 /\ Len(p.name) \in Nat
      BY Fields, FedByte, AppendText, ZenonT(60)
    <3>2. \A l \in Nat : l + 1 # 0
      OBVIOUS
    <3>3. QED
      BY <3>1, <3>2, EmptyText, ZenonT(60)
  <2>4. /\ q2 \in http_parser /\ q2.name = Append(p.name, c) /\ q2.state = p.state
        /\ q2.method_tmp = p.method_tmp /\ q2.host_seen = p.host_seen
    BY <2>2, Fields, ZenonT(60) DEF http_parser
  <2> HIDE DEF q2
  <2>5. QED
    BY <1>1, <1>5, <2>2, <2>3, <2>4, Fields, TextInv DEF ParserInv, StoresFit
<1>6. QED
  BY <1>2, <1>3, <1>4, <1>5, RejectInv DEF FeedHeaderName, Writes

\* P_HEADER_NAME_CR: host_seen vouches for a row of this request.
LEMMA FeedHeaderNameCRInv ==
  ASSUME ParserInv, NEW c, Feeding(c), FeedHeaderNameCR(c)
  PROVE  ParserInv'
<1>1. ~InValue
  BY DEF FeedHeaderNameCR, InValue
<1>2. ~HostMissing /\ req.version = <<"HTTP/1.1">> => OwnHost
  BY <1>1 DEF HostMissing, ParserInv
<1>3. QED
  BY <1>1, <1>2, FinalizeInv, RejectInv DEF FeedHeaderNameCR

\* The LF that ends a header line: the row is in the request.
LEMMA HeaderDoneInv ==
  ASSUME ParserInv, NEW c, Feeding(c), c = "LF", InValue, HeaderDone, ~Lost
  PROVE  ParserInv'
<1> DEFINE q == [p EXCEPT !.state = "P_HEADER_NAME", !.name = <<>>]
           h == [name |-> p.name, value |-> p.value]
           r == [req EXCEPT !.headers = Append(@, h)]
<1>1. /\ q \in http_parser /\ q.state = "P_HEADER_NAME" /\ q.name = <<>>
      /\ q.method_tmp = p.method_tmp /\ q.host_seen = p.host_seen
  BY Fields, EmptyText, ZenonT(60) DEF http_parser
<1>2. h \in header /\ h.name = p.name /\ h.value = p.value
  BY Fields DEF header
<1>3. Becomes(q, r)
  BY ZenonT(60) DEF HeaderDone, Writes
<1> HIDE DEF h
<1>4. Append(req.headers, h) \in Seq(header)
  BY <1>2, Fields
<1>5. /\ r \in http_request /\ r.headers = Append(req.headers, h) /\ r.path = req.path
      /\ r.query_string = req.query_string /\ r.version = req.version
  BY <1>4, Fields, ZenonT(60) DEF http_request
<1> HIDE DEF q, r
<1>6. /\ p' = q /\ req' = r /\ status' = "INCOMPLETE" /\ kept' = kept
  BY <1>3 DEF Becomes, Feeding
<1>7. /\ Len(r.headers) = Len(req.headers) + 1 /\ Len(req.headers) \in Nat
      /\ r.headers[Len(req.headers) + 1] = h
      /\ \A n \in 1 .. Len(req.headers) : r.headers[n] = req.headers[n]
      /\ DOMAIN r.headers = 1 .. Len(req.headers) + 1
      /\ DOMAIN req.headers = 1 .. Len(req.headers)
  BY <1>2, <1>5, Fields
<1>8. kept \in 0 .. Len(req.headers)
  BY DEF ParserInv, TypeInv
<1>9. TypeInv'
  BY <1>1, <1>5, <1>6, <1>7, <1>8, FedByte DEF ParserInv, TypeInv
<1>10. RowFits(h.name, h.value)
  BY <1>2 DEF ParserInv
<1>11. \A n \in DOMAIN r.headers : RowFits(r.headers[n].name, r.headers[n].value)
  BY <1>7, <1>10 DEF ParserInv, StoresFit
<1>12. StoresFit'
  <2>1. Len(q.name) < ROW
    BY <1>1, EmptyText, Sizes
  <2>2. RowsExist'
    BY <1>1, <1>6, <1>7, Sizes DEF ParserInv, StoresFit, RowsExist, InValue
  <2>3. QED
    BY <1>1, <1>5, <1>6, <1>11, <2>1, <2>2, ZenonT(60) DEF ParserInv, StoresFit
<1>13. OwnHost \/ p.name = <<"Host">> => OwnHost'
  BY <1>2, <1>6, <1>7, <1>8 DEF OwnHost
<1>14. QED
  BY <1>1, <1>6, <1>9, <1>12, <1>13, FedByte DEF ParserInv, HostRequired, InValue

\* P_HEADER_VALUE and P_HEADER_VALUE_CR: the row keeps fitting.
LEMMA FeedHeaderValueInv ==
  ASSUME ParserInv, NEW c, Feeding(c), FeedHeaderValue(c) \/ FeedHeaderValueCR(c)
  PROVE  ParserInv'
<1> DEFINE q1 == [p EXCEPT !.state = "P_HEADER_VALUE_CR"]
           q2 == [p EXCEPT !.value = Append(@, c)]
<1>1. /\ InValue /\ p.state \in {"P_HEADER_VALUE", "P_HEADER_VALUE_CR"}
      /\ Len(req.headers) < MAX_HEADERS
  BY DEF FeedHeaderValue, FeedHeaderValueCR, InValue, ParserInv, StoresFit, RowsExist
<1>2. CASE Becomes(q1, req)
  <2>1. /\ q1 \in http_parser /\ q1.state = "P_HEADER_VALUE_CR" /\ q1.name = p.name
        /\ q1.value = p.value /\ q1.method_tmp = p.method_tmp /\ q1.host_seen = p.host_seen
    BY Fields, ZenonT(60) DEF http_parser
  <2> HIDE DEF q1
  <2>2. QED
    BY <1>1, <1>2, <2>1, Fields, TextInv DEF ParserInv, StoresFit
<1>3. CASE Becomes(p, req)
  BY <1>1, <1>3, Fields, TextInv DEF ParserInv, StoresFit
<1>4. CASE ValueRoom /\ Becomes(q2, req)
  <2>1. /\ Append(p.value, c) \in Texts /\ Len(Append(p.value, c)) = Len(p.value) + 1
        /\ Len(p.value) \in Nat
    BY Fields, FedByte, AppendText, ZenonT(60)
  <2>2. /\ q2 \in http_parser /\ q2.value = Append(p.value, c) /\ q2.state = p.state
        /\ q2.name = p.name /\ q2.method_tmp = p.method_tmp /\ q2.host_seen = p.host_seen
    BY <2>1, Fields, ZenonT(60) DEF http_parser
  <2> HIDE DEF q2
  <2>3. RowFits(q2.name, q2.value)
    <3>1. Len(p.name) \in Nat /\ Len(q2.value) = Len(p.value) + 1
      BY <2>1, <2>2, Fields DEF Texts
    <3>2. \A l, m \in Nat : l + 2 + m < ROW - 1 => /\ l + 2 + (m + 1) < ROW
                                                 /\ l + 2 + (m + 1) < ROW + 2
      BY Sizes
    <3>3. QED
      BY <1>4, <2>1, <2>2, <3>1, <3>2, ZenonT(60) DEF RowFits, ValueRoom
  <2>4. /\ q2.state \in {"P_HEADER_VALUE", "P_HEADER_VALUE_CR"}
        /\ q2.host_seen => OwnHost \/ q2.name = <<"Host">>
        /\ Len(q2.method_tmp) < METHOD_SIZE /\ Len(q2.name) < ROW /\ q2 \in http_parser
    BY <1>1, <2>2, ZenonT(60) DEF ParserInv, StoresFit
  <2>5. QED
    BY <1>1, <1>4, <2>3, <2>4, Fields, TextInv DEF ParserInv, StoresFit
<1>5. QED
  BY <1>1, <1>2, <1>3, <1>4, HeaderDoneInv, RejectInv DEF FeedHeaderValue, FeedHeaderValueCR

\* Every byte fed.
LEMMA FeedInv ==
  ASSUME ParserInv, Feed
  PROVE  ParserInv'
<1>1. PICK c : /\ Feeding(c)
               /\ \/ FeedMethod(c) \/ FeedPath(c) \/ FeedQuery(c)
                  \/ FeedVersion(c) \/ FeedVersionCR(c)
                  \/ FeedHeaderName(c) \/ FeedHeaderNameCR(c)
                  \/ FeedHeaderValue(c) \/ FeedHeaderValueCR(c)
  BY ZenonT(60) DEF Feed, Feeding
<1>2. QED
  BY <1>1, FeedMethodInv, FeedPathInv, FeedQueryInv, FeedVersionInv, FeedHeaderNameInv,
     FeedHeaderNameCRInv, FeedHeaderValueInv, ZenonT(60)

\* Binding the parser again: no row of the next request is there yet.
LEMMA ReuseInv ==
  ASSUME ParserInv, Reuse
  PROVE  ParserInv'
<1> DEFINE q == http_parser_init
<1>1. /\ q \in http_parser /\ q.state = "P_METHOD" /\ q.name = <<>> /\ q.method_tmp = <<>>
      /\ q.host_seen = FALSE
  BY EmptyText DEF http_parser_init, http_parser
<1> HIDE DEF q
<1>2. p' = q /\ req' = req /\ status' = "INCOMPLETE"
  BY DEF Reuse, q
<1>3. Len(req.headers) \in Nat
  BY Fields
<1>4. TypeInv'
  BY <1>1, <1>2, <1>3 DEF ParserInv, TypeInv, Reuse
<1>5. StoresFit'
  <2>1. Len(q.name) < ROW /\ Len(q.method_tmp) < METHOD_SIZE
    BY <1>1, EmptyText, Sizes
  <2>2. RowsExist'
    BY <1>1, <1>2 DEF ParserInv, StoresFit, RowsExist, InValue
  <2>3. QED
    BY <1>2, <2>1, <2>2, ZenonT(60) DEF ParserInv, StoresFit
<1>6. QED
  BY <1>1, <1>2, <1>4, <1>5 DEF ParserInv, HostRequired, InValue

\* http_parse_request returns: only parsed changes.
LEMMA ReturnInv ==
  ASSUME ParserInv, ParseRequestReturns
  PROVE  ParserInv'
<1> DEFINE r == [req EXCEPT !.parsed = (status = "DONE")]
<1>1. /\ r \in http_request /\ r.headers = req.headers /\ r.path = req.path
      /\ r.query_string = req.query_string /\ r.version = req.version
  BY Fields, ZenonT(60) DEF http_request
<1>2. req' = r /\ UNCHANGED <<p, status, stream, pos, start, kept>> /\ caller' = "returned"
  BY DEF ParseRequestReturns
<1> HIDE DEF r
<1>3. TypeInv'
  BY <1>1, <1>2 DEF ParserInv, TypeInv
<1>4. StoresFit'
  BY <1>1, <1>2, ZenonT(60) DEF ParserInv, StoresFit, RowsExist, InValue
<1>5. OwnHost' = OwnHost /\ AtBareLF' = AtBareLF /\ InValue' = InValue
  BY <1>1, <1>2 DEF OwnHost, AtBareLF, InValue
<1>6. HostRequired'
  BY <1>1, <1>2, <1>5 DEF ParserInv, HostRequired
<1>7. QED
  BY <1>2, <1>3, <1>4, <1>5, <1>6 DEF ParserInv

\* Nothing changes.
LEMMA StutterInv ==
  ASSUME ParserInv, UNCHANGED vars
  PROVE  ParserInv'
BY ZenonT(60) DEF ParserInv, TypeInv, StoresFit, RowsExist, HostRequired, OwnHost, AtBareLF, InValue,
   vars

\* A zeroed request and a fresh parser.
LEMMA InitInv ==
  ASSUME Init
  PROVE  ParserInv
<1>1. /\ p \in http_parser /\ p.state = "P_METHOD" /\ p.name = <<>> /\ p.method_tmp = <<>>
      /\ p.host_seen = FALSE
  BY EmptyText DEF Init, http_parser_init, http_parser
<1>2. /\ req \in http_request /\ req.path = <<>> /\ req.query_string = <<>>
      /\ req.version = <<>> /\ req.headers = <<>>
  BY EmptyText DEF Init, Zeroed, http_request
<1>3. stream \in Texts /\ Len(stream) \in Nat
  <2>1. stream \in Seq(STRING)
    BY ParserBounds, ZenonT(60) DEF Init
  <2>2. QED
    BY <2>1 DEF Texts
<1>4. TypeInv
  BY <1>1, <1>2, <1>3, EmptyText DEF Init, TypeInv
<1>5. StoresFit
  BY <1>1, <1>2, EmptyText, Sizes DEF StoresFit, RowsExist, InValue
<1>6. QED
  BY <1>1, <1>4, <1>5 DEF Init, ParserInv, HostRequired, InValue

\* ParserInv holds in every reachable state, for arrays of any size, any streams
\* and any number of header lines and requests, up to the first write behind the
\* header array: http_parser_feed's limits and its Host rule survive every byte it
\* is fed and every request a connection carries.
THEOREM ParserInvariant == Spec => []ParserInv
<1>1. ParserInv /\ [Next]_vars => ParserInv'
  BY FeedInv, ReuseInv, ReturnInv, StutterInv, ZenonT(60) DEF Next, Closed
<1>2. QED
  BY InitInv, <1>1, PTL DEF Spec

\* Until a write leaves the header array, http_parser_feed stores no text outside
\* its array, every row is one of the array, and only a header line without a
\* value reaches behind its row, by two cells at most.
THEOREM ParserStoresFit == Spec => []StoresFit
<1>1. ParserInv => StoresFit
  BY DEF ParserInv
<1>2. QED
  BY <1>1, ParserInvariant, PTL

\* http_parser_feed completes no HTTP/1.1 request without a Host line of its
\* own, but at a bare LF.
THEOREM ParserHostRequired == Spec => []HostRequired
<1>1. ParserInv => HostRequired
  BY DEF ParserInv
<1>2. QED
  BY <1>1, ParserInvariant, PTL
=============================================================================
