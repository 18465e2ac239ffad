----------------------------- MODULE HttpParser -----------------------------
(***************************************************************************)
(* The incremental request parser of src/src/http_parser.c, fed from one   *)
(* connection: byte by byte by the reactor, which uses parser and request  *)
(* again for the next request of a persistent connection, or at once by    *)
(* http_parse_request.                                                     *)
(*                                                                         *)
(* A unit of a stream is a byte the parser tells apart ("SP" is a space or *)
(* a tab) or a word, which stands for its text and counts as one byte of   *)
(* it.  Case is folded: "Host" is any spelling of it.                      *)
(***************************************************************************)
EXTENDS Integers, Sequences

CONSTANTS
  Streams,       \* what a connection may deliver: sequences of units
  METHOD_SIZE, MAX_PATH, ver, ROW, MAX_HEADERS   \* sizes of the arrays; ROW is
                                                 \* that of one header

\* A row holds more than the names the parser knows.
ASSUME ParserBounds ==
  /\ \A s \in Streams : s \in Seq(STRING)
  /\ METHOD_SIZE \in Nat \ {0} /\ MAX_PATH \in Nat \ {0} /\ ver \in Nat \ {0}
  /\ ROW \in Nat /\ ROW >= 4 /\ MAX_HEADERS \in Nat

VARIABLES
  p,             \* struct http_parser; each cursor is the length of its text
  req,           \* struct http_request; num_headers is the length of headers
  status,        \* what http_parser_feed returned last; "UNDEFINED" once a write
                 \* has left the header array (see Lost)
  caller,        \* "reactor", "once" (http_parse_request), or "returned" from it
  stream, pos,   \* what the connection delivers, and how much of it was fed
  start, kept    \* history: pos and num_headers when the parser was bound

vars == <<p, req, status, caller, stream, pos, start, kept>>

\* http_parser_init: the parser is cleared, the request is not.
http_parser_init ==
  [state |-> "P_METHOD", method_tmp |-> <<>>, name |-> <<>>, value |-> <<>>,
   host_seen |-> FALSE]

\* The request as calloc or memset leaves it.
Zeroed ==
  [method |-> "HTTP_GET", path |-> <<>>, query_string |-> <<>>, version |-> <<>>,
   headers |-> <<>>, keep_alive |-> FALSE, parsed |-> FALSE]

Init ==
  /\ p = http_parser_init /\ req = Zeroed
  /\ status = "INCOMPLETE" /\ caller \in {"reactor", "once"}
  /\ stream \in Streams
  /\ pos = 0 /\ start = 0 /\ kept = 0

-----------------------------------------------------------------------------
(* http_parser_feed: one action per state of the machine, on the byte c.   *)

Becomes(q, r) == p' = q /\ req' = r /\ status' = "INCOMPLETE"
Reject == status' = "ERROR" /\ UNCHANGED <<p, req>>

\* Nothing compares num_headers with MAX_HEADERS, and a header line may write two
\* cells behind its row.  Inside the array those are cells of the next row, which
\* the next line overwrites: the row is left without its end, and nothing reads
\* it beyond its name.  Behind the array they are num_headers and what follows,
\* and the model follows the connection no further.
Behind(n) == Len(req.headers) + (IF n < ROW THEN 0 ELSE 1) >= MAX_HEADERS
Lost == status' = "UNDEFINED" /\ UNCHANGED <<p, req>>

\* The step to q and r, which writes the row up to its cell n.
Writes(n, q, r) == IF Behind(n) THEN Lost ELSE Becomes(q, r)

\* A byte more and the terminating NUL fit.
Room(text, size) == Len(text) < size - 1

method_from_token(tok) ==
  CASE tok = <<"GET">> -> "HTTP_GET"
    [] tok = <<"HEAD">> -> "HTTP_HEAD"
    [] tok = <<"POST">> -> "HTTP_POST"
    [] OTHER -> "HTTP_UNSUPPORTED"

FeedMethod(c) ==
  LET ends == c = "SP" /\ p.method_tmp # <<>>
      stores == c \notin {"SP", "CR", "LF"} /\ Room(p.method_tmp, METHOD_SIZE)
  IN /\ p.state = "P_METHOD"
     /\ \/ ends /\ Becomes([p EXCEPT !.state = "P_PATH"],
                           [req EXCEPT !.method = method_from_token(p.method_tmp), !.path = <<>>])
        \/ stores /\ Becomes([p EXCEPT !.method_tmp = Append(@, c)], req)
        \/ ~ends /\ ~stores /\ Reject

FeedPath(c) ==
  LET ends == c = "SP" /\ req.path # <<>>
      stores == c \notin {"SP", "?", "CR", "LF"} /\ Room(req.path, MAX_PATH)
  IN /\ p.state = "P_PATH"
     /\ \/ ends /\ Becomes([p EXCEPT !.state = "P_VERSION"], [req EXCEPT !.version = <<>>])
        \/ c = "?" /\ Becomes([p EXCEPT !.state = "P_QUERY"], [req EXCEPT !.query_string = <<>>])
        \/ stores /\ Becomes(p, [req EXCEPT !.path = Append(@, c)])
        \/ ~ends /\ c # "?" /\ ~stores /\ Reject

FeedQuery(c) ==
  LET stores == c \notin {"SP", "CR", "LF"} /\ Room(req.query_string, MAX_PATH)
  IN /\ p.state = "P_QUERY"
     /\ \/ c = "SP" /\ Becomes([p EXCEPT !.state = "P_VERSION"], [req EXCEPT !.version = <<>>])
        \/ stores /\ Becomes(p, [req EXCEPT !.query_string = Append(@, c)])
        \/ c # "SP" /\ ~stores /\ Reject

\* The request line is complete.
HeaderLines == Becomes([p EXCEPT !.state = "P_HEADER_NAME", !.name = <<>>], req)

FeedVersion(c) ==
  /\ p.state = "P_VERSION"
  /\ \/ c = "CR" /\ Becomes([p EXCEPT !.state = "P_VERSION_CR"], req)
     \/ c = "LF" /\ HeaderLines
     \/ c \notin {"CR", "LF"} /\ IF Room(req.version, ver)
                                 THEN Becomes(p, [req EXCEPT !.version = Append(@, c)])
                                 ELSE Reject

FeedVersionCR(c) ==
  p.state = "P_VERSION_CR" /\ IF c = "LF" THEN HeaderLines ELSE Reject

\* The Connection lines that say close or keep-alive.
Decisive(headers) ==
  {n \in DOMAIN headers :
     /\ headers[n].name = <<"Connection">>
     /\ \E j \in DOMAIN headers[n].value : headers[n].value[j] \in {"close", "keep-alive"}}

\* Mutant: the first of them decides.
Deciding_First(headers) == CHOOSE n \in Decisive(headers) : \A m \in Decisive(headers) : n <= m
Deciding(headers) == CHOOSE n \in Decisive(headers) : \A m \in Decisive(headers) : m <= n

\* The default of the version, then every Connection line in turn: the last one
\* that says anything decides, and close wins within a line.
KeepAlive(version, headers) ==
  IF Decisive(headers) = {} THEN version = <<"HTTP/1.1">>
  ELSE \A j \in DOMAIN headers[Deciding(headers)].value :
         headers[Deciding(headers)].value[j] # "close"

parser_finalize ==
  /\ p' = [p EXCEPT !.state = "P_DONE"]
  /\ req' = [req EXCEPT !.parsed = TRUE, !.keep_alive = KeepAlive(req.version, req.headers)]
  /\ status' = "DONE"

\* host_seen after the name of a line: only a name of exactly these four letters.
HostSeen == p.host_seen \/ p.name = <<"Host">>

\* A colon ends the name, and ": " follows it in the row.
FeedHeaderName(c) ==
  LET ends == c = ":" /\ p.name # <<>>
      blank == c \in {"CR", "LF"} /\ p.name = <<>>
      stores == c \notin {":", "CR", "LF"} /\ Len(p.name) < ROW - 1
  IN /\ p.state = "P_HEADER_NAME"
     /\ \/ ends /\ Writes(Len(p.name) + 1,
                         [p EXCEPT !.state = "P_HEADER_VALUE", !.value = <<>>,
                                   !.host_seen = HostSeen], req)
        \/ blank /\ c = "CR" /\ Becomes([p EXCEPT !.state = "P_HEADER_NAME_CR"], req)
        \/ blank /\ c = "LF" /\ parser_finalize
        \/ stores /\ Writes(Len(p.name), [p EXCEPT !.name = Append(@, c)], req)
        \/ ~ends /\ ~blank /\ ~stores /\ Reject

\* Mutant: a Host line left from an earlier request will do.
HostMissing_Stale ==
  /\ ~\E n \in DOMAIN req.headers : req.headers[n].name = <<"Host">>
  /\ req.version = <<"HTTP/1.1">>

HostMissing == ~p.host_seen /\ req.version = <<"HTTP/1.1">>

FeedHeaderNameCR(c) ==
  /\ p.state = "P_HEADER_NAME_CR"
  /\ IF c = "LF" /\ ~HostMissing THEN parser_finalize ELSE Reject

\* The NUL goes behind the value.
HeaderDone ==
  Writes(Len(p.name) + 2 + Len(p.value),
         [p EXCEPT !.state = "P_HEADER_NAME", !.name = <<>>],
         [req EXCEPT !.headers = Append(@, [name |-> p.name, value |-> p.value])])

\* Mutant: one byte of the row is given away.
ValueRoom_Tight == Len(p.name) + 3 + Len(p.value) < ROW - 1

\* Mutant: no place is left for the terminating NUL.
ValueRoom_Loose == Len(p.name) + 2 + Len(p.value) < ROW

\* The value starts behind the name and ": ", and stays in the row of its name.
ValueRoom == Len(p.name) + 2 + Len(p.value) < ROW - 1

FeedHeaderValue(c) ==
  LET skips == c = "SP" /\ p.value = <<>>
      text == c \notin {"CR", "LF"} /\ ~skips
  IN /\ p.state = "P_HEADER_VALUE"
     /\ \/ c = "CR" /\ Becomes([p EXCEPT !.state = "P_HEADER_VALUE_CR"], req)
        \/ c = "LF" /\ HeaderDone
        \/ skips /\ Becomes(p, req)
        \/ text /\ ValueRoom /\ Becomes([p EXCEPT !.value = Append(@, c)], req)
        \/ text /\ ~ValueRoom /\ Reject

FeedHeaderValueCR(c) ==
  p.state = "P_HEADER_VALUE_CR" /\ IF c = "LF" THEN HeaderDone ELSE Reject

-----------------------------------------------------------------------------

\* The next byte: of conn_process_input, or of the buffer http_parse_request has.
Feed ==
  /\ status = "INCOMPLETE" /\ caller # "returned" /\ pos < Len(stream)
  /\ LET c == stream[pos + 1] IN
       \/ FeedMethod(c) \/ FeedPath(c) \/ FeedQuery(c) \/ FeedVersion(c) \/ FeedVersionCR(c)
       \/ FeedHeaderName(c) \/ FeedHeaderNameCR(c)
       \/ FeedHeaderValue(c) \/ FeedHeaderValueCR(c)
  /\ pos' = pos + 1
  /\ UNCHANGED <<caller, stream, start, kept>>

\* The response is out and the connection persists: the parser is bound to the
\* same request again.
Reuse ==
  /\ caller = "reactor" /\ status = "DONE" /\ req.keep_alive
  /\ p' = http_parser_init /\ status' = "INCOMPLETE"
  /\ start' = pos /\ kept' = Len(req.headers)
  /\ UNCHANGED <<req, caller, stream, pos>>

\* http_parse_request returns; what it parsed was one read of the connection.
ParseRequestReturns ==
  /\ caller = "once"
  /\ status \in {"DONE", "ERROR"} \/ (status = "INCOMPLETE" /\ pos = Len(stream))
  /\ req' = [req EXCEPT !.parsed = (status = "DONE")]
  /\ caller' = "returned"
  /\ UNCHANGED <<p, status, stream, pos, start, kept>>

\* The response to this request, or the end of the stream, ends the connection;
\* or what it does is not known.
Closed ==
  /\ \/ caller = "returned" \/ status = "UNDEFINED"
     \/ caller = "reactor" /\ \/ status = "ERROR"
                              \/ status = "DONE" /\ ~req.keep_alive
                              \/ status = "INCOMPLETE" /\ pos = Len(stream)
  /\ UNCHANGED vars

Next == Feed \/ Reuse \/ ParseRequestReturns \/ Closed

Spec == Init /\ [][Next]_vars

\* What a client has sent is read, and what was read is fed and answered (Answers
\* of Reactor).
FairSpec == Spec /\ WF_vars(Next)

-----------------------------------------------------------------------------
(* Properties.                                                             *)

Texts == Seq(STRING)

http_parser ==
  [state : {"P_METHOD", "P_PATH", "P_QUERY", "P_VERSION", "P_VERSION_CR", "P_HEADER_NAME",
            "P_HEADER_NAME_CR", "P_HEADER_VALUE", "P_HEADER_VALUE_CR", "P_DONE"},
   method_tmp : Texts, name : Texts, value : Texts, host_seen : BOOLEAN]

header == [name : Texts, value : Texts]

http_request ==
  [method : {"HTTP_GET", "HTTP_HEAD", "HTTP_POST", "HTTP_UNSUPPORTED"},
   path : Texts, query_string : Texts, version : Texts, headers : Seq(header),
   keep_alive : BOOLEAN, parsed : BOOLEAN]

TypeInv ==
  /\ p \in http_parser /\ req \in http_request
  /\ status \in {"INCOMPLETE", "DONE", "ERROR", "UNDEFINED"}
  /\ caller \in {"reactor", "once", "returned"}
  /\ stream \in Texts /\ pos \in 0 .. Len(stream) /\ start \in 0 .. pos
  /\ kept \in 0 .. Len(req.headers)

InValue == p.state \in {"P_HEADER_VALUE", "P_HEADER_VALUE_CR"}

\* The last cell of "name: value" and its NUL is in the row; it may be up to two
\* cells behind it where the line has no value.
RowFits(name, value) == Len(name) + 2 + Len(value) < (IF value = <<>> THEN ROW + 2 ELSE ROW)

\* Every row there is, and the one a value is written to, is inside the array.
RowsExist == Len(req.headers) <= MAX_HEADERS /\ (InValue => Len(req.headers) < MAX_HEADERS)

\* http_parser.c:96-232: until a write leaves the header array, every text is
\* inside its array with its NUL, whatever is fed and however many requests a
\* connection carries, and a value is written to a row that exists; only a header
\* line without a value may reach the two cells behind its row.
StoresFit ==
  /\ Len(p.method_tmp) < METHOD_SIZE
  /\ Len(req.path) < MAX_PATH /\ Len(req.query_string) < MAX_PATH /\ Len(req.version) < ver
  /\ Len(p.name) < ROW
  /\ RowsExist
  /\ \A n \in DOMAIN req.headers : RowFits(req.headers[n].name, req.headers[n].value)

\* The header lines of the request being parsed; those before them are left from
\* earlier requests of the connection.
Own == SubSeq(req.headers, kept + 1, Len(req.headers))

\* The byte fed last is an LF without a CR before it.
AtBareLF == stream[pos] = "LF" /\ (pos > 1 => stream[pos - 1] # "CR")

OwnHost == \E n \in kept + 1 .. Len(req.headers) : req.headers[n].name = <<"Host">>

\* http_parser.c:209: an HTTP/1.1 request is complete only with a Host line of
\* its own; one left from an earlier request of the connection does not do.  A
\* blank line that is a bare LF is not held to it.
HostRequired ==
  status = "DONE" /\ req.version = <<"HTTP/1.1">> =>
    OwnHost \/ AtBareLF

\* StoresFit and HostRequired with what makes them inductive: the row being
\* written fits, host_seen is about this request, and a line begins behind an LF.
ParserInv ==
  /\ TypeInv /\ StoresFit /\ HostRequired
  /\ InValue => RowFits(p.name, p.value)
  /\ p.host_seen => OwnHost \/ (InValue /\ p.name = <<"Host">>)
  /\ status = "INCOMPLETE" /\ p.state = "P_HEADER_NAME" /\ p.name = <<>> =>
       pos > 0 /\ stream[pos] = "LF"
=============================================================================
