---------------------------- MODULE HttpGrammar -----------------------------
(***************************************************************************)
(* What the parser of HttpParser accepts, said of a whole request at once: *)
(* lines, split at the first blank, the first "?" and the first colon.     *)
(***************************************************************************)
EXTENDS HttpParser, SequencesExt

\* The lines of s, each without its LF and the CR before it.
Lines(s) ==
  LET ends == SetToSortSeq({n \in DOMAIN s : s[n] = "LF"}, <)
      Text(k) == SubSeq(s, IF k = 1 THEN 1 ELSE ends[k - 1] + 1, ends[k] - 1)
  IN [k \in DOMAIN ends |-> IF Text(k) # <<>> /\ Last(Text(k)) = "CR" THEN Front(Text(k))
                            ELSE Text(k)]

\* The place of the first c in s behind the first n units, or 0.
Find(s, n, c) == SelectInSubSeq(s, n + 1, Len(s), LAMBDA u : u = c)

\* A line cut at its first two blanks, and the target at its first "?".
RequestLine(l) ==
  LET m == Find(l, 0, "SP")
      t == Find(l, m, "SP")
      target == SubSeq(l, m + 1, t - 1)
      q == Find(target, 0, "?")
  IN [ok |-> m > 1 /\ t > m + 1,
      method |-> SubSeq(l, 1, m - 1), version |-> SubSeq(l, t + 1, Len(l)),
      path |-> IF q = 0 THEN target ELSE SubSeq(target, 1, q - 1),
      query |-> IF q = 0 THEN <<>> ELSE SubSeq(target, q + 1, Len(target)),
      asks |-> q # 0]

\* A line cut at its first colon, without the blanks behind it.
Header(l) ==
  LET k == Find(l, 0, ":")
      v == SelectInSubSeq(l, k + 1, Len(l), LAMBDA u : u # "SP")
  IN [name |-> SubSeq(l, 1, k - 1), value |-> IF v = 0 THEN <<>> ELSE SubSeq(l, v, Len(l))]

Headers(s) == LET ls == Lines(s) IN [n \in 1 .. Len(ls) - 2 |-> Header(ls[n + 1])]

\* s has the form of a request: a request line, header lines and a blank line,
\* with CR only before LF, and no more text than the machine has room for.
Request(s) ==
  LET ls == Lines(s)
      r == RequestLine(ls[1])
      hs == Headers(s)
  IN /\ s # <<>> /\ Last(s) = "LF" /\ Len(ls) >= 2
     /\ \A n \in DOMAIN ls : ls[n] = <<>> <=> n = Len(ls)
     /\ \A n \in DOMAIN s : s[n] = "CR" => n < Len(s) /\ s[n + 1] = "LF"
     /\ r.ok /\ Len(r.method) < METHOD_SIZE /\ Len(r.version) < ver
     /\ Len(r.path) < MAX_PATH /\ Len(r.query) < MAX_PATH
     /\ \A n \in DOMAIN hs : hs[n].name # <<>> /\ Len(hs[n].name) < ROW
                             /\ RowFits(hs[n].name, hs[n].value)

\* The units that may not occur in a token.
Separators == {":", "?"}

\* server.h:148-150: what is not to be rejected as malformed.  The method is a
\* token, each header fits a row with its NUL, and HTTP/1.1 has a Host line.
TokenMethod(s) == ToSet(RequestLine(Lines(s)[1]).method) \cap Separators = {}
InRow(h) == Len(h.name) + 2 + Len(h.value) < ROW
AllInRow(s) == \A h \in ToSet(Headers(s)) : InRow(h)
HasHost(s) ==
  RequestLine(Lines(s)[1]).version = <<"HTTP/1.1">> =>
    \E h \in ToSet(Headers(s)) : h.name = <<"Host">>
Proper(s) == Request(s) /\ TokenMethod(s) /\ AllInRow(s) /\ HasHost(s)

\* Whether the connection is to persist: the last Connection line that says
\* anything decides, or else the version.
Persists(version, hs) ==
  LET said == SelectSeq(hs, LAMBDA h : /\ h.name = <<"Connection">>
                                       /\ ToSet(h.value) \cap {"close", "keep-alive"} # {})
  IN IF said = <<>> THEN version = <<"HTTP/1.1">> ELSE "close" \notin ToSet(Last(said).value)

\* The units of the request being parsed.
Fed == SubSeq(stream, start + 1, pos)

\* What the caller was told.
Accepted == IF caller = "returned" THEN req.parsed ELSE status = "DONE"

\* server.h:146-148: a proper request is accepted with its last byte, and nothing
\* is accepted before or without the form of a request, however bytes, requests
\* and connections are cut; every part of an accepted request is in the field it
\* belongs to (of a header line that outgrows its row only the place is).
AcceptsRequests ==
  /\ Proper(Fed) => Accepted
  /\ Accepted =>
       LET r == RequestLine(Lines(Fed)[1])
           hs == Headers(Fed)
       IN /\ Request(Fed)
          /\ req.method = method_from_token(r.method) /\ req.path = r.path
          /\ r.asks => req.query_string = r.query
          /\ req.version = r.version
          /\ Len(Own) = Len(hs) /\ \A n \in DOMAIN hs : InRow(hs[n]) => Own[n] = hs[n]
          /\ start = 0 => req.keep_alive = Persists(r.version, hs)

\* One end for every place a request can be cut at.
Completions ==
  LET host == <<"Host", ":", "LF", "LF">>
  IN Suffixes(<<"a", "SP", "a", "SP", "a", "LF">> \o host)
       \cup {<<":", "LF">> \o host, <<"a", ":", "LF">> \o host}

\* http_parser.c:84-248: a request is rejected only when nothing that follows
\* could make it a proper one.
RejectsOnlyHopeless ==
  status = "ERROR" => \A e \in Completions : ~Proper(Fed \o e)

-----------------------------------------------------------------------------
(* What the comments promise and the code does not keep.                   *)

\* http_parser.c:6-7, "rather than overrunning a buffer": no write leaves the
\* header array, and no header line leaves its row.
ArrayKept == status # "UNDEFINED"
RowKept == InValue => Len(p.name) + 2 <= ROW

\* server.h:148-150, "non-token method, oversized field, missing Host on
\* HTTP/1.1": none of these is accepted.
TokensOnly == status = "DONE" => TokenMethod(Fed)
RejectsOversized == status = "DONE" => AllInRow(Fed)
HostAlways == status = "DONE" => HasHost(Fed)

\* server.h:138: a request is parsed into a zeroed struct; so whether the
\* connection persists is decided by this request's version and Connection lines.
KeepAliveOwn == status = "DONE" => req.keep_alive = Persists(req.version, Own)

\* On every connection at least one of these promises is kept throughout.  It is
\* violated by a connection on which each of them is broken at some byte, so none
\* of them holds.
SomePromiseKept ==
  \/ []ArrayKept \/ []RowKept \/ []TokensOnly \/ []RejectsOversized \/ []HostAlways
  \/ []KeepAliveOwn
=============================================================================
