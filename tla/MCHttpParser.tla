---------------------------- MODULE MCHttpParser ----------------------------
(* HttpParser on well-formed requests and on all that differ by one unit.  *)
EXTENDS HttpGrammar

Rendered(first, lines, eol) ==
  FlattenSeq(<<first \o eol>> \o [n \in DOMAIN lines |-> lines[n] \o eol] \o <<eol>>)

Get11 == <<"GET", "SP", "a", "SP", "HTTP/1.1">>
Query == <<"HEAD", "SP", "a", "?", "a", "SP", "a">>
Get10 == <<"POST", "SP", "a", "a", "SP", "HTTP/1.0">>
Host == <<"Host", ":", "SP", "a">>
Keep == <<"Connection", ":", "keep-alive">>
Close == <<"Connection", ":", "a", "close">>
Long(n) == [j \in 1 .. n |-> "a"] \o <<":">>

CRLF == <<"CR", "LF">>
LF == <<"LF">>

Bases ==
  {Rendered(Get11, <<Host>>, CRLF), Rendered(Get11, <<Keep, Host>>, LF),
   Rendered(Query, <<Close, Keep>>, CRLF), Rendered(Get10, <<Keep>>, CRLF),
   Rendered(Get10, <<Long(3), Close>>, LF), Rendered(Query, <<Long(5)>>, CRLF),
   Rendered(Get10, <<Long(5), Long(4), Keep>>, LF), Rendered(Query, <<Keep, Long(4)>>, CRLF)}

\* What one unit more, less or other makes of s.
Units == {"SP", "CR", "LF", ":", "?", "a", "Host", "close"}
Edits(s) ==
  {RemoveAt(s, n) : n \in DOMAIN s}
    \cup {ReplaceAt(s, n, u) : n \in DOMAIN s, u \in Units}
    \cup {InsertAt(s, n, u) : n \in DOMAIN s, u \in Units}

Persistent ==
  {Rendered(Get11, <<Host>>, CRLF), Rendered(Get10, <<Keep>>, CRLF), Rendered(Query, <<Keep>>, LF)}
Short == {Rendered(Get11, <<>>, CRLF), Rendered(Get11, <<Host>>, CRLF), Rendered(Get10, <<>>, LF),
          Rendered(Query, <<>>, LF)}

\* One request, whole or edited, and two or three on one connection.
AllStreams ==
  Bases \cup UNION {Edits(s) : s \in Bases}
    \cup UNION {Edits(s) : s \in Edits(Rendered(Query, <<>>, LF))}
    \cup {a \o b : a \in Persistent, b \in Bases}
    \cup {a \o b \o c : a, b \in Persistent, c \in Short}
    \cup UNION {{a \o e : e \in Edits(b)} : a \in Persistent, b \in Short}

\* Three requests on a connection, each of a form the comments do not allow for.
OddStreams ==
  {Rendered(<<"?", "SP", "a", "SP", "HTTP/1.1">>, <<Long(5), Keep>>, LF)
     \o Rendered(Get10, <<>>, LF) \o Rendered(Get10, <<Keep, Long(1)>>, LF)}
=============================================================================
