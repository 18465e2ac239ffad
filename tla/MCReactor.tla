----------------------------- MODULE MCReactor ------------------------------
(* Reactor with few clients and short streams, for TLC.                    *)
EXTENDS ReactorInvariant, TLC

CONSTANTS c1, c2

OneClient == {c1}
TwoClients == {c1, c2}

\* One connection: requests cut anywhere, pipelined, of every kind, and what
\* follows one that ends the connection.
AllStreams == {<<"part", "head", "get">>}
                \cup {<<"get", b, d>> : b \in Tokens, d \in {"get", "miss"}}

\* Two connections, which the server closes: after a file or a malformed request.
PairStreams == {<<"bye">>, <<"bad">>}

NoFaults == {}
CreateOnly == {"create"}
LoopFaults == FaultKinds \ CreateOnly
TruncateOnly == {"truncate"}
ClientSymmetry == Permutations(Clients)
=============================================================================
