---------------------------- MODULE MCConfigLoad ----------------------------
(* Every file of up to three of the rules, against requests that the rules  *)
(* tell apart.                                                              *)
EXTENDS ConfigLoad, MCRequests, TLC

UpTo(n, S) == UNION {[1..k -> S] : k \in 0..n}

FilesOf(protocol, Rules) == {[protocol |-> protocol, rules |-> Named(f)] : f \in UpTo(3, Rules)}

HttpRules == {Items, Query, Health, Version(Str("v2")), Version(HalfOpen("v2")), Root}
GrpcRules == {Flight, AnyCall, Ping}

MCFiles == FilesOf("http", HttpRules) \union FilesOf("grpc", GrpcRules)

\* A number for a value.
NumberFiles == FilesOf("http", {Version(Num("2")), Items})

HeaderSets == {Headers(<<>>, <<>>), Headers(<<Value("b")>>, <<>>),
               Headers(<<Bytes>>, <<Value("v2"), Value("v1")>>),
               Headers(<<Value("c"), Value("b")>>, <<Value("v1")>>)}

MCRequestSet ==
    {Http(m, p, h, q) :
        m \in {"GET", "POST"},
        p \in {<<"", "api", "a", "items">>, <<"", "health", "">>, <<"", "">>},
        h \in HeaderSets, q \in {<<>>, <<Flag("q")>>, <<Pair("q", "a"), Pair("q", "c")>>}}
    \union {Grpc(p, h) : p \in {<<"", "flight", "Do">>, <<"", "flight">>, <<"", "ping", "Do">>},
                         h \in HeaderSets}
=============================================================================
