----------------------------- MODULE MCGateway -----------------------------
(* Both proxies under small configurations: one token, of one user or of    *)
(* another over time, and requests that the rules tell apart.               *)
EXTENDS Gateway, MCRequests, TLC

CONSTANT t

\* The rule for the root of the site panics on what reaches it; calls of a
\* flight match two rules, of which the first decides.
MCFiles == [http |-> Named(<<Health, Items, Root, Query>>),
            grpc |-> Named(<<Flight, AnyFlight, Ping>>)]

\* The authorization header.
Credentials(prefix) == <<[text |-> TRUE, prefix |-> prefix, token |-> t]>>

Forged == [h \in {UserHeader, GroupsHeader} |->
              <<[text |-> TRUE, value |-> "admin"], [text |-> TRUE, value |-> "root"]>>]

With(q, authorization) ==
    [q EXCEPT !.headers = @ @@ Forged] @@ [authorization |-> authorization]

ItemsRequest == Http("POST", <<"", "api", "a", "items">>, Headers(<<Value("b")>>, <<>>), <<>>)
QueryRequest == Http("GET", <<"", "health">>, Headers(<<>>, <<>>), <<Pair("q", "a")>>)
FlightRequest(tenant) == Grpc(<<"", "flight", "Do">>, Headers(<<Value(tenant)>>, <<>>))
PingRequest == Grpc(<<"", "ping", "Do">>, Headers(<<>>, <<>>))

MCIncoming ==
    {With(q, Credentials("Bearer ")) :
        q \in {ItemsRequest, QueryRequest, FlightRequest("a"), FlightRequest("b"), PingRequest}}
    \union {With(QueryRequest, Credentials("bearer ")), With(PingRequest, <<>>),
            With(ItemsRequest, <<>>)}

\* What the rules ask for, and what AnyFlight would if it decided.
DecidedAttrs == {Deciding[q].attrs : q \in Incoming} \ {None}
Flights == CompileResourceAttributes(SarAttributes(AnyFlight.access.attributes), Empty)
MCAttrs == DecidedAttrs \union {Flights}

MCUsers == {"alice", "bob"}
MCGroups == {<<"dev", "ops">>, <<>>}

Alice == [username |-> "alice", groups |-> <<"dev", "ops">>]
Bob == [username |-> "bob", groups |-> <<>>]

\* Kubernetes knows the token as i's, who has the permissions A.
Bears(i, A) == [review |-> [x \in Tokens |-> [authenticated |-> TRUE, audiences |-> {"aud"}, user |-> i]],
                allowed |-> {<<i, a>> : a \in A}]

\* alice has every permission but for flights of b, bob those without a verb.
MCWorlds == {Bears(Alice, {a \in Attrs : ~ (a.namespace = "b" /\ a.verb = "Do")}),
             Bears(Bob, {a \in Attrs : a.verb = None})}

Symmetric == Permutations(Requests)
=============================================================================
