------------------------------ MODULE MCSystem ------------------------------
(* Both proxies and their client: a user's two tokens, one of them without   *)
(* the user's groups, and rules of both protocols that ask for the same.     *)
EXTENDS System, MCRequests, TLC

CONSTANTS t1, t2

\* A bijection between the fields hashed and themselves.
MCDigest(x) == x

\* The verb is the request's method, or what it is for every call.
Store == Rule([AnyGrpc EXCEPT !.service = "store"],
              Sar([namespace |-> Str("b"), verb |-> Str("POST")]))

MCFiles == [http |-> Named(<<Items>>), grpc |-> Named(<<Store, Ping>>)]

Bearing(q, t) ==
    [q EXCEPT !.headers = @ @@ [h \in {UserHeader, GroupsHeader} |-> <<Value("admin")>>]]
        @@ [authorization |-> <<[text |-> TRUE, prefix |-> "Bearer ", token |-> t]>>]

MCIncoming == {Bearing(Http("POST", <<"", "api", "a", "items">>,
                            Headers(<<Value("b")>>, <<>>), <<>>), t1),
               Bearing(Grpc(<<"", "store", "Put">>, Headers(<<>>, <<>>)), t2),
               Bearing(Grpc(<<"", "ping", "Do">>, Headers(<<>>, <<>>)), t2)}

\* What both rules compile to.
PostToB == [namespace |-> "b", verb |-> "POST", api_group |-> None, api_version |-> None,
            resource |-> None, sub_resource |-> None]
MCAttrs == {PostToB}

MCUsers == {"alice", "bob"}
MCGroups == {<<"dev", "ops">>, <<>>}

\* Kubernetes knows t1 as a member of the groups and t2 as nobody's, of a user
\* that has the permission through the groups.
Of(user) ==
    [review |-> [t \in Tokens |->
                    [authenticated |-> TRUE, audiences |-> {"aud"},
                     user |-> [username |-> user,
                               groups |-> IF t = t1 THEN <<"dev", "ops">> ELSE <<>>]]],
     allowed |-> {<<[username |-> user, groups |-> <<"dev", "ops">>], PostToB>>}]

MCWorlds == {Of(user) : user \in MCUsers}

Symmetric == Permutations(Requests)
=============================================================================
