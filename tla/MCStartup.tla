------------------------------ MODULE MCStartup ------------------------------
(* Configuration files that are whole or lack something, and what a secret  *)
(* file may add to one or take from it.                                     *)
EXTENDS Startup, TLC

T(x) == Leaf("text", x)
N(x) == Leaf("number", x)
L(x) == Leaf("list", x)

Address(x) == Table([host |-> T(x), port |-> N(x)])
Listener(x) == "listener" :> Address(x)

Protocol(x) == Table(Listener(x) @@ [upstream |-> Address(x), rules |-> L(x)])

Auth == Table("cache-ttl-secs" :> N("60") @@ "token-review-audiences" :> L("aud"))

AuthWithDelimiter == Table(Auth.fields @@ "groups-header-delimiter" :> T(";"))

Whole(auth) == [auth |-> auth, grpc |-> Protocol("c"), http |-> Protocol("c")]

PrometheusOf == "prometheus" :> Table(Listener("c"))

MCConfigFiles ==
    {Absent, Malformed, Table(<<>>), Table(Whole(Auth)),
     Table(Whole(AuthWithDelimiter) @@ PrometheusOf),
     Table(Whole(Auth) @@ "prometheus" :> Null),
     Table([Whole(Auth) EXCEPT !.grpc.fields.listener = T("c")]),
     Table([Whole(Auth) EXCEPT !.http.fields.listener.fields = @ @@ "tls" :> Table("key_file" :> T("c"))]),
     Table([Whole(Auth) EXCEPT !.http.fields.listener.fields = "tls" :> Table("key_file" :> T("c"))]),
     Table([Whole(Auth) EXCEPT !.auth = Table([x \in {"cache-ttl-secs"} |-> N("60")])])}

MCSecretFiles ==
    {Absent, Malformed, Table(<<>>)} \union
    {Table(s) : s \in {
        Whole(AuthWithDelimiter), PrometheusOf,
        "prometheus" :> Null,
        "prometheus" :> Table("listener" :> Table("port" :> N("s"))),
        "prometheus" :> Table(<<>>),
        "prometheus" :> Table(Listener("s")),
        "grpc" :> Table(Listener("s")),
        "http" :> Table("listener" :> Table([host |-> T("s"), port |-> N("s"),
                                             tls |-> Table("cert_file" :> T("s"))])),
        "auth" :> Table("token-review-audiences" :> L("s")),
        "auth" :> Table("user-header" :> N("s") @@ "groups-header-delimiter" :> T("s")),
        "auth" :> Table("user-header" :> Null),
        "auth" :> Table("cache-ttl-secs" :> T("s")),
        "auth" :> Null,
        "http" :> Table("rules" :> L("s")),
        "http" :> Table("upstream" :> Table("host" :> T("s"))),
        "http" :> Table("listener" :> Table("tls" :> Table("cert_file" :> T("s")))),
        "http" :> Table("listener" :> Table("tls" :> Null)),
        "prometheus" :> Table("listener" :> Table("tls" :> Table([cert_file |-> T("s"), key_file |-> L("s")]))),
        "grpc" :> T("s")}}

MCCommandLines == {None, [json_logs |-> TRUE], [json_logs |-> FALSE]}
=============================================================================
