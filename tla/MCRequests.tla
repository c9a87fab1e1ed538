---------------------------- MODULE MCRequests ----------------------------
(* Rules of a configuration file and requests, for the runs of ConfigLoad   *)
(* and Gateway.                                                             *)
EXTENDS ConfigFile

\* Scalars of a YAML file.
Str(x)   == [open |-> FALSE, close |-> FALSE, text |-> x, string |-> TRUE]
Num(x)   == [Str(x) EXCEPT !.string = FALSE]
Brace(x) == [Str(x) EXCEPT !.open = TRUE, !.close = TRUE]
HalfOpen(x) == [Str(x) EXCEPT !.open = TRUE]
HalfShut(x) == [Str(x) EXCEPT !.close = TRUE]

Entry(name, value) == [name |-> name, value |-> value]

AnyHttp == [path |-> None, methods |-> None, headers |-> None, query |-> None]
AnyGrpc == [service |-> None, methods |-> None, headers |-> None]

Rule(matches, access) == [matches |-> matches, access |-> access]

\* A tenant in the path and in a header, as in README.md:66-80; the verb is
\* the request's method.
Items == Rule([AnyHttp EXCEPT !.path = <<Str(""), Str("api"), Brace("tenant"), Str("items")>>,
                              !.headers = <<Entry("x-tenant", Brace("tenant"))>>],
              Sar([namespace |-> Brace("tenant"), verb |-> Brace("method")]))

\* The tenant may come in the query, under any path; a field that no variable
\* fills is left out of the review.
Query == Rule([AnyHttp EXCEPT !.methods = {"Get"},
                              !.query = <<Entry("q", Brace("tenant")), Entry("q", Brace("path"))>>],
              Sar([namespace |-> Brace("tenant"), resource |-> Brace("path"),
                   verb |-> Brace("verb")]))

Health == Rule([AnyHttp EXCEPT !.path = <<Str(""), Str("health"), Str("**")>>], NoAuth)

Version(v) == Rule([AnyHttp EXCEPT !.headers = <<Entry("x-version", v)>>],
                   Sar([verb |-> Str("get")]))

Root == Rule([AnyHttp EXCEPT !.path = <<Str(""), Str("")>>], NoAuth)

Flight == Rule([service |-> "flight", methods |-> {"Do"},
                headers |-> <<Entry("x-tenant", Brace("tenant"))>>],
               Sar([namespace |-> Brace("tenant"), verb |-> Brace("grpc_method")]))

\* Matches whatever Flight does, and asks for a permission without a namespace.
AnyFlight == Rule([AnyGrpc EXCEPT !.service = "flight"], Sar([resource |-> Str("flights")]))

AnyCall == Rule([AnyGrpc EXCEPT !.headers = <<Entry("x-version", None)>>],
                Sar([namespace |-> Brace("service"), verb |-> Num("2")]))

Ping == Rule([AnyGrpc EXCEPT !.service = "ping"], NoAuth)

\* A list of rules, named by their places.
Named(list) == [i \in DOMAIN list |-> [name |-> i] @@ list[i]]

\* Requests.
Value(x) == [text |-> TRUE, value |-> x]
Bytes == [text |-> FALSE, value |-> ""]

Headers(tenant, version) == [h \in {"x-tenant", "x-version"} |->
                                IF h = "x-tenant" THEN tenant ELSE version]

Pair(n, v) == [name |-> n, value |-> v, eq |-> TRUE]
Flag(n) == [name |-> n, value |-> "", eq |-> FALSE]

Http(method, path, headers, query) ==
    [protocol |-> "http", method |-> method, path |-> path, headers |-> headers,
     query |-> query]

Grpc(path, headers) ==
    [protocol |-> "grpc", method |-> "POST", path |-> path, headers |-> headers,
     query |-> <<>>]
=============================================================================
