------------------------------- MODULE Gateway -------------------------------
(***************************************************************************)
(* The two proxies (src/http/proxy.rs, src/grpc/proxy.rs) and               *)
(* evaluate_request (src/utils/proxy.rs): a request from its arrival to its *)
(* log entry.  It is refused, forwarded to the upstream, or dropped when a   *)
(* path pattern panics.                                                     *)
(*                                                                         *)
(* The authentication client is its contract: world, ask and outcome change *)
(* by AuthContract's steps, which KubeAuthClient implements.  Pingora, the   *)
(* client's connection and the upstream are external.                       *)
(***************************************************************************)
EXTENDS Evaluation

CONSTANTS
    Unprintable,       \* strings that are no HTTP header value
    UpstreamStatuses,  \* statuses of upstreams' responses
    MaxTime,           \* bound on the clock
    MaxRequests        \* bound on the requests that arrive

BadGateway == 502
ServerError == 500
Statuses == UpstreamStatuses \union {0, 200, 403, ServerError, BadGateway}

VARIABLES
    world, ask, outcome,  \* those of the client's contract
    phase,     \* where the session of each slot is
    request,   \* the request as the client sent it
    decision,  \* what the rules make of it, which nothing changes later
    start,     \* RequestContext.start
    upstream,  \* the header that is forwarded
    response,  \* what has been written to the client
    gone,      \* sessions whose client turned out to have hung up
    arrived,   \* requests so far that have not been dropped, by protocol
    total      \* REQUEST_TOTAL, by protocol and status

clientVars  == <<world, ask, outcome>>
sessionVars == <<phase, request, decision, start, upstream, response, gone, arrived, total>>
vars == <<clientVars, sessionVars>>

Client == INSTANCE AuthContract

Now == Len(world)

Phases == {"free", "filter", "client", "answered", "refuse", "trailer", "proxy",
           "failed", "log", "dropped"}

Responses == [status : Statuses, grpcStatus : {None, 16}, complete : BOOLEAN]

ASSUME GatewayAssumption == None \notin Responses /\ MaxRequests \in Nat

TypeOK ==
    /\ phase \in [Requests -> Phases]
    /\ request \in [Requests -> Incoming \union {None}]
    /\ decision \in [Requests -> {Deciding[q] : q \in Incoming} \union {None}]
    /\ \A r \in Requests :
            phase[r] # "free" => /\ request[r] \in Incoming
                                 /\ decision[r] = Deciding[request[r]]
    /\ start \in [Requests -> 0..Now]
    /\ \A r \in Requests : upstream[r] # None => DOMAIN upstream[r] = DOMAIN request[r].headers
    /\ response \in [Requests -> Responses \union {None}]
    /\ gone \subseteq Requests
    /\ arrived \in [Protocols -> 0..MaxRequests]
    /\ total \in [Protocols \X Statuses -> 0..MaxRequests]

Init ==
    /\ Client!Init
    /\ phase = [r \in Requests |-> "free"]
    /\ request = [r \in Requests |-> None]
    /\ decision = [r \in Requests |-> None]
    /\ start = [r \in Requests |-> 0]
    /\ upstream = [r \in Requests |-> None]
    /\ response = [r \in Requests |-> None]
    /\ gone = {}
    /\ arrived = [p \in Protocols |-> 0]
    /\ total = [x \in Protocols \X Statuses |-> 0]

Goto(r, p) == phase' = [phase EXCEPT ![r] = p]

Token(r) == Bearer(request[r])

\* The message of a refusal.
Message(r) == IF Token(r) = None THEN "no rule matched" ELSE outcome[r].verdict

-----------------------------------------------------------------------------
Accept(r, q) ==
    /\ phase[r] = "free"
    /\ arrived["http"] + arrived["grpc"] < MaxRequests
    /\ Goto(r, "filter")
    /\ request' = [request EXCEPT ![r] = q]
    /\ decision' = [decision EXCEPT ![r] = Deciding[q]]
    /\ start' = [start EXCEPT ![r] = Now]
    /\ arrived' = [arrived EXCEPT ![q.protocol] = @ + 1]
    /\ UNCHANGED <<clientVars, upstream, response, gone, total>>

(* evaluate_request: with a token, authenticate and authorize.              *)
Calls(r) ==
    /\ phase[r] = "filter" /\ Token(r) # None
    /\ Goto(r, "client")
    /\ UNCHANGED <<request, decision, start, upstream, response, gone, arrived, total>>

Returns(r) ==
    /\ phase[r] = "client"
    /\ Goto(r, "answered")
    /\ UNCHANGED <<request, decision, start, upstream, response, gone, arrived, total>>

Authenticate(r) == Calls(r) /\ Client!Begin(r, Token(r), decision[r].attrs)

Answer(r, o) == Returns(r) /\ Client!Decide(r, o)

(* Which rule decides is seen by a request without a token at once, by one  *)
(* with a token when it is authenticated.                                   *)
Decides(r, verdict) ==
    /\ \/ phase[r] = "filter" /\ Token(r) = None
       \/ phase[r] = "answered" /\ outcome[r].verdict = "no rule matched"
    /\ decision[r].verdict = verdict

\* A no-auth rule matches: the headers are the client's.
ForwardOpen(r) ==
    /\ phase[r] = "filter" /\ Decides(r, "match")
    /\ Goto(r, "proxy")
    /\ upstream' = [upstream EXCEPT ![r] = request[r].headers]
    /\ UNCHANGED <<clientVars, request, decision, start, response, gone, arrived, total>>

(* inject_headers: the identity replaces what the client sent under the     *)
(* names of its headers, or is no header value.                             *)
Inject(r) ==
    LET i == outcome[r].info IN
    /\ phase[r] = "answered" /\ outcome[r].verdict = "allowed"
    /\ {i.username, GroupsValue(i)} \intersect Unprintable = {}
    /\ Goto(r, "proxy")
    /\ upstream' = [upstream EXCEPT ![r] = Injected(request[r].headers, i)]
    /\ UNCHANGED <<clientVars, request, decision, start, response, gone, arrived, total>>

\* Mutant: an identity that no header can carry is left out.
InjectFailsOpen(r) ==
    LET i == outcome[r].info IN
    /\ phase[r] = "answered" /\ outcome[r].verdict = "allowed"
    /\ {i.username, GroupsValue(i)} \intersect Unprintable # {}
    /\ Goto(r, "proxy")
    /\ upstream' = [upstream EXCEPT ![r] = request[r].headers]
    /\ UNCHANGED <<clientVars, request, decision, start, response, gone, arrived, total>>

InjectFails(r) ==
    LET i == outcome[r].info IN
    /\ phase[r] = "answered" /\ outcome[r].verdict = "allowed"
    /\ {i.username, GroupsValue(i)} \intersect Unprintable # {}
    /\ Goto(r, "failed")
    /\ UNCHANGED <<clientVars, request, decision, start, upstream, response, gone, arrived, total>>

\* The task of the connection ends: nothing is answered.
Panic(r) ==
    /\ Decides(r, "panic")
    /\ Goto(r, "dropped")
    /\ UNCHANGED <<clientVars, request, decision, start, upstream, response, gone, arrived, total>>

Refuse(r) ==
    /\ \/ Decides(r, "none")
       \/ phase[r] = "answered" /\ outcome[r].verdict \in AuthErrors
    /\ Goto(r, "refuse")
    /\ UNCHANGED <<clientVars, request, decision, start, upstream, response, gone, arrived, total>>

-----------------------------------------------------------------------------
(* error_response: over HTTP a status and a body, over gRPC a status of its *)
(* own and then trailers, whose message has to be a header value.           *)

\* Mutant: the header ends the stream.
RefuseHeadOnly(r) ==
    /\ phase[r] = "refuse"
    /\ Goto(r, "log")
    /\ response' = [response EXCEPT ![r] =
            [status |-> IF request[r].protocol = "http" THEN 403 ELSE 200,
             grpcStatus |-> None, complete |-> FALSE]]
    /\ UNCHANGED <<clientVars, request, decision, start, upstream, gone, arrived, total>>

RefuseHead(r) ==
    /\ phase[r] = "refuse"
    /\ Goto(r, "trailer")
    /\ response' = [response EXCEPT ![r] =
            [status |-> IF request[r].protocol = "http" THEN 403 ELSE 200,
             grpcStatus |-> None, complete |-> FALSE]]
    /\ UNCHANGED <<clientVars, request, decision, start, upstream, gone, arrived, total>>

\* Mutant: a permission that is missing has a status of its own.
RefuseTrailerByCause(r) ==
    /\ phase[r] = "trailer"
    /\ Goto(r, "log")
    /\ response' = [response EXCEPT ![r] =
            [status |-> @.status,
             grpcStatus |-> IF Message(r) = "Unauthorized" THEN 7 ELSE 16, complete |-> TRUE]]
    /\ UNCHANGED <<clientVars, request, decision, start, upstream, gone, arrived, total>>

RefuseTrailer(r) ==
    /\ phase[r] = "trailer"
    /\ Goto(r, "log")
    /\ response' = [response EXCEPT ![r] =
            [status |-> @.status,
             grpcStatus |-> IF request[r].protocol = "grpc" THEN 16 ELSE None, complete |-> TRUE]]
    /\ UNCHANGED <<clientVars, request, decision, start, upstream, gone, arrived, total>>

\* Only an Internal error has a text that is not the gateway's own.
TrailerFails(r) ==
    /\ phase[r] = "trailer" /\ request[r].protocol = "grpc" /\ Message(r) = "Internal"
    /\ Goto(r, "failed")
    /\ UNCHANGED <<clientVars, request, decision, start, upstream, response, gone, arrived, total>>

\* Mutant: a session whose client is gone ends without an entry.
WriteFailsUnlogged(r) ==
    /\ phase[r] \in {"refuse", "trailer", "proxy"}
    /\ Goto(r, "free")
    /\ UNCHANGED <<clientVars, request, decision, start, upstream, response, gone, arrived, total>>

\* The client may have hung up at any time: it is a write that finds out.
WriteFails(r) ==
    /\ phase[r] \in {"refuse", "trailer", "proxy"}
    /\ Goto(r, "log")
    /\ gone' = gone \union {r}
    /\ UNCHANGED <<clientVars, request, decision, start, upstream, response, arrived, total>>

\* Pingora answers for a request_filter that failed, unless it has begun to.
FailToProxy(r) ==
    /\ phase[r] = "failed"
    /\ Goto(r, "log")
    /\ response' = IF response[r] # None THEN response
                   ELSE [response EXCEPT ![r] = [status |-> ServerError, grpcStatus |-> None,
                                                 complete |-> TRUE]]
    /\ UNCHANGED <<clientVars, request, decision, start, upstream, gone, arrived, total>>

\* The upstream answers, or Pingora does when it cannot be reached.
Proxy(r, status) ==
    /\ phase[r] = "proxy"
    /\ Goto(r, "log")
    /\ response' = [response EXCEPT ![r] = [status |-> status, grpcStatus |-> None,
                                            complete |-> TRUE]]
    /\ UNCHANGED <<clientVars, request, decision, start, upstream, gone, arrived, total>>

Free(r) ==
    /\ Goto(r, "free")
    /\ request' = [request EXCEPT ![r] = None]
    /\ decision' = [decision EXCEPT ![r] = None]
    /\ start' = [start EXCEPT ![r] = 0]
    /\ upstream' = [upstream EXCEPT ![r] = None]
    /\ response' = [response EXCEPT ![r] = None]
    /\ gone' = gone \ {r}

(* logging: the status is that of the response, 0 when there is none.       *)
Log(r) ==
    LET status == IF response[r] = None THEN 0 ELSE response[r].status IN
    /\ phase[r] = "log"
    /\ Free(r)
    /\ total' = [total EXCEPT ![<<request[r].protocol, status>>] = @ + 1]
    /\ UNCHANGED <<clientVars, arrived>>

\* logging is not called for a session that panicked.
Close(r) ==
    /\ phase[r] = "dropped"
    /\ Free(r)
    /\ arrived' = [arrived EXCEPT ![request[r].protocol] = @ - 1]
    /\ UNCHANGED <<clientVars, total>>

\* What a session does without the authentication client.
Serve(r) ==
    \/ ForwardOpen(r) \/ Inject(r) \/ InjectFails(r)
    \/ Panic(r) \/ Refuse(r) \/ RefuseHead(r) \/ RefuseTrailer(r) \/ TrailerFails(r)
    \/ WriteFails(r) \/ FailToProxy(r) \/ Log(r) \/ Close(r)
    \/ \E s \in UpstreamStatuses \union {BadGateway} : Proxy(r, s)

Step(r) == Authenticate(r) \/ (\E o \in Outcomes : Answer(r, o)) \/ Serve(r)

Tick(w) == Now < MaxTime /\ Client!Advance(w) /\ UNCHANGED sessionVars

Next ==
    \/ \E r \in Requests, q \in Incoming : Accept(r, q)
    \/ \E r \in Requests : Step(r)
    \/ \E w \in Worlds : Tick(w)

Spec == Init /\ [][Next]_vars

-----------------------------------------------------------------------------
(* The gateway keeps its promise (see GatewayContract): what a session has   *)
(* become so far, as its phase tells it.                                    *)
Fate(r) == IF phase[r] = "free" THEN "free"
           ELSE IF phase[r] \in {"filter", "client", "answered"} THEN "pending"
           ELSE IF upstream[r] # None THEN "forwarded"
           ELSE IF phase[r] = "dropped" THEN "dropped" ELSE "refused"

Reason(r) == IF Fate(r) # "refused" THEN None
             ELSE IF Message(r) = "allowed" THEN "unprintable identity" ELSE Message(r)

SessionOf(r) == [request |-> request[r], start |-> start[r], fate |-> Fate(r),
                 reason |-> Reason(r), header |-> upstream[r]]

Sessions == [r \in Requests |-> SessionOf(r)]

Promise == INSTANCE GatewayContract WITH session <- Sessions

(* Every step decides a request as the promise says, or does not decide it: *)
(* once forwarded, refused or dropped, nothing changes that until the end,  *)
(* and no session ends undecided (http/proxy.rs:44-92, grpc/proxy.rs:56-93).*)
KeepsPromise == Promise!Safety

(* At all times, what has reached an upstream is what may (the window only  *)
(* grows; utils/proxy.rs:13-66).                                            *)
ForwardedIsAuthorized ==
    \A r \in Requests : upstream[r] # None =>
        Promise!MayForward(request[r], start[r], upstream[r])

(* A refusal is written to its end: 403 and a body, or trailers with status *)
(* 16 under a 200.  What the client gets instead when a header cannot carry *)
(* an identity or an error's text is a 500, or a 200 without trailers       *)
(* (http/proxy.rs:31-37 and 80-90, grpc/proxy.rs:31-52 and 81-91).          *)
RefusalIsWritten ==
    \A r \in Requests :
        phase[r] = "log" /\ upstream[r] = None /\ r \notin gone =>
            LET written(status, grpc, whole) ==
                    response[r] = [status |-> status, grpcStatus |-> grpc, complete |-> whole]
                refused == Message(r) # "allowed"
            IN  CASE ~refused -> written(ServerError, None, TRUE)
                  [] refused /\ request[r].protocol = "http" -> written(403, None, TRUE)
                  [] refused /\ request[r].protocol = "grpc" ->
                        \/ written(200, 16, TRUE)
                        \/ written(200, None, FALSE) /\ Message(r) = "Internal"

InProgress(p) == {r \in Requests : phase[r] # "free" /\ request[r].protocol = p}

\* One for each that a counter of the protocol has counted.
Counted(p) == UNION {{s} \X (1..total[<<p, s>>]) : s \in Statuses}

(* Every request that is not dropped is counted, once, on every way out of  *)
(* the proxies (http/proxy.rs:97-106, grpc/proxy.rs:98-107).                *)
CountedOnce ==
    \A p \in Protocols :
        arrived[p] = Cardinality(InProgress(p)) + Cardinality(Counted(p))

(* README.md:13: "If both checks pass, the request is proxied to the        *)
(* upstream backend. Otherwise, an error is returned".                      *)
EveryRequestAnswered ==
    \A r \in Requests : phase[r] \in {"log", "dropped"} /\ r \notin gone => response[r] # None

(* README.md:13: the error is "HTTP 401/403"; 401 is the status for a token *)
(* that is rejected.                                                        *)
UnauthenticatedIs401 ==
    \A r \in Requests :
        phase[r] = "log" /\ request[r].protocol = "http" /\ r \notin gone
                /\ Message(r) = "Unauthenticated" =>
            response[r].status = 401
=============================================================================
