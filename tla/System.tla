------------------------------- MODULE System -------------------------------
(***************************************************************************)
(* The gateway as it is deployed: the sessions of both proxies (Gateway)    *)
(* with the one client that they share in every detail (KubeAuthClient).     *)
(* evaluate_request's call is a step of both, so is what it returns; between *)
(* them the client and the sessions move by themselves, and what one         *)
(* session's request has cached or is waiting for serves the other's.        *)
(*                                                                         *)
(* A session steps aside for its own request only, so the slots of the      *)
(* sessions are those of the client's requests.                             *)
(***************************************************************************)
EXTENDS KubeAuthClient

CONSTANTS
    Files, Incoming, UserHeader, GroupsHeader, Delimiter,  \* see Evaluation
    Unprintable, UpstreamStatuses, MaxRequests             \* see Gateway

VARIABLES
    phase, request, decision, start, upstream, response, gone, arrived, total

\* Gateway, with what is proved of it.
Gate == INSTANCE Response_proofs

\* What it asks is within what the client may be asked, among the rest.
ASSUME SystemAssumption == Gate!EvaluationAssumption /\ Gate!GatewayAssumption

sessionOnly == <<phase, request, decision, start, upstream, response, gone, arrived, total>>
clientOnly == <<cell, cache, pc, question, auth, result>>
sysVars == <<world, ask, outcome, clientOnly, sessionOnly>>

SysInit == Init /\ Gate!Init

-----------------------------------------------------------------------------
Receive(r, q) == Gate!Accept(r, q) /\ UNCHANGED clientOnly

(* The request of a session asks with its bearer token, and wants what its  *)
(* rule makes of it authorized.                                             *)
Authenticate(r) == Gate!Calls(r) /\ Arrive(r, Gate!Token(r), decision[r].attrs)

(* The client works for a request, in its task.                             *)
Work(r) ==
    /\ \/ InitClient(r) \/ ClientReady(r) \/ ClientFails(r)
       \/ Hit(r) \/ Join(r) \/ Lead(r)
       \/ Evaluate(r) \/ Deliver(r) \/ CallFails(r)
       \/ Authorize(r)
    /\ UNCHANGED sessionOnly

Answer(r) == Gate!Returns(r) /\ Finish(r)

Serve(r) == Gate!Serve(r) /\ UNCHANGED clientOnly

Housekeep(k) == Evict(k) /\ UNCHANGED sessionOnly

Wait(w) == Tick(w) /\ UNCHANGED sessionOnly

SysStep(r) == Authenticate(r) \/ Work(r) \/ Answer(r) \/ Serve(r)

SysNext ==
    \/ \E r \in Requests, q \in Incoming : Receive(r, q)
    \/ \E r \in Requests : SysStep(r)
    \/ \E k \in Keys : Housekeep(k)
    \/ \E w \in Worlds : Wait(w)

SysSpec == SysInit /\ [][SysNext]_sysVars

-----------------------------------------------------------------------------
(* With the real client behind it every step of a session is one that the   *)
(* gateway may take on the client's contract: no interleaving of the two     *)
(* proxies in the caches, the shared calls or the shared connection shows   *)
(* (main.rs:56 and 68 give both proxies one client).                        *)
ImplementsGateway == Gate!Init /\ [][Gate!Next]_(Gate!vars)
=============================================================================
