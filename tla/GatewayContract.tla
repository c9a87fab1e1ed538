--------------------------- MODULE GatewayContract ---------------------------
(***************************************************************************)
(* What the gateway promises, in the terms of README.md ("How it works"): a *)
(* request is forwarded or refused, once and for good, and it is forwarded  *)
(* only if, at that moment, a no-auth rule of the file lets it through or    *)
(* Kubernetes has lately vouched for its bearer and given it the permission *)
(* that the deciding rule asks for.  A rule that panics loses the request.   *)
(*                                                                         *)
(* Caches, shared calls and the steps of a session are not mentioned;       *)
(* Gateway implements this, and System does with the client in detail.      *)
(***************************************************************************)
EXTENDS Kubernetes

CONSTANTS
    Incoming,          \* requests that clients send
    Bearer(_),         \* the token of a request, or None
    DecidingRule(_),   \* the rule of the file that decides a request, or None
    Wanted(_),         \* the attributes that it asks for
    Carries(_, _, _),  \* whether a header is a request's with one identity
    MayPanic(_)        \* whether a rule of the file panics on a request

VARIABLES
    world,   \* what Kubernetes would answer, per tick so far
    session  \* the request of each slot and what has become of it

vars == <<world, session>>

Now == Len(world)

(* The times whose word may be used for a request that came at time start.  *)
Recent(start) == {n \in 1..Now : \/ start <= n + MaxReply
                                 \/ start < n + MaxReply + TTL}

VouchedLately(q, start) ==
    \E i \in AuthInfos, n \in Recent(start) : Vouched(world[n], Bearer(q), i)

(* What may reach an upstream: without a token, the client's own header,    *)
(* and only for a no-auth rule; with one, only for a rule that is not, and  *)
(* with a single identity, the one Kubernetes lately vouched for and lately *)
(* gave the permission that the rule asks for, whatever identity the client *)
(* claimed.                                                                 *)
MayForward(q, start, header) ==
    /\ DecidingRule(q) # None
    /\ \/ Bearer(q) = None /\ header = q.headers
       \/ /\ Bearer(q) # None
          /\ \E i \in AuthInfos :
                /\ Carries(q, header, i)
                /\ \E n \in Recent(start) : Vouched(world[n], Bearer(q), i)
                /\ \E n \in Recent(start) : <<i, Wanted(q)>> \in world[n].allowed

Reasons == AuthErrors \union {"no rule matched", "unprintable identity"}

(* What a refusal means: no rule of the file matches; or Kubernetes lately  *)
(* vouched for the bearer, but not for the permission, or for an identity   *)
(* that no header can carry.  The other errors may come at any time, but to *)
(* a request with a token only.                                             *)
MayRefuse(q, start, reason) ==
    /\ reason \in Reasons
    /\ reason = "no rule matched" => DecidingRule(q) = None
    /\ reason # "no rule matched" => Bearer(q) # None
    /\ Bearer(q) # None /\ reason \notin {"Unauthenticated", "Internal"} =>
           VouchedLately(q, start)

-----------------------------------------------------------------------------
\* What a request becomes: pending, then forwarded, refused or dropped.
Pending(q, s) == [request |-> q, start |-> s, fate |-> "pending", reason |-> None, header |-> None]

Free == [request |-> None, start |-> 0, fate |-> "free", reason |-> None, header |-> None]

Init ==
    /\ world \in {<<w>> : w \in Worlds}
    /\ session = [r \in Requests |-> Free]

Receive(r) ==
    LET q == session'[r].request IN
    /\ session[r].fate = "free" /\ q \in Incoming
    /\ session' = [session EXCEPT ![r] = Pending(q, Now)]
    /\ UNCHANGED world

(* It is decided once.                                                      *)
Become(r, fate, reason, header) ==
    /\ session[r].fate = "pending"
    /\ session' = [session EXCEPT ![r] =
            [request |-> session[r].request, start |-> session[r].start, fate |-> fate,
             reason |-> reason, header |-> header]]
    /\ UNCHANGED world

Forward(r, header) ==
    /\ MayForward(session[r].request, session[r].start, header)
    /\ Become(r, "forwarded", None, header)

Refuse(r, reason) ==
    /\ MayRefuse(session[r].request, session[r].start, reason)
    /\ Become(r, "refused", reason, None)

Drop(r) == MayPanic(session[r].request) /\ Become(r, "dropped", None, None)

End(r) ==
    /\ session[r].fate \in {"forwarded", "refused", "dropped"}
    /\ session' = [session EXCEPT ![r] = Free]
    /\ UNCHANGED world

Advance(w) ==
    /\ world' = Append(world, w)
    /\ UNCHANGED session

(* What a request is, its header when it is forwarded and the reason when it *)
(* is refused are read off the state that the step leads to.                *)
Decide(r) ==
    LET next == session'[r] IN
    /\ session[r].fate = "pending"
    /\ \/ next.fate = "forwarded" /\ Forward(r, next.header)
       \/ next.fate = "refused" /\ Refuse(r, next.reason)
       \/ next.fate = "dropped" /\ Drop(r)

Next ==
    \/ \E r \in Requests : Receive(r) \/ Decide(r) \/ End(r)
    \/ \E w \in Worlds : Advance(w)

Safety == Init /\ [][Next]_vars
=============================================================================
