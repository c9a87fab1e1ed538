------------------------------ MODULE HungCalls ------------------------------
(***************************************************************************)
(* System when some calls to Kubernetes never come back: nothing in the code *)
(* bounds one (kube/auth.rs:70-75 and 149-154), so its leader stays where it *)
(* is, and who asks the same joins it.  MaxReply, which bounds an answer     *)
(* under way, is not about these: they are never evaluated.                 *)
(***************************************************************************)
EXTENDS System

CONSTANT Hung  \* the questions that Kubernetes never answers

ASSUME HungAssumption == Hung \subseteq Questions

Hangs(r) == pc[r] = "call" /\ question[r] \in Hung

HungStep(r) == Authenticate(r) \/ (~Hangs(r) /\ Work(r)) \/ Answer(r) \/ Serve(r)

HungNext ==
    \/ \E r \in Requests, q \in Incoming : Receive(r, q)
    \/ \E r \in Requests : HungStep(r)
    \/ \E k \in Keys : Housekeep(k)
    \/ \E w \in Worlds : Wait(w)

(* Tasks are polled while they can move, upstreams answer or are given up,   *)
(* and so do the calls to Kubernetes that are not hung, or they fail.  The   *)
(* OnceCell's semaphore serves its waiters in order: none is overtaken for   *)
(* ever.  Nothing makes requests arrive or time pass.                       *)
HungSpec ==
    /\ SysInit /\ [][HungNext]_sysVars
    /\ \A r \in Requests :
        /\ WF_sysVars(HungStep(r))
        /\ SF_sysVars(InitClient(r) /\ UNCHANGED sessionOnly)

-----------------------------------------------------------------------------
(* Those that r cannot move without: who leads the call it has joined, who  *)
(* is making the client it needs.                                           *)
Awaited(r) ==
    {l \in Requests : \/ pc[r] = "wait" /\ Leading(l) /\ Key(l) = Key(r)
                      \/ pc[r] = "client" /\ cell = "busy" /\ pc[l] = "init"}

(* A request that has to wait has somebody to wait for, and if that is the  *)
(* leader of a call that never comes back, then the call is about its own   *)
(* question: sharing the caches and the connection holds nobody else up     *)
(* (kube/auth.rs:54-56 and 112-122 tell the questions apart).               *)
HeldByOwnQuestion ==
    \A r \in Requests :
        /\ pc[r] = "wait" \/ (pc[r] = "client" /\ cell = "busy") => Awaited(r) # {}
        /\ \A l \in Awaited(r) : Hangs(l) => pc[r] = "wait" /\ question[r] = question[l]

(* Every request leaves the gateway, refused, forwarded or dropped, whatever *)
(* fails and whoever waits for whom.  A call that never comes back holds     *)
(* those that ask the same and nobody else: not the connection to           *)
(* Kubernetes, not the requests of other tokens or permissions, whichever   *)
(* came first (kube/auth.rs:51-58 and 123-127, utils/proxy.rs:13-66).       *)
HangIsContained ==
    \A r \in Requests :
        phase[r] # "free" ~> \/ phase[r] = "free"
                             \/ (pc[r] \in {"call", "wait"} /\ question[r] \in Hung)
=============================================================================
