---------------------------- MODULE System_proofs ----------------------------
(***************************************************************************)
(* The system implements the gateway on its client's contract.  Its steps    *)
(* are steps of the client or leave the client alone, so the client's        *)
(* inductive invariant holds of it, and what the client returns is what the  *)
(* contract lets it (FinishJustified).  So what is proved of the gateway     *)
(* holds of the system, also when calls to Kubernetes hang.                 *)
(***************************************************************************)
EXTENDS HungCalls, KubeAuthClient_proofs

(* A session that is about to ask has its request's decision.               *)
Functions ==
    /\ phase = [r \in Requests |-> phase[r]]
    /\ request = [r \in Requests |-> request[r]]
    /\ decision = [r \in Requests |-> decision[r]]

Filtering(r) == phase[r] = "filter" =>
    request[r] \in Incoming /\ decision[r] = Gate!Deciding[request[r]]

SessionsInv == Functions /\ \A r \in Requests : Filtering(r)

SysInv == IInv /\ SessionsInv

-----------------------------------------------------------------------------
LEMMA ReceiveKeeps ==
    ASSUME SessionsInv, NEW r \in Requests, NEW q \in Incoming, Receive(r, q)
    PROVE  SessionsInv'
<1> USE DEF Receive, Gate!Accept, Gate!Goto, SessionsInv, Functions
<1>1. Functions'
  BY DEF Functions
<1>2. ASSUME NEW s \in Requests
      PROVE  Filtering(s)'
  <2>1. CASE s = r
    BY <2>1 DEF Filtering
  <2>2. CASE s # r
    BY <2>2 DEF Filtering
  <2> QED BY <2>1, <2>2
<1> QED BY <1>1, <1>2

(* Every other step of a session leaves "filter" or does not come to it.    *)
LEMMA OthersKeep ==
    ASSUME SessionsInv, NEW r \in Requests, NEW p, p # "filter", Gate!Goto(r, p),
           \/ UNCHANGED <<request, decision>>
           \/ /\ request' = [request EXCEPT ![r] = None]
              /\ decision' = [decision EXCEPT ![r] = None]
    PROVE  SessionsInv'
<1> USE DEF Gate!Goto, SessionsInv, Functions
<1>1. Functions'
  BY DEF Functions
<1>2. ASSUME NEW s \in Requests
      PROVE  Filtering(s)'
  <2>1. CASE s = r
    BY <2>1 DEF Filtering
  <2>2. CASE s # r
    BY <2>2 DEF Filtering
  <2> QED BY <2>1, <2>2
<1> QED BY <1>1, <1>2

LEMMA ServeKeeps ==
    ASSUME SessionsInv, NEW r \in Requests, Gate!Serve(r)
    PROVE  SessionsInv'
<1>1. ASSUME \/ Gate!ForwardOpen(r) \/ Gate!Inject(r) \/ Gate!InjectFails(r)
             \/ Gate!Panic(r) \/ Gate!Refuse(r) \/ Gate!RefuseHead(r)
             \/ Gate!RefuseTrailer(r) \/ Gate!TrailerFails(r) \/ Gate!WriteFails(r)
             \/ Gate!FailToProxy(r)
             \/ \E s \in UpstreamStatuses \union {Gate!BadGateway} : Gate!Proxy(r, s)
      PROVE  \E p \in {"proxy", "failed", "dropped", "refuse", "trailer", "log"} :
                Gate!Goto(r, p) /\ UNCHANGED <<request, decision>>
  BY <1>1 DEF Gate!ForwardOpen, Gate!Inject, Gate!InjectFails, Gate!Panic, Gate!Refuse,
     Gate!RefuseHead, Gate!RefuseTrailer, Gate!TrailerFails, Gate!WriteFails,
     Gate!FailToProxy, Gate!Proxy
<1>2. CASE Gate!Log(r) \/ Gate!Close(r)
  BY <1>2, OthersKeep DEF Gate!Log, Gate!Close, Gate!Free
<1> QED BY <1>1, <1>2, OthersKeep DEF Gate!Serve

(* What is asked is a token, and attributes or none.                        *)
LEMMA AsksInTypes ==
    ASSUME SessionsInv, NEW r \in Requests, Authenticate(r)
    PROVE  Gate!Token(r) \in Tokens /\ decision[r].attrs \in Attrs \union {None}
BY SystemAssumption
   DEF Gate!EvaluationAssumption, SessionsInv, Filtering, Authenticate, Gate!Calls, Gate!Token

(* The client does not notice who drives it.                                *)
LEMMA ClientMoves ==
    ASSUME SysInv, [SysNext]_sysVars
    PROVE  [Next]_vars
<1>1. ASSUME NEW r \in Requests, NEW q \in Incoming, Receive(r, q)
      PROVE  UNCHANGED vars
  BY <1>1 DEF Receive, Gate!Accept, Gate!clientVars, clientOnly, vars
<1>2. ASSUME NEW r \in Requests, Authenticate(r)
      PROVE  Next
  BY <1>2, AsksInTypes DEF SysInv, Authenticate, Next
<1>3. ASSUME NEW r \in Requests, Work(r) \/ Answer(r)
      PROVE  Next
  BY <1>3 DEF Work, Answer, Next, Step
<1>4. ASSUME NEW r \in Requests, Serve(r)
      PROVE  UNCHANGED vars
  <2>1. UNCHANGED clientOnly
    BY <1>4 DEF Serve
  <2>2. UNCHANGED Gate!clientVars
    BY <1>4 DEF Serve, Gate!Serve, Gate!ForwardOpen, Gate!Inject,
       Gate!InjectFails, Gate!Panic, Gate!Refuse, Gate!RefuseHead, Gate!RefuseTrailer,
       Gate!TrailerFails, Gate!WriteFails, Gate!FailToProxy, Gate!Proxy, Gate!Log, Gate!Close
  <2> QED BY <2>1, <2>2 DEF Gate!clientVars, clientOnly, vars
<1>5. ASSUME NEW k \in Keys, Housekeep(k)
      PROVE  Next
  BY <1>5 DEF Housekeep, Next
<1>6. ASSUME NEW w \in Worlds, Wait(w)
      PROVE  Next
  BY <1>6 DEF Wait, Next
<1>7. CASE UNCHANGED sysVars
  BY <1>7 DEF sysVars, clientOnly, vars
<1> QED BY <1>1, <1>2, <1>3, <1>4, <1>5, <1>6, <1>7 DEF SysNext, SysStep

LEMMA SysInvHolds == SysInit /\ [][SysNext]_sysVars => []SysInv
<1>1. SysInit => SysInv
  <2>1. ASSUME SysInit PROVE SessionsInv
    BY <2>1 DEF SysInit, Gate!Init, SessionsInv, Functions, Filtering
  <2> QED BY <2>1, InitIsGood DEF SysInit, SysInv
<1>2. ASSUME SysInv, [SysNext]_sysVars
      PROVE  SysInv'
  <2>1. IInv'
    BY <1>2, ClientMoves, NextKeeps DEF SysInv
  <2>2. ASSUME UNCHANGED <<phase, request, decision>>
        PROVE  SessionsInv'
    BY <1>2, <2>2 DEF SysInv, SessionsInv, Functions, Filtering
  <2>3. ASSUME NEW r \in Requests, Authenticate(r) \/ Answer(r)
        PROVE  SessionsInv'
    <3>1. \E p \in {"client", "answered"} : Gate!Goto(r, p) /\ UNCHANGED <<request, decision>>
      BY <2>3 DEF Authenticate, Answer, Gate!Calls, Gate!Returns
    <3> QED BY <1>2, <3>1, OthersKeep DEF SysInv
  <2>4. SessionsInv'
    BY <1>2, <2>2, <2>3, ReceiveKeeps, ServeKeeps
       DEF SysInv, SysNext, SysStep, Work, Serve, Housekeep, Wait, sysVars, sessionOnly
  <2> QED BY <2>1, <2>4 DEF SysInv
<1> QED BY <1>1, <1>2, PTL

-----------------------------------------------------------------------------
(* A step of the system is a step of the gateway, or none.                  *)
LEMMA StepsOfTheGateway ==
    ASSUME SysInv, [SysNext]_sysVars
    PROVE  [Gate!Next]_(Gate!vars)
<1> USE DEF Gate!vars, Gate!clientVars, Gate!sessionVars
<1>1. ASSUME NEW r \in Requests, NEW q \in Incoming, Receive(r, q)
      PROVE  Gate!Next
  BY <1>1 DEF Receive, Gate!Next
<1>2. ASSUME NEW r \in Requests, Authenticate(r)
      PROVE  Gate!Next
  <2>1. Gate!Client!Begin(r, Gate!Token(r), decision[r].attrs)
    BY <1>2 DEF SysInv, IInv, PhasesInv, Authenticate, Arrive, Now, Gate!Client!Begin,
       Gate!Client!Now
  <2> QED BY <1>2, <2>1 DEF Authenticate, Gate!Authenticate, Gate!Step, Gate!Next
<1>3. ASSUME NEW r \in Requests, Answer(r)
      PROVE  Gate!Next
  <2>1. Finish(r) /\ Contract!Justified(r, Verdict(r)) /\ Verdict(r) \in Outcomes
    BY <1>3, FinishJustified, VerdictType DEF SysInv, Answer
  <2>2. Gate!Client!Justified(r, Verdict(r))
    BY <2>1 DEF Contract!Justified, Contract!Identified, Contract!Permitted, Contract!Window,
       Contract!Now, Contract!Vouched, Contract!AuthInfos, Gate!Client!Justified,
       Gate!Client!Identified, Gate!Client!Permitted, Gate!Client!Window, Gate!Client!Now,
       Gate!Client!Vouched, Gate!Client!AuthInfos
  <2>3. Gate!Client!Decide(r, Verdict(r))
    BY <2>1, <2>2 DEF SysInv, IInv, PhasesInv, Finish, Gate!Client!Decide
  <2>4. Verdict(r) \in Gate!Outcomes
    BY <2>1 DEF Outcomes, AuthInfos, AuthErrors, Gate!Outcomes, Gate!AuthInfos,
       Gate!AuthErrors
  <2> QED BY <1>3, <2>3, <2>4 DEF Answer, Gate!Answer, Gate!Step, Gate!Next
<1>4. ASSUME NEW r \in Requests, Serve(r)
      PROVE  Gate!Next
  BY <1>4 DEF Serve, Gate!Step, Gate!Next
<1>5. ASSUME NEW w \in Worlds, Wait(w)
      PROVE  Gate!Next
  BY <1>5 DEF Wait, Tick, sessionOnly, Now, Gate!Tick, Gate!Now, Gate!Client!Advance,
     Gate!Next
<1>6. ASSUME NEW r \in Requests, Work(r)
      PROVE  UNCHANGED Gate!vars
  BY <1>6 DEF Work, sessionOnly, InitClient, ClientReady, ClientFails, Hit, Join, Lead,
     Evaluate, Deliver, CallFails, Authorize
<1>7. ASSUME NEW k \in Keys, Housekeep(k)
      PROVE  UNCHANGED Gate!vars
  BY <1>7 DEF Housekeep, Evict, sessionOnly
<1>8. CASE UNCHANGED sysVars
  BY <1>8 DEF sysVars, clientOnly, sessionOnly
<1> QED BY <1>1, <1>2, <1>3, <1>4, <1>5, <1>6, <1>7, <1>8 DEF SysNext, SysStep

(* Both proxies on the one client with its caches, shared calls and shared  *)
(* connection (main.rs:46-71) behave like the gateway on the client's        *)
(* contract, for any number of requests.                                    *)
THEOREM SystemImplementsGateway == SysSpec => ImplementsGateway
<1>1. SysInit => Gate!Init
  BY DEF SysInit
<1> QED BY <1>1, SysInvHolds, StepsOfTheGateway, PTL DEF SysSpec, ImplementsGateway

-----------------------------------------------------------------------------
(* The gateway's theorems are about the same Kubernetes.                    *)
LEMMA SameKubernetes == Gate!WorldsAssumption /\ Gate!KubernetesAssumption
<1>1. Gate!WorldsAssumption
  BY WorldsAssumption
     DEF WorldsAssumption, AllWorlds, TokenStatuses, AuthInfos,
         Gate!WorldsAssumption, Gate!AllWorlds, Gate!TokenStatuses, Gate!AuthInfos
<1>2. Gate!KubernetesAssumption
  BY KubernetesAssumption
     DEF KubernetesAssumption, AuthInfos, Asks, Outcomes, AuthErrors,
         Gate!KubernetesAssumption, Gate!AuthInfos, Gate!Asks, Gate!Outcomes, Gate!AuthErrors
<1> QED BY <1>1, <1>2

LEMMA SystemIsGateway == SysSpec => Gate!Spec
BY SystemImplementsGateway, PTL DEF ImplementsGateway, Gate!Spec

(* The system as deployed sends nothing upstream that the file's rules and   *)
(* Kubernetes' recent answers do not allow, with one identity in its        *)
(* headers, through all caching, sharing and failing (utils/proxy.rs:13-66). *)
THEOREM DeployedForwardsAuthorized == SysSpec => []Gate!ForwardedIsAuthorized
<1>1. Gate!Spec => []Gate!ForwardedIsAuthorized
  BY SameKubernetes, SystemAssumption, Gate!NothingUnauthorized, PTL
<1> QED BY <1>1, SystemIsGateway, PTL

(* It refuses with the whole of a refusal (http/proxy.rs:31-37 and 80-90,   *)
(* grpc/proxy.rs:31-52 and 81-91).                                          *)
THEOREM DeployedWritesRefusals == SysSpec => []Gate!RefusalIsWritten
<1>1. Gate!Spec => []Gate!RefusalIsWritten
  BY SameKubernetes, SystemAssumption, Gate!RefusalsAreWritten, PTL
<1> QED BY <1>1, SystemIsGateway, PTL

(* Its log counts each request once (http/proxy.rs:97-106,                  *)
(* grpc/proxy.rs:98-107).                                                   *)
THEOREM DeployedCountsRequests == SysSpec => []Gate!CountedOnce
<1>1. Gate!Spec => []Gate!CountedOnce
  BY SameKubernetes, SystemAssumption, Gate!EveryRequestCounted, PTL
<1> QED BY <1>1, SystemIsGateway, PTL

(* It keeps the abstract specification of the gateway: each request is       *)
(* forwarded, refused or dropped, once and for a reason (README.md:13).     *)
THEOREM DeployedKeepsPromise == SysSpec => Gate!KeepsPromise
<1>1. Gate!Spec => Gate!KeepsPromise
  BY SameKubernetes, SystemAssumption, Gate!GatewayKeepsPromise, PTL
<1> QED BY <1>1, SystemIsGateway, PTL

-----------------------------------------------------------------------------
(* Steps that a hung call leaves possible are steps of the system.          *)
LEMMA HungIsSystem == HungSpec => SysSpec
<1>1. ASSUME [HungNext]_sysVars
      PROVE  [SysNext]_sysVars
  BY <1>1 DEF HungNext, HungStep, SysNext, SysStep
<1> QED BY <1>1, PTL DEF HungSpec, SysSpec

(* When calls to Kubernetes hang the system does nothing that the gateway    *)
(* may not do: no request is forwarded for want of an answer.               *)
THEOREM HungImplementsGateway == HungSpec => ImplementsGateway
BY HungIsSystem, SystemImplementsGateway, PTL

(* The types of the client's variables hold of the whole, whatever hangs.   *)
THEOREM HungTypeCorrect == HungSpec => []TypeOK
<1>1. SysInv => TypeOK
  BY DEF SysInv, IInv
<1> QED BY <1>1, HungIsSystem, SysInvHolds, PTL DEF SysSpec

(* Who waits for a call that hangs has asked what it asks, for any number   *)
(* of requests, hung questions and courses of Kubernetes' answers           *)
(* (kube/auth.rs:54-56 and 112-122).                                        *)
THEOREM HangHoldsItsOwn == HungSpec => []HeldByOwnQuestion
<1>1. ASSUME SysInv
      PROVE  HeldByOwnQuestion
  <2>1. IInv
    BY <1>1 DEF SysInv
  <2>2. ASSUME NEW r \in Requests, pc[r] = "wait" \/ (pc[r] = "client" /\ cell = "busy")
        PROVE  Awaited(r) # {}
    BY <2>1, <2>2 DEF IInv, NobodyForgotten, Led, Awaited
  <2>3. ASSUME NEW r \in Requests, NEW l \in Awaited(r), Hangs(l)
        PROVE  pc[r] = "wait" /\ question[r] = question[l]
    <3>1. pc[l] = "call"
      BY <2>3 DEF Hangs
    <3>2. l \in Requests /\ pc[r] = "wait" /\ Key(l) = Key(r)
      BY <2>3, <3>1 DEF Awaited
    <3>3. question[l] \in Questions /\ question[r] \in Questions
      BY <2>1, <2>3, <3>1, <3>2 DEF IInv, TypeOK, PhasesInv
    <3> QED BY <3>2, <3>3, KeyInjective DEF Key
  <2> QED BY <2>2, <2>3 DEF HeldByOwnQuestion
<1> QED BY <1>1, HungIsSystem, SysInvHolds, PTL DEF SysSpec
=============================================================================
