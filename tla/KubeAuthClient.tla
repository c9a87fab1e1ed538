--------------------------- MODULE KubeAuthClient ---------------------------
(***************************************************************************)
(* The gateway's authentication and authorization client, src/kube/auth.rs, *)
(* driven the way evaluate_request (src/utils/proxy.rs) drives it: a        *)
(* request with a bearer token calls authenticate and, once authenticated   *)
(* and matched by a rule, authorize.  Both proxies share one client, so     *)
(* Requests are the requests of both.                                       *)
(*                                                                         *)
(* The client keeps a lazily initialised Kubernetes client (a OnceCell) and *)
(* two moka caches used through try_get_with: a live entry is returned, a   *)
(* missing one is computed by one caller (the leader) while the others wait *)
(* for what it gets.  An Ok is cached for TTL; an Err reaches the leader    *)
(* and its waiters and is not cached.                                       *)
(*                                                                         *)
(* world[n] is what Kubernetes would answer during tick n of the clock, and *)
(* Now is the last tick.  It changes from one tick to the next in any way.  *)
(***************************************************************************)
EXTENDS Kubernetes

CONSTANTS
    Digest(_),           \* DefaultHasher over the fields of a question
    Capacity,            \* max_capacity of each cache
    MaxTime,             \* bound on the clock
    Granted, Rejected    \* a permission that is given; a token or one that is not

-----------------------------------------------------------------------------
(* The questions put to Kubernetes and the cache keys they are filed under. *)

TokenReview(t) == [kind |-> "token", token |-> t, audiences |-> {}]

SubjectAccessReview(i, a) == [kind |-> "sar", info |-> i, attrs |-> a]

Questions == [kind : {"token"}, token : Tokens, audiences : {{}}]
                \union [kind : {"sar"}, info : AuthInfos, attrs : Attrs]

\* Mutant: the groups of the identity are left out of the key.
KeyWithoutGroups(q) == IF q.kind = "token" THEN <<q.token>>
                                           ELSE <<q.info.username, q.attrs>>

\* Mutant: the token is left out of the key of its review.
KeyWithoutToken(q) == IF q.kind = "token" THEN <<q.audiences>>
                                          ELSE <<q.info.username, q.info.groups, q.attrs>>

HashInput(q) == IF q.kind = "token"
                  THEN <<q.token>>
                  ELSE <<q.info.username, q.info.groups, q.attrs>>

KeyOf(q) == <<q.kind, Digest(HashInput(q))>>

Keys == {KeyOf(q) : q \in Questions}

\* The keys are 64-bit digests: no two questions in use are taken to collide.
ASSUME DigestAssumption ==
    \A p, q \in Questions :
        Digest(HashInput(p)) = Digest(HashInput(q)) =>
            HashInput(p) = HashInput(q) \/ p.kind # q.kind

-----------------------------------------------------------------------------
(* What a call makes of Kubernetes' answer: an Ok is cached, an Err is not. *)

Ok(v)  == [ok |-> TRUE, says |-> v]
Err(e) == [ok |-> FALSE, says |-> e]

Replies == [ok : {TRUE}, says : AuthInfos \union {Granted, Rejected}]
              \union [ok : {FALSE}, says : AuthErrors]

HasCompatibleAudience(returned) ==
    RequestedAudiences = {} \/ returned \intersect RequestedAudiences # {}

\* Mutant: a review without user info passes.
UserUnchecked(status) ==
    IF status.authenticated /\ HasCompatibleAudience(status.audiences)
      THEN Ok(status.user) ELSE Ok(Rejected)

\* Mutant: the audiences that come back are not looked at.
AudienceUnchecked(status) ==
    CASE ~status.authenticated -> Ok(Rejected)
      [] status.authenticated /\ status.user = None -> Err("Internal")
      [] status.authenticated /\ status.user # None -> Ok(status.user)

TokenReply(status) ==
    LET accepted == /\ status.authenticated
                    /\ HasCompatibleAudience(status.audiences)
    IN  CASE ~accepted                          -> Ok(Rejected)
          [] accepted /\ status.user = None   -> Err("Internal")
          [] accepted /\ status.user # None   -> Ok(status.user)

Reply(q, w) == IF q.kind = "token"
                 THEN TokenReply(w.review[q.token])
                 ELSE Ok(IF <<q.info, q.attrs>> \in w.allowed THEN Granted ELSE Rejected)

\* A call may also fail, or answer without a status, whatever the world is.
Faults(kind) == IF kind = "token" THEN {"Unauthenticated", "Internal"}
                                  ELSE {"Unauthorized", "Internal"}

\* A result carries when it was decided (at) and when it was cached (ins).
Result(reply, at, ins) == [reply |-> reply, at |-> at, ins |-> ins]
Failure(e) == Result(Err(e), 0, 0)
Results == [reply : Replies, at : Nat, ins : Nat]

ASSUME ClientAssumption ==
    /\ Capacity \in Nat /\ MaxTime \in Nat
    /\ Granted # Rejected
    /\ {Granted, Rejected} \intersect AuthInfos = {}
    /\ None \notin Questions \union Results

-----------------------------------------------------------------------------
VARIABLES
    world,     \* what Kubernetes would answer, per tick so far
    cell,      \* the OnceCell that holds the Kubernetes client
    cache,     \* the entries of both caches, by key
    pc,        \* where each request is
    ask,       \* its token, the attributes its rule compiles to, its arrival
    question,  \* the argument of the call it is in
    auth,      \* what authenticate returned to it
    result,    \* what the call it is in has got
    outcome    \* how it ended

vars == <<world, cell, cache, pc, ask, question, auth, result, outcome>>

Now == Len(world)

PCs == {"free", "client", "init", "call", "reply", "wait", "got"}

TypeOK ==
    /\ world \in Seq(Worlds) /\ Now > 0
    /\ cell \in {"unset", "busy", "set"}
    /\ cache \in [Keys -> Results \union {None}]
    /\ pc \in [Requests -> PCs]
    /\ ask \in [Requests -> Asks \union {None}]
    /\ question \in [Requests -> Questions \union {None}]
    /\ auth \in [Requests -> Results \union {None}]
    /\ result \in [Requests -> Results \union {None}]
    /\ outcome \in [Requests -> Outcomes \union {None}]

Init ==
    /\ world \in {<<w>> : w \in Worlds}
    /\ cell = "unset"
    /\ cache = [k \in Keys |-> None]
    /\ pc = [r \in Requests |-> "free"]
    /\ ask = [r \in Requests |-> None]
    /\ question = [r \in Requests |-> None]
    /\ auth = [r \in Requests |-> None]
    /\ result = [r \in Requests |-> None]
    /\ outcome = [r \in Requests |-> None]

-----------------------------------------------------------------------------
(* A request arrives in a free slot and calls authenticate. *)
Arrive(r, t, a) ==
    /\ pc[r] = "free"
    /\ pc' = [pc EXCEPT ![r] = "client"]
    /\ ask' = [ask EXCEPT ![r] = [token |-> t, attrs |-> a, arrived |-> Now]]
    /\ question' = [question EXCEPT ![r] = TokenReview(t)]
    /\ outcome' = [outcome EXCEPT ![r] = None]
    /\ UNCHANGED <<world, cell, cache, auth, result>>

\* Mutant: the initialiser runs again when the client is there.
InitClientAgain(r) ==
    /\ pc[r] = "client" /\ cell # "busy"
    /\ pc' = [pc EXCEPT ![r] = "init"]
    /\ cell' = "busy"
    /\ UNCHANGED <<world, cache, ask, question, auth, result, outcome>>

(* client(): get_or_try_init.  One request at a time runs the initialiser;  *)
(* those that find the cell busy stay where they are.                       *)
InitClient(r) ==
    /\ pc[r] = "client" /\ cell = "unset"
    /\ pc' = [pc EXCEPT ![r] = "init"]
    /\ cell' = "busy"
    /\ UNCHANGED <<world, cache, ask, question, auth, result, outcome>>

ClientReady(r) ==
    /\ pc[r] = "init"
    /\ pc' = [pc EXCEPT ![r] = "client"]
    /\ cell' = "set"
    /\ UNCHANGED <<world, cache, ask, question, auth, result, outcome>>

\* Mutant: a failed initialiser does not give the cell back.
ClientFailsHolding(r) ==
    /\ pc[r] = "init"
    /\ pc' = [pc EXCEPT ![r] = "got"]
    /\ result' = [result EXCEPT ![r] = Failure("Internal")]
    /\ UNCHANGED <<world, cell, cache, ask, question, auth, outcome>>

ClientFails(r) ==
    /\ pc[r] = "init"
    /\ pc' = [pc EXCEPT ![r] = "got"]
    /\ result' = [result EXCEPT ![r] = Failure("Internal")]
    /\ cell' = "unset"
    /\ UNCHANGED <<world, cache, ask, question, auth, outcome>>

-----------------------------------------------------------------------------
(* try_get_with, once the client is there. *)

Ready(r) == pc[r] = "client" /\ cell = "set"

Key(r) == KeyOf(question[r])

\* Mutant: an entry is live for one tick too many.
LiveAtExpiry(k) == cache[k] # None /\ Now <= cache[k].ins + TTL

Live(k) == cache[k] # None /\ Now < cache[k].ins + TTL

Leading(r) == pc[r] \in {"call", "reply"}

Led(k) == \E l \in Requests : Leading(l) /\ Key(l) = k

Hit(r) ==
    /\ Ready(r) /\ Live(Key(r))
    /\ pc' = [pc EXCEPT ![r] = "got"]
    /\ result' = [result EXCEPT ![r] = cache[Key(r)]]
    /\ UNCHANGED <<world, cell, cache, ask, question, auth, outcome>>

Join(r) ==
    /\ Ready(r) /\ ~Live(Key(r)) /\ Led(Key(r))
    /\ pc' = [pc EXCEPT ![r] = "wait"]
    /\ UNCHANGED <<world, cell, cache, ask, question, auth, result, outcome>>

\* Mutant: get, then insert, without coalescing.
LeadRegardless(r) ==
    /\ Ready(r) /\ ~Live(Key(r))
    /\ pc' = [pc EXCEPT ![r] = "call"]
    /\ UNCHANGED <<world, cell, cache, ask, question, auth, result, outcome>>

\* Mutant: one call at a time, whatever the key.
LeadAlone(r) ==
    /\ Ready(r) /\ ~Live(Key(r)) /\ ~\E l \in Requests : Leading(l)
    /\ pc' = [pc EXCEPT ![r] = "call"]
    /\ UNCHANGED <<world, cell, cache, ask, question, auth, result, outcome>>

Lead(r) ==
    /\ Ready(r) /\ ~Live(Key(r)) /\ ~Led(Key(r))
    /\ pc' = [pc EXCEPT ![r] = "call"]
    /\ UNCHANGED <<world, cell, cache, ask, question, auth, result, outcome>>

\* Kubernetes decides; its answer is on the way back.
Evaluate(r) ==
    /\ pc[r] = "call"
    /\ pc' = [pc EXCEPT ![r] = "reply"]
    /\ result' = [result EXCEPT ![r] = Result(Reply(question[r], world[Now]), Now, 0)]
    /\ UNCHANGED <<world, cell, cache, ask, question, auth, outcome>>

\* The leader hands res to itself and to those that wait on its key.
Settle(l, res) ==
    LET party == {l} \union {r \in Requests : pc[r] = "wait" /\ Key(r) = Key(l)}
    IN  /\ pc' = [r \in Requests |-> IF r \in party THEN "got" ELSE pc[r]]
        /\ result' = [r \in Requests |-> IF r \in party THEN res ELSE result[r]]

Deliver(r) ==
    LET res == [result[r] EXCEPT !.ins = Now] IN
    /\ pc[r] = "reply"
    /\ Settle(r, res)
    /\ cache' = IF res.reply.ok THEN [cache EXCEPT ![Key(r)] = res] ELSE cache
    /\ UNCHANGED <<world, cell, ask, question, auth, outcome>>

CallFails(r) ==
    /\ Leading(r)
    /\ \E e \in Faults(question[r].kind) : Settle(r, Failure(e))
    /\ UNCHANGED <<world, cell, cache, ask, question, auth, outcome>>

-----------------------------------------------------------------------------
(* authenticate or authorize returns to evaluate_request. *)

Authenticated(r) == question[r].kind = "token" /\ result[r].reply.ok
                        /\ result[r].reply.says # Rejected

Authorize(r) ==
    /\ pc[r] = "got" /\ Authenticated(r) /\ ask[r].attrs # None
    /\ pc' = [pc EXCEPT ![r] = "client"]
    /\ question' = [question EXCEPT ![r] =
                        SubjectAccessReview(result[r].reply.says, ask[r].attrs)]
    /\ auth' = [auth EXCEPT ![r] = result[r]]
    /\ result' = [result EXCEPT ![r] = None]
    /\ UNCHANGED <<world, cell, cache, ask, outcome>>

Verdict(r) ==
    LET reply == result[r].reply
        token == question[r].kind = "token"
    IN  CASE ~reply.ok -> Denied(reply.says)
          [] reply.ok /\ reply.says = Rejected ->
                 Denied(IF token THEN "Unauthenticated" ELSE "Unauthorized")
          [] reply.ok /\ reply.says # Rejected ->
                 IF token THEN Denied("no rule matched")
                          ELSE Allowed(auth[r].reply.says)

Finish(r) ==
    /\ pc[r] = "got" /\ ~(Authenticated(r) /\ ask[r].attrs # None)
    /\ pc' = [pc EXCEPT ![r] = "free"]
    /\ outcome' = [outcome EXCEPT ![r] = Verdict(r)]
    /\ ask' = [ask EXCEPT ![r] = None]
    /\ question' = [question EXCEPT ![r] = None]
    /\ auth' = [auth EXCEPT ![r] = None]
    /\ result' = [result EXCEPT ![r] = None]
    /\ UNCHANGED <<world, cell, cache>>

-----------------------------------------------------------------------------
(* Housekeeping drops what has expired, and any entry of a full cache. *)
Evict(k) ==
    /\ cache[k] # None
    /\ \/ ~Live(k)
       \/ Cardinality({j \in Keys : j[1] = k[1] /\ cache[j] # None}) > Capacity
    /\ cache' = [cache EXCEPT ![k] = None]
    /\ UNCHANGED <<world, cell, pc, ask, question, auth, result, outcome>>

(* Time passes, and Kubernetes changes its mind; no answer is overdue. *)
Tick(w) ==
    /\ Now < MaxTime
    /\ \A r \in Requests : pc[r] = "reply" => Now < result[r].at + MaxReply
    /\ world' = Append(world, w)
    /\ UNCHANGED <<cell, cache, pc, ask, question, auth, result, outcome>>

Step(r) ==
    \/ InitClient(r) \/ ClientReady(r) \/ ClientFails(r)
    \/ Hit(r) \/ Join(r) \/ Lead(r)
    \/ Evaluate(r) \/ Deliver(r) \/ CallFails(r)
    \/ Authorize(r) \/ Finish(r)

Next ==
    \/ \E r \in Requests, t \in Tokens, a \in Attrs \union {None} : Arrive(r, t, a)
    \/ \E r \in Requests : Step(r)
    \/ \E k \in Keys : Evict(k)
    \/ \E w \in Worlds : Tick(w)

Spec == Init /\ [][Next]_vars

-----------------------------------------------------------------------------
(***************************************************************************)
(* Properties.                                                             *)
(***************************************************************************)

(* At most one call to Kubernetes is out for a key (try_get_with coalesces  *)
(* the concurrent callers of auth.rs:58-107 and 127-163).                   *)
SingleFlight ==
    \A q, r \in Requests : Leading(q) /\ Leading(r) /\ Key(q) = Key(r) => q = r

(* No wakeup is lost: who waits for an answer waits for a call that is out, *)
(* who waits for the client waits for a request that is making it.          *)
NobodyForgotten ==
    /\ \A r \in Requests : pc[r] = "wait" => Led(Key(r))
    /\ cell = "busy" <=> \E r \in Requests : pc[r] = "init"

(* authorize never has to make the Kubernetes client (auth.rs:123): its     *)
(* caller came through authenticate, which did, and the cell stays set.     *)
AuthorizeFindsClient ==
    \A r \in Requests : pc[r] # "free" /\ question[r].kind = "sar" => cell = "set"

(* res, when it is not a failure, is Kubernetes' own answer to q at res.at. *)
Backed(q, res) ==
    res.reply.ok => res.at \in 1..Now /\ res.reply = Reply(q, world[res.at])

(* What is cached for a question is what Kubernetes answered to that very   *)
(* question; an error is never cached (auth.rs:58-109 and 127-163).         *)
CacheIsTrue ==
    \A q \in Questions : LET e == cache[KeyOf(q)] IN
        e # None => e.reply.ok /\ Backed(q, e) /\ e.at <= e.ins /\ e.ins <= Now

(* Staleness is bounded: a decision a request uses was taken, at the        *)
(* earliest, an answer's way back and less than a time to live before the   *)
(* request arrived, and without caching (TTL = 0) an answer's way back.     *)
Fresh ==
    \A r \in Requests : \A res \in {auth[r], result[r]} :
        res # None /\ res.reply.ok =>
            \/ ask[r].arrived <= res.at + MaxReply
            \/ ask[r].arrived < res.at + MaxReply + TTL

(* README.md:95: auth.token-review-audiences are the "Audiences passed to   *)
(* the TokenReview API".                                                    *)
AudiencesArePassed ==
    \A r \in Requests : Leading(r) /\ question[r].kind = "token" =>
        question[r].audiences = RequestedAudiences

(* What each phase of a request carries: a token first, then the permission *)
(* that its rule and the identity Kubernetes gave it make.                  *)
PhasesInv == \A r \in Requests :
    /\ pc[r] = "free" <=> ask[r] = None
    /\ pc[r] = "free" <=> question[r] = None
    /\ pc[r] = "free" => auth[r] = None
    /\ pc[r] \in {"reply", "got"} <=> result[r] # None
    /\ pc[r] # "free" =>
        /\ ask[r].arrived <= Now
        /\ \/ question[r] = TokenReview(ask[r].token) /\ auth[r] = None
           \/ /\ auth[r] # None
              /\ auth[r].reply.ok /\ auth[r].reply.says \in AuthInfos
              /\ ask[r].attrs # None
              /\ question[r] = SubjectAccessReview(auth[r].reply.says, ask[r].attrs)

(* Who has got as far as a call has got the client, and one makes it.       *)
ClientInv ==
    /\ \A r \in Requests :
        (\/ pc[r] \in {"call", "reply", "wait"}
         \/ pc[r] = "got" /\ result[r].reply.ok
         \/ auth[r] # None)
            => cell = "set"
    /\ \A q, r \in Requests : pc[q] = "init" /\ pc[r] = "init" => q = r

(* A leader's answer is Kubernetes' and not overdue, nor was a cached one.  *)
AnswersInv ==
    /\ \A r \in Requests : pc[r] = "reply" =>
        /\ Now <= result[r].at + MaxReply
        /\ result[r].at \in 1..Now /\ result[r].reply = Reply(question[r], world[result[r].at])
    /\ \A q \in Questions : LET e == cache[KeyOf(q)] IN
        e # None => e.ins <= e.at + MaxReply

(* An answer under way is no older than what is cached under its key.       *)
NewestInv == \A r \in Requests :
    pc[r] = "reply" /\ cache[Key(r)] # None => cache[Key(r)].at <= result[r].at

(* What a request was told is what Kubernetes said of what it asked.        *)
ToldInv == \A r \in Requests :
    /\ result[r] # None =>
           /\ Backed(question[r], result[r])
           /\ ~result[r].reply.ok => result[r].reply.says \in Faults(question[r].kind)
    /\ auth[r] # None => Backed(TokenReview(ask[r].token), auth[r])

(* The invariant that is inductive.                                         *)
IInv ==
    /\ TypeOK /\ PhasesInv /\ ClientInv /\ AnswersInv /\ NewestInv /\ ToldInv
    /\ SingleFlight /\ NobodyForgotten /\ CacheIsTrue /\ Fresh

(* An entry is replaced only by a later decision of Kubernetes: a slow      *)
(* answer does not overwrite a newer one.                                   *)
NewestAnswerWins ==
    [][\A k \in Keys : cache[k] # None /\ cache'[k] # None =>
            cache[k].at <= cache'[k].at]_vars

(* The client keeps the contract of its interface: world, ask and outcome   *)
(* are the contract's own.                                                  *)
Contract == INSTANCE AuthContract

ContractSafety == Contract!Safety
=============================================================================
