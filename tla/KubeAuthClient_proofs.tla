----------------------- MODULE KubeAuthClient_proofs -----------------------
(***************************************************************************)
(* Theorems about KubeAuthClient, for every set of requests, tokens,        *)
(* identities, attributes and worlds, every time to live and every digest   *)
(* that keeps apart the questions in use.                                   *)
(***************************************************************************)
EXTENDS KubeAuthClient, TLAPS

USE DEF Ok, Err, TokenReview, SubjectAccessReview, Now

-----------------------------------------------------------------------------
(* Two questions have the same cache key only when they are the same        *)
(* question: all that a call sends to Kubernetes is in the fields hashed at *)
(* auth.rs:54-56 and 112-122.                                               *)
LEMMA KeyInjective ==
    ASSUME NEW p \in Questions, NEW q \in Questions, KeyOf(p) = KeyOf(q)
    PROVE  p = q
<1>1. p.kind = q.kind /\ HashInput(p) = HashInput(q)
  BY DigestAssumption DEF KeyOf
<1>2. CASE p.kind = "token"
  <2>1. /\ p \in [kind : {"token"}, token : Tokens, audiences : {{}}]
        /\ q \in [kind : {"token"}, token : Tokens, audiences : {{}}]
    BY <1>1, <1>2 DEF Questions
  <2>2. p.token = q.token
    BY <1>1, <1>2 DEF HashInput
  <2> QED BY <2>1, <2>2
<1>3. CASE p.kind = "sar"
  <2>1. /\ p \in [kind : {"sar"}, info : AuthInfos, attrs : Attrs]
        /\ q \in [kind : {"sar"}, info : AuthInfos, attrs : Attrs]
    BY <1>1, <1>3 DEF Questions
  <2>2. p.info.username = q.info.username /\ p.info.groups = q.info.groups
    BY <1>1, <1>3 DEF HashInput
  <2>3. p.info = q.info
    BY <2>1, <2>2 DEF AuthInfos
  <2> QED BY <1>1, <1>3, <2>1, <2>3 DEF HashInput
<1> QED BY <1>2, <1>3 DEF Questions

(* What the calls ask are questions, and a question is not None.            *)
LEMMA QuestionTypes ==
    /\ \A t \in Tokens : TokenReview(t) \in Questions /\ TokenReview(t) # None
    /\ \A i \in AuthInfos, a \in Attrs :
           /\ SubjectAccessReview(i, a) \in Questions
           /\ SubjectAccessReview(i, a) # None
<1>1. \A t \in Tokens : TokenReview(t) \in Questions
  BY DEF Questions
<1>2. \A i \in AuthInfos, a \in Attrs : SubjectAccessReview(i, a) \in Questions
  BY DEF Questions
<1>3. None \notin Questions
  BY ClientAssumption
<1> QED BY <1>1, <1>2, <1>3

(* The answer to a question is one that a call can make of it: an identity  *)
(* for a token, a grant or a refusal for an access (auth.rs:78-105, 155-165).*)
LEMMA ReplyType ==
    ASSUME NEW q \in Questions, NEW w \in Worlds
    PROVE  /\ Reply(q, w) \in Replies
           /\ ~Reply(q, w).ok => Reply(q, w).says \in Faults(q.kind)
           /\ q.kind = "token" /\ Reply(q, w).ok =>
                  Reply(q, w).says \in AuthInfos \union {Rejected}
           /\ q.kind = "sar" => Reply(q, w) \in {Ok(Granted), Ok(Rejected)}
<1>1. CASE q.kind = "token"
  <2>1. q.token \in Tokens
    BY <1>1 DEF Questions
  <2>2. w.review[q.token] \in TokenStatuses
    BY <2>1, WorldsAssumption DEF AllWorlds
  <2>3. w.review[q.token].user \in AuthInfos \union {None}
    BY <2>2 DEF TokenStatuses
  <2> QED BY <1>1, <2>3 DEF Reply, TokenReply, Replies, AuthErrors, Faults
<1>2. CASE q.kind = "sar"
  BY <1>2 DEF Reply, Replies
<1> QED BY <1>1, <1>2 DEF Questions

(* What Kubernetes said in the past stays what it said.                     *)
LEMMA WorldGrows ==
    ASSUME NEW ws \in Seq(Worlds), NEW w \in Worlds
    PROVE  /\ Append(ws, w) \in Seq(Worlds)
           /\ Len(Append(ws, w)) = Len(ws) + 1
           /\ \A n \in 1..Len(ws) : Append(ws, w)[n] = ws[n]
OBVIOUS

-----------------------------------------------------------------------------
(* What a phase says of the call that a request is in.                      *)
LEMMA PhaseOf ==
    ASSUME IInv, NEW r \in Requests, pc[r] # "free"
    PROVE  /\ question[r] \in Questions
           /\ ask[r] \in Asks /\ ask[r].arrived \in Nat /\ ask[r].arrived <= Now
           /\ question[r].kind = "token" =>
                  question[r] = TokenReview(ask[r].token) /\ auth[r] = None
           /\ question[r].kind = "sar" =>
                  /\ auth[r] # None /\ auth[r].reply.ok /\ auth[r].reply.says \in AuthInfos
                  /\ question[r] = SubjectAccessReview(auth[r].reply.says, ask[r].attrs)
<1>1. question[r] \in Questions /\ ask[r] \in Asks /\ ask[r].arrived <= Now
  BY DEF IInv, TypeOK, PhasesInv
<1>2. CASE question[r] = TokenReview(ask[r].token) /\ auth[r] = None
  BY <1>1, <1>2 DEF Asks
<1>3. CASE /\ auth[r] # None
           /\ auth[r].reply.ok /\ auth[r].reply.says \in AuthInfos
           /\ question[r] = SubjectAccessReview(auth[r].reply.says, ask[r].attrs)
  BY <1>1, <1>3 DEF Asks
<1> QED BY <1>2, <1>3 DEF IInv, PhasesInv

(* A result that is not a failure is one its call can make.                 *)
LEMMA GotReply ==
    ASSUME IInv, NEW r \in Requests, pc[r] = "got", result[r].reply.ok
    PROVE  /\ result[r] \in Results /\ result[r] # None
           /\ question[r].kind = "token" => result[r].reply.says \in AuthInfos \union {Rejected}
           /\ question[r].kind = "sar" => result[r].reply \in {Ok(Granted), Ok(Rejected)}
<1>1. result[r] # None /\ result[r] \in Results
  BY DEF IInv, TypeOK, PhasesInv
<1>2. result[r].at \in 1..Now /\ result[r].reply = Reply(question[r], world[result[r].at])
  BY <1>1 DEF IInv, ToldInv, Backed
<1>3. world[result[r].at] \in Worlds
  BY <1>2 DEF IInv, TypeOK
<1> QED BY <1>1, <1>2, <1>3, PhaseOf, ReplyType

LEMMA ArriveKeeps ==
    ASSUME IInv, NEW r \in Requests, NEW t \in Tokens, NEW b \in Attrs \union {None}, Arrive(r, t, b)
    PROVE  IInv'
<1> USE DEF IInv
<1> DEFINE asked == [token |-> t, attrs |-> b, arrived |-> Now]
<1>a. asked \in Asks /\ asked # None
  <2>1. Len(world) \in Nat
    BY DEF TypeOK
  <2>2. asked \in Asks
    BY <2>1 DEF Asks
  <2> QED BY <2>2, KubernetesAssumption
<1>b. TokenReview(t) \in Questions /\ TokenReview(t) # None
  BY QuestionTypes
<1>1. TypeOK'
  BY <1>a, <1>b DEF TypeOK, PCs, Arrive
<1>2. PhasesInv'
  BY <1>a, <1>b DEF TypeOK, PCs, PhasesInv, Arrive
<1>3. ClientInv'
  BY DEF TypeOK, PCs, ClientInv, PhasesInv, Arrive
<1>4. AnswersInv'
  BY DEF TypeOK, PCs, AnswersInv, Arrive
<1>5. ToldInv'
  BY DEF TypeOK, PCs, ToldInv, Backed, PhasesInv, Arrive
<1>6. SingleFlight'
  BY DEF TypeOK, PCs, SingleFlight, Leading, Key, Arrive
<1>7. NobodyForgotten'
  BY DEF TypeOK, PCs, NobodyForgotten, Led, Leading, Key, ClientInv, Arrive
<1>8. CacheIsTrue'
  BY DEF TypeOK, PCs, CacheIsTrue, Backed, Arrive
<1>9. Fresh'
  BY DEF TypeOK, PCs, Fresh, PhasesInv, Arrive
<1>10. NewestInv'
  BY DEF TypeOK, PCs, NewestInv, Key, PhasesInv, Arrive
<1> QED BY <1>1, <1>2, <1>3, <1>4, <1>5, <1>6, <1>7, <1>8, <1>9, <1>10

LEMMA InitClientKeeps ==
    ASSUME IInv, NEW r \in Requests, InitClient(r)
    PROVE  IInv'
<1> USE DEF IInv
<1>1. TypeOK'
  BY DEF TypeOK, PCs, InitClient
<1>2. PhasesInv'
  BY DEF TypeOK, PCs, PhasesInv, InitClient
<1>3. ClientInv'
  BY DEF TypeOK, ClientInv, PhasesInv, NobodyForgotten, InitClient
<1>4. AnswersInv'
  BY DEF TypeOK, PCs, AnswersInv, InitClient
<1>5. ToldInv'
  BY DEF TypeOK, PCs, ToldInv, Backed, PhasesInv, InitClient
<1>6. SingleFlight'
  BY DEF TypeOK, PCs, SingleFlight, Leading, Key, InitClient
<1>7. NobodyForgotten'
  BY DEF TypeOK, PCs, NobodyForgotten, Led, Leading, Key, ClientInv, InitClient
<1>8. CacheIsTrue'
  BY DEF TypeOK, PCs, CacheIsTrue, Backed, InitClient
<1>9. Fresh'
  BY DEF TypeOK, PCs, Fresh, PhasesInv, InitClient
<1>10. NewestInv'
  BY DEF TypeOK, PCs, NewestInv, Key, PhasesInv, InitClient
<1> QED BY <1>1, <1>2, <1>3, <1>4, <1>5, <1>6, <1>7, <1>8, <1>9, <1>10

LEMMA ClientReadyKeeps ==
    ASSUME IInv, NEW r \in Requests, ClientReady(r)
    PROVE  IInv'
<1> USE DEF IInv
<1>1. TypeOK'
  BY DEF TypeOK, PCs, ClientReady
<1>2. PhasesInv'
  BY DEF TypeOK, PCs, PhasesInv, ClientReady
<1>3. ClientInv'
  BY DEF TypeOK, PCs, ClientInv, PhasesInv, ClientReady
<1>4. AnswersInv'
  BY DEF TypeOK, PCs, AnswersInv, ClientReady
<1>5. ToldInv'
  BY DEF TypeOK, PCs, ToldInv, Backed, PhasesInv, ClientReady
<1>6. SingleFlight'
  BY DEF TypeOK, PCs, SingleFlight, Leading, Key, ClientReady
<1>7. NobodyForgotten'
  BY DEF TypeOK, PCs, NobodyForgotten, Led, Leading, Key, ClientInv, ClientReady
<1>8. CacheIsTrue'
  BY DEF TypeOK, PCs, CacheIsTrue, Backed, ClientReady
<1>9. Fresh'
  BY DEF TypeOK, PCs, Fresh, PhasesInv, ClientReady
<1>10. NewestInv'
  BY DEF TypeOK, PCs, NewestInv, Key, PhasesInv, ClientReady
<1> QED BY <1>1, <1>2, <1>3, <1>4, <1>5, <1>6, <1>7, <1>8, <1>9, <1>10

LEMMA ClientFailsKeeps ==
    ASSUME IInv, NEW r \in Requests, ClientFails(r)
    PROVE  IInv'
<1> USE DEF IInv
<1>a. Failure("Internal") \in Results /\ Failure("Internal") # None
  <2>1. Failure("Internal") \in Results
    BY DEF Failure, Result, Results, Replies, AuthErrors
  <2> QED BY <2>1, ClientAssumption
<1>1. TypeOK'
  BY <1>a DEF TypeOK, PCs, ClientFails
<1>2. PhasesInv'
  BY <1>a DEF TypeOK, PCs, PhasesInv, ClientFails
<1>3. ClientInv'
  BY DEF TypeOK, PCs, ClientInv, PhasesInv, NobodyForgotten, Failure, Result, ClientFails
<1>4. AnswersInv'
  BY DEF TypeOK, PCs, AnswersInv, ClientFails
<1>5. ToldInv'
  BY DEF TypeOK, PCs, ToldInv, Backed, PhasesInv, Failure, Result, Faults, ClientFails
<1>6. SingleFlight'
  BY DEF TypeOK, PCs, SingleFlight, Leading, Key, ClientFails
<1>7. NobodyForgotten'
  BY DEF TypeOK, PCs, NobodyForgotten, Led, Leading, Key, ClientInv, ClientFails
<1>8. CacheIsTrue'
  BY DEF TypeOK, PCs, CacheIsTrue, Backed, ClientFails
<1>9. Fresh'
  BY DEF TypeOK, PCs, Fresh, PhasesInv, Failure, Result, Faults, ClientFails
<1>10. NewestInv'
  BY DEF TypeOK, PCs, NewestInv, Key, PhasesInv, ClientFails
<1> QED BY <1>1, <1>2, <1>3, <1>4, <1>5, <1>6, <1>7, <1>8, <1>9, <1>10

LEMMA HitKeeps ==
    ASSUME IInv, NEW r \in Requests, Hit(r)
    PROVE  IInv'
<1> USE DEF IInv
<1> DEFINE e == cache[Key(r)]
<1>a. question[r] \in Questions /\ Key(r) \in Keys
  BY DEF TypeOK, PhasesInv, Hit, Ready, Key, Keys
<1>b. e # None /\ e \in Results
  BY <1>a DEF TypeOK, Hit, Live
<1>c. e.reply.ok /\ Backed(question[r], e) /\ e.ins <= e.at + MaxReply
  BY <1>a, <1>b DEF CacheIsTrue, AnswersInv, Key
<1>d. ask[r].arrived <= Now /\ Now < e.ins + TTL
  BY DEF Hit, Live, Ready, PhasesInv
<1>e. ask[r].arrived < e.at + MaxReply + TTL
  <2>1. ask[r].arrived \in Nat /\ Len(world) \in Nat /\ e.ins \in Nat /\ e.at \in Nat
    BY <1>b DEF TypeOK, PhasesInv, Hit, Ready, Asks, Results
  <2> QED BY <2>1, <1>c, <1>d, KubernetesAssumption
<1> HIDE DEF e
<1>1. TypeOK'
  BY <1>b DEF TypeOK, PCs, e, Hit, Ready, Key
<1>2. PhasesInv'
  BY <1>b DEF TypeOK, PCs, PhasesInv, e, Hit, Ready, Key
<1>3. ClientInv'
  BY DEF TypeOK, PCs, ClientInv, PhasesInv, e, Hit, Ready, Key
<1>4. AnswersInv'
  BY DEF TypeOK, PCs, AnswersInv, e, Hit, Ready, Key
<1>5. ToldInv'
  BY <1>b, <1>c DEF TypeOK, PCs, ToldInv, Backed, PhasesInv, e, Hit, Ready, Key
<1>6. SingleFlight'
  BY DEF TypeOK, PCs, SingleFlight, Leading, Key, Hit, Ready, Key
<1>7. NobodyForgotten'
  BY DEF TypeOK, PCs, NobodyForgotten, Led, Leading, Key, ClientInv, Hit, Ready, Key
<1>8. CacheIsTrue'
  BY DEF TypeOK, PCs, CacheIsTrue, Backed, Hit, Ready, Key
<1>9. Fresh'
  BY <1>e, <1>b DEF TypeOK, PCs, Fresh, PhasesInv, e, Hit, Ready, Key
<1>10. NewestInv'
  BY DEF TypeOK, PCs, NewestInv, Key, PhasesInv, Hit
<1> QED BY <1>1, <1>2, <1>3, <1>4, <1>5, <1>6, <1>7, <1>8, <1>9, <1>10

LEMMA JoinKeeps ==
    ASSUME IInv, NEW r \in Requests, Join(r)
    PROVE  IInv'
<1> USE DEF IInv
<1>1. TypeOK'
  BY DEF TypeOK, PCs, Join, Ready, Key
<1>2. PhasesInv'
  BY DEF TypeOK, PCs, PhasesInv, Join, Ready, Key
<1>3. ClientInv'
  BY DEF TypeOK, PCs, ClientInv, PhasesInv, Join, Ready, Key
<1>4. AnswersInv'
  BY DEF TypeOK, PCs, AnswersInv, Join, Ready, Key
<1>5. ToldInv'
  BY DEF TypeOK, PCs, ToldInv, Backed, PhasesInv, Join, Ready, Key
<1>6. SingleFlight'
  BY DEF TypeOK, PCs, SingleFlight, Leading, Key, Join, Ready, Key
<1>7. NobodyForgotten'
  BY DEF TypeOK, PCs, NobodyForgotten, Led, Leading, Key, ClientInv, Join, Ready, Key
<1>8. CacheIsTrue'
  BY DEF TypeOK, PCs, CacheIsTrue, Backed, Join, Ready, Key
<1>9. Fresh'
  BY DEF TypeOK, PCs, Fresh, PhasesInv, Join, Ready, Key
<1>10. NewestInv'
  BY DEF TypeOK, PCs, NewestInv, Key, PhasesInv, Join
<1> QED BY <1>1, <1>2, <1>3, <1>4, <1>5, <1>6, <1>7, <1>8, <1>9, <1>10

LEMMA LeadKeeps ==
    ASSUME IInv, NEW r \in Requests, Lead(r)
    PROVE  IInv'
<1> USE DEF IInv
<1>1. TypeOK'
  BY DEF TypeOK, PCs, Lead, Ready, Key
<1>2. PhasesInv'
  BY DEF TypeOK, PCs, PhasesInv, Lead, Ready, Key
<1>3. ClientInv'
  BY DEF TypeOK, PCs, ClientInv, PhasesInv, Lead, Ready, Key
<1>4. AnswersInv'
  BY DEF TypeOK, PCs, AnswersInv, Lead, Ready, Key
<1>5. ToldInv'
  BY DEF TypeOK, PCs, ToldInv, Backed, PhasesInv, Lead, Ready, Key
<1>6. SingleFlight'
  BY DEF TypeOK, PCs, SingleFlight, Leading, Key, Led, Lead, Ready, Key
<1>7. NobodyForgotten'
  BY DEF TypeOK, PCs, NobodyForgotten, Led, Leading, Key, ClientInv, Lead, Ready, Key
<1>8. CacheIsTrue'
  BY DEF TypeOK, PCs, CacheIsTrue, Backed, Lead, Ready, Key
<1>9. Fresh'
  BY DEF TypeOK, PCs, Fresh, PhasesInv, Lead, Ready, Key
<1>10. NewestInv'
  BY DEF TypeOK, PCs, NewestInv, Key, PhasesInv, Lead
<1> QED BY <1>1, <1>2, <1>3, <1>4, <1>5, <1>6, <1>7, <1>8, <1>9, <1>10

LEMMA EvaluateKeeps ==
    ASSUME IInv, NEW r \in Requests, Evaluate(r)
    PROVE  IInv'
<1> USE DEF IInv
<1> DEFINE res == Result(Reply(question[r], world[Now]), Now, 0)
<1>a. question[r] \in Questions /\ Now \in 1..Now /\ world[Now] \in Worlds
  BY DEF TypeOK, PhasesInv, Evaluate
<1>b. Reply(question[r], world[Now]) \in Replies
  BY <1>a, ReplyType
<1>c. res \in Results /\ res # None
  BY <1>a, <1>b, ClientAssumption DEF Result, Results
<1>d. res.reply = Reply(question[r], world[Now]) /\ res.at = Now /\ res.at \in 1..Now
  BY <1>a DEF Result
<1>g. ~res.reply.ok => res.reply.says \in Faults(question[r].kind)
  BY <1>a, <1>d, ReplyType
<1>e. ask[r].arrived \in Nat /\ ask[r].arrived <= res.at + MaxReply
  BY <1>d, KubernetesAssumption DEF TypeOK, PhasesInv, Evaluate, Asks
<1>f. cache[Key(r)] # None => cache[Key(r)].at <= Now
  <2>1. cache[Key(r)] # None => cache[Key(r)] \in Results
    BY <1>a DEF TypeOK, Keys, Key
  <2> QED BY <1>a, <2>1 DEF CacheIsTrue, Key, Results, Backed
<1> HIDE DEF res
<1>1. TypeOK'
  BY <1>c DEF TypeOK, PCs, res, Evaluate
<1>2. PhasesInv'
  BY <1>c DEF TypeOK, PCs, PhasesInv, res, Evaluate
<1>3. ClientInv'
  BY DEF TypeOK, PCs, ClientInv, PhasesInv, res, Evaluate
<1>4. AnswersInv'
  BY <1>d, KubernetesAssumption DEF TypeOK, PCs, AnswersInv, res, Evaluate
<1>5. ToldInv'
  <2>1. Backed(question[r], res)
    BY <1>d DEF Backed
  <2> QED BY <1>c, <1>g, <2>1 DEF TypeOK, ToldInv, Backed, PhasesInv, res, Evaluate
<1>6. SingleFlight'
  BY DEF TypeOK, PCs, SingleFlight, Leading, Key, Evaluate
<1>7. NobodyForgotten'
  BY DEF TypeOK, PCs, NobodyForgotten, Led, Leading, Key, ClientInv, Evaluate
<1>8. CacheIsTrue'
  BY DEF TypeOK, PCs, CacheIsTrue, Backed, Evaluate
<1>9. Fresh'
  BY <1>c, <1>e DEF TypeOK, PCs, Fresh, PhasesInv, res, Evaluate
<1>10. NewestInv'
  <2> SUFFICES ASSUME NEW s \in Requests, pc'[s] = "reply", cache[Key(s)] # None
               PROVE  cache[Key(s)].at <= result'[s].at
    BY DEF NewestInv, Key, Evaluate
  <2>1. CASE s = r
    BY <1>d, <1>f, <2>1 DEF TypeOK, Evaluate, res
  <2>2. CASE s # r
    BY <2>2 DEF TypeOK, Evaluate, NewestInv
  <2> QED BY <2>1, <2>2
<1> QED BY <1>1, <1>2, <1>3, <1>4, <1>5, <1>6, <1>7, <1>8, <1>9, <1>10

LEMMA EvictKeeps ==
    ASSUME IInv, NEW k \in Keys, Evict(k)
    PROVE  IInv'
<1> USE DEF IInv
<1>1. TypeOK'
  BY DEF TypeOK, PCs, Evict
<1>2. PhasesInv'
  BY DEF TypeOK, PCs, PhasesInv, Evict
<1>3. ClientInv'
  BY DEF TypeOK, PCs, ClientInv, PhasesInv, Evict
<1>4. AnswersInv'
  BY DEF TypeOK, PCs, AnswersInv, Evict
<1>5. ToldInv'
  BY DEF TypeOK, PCs, ToldInv, Backed, PhasesInv, Evict
<1>6. SingleFlight'
  BY DEF TypeOK, PCs, SingleFlight, Leading, Key, Evict
<1>7. NobodyForgotten'
  BY DEF TypeOK, PCs, NobodyForgotten, Led, Leading, Key, ClientInv, Evict
<1>8. CacheIsTrue'
  BY DEF TypeOK, PCs, CacheIsTrue, Backed, Evict
<1>9. Fresh'
  BY DEF TypeOK, PCs, Fresh, PhasesInv, Evict
<1>10. NewestInv'
  BY DEF TypeOK, PCs, NewestInv, Key, PhasesInv, Evict
<1> QED BY <1>1, <1>2, <1>3, <1>4, <1>5, <1>6, <1>7, <1>8, <1>9, <1>10

(* The requests that wait on a leader's key asked what the leader asked.    *)
LEMMA PartyAsksTheSame ==
    ASSUME IInv, NEW l \in Requests, Leading(l),
           NEW r \in Requests, pc[r] = "wait", Key(r) = Key(l)
    PROVE  question[r] = question[l]
<1>1. question[r] \in Questions /\ question[l] \in Questions
  BY DEF IInv, TypeOK, PhasesInv, Leading
<1> QED BY <1>1, KeyInjective DEF Key

LEMMA DeliverKeeps ==
    ASSUME IInv, NEW r \in Requests, Deliver(r)
    PROVE  IInv'
<1> USE DEF IInv
<1> DEFINE res == [result[r] EXCEPT !.ins = Now]
<1> DEFINE party == {r} \union {s \in Requests : pc[s] = "wait" /\ Key(s) = Key(r)}
<1>a. /\ Now \in Nat /\ question[r] \in Questions /\ Key(r) \in Keys
      /\ result[r] \in Results /\ result[r] # None
  BY DEF TypeOK, PhasesInv, Deliver, Key, Keys
<1>b. res \in Results /\ res # None
  BY <1>a, ClientAssumption DEF Results
<1>c. /\ res.reply = Reply(question[r], world[res.at]) /\ res.at \in 1..Now
      /\ res.ins = Now /\ Now <= res.at + MaxReply
  BY <1>a DEF AnswersInv, Deliver, Results
<1>d. /\ pc' = [s \in Requests |-> IF s \in party THEN "got" ELSE pc[s]]
      /\ result' = [s \in Requests |-> IF s \in party THEN res ELSE result[s]]
      /\ cache' = IF res.reply.ok THEN [cache EXCEPT ![Key(r)] = res] ELSE cache
      /\ pc[r] = "reply"
      /\ UNCHANGED <<world, cell, ask, question, auth, outcome>>
  BY DEF Deliver, Settle
<1>e. \A s \in party : question[s] = question[r] /\ pc[s] \in {"wait", "reply"}
  BY <1>d, PartyAsksTheSame DEF Leading
<1>f. \A q \in Questions : KeyOf(q) = Key(r) => q = question[r]
  BY <1>a, KeyInjective DEF Key
<1>g. \A q \in Questions : KeyOf(q) \in Keys
  BY DEF Keys
<1>h. party \subseteq Requests
  OBVIOUS
<1>i. \A s \in Requests : pc[s] = "wait" /\ s \notin party => Key(s) # Key(r)
  OBVIOUS
<1>j. cell = "set"
  BY <1>d DEF ClientInv
<1>l. r \in party
  OBVIOUS
<1>m. res.reply = result[r].reply
  BY <1>a DEF Results
<1>k. \A s \in party : ask[s].arrived <= res.at + MaxReply
  <2>1. \A s \in party : ask[s].arrived \in Nat /\ ask[s].arrived <= Now
    BY <1>e, <1>h, PhaseOf
  <2> QED BY <2>1, <1>a, <1>c, KubernetesAssumption
<1> HIDE DEF res, party
<1>1. TypeOK'
  BY <1>a, <1>b, <1>c, <1>d, <1>e, <1>h DEF TypeOK, PCs
<1>2. PhasesInv'
  BY <1>a, <1>b, <1>c, <1>d, <1>e, <1>h DEF TypeOK, PCs, PhasesInv
<1>3. ClientInv'
  BY <1>d, <1>h, <1>j DEF TypeOK, PCs, ClientInv, PhasesInv
<1>4. AnswersInv'
  BY <1>a, <1>b, <1>c, <1>d, <1>e, <1>h, <1>f, <1>g DEF TypeOK, PCs, AnswersInv
<1>5. ToldInv'
  <2>1. Backed(question[r], res)
    BY <1>c DEF Backed
  <2>2. ~res.reply.ok => res.reply.says \in Faults(question[r].kind)
    BY <1>a, <1>d, <1>m DEF ToldInv
  <2> QED BY <1>d, <1>e, <1>h, <2>1, <2>2 DEF TypeOK, ToldInv, Backed
<1>6. SingleFlight'
  BY <1>a, <1>b, <1>c, <1>d, <1>e, <1>h DEF TypeOK, PCs, SingleFlight, Leading, Key
<1>7. NobodyForgotten'
  BY <1>a, <1>b, <1>c, <1>d, <1>e, <1>h, <1>i DEF TypeOK, PCs, NobodyForgotten, Led, Leading, Key, ClientInv
<1>8. CacheIsTrue'
  BY <1>a, <1>b, <1>c, <1>d, <1>e, <1>h, <1>f, <1>g DEF TypeOK, PCs, CacheIsTrue, Backed
<1>9. Fresh'
  BY <1>d, <1>h, <1>k DEF TypeOK, Fresh
<1>10. NewestInv'
  <2> SUFFICES ASSUME NEW s \in Requests, pc'[s] = "reply", cache'[Key(s)] # None
               PROVE  cache'[Key(s)].at <= result'[s].at
    BY <1>d DEF NewestInv, Key
  <2>1. pc[s] = "reply" /\ s \notin party
    BY <1>d
  <2>2. Key(s) # Key(r)
    BY <1>d, <1>l, <2>1 DEF SingleFlight, Leading
  <2>3. cache'[Key(s)] = cache[Key(s)] /\ result'[s] = result[s]
    BY <1>d, <2>1, <2>2 DEF TypeOK
  <2> QED BY <2>1, <2>3 DEF NewestInv
<1> QED BY <1>1, <1>2, <1>3, <1>4, <1>5, <1>6, <1>7, <1>8, <1>9, <1>10

LEMMA CallFailsKeeps ==
    ASSUME IInv, NEW r \in Requests, CallFails(r)
    PROVE  IInv'
<1> USE DEF IInv
<1>p. PICK e \in Faults(question[r].kind) : Settle(r, Failure(e))
  BY DEF CallFails
<1> DEFINE res == Failure(e)
<1> DEFINE party == {r} \union {s \in Requests : pc[s] = "wait" /\ Key(s) = Key(r)}
<1>a. res \in Results /\ res # None /\ ~res.reply.ok
  <2>1. e \in AuthErrors
    BY <1>p DEF Faults, AuthErrors
  <2>2. res \in Results /\ ~res.reply.ok
    BY <2>1 DEF Failure, Result, Results, Replies
  <2> QED BY <2>2, ClientAssumption
<1>d. /\ pc' = [s \in Requests |-> IF s \in party THEN "got" ELSE pc[s]]
      /\ result' = [s \in Requests |-> IF s \in party THEN res ELSE result[s]]
      /\ pc[r] \in {"call", "reply"}
      /\ UNCHANGED <<world, cell, cache, ask, question, auth, outcome>>
  BY <1>p DEF CallFails, Settle, Leading
<1>e. \A s \in party : pc[s] \in {"wait", "call", "reply"}
  BY <1>d
<1>h. party \subseteq Requests
  OBVIOUS
<1>i. \A s \in Requests : pc[s] = "wait" /\ s \notin party => Key(s) # Key(r)
  OBVIOUS
<1>j. cell = "set"
  BY <1>d DEF ClientInv
<1>m. \A s \in party : res.reply.says \in Faults(question[s].kind)
  <2>1. \A s \in party : question[s] = question[r]
    BY <1>d, PartyAsksTheSame DEF Leading
  <2> QED BY <1>p, <2>1 DEF Failure, Result
<1>k. r \in party /\ \A s \in party : s = r \/ pc[s] = "wait"
  OBVIOUS
<1> HIDE DEF res, party
<1>1. TypeOK'
  BY <1>a, <1>d, <1>e, <1>h DEF TypeOK, PCs
<1>2. PhasesInv'
  BY <1>a, <1>d, <1>e, <1>h DEF TypeOK, PCs, PhasesInv
<1>3. ClientInv'
  BY <1>d, <1>h, <1>j DEF TypeOK, PCs, ClientInv, PhasesInv
<1>4. AnswersInv'
  BY <1>a, <1>d, <1>e, <1>h DEF TypeOK, PCs, AnswersInv
<1>5. ToldInv'
  BY <1>a, <1>d, <1>h, <1>m DEF TypeOK, ToldInv, Backed
<1>6. SingleFlight'
  BY <1>a, <1>d, <1>e, <1>h DEF TypeOK, PCs, SingleFlight, Leading, Key
<1>7. NobodyForgotten'
  <2>1. \A s \in Requests : pc'[s] = "wait" => Led(Key(s))'
    <3> SUFFICES ASSUME NEW s \in Requests, pc'[s] = "wait" PROVE Led(Key(s))'
      OBVIOUS
    <3>1. pc[s] = "wait" /\ s \notin party
      BY <1>d
    <3>2. PICK l \in Requests : Leading(l) /\ Key(l) = Key(s)
      BY <3>1 DEF NobodyForgotten, Led
    <3>3. l \notin party
      BY <1>i, <1>k, <3>1, <3>2 DEF Leading
    <3> QED BY <1>d, <3>2, <3>3 DEF Led, Leading, Key
  <2>2. \A s \in Requests : pc'[s] = "init" <=> pc[s] = "init"
    BY <1>d, <1>e
  <2> QED BY <1>d, <2>1, <2>2 DEF NobodyForgotten
<1>8. CacheIsTrue'
  BY <1>a, <1>d, <1>e, <1>h DEF TypeOK, PCs, CacheIsTrue, Backed
<1>9. Fresh'
  BY <1>a, <1>d, <1>e, <1>h DEF TypeOK, PCs, Fresh, PhasesInv
<1>10. NewestInv'
  BY <1>a, <1>d, <1>e, <1>h DEF TypeOK, PCs, NewestInv, Key, PhasesInv
<1> QED BY <1>1, <1>2, <1>3, <1>4, <1>5, <1>6, <1>7, <1>8, <1>9, <1>10

LEMMA TickKeeps ==
    ASSUME IInv, NEW w \in Worlds, Tick(w)
    PROVE  IInv'
<1> USE DEF IInv
<1>a. /\ Now' = Now + 1 /\ Now \in Nat
      /\ \A n \in 1..Now : world'[n] = world[n]
      /\ world' \in Seq(Worlds)
  BY WorldGrows DEF TypeOK, Tick
<1>b. /\ \A s \in Requests : result[s] # None => result[s] \in Results
      /\ \A s \in Requests : auth[s] # None => auth[s] \in Results
      /\ \A k \in Keys : cache[k] # None => cache[k] \in Results
      /\ \A q \in Questions : KeyOf(q) \in Keys
      /\ \A s \in Requests : ask[s] # None => ask[s].arrived \in Nat
  BY DEF TypeOK, Keys, Asks
<1>c. \A q \in Questions, res \in Results : Backed(q, res) => Backed(q, res)'
  BY <1>a DEF Backed, Results
<1>1. TypeOK'
  BY <1>a, <1>b DEF TypeOK, PCs, Tick
<1>2. PhasesInv'
  BY <1>a, <1>b DEF TypeOK, PCs, PhasesInv, Tick
<1>3. ClientInv'
  BY DEF TypeOK, PCs, ClientInv, PhasesInv, Tick
<1>4. AnswersInv'
  BY <1>a, <1>b, KubernetesAssumption DEF TypeOK, PCs, AnswersInv, PhasesInv, Results, Tick
<1>5. ToldInv'
  BY <1>a, <1>b DEF TypeOK, PCs, ToldInv, Backed, PhasesInv, Results, Tick
<1>6. SingleFlight'
  BY DEF TypeOK, PCs, SingleFlight, Leading, Key, Tick
<1>7. NobodyForgotten'
  BY DEF TypeOK, PCs, NobodyForgotten, Led, Leading, Key, ClientInv, Tick
<1>8. CacheIsTrue'
  BY <1>a, <1>b DEF TypeOK, PCs, CacheIsTrue, Backed, Results, Tick
<1>9. Fresh'
  BY <1>a, <1>b DEF TypeOK, PCs, Fresh, PhasesInv, Tick
<1>10. NewestInv'
  BY <1>a, <1>b, KubernetesAssumption DEF TypeOK, PCs, NewestInv, Key, PhasesInv, Tick
<1> QED BY <1>1, <1>2, <1>3, <1>4, <1>5, <1>6, <1>7, <1>8, <1>9, <1>10

(* Every request ends with an outcome that evaluate_request can return.     *)
LEMMA VerdictType ==
    ASSUME IInv, NEW r \in Requests, Finish(r)
    PROVE  Verdict(r) \in Outcomes
<1>1. /\ pc[r] = "got" /\ question[r] \in Questions
      /\ result[r].reply \in Replies
  BY PhaseOf DEF IInv, TypeOK, PhasesInv, Finish, Results
<1>2. CASE ~result[r].reply.ok
  BY <1>1, <1>2 DEF Verdict, Replies, Outcomes, Denied
<1>3. CASE result[r].reply.ok /\ question[r].kind = "token"
  BY <1>3 DEF Verdict, Outcomes, Denied, AuthErrors
<1>5. CASE result[r].reply.ok /\ question[r].kind = "sar"
  <2>1. auth[r].reply.says \in AuthInfos
    BY <1>1, <1>5, PhaseOf
  <2>2. result[r].reply \in {Ok(Granted), Ok(Rejected)}
    BY <1>1, <1>5, GotReply
  <2> QED BY <2>1, <2>2, <1>5, ClientAssumption
          DEF Verdict, Outcomes, Denied, Allowed, AuthErrors
<1> QED BY <1>1, <1>2, <1>3, <1>5 DEF Questions

LEMMA FinishKeeps ==
    ASSUME IInv, NEW r \in Requests, Finish(r)
    PROVE  IInv'
<1> USE DEF IInv
<1>b. Verdict(r) \in Outcomes
  BY VerdictType
<1>1. TypeOK'
  BY <1>b DEF TypeOK, PCs, Finish
<1>2. PhasesInv'
  BY DEF TypeOK, PCs, PhasesInv, Finish
<1>3. ClientInv'
  BY DEF TypeOK, PCs, ClientInv, PhasesInv, Finish
<1>4. AnswersInv'
  BY DEF TypeOK, PCs, AnswersInv, Finish
<1>5. ToldInv'
  BY DEF TypeOK, PCs, ToldInv, Backed, PhasesInv, Finish
<1>6. SingleFlight'
  BY DEF TypeOK, PCs, SingleFlight, Leading, Key, Finish
<1>7. NobodyForgotten'
  BY DEF TypeOK, PCs, NobodyForgotten, Led, Leading, Key, ClientInv, Finish
<1>8. CacheIsTrue'
  BY DEF TypeOK, PCs, CacheIsTrue, Backed, Finish
<1>9. Fresh'
  BY DEF TypeOK, PCs, Fresh, PhasesInv, Finish
<1>10. NewestInv'
  BY DEF TypeOK, PCs, NewestInv, Key, PhasesInv, Finish
<1> QED BY <1>1, <1>2, <1>3, <1>4, <1>5, <1>6, <1>7, <1>8, <1>9, <1>10

LEMMA AuthorizeKeeps ==
    ASSUME IInv, NEW r \in Requests, Authorize(r)
    PROVE  IInv'
<1> USE DEF IInv
<1> DEFINE i == result[r].reply.says
<1> DEFINE q == SubjectAccessReview(i, ask[r].attrs)
<1>a. /\ result[r] \in Results /\ result[r] # None /\ result[r].reply.ok
      /\ result[r].reply \in Replies /\ question[r] \in Questions
      /\ question[r].kind = "token" /\ i # Rejected /\ pc[r] = "got"
  BY DEF TypeOK, PhasesInv, Authorize, Authenticated, Results
<1>b. i \in AuthInfos
  BY <1>a, GotReply
<1>c. ask[r].attrs \in Attrs /\ ask[r].attrs # None
  BY <1>a DEF TypeOK, PhasesInv, Authorize, Asks
<1>d. q \in Questions /\ q # None /\ q.kind = "sar"
  BY <1>b, <1>c, QuestionTypes
<1>e. question[r] = TokenReview(ask[r].token) /\ auth[r] = None
  BY <1>a, PhaseOf
<1>f. /\ pc' = [pc EXCEPT ![r] = "client"]
      /\ question' = [question EXCEPT ![r] = q]
      /\ auth' = [auth EXCEPT ![r] = result[r]]
      /\ result' = [result EXCEPT ![r] = None]
      /\ UNCHANGED <<world, cell, cache, ask, outcome>>
  BY DEF Authorize
<1>g. q = SubjectAccessReview(result[r].reply.says, ask[r].attrs)
  OBVIOUS
<1>h. cell = "set"
  BY <1>a DEF ClientInv
<1>i. Backed(TokenReview(ask[r].token), result[r])
  BY <1>a, <1>e DEF ToldInv
<1> HIDE DEF i, q
<1>1. TypeOK'
  BY <1>a, <1>d, <1>e, <1>f DEF TypeOK, PCs
<1>2. PhasesInv'
  BY <1>a, <1>d, <1>e, <1>f, <1>b, <1>c, <1>g DEF TypeOK, PCs, PhasesInv, i
<1>3. ClientInv'
  BY <1>f, <1>h DEF TypeOK, PCs, ClientInv, PhasesInv
<1>4. AnswersInv'
  BY <1>a, <1>d, <1>e, <1>f DEF TypeOK, PCs, AnswersInv
<1>5. ToldInv'
  BY <1>d, <1>f, <1>i DEF TypeOK, ToldInv, Backed, PhasesInv
<1>6. SingleFlight'
  BY <1>a, <1>d, <1>e, <1>f DEF TypeOK, PCs, SingleFlight, Leading, Key
<1>7. NobodyForgotten'
  BY <1>a, <1>d, <1>e, <1>f DEF TypeOK, PCs, NobodyForgotten, Led, Leading, Key, ClientInv
<1>8. CacheIsTrue'
  BY <1>a, <1>d, <1>e, <1>f DEF TypeOK, PCs, CacheIsTrue, Backed
<1>9. Fresh'
  BY <1>a, <1>d, <1>e, <1>f DEF TypeOK, PCs, Fresh, PhasesInv
<1>10. NewestInv'
  BY <1>a, <1>d, <1>e, <1>f DEF TypeOK, PCs, NewestInv, Key, PhasesInv
<1> QED BY <1>1, <1>2, <1>3, <1>4, <1>5, <1>6, <1>7, <1>8, <1>9, <1>10

-----------------------------------------------------------------------------
LEMMA InitIsGood == Init => IInv
<1> SUFFICES ASSUME Init PROVE IInv
  OBVIOUS
<1>1. \A q \in Questions : KeyOf(q) \in Keys
  BY DEF Keys
<1>2. world \in Seq(Worlds) /\ Len(world) = 1
  <2>1. PICK w \in Worlds : world = <<w>>
    BY DEF Init
  <2> QED BY <2>1
<1>3. TypeOK
  BY <1>2 DEF Init, TypeOK, PCs
<1>4. PhasesInv /\ ClientInv /\ AnswersInv /\ NewestInv /\ ToldInv
  BY <1>1 DEF Init, PhasesInv, ClientInv, AnswersInv, NewestInv, ToldInv
<1>5. SingleFlight /\ NobodyForgotten /\ CacheIsTrue /\ Fresh
  BY <1>1 DEF Init, SingleFlight, NobodyForgotten, Leading, CacheIsTrue, Fresh
<1> QED BY <1>3, <1>4, <1>5 DEF IInv

LEMMA StutterKeeps ==
    ASSUME IInv, UNCHANGED vars
    PROVE  IInv'
BY DEF vars, IInv, TypeOK, PhasesInv, ClientInv, AnswersInv, NewestInv, ToldInv, SingleFlight,
       NobodyForgotten, CacheIsTrue, Fresh, Backed, Led, Leading, Key

LEMMA NextKeeps == IInv /\ [Next]_vars => IInv'
<1> SUFFICES ASSUME IInv, [Next]_vars PROVE IInv'
  OBVIOUS
<1>1. ASSUME NEW r \in Requests, NEW t \in Tokens, NEW b \in Attrs \union {None},
             Arrive(r, t, b)
      PROVE  IInv'
  BY <1>1, ArriveKeeps
<1>2. ASSUME NEW r \in Requests, Step(r)
      PROVE  IInv'
  BY <1>2, InitClientKeeps, ClientReadyKeeps, ClientFailsKeeps, HitKeeps, JoinKeeps,
     LeadKeeps, EvaluateKeeps, DeliverKeeps, CallFailsKeeps, AuthorizeKeeps, FinishKeeps
     DEF Step
<1>3. ASSUME NEW k \in Keys, Evict(k)
      PROVE  IInv'
  BY <1>3, EvictKeeps
<1>4. ASSUME NEW w \in Worlds, Tick(w)
      PROVE  IInv'
  BY <1>4, TickKeeps
<1>5. CASE UNCHANGED vars
  BY <1>5, StutterKeeps
<1> QED BY <1>1, <1>2, <1>3, <1>4, <1>5 DEF Next

(* The inductive invariant holds of every state the client can reach.       *)
THEOREM Invariance == Spec => []IInv
BY InitIsGood, NextKeeps, PTL DEF Spec

(* Every variable keeps its type: in particular no call answers with        *)
(* neither an identity, a decision nor an error (auth.rs:78-105, 155-165).  *)
THEOREM TypeCorrect == Spec => []TypeOK
<1>1. IInv => TypeOK
  BY DEF IInv
<1> QED BY <1>1, Invariance, PTL

(* However many requests ask the same thing at once, one call is out.       *)
THEOREM OneCallPerKey == Spec => []SingleFlight
<1>1. IInv => SingleFlight
  BY DEF IInv
<1> QED BY <1>1, Invariance, PTL

(* No request waits for a call, or for the client, that nobody is making.   *)
THEOREM NoLostWakeup == Spec => []NobodyForgotten
<1>1. IInv => NobodyForgotten
  BY DEF IInv
<1> QED BY <1>1, Invariance, PTL

(* authorize never makes the client (auth.rs:123): authenticate did.        *)
THEOREM ClientThereForAuthorize == Spec => []AuthorizeFindsClient
<1>1. IInv => AuthorizeFindsClient
  <2> SUFFICES ASSUME IInv, NEW r \in Requests, pc[r] # "free", question[r].kind = "sar"
               PROVE  cell = "set"
    BY DEF AuthorizeFindsClient
  <2>1. auth[r] # None
    BY PhaseOf
  <2> QED BY <2>1 DEF IInv, ClientInv
<1> QED BY <1>1, Invariance, PTL

(* What is cached under a key is Kubernetes' answer to each question with   *)
(* that key: nobody gets the answer to another's question.                  *)
THEOREM CacheCorrect == Spec => []CacheIsTrue
<1>1. IInv => CacheIsTrue
  BY DEF IInv
<1> QED BY <1>1, Invariance, PTL

(* No decision outlives the time to live by more than an answer's way back. *)
THEOREM BoundedStaleness == Spec => []Fresh
<1>1. IInv => Fresh
  BY DEF IInv
<1> QED BY <1>1, Invariance, PTL

-----------------------------------------------------------------------------
(* A slow answer does not overwrite a newer one: an entry is replaced only  *)
(* by what its one leader got, and that is no older.                        *)
THEOREM EntriesOnlyGetNewer == Spec => NewestAnswerWins
<1> DEFINE Newer == \A k \in Keys : cache[k] # None /\ cache'[k] # None =>
                                          cache[k].at <= cache'[k].at
<1>1. ASSUME IInv, cache' = cache
      PROVE  Newer
  <2>1. \A k \in Keys : cache[k] # None => cache[k].at \in Nat
    BY <1>1 DEF IInv, TypeOK, Results
  <2> QED BY <1>1, <2>1
<1>2. ASSUME IInv, NEW r \in Requests, Deliver(r)
      PROVE  Newer
  <2> DEFINE res == [result[r] EXCEPT !.ins = Now]
  <2>1. result[r] \in Results /\ pc[r] = "reply"
    BY <1>2 DEF IInv, TypeOK, PhasesInv, Deliver
  <2>2. res.at = result[r].at
    BY <2>1 DEF Results
  <2>3. cache' = cache \/ cache' = [cache EXCEPT ![Key(r)] = res]
    BY <1>2 DEF Deliver
  <2>4. cache[Key(r)] # None => cache[Key(r)].at <= res.at
    BY <1>2, <2>1, <2>2 DEF IInv, NewestInv
  <2> HIDE DEF res
  <2>5. \A k \in Keys : cache[k] # None => cache[k].at \in Nat
    BY <1>2 DEF IInv, TypeOK, Results
  <2> QED BY <1>2, <2>3, <2>4, <2>5 DEF IInv, TypeOK
<1>3. ASSUME IInv, NEW k \in Keys, Evict(k)
      PROVE  Newer
  <2>1. \A j \in Keys : cache[j] # None => cache[j].at \in Nat
    BY <1>3 DEF IInv, TypeOK, Results
  <2> QED BY <1>3, <2>1 DEF Evict, IInv, TypeOK
<1>4. ASSUME IInv, [Next]_vars
      PROVE  Newer
  <2>1. \/ cache' = cache
        \/ \E r \in Requests : Deliver(r)
        \/ \E k \in Keys : Evict(k)
    BY <1>4 DEF Next, Step, vars, Arrive, InitClient, ClientReady, ClientFails, Hit, Join,
       Lead, Evaluate, CallFails, Authorize, Finish, Tick
  <2> QED BY <1>1, <1>2, <1>3, <1>4, <2>1
<1>5. IInv /\ [Next]_vars => [Newer]_vars
  BY <1>4
<1> QED BY <1>5, Invariance, PTL DEF Spec, NewestAnswerWins

-----------------------------------------------------------------------------
(* What Kubernetes' answer to a question says in the words of the contract. *)
LEMMA AnswersVouch ==
    ASSUME IInv, NEW n \in 1..Now, NEW t \in Tokens, NEW i \in AuthInfos,
           Reply(TokenReview(t), world[n]) = Ok(i)
    PROVE  Contract!Vouched(world[n], t, i)
<1>1. TokenReply(world[n].review[t]) = Ok(i)
  BY DEF Reply
<1>2. i # Rejected
  BY ClientAssumption
<1>3. /\ world[n].review[t].authenticated
      /\ HasCompatibleAudience(world[n].review[t].audiences)
      /\ world[n].review[t].user = i
  BY <1>1, <1>2 DEF TokenReply
<1> QED BY <1>3 DEF Contract!Vouched, HasCompatibleAudience

LEMMA IdentityIsVouched ==
    ASSUME IInv, NEW r \in Requests, ask[r] # None, NEW res \in Results,
           NEW i \in AuthInfos, res.reply = Ok(i),
           Backed(TokenReview(ask[r].token), res),
           \/ ask[r].arrived <= res.at + MaxReply
           \/ ask[r].arrived < res.at + MaxReply + TTL
    PROVE  Contract!Identified(r, i)
<1>1. res.at \in 1..Now /\ Reply(TokenReview(ask[r].token), world[res.at]) = Ok(i)
  BY DEF Backed
<1>2. ask[r].token \in Tokens
  BY DEF IInv, TypeOK, Asks
<1>3. Contract!Vouched(world[res.at], ask[r].token, i)
  BY <1>1, <1>2, AnswersVouch
<1>4. res.at \in Contract!Window(r)
  BY <1>1 DEF Contract!Window, Contract!Now
<1> QED BY <1>3, <1>4 DEF Contract!Identified

(* Every outcome is one the contract justifies.                             *)
LEMMA FinishJustified ==
    ASSUME IInv, NEW r \in Requests, Finish(r)
    PROVE  Contract!Justified(r, Verdict(r))
<1>1. /\ pc[r] = "got" /\ ask[r] # None /\ question[r] \in Questions
      /\ result[r] \in Results /\ result[r] # None
  BY PhaseOf DEF IInv, TypeOK, PhasesInv, Finish
<1>2. CASE question[r].kind = "token"
  <2>1. question[r] = TokenReview(ask[r].token)
    BY <1>1, <1>2, PhaseOf
  <2>2. CASE ~result[r].reply.ok
    <3>1. result[r].reply.says \in {"Unauthenticated", "Internal"}
      BY <1>1, <1>2, <2>2 DEF IInv, ToldInv, Faults
    <3>2. Verdict(r).verdict \in {"Unauthenticated", "Internal"}
      BY <2>2, <3>1 DEF Verdict, Denied
    <3> QED BY <3>2 DEF Contract!Justified
  <2>3. CASE result[r].reply.ok /\ result[r].reply.says = Rejected
    <3>1. Verdict(r).verdict = "Unauthenticated"
      BY <1>2, <2>3 DEF Verdict, Denied
    <3> QED BY <3>1 DEF Contract!Justified
  <2>4. CASE result[r].reply.ok /\ result[r].reply.says # Rejected
    <3>1. Verdict(r).verdict = "no rule matched" /\ ask[r].attrs = None
      BY <1>2, <2>4 DEF Verdict, Denied, Finish, Authenticated
    <3>2. PICK i \in AuthInfos : result[r].reply = Ok(i)
      BY <1>1, <1>2, <2>4, GotReply DEF Results, Replies
    <3>3. Contract!Identified(r, i)
      BY <1>1, <2>1, <2>4, <3>2, IdentityIsVouched DEF IInv, ToldInv, Fresh
    <3> QED BY <3>1, <3>3 DEF Contract!Justified, Contract!AuthInfos, AuthInfos
  <2> QED BY <2>2, <2>3, <2>4
<1>3. CASE question[r].kind = "sar"
  <2> DEFINE i == auth[r].reply.says
  <2>1. auth[r] # None /\ auth[r] \in Results /\ auth[r].reply.ok /\ i \in AuthInfos
    BY <1>1, <1>3, PhaseOf DEF IInv, TypeOK
  <2>2. auth[r].reply = Ok(i)
    BY <2>1 DEF Results, Replies
  <2>3. Contract!Identified(r, i)
    BY <1>1, <2>1, <2>2, IdentityIsVouched DEF IInv, ToldInv, Fresh
  <2>4. CASE ~result[r].reply.ok
    <3>1. Verdict(r).verdict \in {"Unauthorized", "Internal"}
      BY <1>1, <1>3, <2>4 DEF IInv, ToldInv, Faults, Verdict, Denied
    <3> QED BY <2>1, <2>3, <3>1 DEF Contract!Justified, Contract!AuthInfos, AuthInfos
  <2>5. CASE result[r].reply = Ok(Rejected)
    <3>1. Verdict(r).verdict = "Unauthorized"
      BY <1>3, <2>5 DEF Verdict, Denied
    <3> QED BY <2>1, <2>3, <3>1 DEF Contract!Justified, Contract!AuthInfos, AuthInfos
  <2>6. CASE result[r].reply = Ok(Granted)
    <3> DEFINE n == result[r].at
    <3>1. Verdict(r) = Allowed(i)
      BY <1>3, <2>6, ClientAssumption DEF Verdict
    <3>2. n \in 1..Now /\ Reply(question[r], world[n]) = Ok(Granted)
      <4>1. result[r].reply.ok
        BY <2>6
      <4> QED BY <1>1, <2>6, <4>1 DEF IInv, ToldInv, Backed
    <3>3. question[r] = SubjectAccessReview(i, ask[r].attrs)
      BY <1>1, <1>3, PhaseOf
    <3>4. <<i, ask[r].attrs>> \in world[n].allowed
      BY <3>2, <3>3, ClientAssumption DEF Reply
    <3>5. n \in Contract!Window(r)
      BY <1>1, <2>6, <3>2 DEF IInv, Fresh, Contract!Window, Contract!Now
    <3>6. Contract!Permitted(r, i)
      BY <3>4, <3>5 DEF Contract!Permitted
    <3> QED BY <2>3, <3>1, <3>6 DEF Contract!Justified, Allowed
  <2> QED BY <1>1, <1>3, <2>4, <2>5, <2>6, GotReply
<1> QED BY <1>1, <1>2, <1>3 DEF Questions

(* Every step of the client is a step of the contract or leaves it alone.   *)
LEMMA NextRefines ==
    ASSUME IInv, [Next]_vars
    PROVE  [Contract!Next]_(Contract!vars)
<1>1. ASSUME NEW r \in Requests, NEW t \in Tokens, NEW b \in Attrs \union {None},
             Arrive(r, t, b)
      PROVE  Contract!Next
  <2>1. Contract!Begin(r, t, b)
    BY <1>1 DEF IInv, PhasesInv, Arrive, Contract!Begin, Contract!Now
  <2> QED BY <2>1 DEF Contract!Next
<1>2. ASSUME NEW r \in Requests, Finish(r)
      PROVE  Contract!Next
  <2>1. Contract!Decide(r, Verdict(r))
    BY <1>2, FinishJustified DEF IInv, PhasesInv, Finish, Contract!Decide
  <2>2. Verdict(r) \in Outcomes
    BY <1>2, VerdictType
  <2> QED BY <2>1, <2>2 DEF Contract!Next, Outcomes, AuthInfos, AuthErrors,
             Contract!Outcomes, Contract!AuthInfos, Contract!AuthErrors
<1>3. ASSUME NEW w \in Worlds, Tick(w)
      PROVE  Contract!Next
  <2>1. Contract!Advance(w)
    BY <1>3 DEF Tick, Contract!Advance
  <2> QED BY <2>1 DEF Contract!Next
<1>4. ASSUME NEW r \in Requests, Step(r), ~Finish(r)
      PROVE  UNCHANGED Contract!vars
  BY <1>4 DEF Step, Contract!vars, InitClient, ClientReady, ClientFails, Hit, Join, Lead,
     Evaluate, Deliver, CallFails, Authorize
<1>5. ASSUME NEW k \in Keys, Evict(k)
      PROVE  UNCHANGED Contract!vars
  BY <1>5 DEF Evict, Contract!vars
<1>6. CASE UNCHANGED vars
  BY <1>6 DEF vars, Contract!vars
<1> QED BY <1>1, <1>2, <1>3, <1>4, <1>5, <1>6 DEF Next

(* Whatever the client caches, shares or loses, a request is allowed only   *)
(* on Kubernetes' word, for its own token and attributes, within the bound  *)
(* on staleness (auth.rs:50-166 behind the trait of auth/mod.rs:31-35).     *)
THEOREM RefinesContract == Spec => ContractSafety
<1>1. Init => Contract!Init
  BY DEF Init, Contract!Init
<1> QED BY <1>1, NextRefines, Invariance, PTL DEF Spec, ContractSafety, Contract!Safety
=============================================================================
