---------------------------- MODULE Response_proofs ----------------------------
(***************************************************************************)
(* What a refused client gets, for every configuration and whatever fails   *)
(* on the way: an invariant of the response of each session, by its phase.  *)
(* And what the log has of the sessions in the end.                         *)
(***************************************************************************)
EXTENDS Gateway_proofs, FiniteSetTheorems

Response(status, grpc, whole) ==
    [status |-> status, grpcStatus |-> grpc, complete |-> whole]

FirstWrite(r) == Response(IF request[r].protocol = "http" THEN 403 ELSE 200, None, FALSE)

\* What a refusal comes to.
Whole(r) ==
    \/ Message(r) = "allowed" /\ response[r] = Response(ServerError, None, TRUE)
    \/ Message(r) # "allowed" /\ request[r].protocol = "http" /\ response[r] = Response(403, None, TRUE)
    \/ Message(r) # "allowed" /\ request[r].protocol = "grpc"
          /\ \/ response[r] = Response(200, 16, TRUE)
             \/ response[r] = Response(200, None, FALSE) /\ Message(r) = "Internal"

\* Nothing is written before the refusal, which is one for a reason; what has
\* not been decided to go upstream does not.
Unwritten(r) ==
    /\ phase[r] \in {"free", "filter", "client", "answered", "refuse"} => response[r] = None
    /\ phase[r] \in {"refuse", "trailer", "failed"} => upstream[r] = None
    /\ phase[r] \in {"refuse", "trailer"} => Message(r) # "allowed"
    /\ phase[r] = "proxy" => upstream[r] # None

\* The first write of two, and the ways a session fails.
Half(r) ==
    /\ phase[r] = "trailer" => response[r] = FirstWrite(r)
    /\ phase[r] = "failed" =>
           \/ response[r] = None /\ Message(r) = "allowed"
           \/ response[r] = Response(200, None, FALSE) /\ request[r].protocol = "grpc"
                 /\ Message(r) = "Internal"

Written(r) ==
    phase[r] = "log" /\ upstream[r] = None /\ r \notin gone => Whole(r)

Reply(r) == Unwritten(r) /\ Half(r) /\ Written(r)

WInv == /\ DOMAIN response = Requests /\ gone \subseteq Requests
        /\ \A r \in Requests : Reply(r)

LEMMA WInvSuffices == WInv => RefusalIsWritten
<1> SUFFICES ASSUME WInv, NEW r \in Requests,
                    phase[r] = "log", upstream[r] = None, r \notin gone
             PROVE  LET written(status, grpc, whole) ==
                            response[r] = [status |-> status, grpcStatus |-> grpc,
                                           complete |-> whole]
                        refused == Message(r) # "allowed"
                    IN  CASE ~refused -> written(ServerError, None, TRUE)
                          [] refused /\ request[r].protocol = "http" -> written(403, None, TRUE)
                          [] refused /\ request[r].protocol = "grpc" ->
                                \/ written(200, 16, TRUE)
                                \/ written(200, None, FALSE) /\ Message(r) = "Internal"
  BY DEF RefusalIsWritten
<1>1. Whole(r)
  BY DEF WInv, Reply, Written
<1> QED
  BY <1>1 DEF Whole, Response

-----------------------------------------------------------------------------
(* A step changes one session; the others' replies stay as they are.        *)
SameReply(s) ==
    /\ phase'[s] = phase[s] /\ request'[s] = request[s] /\ outcome'[s] = outcome[s]
    /\ upstream'[s] = upstream[s] /\ response'[s] = response[s]
    /\ s \in gone => s \in gone'

LEMMA ReplyKept ==
    ASSUME NEW s \in Requests, Reply(s), SameReply(s)
    PROVE  Reply(s)'
<1> USE DEF SameReply
<1>1. Token(s)' = Token(s)
  BY DEF Token
<1>2. Message(s)' = Message(s)
  BY <1>1 DEF Message
<1>3. Unwritten(s)'
  BY <1>2 DEF Reply, Unwritten
<1>4. Half(s)'
  BY <1>2 DEF Reply, Half, FirstWrite, Response
<1>5. Written(s)'
  BY <1>2 DEF Reply, Written, Whole, Response
<1> QED
  BY <1>3, <1>4, <1>5 DEF Reply

OnlyReply(r) == \A s \in Requests \ {r} : SameReply(s)

LEMMA OneReply ==
    ASSUME WInv, NEW r \in Requests, OnlyReply(r), Reply(r)',
           DOMAIN response' = Requests, gone' \subseteq Requests
    PROVE  WInv'
<1>1. ASSUME NEW s \in Requests, s # r PROVE Reply(s)'
  BY <1>1, ReplyKept DEF WInv, OnlyReply
<1> QED
  BY <1>1 DEF WInv

-----------------------------------------------------------------------------
LEMMA RefuseReplies ==
    ASSUME IInv, WInv, NEW r \in Requests, Refuse(r)
    PROVE  WInv'
<1> USE DEF Refuse, Decides, Goto, clientVars
<1>1. phase[r] \in {"filter", "answered"} /\ upstream[r] = None /\ response[r] = None
  BY DEF IInv, Slot, Session, WInv, Reply, Unwritten
<1>2. phase'[r] = "refuse" /\ OnlyReply(r)
  BY DEF IInv, Functions, OnlyReply, SameReply
<1>3. Message(r) # "allowed"
  BY DEF Message, AuthErrors
<1>4. Message(r)' # "allowed"
  BY <1>3 DEF Message, Token
<1>5. Reply(r)'
  BY <1>1, <1>2, <1>4 DEF Reply, Unwritten, Half, Written
<1> QED
  BY <1>2, <1>5, OneReply DEF WInv

LEMMA InjectFailsReplies ==
    ASSUME IInv, WInv, NEW r \in Requests, InjectFails(r)
    PROVE  WInv'
<1> USE DEF InjectFails, Goto, clientVars
<1>1. upstream[r] = None /\ response[r] = None /\ Token(r) # None
  BY DEF IInv, Slot, Session, Answered, WInv, Reply, Unwritten
<1>2. phase'[r] = "failed" /\ OnlyReply(r)
  BY DEF IInv, Functions, OnlyReply, SameReply
<1>3. Message(r)' = "allowed"
  BY <1>1 DEF Message, Token
<1>4. Reply(r)'
  BY <1>1, <1>2, <1>3 DEF Reply, Unwritten, Half, Written
<1> QED
  BY <1>2, <1>4, OneReply DEF WInv

LEMMA RefuseHeadReplies ==
    ASSUME IInv, WInv, NEW r \in Requests, RefuseHead(r)
    PROVE  WInv'
<1> USE DEF RefuseHead, Goto, clientVars
<1>1. upstream[r] = None /\ Message(r) # "allowed"
  BY DEF WInv, Reply, Unwritten
<1>2. phase'[r] = "trailer" /\ OnlyReply(r) /\ response'[r] = FirstWrite(r)
  BY DEF IInv, Functions, OnlyReply, SameReply, WInv, FirstWrite, Response
<1>3. FirstWrite(r)' = FirstWrite(r) /\ Message(r)' = Message(r)
  BY DEF FirstWrite, Response, Message, Token
<1>4. Reply(r)'
  BY <1>1, <1>2, <1>3 DEF Reply, Unwritten, Half, Written
<1> QED
  BY <1>2, <1>4, OneReply DEF WInv

LEMMA RefuseTrailerReplies ==
    ASSUME IInv, WInv, NEW r \in Requests, RefuseTrailer(r)
    PROVE  WInv'
<1> USE DEF RefuseTrailer, Goto, clientVars
<1>1. Message(r) # "allowed" /\ response[r] = FirstWrite(r)
  BY DEF WInv, Reply, Unwritten, Half
<1>2. request[r].protocol \in {"http", "grpc"}
  BY EvaluationAssumption DEF IInv, Slot, Session, Protocols
<1>3. phase'[r] = "log" /\ OnlyReply(r)
  BY DEF IInv, Functions, OnlyReply, SameReply, WInv
<1>4. response'[r] = Response(response[r].status,
                              IF request[r].protocol = "grpc" THEN 16 ELSE None, TRUE)
  BY DEF WInv, Response
<1>5. response'[r] = IF request[r].protocol = "http" THEN Response(403, None, TRUE)
                                                   ELSE Response(200, 16, TRUE)
  <2>1. response[r].status = IF request[r].protocol = "http" THEN 403 ELSE 200
    BY <1>1 DEF FirstWrite, Response
  <2> QED
    BY <1>2, <1>4, <2>1
<1>6. Message(r)' = Message(r)
  BY DEF Message, Token
<1>7. Whole(r)'
  BY <1>1, <1>2, <1>5, <1>6 DEF Whole, Response
<1>8. Reply(r)'
  BY <1>3, <1>7 DEF Reply, Unwritten, Half, Written
<1> QED
  BY <1>3, <1>8, OneReply DEF WInv

LEMMA TrailerFailsReplies ==
    ASSUME IInv, WInv, NEW r \in Requests, TrailerFails(r)
    PROVE  WInv'
<1> USE DEF TrailerFails, Goto, clientVars
<1>1. upstream[r] = None /\ response[r] = Response(200, None, FALSE)
  BY DEF WInv, Reply, Unwritten, Half, FirstWrite
<1>2. phase'[r] = "failed" /\ OnlyReply(r)
  BY DEF IInv, Functions, OnlyReply, SameReply
<1>3. Message(r)' = "Internal"
  BY DEF Message, Token
<1>4. Reply(r)'
  BY <1>1, <1>2, <1>3 DEF Reply, Unwritten, Half, Written, Response
<1> QED
  BY <1>2, <1>4, OneReply DEF WInv

LEMMA FailToProxyReplies ==
    ASSUME IInv, WInv, NEW r \in Requests, FailToProxy(r)
    PROVE  WInv'
<1> USE DEF FailToProxy, Goto, clientVars
<1>1. \/ response[r] = None /\ Message(r) = "allowed"
      \/ response[r] = Response(200, None, FALSE) /\ request[r].protocol = "grpc"
            /\ Message(r) = "Internal"
  BY DEF WInv, Reply, Half
<1>2. phase'[r] = "log" /\ OnlyReply(r) /\ DOMAIN response' = Requests
  BY DEF IInv, Functions, OnlyReply, SameReply, WInv
<1>3. response'[r] = IF response[r] # None THEN response[r]
                                           ELSE Response(ServerError, None, TRUE)
  BY DEF WInv, Response
<1>4. Message(r)' = Message(r)
  BY DEF Message, Token
<1>5. Response(200, None, FALSE) # None
  <2>1. Response(200, None, FALSE) \in Responses
    BY DEF Response, Responses, Statuses
  <2> QED
    BY <2>1, GatewayAssumption
<1>6. Whole(r)'
  <2>1. CASE response[r] = None /\ Message(r) = "allowed"
    BY <1>3, <1>4, <2>1 DEF Whole, Response
  <2>2. CASE response[r] = Response(200, None, FALSE) /\ request[r].protocol = "grpc"
                /\ Message(r) = "Internal"
    BY <1>3, <1>4, <1>5, <2>2 DEF Whole, Response
  <2> QED
    BY <1>1, <2>1, <2>2
<1>7. Reply(r)'
  BY <1>2, <1>6 DEF Reply, Unwritten, Half, Written
<1> QED
  BY <1>2, <1>7, OneReply DEF WInv

(* A session that is forwarded, has no client any more or is dropped owes   *)
(* no reply.                                                                *)
LEMMA MovesReply ==
    ASSUME IInv, WInv, NEW r \in Requests, NEW p \in {"log", "dropped"},
           phase' = [phase EXCEPT ![r] = p],
           p = "log" => upstream[r] # None \/ r \in gone', gone \subseteq gone', gone' \subseteq Requests,
           \A s \in Requests \ {r} : response'[s] = response[s],
           DOMAIN response' = Requests,
           UNCHANGED <<clientVars, request, upstream>>
    PROVE  WInv'
<1>1. phase'[r] = p /\ OnlyReply(r)
  BY DEF IInv, Functions, OnlyReply, SameReply, clientVars
<1>2. Reply(r)'
  BY <1>1 DEF Reply, Unwritten, Half, Written
<1> QED
  BY <1>1, <1>2, OneReply DEF WInv

(* Before a refusal nothing has been written.                               *)
LEMMA BeforeReply ==
    ASSUME IInv, WInv, NEW r \in Requests, OnlyReply(r), response' = response, gone' = gone,
           phase[r] \in {"free", "filter", "client", "answered"},
           phase'[r] \in {"filter", "client", "answered"}
    PROVE  WInv'
<1>1. response'[r] = None
  BY DEF WInv, Reply, Unwritten
<1>2. Reply(r)'
  BY <1>1 DEF Reply, Unwritten, Half, Written
<1> QED
  BY <1>2, OneReply DEF WInv

LEMMA LogReplies ==
    ASSUME IInv, WInv, NEW r \in Requests, Free(r), UNCHANGED clientVars
    PROVE  WInv'
<1> USE DEF Free, Goto, clientVars
<1>1. phase'[r] = "free" /\ response'[r] = None /\ OnlyReply(r)
  BY DEF IInv, Functions, OnlyReply, SameReply, WInv
<1>2. Reply(r)'
  BY <1>1 DEF Reply, Unwritten, Half, Written
<1> QED
  BY <1>1, <1>2, OneReply DEF WInv

LEMMA ForwardReplies ==
    ASSUME IInv, WInv, NEW r \in Requests, ForwardOpen(r) \/ Inject(r)
    PROVE  WInv'
<1>1. /\ phase' = [phase EXCEPT ![r] = "proxy"]
      /\ UNCHANGED <<clientVars, request, response, gone>>
  BY DEF ForwardOpen, Inject, Goto
<1>2. request[r] \in Incoming
  BY DEF IInv, Slot, Session, ForwardOpen, Inject
<1>3. upstream'[r] # None
  <2>1. CASE ForwardOpen(r)
    BY <1>2, <2>1, EvaluationAssumption DEF ForwardOpen, IInv, Functions
  <2>2. CASE Inject(r)
    <3>1. outcome[r].info \in AuthInfos
      BY <2>2 DEF IInv, Slot, Answered, Backs, Inject
    <3>2. upstream'[r] = Injected(request[r].headers, outcome[r].info)
      BY <2>2 DEF Inject, IInv, Functions
    <3> QED
      BY <1>2, <3>1, <3>2, EvaluationAssumption
  <2> QED
    BY <2>1, <2>2
<1>4. phase'[r] = "proxy" /\ OnlyReply(r)
  <2>1. \A s \in Requests \ {r} : upstream'[s] = upstream[s]
    BY DEF ForwardOpen, Inject, IInv, Functions
  <2> QED
    BY <1>1, <2>1 DEF IInv, Functions, OnlyReply, SameReply, clientVars
<1>5. Reply(r)'
  BY <1>3, <1>4 DEF Reply, Unwritten, Half, Written
<1> QED
  BY <1>1, <1>4, <1>5, OneReply DEF WInv

LEMMA StepReplies ==
    ASSUME IInv, WInv, NEW r \in Requests, Step(r)
    PROVE  WInv'
<1>1. CASE Authenticate(r)
  <2>1. phase'[r] = "client" /\ OnlyReply(r) /\ response' = response /\ gone' = gone
    BY <1>1 DEF Authenticate, Calls, Goto, Client!Begin, IInv, Functions, OnlyReply, SameReply
  <2> QED
    BY <1>1, <2>1, BeforeReply DEF Authenticate, Calls
<1>2. ASSUME NEW o \in Outcomes, Answer(r, o)
      PROVE  WInv'
  <2>1. phase'[r] = "answered" /\ OnlyReply(r) /\ response' = response /\ gone' = gone
    BY <1>2 DEF Answer, Returns, Goto, Client!Decide, IInv, Functions, OnlyReply, SameReply
  <2> QED
    BY <1>2, <2>1, BeforeReply DEF Answer, Returns
<1>3. CASE ForwardOpen(r) \/ Inject(r)
  BY <1>3, ForwardReplies
<1>4. CASE InjectFails(r)
  BY <1>4, InjectFailsReplies
<1>5. CASE Panic(r)
  BY <1>5, MovesReply DEF Panic, Goto, WInv
<1>6. CASE Refuse(r)
  BY <1>6, RefuseReplies
<1>7. CASE RefuseHead(r)
  BY <1>7, RefuseHeadReplies
<1>8. CASE RefuseTrailer(r)
  BY <1>8, RefuseTrailerReplies
<1>9. CASE TrailerFails(r)
  BY <1>9, TrailerFailsReplies
<1>10. CASE WriteFails(r)
  BY <1>10, MovesReply DEF WriteFails, Goto, WInv
<1>11. CASE FailToProxy(r)
  BY <1>11, FailToProxyReplies
<1>12. CASE Log(r) \/ Close(r)
  BY <1>12, LogReplies DEF Log, Close
<1>13. ASSUME NEW s \in UpstreamStatuses \union {BadGateway}, Proxy(r, s)
       PROVE  WInv'
  <2>1. upstream[r] # None
    BY <1>13 DEF Proxy, WInv, Reply, Unwritten
  <2>2. /\ DOMAIN response' = Requests
        /\ \A x \in Requests \ {r} : response'[x] = response[x]
    BY <1>13 DEF Proxy, WInv
  <2>3. /\ phase' = [phase EXCEPT ![r] = "log"]
        /\ gone \subseteq gone' /\ gone' \subseteq Requests
        /\ UNCHANGED <<clientVars, request, upstream>>
    BY <1>13 DEF Proxy, Goto, WInv
  <2> QED
    BY <2>1, <2>2, <2>3, MovesReply
<1> QED
  BY <1>1, <1>2, <1>3, <1>4, <1>5, <1>6, <1>7, <1>8, <1>9, <1>10, <1>11, <1>12, <1>13
  DEF Step, Serve

LEMMA NextReplies == IInv /\ WInv /\ [Next]_vars => WInv'
<1> SUFFICES ASSUME IInv, WInv, [Next]_vars PROVE WInv'
  OBVIOUS
<1>1. ASSUME NEW r \in Requests, NEW q \in Incoming, Accept(r, q) PROVE WInv'
  <2>1. phase'[r] = "filter" /\ OnlyReply(r) /\ response' = response /\ gone' = gone
    BY <1>1 DEF Accept, Goto, clientVars, IInv, Functions, OnlyReply, SameReply
  <2> QED
    BY <1>1, <2>1, BeforeReply DEF Accept
<1>2. ASSUME NEW r \in Requests, Step(r) PROVE WInv'
  BY <1>2, StepReplies
<1>3. ASSUME NEW w \in Worlds, Tick(w) PROVE WInv'
  <2>1. \A s \in Requests : SameReply(s)
    BY <1>3 DEF Tick, Client!Advance, sessionVars, SameReply
  <2>2. \A s \in Requests : Reply(s)'
    BY <2>1, ReplyKept DEF WInv
  <2> QED
    BY <1>3, <2>2 DEF Tick, sessionVars, WInv
<1>4. CASE UNCHANGED vars
  <2>1. \A s \in Requests : SameReply(s)
    BY <1>4 DEF vars, clientVars, sessionVars, SameReply
  <2>2. \A s \in Requests : Reply(s)'
    BY <2>1, ReplyKept DEF WInv
  <2> QED
    BY <1>4, <2>2 DEF vars, sessionVars, WInv
<1> QED
  BY <1>1, <1>2, <1>3, <1>4 DEF Next

(* However a session fails, and whenever its client hangs up: a client that *)
(* is refused and still there has been written the whole of what the        *)
(* protocol has for it, but for the two cases that the property names.      *)
THEOREM RefusalsAreWritten == Spec => []RefusalIsWritten
<1>1. Init => WInv
  BY DEF Init, WInv, Reply, Unwritten, Half, Written
<1> QED
  BY <1>1, NextReplies, Invariance, WInvSuffices, PTL DEF Spec

-----------------------------------------------------------------------------
(* The shape of the variables, but for their bounds.                        *)
Shape ==
    /\ phase \in [Requests -> Phases]
    /\ request \in [Requests -> Incoming \union {None}]
    /\ decision \in [Requests -> {Deciding[q] : q \in Incoming} \union {None}]
    /\ start \in [Requests -> 0..Now]
    /\ response \in [Requests -> Responses \union {None}]
    /\ gone \subseteq Requests
    /\ total \in [Protocols \X Statuses -> Nat]

\* The status that the log has for a session.
StatusOf(r) == IF response[r] = None THEN 0 ELSE response[r].status

LEMMA CountersOf ==
    ASSUME IInv, Shape, NEW r \in Requests, phase[r] # "free"
    PROVE  request[r].protocol \in Protocols /\ StatusOf(r) \in Statuses
<1>1. request[r] \in Incoming
  BY DEF IInv, Slot, Session
<1>2. response[r] \in Responses \union {None}
  BY DEF Shape
<1> QED
  BY <1>1, <1>2, EvaluationAssumption DEF StatusOf, Responses, Statuses

LEMMA ShapeAtFirst == Init => Shape
<1> SUFFICES ASSUME Init PROVE Shape
  OBVIOUS
<1>1. Now \in Nat
  BY InitIsGood, WorldsKept DEF IInv, WorldGrows, Now
<1>2. start \in [Requests -> 0..Now]
  BY <1>1 DEF Init
<1>3. total \in [Protocols \X Statuses -> Nat]
  BY DEF Init
<1> QED
  BY <1>2, <1>3 DEF Init, Shape, Phases

LEMMA StepGrows ==
    ASSUME NEW r \in Requests, Step(r)
    PROVE  world' = world
<1> USE DEF clientVars
<1>1. CASE Authenticate(r) \/ \E o \in Outcomes : Answer(r, o)
  BY <1>1 DEF Authenticate, Answer, Client!Begin, Client!Decide
<1>2. CASE ForwardOpen(r) \/ Inject(r) \/ InjectFails(r) \/ Panic(r) \/ Refuse(r)
  BY <1>2 DEF ForwardOpen, Inject, InjectFails, Panic, Refuse
<1>3. CASE \/ RefuseHead(r) \/ RefuseTrailer(r) \/ TrailerFails(r) \/ WriteFails(r)
           \/ FailToProxy(r) \/ Log(r) \/ Close(r)
           \/ \E s \in UpstreamStatuses \union {BadGateway} : Proxy(r, s)
  BY <1>3 DEF RefuseHead, RefuseTrailer, TrailerFails, WriteFails, FailToProxy, Log, Close, Proxy
<1> QED
  BY <1>1, <1>2, <1>3 DEF Step, Serve

LEMMA ClockKept ==
    ASSUME IInv, [Next]_vars
    PROVE  Now \in Nat /\ Now' \in Nat /\ Now <= Now' /\ 0..Now \subseteq 0..Now'
<1>1. WorldGrows
  BY StepGrows DEF Next, Accept, Tick, Client!Advance, clientVars, vars, WorldGrows
<1>2. Now \in Nat /\ Now' \in Nat /\ Now <= Now'
  BY <1>1, WorldsKept DEF IInv
<1> QED
  BY <1>2

LEMMA StepShape ==
    ASSUME IInv, WInv, Shape, NEW r \in Requests, Step(r),
           Now \in Nat, 0..Now \subseteq 0..Now'
    PROVE  Shape'
<1> USE DEF Goto, Shape, Phases, clientVars
<1>1. CASE Authenticate(r)
  BY <1>1 DEF Authenticate, Calls
<1>2. ASSUME NEW o \in Outcomes, Answer(r, o) PROVE Shape'
  BY <1>2 DEF Answer, Returns
<1>3. CASE ForwardOpen(r)
  BY <1>3 DEF ForwardOpen
<1>4. CASE Inject(r)
  BY <1>4 DEF Inject
<1>5. CASE InjectFails(r) \/ Panic(r) \/ Refuse(r) \/ TrailerFails(r)
  BY <1>5 DEF InjectFails, Panic, Refuse, TrailerFails
<1>6. CASE RefuseHead(r)
  BY <1>6 DEF RefuseHead, Responses, Statuses
<1>7. CASE RefuseTrailer(r)
  <2>1. response[r].status \in Statuses
    BY <1>7 DEF WInv, Reply, Half, FirstWrite, Response, RefuseTrailer, Statuses
  <2> QED
    BY <1>7, <2>1 DEF RefuseTrailer, Responses
<1>8. CASE WriteFails(r)
  BY <1>8 DEF WriteFails
<1>9. CASE FailToProxy(r)
  BY <1>9 DEF FailToProxy, Responses, Statuses
<1>10. ASSUME NEW s \in UpstreamStatuses \union {BadGateway}, Proxy(r, s) PROVE Shape'
  BY <1>10 DEF Proxy, Responses, Statuses
<1>11. CASE Log(r)
  <2>1. request[r].protocol \in Protocols /\ StatusOf(r) \in Statuses
    BY <1>11, CountersOf DEF Log
  <2>2. total' = [total EXCEPT ![<<request[r].protocol, StatusOf(r)>>] = @ + 1]
    BY <1>11 DEF Log, StatusOf
  <2>3. total' \in [Protocols \X Statuses -> Nat]
    BY <2>1, <2>2
  <2>4. start' \in [Requests -> 0..Now']
    BY <1>11 DEF Log, Free
  <2> QED
    BY <1>11, <2>3, <2>4 DEF Log, Free
<1>12. CASE Close(r)
  <2>1. start' \in [Requests -> 0..Now']
    BY <1>12 DEF Close, Free
  <2> QED
    BY <1>12, <2>1 DEF Close, Free
<1> QED
  BY <1>1, <1>2, <1>3, <1>4, <1>5, <1>6, <1>7, <1>8, <1>9, <1>10, <1>11, <1>12
  DEF Step, Serve

LEMMA NextShape == IInv /\ WInv /\ Shape /\ [Next]_vars => Shape'
<1> SUFFICES ASSUME IInv, WInv, Shape, [Next]_vars PROVE Shape'
  OBVIOUS
<1>1. Now \in Nat /\ Now' \in Nat /\ Now <= Now' /\ 0..Now \subseteq 0..Now'
  BY ClockKept
<1>2. ASSUME NEW r \in Requests, NEW q \in Incoming, Accept(r, q) PROVE Shape'
  BY <1>1, <1>2 DEF Accept, Goto, Shape, Phases, clientVars
<1>3. ASSUME NEW r \in Requests, Step(r) PROVE Shape'
  BY <1>1, <1>3, StepShape
<1>4. ASSUME NEW w \in Worlds, Tick(w) PROVE Shape'
  BY <1>1, <1>4 DEF Tick, sessionVars, Shape
<1>5. CASE UNCHANGED vars
  BY <1>1, <1>5 DEF vars, sessionVars, Shape
<1> QED
  BY <1>2, <1>3, <1>4, <1>5 DEF Next

-----------------------------------------------------------------------------
(* The log's counts: of each protocol's requests, one is in progress or     *)
(* counted for each that has arrived and was not dropped.                   *)
Counting ==
    /\ arrived \in [Protocols -> Int]
    /\ \A p \in Protocols :
        /\ IsFiniteSet(InProgress(p)) /\ IsFiniteSet(Counted(p))
        /\ arrived[p] = Cardinality(InProgress(p)) + Cardinality(Counted(p))
    /\ arrived["http"] + arrived["grpc"] <= MaxRequests

\* What a step leaves as it is for a protocol.
SameCount(p) ==
    /\ InProgress(p)' = InProgress(p) /\ Counted(p)' = Counted(p)
    /\ arrived'[p] = arrived[p]

LEMMA CountsKept ==
    ASSUME Counting, \A p \in Protocols : SameCount(p), arrived' \in [Protocols -> Int]
    PROVE  Counting'
<1>1. arrived'["http"] = arrived["http"] /\ arrived'["grpc"] = arrived["grpc"]
  BY DEF SameCount, Protocols
<1>2. \A p \in Protocols : /\ IsFiniteSet(InProgress(p)') /\ IsFiniteSet(Counted(p)')
                           /\ arrived'[p] = Cardinality(InProgress(p)') + Cardinality(Counted(p)')
  BY DEF Counting, SameCount
<1> QED
  BY <1>1, <1>2 DEF Counting

PairsOf(t, p) == UNION {{s} \X (1..t[<<p, s>>]) : s \in Statuses}

OnePair(t, p, e) == \E s \in Statuses : \E k \in 1..t[<<p, s>>] : e = <<s, k>>

LEMMA PairsCounted ==
    ASSUME NEW t, NEW p, NEW e
    PROVE  e \in PairsOf(t, p) <=> OnePair(t, p, e)
<1>1. \A s \in Statuses : e \in {s} \X (1..t[<<p, s>>])
                              <=> \E k \in 1..t[<<p, s>>] : e = <<s, k>>
  OBVIOUS
<1>2. e \in PairsOf(t, p) <=> \E s \in Statuses : e \in {s} \X (1..t[<<p, s>>])
  BY Zenon DEF PairsOf
<1> QED
  BY <1>1, <1>2 DEF OnePair

LEMMA CountedAre ==
    ASSUME NEW p
    PROVE  /\ \A e : e \in Counted(p) <=> OnePair(total, p, e)
           /\ \A e : e \in Counted(p)' <=> OnePair(total', p, e)
<1>1. Counted(p) = PairsOf(total, p) /\ Counted(p)' = PairsOf(total', p)
  BY DEF Counted, PairsOf
<1> QED
  BY <1>1, PairsCounted, Zenon

(* A session that goes on stays in progress.                                *)
LEMMA GoesOn ==
    ASSUME IInv, Counting, NEW r \in Requests, phase[r] # "free",
           NEW p \in Phases \ {"free"}, Goto(r, p), UNCHANGED <<request, total, arrived>>
    PROVE  Counting'
<1>1. \A s \in Requests : (phase'[s] # "free") <=> (phase[s] # "free")
  BY DEF Goto, IInv, Functions
<1>2. \A q : InProgress(q)' = InProgress(q)
  BY <1>1 DEF InProgress
<1>3. \A q \in Protocols : SameCount(q)
  BY <1>2 DEF SameCount, Counted
<1> QED
  BY <1>3, CountsKept DEF Counting

LEMMA AcceptCounts ==
    ASSUME IInv, Counting, NEW r \in Requests, NEW q \in Incoming, Accept(r, q)
    PROVE  Counting'
<1> DEFINE p == q.protocol
<1> USE DEF Accept, Goto
<1>1. p \in Protocols /\ \A x \in Protocols : arrived[x] \in Nat
  <2>1. \A x \in Protocols : Cardinality(InProgress(x)) \in Nat /\ Cardinality(Counted(x)) \in Nat
    BY FS_CardinalityType DEF Counting
  <2> QED
    BY <2>1, EvaluationAssumption DEF Counting
<1>2. /\ phase'[r] # "free" /\ request'[r].protocol = p
      /\ \A s \in Requests \ {r} : phase'[s] = phase[s] /\ request'[s] = request[s]
  BY DEF IInv, Functions
<1>3. InProgress(p)' = InProgress(p) \union {r} /\ r \notin InProgress(p)
  BY <1>2 DEF InProgress
<1>4. \A x \in Protocols \ {p} : InProgress(x)' = InProgress(x)
  BY <1>2 DEF InProgress
<1>5. \A x : Counted(x)' = Counted(x)
  BY DEF Counted
<1>6. /\ arrived' \in [Protocols -> Int] /\ arrived'[p] = arrived[p] + 1
      /\ \A x \in Protocols \ {p} : arrived'[x] = arrived[x]
  BY <1>1 DEF Counting
<1> HIDE DEF p
<1>7. /\ IsFiniteSet(InProgress(p)')
      /\ Cardinality(InProgress(p)') = Cardinality(InProgress(p)) + 1
  BY <1>1, <1>3, FS_AddElement DEF Counting
<1>8. Cardinality(InProgress(p)) \in Nat /\ Cardinality(Counted(p)) \in Nat
  BY <1>1, FS_CardinalityType DEF Counting
<1>9. \A x \in Protocols : /\ IsFiniteSet(InProgress(x)') /\ IsFiniteSet(Counted(x)')
                           /\ arrived'[x] = Cardinality(InProgress(x)') + Cardinality(Counted(x)')
  <2>1. arrived'[p] = Cardinality(InProgress(p)') + Cardinality(Counted(p)')
    BY <1>1, <1>5, <1>6, <1>7, <1>8 DEF Counting
  <2> QED
    BY <1>4, <1>5, <1>6, <1>7, <2>1 DEF Counting
<1>10. arrived'["http"] + arrived'["grpc"] <= MaxRequests
  BY <1>1, <1>6, GatewayAssumption DEF Protocols
<1> QED
  BY <1>6, <1>9, <1>10 DEF Counting

(* A session that ends is no longer in progress.                            *)
LEMMA EndsProgress ==
    ASSUME IInv, NEW r \in Requests, Free(r), phase[r] # "free",
           NEW p, p = request[r].protocol
    PROVE  /\ r \in InProgress(p)
           /\ InProgress(p)' = InProgress(p) \ {r}
           /\ \A x \in Protocols \ {p} : InProgress(x)' = InProgress(x)
<1>1. /\ phase'[r] = "free"
      /\ \A s \in Requests \ {r} : phase'[s] = phase[s] /\ request'[s] = request[s]
  BY DEF Free, Goto, IInv, Functions
<1>2. r \in InProgress(p) /\ \A x : x # p => r \notin InProgress(x)
  BY DEF InProgress
<1>3. \A x : InProgress(x)' = InProgress(x) \ {r}
  BY <1>1 DEF InProgress
<1> QED
  BY <1>2, <1>3

LEMMA LogCounts ==
    ASSUME IInv, Shape, Counting, NEW r \in Requests, Log(r)
    PROVE  Counting'
<1>1. PICK p \in Protocols, s \in Statuses : p = request[r].protocol /\ s = StatusOf(r)
  BY CountersOf DEF Log
<1>n. PICK n \in Nat : n = total[<<p, s>>]
  BY DEF Shape
<1>2. /\ r \in InProgress(p)
      /\ InProgress(p)' = InProgress(p) \ {r}
      /\ \A x \in Protocols \ {p} : InProgress(x)' = InProgress(x)
  BY <1>1, EndsProgress DEF Log
<1>3. arrived' = arrived /\ total' = [total EXCEPT ![<<p, s>>] = @ + 1]
  BY <1>1 DEF Log, StatusOf
<1>4. /\ total'[<<p, s>>] = n + 1
      /\ \A x \in Protocols, y \in Statuses : <<x, y>> # <<p, s>> => total'[<<x, y>>] = total[<<x, y>>]
  BY <1>3, <1>n DEF Shape
<1>5. \A x \in Protocols \ {p} : Counted(x)' = Counted(x)
  BY <1>4 DEF Counted
<1>6. Counted(p)' = Counted(p) \union {<<s, n + 1>>} /\ <<s, n + 1>> \notin Counted(p)
  <2>2. \A y \in Statuses \ {s} : total'[<<p, y>>] = total[<<p, y>>]
    BY <1>1, <1>4
  <2>3. 1..(n + 1) = (1..n) \union {n + 1} /\ n + 1 \notin 1..n
    BY <1>4
  <2>4. ASSUME NEW e
        PROVE  e \in Counted(p)' <=> e \in Counted(p) \/ e = <<s, n + 1>>
    <3>1. ASSUME OnePair(total', p, e)
          PROVE  OnePair(total, p, e) \/ e = <<s, n + 1>>
      <4>1. PICK y \in Statuses : \E k \in 1..total'[<<p, y>>] : e = <<y, k>>
        BY <3>1 DEF OnePair
      <4>2. PICK k \in 1..total'[<<p, y>>] : e = <<y, k>>
        BY <4>1
      <4>3. CASE y = s
        <5>1. k \in 1..(n + 1)
          BY <1>4, <4>2, <4>3
        <5>2. k = n + 1 \/ k \in 1..total[<<p, y>>]
          BY <1>n, <2>3, <4>3, <5>1
        <5> QED
          BY <4>2, <4>3, <5>2 DEF OnePair
      <4>4. CASE y # s
        <5>1. k \in 1..total[<<p, y>>]
          BY <2>2, <4>2, <4>4
        <5> QED
          BY <4>2, <5>1 DEF OnePair
      <4> QED
        BY <4>3, <4>4
    <3>2. ASSUME OnePair(total, p, e)
          PROVE  OnePair(total', p, e)
      <4>1. PICK y \in Statuses : \E k \in 1..total[<<p, y>>] : e = <<y, k>>
        BY <3>2 DEF OnePair
      <4>2. PICK k \in 1..total[<<p, y>>] : e = <<y, k>>
        BY <4>1
      <4>3. k \in 1..total'[<<p, y>>]
        BY <1>4, <1>n, <2>2, <2>3, <4>2
      <4> QED
        BY <4>2, <4>3 DEF OnePair
    <3>3. OnePair(total', p, <<s, n + 1>>)
      <4>1. n + 1 \in 1..total'[<<p, s>>]
        BY <1>4
      <4> QED
        BY <4>1 DEF OnePair
    <3> QED
      BY <3>1, <3>2, <3>3, CountedAre
  <2>5. <<s, n + 1>> \notin Counted(p)
    <3>1. ~ OnePair(total, p, <<s, n + 1>>)
      <4>1. \A y, k : <<s, n + 1>> = <<y, k>> => y = s /\ k = n + 1
        OBVIOUS
      <4>2. n + 1 \notin 1..total[<<p, s>>]
        BY <1>n
      <4> QED
        BY <4>1, <4>2, Zenon DEF OnePair
    <3> QED
      BY <3>1, CountedAre
  <2> QED
    BY <2>4, <2>5
<1>7. /\ IsFiniteSet(InProgress(p)') /\ IsFiniteSet(Counted(p)')
      /\ Cardinality(InProgress(p)') = Cardinality(InProgress(p)) - 1
      /\ Cardinality(Counted(p)') = Cardinality(Counted(p)) + 1
  <2>1. IsFiniteSet(InProgress(p)) /\ IsFiniteSet(Counted(p))
    BY <1>1 DEF Counting
  <2>2. /\ IsFiniteSet(InProgress(p)')
        /\ Cardinality(InProgress(p)') = Cardinality(InProgress(p)) - 1
    BY <1>2, <2>1, FS_RemoveElement
  <2>3. /\ IsFiniteSet(Counted(p)')
        /\ Cardinality(Counted(p)') = Cardinality(Counted(p)) + 1
    BY <1>6, <2>1, FS_AddElement
  <2> QED
    BY <2>2, <2>3
<1>8. Cardinality(InProgress(p)) \in Nat /\ Cardinality(Counted(p)) \in Nat
  BY <1>1, FS_CardinalityType DEF Counting
<1>9. arrived'[p] = Cardinality(InProgress(p)') + Cardinality(Counted(p)')
  BY <1>1, <1>3, <1>7, <1>8 DEF Counting
<1>10. \A x \in Protocols : /\ IsFiniteSet(InProgress(x)') /\ IsFiniteSet(Counted(x)')
                            /\ arrived'[x] = Cardinality(InProgress(x)') + Cardinality(Counted(x)')
  BY <1>2, <1>3, <1>5, <1>7, <1>9 DEF Counting
<1> QED
  BY <1>3, <1>10 DEF Counting

LEMMA CloseCounts ==
    ASSUME IInv, Shape, Counting, NEW r \in Requests, Close(r)
    PROVE  Counting'
<1>1. PICK p \in Protocols : p = request[r].protocol
  BY CountersOf DEF Close
<1>2. /\ r \in InProgress(p)
      /\ InProgress(p)' = InProgress(p) \ {r}
      /\ \A x \in Protocols \ {p} : InProgress(x)' = InProgress(x)
  BY <1>1, EndsProgress DEF Close
<1>3. /\ arrived' \in [Protocols -> Int] /\ arrived'[p] = arrived[p] - 1
      /\ \A x \in Protocols \ {p} : arrived'[x] = arrived[x]
  BY <1>1 DEF Close, Counting
<1>4. \A x : Counted(x)' = Counted(x)
  BY DEF Close, Counted
<1>5. /\ IsFiniteSet(InProgress(p)')
      /\ Cardinality(InProgress(p)') = Cardinality(InProgress(p)) - 1
  BY <1>1, <1>2, FS_RemoveElement DEF Counting
<1>6. \A x \in Protocols : Cardinality(InProgress(x)) \in Nat /\ Cardinality(Counted(x)) \in Nat
  BY FS_CardinalityType DEF Counting
<1>7. \A x \in Protocols : /\ IsFiniteSet(InProgress(x)') /\ IsFiniteSet(Counted(x)')
                           /\ arrived'[x] = Cardinality(InProgress(x)') + Cardinality(Counted(x)')
  <2>1. arrived[p] = Cardinality(InProgress(p)) + Cardinality(Counted(p))
    BY <1>1 DEF Counting
  <2>2. Cardinality(InProgress(p)) \in Nat /\ Cardinality(Counted(p)) \in Nat
    BY <1>1, <1>6
  <2>3. arrived'[p] = Cardinality(InProgress(p)') + Cardinality(Counted(p)')
    BY <1>3, <1>4, <1>5, <2>1, <2>2
  <2> QED
    BY <1>2, <1>3, <1>4, <1>5, <2>3 DEF Counting
<1>8. arrived'["http"] + arrived'["grpc"] <= MaxRequests
  <2>1. arrived["http"] \in Nat /\ arrived["grpc"] \in Nat
    BY <1>6 DEF Counting, Protocols
  <2> QED
    BY <1>1, <1>3, <2>1, GatewayAssumption DEF Counting, Protocols
<1> QED
  BY <1>3, <1>7, <1>8 DEF Counting

LEMMA NextCounts == IInv /\ Shape /\ Counting /\ [Next]_vars => Counting'
<1> SUFFICES ASSUME IInv, Shape, Counting, [Next]_vars PROVE Counting'
  OBVIOUS
<1>1. ASSUME NEW r \in Requests, NEW q \in Incoming, Accept(r, q) PROVE Counting'
  BY <1>1, AcceptCounts
<1>2. ASSUME NEW r \in Requests, Step(r) PROVE Counting'
  <2>1. CASE Log(r)
    BY <2>1, LogCounts
  <2>2. CASE Close(r)
    BY <2>2, CloseCounts
  <2>3. CASE \/ Authenticate(r) \/ ForwardOpen(r) \/ Inject(r) \/ InjectFails(r)
             \/ Panic(r) \/ Refuse(r) \/ RefuseHead(r) \/ RefuseTrailer(r)
             \/ TrailerFails(r) \/ WriteFails(r) \/ FailToProxy(r)
             \/ \E o \in Outcomes : Answer(r, o)
             \/ \E s \in UpstreamStatuses \union {BadGateway} : Proxy(r, s)
    <3>1. PICK p \in Phases \ {"free"} :
              phase[r] # "free" /\ Goto(r, p) /\ UNCHANGED <<request, total, arrived>>
      BY <2>3 DEF Authenticate, Calls, Answer, Returns, ForwardOpen, Inject, InjectFails,
                  Panic, Refuse, Decides, RefuseHead, RefuseTrailer, TrailerFails,
                  WriteFails, FailToProxy, Proxy, Phases
    <3> QED
      BY <3>1, GoesOn
  <2> QED
    BY <1>2, <2>1, <2>2, <2>3 DEF Step, Serve
<1>3. CASE \/ \E w \in Worlds : Tick(w)
           \/ UNCHANGED vars
  <2>1. UNCHANGED <<phase, request, total, arrived>>
    BY <1>3 DEF Tick, vars, sessionVars
  <2>2. \A p \in Protocols : SameCount(p)
    BY <2>1 DEF SameCount, InProgress, Counted
  <2> QED
    BY <2>1, <2>2, CountsKept DEF Counting
<1> QED
  BY <1>1, <1>2, <1>3 DEF Next

LEMMA CountsAtFirst == Init => Counting
<1> SUFFICES ASSUME Init PROVE Counting
  OBVIOUS
<1>1. \A p : InProgress(p) = {}
  BY DEF Init, InProgress
<1>2. \A p \in Protocols : Counted(p) = {}
  <2> TAKE p \in Protocols
  <2>1. \A s \in Statuses : total[<<p, s>>] = 0
    BY DEF Init
  <2>2. ASSUME NEW e PROVE e \notin Counted(p)
    <3>1. ~ OnePair(total, p, e)
      <4>1. \A s \in Statuses : 1..total[<<p, s>>] = {}
        BY <2>1
      <4> QED
        BY <4>1, Zenon DEF OnePair
    <3> QED
      BY <3>1, CountedAre
  <2> QED
    BY <2>2
<1>3. \A p \in Protocols : arrived[p] = 0
  BY DEF Init
<1>4. arrived["http"] + arrived["grpc"] <= MaxRequests
  BY <1>3, GatewayAssumption DEF Protocols
<1>5. \A p \in Protocols : /\ IsFiniteSet(InProgress(p)) /\ IsFiniteSet(Counted(p))
                           /\ arrived[p] = Cardinality(InProgress(p)) + Cardinality(Counted(p))
  <2>1. IsFiniteSet({}) /\ Cardinality({}) = 0
    BY FS_EmptySet
  <2> QED
    BY <1>1, <1>2, <1>3, <2>1
<1> QED
  BY <1>4, <1>5 DEF Init, Counting

Ledger == WInv /\ Shape /\ Counting

LEMMA LedgerHolds == Spec => [](IInv /\ Ledger)
<1>1. Init => Ledger
  <2>1. Init => WInv
    BY DEF Init, WInv, Reply, Unwritten, Half, Written
  <2> QED
    BY <2>1, ShapeAtFirst, CountsAtFirst DEF Ledger
<1>2. IInv /\ Ledger /\ [Next]_vars => Ledger'
  BY NextReplies, NextShape, NextCounts DEF Ledger
<1> QED
  BY <1>1, <1>2, Invariance, PTL DEF Spec

(* However a session ends, a request that is not dropped is counted, once,  *)
(* under its protocol and the status its client has been sent               *)
(* (http/proxy.rs:97-106, grpc/proxy.rs:98-107).                            *)
THEOREM EveryRequestCounted == Spec => []CountedOnce
<1>1. Counting => CountedOnce
  BY DEF Counting, CountedOnce
<1> QED
  BY <1>1, LedgerHolds, PTL DEF Ledger

(* No counter exceeds what has arrived.                                     *)
LEMMA CountersBounded ==
    ASSUME Shape, Counting
    PROVE  /\ arrived \in [Protocols -> 0..MaxRequests]
           /\ total \in [Protocols \X Statuses -> 0..MaxRequests]
<1>1. \A p \in Protocols : Cardinality(InProgress(p)) \in Nat /\ Cardinality(Counted(p)) \in Nat
  BY FS_CardinalityType DEF Counting
<1>2. \A p \in Protocols : arrived[p] \in 0..MaxRequests /\ Cardinality(Counted(p)) <= arrived[p]
  <2>1. \A p \in Protocols : arrived[p] \in Nat /\ Cardinality(Counted(p)) <= arrived[p]
    BY <1>1 DEF Counting
  <2> QED
    BY <2>1, GatewayAssumption DEF Counting, Protocols
<1>3. ASSUME NEW p \in Protocols, NEW s \in Statuses
      PROVE  total[<<p, s>>] \in 0..MaxRequests
  <2>1. PICK n \in Nat : n = total[<<p, s>>]
    BY DEF Shape
  <2>2. {s} \X (1..n) \subseteq Counted(p)
    <3>1. ASSUME NEW e \in {s} \X (1..n) PROVE e \in Counted(p)
      <4>1. \E k \in 1..n : e = <<s, k>>
        OBVIOUS
      <4>2. OnePair(total, p, e)
        BY <2>1, <4>1 DEF OnePair
      <4> QED
        BY <4>2, CountedAre
    <3> QED
      BY <3>1
  <2>3. IsFiniteSet({s}) /\ Cardinality({s}) = 1
    BY FS_Singleton
  <2>4. IsFiniteSet(1..n) /\ Cardinality(1..n) = n
    <3>1. /\ 1 \in Int /\ n \in Int
          /\ (IF 1 > n THEN 0 ELSE n - 1 + 1) = n
      BY <2>1
    <3> QED
      BY <3>1, FS_Interval
  <2>5. Cardinality({s} \X (1..n)) = 1 * n
    BY <2>3, <2>4, FS_Product
  <2>6. Cardinality({s} \X (1..n)) <= Cardinality(Counted(p))
    BY <2>2, FS_Subset DEF Counting
  <2> QED
    BY <1>1, <1>2, <2>1, <2>5, <2>6, GatewayAssumption
<1>4. DOMAIN total = Protocols \X Statuses /\ total = [x \in Protocols \X Statuses |-> total[x]]
  BY DEF Shape
<1>5. \A x \in Protocols \X Statuses : total[x] \in 0..MaxRequests
  BY <1>3
<1>6. arrived = [p \in Protocols |-> arrived[p]]
  BY DEF Counting
<1> QED
  BY <1>2, <1>4, <1>5, <1>6

LEMMA ForwardedHeaders ==
    ASSUME IInv, NEW r \in Requests, upstream[r] # None
    PROVE  DOMAIN upstream[r] = DOMAIN request[r].headers
<1> QED
  BY DEF IInv, Slot, Forwarded, Injected

(* Every variable stays within its type: a session has its request's        *)
(* decision while it lasts, what is forwarded has the names of the client's *)
(* header, and no counter exceeds the requests that have arrived.           *)
THEOREM TypeCorrect == Spec => []TypeOK
<1>1. IInv /\ Ledger => TypeOK
  <2> SUFFICES ASSUME IInv, Ledger PROVE TypeOK
    OBVIOUS
  <2>1. \A r \in Requests : phase[r] # "free" =>
            request[r] \in Incoming /\ decision[r] = Deciding[request[r]]
    BY DEF IInv, Slot, Session
  <2>2. /\ arrived \in [Protocols -> 0..MaxRequests]
        /\ total \in [Protocols \X Statuses -> 0..MaxRequests]
    BY CountersBounded DEF Ledger
  <2> QED
    BY <2>1, <2>2, ForwardedHeaders DEF TypeOK, Ledger, Shape
<1> QED
  BY <1>1, LedgerHolds, PTL
=============================================================================
