---------------------------- MODULE Gateway_proofs ----------------------------
(***************************************************************************)
(* What reaches an upstream is authorized, for every configuration, every   *)
(* set of requests and whatever Kubernetes answers when.                    *)
(***************************************************************************)
EXTENDS Gateway, ConfigFile_proofs

LEMMA FileIsSequence ==
    ASSUME NEW p \in Protocols
    PROVE  /\ Len(Files[p]) \in Nat /\ DOMAIN Files[p] = 1..Len(Files[p])
           /\ \A i \in 1..Len(Files[p]) : Files[p][i] # None
<1>1. Files[p] \in Seq(Range(Files[p])) /\ None \notin Range(Files[p])
  BY EvaluationAssumption
<1>2. Len(Files[p]) \in Nat /\ DOMAIN Files[p] = 1..Len(Files[p])
  BY <1>1, LenProperties
<1> QED
  BY <1>1, <1>2 DEF Range

\* What evaluate_request finds in one of its lists.
Found(q, open) ==
    FirstMatch(ReadUpTo(q.protocol, Files[q.protocol], open)[Len(Files[q.protocol])], q)

(* The rule that evaluate_request decides by is the file's.                 *)
LEMMA FirstMatchDecides ==
    ASSUME NEW q, q.protocol \in Protocols, NEW open \in BOOLEAN,
           Found(q, open).check.verdict = "match"
    PROVE  /\ DecidingInFile(q, open) # None
           /\ ~open => DecidingInFile(q, open).access # NoAuth
           /\ Found(q, open).rule = ReadRule(q.protocol, DecidingInFile(q, open))
           /\ Found(q, open).check =
                  CheckRule(RequestMatch(q.protocol, DecidingInFile(q, open).matches), q)
<1> DEFINE p == q.protocol
           raw == DecidingInFile(q, open)
           first == Found(q, open)
           file == Files[p]
           I == Matching(p, file, open, q, Len(file))
           J == {i \in DOMAIN file :
                    /\ (file[i].access = NoAuth) = open
                    /\ CheckRule(RequestMatch(p, file[i].matches), q).verdict = "match"}
           least == ReadRule(p, file[Min(I)])
<1>1. /\ Len(file) \in Nat /\ DOMAIN file = 1..Len(file)
      /\ \A i \in 1..Len(file) : file[i] # None
  BY FileIsSequence
<1>2. first = IF I = {} THEN [rule |-> None, check |-> NoMatch]
              ELSE [rule |-> least, check |-> CheckRule(least.matches, q)]
  <2>1. Len(file) \in 0..Len(file)
    BY <1>1
  <2> QED
    BY <1>1, <2>1, FirstMatchInFile, Zenon DEF Found
<1>3. \A x : ReadRule(p, x).matches = RequestMatch(p, x.matches)
  BY DEF ReadRule, SarRule, NoAuthRule
<1> HIDE DEF least, p, file, raw, first
<1>found. first.check.verdict = "match"
  BY DEF first
<1>4. I # {}
  BY <1>2, <1>found DEF NoMatch
<1>5. Min(I) \in I /\ \A m \in I : Min(I) <= m
  <2>1. I \subseteq Nat
    BY <1>1 DEF Matching
  <2> QED
    BY <2>1, <1>4, MinIsLeast, Zenon
<1>6. first.rule = least /\ first.check = CheckRule(least.matches, q)
  BY <1>2, <1>4
<1>7. Min(I) \in 1..Len(file) /\ (file[Min(I)].access = NoAuth) = open
  BY <1>5, Zenon DEF Matching
<1>8. CheckRule(RequestMatch(p, file[Min(I)].matches), q).verdict = "match"
  BY <1>3, <1>6, <1>found DEF least
<1>9. J \subseteq I /\ Min(I) \in J /\ J \subseteq Nat
  <2>1. \A i \in J : i \in I
    <3> TAKE i \in J
    <3>1. i \in 1..Len(file) /\ (file[i].access = NoAuth) = open
      BY <1>1, Zenon
    <3>2. CheckRule(ReadRule(p, file[i]).matches, q).verdict = "match"
      BY <1>3
    <3>3. Tried(ReadRule(p, file[i]), q)
      BY <3>2 DEF Tried
    <3> QED
      BY <3>1, <3>3, Zenon DEF Matching
  <2>2. Min(I) \in J
    BY <1>1, <1>7, <1>8, Zenon
  <2> QED
    BY <1>1, <2>1, <2>2
<1>10. Min(J) = Min(I) /\ J # {}
  <2> HIDE DEF I, J
  <2> QED
    BY <1>5, <1>9, MinIs
<1>11. raw = file[Min(I)]
  BY <1>10, Zenon DEF DecidingInFile, p, file, raw
<1>12. ~open => raw.access # NoAuth
  BY <1>7, <1>11, Zenon
<1> QED
  BY <1>1, <1>3, <1>6, <1>7, <1>11, <1>12, Zenon DEF least, p, raw, first

LEMMA DecidesByFile ==
    ASSUME NEW q \in Incoming, NEW open \in BOOLEAN, open <=> Bearer(q) = None,
           Deciding[q].verdict = "match"
    PROVE  LET raw == DecidingInFile(q, open) IN
           /\ raw # None
           /\ ~open => Deciding[q].attrs =
                  CompileResourceAttributes(SarAttributes(raw.access.attributes),
                        CheckRule(RequestMatch(q.protocol, raw.matches), q).vars)
<1> DEFINE raw == DecidingInFile(q, open)
           first == Found(q, open)
<1>1. q.protocol \in Protocols
  BY EvaluationAssumption
<1>2. FirstMatch((IF Bearer(q) = None THEN NoAuthLists ELSE SarLists)[q.protocol], q) = first
  <2>1. CASE open = TRUE
    BY <2>1, <1>1 DEF NoAuthLists, NoAuthRules, Found
  <2>2. CASE open = FALSE
    BY <2>2, <1>1 DEF SarLists, SarRules, Found
  <2> QED
    BY <2>1, <2>2
<1>3. Deciding[q] = [verdict |-> first.check.verdict,
                     attrs   |-> IF Bearer(q) # None /\ first.check.verdict = "match"
                        THEN CompileResourceAttributes(first.rule.sar, first.check.vars)
                        ELSE None]
  <2> HIDE DEF first
  <2> QED
    BY <1>2 DEF Deciding
<1> HIDE DEF first, raw
<1>4. first.check.verdict = "match"
  BY <1>3
<1>5. /\ raw # None
      /\ ~open => raw.access # NoAuth
      /\ first.rule = ReadRule(q.protocol, raw)
      /\ first.check = CheckRule(RequestMatch(q.protocol, raw.matches), q)
  BY <1>1, <1>4, FirstMatchDecides, Zenon DEF raw, first
<1>6. ASSUME ~open
      PROVE  Deciding[q].attrs =
                  CompileResourceAttributes(SarAttributes(raw.access.attributes),
                        CheckRule(RequestMatch(q.protocol, raw.matches), q).vars)
  <2>1. first.rule.sar = SarAttributes(raw.access.attributes)
    BY <1>5, <1>6 DEF ReadRule, SarRule
  <2>2. Deciding[q].attrs = CompileResourceAttributes(first.rule.sar, first.check.vars)
    BY <1>3, <1>4, <1>6
  <2> QED
    BY <1>5, <2>1, <2>2, Zenon
<1> QED
  BY <1>5, <1>6, Zenon DEF raw

(* Only a rule that matches has attributes.                                 *)
LEMMA AttrsAreOfAMatch ==
    ASSUME NEW q \in Incoming, Deciding[q].attrs # None
    PROVE  Deciding[q].verdict = "match" /\ Bearer(q) # None
<1> DEFINE first == FirstMatch((IF Bearer(q) = None THEN NoAuthLists ELSE SarLists)[q.protocol], q)
<1>1. Deciding[q] = [verdict |-> first.check.verdict,
                     attrs   |-> IF Bearer(q) # None /\ first.check.verdict = "match"
                        THEN CompileResourceAttributes(first.rule.sar, first.check.vars)
                        ELSE None]
  BY Zenon DEF Deciding
<1> HIDE DEF first
<1> QED
  BY <1>1

(* One value under each of the identity's headers, and the client's others. *)
LEMMA InjectedIs ==
    ASSUME NEW headers, {UserHeader, GroupsHeader} \subseteq DOMAIN headers, NEW i,
           NEW new, new = Injected(headers, i)
    PROVE  /\ \A h \in DOMAIN headers \ {UserHeader, GroupsHeader} : new[h] = headers[h]
           /\ GetHeader([headers |-> new], UserHeader) = i.username
           /\ GetHeader([headers |-> new], GroupsHeader) = GroupsValue(i)
           /\ Len(new[UserHeader]) = 1 /\ Len(new[GroupsHeader]) = 1
<1>1. /\ \A h \in DOMAIN headers \ {UserHeader, GroupsHeader} : new[h] = headers[h]
      /\ new[UserHeader] = <<[text |-> TRUE, value |-> i.username]>>
      /\ new[GroupsHeader] = <<[text |-> TRUE, value |-> GroupsValue(i)]>>
  BY EvaluationAssumption DEF Injected
<1>2. \A v : /\ <<[text |-> TRUE, value |-> v]>> # <<>>
             /\ Len(<<[text |-> TRUE, value |-> v]>>) = 1
             /\ Head(<<[text |-> TRUE, value |-> v]>>) = [text |-> TRUE, value |-> v]
  OBVIOUS
<1> QED
  BY <1>1, <1>2 DEF GetHeader

-----------------------------------------------------------------------------
(* The invariant.                                                           *)

Functions == /\ DOMAIN phase = Requests /\ DOMAIN request = Requests
             /\ DOMAIN decision = Requests /\ DOMAIN start = Requests
             /\ DOMAIN upstream = Requests /\ DOMAIN ask = Requests
             /\ DOMAIN outcome = Requests

\* A session has its request's decision from the time it began.
Session(r) ==
    /\ phase[r] \in {"free", "filter", "client", "answered"} => upstream[r] = None
    /\ phase[r] # "free" => /\ request[r] \in Incoming
                            /\ decision[r] = Deciding[request[r]]
                            /\ start[r] \in Nat /\ start[r] <= Now

\* What a session asks of the client is what its request and the rules say.
Asking(r) ==
    phase[r] = "client" =>
        /\ Token(r) # None /\ ask[r].token = Token(r)
        /\ ask[r].attrs = decision[r].attrs
        /\ ask[r].arrived \in Nat /\ start[r] <= ask[r].arrived

\* The worlds that are recent for a request of time s.
Since(w, s) == {n \in 1..Len(w) : s <= n + MaxReply \/ s < n + MaxReply + TTL}

\* Kubernetes stands behind an identity with a token and with attributes.
Backs(w, s, i, t, a) ==
    /\ i \in AuthInfos
    /\ \E n \in Since(w, s) : Vouched(w[n], t, i)
    /\ \E n \in Since(w, s) : <<i, a>> \in w[n].allowed

\* Kubernetes vouches for somebody with a token.
Knows(w, s, t) == \E i \in AuthInfos, n \in Since(w, s) : Vouched(w[n], t, i)

Answered(r) ==
    phase[r] = "answered" =>
        /\ Token(r) # None
        /\ outcome[r].verdict \notin {"Unauthenticated", "Internal"} =>
               Knows(world, start[r], Token(r))
        /\ outcome[r].verdict = "allowed" =>
               Backs(world, start[r], outcome[r].info, Token(r), decision[r].attrs)

Forwarded(r) ==
    upstream[r] # None =>
        LET q == request[r] IN
        \/ /\ Bearer(q) = None
           /\ DecidingInFile(q, TRUE) # None
           /\ upstream[r] = q.headers
        \/ /\ Bearer(q) # None /\ DecidingInFile(q, FALSE) # None
           /\ decision[r].verdict = "match"
           /\ \E i \in AuthInfos : /\ upstream[r] = Injected(q.headers, i)
                                   /\ Backs(world, start[r], i, Bearer(q), decision[r].attrs)

Slot(r) == Session(r) /\ Asking(r) /\ Answered(r) /\ Forwarded(r)

IInv == world \in Seq(Worlds) /\ Functions /\ \A r \in Requests : Slot(r)

LEMMA VouchedIs == \A w, t, i : Client!Vouched(w, t, i) <=> Vouched(w, t, i)
<1> QED
  BY DEF Vouched, Client!Vouched

(* What is forwarded is what the promise allows, of the file's rule.        *)
LEMMA ForwardedMay ==
    ASSUME NEW q \in Incoming, NEW s, NEW header,
           \/ /\ Bearer(q) = None
              /\ DecidingInFile(q, TRUE) # None
              /\ header = q.headers
           \/ /\ Bearer(q) # None /\ DecidingInFile(q, FALSE) # None
              /\ Deciding[q].verdict = "match"
              /\ \E i \in AuthInfos : /\ header = Injected(q.headers, i)
                                      /\ Backs(world, s, i, Bearer(q), Deciding[q].attrs)
    PROVE  Promise!MayForward(q, s, header)
<1>1. CASE Bearer(q) = None
  BY <1>1 DEF Promise!MayForward, DecidingRule
<1>2. CASE Bearer(q) # None
  <2>1. /\ DecidingInFile(q, FALSE) # None /\ Deciding[q].verdict = "match"
        /\ \E i \in AuthInfos : /\ header = Injected(q.headers, i)
                                /\ Backs(world, s, i, Bearer(q), Deciding[q].attrs)
    BY <1>2
  <2>2. PICK i \in AuthInfos : /\ header = Injected(q.headers, i)
                               /\ Backs(world, s, i, Bearer(q), Deciding[q].attrs)
    BY <2>1
  <2>3. DecidingRule(q) # None
    BY <1>2, <2>1 DEF DecidingRule
  <2>4. Deciding[q].attrs = Wanted(q)
    BY <1>2, <2>1, DecidesByFile, Zenon DEF Wanted
  <2>5. Carries(q, header, i)
    <3> DEFINE headers == q.headers
    <3>1. {UserHeader, GroupsHeader} \subseteq DOMAIN headers /\ header = Injected(headers, i)
      BY <2>2, EvaluationAssumption
    <3> HIDE DEF headers
    <3>2. /\ \A h \in DOMAIN headers \ {UserHeader, GroupsHeader} : header[h] = headers[h]
          /\ GetHeader([headers |-> header], UserHeader) = i.username
          /\ GetHeader([headers |-> header], GroupsHeader) = GroupsValue(i)
          /\ Len(header[UserHeader]) = 1 /\ Len(header[GroupsHeader]) = 1
      BY <3>1, InjectedIs
    <3> QED
      BY <3>2, Zenon DEF headers, Carries
  <2>6. /\ \E n \in Promise!Recent(s) : Vouched(world[n], Bearer(q), i)
        /\ \E n \in Promise!Recent(s) : <<i, Wanted(q)>> \in world[n].allowed
    BY <2>2, <2>4 DEF Backs, Since, Promise!Recent, Promise!Now
  <2>7. i \in Promise!AuthInfos /\ \A w : Promise!Vouched(w, Bearer(q), i) <=> Vouched(w, Bearer(q), i)
    BY DEF AuthInfos, Vouched, Promise!AuthInfos, Promise!Vouched
  <2> QED
    BY <1>2, <2>3, <2>5, <2>6, <2>7, Zenon DEF Promise!MayForward
<1> QED
  BY <1>1, <1>2

LEMMA IInvSuffices == IInv => ForwardedIsAuthorized
<1> SUFFICES ASSUME IInv, NEW r \in Requests, upstream[r] # None
             PROVE  Promise!MayForward(request[r], start[r], upstream[r])
  BY Zenon DEF ForwardedIsAuthorized
<1>1. Session(r) /\ Forwarded(r)
  BY DEF IInv, Slot
<1>2. request[r] \in Incoming /\ decision[r] = Deciding[request[r]]
  BY <1>1 DEF Session
<1> QED
  BY <1>1, <1>2, ForwardedMay DEF Forwarded

-----------------------------------------------------------------------------
(* What a step leaves a slot with.                                          *)

Kept(r) == /\ request'[r] = request[r] /\ decision'[r] = decision[r]
           /\ start'[r] = start[r] /\ upstream'[r] = upstream[r]
           /\ ask'[r] = ask[r] /\ outcome'[r] = outcome[r]

WorldGrows == world' = world \/ \E w \in Worlds : world' = Append(world, w)

LEMMA WorldsKept ==
    ASSUME world \in Seq(Worlds), WorldGrows
    PROVE  /\ world' \in Seq(Worlds) /\ Now \in Nat /\ Now' \in Nat /\ Now <= Now'
           /\ \A s, i, t, a : Backs(world, s, i, t, a) => Backs(world', s, i, t, a)
           /\ \A s, t : Knows(world, s, t) => Knows(world', s, t)
<1>1. Now \in Nat /\ DOMAIN world = 1..Now
  BY LenProperties DEF Now
<1>2. CASE world' = world
  BY <1>1, <1>2 DEF Now
<1>3. CASE \E w \in Worlds : world' = Append(world, w)
  <2>1. /\ world' \in Seq(Worlds) /\ Len(world') = Len(world) + 1
        /\ \A n \in 1..Len(world) : world'[n] = world[n]
    BY <1>1, <1>3, AppendProperties DEF Now
  <2>2. \A s : \A n \in Since(world, s) : n \in Since(world', s) /\ world'[n] = world[n]
    BY <1>1, <2>1 DEF Since, Now
  <2>3. \A s, i, t, a : Backs(world, s, i, t, a) => Backs(world', s, i, t, a)
    <3> TAKE s, i, t, a
    <3> HAVE Backs(world, s, i, t, a)
    <3>1. PICK n \in Since(world, s) : Vouched(world[n], t, i)
      BY DEF Backs
    <3>2. PICK m \in Since(world, s) : <<i, a>> \in world[m].allowed
      BY DEF Backs
    <3>3. i \in AuthInfos
      BY DEF Backs
    <3>4. Vouched(world'[n], t, i)
      BY <2>2, <3>1
    <3> QED
      BY <2>2, <3>1, <3>2, <3>3, <3>4, Zenon DEF Backs
  <2>4. \A s, t : Knows(world, s, t) => Knows(world', s, t)
    BY <2>2, Zenon DEF Knows
  <2> QED
    BY <1>1, <2>1, <2>3, <2>4 DEF Now
<1> QED
  BY <1>2, <1>3 DEF WorldGrows

(* A slot that a step only moves on, or leaves alone.                       *)
LEMMA SlotKept ==
    ASSUME NEW r \in Requests, world \in Seq(Worlds), WorldGrows, Slot(r), Kept(r),
           \/ phase'[r] = phase[r]
           \/ phase[r] # "free" /\ phase'[r] \notin {"free", "filter", "client", "answered"}
    PROVE  Slot(r)'
<1>1. /\ Now \in Nat /\ Now' \in Nat /\ Now <= Now'
      /\ \A s, i, t, a : Backs(world, s, i, t, a) => Backs(world', s, i, t, a)
      /\ \A s, t : Knows(world, s, t) => Knows(world', s, t)
  BY WorldsKept
<1>2. Session(r)'
  BY <1>1 DEF Slot, Session, Kept
<1>3. Asking(r)'
  BY DEF Slot, Asking, Kept, Token
<1>4. Answered(r)'
  <2> SUFFICES ASSUME phase'[r] = "answered" PROVE Answered(r)'
    BY DEF Answered
  <2>1. Answered(r) /\ phase[r] = "answered"
    BY DEF Slot
  <2> QED
    BY <1>1, <2>1 DEF Answered, Kept, Token
<1>5. Forwarded(r)'
  <2> SUFFICES ASSUME upstream'[r] # None PROVE Forwarded(r)'
    BY DEF Forwarded
  <2>1. Forwarded(r) /\ upstream[r] # None
    BY DEF Slot, Kept
  <2> DEFINE q == request[r]
  <2>2. CASE /\ Bearer(q) = None /\ DecidingInFile(q, TRUE) # None
             /\ upstream[r] = q.headers
    BY <2>2 DEF Forwarded, Kept
  <2>3. CASE /\ Bearer(q) # None /\ DecidingInFile(q, FALSE) # None
             /\ decision[r].verdict = "match"
             /\ \E i \in AuthInfos : /\ upstream[r] = Injected(q.headers, i)
                          /\ Backs(world, start[r], i, Bearer(q), decision[r].attrs)
    <3>1. PICK i \in AuthInfos : /\ upstream[r] = Injected(q.headers, i)
                       /\ Backs(world, start[r], i, Bearer(q), decision[r].attrs)
      BY <2>3
    <3>2. /\ upstream'[r] = Injected(request'[r].headers, i)
          /\ Backs(world', start'[r], i, Bearer(request'[r]), decision'[r].attrs)
      BY <1>1, <3>1 DEF Kept
    <3>3. /\ Bearer(request'[r]) # None /\ DecidingInFile(request'[r], FALSE) # None
          /\ decision'[r].verdict = "match"
      BY <2>3 DEF Kept
    <3> QED
      BY <3>2, <3>3 DEF Forwarded
  <2> QED
    BY <2>1, <2>2, <2>3 DEF Forwarded
<1> QED
  BY <1>2, <1>3, <1>4, <1>5 DEF Slot

-----------------------------------------------------------------------------
(* The steps.                                                               *)

LEMMA InitIsGood == Init => IInv
<1> SUFFICES ASSUME Init PROVE IInv
  OBVIOUS
<1>1. world \in Seq(Worlds)
  <2>1. PICK w \in Worlds : world = <<w>>
    BY DEF Init, Client!Init
  <2> QED
    BY <2>1
<1>2. Functions
  BY DEF Init, Client!Init, Functions
<1>3. \A r \in Requests : phase[r] = "free" /\ upstream[r] = None
  BY DEF Init
<1>4. \A r \in Requests : Slot(r)
  BY <1>3 DEF Slot, Session, Asking, Answered, Forwarded
<1> QED
  BY <1>1, <1>2, <1>4 DEF IInv

\* A step of r changes no other slot.
Only(r) == \A s \in Requests \ {r} : Kept(s) /\ phase'[s] = phase[s]

LEMMA OneSlot ==
    ASSUME IInv, NEW r \in Requests, WorldGrows, Functions', Only(r), Slot(r)'
    PROVE  IInv'
<1>1. world' \in Seq(Worlds)
  BY WorldsKept DEF IInv
<1>2. ASSUME NEW s \in Requests, s # r PROVE Slot(s)'
  BY <1>2, SlotKept DEF IInv, Only
<1>3. \A s \in Requests : Slot(s)'
  BY <1>2
<1> QED
  BY <1>1, <1>3 DEF IInv

LEMMA AcceptKeeps ==
    ASSUME IInv, NEW r \in Requests, NEW q \in Incoming, Accept(r, q)
    PROVE  IInv'
<1> USE DEF Accept, Goto, clientVars
<1>1. WorldGrows /\ Functions' /\ Only(r)
  BY DEF WorldGrows, IInv, Functions, Only, Kept
<1>2. /\ phase[r] = "free" /\ phase'[r] = "filter" /\ request'[r] = q
      /\ decision'[r] = Deciding[q] /\ start'[r] = Now /\ upstream'[r] = upstream[r]
  BY DEF IInv, Functions
<1>3. upstream'[r] = None
  BY <1>2 DEF IInv, Slot, Session
<1>4. Now \in Nat /\ Now' = Now
  BY LenProperties DEF IInv, Now
<1>5. Slot(r)'
  BY <1>2, <1>3, <1>4 DEF Slot, Session, Asking, Answered, Forwarded
<1> QED
  BY <1>1, <1>5, OneSlot

LEMMA AuthenticateKeeps ==
    ASSUME IInv, NEW r \in Requests, Authenticate(r)
    PROVE  IInv'
<1> USE DEF Authenticate, Calls, Client!Begin, Client!Now, Goto
<1>1. WorldGrows /\ Functions' /\ Only(r)
  BY DEF WorldGrows, IInv, Functions, Only, Kept
<1>2. /\ phase[r] = "filter" /\ phase'[r] = "client" /\ Token(r) # None
      /\ request'[r] = request[r] /\ decision'[r] = decision[r]
      /\ start'[r] = start[r] /\ upstream'[r] = upstream[r]
      /\ ask'[r] = [token |-> Token(r), attrs |-> decision[r].attrs, arrived |-> Now]
  BY DEF IInv, Functions, Now
<1>3. Now \in Nat /\ Now' = Now
  BY LenProperties DEF IInv, Now
<1>4. Session(r) /\ Forwarded(r)
  BY DEF IInv, Slot
<1>5. Session(r)' /\ Asking(r)' /\ Answered(r)'
  BY <1>2, <1>3, <1>4 DEF Session, Asking, Answered, Token
<1>6. Forwarded(r)'
  BY <1>2, <1>4 DEF Forwarded
<1> QED
  BY <1>1, <1>5, <1>6, OneSlot DEF Slot

(* What the contract calls justified is recent for the session too, as it   *)
(* began before it asked.                                                   *)
LEMMA JustifiedIsBacked ==
    ASSUME IInv, NEW r \in Requests, phase[r] = "client",
           NEW o \in Outcomes, Client!Justified(r, o)
    PROVE  /\ o.verdict = "allowed" =>
                  Backs(world, start[r], o.info, Token(r), decision[r].attrs)
           /\ o.verdict \notin {"Unauthenticated", "Internal"} =>
                  Knows(world, start[r], Token(r))
<1>1. /\ ask[r].token = Token(r) /\ ask[r].attrs = decision[r].attrs
      /\ ask[r].arrived \in Nat /\ start[r] <= ask[r].arrived /\ start[r] \in Nat
  BY DEF IInv, Slot, Session, Asking
<1>2. \A n \in Client!Window(r) : n \in Since(world, start[r])
  <2>1. Len(world) \in Nat /\ TTL \in Nat /\ MaxReply \in Nat
    BY LenProperties, KubernetesAssumption DEF IInv
  <2> QED
    BY <1>1, <2>1 DEF Client!Window, Client!Now, Since
<1>3. ASSUME o.verdict = "allowed"
      PROVE  Backs(world, start[r], o.info, Token(r), decision[r].attrs)
  <2>1. o.info \in AuthInfos
    BY <1>3 DEF Outcomes, AuthErrors
  <2>2. /\ \E n \in Client!Window(r) : Vouched(world[n], ask[r].token, o.info)
        /\ \E n \in Client!Window(r) : <<o.info, ask[r].attrs>> \in world[n].allowed
    BY <1>3, VouchedIs DEF Client!Justified, Client!Identified, Client!Permitted
  <2> QED
    BY <1>1, <1>2, <2>1, <2>2, Zenon DEF Backs
<1>4. ASSUME \E i \in AuthInfos : Client!Identified(r, i)
      PROVE  Knows(world, start[r], Token(r))
  <2>1. PICK i \in AuthInfos, n \in Client!Window(r) : Vouched(world[n], ask[r].token, i)
    BY <1>4, VouchedIs DEF Client!Identified
  <2> QED
    BY <1>1, <1>2, <2>1, Zenon DEF Knows
<1>5. ASSUME o.verdict \notin {"Unauthenticated", "Internal"}
      PROVE  \E i \in AuthInfos : Client!Identified(r, i)
  <2>1. CASE o.verdict = "allowed"
    BY <2>1 DEF Client!Justified, Outcomes, AuthErrors
  <2>2. CASE o.verdict \in {"no rule matched", "Unauthorized"}
    BY <2>2 DEF Client!Justified, Client!AuthInfos, AuthInfos
  <2> QED
    BY <1>5, <2>1, <2>2 DEF Outcomes, AuthErrors
<1> QED
  BY <1>3, <1>4, <1>5

LEMMA AnswerKeeps ==
    ASSUME IInv, NEW r \in Requests, NEW o \in Outcomes, Answer(r, o)
    PROVE  IInv'
<1> USE DEF Answer, Returns, Client!Decide, Goto
<1>1. WorldGrows /\ Functions' /\ Only(r)
  BY DEF WorldGrows, IInv, Functions, Only, Kept
<1>2. /\ phase[r] = "client" /\ phase'[r] = "answered"
      /\ request'[r] = request[r] /\ decision'[r] = decision[r]
      /\ start'[r] = start[r] /\ upstream'[r] = upstream[r]
      /\ outcome'[r] = o /\ world' = world
  BY DEF IInv, Functions
<1>3. Session(r) /\ Asking(r) /\ Forwarded(r)
  BY DEF IInv, Slot
<1>4. Token(r) # None
  BY <1>2, <1>3 DEF Asking
<1>5. /\ o.verdict = "allowed" => Backs(world, start[r], o.info, Token(r), decision[r].attrs)
      /\ o.verdict \notin {"Unauthenticated", "Internal"} => Knows(world, start[r], Token(r))
  BY <1>2, JustifiedIsBacked
<1>6. Session(r)' /\ Asking(r)'
  BY <1>2, <1>3 DEF Session, Asking, Now
<1>7. Answered(r)'
  BY <1>2, <1>4, <1>5 DEF Answered, Token
<1>8. Forwarded(r)'
  BY <1>2, <1>3 DEF Forwarded
<1> QED
  BY <1>1, <1>6, <1>7, <1>8, OneSlot DEF Slot

LEMMA ForwardOpenKeeps ==
    ASSUME IInv, NEW r \in Requests, ForwardOpen(r)
    PROVE  IInv'
<1> USE DEF ForwardOpen, Goto, clientVars
<1>1. WorldGrows /\ Functions' /\ Only(r)
  BY DEF WorldGrows, IInv, Functions, Only, Kept
<1>2. /\ phase[r] = "filter" /\ phase'[r] = "proxy"
      /\ request'[r] = request[r] /\ decision'[r] = decision[r]
      /\ start'[r] = start[r] /\ upstream'[r] = request[r].headers /\ world' = world
  BY DEF IInv, Functions
<1>3. Session(r)
  BY DEF IInv, Slot
<1>4. /\ Bearer(request[r]) = None /\ decision[r].verdict = "match"
      /\ request[r] \in Incoming /\ decision[r] = Deciding[request[r]]
  BY <1>2, <1>3 DEF Decides, Token, Session
<1>5. DecidingInFile(request[r], TRUE) # None
  <2> DEFINE q == request[r]
  <2>1. /\ q \in Incoming /\ (TRUE <=> Bearer(q) = None)
        /\ Deciding[q].verdict = "match"
    BY <1>4
  <2> HIDE DEF q
  <2>2. DecidingInFile(q, TRUE) # None
    BY <2>1, DecidesByFile, Zenon
  <2> QED
    BY <2>2 DEF q
<1>6. Session(r)' /\ Asking(r)' /\ Answered(r)'
  BY <1>2, <1>3 DEF Session, Asking, Answered, Now
<1>7. Forwarded(r)'
  BY <1>2, <1>4, <1>5 DEF Forwarded
<1> QED
  BY <1>1, <1>6, <1>7, OneSlot DEF Slot

LEMMA InjectKeeps ==
    ASSUME IInv, NEW r \in Requests, Inject(r)
    PROVE  IInv'
<1> USE DEF Inject, Goto, clientVars
<1> DEFINE q == request[r]
           i == outcome[r].info
<1>1. WorldGrows /\ Functions' /\ Only(r)
  BY DEF WorldGrows, IInv, Functions, Only, Kept
<1>2. /\ phase[r] = "answered" /\ phase'[r] = "proxy" /\ outcome[r].verdict = "allowed"
      /\ request'[r] = q /\ decision'[r] = decision[r]
      /\ start'[r] = start[r] /\ upstream'[r] = Injected(q.headers, i) /\ world' = world
  BY DEF IInv, Functions
<1>3. Session(r) /\ Answered(r)
  BY DEF IInv, Slot
<1>4. /\ q \in Incoming /\ decision[r] = Deciding[q] /\ Bearer(q) # None
      /\ i \in AuthInfos /\ Backs(world, start[r], i, Bearer(q), decision[r].attrs)
  BY <1>2, <1>3 DEF Session, Answered, Token, Backs
(* A permission that Kubernetes gave has attributes.                        *)
<1>5. Deciding[q].attrs # None
  <2>1. PICK n \in Since(world, start[r]) : <<i, Deciding[q].attrs>> \in world[n].allowed
    BY <1>4 DEF Backs
  <2>2. world[n] \in AllWorlds
    BY <2>1, WorldsAssumption, LenProperties, ElementOfSeq DEF IInv, Since
  <2>3. Deciding[q].attrs \in Attrs
    BY <2>1, <2>2 DEF AllWorlds
  <2> QED
    BY <2>3, KubernetesAssumption
<1>6. Deciding[q].verdict = "match"
  BY <1>4, <1>5, AttrsAreOfAMatch
<1>7. DecidingInFile(q, FALSE) # None
  <2>1. FALSE <=> Bearer(q) = None
    BY <1>4
  <2> HIDE DEF q
  <2> QED
    BY <1>4, <1>6, <2>1, DecidesByFile, Zenon
<1>8. Session(r)' /\ Asking(r)' /\ Answered(r)'
  BY <1>2, <1>3 DEF Session, Asking, Answered, Now
<1>9. Forwarded(r)'
  <2>1. /\ Bearer(request'[r]) # None /\ DecidingInFile(request'[r], FALSE) # None
        /\ decision'[r].verdict = "match" /\ i \in AuthInfos
        /\ upstream'[r] = Injected(request'[r].headers, i)
        /\ Backs(world', start'[r], i, Bearer(request'[r]), decision'[r].attrs)
    BY <1>2, <1>4, <1>6, <1>7
  <2> HIDE DEF i
  <2> QED
    BY <2>1 DEF Forwarded
<1> QED
  BY <1>1, <1>8, <1>9, OneSlot DEF Slot

LEMMA FreeKeeps ==
    ASSUME IInv, NEW r \in Requests, Free(r), UNCHANGED clientVars
    PROVE  IInv'
<1> USE DEF Free, Goto, clientVars
<1>1. WorldGrows /\ Functions' /\ Only(r)
  BY DEF WorldGrows, IInv, Functions, Only, Kept
<1>2. phase'[r] = "free" /\ upstream'[r] = None
  BY DEF IInv, Functions
<1>3. Slot(r)'
  BY <1>2 DEF Slot, Session, Asking, Answered, Forwarded
<1> QED
  BY <1>1, <1>3, OneSlot

(* Steps that only move a session on, and those that only happen to it.     *)
LEMMA MovesKeep ==
    ASSUME IInv, NEW r \in Requests, NEW p, phase' = [phase EXCEPT ![r] = p],
           p \notin {"free", "filter", "client", "answered"}, phase[r] # "free",
           UNCHANGED <<clientVars, request, decision, start, upstream>>
    PROVE  IInv'
<1>1. WorldGrows /\ Functions' /\ Only(r) /\ Kept(r)
  BY DEF WorldGrows, IInv, Functions, Only, Kept, clientVars
<1>2. phase'[r] = p
  BY DEF IInv, Functions
<1>3. Slot(r)'
  BY <1>1, <1>2, SlotKept DEF IInv
<1> QED
  BY <1>1, <1>3, OneSlot

LEMMA NothingMoves ==
    ASSUME IInv, WorldGrows, UNCHANGED <<ask, outcome>>,
           UNCHANGED <<phase, request, decision, start, upstream>>
    PROVE  IInv'
<1>1. world' \in Seq(Worlds)
  BY WorldsKept DEF IInv
<1>2. Functions'
  BY DEF IInv, Functions
<1>3. \A r \in Requests : Slot(r)'
  BY SlotKept DEF IInv, Kept
<1> QED
  BY <1>1, <1>2, <1>3 DEF IInv

LEMMA StepKeeps ==
    ASSUME IInv, NEW r \in Requests, Step(r)
    PROVE  IInv'
<1>1. CASE Authenticate(r)
  BY <1>1, AuthenticateKeeps
<1>2. CASE ForwardOpen(r)
  BY <1>2, ForwardOpenKeeps
<1>3. CASE Inject(r)
  BY <1>3, InjectKeeps
<1>4. CASE InjectFails(r)
  BY <1>4, MovesKeep DEF InjectFails, Goto
<1>5. CASE Panic(r)
  BY <1>5, MovesKeep DEF Panic, Decides, Goto
<1>6. CASE Refuse(r)
  BY <1>6, MovesKeep DEF Refuse, Decides, Goto
<1>7. CASE RefuseHead(r)
  BY <1>7, MovesKeep DEF RefuseHead, Goto
<1>8. CASE RefuseTrailer(r)
  BY <1>8, MovesKeep DEF RefuseTrailer, Goto
<1>9. CASE TrailerFails(r)
  BY <1>9, MovesKeep DEF TrailerFails, Goto
<1>10. CASE WriteFails(r)
  BY <1>10, MovesKeep DEF WriteFails, Goto
<1>11. CASE FailToProxy(r)
  BY <1>11, MovesKeep DEF FailToProxy, Goto
<1>12. CASE Log(r) \/ Close(r)
  BY <1>12, FreeKeeps DEF Log, Close
<1>13. CASE \E o \in Outcomes : Answer(r, o)
  BY <1>13, AnswerKeeps
<1>14. CASE \E s \in UpstreamStatuses \union {BadGateway} : Proxy(r, s)
  BY <1>14, MovesKeep DEF Proxy, Goto
<1> QED
  BY <1>1, <1>2, <1>3, <1>4, <1>5, <1>6, <1>7, <1>8, <1>9, <1>10, <1>11, <1>12,
     <1>13, <1>14 DEF Step, Serve

LEMMA NextKeeps == IInv /\ [Next]_vars => IInv'
<1> SUFFICES ASSUME IInv, [Next]_vars PROVE IInv'
  OBVIOUS
<1>1. ASSUME NEW r \in Requests, NEW q \in Incoming, Accept(r, q) PROVE IInv'
  BY <1>1, AcceptKeeps
<1>2. ASSUME NEW r \in Requests, Step(r) PROVE IInv'
  BY <1>2, StepKeeps
<1>3. ASSUME NEW w \in Worlds, Tick(w) PROVE IInv'
  BY <1>3, NothingMoves DEF Tick, Client!Advance, sessionVars, WorldGrows
<1>4. CASE UNCHANGED vars
  BY <1>4, NothingMoves DEF vars, clientVars, sessionVars, WorldGrows
<1> QED
  BY <1>1, <1>2, <1>3, <1>4 DEF Next

(* The invariant holds in every behaviour of the gateway.                   *)
THEOREM Invariance == Spec => []IInv
<1> QED
  BY InitIsGood, NextKeeps, PTL DEF Spec

(* For every configuration, whatever requests come and whatever Kubernetes  *)
(* answers: what reaches an upstream is what the file's first matching rule *)
(* lets through, with the identity Kubernetes lately vouched for.           *)
THEOREM NothingUnauthorized == Spec => []ForwardedIsAuthorized
<1> QED
  BY Invariance, IInvSuffices, PTL

-----------------------------------------------------------------------------
(* The promise: every step decides a session as it says, or decides none.   *)

(* What the file has for a request that evaluate_request finds no rule for, *)
(* and for one that a rule panics on.                                       *)
LEMMA UndecidedByFile ==
    ASSUME NEW q \in Incoming
    PROVE  /\ Deciding[q].verdict = "none" => DecidingRule(q) = None
           /\ Deciding[q].verdict = "panic" => MayPanic(q)
<1> DEFINE open == Bearer(q) = None
           p == q.protocol
           file == Files[p]
           first == Found(q, open)
           I == Matching(p, file, open, q, Len(file))
           least == ReadRule(p, file[Min(I)])
<1>1. p \in Protocols
  BY EvaluationAssumption
<1>2. Len(file) \in Nat /\ DOMAIN file = 1..Len(file)
  BY <1>1, FileIsSequence
<1>3. Deciding[q].verdict = first.check.verdict
  <2>1. FirstMatch((IF Bearer(q) = None THEN NoAuthLists ELSE SarLists)[p], q) = first
    <3>1. CASE open
      BY <3>1, <1>1 DEF NoAuthLists, NoAuthRules, Found
    <3>2. CASE ~open
      BY <3>2, <1>1 DEF SarLists, SarRules, Found
    <3> QED
      BY <3>1, <3>2
  <2> HIDE DEF first, p
  <2> QED
    BY <2>1 DEF Deciding, p
<1>4. open \in BOOLEAN
  OBVIOUS
<1> HIDE DEF open
<1>5. first = IF I = {} THEN [rule |-> None, check |-> NoMatch]
              ELSE [rule |-> least, check |-> CheckRule(least.matches, q)]
  <2>1. Len(file) \in 0..Len(file)
    BY <1>2
  <2> QED
    BY <1>4, <1>2, <2>1, FirstMatchInFile, Zenon DEF Found
<1>6. \A i : ReadRule(p, file[i]).matches = RequestMatch(p, file[i].matches)
  BY DEF ReadRule, SarRule, NoAuthRule
<1>7. I \subseteq Nat
  BY <1>2 DEF Matching
<1> HIDE DEF least, first
<1>8. ASSUME Deciding[q].verdict = "none"
      PROVE  DecidingRule(q) = None
  <2>1. I = {}
    <3> SUFFICES ASSUME I # {} PROVE FALSE
      OBVIOUS
    <3>1. Min(I) \in I
      BY <1>7, MinIsLeast, Zenon
    <3>2. CheckRule(least.matches, q).verdict # "none"
      BY <3>1 DEF Matching, Tried, least
    <3> HIDE DEF I
    <3> QED
      BY <1>3, <1>5, <1>8, <3>2
  <2>2. \A i \in DOMAIN file :
            ~((file[i].access = NoAuth) = open
                /\ CheckRule(RequestMatch(p, file[i].matches), q).verdict = "match")
    <3> SUFFICES ASSUME NEW i \in 1..Len(file), (file[i].access = NoAuth) = open,
                        CheckRule(RequestMatch(p, file[i].matches), q).verdict = "match"
                 PROVE  FALSE
      BY <1>2, Zenon
    <3>1. Tried(ReadRule(p, file[i]), q)
      BY <1>6 DEF Tried
    <3> QED
      BY <2>1, <3>1, Zenon DEF Matching
  <2> QED
    BY <2>2, Zenon DEF DecidingRule, DecidingInFile, open
<1>9. ASSUME Deciding[q].verdict = "panic"
      PROVE  MayPanic(q)
  <2>1. I # {}
    BY <1>3, <1>5, <1>9 DEF NoMatch
  <2>2. Min(I) \in I
    BY <2>1, <1>7, MinIsLeast, Zenon
  <2>3. Min(I) \in 1..Len(file) /\ (file[Min(I)].access = NoAuth) = open
    BY <2>2, Zenon DEF Matching
  <2>4. CheckRule(RequestMatch(p, file[Min(I)].matches), q).verdict = "panic"
    <3> HIDE DEF I
    <3> QED
      BY <1>3, <1>5, <1>6, <1>9, <2>1 DEF least
  <2> QED
    BY <1>2, <2>3, <2>4, Zenon DEF MayPanic, open
<1> QED
  BY <1>8, <1>9

(* The sessions of the others are as they were.                             *)
LEMMA SessionsMove ==
    ASSUME NEW r \in Requests, Only(r)
    PROVE  Sessions' = [Sessions EXCEPT ![r] = SessionOf(r)']
<1>1. \A s \in Requests \ {r} : SessionOf(s)' = SessionOf(s)
  BY DEF Only, Kept, SessionOf, Fate, Reason, Message, Token
<1> QED
  BY <1>1 DEF Sessions

Undecided(r) == phase[r] \in {"filter", "client", "answered"}

(* An undecided session is pending.                                         *)
LEMMA PendingSession ==
    ASSUME NEW r \in Requests, IInv, Undecided(r)
    PROVE  /\ SessionOf(r) = Promise!Pending(request[r], start[r])
           /\ upstream[r] = None
<1>1. upstream[r] = None
  BY DEF IInv, Slot, Session, Undecided
<1> QED
  BY <1>1 DEF Undecided, SessionOf, Fate, Reason, Message, Token, Promise!Pending

(* Sessions that are moved within the undecided phases, or after them.      *)
LEMMA SessionMovesOn ==
    ASSUME NEW r \in Requests, Only(r), request'[r] = request[r], start'[r] = start[r],
           upstream'[r] = upstream[r],
           \/ phase[r] \in {"filter", "client"} /\ phase'[r] \in {"client", "answered"}
           \/ /\ outcome' = outcome
              /\ phase[r] \notin {"free", "filter", "client", "answered", "dropped"}
              /\ phase'[r] \notin {"free", "filter", "client", "answered", "dropped"}
    PROVE  Sessions' = Sessions
<1>1. SessionOf(r)' = SessionOf(r)
  BY DEF SessionOf, Fate, Reason, Message, Token
<1> QED
  BY <1>1, SessionsMove DEF Sessions

LEMMA ReceivePromise ==
    ASSUME IInv, NEW r \in Requests, NEW q \in Incoming, Accept(r, q)
    PROVE  Promise!Receive(r)
<1> USE DEF Accept, Goto, clientVars
<1>1. Only(r)
  BY DEF IInv, Functions, Only, Kept
<1>2. /\ phase[r] = "free" /\ phase'[r] = "filter" /\ request'[r] = q /\ start'[r] = Now
      /\ upstream'[r] = None /\ world' = world
  BY DEF IInv, Functions, Slot, Session
<1>3. SessionOf(r)' = Promise!Pending(q, Promise!Now) /\ Sessions[r].fate = "free"
  BY <1>2 DEF SessionOf, Fate, Reason, Message, Token, Promise!Pending, Promise!Now, Now,
     Sessions
<1>4. Sessions' = [Sessions EXCEPT ![r] = Promise!Pending(q, Promise!Now)]
  BY <1>1, <1>3, SessionsMove
<1>5. Sessions'[r].request = q
  BY <1>4 DEF Sessions, Promise!Pending
<1> QED
  BY <1>2, <1>3, <1>4, <1>5 DEF Promise!Receive

(* A step that decides a session makes it what it says.                     *)
LEMMA Decided ==
    ASSUME IInv, NEW r \in Requests, Only(r), Undecided(r), world' = world,
           request'[r] = request[r], start'[r] = start[r],
           NEW fate, NEW reason, NEW header,
           Fate(r)' = fate, Reason(r)' = reason, upstream'[r] = header
    PROVE  /\ Promise!Become(r, fate, reason, header)
           /\ Sessions[r].fate = "pending" /\ Sessions[r].request = request[r]
           /\ Sessions[r].start = start[r]
           /\ Sessions'[r].fate = fate /\ Sessions'[r].reason = reason
           /\ Sessions'[r].header = header
<1>1. Sessions[r] = Promise!Pending(request[r], start[r])
  BY PendingSession DEF Sessions
<1>2. /\ Sessions[r].fate = "pending" /\ Sessions[r].request = request[r]
      /\ Sessions[r].start = start[r]
  BY <1>1 DEF Promise!Pending
<1>3. SessionOf(r)' = [request |-> request[r], start |-> start[r], fate |-> fate,
                       reason |-> reason, header |-> header]
  BY DEF SessionOf
<1>4. Sessions' = [Sessions EXCEPT ![r] = SessionOf(r)']
  BY SessionsMove
<1>5. Sessions'[r] = SessionOf(r)'
  BY <1>4 DEF Sessions
<1> QED
  BY <1>2, <1>3, <1>4, <1>5 DEF Promise!Become

LEMMA ForwardPromise ==
    ASSUME IInv, IInv', NEW r \in Requests, ForwardOpen(r) \/ Inject(r)
    PROVE  Promise!Decide(r)
<1> USE DEF ForwardOpen, Inject, Goto, clientVars
<1> DEFINE q == request[r]
           s == start[r]
           header == upstream'[r]
<1>1. Only(r)
  BY DEF IInv, Functions, Only, Kept
<1>2. /\ Undecided(r) /\ phase'[r] = "proxy" /\ request'[r] = q /\ start'[r] = s
      /\ decision'[r] = decision[r] /\ world' = world
  BY DEF IInv, Functions, Undecided
<1>3. q \in Incoming /\ decision[r] = Deciding[q] /\ upstream[r] = None
  BY <1>2, PendingSession DEF IInv, Slot, Session, Undecided
<1>4. header # None
  <2>1. CASE ForwardOpen(r)
    BY <2>1, <1>3, EvaluationAssumption DEF IInv, Functions
  <2>2. CASE Inject(r)
    <3>1. header = Injected(q.headers, outcome[r].info)
      BY <2>2 DEF IInv, Functions
    <3>2. outcome[r].info \in AuthInfos
      BY <2>2 DEF IInv, Slot, Answered, Backs
    <3> QED
      BY <1>3, <3>1, <3>2, EvaluationAssumption
  <2> QED
    BY <2>1, <2>2
<1>5. Promise!MayForward(q, s, header)
  <2>1. Forwarded(r)'
    BY DEF IInv, Slot
  <2> QED
    BY <1>2, <1>3, <1>4, <2>1, ForwardedMay DEF Forwarded
<1>6. Fate(r)' = "forwarded"
  BY <1>2, <1>4 DEF Fate
<1>7. Reason(r)' = None
  BY <1>6 DEF Reason, Message, Token
<1>8. /\ Promise!Become(r, "forwarded", None, header)
      /\ Sessions[r].fate = "pending" /\ Sessions[r].request = q /\ Sessions[r].start = s
      /\ Sessions'[r].fate = "forwarded" /\ Sessions'[r].header = header
  <2> HIDE DEF header, q, s
  <2>1. upstream'[r] = header /\ request[r] = q /\ start[r] = s
    BY DEF header, q, s
  <2> QED
    BY <1>1, <1>2, <1>6, <1>7, <2>1, Decided
<1> QED
  <2> HIDE DEF header, q, s
  <2> QED
    BY <1>5, <1>8 DEF Promise!Decide, Promise!Forward

LEMMA RefusePromise ==
    ASSUME IInv, NEW r \in Requests, Refuse(r) \/ InjectFails(r)
    PROVE  Promise!Decide(r)
<1> USE DEF Refuse, InjectFails, Goto, clientVars
<1> DEFINE q == request[r]
           s == start[r]
           reason == Reason(r)'
<1>1. Only(r)
  BY DEF IInv, Functions, Only, Kept
<1>2. /\ Undecided(r) /\ phase'[r] \in {"refuse", "failed"} /\ request'[r] = q /\ start'[r] = s
      /\ upstream' = upstream /\ outcome' = outcome /\ world' = world
  BY DEF IInv, Functions, Undecided, Decides
<1>3. q \in Incoming /\ decision[r] = Deciding[q] /\ upstream[r] = None
  BY <1>2, PendingSession DEF IInv, Slot, Session, Undecided
<1>4. Fate(r)' = "refused"
  BY <1>2, <1>3 DEF Fate
<1>5. reason = IF Message(r) = "allowed" THEN "unprintable identity" ELSE Message(r)
  BY <1>2, <1>4 DEF Reason, Message, Token
<1>6. Promise!MayRefuse(q, s, reason)
  <2>1. CASE phase[r] = "filter" /\ Bearer(q) = None /\ decision[r].verdict = "none"
    <3>1. reason = "no rule matched"
      BY <1>5, <2>1 DEF Message, Token
    <3> QED
      BY <1>3, <2>1, <3>1, UndecidedByFile DEF Promise!MayRefuse, Promise!Reasons
  <2>2. CASE phase[r] = "answered"
    <3>1. /\ Bearer(q) # None
          /\ outcome[r].verdict \notin {"Unauthenticated", "Internal"} =>
                 Knows(world, s, Bearer(q))
      BY <2>2 DEF IInv, Slot, Answered, Token
    <3>2. outcome[r].verdict \notin {"Unauthenticated", "Internal"} =>
              Promise!VouchedLately(q, s)
      <4>1. Knows(world, s, Bearer(q)) => Promise!VouchedLately(q, s)
        BY DEF Knows, Since, Vouched, AuthInfos, Promise!VouchedLately, Promise!Recent,
               Promise!Now, Promise!Vouched, Promise!AuthInfos
      <4> QED
        BY <3>1, <4>1
    <3>3. reason = IF outcome[r].verdict = "allowed" THEN "unprintable identity"
                                                     ELSE outcome[r].verdict
      BY <1>5, <3>1 DEF Message, Token
    <3>4. CASE outcome[r].verdict = "no rule matched" /\ decision[r].verdict = "none"
      BY <1>3, <3>1, <3>2, <3>3, <3>4, UndecidedByFile
         DEF Promise!MayRefuse, Promise!Reasons
    <3>5. CASE outcome[r].verdict \in AuthErrors \union {"allowed"}
      BY <3>1, <3>2, <3>3, <3>5
         DEF Promise!MayRefuse, Promise!Reasons, Promise!AuthErrors, AuthErrors
    <3> QED
      BY <2>2, <3>4, <3>5 DEF Decides
  <2> QED
    BY <2>1, <2>2 DEF Decides, Token
<1>7. /\ Promise!Become(r, "refused", reason, None)
      /\ Sessions[r].fate = "pending" /\ Sessions[r].request = q /\ Sessions[r].start = s
      /\ Sessions'[r].fate = "refused" /\ Sessions'[r].reason = reason
  <2>1. upstream'[r] = None
    BY <1>2, <1>3
  <2> QED
    BY <1>1, <1>2, <1>4, <2>1, Decided
<1> QED
  <2> HIDE DEF reason, q, s
  <2> QED
    BY <1>6, <1>7 DEF Promise!Decide, Promise!Refuse

LEMMA DropPromise ==
    ASSUME IInv, NEW r \in Requests, Panic(r)
    PROVE  Promise!Decide(r)
<1> USE DEF Panic, Goto, clientVars
<1> DEFINE q == request[r]
           s == start[r]
<1>1. Only(r)
  BY DEF IInv, Functions, Only, Kept
<1>2. /\ Undecided(r) /\ phase'[r] = "dropped" /\ request'[r] = q /\ start'[r] = s
      /\ upstream' = upstream /\ world' = world
  BY DEF IInv, Functions, Undecided, Decides
<1>3. q \in Incoming /\ Deciding[q].verdict = "panic" /\ upstream[r] = None
  BY <1>2, PendingSession DEF IInv, Slot, Session, Undecided, Decides
<1>4. Fate(r)' = "dropped"
  BY <1>2, <1>3 DEF Fate
<1>5. Reason(r)' = None
  BY <1>4 DEF Reason, Message, Token
<1>6. MayPanic(q)
  BY <1>3, UndecidedByFile
<1>7. /\ Promise!Become(r, "dropped", None, None)
      /\ Sessions[r].fate = "pending" /\ Sessions[r].request = q
      /\ Sessions'[r].fate = "dropped"
  <2>1. upstream'[r] = None
    BY <1>2, <1>3
  <2> QED
    BY <1>1, <1>2, <1>4, <1>5, <2>1, Decided
<1> QED
  <2> HIDE DEF q, s
  <2> QED
    BY <1>6, <1>7 DEF Promise!Decide, Promise!Drop

LEMMA EndPromise ==
    ASSUME IInv, NEW r \in Requests, Log(r) \/ Close(r)
    PROVE  Promise!End(r)
<1> USE DEF Log, Close, Free, Goto, clientVars
<1>1. Only(r)
  BY DEF IInv, Functions, Only, Kept
<1>2. /\ phase[r] \in {"log", "dropped"} /\ phase'[r] = "free" /\ request'[r] = None
      /\ start'[r] = 0 /\ upstream'[r] = None /\ world' = world
  BY DEF IInv, Functions
<1>3. Fate(r) \in {"forwarded", "refused", "dropped"} /\ Fate(r)' = "free"
  BY <1>2 DEF Fate
<1>4. Reason(r)' = None
  BY <1>3 DEF Reason, Message, Token
<1>5. SessionOf(r)' = Promise!Free
  BY <1>2, <1>3, <1>4 DEF SessionOf, Promise!Free
<1>6. Sessions[r].fate = Fate(r)
  BY DEF Sessions, SessionOf
<1> QED
  BY <1>1, <1>2, <1>3, <1>5, <1>6, SessionsMove DEF Promise!End

(* The steps in between, before or after the decision.                      *)
LEMMA StepStutters ==
    ASSUME IInv, NEW r \in Requests,
           \/ Authenticate(r) \/ RefuseHead(r) \/ RefuseTrailer(r) \/ TrailerFails(r)
           \/ WriteFails(r) \/ FailToProxy(r)
           \/ \E o \in Outcomes : Answer(r, o)
           \/ \E s \in UpstreamStatuses \union {BadGateway} : Proxy(r, s)
    PROVE  UNCHANGED <<world, Sessions>>
<1> USE DEF Goto, clientVars
<1>1. CASE Authenticate(r) \/ \E o \in Outcomes : Answer(r, o)
  <2> USE DEF Authenticate, Answer, Calls, Returns, Client!Begin, Client!Decide
  <2>1. Only(r) /\ world' = world
    BY <1>1 DEF IInv, Functions, Only, Kept
  <2>2. /\ request'[r] = request[r] /\ start'[r] = start[r] /\ upstream'[r] = upstream[r]
        /\ phase[r] \in {"filter", "client"} /\ phase'[r] \in {"client", "answered"}
    BY <1>1 DEF IInv, Functions
  <2> QED
    BY <2>1, <2>2, SessionMovesOn
<1>2. CASE \/ RefuseHead(r) \/ RefuseTrailer(r) \/ TrailerFails(r)
           \/ WriteFails(r) \/ FailToProxy(r)
           \/ \E s \in UpstreamStatuses \union {BadGateway} : Proxy(r, s)
  <2>1. PICK p \in {"trailer", "log", "failed"} :
            /\ phase' = [phase EXCEPT ![r] = p]
            /\ phase[r] \in {"refuse", "trailer", "proxy", "failed"}
            /\ UNCHANGED <<clientVars, request, decision, start, upstream>>
    BY <1>2 DEF RefuseHead, RefuseTrailer, TrailerFails, WriteFails, FailToProxy, Proxy
  <2>2. Only(r) /\ world' = world
    BY <2>1 DEF IInv, Functions, Only, Kept
  <2>3. /\ request'[r] = request[r] /\ start'[r] = start[r] /\ upstream'[r] = upstream[r]
        /\ phase'[r] = p /\ outcome' = outcome
    BY <2>1 DEF IInv, Functions
  <2> QED
    BY <2>1, <2>2, <2>3, SessionMovesOn
<1> QED
  BY <1>1, <1>2

(* What no session does.                                                    *)
LEMMA NothingHappens ==
    ASSUME UNCHANGED <<outcome, phase, request, start, upstream>>
    PROVE  Sessions' = Sessions
<1>1. \A r \in Requests : SessionOf(r)' = SessionOf(r)
  BY DEF SessionOf, Fate, Reason, Message, Token
<1> QED
  BY <1>1 DEF Sessions

LEMMA NextKeepsPromise ==
    ASSUME IInv, IInv', [Next]_vars
    PROVE  [Promise!Next]_(Promise!vars)
<1> USE DEF Promise!vars
<1>1. ASSUME NEW r \in Requests, NEW q \in Incoming, Accept(r, q)
      PROVE  Promise!Next
  BY <1>1, ReceivePromise DEF Promise!Next
<1>2. ASSUME NEW r \in Requests, Step(r)
      PROVE  [Promise!Next]_(Promise!vars)
  <2>1. CASE ForwardOpen(r) \/ Inject(r)
    BY <2>1, ForwardPromise DEF Promise!Next
  <2>2. CASE Refuse(r) \/ InjectFails(r)
    BY <2>2, RefusePromise DEF Promise!Next
  <2>3. CASE Panic(r)
    BY <2>3, DropPromise DEF Promise!Next
  <2>4. CASE Log(r) \/ Close(r)
    BY <2>4, EndPromise DEF Promise!Next
  <2>5. CASE \/ Authenticate(r) \/ RefuseHead(r) \/ RefuseTrailer(r) \/ TrailerFails(r)
             \/ WriteFails(r) \/ FailToProxy(r)
             \/ \E o \in Outcomes : Answer(r, o)
             \/ \E s \in UpstreamStatuses \union {BadGateway} : Proxy(r, s)
    BY <2>5, StepStutters
  <2> QED
    BY <1>2, <2>1, <2>2, <2>3, <2>4, <2>5 DEF Step, Serve
<1>3. ASSUME NEW w \in Worlds, Tick(w)
      PROVE  Promise!Next
  <2>1. Sessions' = Sessions /\ world' = Append(world, w)
    BY <1>3, NothingHappens DEF Tick, Client!Advance, sessionVars
  <2> QED
    BY <2>1 DEF Promise!Next, Promise!Advance
<1>4. CASE UNCHANGED vars
  BY <1>4, NothingHappens DEF vars, clientVars, sessionVars
<1> QED
  BY <1>1, <1>2, <1>3, <1>4 DEF Next

LEMMA InitKeepsPromise == Init => Promise!Init
<1> SUFFICES ASSUME Init PROVE Promise!Init
  OBVIOUS
<1>1. \A r \in Requests : SessionOf(r) = Promise!Free
  BY DEF Init, SessionOf, Fate, Reason, Message, Token, Promise!Free
<1> QED
  BY <1>1 DEF Init, Client!Init, Promise!Init, Sessions

(* The gateway implements its contract: every request is decided once, and  *)
(* as the configuration file and Kubernetes' recent word have it, whichever *)
(* of its steps others come between (http/proxy.rs:44-92, grpc/proxy.rs:    *)
(* 56-93, utils/proxy.rs:13-66).                                            *)
THEOREM GatewayKeepsPromise == Spec => KeepsPromise
<1>1. Spec => []IInv
  BY Invariance
<1> QED
  BY <1>1, InitKeepsPromise, NextKeepsPromise, PTL DEF Spec, KeepsPromise, Promise!Safety
=============================================================================
