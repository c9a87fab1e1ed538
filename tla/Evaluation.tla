----------------------------- MODULE Evaluation -----------------------------
(***************************************************************************)
(* What the two proxies and evaluate_request (src/utils/proxy.rs) compute   *)
(* of one request, under one configuration, without asking anybody: its     *)
(* bearer token, the rule that decides, the header that goes upstream.      *)
(***************************************************************************)
EXTENDS Kubernetes, ConfigFile

CONSTANTS
    Files,             \* the rules of the configuration file, by protocol
    Incoming,          \* requests that clients send
    UserHeader,        \* auth.user-header
    GroupsHeader,      \* auth.groups-header
    Delimiter          \* auth.groups-header-delimiter

Protocols == {"http", "grpc"}

\* The rules as the configuration is loaded (see ConfigLoad).
SarLists    == [p \in Protocols |-> SarRules(p, Files[p])]
NoAuthLists == [p \in Protocols |-> NoAuthRules(p, Files[p])]

\* parse_bearer_token: the first authorization header, with its prefix.
Bearer(q) ==
    IF q.authorization = <<>> \/ ~Head(q.authorization).text
         \/ Head(q.authorization).prefix # "Bearer "
      THEN None ELSE Head(q.authorization).token

\* What evaluate_request's loop over the rules that the token selects makes of
\* a request: whether one matches or panics, and what it wants authorized.
Deciding == [q \in Incoming |->
    LET list  == (IF Bearer(q) = None THEN NoAuthLists ELSE SarLists)[q.protocol]
        first == FirstMatch(list, q)
    IN  [verdict |-> first.check.verdict,
         attrs   |-> IF Bearer(q) # None /\ first.check.verdict = "match"
                       THEN CompileResourceAttributes(first.rule.sar, first.check.vars)
                       ELSE None]]

\* The rule of the file that README.md has decide: the first that matches.
DecidingInFile(q, open) ==
    LET file == Files[q.protocol]
        I == {i \in DOMAIN file :
                /\ (file[i].access = NoAuth) = open
                /\ CheckRule(RequestMatch(q.protocol, file[i].matches), q).verdict = "match"}
    IN  IF I = {} THEN None ELSE file[Min(I)]

\* With a token it is a rule that asks for a permission, without a no-auth rule.
DecidingRule(q) == DecidingInFile(q, Bearer(q) = None)

Wanted(q) ==
    LET rule == DecidingInFile(q, FALSE) IN
    CompileResourceAttributes(SarAttributes(rule.access.attributes),
                              CheckRule(RequestMatch(q.protocol, rule.matches), q).vars)

MayPanic(q) ==
    \E i \in DOMAIN Files[q.protocol] :
        LET rule == Files[q.protocol][i] IN
        /\ (rule.access = NoAuth) = (Bearer(q) = None)
        /\ CheckRule(RequestMatch(q.protocol, rule.matches), q).verdict = "panic"

GroupsValue(i) == IF i.groups = <<>> THEN ""
                  ELSE FoldLeft(LAMBDA text, g : text \o Delimiter \o g,
                                Head(i.groups), Tail(i.groups))

\* Mutant: the identity is added to what the client sent.
InjectedBehind(headers, i) ==
    [headers EXCEPT ![UserHeader] = Append(@, [text |-> TRUE, value |-> i.username]),
                    ![GroupsHeader] = Append(@, [text |-> TRUE, value |-> GroupsValue(i)])]

Injected(headers, i) ==
    [headers EXCEPT ![UserHeader] = <<[text |-> TRUE, value |-> i.username]>>,
                    ![GroupsHeader] = <<[text |-> TRUE, value |-> GroupsValue(i)]>>]

\* A header is the request's, but for a single identity.
Carries(q, header, i) ==
    /\ \A h \in DOMAIN q.headers \ {UserHeader, GroupsHeader} : header[h] = q.headers[h]
    /\ GetHeader([headers |-> header], UserHeader) = i.username
    /\ GetHeader([headers |-> header], GroupsHeader) = GroupsValue(i)
    /\ Len(header[UserHeader]) = 1 /\ Len(header[GroupsHeader]) = 1

ASSUME EvaluationAssumption ==
    /\ \A p \in Protocols : /\ Files[p] \in Seq(Range(Files[p]))
                            /\ None \notin Range(Files[p])
    /\ \A q \in Incoming : /\ q.protocol \in Protocols
                           /\ Bearer(q) \in Tokens \union {None}
                           /\ Deciding[q].attrs \in Attrs \union {None}
                           /\ {UserHeader, GroupsHeader} \subseteq DOMAIN q.headers
                           /\ None \notin {q.headers}
                                  \union {Injected(q.headers, i) : i \in AuthInfos}
    /\ UserHeader # GroupsHeader
=============================================================================
