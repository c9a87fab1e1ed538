----------------------------- MODULE Kubernetes -----------------------------
(***************************************************************************)
(* What the gateway knows of Kubernetes: identities, the attributes of an   *)
(* access, and what the TokenReview and SubjectAccessReview APIs would      *)
(* answer at one time (a world).                                            *)
(***************************************************************************)
EXTENDS Option, Integers, Sequences, FiniteSets

CONSTANTS
    Requests,            \* slots for requests in progress, over both proxies
    Tokens,              \* bearer tokens
    Usernames,           \* user names of Kubernetes identities
    GroupLists,          \* lists of groups of Kubernetes identities
    Attrs,               \* RbacAttributes that a matching rule compiles to
    Audiences,           \* audiences Kubernetes may return for a token
    RequestedAudiences,  \* auth.token-review-audiences of the configuration
    Worlds,              \* what Kubernetes may answer at one time
    TTL,                 \* auth.cache-ttl-secs, in ticks
    MaxReply             \* ticks an answer of Kubernetes may take to come back

AuthInfos == [username : Usernames, groups : GroupLists]

\* What the gateway reads of a TokenReview's status.
TokenStatuses == [authenticated : BOOLEAN,
                  audiences : SUBSET Audiences,
                  user : AuthInfos \union {None}]

AllWorlds == [review : [Tokens -> TokenStatuses],
              allowed : SUBSET (AuthInfos \X Attrs)]

(* Kubernetes vouches for the bearer of t, for an audience asked for. *)
Vouched(w, t, i) ==
    /\ w.review[t].authenticated
    /\ w.review[t].user = i
    /\ RequestedAudiences # {} =>
           \E d \in RequestedAudiences : d \in w.review[t].audiences

AuthErrors == {"Unauthenticated", "Unauthorized", "Internal"}

\* What evaluate_request is given, and the time it is called.
Asks == [token : Tokens, attrs : Attrs \union {None}, arrived : Nat]

\* What evaluate_request returns: allowed comes with the identity.
Allowed(i) == [verdict |-> "allowed", info |-> i]
Denied(v)  == [verdict |-> v, info |-> None]

Outcomes == [verdict : {"allowed"}, info : AuthInfos]
               \union [verdict : AuthErrors \union {"no rule matched"}, info : {None}]

ASSUME WorldsAssumption == Worlds \subseteq AllWorlds

ASSUME KubernetesAssumption ==
    /\ TTL \in Nat /\ MaxReply \in Nat
    /\ None \notin AuthInfos \union Attrs
    /\ None \notin Asks \union Outcomes
=============================================================================
