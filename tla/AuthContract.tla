---------------------------- MODULE AuthContract ----------------------------
(***************************************************************************)
(* What the authentication client promises to a request that carries a      *)
(* bearer token, whatever it caches, shares between requests or loses: the  *)
(* request is allowed only on Kubernetes' word.  It does not  *)
(* say how the word is obtained; src/auth/mod.rs declares this interface,   *)
(* README.md ("How it works", 2 and 5) says what it is for.                 *)
(***************************************************************************)
EXTENDS Kubernetes

VARIABLES
    world,   \* what Kubernetes would answer, per tick so far
    ask,     \* what each request in progress asks, or None
    outcome  \* how the last request of each slot ended, or None

vars == <<world, ask, outcome>>

Now == Len(world)

(* The times whose word may be used for a request: no older, at its         *)
(* arrival, than an answer's way back and less than a time to live.         *)
Window(r) == {n \in 1..Now : \/ ask[r].arrived <= n + MaxReply
                             \/ ask[r].arrived < n + MaxReply + TTL}

Identified(r, i) == \E n \in Window(r) : Vouched(world[n], ask[r].token, i)

Permitted(r, i) == \E n \in Window(r) : <<i, ask[r].attrs>> \in world[n].allowed

Justified(r, o) ==
    LET identified == \E i \in AuthInfos : Identified(r, i) IN
    /\ o.verdict = "allowed" => Identified(r, o.info) /\ Permitted(r, o.info)
    /\ o.verdict = "no rule matched" => identified /\ ask[r].attrs = None
    /\ o.verdict = "Unauthorized" => identified

Init ==
    /\ world \in {<<w>> : w \in Worlds}
    /\ ask = [r \in Requests |-> None]
    /\ outcome = [r \in Requests |-> None]

Begin(r, t, a) ==
    /\ ask[r] = None
    /\ ask' = [ask EXCEPT ![r] = [token |-> t, attrs |-> a, arrived |-> Now]]
    /\ outcome' = [outcome EXCEPT ![r] = None]
    /\ UNCHANGED world

Decide(r, o) ==
    /\ ask[r] # None
    /\ ask' = [ask EXCEPT ![r] = None]
    /\ outcome' = [outcome EXCEPT ![r] = o]
    /\ Justified(r, o)
    /\ UNCHANGED world

Advance(w) ==
    /\ world' = Append(world, w)
    /\ UNCHANGED <<ask, outcome>>

Next ==
    \/ \E r \in Requests, t \in Tokens, a \in Attrs \union {None} : Begin(r, t, a)
    \/ \E r \in Requests, o \in Outcomes : Decide(r, o)
    \/ \E w \in Worlds : Advance(w)

Safety == Init /\ [][Next]_vars
=============================================================================
