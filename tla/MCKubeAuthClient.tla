-------------------------- MODULE MCKubeAuthClient --------------------------
(* KubeAuthClient on small instances.  One token, of a user in different     *)
(* groups over time, and one permission, given to one group.                *)
EXTENDS KubeAuthClient, TLC

CONSTANTS t, u, g1, g2, a, aud, other

\* A bijection between the fields hashed and small numbers: the digests of the
\* token and of a permission overlap, as each cache has keys of its own.
MCDigest(x) == IF x = <<t>> \/ x = <<u, g1, a>> THEN 1
               ELSE IF x = <<u, g2, a>> THEN 2 ELSE 3

Bears(g) == [authenticated |-> TRUE, audiences |-> {aud, other},
             user |-> [username |-> u, groups |-> g]]
Unknown == [authenticated |-> FALSE, audiences |-> {}, user |-> None]
OtherAudience == [Bears(g2) EXCEPT !.audiences = {other}]

World(status, G) == [review |-> t :> status,
                     allowed |-> {<<[username |-> u, groups |-> g], a>> : g \in G}]

\* The token's bearer changes groups, or the token is for somebody else.
ChangingWorlds == {World(Bears(g1), {g1}), World(Bears(g2), {g1}), World(OtherAudience, {g2})}

\* The token is good or revoked.
RevokingWorlds == {World(Bears(g1), {g1}), World(Unknown, {g1})}

Symmetric == Permutations(Requests)
=============================================================================
