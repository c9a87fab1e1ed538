----------------------------- MODULE MCHungCalls -----------------------------
(* Two requests of MCSystem.  The review of one token hangs, and that of the *)
(* permission that one of the other's bearers asks for.                     *)
EXTENDS HungCalls, MCSystem

\* The second token's user has the permission without groups too, or there is
\* no user to show for the token.
Given(user) == [Of(user) EXCEPT !.allowed = {<<[username |-> user, groups |-> <<>>], PostToB>>}]
NoUserInfo(w) == [w EXCEPT !.review = [@ EXCEPT ![t2] = [@ EXCEPT !.user = None]]]
HungWorlds == {Of("bob"), Given("alice"), NoUserInfo(Of("alice"))}

HungIncoming == {q \in MCIncoming : q.path # <<"", "ping", "Do">>}

HungReviews == {TokenReview(t1),
                SubjectAccessReview([username |-> "bob", groups |-> <<>>], PostToB)}
=============================================================================
