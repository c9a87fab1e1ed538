--------------------------- MODULE MCPathMatcher ---------------------------
(* Every pattern of up to three segments and path of up to three pieces.    *)
EXTENDS PathMatcher

MCTexts == {"a", "b", "*", "**"}

UpTo(n, S) == UNION {[1..k -> S] : k \in 0..n}

MCPatterns == UpTo(3, {Literal("a"), Literal("*"), Literal("**"),
                       Variable("a"), Variable("b"), Variable("*")})

MCPaths == UpTo(3, {"a", "b"})
=============================================================================
