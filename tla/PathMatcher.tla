---------------------------- MODULE PathMatcher ----------------------------
(***************************************************************************)
(* check_path (src/http/rule.rs) as it runs: the checks on the lengths,     *)
(* then the loop over the pattern's segments, which indexes the request's   *)
(* pieces and collects variables until it returns.  CheckPath in Rules says *)
(* what it computes.                                                        *)
(***************************************************************************)
EXTENDS Rules

CONSTANTS Texts,     \* segments of paths and names of variables
          Patterns,  \* the path of a rule, parsed
          Paths      \* the path of a request, in pieces without empty ones

Segments == [kind : {"Variable", "Literal"}, text : Texts]

ASSUME PathAssumption == Patterns \subseteq Seq(Segments) /\ Paths \subseteq Seq(Texts)

VARIABLES
    pattern, pieces,  \* its arguments
    i,                \* the segment the loop is at
    variables,        \* what it has collected
    verdict           \* where it is, or how it returned

vars == <<pattern, pieces, i, variables, verdict>>

Running == {"entered", "loop"}

\* The functions from some of S to T: what a HashMap from S to T may hold.
PartialFunctions(S, T) == UNION {[D -> T] : D \in SUBSET S}

TypeOK ==
    /\ pattern \in Patterns /\ pieces \in Paths
    /\ i \in 1..Len(pattern) + 1
    /\ variables \in PartialFunctions(Texts, Texts)
    /\ verdict \in Running \union {"match", "none", "panic"}

Init ==
    /\ pattern \in Patterns /\ pieces \in Paths
    /\ i = 1 /\ variables = Empty /\ verdict = "entered"

Return(v) == verdict' = v /\ UNCHANGED <<pattern, pieces, i, variables>>

\* m_len - 1 has no value for an empty pattern.
Underflow == verdict = "entered" /\ pattern = <<>> /\ Return("panic")

Refuse == /\ verdict = "entered" /\ pattern # <<>>
          /\ TooShort(pattern, pieces)
          /\ Return("none")

EnterLoop == /\ verdict = "entered" /\ pattern # <<>>
             /\ ~TooShort(pattern, pieces)
             /\ Return("loop")

InLoop == verdict = "loop" /\ i <= Len(pattern)

\* The segments that look at request_path[i].
Indexes(segment) == segment \notin {Literal("*"), Literal("**")}

OutOfBounds == /\ InLoop /\ Indexes(pattern[i]) /\ i > Len(pieces)
               /\ Return("panic")

\* Mutants: binding all that is left of the path; keeping an earlier binding.
BindRest == /\ InLoop /\ pattern[i].kind = "Variable" /\ i <= Len(pieces)
            /\ variables' = Insert(variables, pattern[i].text, SubSeq(pieces, i, Len(pieces)))
            /\ i' = i + 1
            /\ UNCHANGED <<pattern, pieces, verdict>>

BindFirst == /\ InLoop /\ pattern[i].kind = "Variable" /\ i <= Len(pieces)
             /\ variables' = Extend(Insert(Empty, pattern[i].text, pieces[i]), variables)
             /\ i' = i + 1
             /\ UNCHANGED <<pattern, pieces, verdict>>

Bind == /\ InLoop /\ pattern[i].kind = "Variable" /\ i <= Len(pieces)
        /\ variables' = Insert(variables, pattern[i].text, pieces[i])
        /\ i' = i + 1
        /\ UNCHANGED <<pattern, pieces, verdict>>

GlobStar == InLoop /\ pattern[i] = Literal("**") /\ Return("match")

\* A wildcard, or a literal that the piece is equal to.
Pass == /\ InLoop /\ pattern[i].kind = "Literal"
        /\ \/ pattern[i] = Literal("*")
           \/ /\ Indexes(pattern[i]) /\ i <= Len(pieces)
              /\ pieces[i] = pattern[i].text
        /\ i' = i + 1
        /\ UNCHANGED <<pattern, pieces, variables, verdict>>

Differ == /\ InLoop /\ pattern[i].kind = "Literal" /\ Indexes(pattern[i])
          /\ i <= Len(pieces) /\ pieces[i] # pattern[i].text
          /\ Return("none")

AtEnd == verdict = "loop" /\ i > Len(pattern) /\ Return("match")

Next == Underflow \/ Refuse \/ EnterLoop \/ OutOfBounds \/ Bind \/ GlobStar
            \/ Pass \/ Differ \/ AtEnd

Spec == Init /\ [][Next]_vars

-----------------------------------------------------------------------------
(* The loop, with its early returns and its unchecked indexing, computes    *)
(* what CheckPath says, to the last variable (rule.rs:9-42).                *)
ComputesCheckPath ==
    verdict \notin Running =>
        LET said == CheckPath(pattern, pieces) IN
        /\ verdict = said.verdict
        /\ verdict = "match" => variables = said.vars

(* Indexing is safe but for a pattern without segments and one that ends in *)
(* {*} (rule.rs:14-15 and 27).                                              *)
Sane == pattern # <<>> /\ pattern[Len(pattern)] # Variable("*")

PanicsOnlyIfInsane == verdict = "panic" => ~Sane

(* The pattern language of README.md:162, with ** for any number of pieces: *)
(* the pieces can be divided among the segments of p, in order, so that     *)
(* segment k has those from cut[k - 1] + 1 to cut[k].  What is left of the  *)
(* path is below what the pattern says.                                     *)
Divides(cut, p, q) ==
    /\ cut[0] = 0
    /\ \A k \in 1..Len(p) :
           IF p[k] = Literal("**") THEN cut[k] >= cut[k - 1]
           ELSE cut[k] = cut[k - 1] + 1 /\ Fits(p[k], q[cut[k]])

Glob(p, q) == \E cut \in [0..Len(p) -> 0..Len(q)] : Divides(cut, p, q)

GlobOnlyLast == \A k \in DOMAIN pattern : pattern[k] = Literal("**") => k = Len(pattern)

(* With ** only at the end of a pattern, and no {*} there, the matcher is   *)
(* the README's: a literal, {variable} or * for one piece, ** for the rest, *)
(* and a shorter pattern for all the paths below it (rule.rs:9-42).         *)
MatchesAsDocumented ==
    verdict \notin Running /\ Sane /\ GlobOnlyLast =>
        (verdict = "match" <=> Glob(pattern, pieces))

(* README.md:162: a path pattern "supports {var} extraction, * (single      *)
(* segment wildcard), ** (globstar)", wherever the ** stands.               *)
GlobStarAnywhere ==
    verdict = "match" /\ Sane => Glob(pattern, pieces)
=============================================================================
