------------------------ MODULE PathMatcher_proofs ------------------------
(***************************************************************************)
(* The loop of check_path computes CheckPath, for patterns and paths of any *)
(* length over any segments.                                                *)
(***************************************************************************)
EXTENDS PathMatcher, WellFoundedInduction, TLAPS

\* The variables that the segments before n bind.
BoundBefore(n) == {k \in 1..n - 1 : pattern[k].kind = "Variable"}

LastBefore(n, x) == Max({k \in BoundBefore(n) : pattern[k].text = x})

VariablesBefore(n) ==
    [x \in {pattern[k].text : k \in BoundBefore(n)} |-> pieces[LastBefore(n, x)]]

\* The loop has only passed segments that fit and are not **.
LoopInv ==
    /\ verdict \in {"loop", "match"} =>
        /\ pattern # <<>> /\ ~TooShort(pattern, pieces)
        /\ \A k \in 1..i - 1 : /\ pattern[k] # Literal("**")
                               /\ k <= Len(pieces) /\ Fits(pattern[k], pieces[k])
        /\ variables = VariablesBefore(i)
    /\ verdict = "entered" => i = 1 /\ variables = Empty
    /\ verdict = "match" => i = Len(pattern) + 1 \/ pattern[i] = Literal("**")
    /\ verdict = "none" => CheckPath(pattern, pieces).verdict = "none"
    /\ verdict = "panic" => CheckPath(pattern, pieces).verdict = "panic" /\ ~Sane

Inv == TypeOK /\ LoopInv

-----------------------------------------------------------------------------
(* The greatest element of a set of numbers is its Max.                     *)
LEMMA MaxIs ==
    ASSUME NEW S \in SUBSET Nat, NEW n \in S, \A k \in S : k <= n
    PROVE  Max(S) = n
<1>1. \A x \in S : (\A y \in S : x >= y) => x = n
  OBVIOUS
<1>2. \A y \in S : n >= y
  OBVIOUS
<1> QED BY <1>1, <1>2 DEF Max

(* insert of the piece at n adds what the segment at n binds, over what an  *)
(* earlier segment of the same name bound (rule.rs:26-28).                  *)
LEMMA InsertBinds ==
    ASSUME NEW n \in Nat \ {0}, pattern[n].kind = "Variable"
    PROVE  Insert(VariablesBefore(n), pattern[n].text, pieces[n]) = VariablesBefore(n + 1)
<1> DEFINE D == {pattern[k].text : k \in BoundBefore(n)}
<1>1. BoundBefore(n + 1) = BoundBefore(n) \union {n}
  BY DEF BoundBefore
<1>2. {pattern[k].text : k \in BoundBefore(n + 1)} = D \union {pattern[n].text}
  BY <1>1
<1>3. LastBefore(n + 1, pattern[n].text) = n
  <2>1. n \in {k \in BoundBefore(n + 1) : pattern[k].text = pattern[n].text}
    BY <1>1
  <2>2. \A k \in BoundBefore(n + 1) : k \in Nat /\ k <= n
    BY DEF BoundBefore
  <2> QED BY <2>1, <2>2, MaxIs DEF LastBefore
<1>4. ASSUME NEW x, x # pattern[n].text
      PROVE  LastBefore(n + 1, x) = LastBefore(n, x)
  <2>1. {k \in BoundBefore(n + 1) : pattern[k].text = x} = {k \in BoundBefore(n) : pattern[k].text = x}
    BY <1>1, <1>4
  <2> QED BY <2>1 DEF LastBefore
<1> QED BY <1>2, <1>3, <1>4 DEF Insert, VariablesBefore

(* A segment that does not bind leaves the variables as they are.           *)
LEMMA PassBindsNothing ==
    ASSUME NEW n \in Nat \ {0}, pattern[n].kind # "Variable"
    PROVE  VariablesBefore(n + 1) = VariablesBefore(n)
<1>1. BoundBefore(n + 1) = BoundBefore(n)
  BY DEF BoundBefore
<1> QED BY <1>1 DEF VariablesBefore, LastBefore

-----------------------------------------------------------------------------
LEMMA Types ==
    ASSUME Inv
    PROVE  /\ pattern \in Seq(Segments) /\ pieces \in Seq(Texts)
           /\ Len(pattern) \in Nat /\ Len(pieces) \in Nat
           /\ DOMAIN pattern = 1..Len(pattern)
           /\ i \in Nat \ {0}
           /\ \A k \in 1..Len(pattern) : pattern[k] \in Segments
           /\ \A k \in 1..Len(pieces) : pieces[k] \in Texts
<1>1. pattern \in Seq(Segments) /\ pieces \in Seq(Texts)
  BY PathAssumption DEF Inv, TypeOK
<1> QED BY <1>1 DEF Inv, TypeOK

(* Past the checks on the lengths, at most the last segment has no piece.   *)
LEMMA BeyondIsLast ==
    ASSUME Inv, ~TooShort(pattern, pieces), i \in 1..Len(pattern), i > Len(pieces)
    PROVE  i = Len(pattern) /\ Len(pattern) = Len(pieces) + 1 /\ LastIsAny(pattern)
<1>1. Len(pattern) \in Nat /\ Len(pieces) \in Nat /\ i \in Nat
  BY Types
<1>2. ~(Len(pattern) > Len(pieces) + 1)
  BY DEF TooShort
<1>3. i = Len(pattern) /\ Len(pattern) = Len(pieces) + 1
  BY <1>1, <1>2
<1> QED BY <1>3 DEF TooShort

LEMMA InitIsGood == Init => Inv
<1> SUFFICES ASSUME Init PROVE Inv
  OBVIOUS
<1>1. Len(pattern) \in Nat
  BY PathAssumption DEF Init
<1>2. Empty \in PartialFunctions(Texts, Texts)
  BY DEF Empty, PartialFunctions
<1> QED BY <1>1, <1>2 DEF Init, Inv, TypeOK, LoopInv, Running

(* The checks before the loop (rule.rs:11-22).                              *)
LEMMA EntryKeeps ==
    ASSUME Inv, Underflow \/ Refuse \/ EnterLoop
    PROVE  Inv'
<1>1. CASE Underflow
  BY <1>1 DEF Underflow, Return, Inv, TypeOK, LoopInv, CheckPath, Panics, Sane
<1>2. CASE Refuse
  BY <1>2 DEF Refuse, Return, Inv, TypeOK, LoopInv, CheckPath, NoMatch
<1>3. CASE EnterLoop
  <2>1. i = 1 /\ variables = Empty
    BY <1>3 DEF EnterLoop, Inv, LoopInv
  <2>2. Empty = VariablesBefore(1)
    BY DEF Empty, VariablesBefore, BoundBefore
  <2>3. variables' = VariablesBefore(i)'
    BY <1>3, <2>1, <2>2 DEF EnterLoop, Return, VariablesBefore, LastBefore, BoundBefore
  <2> QED BY <1>3, <2>1, <2>3, Types DEF EnterLoop, Return, Inv, TypeOK, LoopInv, Running
<1> QED BY <1>1, <1>2, <1>3

(* Returning from the loop at a ** or at its end.                           *)
LEMMA MatchKeeps ==
    ASSUME Inv, GlobStar \/ AtEnd
    PROVE  Inv'
<1>1. variables' = VariablesBefore(i)'
  <2>1. verdict = "loop" /\ UNCHANGED <<pattern, pieces, i, variables>>
    BY DEF InLoop, GlobStar, AtEnd, Return
  <2>2. variables = VariablesBefore(i)
    BY <2>1 DEF Inv, LoopInv
  <2>3. VariablesBefore(i)' = VariablesBefore(i)
    BY <2>1 DEF VariablesBefore, LastBefore, BoundBefore
  <2> QED BY <2>1, <2>2, <2>3
<1> QED BY <1>1, Types DEF GlobStar, AtEnd, InLoop, Return, Inv, TypeOK, LoopInv, TooShort, LastIsAny

(* Past a segment: it binds, or it fits.                                    *)
LEMMA StepKeeps ==
    ASSUME Inv, Bind \/ Pass
    PROVE  Inv'
<1>1. /\ verdict = "loop" /\ i \in 1..Len(pattern) /\ i' = i + 1
      /\ UNCHANGED <<pattern, pieces, verdict>>
      /\ pattern # <<>> /\ ~TooShort(pattern, pieces)
      /\ variables = VariablesBefore(i)
  BY DEF Bind, Pass, InLoop, Inv, TypeOK, LoopInv
<1>2. pattern[i] # Literal("**")
  BY Types DEF Bind, Pass, Indexes, Literal
<1>3. i <= Len(pieces)
  <2>1. CASE Bind
    BY <2>1 DEF Bind
  <2>2. CASE Pass /\ pattern[i] = Literal("*")
    <3>1. SUFFICES ASSUME i > Len(pieces)
                   PROVE  FALSE
      BY <1>1, Types
    <3>2. i = Len(pattern) /\ LastIsAny(pattern)
      BY <1>1, <3>1, BeyondIsLast
    <3> QED BY <2>2, <3>2 DEF LastIsAny, Literal, Variable
  <2>3. CASE Pass /\ pattern[i] # Literal("*")
    BY <2>3 DEF Pass
  <2> QED BY <2>1, <2>2, <2>3
<1>4. Fits(pattern[i], pieces[i])
  BY <1>1, <1>3 DEF Bind, Pass, Fits, Literal
<1>5. variables' = VariablesBefore(i + 1)
  <2>1. CASE Bind
    BY <1>1, <2>1, InsertBinds DEF Bind
  <2>2. CASE Pass
    BY <1>1, <2>2, PassBindsNothing DEF Pass
  <2> QED BY <2>1, <2>2
<1>6. VariablesBefore(i + 1) = VariablesBefore(i)'
  BY <1>1 DEF VariablesBefore, LastBefore, BoundBefore
<1>7. variables' \in PartialFunctions(Texts, Texts)
  <2>1. CASE Bind
    <3>1. PICK D \in SUBSET Texts : variables \in [D -> Texts]
      BY DEF Inv, TypeOK, PartialFunctions
    <3>2. pattern[i].text \in Texts /\ pieces[i] \in Texts
      BY <1>1, <1>3, Types DEF Segments
    <3>3. variables' \in [D \union {pattern[i].text} -> Texts]
      BY <2>1, <3>1, <3>2 DEF Bind, Insert
    <3> QED BY <3>2, <3>3 DEF PartialFunctions
  <2>2. CASE Pass
    BY <2>2 DEF Pass, Inv, TypeOK
  <2> QED BY <2>1, <2>2
<1>8. TypeOK'
  BY <1>1, <1>7, Types DEF Inv, TypeOK
<1>9. \A k \in 1..i : pattern[k] # Literal("**") /\ k <= Len(pieces) /\ Fits(pattern[k], pieces[k])
  BY <1>1, <1>2, <1>3, <1>4 DEF Inv, LoopInv
<1>10. LoopInv'
  BY <1>1, <1>5, <1>6, <1>9 DEF LoopInv
<1> QED BY <1>8, <1>10 DEF Inv

(* Returning without a match, or not at all.                                *)
LEMMA FailKeeps ==
    ASSUME Inv, Differ \/ OutOfBounds
    PROVE  Inv'
<1>1. /\ verdict = "loop" /\ i \in 1..Len(pattern)
      /\ pattern # <<>> /\ ~TooShort(pattern, pieces)
      /\ \A k \in 1..i - 1 : /\ pattern[k] # Literal("**")
                             /\ k <= Len(pieces) /\ Fits(pattern[k], pieces[k])
      /\ UNCHANGED <<pattern, pieces, i, variables>>
  BY DEF Differ, OutOfBounds, Return, InLoop, Inv, TypeOK, LoopInv
<1>2. i \in Scanned(pattern)
  BY <1>1, Types DEF Scanned, Differ, OutOfBounds, Indexes
<1>3. CASE Differ
  <2>1. i <= Len(pieces) /\ ~Fits(pattern[i], pieces[i])
    BY <1>1, <1>3, Types DEF Differ, Indexes, Fits, Literal, Segments
  <2>2. CheckPath(pattern, pieces).verdict = "none"
    BY <1>1, <1>2, <2>1 DEF CheckPath, NoMatch
  <2> QED BY <1>1, <1>3, <2>2 DEF Differ, Return, Inv, TypeOK, LoopInv
<1>4. CASE OutOfBounds
  <2>1. i = Len(pattern) /\ Len(pattern) = Len(pieces) + 1 /\ LastIsAny(pattern)
    BY <1>1, <1>4, BeyondIsLast DEF OutOfBounds
  <2>2. pattern[i] = Variable("*")
    BY <1>4, <2>1 DEF OutOfBounds, LastIsAny, Indexes
  <2>3. \A k \in Scanned(pattern) : k <= Len(pieces) => Fits(pattern[k], pieces[k])
    BY <1>1, <2>1, Types DEF Scanned
  <2>4. CheckPath(pattern, pieces).verdict = "panic"
    BY <1>1, <1>2, <2>1, <2>3, Types DEF CheckPath, Panics
  <2> QED BY <1>1, <1>4, <2>1, <2>2, <2>4 DEF OutOfBounds, Return, Inv, TypeOK, LoopInv, Sane
<1> QED BY <1>3, <1>4

LEMMA NextKeeps == Inv /\ [Next]_vars => Inv'
<1>1. CASE UNCHANGED vars
  BY <1>1 DEF vars, Inv, TypeOK, LoopInv, VariablesBefore, LastBefore, BoundBefore, Sane
<1> QED BY <1>1, EntryKeeps, MatchKeeps, StepKeeps, FailKeeps DEF Next

THEOREM Invariance == Spec => []Inv
BY InitIsGood, NextKeeps, PTL DEF Spec

(* The index stays within a step of the pattern, and what is bound are      *)
(* texts of the pattern and of the path.                                    *)
THEOREM TypeCorrect == Spec => []TypeOK
<1>1. Inv => TypeOK
  BY DEF Inv
<1> QED BY <1>1, Invariance, PTL

LEMMA ComputesFromInv == Inv => ComputesCheckPath
<1>1. ASSUME Inv, verdict = "match"
      PROVE  CheckPath(pattern, pieces) = Match(variables)
  <2>1. /\ pattern # <<>> /\ ~TooShort(pattern, pieces)
        /\ \A k \in 1..i - 1 : /\ pattern[k] # Literal("**")
                               /\ k <= Len(pieces) /\ Fits(pattern[k], pieces[k])
        /\ variables = VariablesBefore(i)
        /\ i = Len(pattern) + 1 \/ pattern[i] = Literal("**")
        /\ i \in 1..Len(pattern) + 1
    BY <1>1 DEF Inv, TypeOK, LoopInv
  <2>2. Scanned(pattern) = 1..i - 1
    <3>1. 1..i - 1 \subseteq Scanned(pattern)
      BY <1>1, <2>1, Types DEF Scanned
    <3>2. ASSUME NEW k \in Scanned(pattern)
          PROVE  k \in 1..i - 1
      BY <1>1, <2>1, Types DEF Scanned
    <3> QED BY <3>1, <3>2
  <2>3. Captured(pattern) = BoundBefore(i)
    BY <2>2 DEF Captured, BoundBefore
  <2> QED BY <2>1, <2>2, <2>3 DEF CheckPath, Match, VariablesBefore, LastBefore
<1> QED BY <1>1 DEF Inv, TypeOK, LoopInv, ComputesCheckPath, Match

(* Where a pattern does not fit and where it does, and every variable of a  *)
(* match: the loop of rule.rs:24-41 is CheckPath.                           *)
THEOREM LoopComputesCheckPath == Spec => []ComputesCheckPath
BY ComputesFromInv, Invariance, PTL

(* A pattern that has a segment, the last not {*}, is checked without a     *)
(* panic, whatever the request (rule.rs:14-27).                             *)
THEOREM SanePatternsDoNotPanic == Spec => []PanicsOnlyIfInsane
<1>1. Inv => PanicsOnlyIfInsane
  BY DEF Inv, LoopInv, PanicsOnlyIfInsane
<1> QED BY <1>1, Invariance, PTL

-----------------------------------------------------------------------------
(* Where ** stands last or not at all, the segments before it have one      *)
(* piece each: the k-th that of its place.                                  *)
LEMMA CutInOrder ==
    ASSUME NEW n \in Nat, NEW cut,
           cut[0] = 0, \A k \in 1..n : cut[k] = cut[k - 1] + 1
    PROVE  \A k \in 0..n : cut[k] = k
<1> DEFINE T == {k \in 0..n : cut[k] # k}
<1> SUFFICES ASSUME T # {} PROVE FALSE
  OBVIOUS
<1>1. T \subseteq Nat
  OBVIOUS
<1> HIDE DEF T
<1>2. PICK k \in T : \A m \in T : ~(m < k)
  <2>1. IsWellFoundedOn(OpToRel(<, Nat), Nat)
    BY NatLessThanWellFounded
  <2>2. PICK k \in T : \A m \in T : ~(<<m, k>> \in OpToRel(<, Nat))
    BY <1>1, <2>1, WFMin, Zenon
  <2> QED BY <1>1, <2>2 DEF OpToRel
<1>3. k \in 0..n /\ cut[k] # k
  BY DEF T
<1>4. k # 0 => k - 1 \in 0..n /\ k - 1 \notin T
  BY <1>2, <1>3
<1>5. k # 0 => k \in 1..n /\ cut[k - 1] = k - 1
  BY <1>3, <1>4 DEF T
<1> QED BY <1>3, <1>5

LEMMA CheckedIsGlob ==
    ASSUME Inv, Sane, GlobOnlyLast
    PROVE  CheckPath(pattern, pieces).verdict = "match" <=> Glob(pattern, pieces)
<1> DEFINE L == Len(pattern)
           N == Len(pieces)
           star == pattern[L] = Literal("**")
           scanned == IF star THEN L - 1 ELSE L
<1>1. /\ L \in Nat /\ N \in Nat /\ L # 0
      /\ DOMAIN pattern = 1..L /\ pattern # <<>> /\ pattern[L] # Variable("*")
      /\ \A k \in 1..L : pattern[k] = Literal("**") => k = L
  <2>1. pattern \in Seq(Segments) /\ L \in Nat /\ N \in Nat /\ DOMAIN pattern = 1..L
    BY Types
  <2>2. pattern # <<>> => L # 0
    BY <2>1
  <2> QED BY <2>1, <2>2 DEF Sane, GlobOnlyLast
<1>2. scanned \in 0..L /\ Scanned(pattern) = 1..scanned
  <2>1. Scanned(pattern) = {k \in 1..L : \A j \in 1..k : pattern[j] # Literal("**")}
    BY <1>1 DEF Scanned
  <2> HIDE DEF L, N
  <2>2. CASE star
    BY <1>1, <2>1, <2>2
  <2>3. CASE ~star
    BY <1>1, <2>1, <2>3
  <2> QED BY <2>2, <2>3
<1>3. CheckPath(pattern, pieces).verdict = "match" <=>
          /\ ~TooShort(pattern, pieces)
          /\ \A k \in 1..scanned : k <= N /\ Fits(pattern[k], pieces[k])
  <2> DEFINE fits == \A k \in Scanned(pattern) : k <= N => Fits(pattern[k], pieces[k])
             beyond == \E k \in Scanned(pattern) : k > N
  <2>1. CheckPath(pattern, pieces).verdict =
            IF TooShort(pattern, pieces) \/ ~fits THEN "none"
            ELSE IF beyond THEN "panic" ELSE "match"
    BY <1>1 DEF CheckPath, Match, NoMatch, Panics
  <2> HIDE DEF L, N, scanned
  <2>2. fits /\ ~beyond <=> \A k \in 1..scanned : k <= N /\ Fits(pattern[k], pieces[k])
    BY <1>1, <1>2
  <2> HIDE DEF fits, beyond
  <2> QED BY <2>1, <2>2
<1> HIDE DEF L, N
<1>4. TooShort(pattern, pieces) <=> L > N + 1 \/ (L = N + 1 /\ ~star)
  BY <1>1 DEF TooShort, LastIsAny, L, N
<1>5. ASSUME ~TooShort(pattern, pieces),
             \A k \in 1..scanned : k <= N /\ Fits(pattern[k], pieces[k])
      PROVE  Glob(pattern, pieces)
  <2> DEFINE cut == [k \in 0..L |-> IF k <= scanned THEN k ELSE scanned]
  <2>1. cut \in [0..L -> 0..N]
    BY <1>1, <1>2, <1>4, <1>5
  <2>2. cut[0] = 0
    BY <1>1, <1>2
  <2>3. ASSUME NEW k \in 1..L
        PROVE  IF pattern[k] = Literal("**") THEN cut[k] >= cut[k - 1]
               ELSE cut[k] = cut[k - 1] + 1 /\ Fits(pattern[k], pieces[cut[k]])
    <3>1. CASE pattern[k] = Literal("**")
      BY <1>1, <1>2, <3>1
    <3>2. CASE pattern[k] # Literal("**")
      <4>1. k \in 1..scanned
        BY <1>1, <1>2, <3>2
      <4>2. cut[k] = k /\ cut[k - 1] = k - 1
        BY <1>1, <1>2, <4>1
      <4> QED BY <1>5, <3>2, <4>1, <4>2
    <3> QED BY <3>1, <3>2
  <2> HIDE DEF cut
  <2>4. Divides(cut, pattern, pieces)
    BY <2>2, <2>3 DEF Divides, L
  <2> QED BY <2>1, <2>4 DEF Glob, L, N
<1>6. ASSUME Glob(pattern, pieces)
      PROVE  /\ ~TooShort(pattern, pieces)
             /\ \A k \in 1..scanned : k <= N /\ Fits(pattern[k], pieces[k])
  <2>1. PICK cut \in [0..L -> 0..N] : Divides(cut, pattern, pieces)
    BY <1>6 DEF Glob, L, N
  <2>2. /\ cut[0] = 0
        /\ \A k \in 1..L : IF pattern[k] = Literal("**") THEN cut[k] >= cut[k - 1]
                           ELSE cut[k] = cut[k - 1] + 1 /\ Fits(pattern[k], pieces[cut[k]])
    BY <2>1, Zenon DEF Divides, L
  <2>3. \A k \in 1..scanned :
            k \in 1..L /\ k \in 0..L /\ k \in 0..scanned /\ pattern[k] # Literal("**")
    BY <1>1, <1>2
  <2>4. \A k \in 0..scanned : cut[k] = k
    <3>1. scanned \in Nat /\ \A k \in 1..scanned : cut[k] = cut[k - 1] + 1
      BY <1>1, <1>2, <2>2, <2>3
    <3> HIDE DEF scanned
    <3> QED BY <2>2, <3>1, CutInOrder
  <2>5. \A k \in 1..scanned : k <= N /\ Fits(pattern[k], pieces[k])
    BY <2>1, <2>2, <2>3, <2>4
  <2>6. scanned <= N
    BY <1>1, <1>2, <2>5
  <2> QED BY <1>1, <1>2, <1>4, <2>5, <2>6
<1> QED BY <1>3, <1>5, <1>6

(* For every pattern that ends in its only **, if it has one, and not in    *)
(* {*}, and for every path: the matcher is the README's glob.               *)
THEOREM MatcherIsGlob == Spec => []MatchesAsDocumented
<1>1. ASSUME Inv PROVE ComputesCheckPath
  BY <1>1, ComputesFromInv
<1>2. Inv => MatchesAsDocumented
  BY <1>1, CheckedIsGlob DEF Inv, ComputesCheckPath, MatchesAsDocumented
<1> QED BY <1>2, Invariance, PTL
=============================================================================
