-------------------------- MODULE ConfigFile_proofs --------------------------
(***************************************************************************)
(* Which rule of the file is the first match in the list that the loader    *)
(* makes of it.  Induction over the file is by least counterexample.        *)
(***************************************************************************)
EXTENDS ConfigFile, WellFoundedInduction, SequenceTheorems, TLAPS

(* A set of naturals that has a member has a least one.                     *)
LEMMA LeastMember ==
    ASSUME NEW T, T \subseteq Nat, T # {}
    PROVE  \E n \in T : \A m \in T : n <= m
<1>1. IsWellFoundedOn(OpToRel(<, Nat), Nat)
  BY NatLessThanWellFounded
<1>2. PICK n \in T : \A m \in T : ~(<<m, n>> \in OpToRel(<, Nat))
  BY <1>1, WFMin, Zenon
<1>3. \A m \in T : ~(m < n)
  BY <1>2 DEF OpToRel
<1> QED
  BY <1>3

(* Min is the least member, where there is one.                             *)
LEMMA MinIsLeast ==
    ASSUME NEW T, T \subseteq Nat, T # {}
    PROVE  Min(T) \in T /\ \A m \in T : Min(T) <= m
<1>1. \E n \in T : \A m \in T : n <= m
  BY LeastMember, Zenon
<1> QED
  BY <1>1, Zenon DEF Min

LEMMA MinIs ==
    ASSUME NEW T, T \subseteq Nat, NEW n \in T, \A m \in T : n <= m
    PROVE  Min(T) = n
<1>1. Min(T) \in T /\ \A m \in T : Min(T) <= m
  BY MinIsLeast, Zenon
<1>2. Min(T) <= n /\ n <= Min(T) /\ n \in Nat /\ Min(T) \in Nat
  BY <1>1
<1> QED
  BY <1>2

-----------------------------------------------------------------------------
(* A recursion over 1..N whose steps stay in S has a function that obeys it. *)
Iterates(f, N, S, base, step) ==
    f \in [0..N -> S] /\ f[0] = base /\ \A n \in 1..N : f[n] = step[n][f[n - 1]]

LEMMA Iteration ==
    ASSUME NEW N \in Nat, NEW S, NEW base \in S, NEW step, step \in [1..N -> [S -> S]]
    PROVE  \E f : Iterates(f, N, S, base, step)
<1> DEFINE Obeys(f, k) == f[0] = base /\ \A n \in 1..k : f[n] = step[n][f[n - 1]]
           T == {k \in 0..N : ~\E f \in [0..k -> S] : Obeys(f, k)}
<1> SUFFICES \E f \in [0..N -> S] : Obeys(f, N)
  BY Zenon DEF Iterates
<1>1. T = {}
  <2> SUFFICES ASSUME T # {} PROVE FALSE
    OBVIOUS
  <2>1. PICK k \in T : \A m \in T : k <= m
    <3>1. T \subseteq Nat
      OBVIOUS
    <3> HIDE DEF T
    <3> QED
      BY <3>1, LeastMember
  <2>2. k \in 0..N /\ ~\E f \in [0..k -> S] : Obeys(f, k)
    BY <2>1
  <2>3. CASE k = 0
    <3>1. [n \in 0..0 |-> base] \in [0..0 -> S] /\ Obeys([n \in 0..0 |-> base], 0)
      OBVIOUS
    <3> HIDE DEF Obeys
    <3> QED
      BY <3>1, <2>2, <2>3
  <2>4. CASE k # 0
    <3>1. k - 1 \in 0..N /\ k - 1 \notin T /\ k \in 1..N
      <4> HIDE DEF T
      <4> QED
        BY <2>1, <2>2, <2>4
    <3>2. PICK g \in [0..(k - 1) -> S] : Obeys(g, k - 1)
      <4> HIDE DEF Obeys
      <4> QED
        BY <3>1
    <3> DEFINE v == step[k][g[k - 1]]
               f == [n \in 0..k |-> IF n = k THEN v ELSE g[n]]
    <3>3. v \in S
      BY <3>1
    <3> HIDE DEF v
    <3>4. f \in [0..k -> S]
      BY <3>1, <3>3
    <3>5. f[k] = v /\ \A n \in 0..(k - 1) : f[n] = g[n]
      BY <3>1
    <3> HIDE DEF f
    <3>6. f[k] = step[k][f[k - 1]]
      <4>1. f[k - 1] = g[k - 1]
        BY <3>1, <3>5
      <4> QED
        BY <4>1, <3>5 DEF v
    <3>7. ASSUME NEW n \in 1..k PROVE f[n] = step[n][f[n - 1]]
      <4>1. CASE n = k
        BY <4>1, <3>6
      <4>2. CASE n # k
        <5>1. n \in 1..(k - 1) /\ n \in 0..(k - 1) /\ n - 1 \in 0..(k - 1)
          BY <4>2, <3>1
        <5>2. g[n] = step[n][g[n - 1]]
          BY <5>1, <3>2
        <5> QED
          BY <5>1, <5>2, <3>5
      <4> QED
        BY <4>1, <4>2
    <3>8. f[0] = base
      BY <3>1, <3>2, <3>5
    <3>9. Obeys(f, k)
      BY <3>7, <3>8
    <3> HIDE DEF Obeys
    <3> QED
      BY <3>4, <3>9, <2>2
  <2> QED
    BY <2>3, <2>4
<1>2. N \in 0..N
  OBVIOUS
<1> QED
  BY <1>1, <1>2

-----------------------------------------------------------------------------
(* What f has to be, to be what match_entity collects of n entries.         *)
Collects(f, entries, get, n) ==
    f = [m \in 0..n |->
            IF m = 0 THEN Empty
            ELSE IF Binds(entries[m])
              THEN Insert(f[m - 1], entries[m].value.text, get[entries[m].name])
            ELSE f[m - 1]]

LEMMA CollectsExist ==
    ASSUME NEW entries, NEW get, Len(entries) \in Nat
    PROVE  \E f : Collects(f, entries, get, Len(entries))
<1> DEFINE N == Len(entries)
           X == {entries[m].value.text : m \in 1..N}
           V == {get[entries[m].name] : m \in 1..N}
           S == UNION {[D -> V] : D \in SUBSET X}
           next(m, g) == IF Binds(entries[m])
                           THEN Insert(g, entries[m].value.text, get[entries[m].name]) ELSE g
           step == [m \in 1..N |-> [g \in S |-> next(m, g)]]
<1>0. N \in Nat
  OBVIOUS
<1>1. Empty \in S
  <2>1. Empty \in [{} -> V] /\ {} \in SUBSET X
    BY DEF Empty
  <2> HIDE DEF X, V
  <2> QED
    BY <2>1
<1>2. ASSUME NEW m \in 1..N, NEW g \in S PROVE next(m, g) \in S
  <2> DEFINE x == entries[m].value.text
             v == get[entries[m].name]
  <2>1. x \in X /\ v \in V
    OBVIOUS
  <2> HIDE DEF X, V, x, v
  <2>2. PICK D \in SUBSET X : g \in [D -> V]
    OBVIOUS
  <2>3. Insert(g, x, v) \in [D \union {x} -> V]
    BY <2>1, <2>2 DEF Insert
  <2>4. Insert(g, x, v) \in S
    BY <2>1, <2>3
  <2> QED
    BY <2>4 DEF x, v
<1> HIDE DEF S, next
<1>3. step \in [1..N -> [S -> S]]
  BY <1>2
<1>4. \A m \in 1..N, g \in S : step[m][g] = next(m, g)
  OBVIOUS
<1> HIDE DEF N, X, V, step
<1>5. PICK f \in [0..N -> S] : f[0] = Empty /\ \A n \in 1..N : f[n] = step[n][f[n - 1]]
  <2>1. PICK f : Iterates(f, N, S, Empty, step)
    BY <1>0, <1>1, <1>3, Iteration, Zenon
  <2> QED
    BY <2>1, Zenon DEF Iterates
<1>6. \A n \in 1..N : f[n] = next(n, f[n - 1])
  <2> TAKE n \in 1..N
  <2>1. f[n - 1] \in S
    BY <1>0
  <2> QED
    BY <1>4, <1>5, <2>1
<1>7. f = [m \in 0..N |-> IF m = 0 THEN Empty ELSE next(m, f[m - 1])]
  BY <1>5, <1>6
<1> QED
  BY <1>7 DEF Collects, next, N

(* BoundBy is what its recursion says.                                      *)
LEMMA BoundByCollects ==
    ASSUME NEW entries, NEW get, Len(entries) \in Nat
    PROVE  \E f : /\ Collects(f, entries, get, Len(entries))
                  /\ BoundBy(entries, get) = f[Len(entries)]
<1> DEFINE f == CHOOSE g : Collects(g, entries, get, Len(entries))
<1>1. BoundBy(entries, get) = f[Len(entries)]
  BY Zenon DEF BoundBy, Collects
<1>2. Collects(f, entries, get, Len(entries))
  BY CollectsExist, Zenon
<1> QED
  BY <1>1, <1>2, Zenon

(* Of n entries, those that bind are the domain, and the last of a name is  *)
(* its value.                                                               *)
LastOf(g, entries, get, n) ==
    LET binders == {j \in 1..n : Binds(entries[j])} IN
    /\ DOMAIN g = {entries[i].value.text : i \in binders}
    /\ \A i \in binders :
           (\A j \in binders : entries[j].value.text = entries[i].value.text => j <= i) =>
               g[entries[i].value.text] = get[entries[i].name]

LEMMA LastBindsLast ==
    ASSUME NEW entries, NEW get, NEW n \in Nat, n # 0, NEW g, LastOf(g, entries, get, n - 1),
           NEW h, h = IF Binds(entries[n])
                        THEN Insert(g, entries[n].value.text, get[entries[n].name]) ELSE g
    PROVE  LastOf(h, entries, get, n)
<1> DEFINE text(i) == entries[i].value.text
           before == {j \in 1..(n - 1) : Binds(entries[j])}
           binders == {j \in 1..n : Binds(entries[j])}
<1>1. /\ DOMAIN g = {text(i) : i \in before}
      /\ \A i \in before : (\A j \in before : text(j) = text(i) => j <= i) =>
             g[text(i)] = get[entries[i].name]
  BY Zenon DEF LastOf
<1>2. binders = IF Binds(entries[n]) THEN before \union {n} ELSE before
  OBVIOUS
<1>3. before \subseteq 1..(n - 1)
  OBVIOUS
<1> HIDE DEF before, binders
<1>4. CASE Binds(entries[n])
  <2>1. h = [y \in DOMAIN g \union {text(n)} |->
                IF y = text(n) THEN get[entries[n].name] ELSE g[y]]
    BY <1>4 DEF Insert
  <2>2. DOMAIN h = {text(i) : i \in binders}
    <3>1. DOMAIN h = DOMAIN g \union {text(n)}
      BY <2>1
    <3>2. {text(i) : i \in binders} = {text(i) : i \in before} \union {text(n)}
      <4> HIDE DEF text
      <4> QED
        BY <1>2, <1>4
    <3> QED
      BY <1>1, <3>1, <3>2, Zenon
  <2>3. ASSUME NEW i \in binders, \A j \in binders : text(j) = text(i) => j <= i
        PROVE  h[text(i)] = get[entries[i].name]
    <3>1. CASE i = n
      BY <3>1, <2>1
    <3>2. CASE i # n
      <4>1. i \in before /\ n \in binders /\ ~(n <= i)
        BY <3>2, <1>2, <1>3, <1>4
      <4>2. text(n) # text(i)
        BY <4>1, <2>3
      <4>3. \A j \in before : text(j) = text(i) => j <= i
        BY <2>3, <1>2, <1>4
      <4>4. g[text(i)] = get[entries[i].name] /\ text(i) \in DOMAIN g
        BY <4>1, <4>3, <1>1
      <4> QED
        BY <4>2, <4>4, <2>1
    <3> QED
      BY <3>1, <3>2
  <2> QED
    BY <2>2, <2>3, Zenon DEF LastOf, binders
<1>5. CASE ~Binds(entries[n])
  <2>1. h = g /\ binders = before
    BY <1>2, <1>5
  <2> QED
    BY <1>1, <2>1, Zenon DEF LastOf, binders
<1> QED
  BY <1>4, <1>5

(* match_entity binds what its entries bind, the last of a name winning.    *)
LEMMA BoundByIsLast ==
    ASSUME NEW entries, NEW get, Len(entries) \in Nat
    PROVE  LastOf(BoundBy(entries, get), entries, get, Len(entries))
<1>1. PICK f : /\ Collects(f, entries, get, Len(entries))
               /\ BoundBy(entries, get) = f[Len(entries)]
  BY BoundByCollects, Zenon
<1>2. \A g : Collects(g, entries, get, Len(entries)) =>
        \A m \in 0..Len(entries) :
            g[m] = IF m = 0 THEN Empty
                   ELSE IF Binds(entries[m])
                     THEN Insert(g[m - 1], entries[m].value.text, get[entries[m].name])
                   ELSE g[m - 1]
  BY DEF Collects
<1>3. ASSUME NEW m \in 0..Len(entries)
      PROVE  f[m] = IF m = 0 THEN Empty
                    ELSE IF Binds(entries[m])
                      THEN Insert(f[m - 1], entries[m].value.text, get[entries[m].name])
                    ELSE f[m - 1]
  BY <1>1, <1>2, Zenon
<1> DEFINE T == {n \in 0..Len(entries) : ~LastOf(f[n], entries, get, n)}
<1>4. T = {}
  <2> SUFFICES ASSUME T # {} PROVE FALSE
    OBVIOUS
  <2>1. PICK n \in T : \A m \in T : n <= m
    <3>1. T \subseteq Nat
      OBVIOUS
    <3> HIDE DEF T
    <3> QED
      BY <3>1, LeastMember
  <2>2. n \in 0..Len(entries) /\ ~LastOf(f[n], entries, get, n)
    BY <2>1
  <2>3. CASE n = 0
    <3>1. f[0] = Empty
      BY <1>3, <2>2, <2>3
    <3>2. LastOf(Empty, entries, get, 0)
      BY DEF LastOf, Empty
    <3> QED
      BY <3>1, <3>2, <2>2, <2>3
  <2>4. CASE n # 0
    <3>1. n - 1 \in 0..Len(entries) /\ n - 1 \notin T /\ n \in Nat
      BY <2>1, <2>2, <2>4
    <3>2. LastOf(f[n - 1], entries, get, n - 1)
      BY <3>1
    <3>3. f[n] = IF Binds(entries[n])
                   THEN Insert(f[n - 1], entries[n].value.text, get[entries[n].name])
                   ELSE f[n - 1]
      BY <1>3, <2>2, <2>4
    <3>4. LastOf(f[n], entries, get, n)
      BY <3>1, <3>2, <3>3, <2>4, LastBindsLast, Zenon
    <3> QED
      BY <3>4, <2>2
  <2> QED
    BY <2>3, <2>4
<1>5. Len(entries) \in 0..Len(entries)
  OBVIOUS
<1> QED
  BY <1>1, <1>4, <1>5, Zenon

-----------------------------------------------------------------------------
(* What f has to be, to be the segments of the first n of a path.           *)
Splits(f, path, n) ==
    f = [m \in 0..n |->
            IF m = 0 THEN <<>>
            ELSE IF Rendered(path[m]) # "" THEN Append(f[m - 1], FromStr(path[m]))
            ELSE f[m - 1]]

(* The segments of a path are a sequence.                                   *)
LEMMA PathSegmentsType ==
    ASSUME NEW path, Len(path) \in Nat
    PROVE  PathSegments(path) \in Seq({FromStr(path[m]) : m \in 1..Len(path)})
<1> DEFINE N == Len(path)
           R == {FromStr(path[m]) : m \in 1..N}
           S == Seq(R)
           next(m, g) == IF Rendered(path[m]) # "" THEN Append(g, FromStr(path[m])) ELSE g
           step == [m \in 1..N |-> [g \in S |-> next(m, g)]]
<1>0. N \in Nat
  OBVIOUS
<1>1. <<>> \in S
  OBVIOUS
<1>2. ASSUME NEW m \in 1..N, NEW g \in S PROVE next(m, g) \in S
  <2> DEFINE segment == FromStr(path[m])
  <2>1. segment \in R
    OBVIOUS
  <2> HIDE DEF R, segment
  <2>2. Append(g, segment) \in S
    BY <2>1, AppendProperties
  <2> QED
    BY <2>2 DEF segment
<1> HIDE DEF S, next
<1>3. step \in [1..N -> [S -> S]]
  BY <1>2
<1>4. \A m \in 1..N, g \in S : step[m][g] = next(m, g)
  OBVIOUS
<1> HIDE DEF N, R, step
<1>5. PICK f \in [0..N -> S] : f[0] = <<>> /\ \A n \in 1..N : f[n] = step[n][f[n - 1]]
  <2>1. PICK f : Iterates(f, N, S, <<>>, step)
    BY <1>0, <1>1, <1>3, Iteration, Zenon
  <2> QED
    BY <2>1, Zenon DEF Iterates
<1>6. \A n \in 1..N : f[n] = next(n, f[n - 1])
  <2> TAKE n \in 1..N
  <2>1. f[n - 1] \in S
    BY <1>0
  <2> QED
    BY <1>4, <1>5, <2>1
<1>7. f = [m \in 0..N |-> IF m = 0 THEN <<>> ELSE next(m, f[m - 1])]
  BY <1>5, <1>6
<1>8. Splits(f, path, N)
  BY <1>7 DEF Splits, next, N
<1> DEFINE chosen == CHOOSE g : Splits(g, path, N)
<1>9. PathSegments(path) = chosen[N] /\ Splits(chosen, path, N)
  <2>1. PathSegments(path) = chosen[N]
    BY Zenon DEF PathSegments, Splits, N
  <2>2. Splits(chosen, path, N)
    BY <1>8, Zenon
  <2> QED
    BY <2>1, <2>2
<1> HIDE DEF chosen
<1>10. chosen[0] = <<>> /\ \A m \in 1..N : chosen[m] = next(m, chosen[m - 1])
  <2>1. \A g : Splits(g, path, N) =>
            \A m \in 0..N : g[m] = IF m = 0 THEN <<>>
                                  ELSE IF Rendered(path[m]) # ""
                                    THEN Append(g[m - 1], FromStr(path[m]))
                                  ELSE g[m - 1]
    BY <1>0 DEF Splits
  <2>2. \A m \in 0..N : chosen[m] = IF m = 0 THEN <<>>
                                    ELSE IF Rendered(path[m]) # ""
                                      THEN Append(chosen[m - 1], FromStr(path[m]))
                                    ELSE chosen[m - 1]
    BY <1>9, <2>1, Zenon
  <2>3. ASSUME NEW m \in 1..N PROVE chosen[m] = next(m, chosen[m - 1])
    <3>1. m \in 0..N /\ m # 0
      BY <1>0
    <3> QED
      BY <2>2, <3>1, Zenon DEF next
  <2>4. chosen[0] = <<>>
    <3>1. 0 \in 0..N
      BY <1>0
    <3> QED
      BY <2>2, <3>1, Zenon
  <2> QED
    BY <2>3, <2>4
<1> DEFINE T == {n \in 0..N : chosen[n] \notin S}
<1>11. T = {}
  <2> SUFFICES ASSUME T # {} PROVE FALSE
    OBVIOUS
  <2>1. PICK n \in T : \A m \in T : n <= m
    <3>1. T \subseteq Nat
      BY <1>0
    <3> HIDE DEF T
    <3> QED
      BY <3>1, LeastMember
  <2>2. n \in 0..N /\ chosen[n] \notin S
    BY <2>1
  <2>3. n # 0 => n \in 1..N /\ n - 1 \in 0..N /\ n - 1 \notin T
    <3> HIDE DEF T
    <3> QED
      BY <1>0, <2>1, <2>2
  <2> QED
    BY <2>2, <2>3, <1>1, <1>2, <1>10
<1>12. N \in 0..N
  BY <1>0
<1> QED
  BY <1>9, <1>11, <1>12 DEF S, R, N

-----------------------------------------------------------------------------
(* What f has to be, to be the lists that the loop makes of n rules.        *)
Reads(f, protocol, file, open, n) ==
    f = [m \in 0..n |->
            IF m = 0 THEN <<>>
            ELSE IF (file[m].access = NoAuth) = open
              THEN Append(f[m - 1], ReadRule(protocol, file[m]))
            ELSE f[m - 1]]

LEMMA ReadsExist ==
    ASSUME NEW protocol, NEW file, NEW open, Len(file) \in Nat
    PROVE  \E f : Reads(f, protocol, file, open, Len(file))
<1> DEFINE N == Len(file)
           R == {ReadRule(protocol, file[m]) : m \in 1..N}
           S == Seq(R)
           next(m, g) == IF (file[m].access = NoAuth) = open
                           THEN Append(g, ReadRule(protocol, file[m])) ELSE g
           step == [m \in 1..N |-> [g \in S |-> next(m, g)]]
<1>0. N \in Nat
  OBVIOUS
<1>1. <<>> \in S
  OBVIOUS
<1>2. ASSUME NEW m \in 1..N, NEW g \in S PROVE next(m, g) \in S
  <2> DEFINE rule == ReadRule(protocol, file[m])
  <2>1. rule \in R
    OBVIOUS
  <2> HIDE DEF R, rule
  <2>2. Append(g, rule) \in S
    BY <2>1, AppendProperties
  <2> QED
    BY <2>2 DEF rule
<1> HIDE DEF S, next
<1>3. step \in [1..N -> [S -> S]]
  BY <1>2
<1>4. \A m \in 1..N, g \in S : step[m][g] = next(m, g)
  OBVIOUS
<1> HIDE DEF N, R, step
<1>5. PICK f \in [0..N -> S] : f[0] = <<>> /\ \A n \in 1..N : f[n] = step[n][f[n - 1]]
  <2>1. PICK f : Iterates(f, N, S, <<>>, step)
    BY <1>0, <1>1, <1>3, Iteration, Zenon
  <2> QED
    BY <2>1, Zenon DEF Iterates
<1>6. \A n \in 1..N : f[n] = next(n, f[n - 1])
  <2> TAKE n \in 1..N
  <2>1. f[n - 1] \in S
    BY <1>0
  <2> QED
    BY <1>4, <1>5, <2>1
<1>7. f = [m \in 0..N |-> IF m = 0 THEN <<>> ELSE next(m, f[m - 1])]
  BY <1>5, <1>6
<1> QED
  BY <1>7 DEF Reads, next, N

(* ReadUpTo is what its recursion says.                                     *)
LEMMA ReadUpToReads ==
    ASSUME NEW protocol, NEW file, NEW open, Len(file) \in Nat
    PROVE  Reads(ReadUpTo(protocol, file, open), protocol, file, open, Len(file))
<1>1. ReadUpTo(protocol, file, open) = CHOOSE f : Reads(f, protocol, file, open, Len(file))
  BY Zenon DEF ReadUpTo, Reads
<1>2. \E f : Reads(f, protocol, file, open, Len(file))
  BY ReadsExist
<1> QED
  BY <1>1, <1>2, Zenon

LEMMA ReadUpToAt ==
    ASSUME NEW protocol, NEW file, NEW open, Len(file) \in Nat, NEW n \in 0..Len(file)
    PROVE  ReadUpTo(protocol, file, open)[n] =
                IF n = 0 THEN <<>>
                ELSE IF (file[n].access = NoAuth) = open
                  THEN Append(ReadUpTo(protocol, file, open)[n - 1], ReadRule(protocol, file[n]))
                ELSE ReadUpTo(protocol, file, open)[n - 1]
<1>1. \A f : Reads(f, protocol, file, open, Len(file)) =>
            f[n] = IF n = 0 THEN <<>>
                   ELSE IF (file[n].access = NoAuth) = open
                     THEN Append(f[n - 1], ReadRule(protocol, file[n]))
                   ELSE f[n - 1]
  BY DEF Reads
<1>2. Reads(ReadUpTo(protocol, file, open), protocol, file, open, Len(file))
  BY ReadUpToReads
<1> QED
  BY <1>1, <1>2, Zenon

LEMMA NothingRead ==
    ASSUME NEW protocol, NEW file, NEW open, Len(file) \in Nat
    PROVE  ReadUpTo(protocol, file, open)[0] = <<>>
<1>1. \A f : Reads(f, protocol, file, open, Len(file)) => f[0] = <<>>
  BY DEF Reads
<1>2. Reads(ReadUpTo(protocol, file, open), protocol, file, open, Len(file))
  BY ReadUpToReads
<1> QED
  BY <1>1, <1>2, Zenon

-----------------------------------------------------------------------------
(* The rules of the file, of one access, that match or panic.               *)
Tried(rule, q) == CheckRule(rule.matches, q).verdict # "none"

Matching(protocol, file, open, q, n) ==
    {m \in 1..n : (file[m].access = NoAuth) = open /\ Tried(ReadRule(protocol, file[m]), q)}

(* The first of the list that is tried with success is the first of them.   *)
FirstIsFirst(list, protocol, file, open, q, n) ==
    LET I == Matching(protocol, file, open, q, n) IN
    /\ list \in Seq({ReadRule(protocol, file[m]) : m \in 1..Len(file)})
    /\ I = {} => \A k \in 1..Len(list) : ~Tried(list[k], q)
    /\ I # {} => \E k \in 1..Len(list) :
           /\ Tried(list[k], q) /\ \A j \in 1..(k - 1) : ~Tried(list[j], q)
           /\ list[k] = ReadRule(protocol, file[Min(I)])

(* One more rule of the file keeps it so: one that is tried with success is *)
(* the first in both, or in neither.                                        *)
LEMMA FirstStaysFirst ==
    ASSUME NEW protocol, NEW file, NEW open \in BOOLEAN, NEW q, Len(file) \in Nat,
           NEW n \in 1..Len(file), NEW list,
           FirstIsFirst(list, protocol, file, open, q, n - 1),
           NEW longer,
           longer = IF (file[n].access = NoAuth) = open
                      THEN Append(list, ReadRule(protocol, file[n])) ELSE list
    PROVE  FirstIsFirst(longer, protocol, file, open, q, n)
<1> DEFINE R == {ReadRule(protocol, file[m]) : m \in 1..Len(file)}
           rule == ReadRule(protocol, file[n])
           I == Matching(protocol, file, open, q, n - 1)
           J == Matching(protocol, file, open, q, n)
           new == (file[n].access = NoAuth) = open /\ Tried(rule, q)
<1>1. list \in Seq(R) /\ rule \in R
  BY DEF FirstIsFirst
<1>2. longer \in Seq(R)
  <2> HIDE DEF R, rule
  <2>1. Append(list, rule) \in Seq(R)
    BY <1>1, AppendProperties
  <2> QED
    BY <1>1, <2>1 DEF rule
<1>3. J = IF new THEN I \union {n} ELSE I
  BY DEF Matching
<1>4. I \subseteq 1..(n - 1) /\ n \in Nat
  BY DEF Matching
<1>5. /\ I = {} => \A k \in 1..Len(list) : ~Tried(list[k], q)
      /\ I # {} => \E k \in 1..Len(list) :
             /\ Tried(list[k], q) /\ \A j \in 1..(k - 1) : ~Tried(list[j], q)
             /\ list[k] = ReadRule(protocol, file[Min(I)])
  BY Zenon DEF FirstIsFirst
<1>6. /\ Len(list) \in Nat
      /\ Len(longer) = IF (file[n].access = NoAuth) = open THEN Len(list) + 1 ELSE Len(list)
      /\ \A k \in 1..Len(list) : longer[k] = list[k]
      /\ (file[n].access = NoAuth) = open => longer[Len(list) + 1] = rule
  <2> HIDE DEF R, rule
  <2>1. Len(list) \in Nat
    BY <1>1, LenProperties
  <2>2. /\ Len(Append(list, rule)) = Len(list) + 1
        /\ \A k \in 1..Len(list) : Append(list, rule)[k] = list[k]
        /\ Append(list, rule)[Len(list) + 1] = rule
    BY <1>1, <2>1, AppendProperties
  <2>3. longer = IF (file[n].access = NoAuth) = open THEN Append(list, rule) ELSE list
    BY DEF rule
  <2> QED
    BY <2>1, <2>2, <2>3
<1> HIDE DEF R, rule, I, J, new
<1>7. CASE I # {}
  <2>1. PICK k \in 1..Len(list) :
            /\ Tried(list[k], q) /\ \A j \in 1..(k - 1) : ~Tried(list[j], q)
            /\ list[k] = ReadRule(protocol, file[Min(I)])
    BY <1>5, <1>7, Zenon
  <2>2. Min(J) = Min(I) /\ J # {}
    <3>1. Min(I) \in I /\ \A m \in I : Min(I) <= m
      <4>1. I \subseteq Nat
        BY <1>4
      <4> QED
        BY <4>1, MinIsLeast, <1>7, Zenon
    <3> DEFINE least == Min(I)
    <3> HIDE DEF least
    <3>2. least \in J /\ J \subseteq Nat /\ \A m \in J : least <= m
      <4>1. least \in I /\ \A m \in I : least <= m
        BY <3>1 DEF least
      <4> QED
        BY <4>1, <1>3, <1>4
    <3> QED
      BY <3>2, MinIs, Zenon DEF least
  <2>3. /\ k \in 1..Len(longer)
        /\ longer[k] = list[k]
        /\ \A j \in 1..(k - 1) : longer[j] = list[j]
    BY <1>6
  <2>4. /\ Tried(longer[k], q) /\ \A j \in 1..(k - 1) : ~Tried(longer[j], q)
        /\ longer[k] = ReadRule(protocol, file[Min(J)])
    BY <2>1, <2>2, <2>3
  <2> QED
    BY <2>2, <2>3, <2>4, <1>2, Zenon DEF FirstIsFirst, J, R
<1>8. CASE I = {} /\ new
  <2>1. J = {n} /\ Min(J) = n
    <3>1. J = {n}
      BY <1>3, <1>8
    <3> QED
      BY <3>1, <1>4, MinIs
  <2> DEFINE k == Len(list) + 1
  <2>2. k \in 1..Len(longer) /\ longer[k] = rule /\ Tried(longer[k], q)
    BY <1>6, <1>8 DEF new
  <2>3. \A j \in 1..(k - 1) : ~Tried(longer[j], q)
    BY <1>5, <1>6, <1>8
  <2>4. longer[k] = ReadRule(protocol, file[Min(J)])
    BY <2>1, <2>2 DEF rule
  <2> HIDE DEF k
  <2> QED
    BY <2>1, <2>2, <2>3, <2>4, <1>2, Zenon DEF FirstIsFirst, J, R
<1>9. CASE I = {} /\ ~new
  <2>1. J = {}
    BY <1>3, <1>9
  <2>2. \A k \in 1..Len(longer) : ~Tried(longer[k], q)
    <3> TAKE k \in 1..Len(longer)
    <3>1. CASE k \in 1..Len(list)
      BY <3>1, <1>5, <1>6, <1>9
    <3>2. CASE k \notin 1..Len(list)
      <4>1. (file[n].access = NoAuth) = open /\ k = Len(list) + 1
        BY <3>2, <1>6
      <4>2. longer[k] = rule
        BY <4>1, <1>6
      <4> QED
        BY <4>1, <4>2, <1>9 DEF new
    <3> QED
      BY <3>1, <3>2
  <2> QED
    BY <2>1, <2>2, <1>2, Zenon DEF FirstIsFirst, J, R
<1> QED
  BY <1>7, <1>8, <1>9

LEMMA FirstOfList ==
    ASSUME NEW protocol, NEW file, NEW open \in BOOLEAN, NEW q, Len(file) \in Nat
    PROVE  \A n \in 0..Len(file) :
                FirstIsFirst(ReadUpTo(protocol, file, open)[n], protocol, file, open, q, n)
<1> DEFINE F(n) == FirstIsFirst(ReadUpTo(protocol, file, open)[n], protocol, file, open, q, n)
           T == {n \in 0..Len(file) : ~F(n)}
<1> SUFFICES ASSUME T # {} PROVE FALSE
  OBVIOUS
<1>1. PICK n \in T : \A m \in T : n <= m
  <2>1. T \subseteq Nat
    OBVIOUS
  <2> QED
    BY <2>1, LeastMember
<1>2. n \in 0..Len(file) /\ ~F(n)
  BY <1>1
<1>3. CASE n = 0
  <2>1. Matching(protocol, file, open, q, 0) = {}
    BY DEF Matching
  <2>2. FirstIsFirst(<<>>, protocol, file, open, q, 0)
    BY <2>1 DEF FirstIsFirst
  <2> QED
    BY <2>2, <1>2, <1>3, ReadUpToAt
<1>4. CASE n # 0
  <2>1. n \in 1..Len(file) /\ n - 1 \in 0..Len(file)
    BY <1>2, <1>4
  <2>2. n - 1 \notin T
    BY <1>1, <2>1
  <2>3. F(n - 1)
    BY <2>1, <2>2
  <2>4. ReadUpTo(protocol, file, open)[n] =
            IF (file[n].access = NoAuth) = open
              THEN Append(ReadUpTo(protocol, file, open)[n - 1], ReadRule(protocol, file[n]))
              ELSE ReadUpTo(protocol, file, open)[n - 1]
    BY <2>1, <1>2, <1>4, ReadUpToAt
  <2>5. F(n)
    <3> HIDE DEF T
    <3> QED
      BY <2>1, <2>3, <2>4, FirstStaysFirst, Zenon
  <2> QED
    BY <2>5, <1>2
<1> QED
  BY <1>3, <1>4
-----------------------------------------------------------------------------
(* FirstMatch finds the first rule of a list that is tried with success.    *)
LEMMA FirstMatchIsFirst ==
    ASSUME NEW list, NEW q, NEW k \in 1..Len(list), Len(list) \in Nat,
           Tried(list[k], q), \A j \in 1..(k - 1) : ~Tried(list[j], q)
    PROVE  FirstMatch(list, q) = [rule |-> list[k], check |-> CheckRule(list[k].matches, q)]
<1> DEFINE I == {i \in 1..Len(list) : CheckRule(list[i].matches, q).verdict # "none"}
<1>1. Min(I) = k /\ I # {}
  <2>1. k \in I /\ I \subseteq Nat /\ \A m \in I : k <= m
    BY DEF Tried
  <2> HIDE DEF I
  <2> QED
    BY <2>1, MinIs
<1>2. SelectInSeq(list, LAMBDA rule : CheckRule(rule.matches, q).verdict # "none")
          = IF I # {} THEN Min(I) ELSE 0
  BY Zenon DEF SelectInSeq
<1>3. SelectInSeq(list, LAMBDA rule : CheckRule(rule.matches, q).verdict # "none") = k
  <2> HIDE DEF I
  <2> QED
    BY <1>1, <1>2
<1>4. k # 0
  OBVIOUS
<1> QED
  BY <1>3, <1>4, Zenon DEF FirstMatch

LEMMA FirstMatchIsNone ==
    ASSUME NEW list, NEW q, \A k \in 1..Len(list) : ~Tried(list[k], q)
    PROVE  FirstMatch(list, q) = [rule |-> None, check |-> NoMatch]
<1> DEFINE I == {i \in 1..Len(list) : CheckRule(list[i].matches, q).verdict # "none"}
<1>1. I = {}
  BY DEF Tried
<1>2. SelectInSeq(list, LAMBDA rule : CheckRule(rule.matches, q).verdict # "none")
          = IF I # {} THEN Min(I) ELSE 0
  BY Zenon DEF SelectInSeq
<1>3. SelectInSeq(list, LAMBDA rule : CheckRule(rule.matches, q).verdict # "none") = 0
  <2> HIDE DEF I
  <2> QED
    BY <1>1, <1>2
<1> QED
  BY <1>3, Zenon DEF FirstMatch

(* In the list read so far, FirstMatch finds the first rule of the file.    *)
LEMMA FirstMatchInFile ==
    ASSUME NEW protocol, NEW file, NEW open \in BOOLEAN, NEW q, Len(file) \in Nat,
           NEW n \in 0..Len(file)
    PROVE  LET I == Matching(protocol, file, open, q, n)
               first == ReadRule(protocol, file[Min(I)])
           IN  FirstMatch(ReadUpTo(protocol, file, open)[n], q) =
                    IF I = {} THEN [rule |-> None, check |-> NoMatch]
                    ELSE [rule |-> first, check |-> CheckRule(first.matches, q)]
<1> DEFINE list == ReadUpTo(protocol, file, open)[n]
           I == Matching(protocol, file, open, q, n)
           first == ReadRule(protocol, file[Min(I)])
<1>1. FirstIsFirst(list, protocol, file, open, q, n)
  BY FirstOfList
<1>2. /\ list \in Seq({ReadRule(protocol, file[m]) : m \in 1..Len(file)})
      /\ I = {} => \A k \in 1..Len(list) : ~Tried(list[k], q)
      /\ I # {} => \E k \in 1..Len(list) :
             /\ Tried(list[k], q) /\ \A j \in 1..(k - 1) : ~Tried(list[j], q)
             /\ list[k] = first
  BY <1>1, Zenon DEF FirstIsFirst
<1>3. Len(list) \in Nat
  BY <1>2, LenProperties
<1> HIDE DEF list, I, first
<1>4. CASE I = {}
  BY <1>2, <1>4, FirstMatchIsNone DEF list, I
<1>5. CASE I # {}
  <2>1. PICK k \in 1..Len(list) :
            /\ Tried(list[k], q) /\ \A j \in 1..(k - 1) : ~Tried(list[j], q)
            /\ list[k] = first
    BY <1>2, <1>5, Zenon
  <2>2. FirstMatch(list, q) = [rule |-> list[k], check |-> CheckRule(list[k].matches, q)]
    BY <1>3, <2>1, FirstMatchIsFirst
  <2>3. FirstMatch(list, q) = [rule |-> first, check |-> CheckRule(first.matches, q)]
    BY <2>1, <2>2
  <2> QED
    BY <1>5, <2>3 DEF list, I, first
<1> QED
  BY <1>4, <1>5
=============================================================================
