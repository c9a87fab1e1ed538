-------------------------- MODULE ConfigLoad_proofs --------------------------
(***************************************************************************)
(* Whatever the file, its rules decide in the order of the file.            *)
(***************************************************************************)
EXTENDS ConfigLoad, ConfigFile_proofs

LEMMA RawIsSequence ==
    ASSUME file \in Files
    PROVE  Len(Raw) \in Nat /\ DOMAIN Raw = 1..Len(Raw)
<1>1. Raw \in Seq(Range(Raw))
  BY FilesAssumption DEF Raw
<1> QED
  BY <1>1, LenProperties

LEMMA InitLoop == Init => LoopInv
<1> SUFFICES ASSUME Init PROVE LoopInv
  OBVIOUS
<1>1. file \in Files /\ next = 1 /\ rules = <<>> /\ noAuthRules = <<>>
  BY DEF Init
<1>2. Len(Raw) \in Nat
  BY <1>1, RawIsSequence
<1>3. /\ ReadUpTo(file.protocol, Raw, FALSE)[0] = <<>>
      /\ ReadUpTo(file.protocol, Raw, TRUE)[0] = <<>>
  BY <1>2, NothingRead
<1>4. next - 1 = 0 /\ next \in 1..Len(Raw) + 1
  BY <1>1, <1>2
<1>5. /\ rules = ReadUpTo(file.protocol, Raw, FALSE)[next - 1]
      /\ noAuthRules = ReadUpTo(file.protocol, Raw, TRUE)[next - 1]
  BY <1>1, <1>3, <1>4
<1> QED
  BY <1>1, <1>4, <1>5 DEF LoopInv

(* Each step reads one rule, to the list of its access.                     *)
LEMMA NextLoop == LoopInv /\ [Next]_vars => LoopInv'
<1> SUFFICES ASSUME LoopInv, [Next]_vars PROVE LoopInv'
  OBVIOUS
<1> DEFINE read(open, n) == ReadUpTo(file.protocol, Raw, open)[n]
<1>1. /\ file \in Files /\ next \in 1..Len(Raw) + 1 /\ Len(Raw) \in Nat
      /\ rules = read(FALSE, next - 1) /\ noAuthRules = read(TRUE, next - 1)
  BY RawIsSequence DEF LoopInv
<1>2. ASSUME next <= Len(Raw), NEW open \in BOOLEAN
      PROVE  read(open, next) =
                IF (Raw[next].access = NoAuth) = open
                  THEN Append(read(open, next - 1), ReadRule(file.protocol, Raw[next]))
                  ELSE read(open, next - 1)
  <2>1. next \in 0..Len(Raw) /\ next # 0
    BY <1>1, <1>2
  <2> QED
    BY <1>1, <2>1, ReadUpToAt
<1>3. ASSUME next <= Len(Raw), file' = file, next' = next + 1,
             rules' = read(FALSE, next), noAuthRules' = read(TRUE, next)
      PROVE  LoopInv'
  <2>1. next' \in 1..Len(Raw) + 1 /\ next' - 1 = next
    BY <1>1, <1>3
  <2> QED
    BY <1>1, <1>3, <2>1 DEF LoopInv, Raw
<1>4. CASE PushSar
  <2>1. /\ next <= Len(Raw) /\ Raw[next].access # NoAuth
        /\ rules' = Append(rules, ReadRule(file.protocol, Raw[next]))
        /\ next' = next + 1 /\ file' = file /\ noAuthRules' = noAuthRules
    BY <1>4 DEF PushSar, ReadRule
  <2>2. rules' = read(FALSE, next)
    BY <1>1, <1>2, <2>1
  <2>3. noAuthRules' = read(TRUE, next)
    BY <1>1, <1>2, <2>1
  <2> QED
    BY <1>3, <2>1, <2>2, <2>3
<1>5. CASE PushNoAuth
  <2>1. /\ next <= Len(Raw) /\ Raw[next].access = NoAuth
        /\ noAuthRules' = Append(noAuthRules, ReadRule(file.protocol, Raw[next]))
        /\ next' = next + 1 /\ file' = file /\ rules' = rules
    BY <1>5 DEF PushNoAuth, ReadRule
  <2>2. rules' = read(FALSE, next)
    BY <1>1, <1>2, <2>1
  <2>3. noAuthRules' = read(TRUE, next)
    BY <1>1, <1>2, <2>1
  <2> QED
    BY <1>3, <2>1, <2>2, <2>3
<1>6. CASE UNCHANGED vars
  BY <1>6 DEF vars, LoopInv, Raw
<1> QED
  BY <1>4, <1>5, <1>6 DEF Next

(* The loop invariant: the lists are what ReadUpTo says, at every step.     *)
THEOREM Invariance == Spec => []LoopInv
<1> QED
  BY InitLoop, NextLoop, PTL DEF Spec

LEMMA FirstDecides == LoopInv => FirstInFileDecides
<1> SUFFICES ASSUME LoopInv, Loaded, NEW q \in Requests, q.protocol = file.protocol
             PROVE  LET matching(open) ==
                            {i \in DOMAIN Raw :
                                /\ (Raw[i].access = NoAuth) = open
                                /\ CheckRule(RequestMatch(q.protocol, Raw[i].matches), q).verdict
                                       # "none"}
                        decides(list, I) ==
                            FirstMatch(list, q).rule = IF I = {} THEN None
                                                       ELSE ReadRule(q.protocol, Raw[Min(I)])
                    IN  decides(rules, matching(FALSE)) /\ decides(noAuthRules, matching(TRUE))
  BY Zenon DEF FirstInFileDecides
<1>1. Len(Raw) \in Nat /\ DOMAIN Raw = 1..Len(Raw) /\ next - 1 = Len(Raw)
  BY RawIsSequence DEF LoopInv, Loaded
<1> DEFINE I(open) == Matching(q.protocol, Raw, open, q, Len(Raw))
<1>2. ASSUME NEW open \in BOOLEAN
      PROVE  I(open) = {i \in DOMAIN Raw :
                          /\ (Raw[i].access = NoAuth) = open
                          /\ CheckRule(RequestMatch(q.protocol, Raw[i].matches), q).verdict
                                 # "none"}
  <2>1. \A raw : ReadRule(q.protocol, raw).matches = RequestMatch(q.protocol, raw.matches)
    BY DEF ReadRule, SarRule, NoAuthRule
  <2> QED
    BY <1>1, <2>1, Zenon DEF Matching, Tried
<1>3. ASSUME NEW open \in BOOLEAN
      PROVE  FirstMatch(ReadUpTo(q.protocol, Raw, open)[Len(Raw)], q).rule =
                IF I(open) = {} THEN None ELSE ReadRule(q.protocol, Raw[Min(I(open))])
  <2> DEFINE first == ReadRule(q.protocol, Raw[Min(I(open))])
             found == FirstMatch(ReadUpTo(q.protocol, Raw, open)[Len(Raw)], q)
  <2>1. found = IF I(open) = {} THEN [rule |-> None, check |-> NoMatch]
                ELSE [rule |-> first, check |-> CheckRule(first.matches, q)]
    BY <1>1, FirstMatchInFile
  <2> HIDE DEF found, first
  <2>2. found.rule = IF I(open) = {} THEN None ELSE first
    BY <2>1
  <2> QED
    BY <2>2 DEF found, first
<1>4. /\ rules = ReadUpTo(q.protocol, Raw, FALSE)[Len(Raw)]
      /\ noAuthRules = ReadUpTo(q.protocol, Raw, TRUE)[Len(Raw)]
  BY <1>1 DEF LoopInv
<1> QED
  BY <1>2, <1>3, <1>4, Zenon

(* For every file and request, of the rules of one access the first in the  *)
(* file that matches is the one that evaluate_request finds.                *)
THEOREM FirstRuleDecides == Spec => []FirstInFileDecides
<1> QED
  BY Invariance, FirstDecides, PTL

-----------------------------------------------------------------------------
(* The lists hold what the rules of the file become, and nothing else.      *)
SarRead == {SarRule(file.protocol, Raw[i]) : i \in DOMAIN Raw}
NoAuthRead == {NoAuthRule(file.protocol, Raw[i]) : i \in DOMAIN Raw}

ListsInv == rules \in Seq(SarRead) /\ noAuthRules \in Seq(NoAuthRead)

LEMMA NextLists == LoopInv /\ ListsInv /\ [Next]_vars => ListsInv'
<1> SUFFICES ASSUME LoopInv, ListsInv, [Next]_vars PROVE ListsInv'
  OBVIOUS
<1>1. file' = file
  BY DEF Next, PushSar, PushNoAuth, vars
<1>2. SarRead' = SarRead /\ NoAuthRead' = NoAuthRead
  BY <1>1 DEF SarRead, NoAuthRead, Raw
<1>3. next <= Len(Raw) => next \in DOMAIN Raw
  BY RawIsSequence DEF LoopInv
<1>4. CASE PushSar
  <2>1. SarRule(file.protocol, Raw[next]) \in SarRead
    BY <1>3, <1>4 DEF PushSar, SarRead
  <2> QED
    BY <1>2, <1>4, <2>1, AppendProperties DEF PushSar, ListsInv
<1>5. CASE PushNoAuth
  <2>1. NoAuthRule(file.protocol, Raw[next]) \in NoAuthRead
    BY <1>3, <1>5 DEF PushNoAuth, NoAuthRead
  <2> QED
    BY <1>2, <1>5, <2>1, AppendProperties DEF PushNoAuth, ListsInv
<1>6. CASE UNCHANGED vars
  BY <1>2, <1>6 DEF vars, ListsInv
<1> QED
  BY <1>4, <1>5, <1>6 DEF Next

LEMMA ListsType == LoopInv /\ ListsInv => TypeOK
<1> SUFFICES ASSUME LoopInv, ListsInv PROVE TypeOK
  OBVIOUS
<1>1. ASSUME NEW i \in DOMAIN rules
      PROVE  rules[i].name \in Names /\ DOMAIN rules[i].sar = SarFields
  <2>1. rules[i] \in SarRead
    BY <1>1, ElementOfSeq DEF ListsInv
  <2> QED
    BY <2>1 DEF SarRead, SarRule, SarAttributes, Names
<1>2. ASSUME NEW i \in DOMAIN noAuthRules
      PROVE  noAuthRules[i].name \in Names
  <2>1. noAuthRules[i] \in NoAuthRead
    BY <1>2 DEF ListsInv
  <2> QED
    BY <2>1 DEF NoAuthRead, NoAuthRule, Names
<1> QED
  BY <1>1, <1>2 DEF LoopInv, TypeOK

(* A rule that asks for a permission has the six fields of a review, filled *)
(* or not, and every rule of a list is one of the file.                     *)
THEOREM TypeCorrect == Spec => []TypeOK
<1>1. Init => ListsInv
  BY DEF Init, ListsInv
<1> QED
  BY <1>1, NextLists, ListsType, Invariance, PTL DEF Spec
-----------------------------------------------------------------------------
(* Later sources override: what each source binds, and how they are merged. *)
LEMMA ExtendWins ==
    ASSUME NEW f, NEW B, LastOneWins(f, B), NEW g, NEW C, LastOneWins(g, C),
           \A b \in B, c \in C : Later(c, b)
    PROVE  LastOneWins(Extend(f, g), B \union C)
<1> DEFINE last(b, S) == \A c \in S : c.name = b.name => ~Later(c, b)
<1>1. /\ DOMAIN f = {b.name : b \in B} /\ \A b \in B : last(b, B) => f[b.name] = b.value
      /\ DOMAIN g = {c.name : c \in C} /\ \A c \in C : last(c, C) => g[c.name] = c.value
  BY Zenon DEF LastOneWins
<1>2. Extend(f, g) = [y \in DOMAIN f \union DOMAIN g |-> IF y \in DOMAIN g THEN g[y] ELSE f[y]]
  BY DEF Extend
<1>3. DOMAIN Extend(f, g) = {b.name : b \in B \union C}
  BY <1>1, <1>2
<1>4. ASSUME NEW b \in B \union C, last(b, B \union C)
      PROVE  Extend(f, g)[b.name] = b.value
  <2>1. last(b, B) /\ last(b, C) /\ b.name \in DOMAIN f \union DOMAIN g
    BY <1>1, <1>4
  <2>2. CASE b.name \in DOMAIN g
    <3>1. PICK c \in C : c.name = b.name
      BY <1>1, <2>2
    <3>2. b \in C
      BY <1>4, <2>1, <3>1
    <3> QED
      BY <1>1, <1>2, <2>1, <2>2, <3>2
  <2>3. CASE b.name \notin DOMAIN g
    <3>1. b \in B
      BY <1>1, <1>4, <2>3
    <3> QED
      BY <1>1, <1>2, <2>1, <2>3, <3>1
  <2> QED
    BY <2>2, <2>3
<1> QED
  BY <1>3, <1>4, Zenon DEF LastOneWins

LEMMA InsertWins ==
    ASSUME NEW f, NEW B, LastOneWins(f, B), NEW c, \A b \in B : Later(c, b)
    PROVE  LastOneWins(Insert(f, c.name, c.value), B \union {c})
<1> DEFINE last(b, S) == \A d \in S : d.name = b.name => ~Later(d, b)
           h == Insert(f, c.name, c.value)
<1>1. DOMAIN f = {b.name : b \in B} /\ \A b \in B : last(b, B) => f[b.name] = b.value
  BY Zenon DEF LastOneWins
<1>2. h = [y \in DOMAIN f \union {c.name} |-> IF y = c.name THEN c.value ELSE f[y]]
  BY DEF Insert
<1>3. DOMAIN h = {b.name : b \in B \union {c}}
  <2>1. DOMAIN h = DOMAIN f \union {c.name}
    BY <1>2
  <2> HIDE DEF h
  <2> QED
    BY <1>1, <2>1
<1>4. ASSUME NEW b \in B \union {c}, last(b, B \union {c})
      PROVE  h[b.name] = b.value
  <2>1. CASE b = c
    BY <1>2, <2>1
  <2>2. CASE b # c
    <3>1. b \in B /\ last(b, B)
      BY <1>4, <2>2
    <3>2. b.name # c.name
      BY <1>4, <3>1
    <3> QED
      BY <1>1, <1>2, <3>1, <3>2
  <2> QED
    BY <2>1, <2>2
<1> QED
  BY <1>3, <1>4, Zenon DEF LastOneWins

(* Of the entries of one source.                                            *)
LEMMA EntriesWin ==
    ASSUME NEW source \in Nat, NEW entries, NEW get,
           Len(entries) \in Nat, DOMAIN entries = 1..Len(entries)
    PROVE  LastOneWins(BoundBy(entries, get), OfEntries(source, entries, get))
<1> DEFINE bound == OfEntries(source, entries, get)
           f == BoundBy(entries, get)
           binders == {j \in 1..Len(entries) : Binds(entries[j])}
           of(i) == Binding(source, i, entries[i].value.text, get[entries[i].name])
<1>1. /\ DOMAIN f = {entries[i].value.text : i \in binders}
      /\ \A i \in binders :
             (\A j \in binders : entries[j].value.text = entries[i].value.text => j <= i) =>
                 f[entries[i].value.text] = get[entries[i].name]
  <2>1. LastOf(f, entries, get, Len(entries))
    BY BoundByIsLast
  <2> QED
    BY <2>1, Zenon DEF LastOf
<1>2. bound = {of(i) : i \in binders}
  BY Zenon DEF OfEntries
<1>3. \A i : /\ of(i).name = entries[i].value.text /\ of(i).value = get[entries[i].name]
             /\ of(i).source = source /\ of(i).at = i
  BY DEF Binding
<1> HIDE DEF bound, f, of
<1>4. DOMAIN f = {b.name : b \in bound}
  BY <1>1, <1>2, <1>3
<1>5. ASSUME NEW b \in bound, \A c \in bound : c.name = b.name => ~Later(c, b)
      PROVE  f[b.name] = b.value
  <2>1. PICK i \in binders : b = of(i)
    BY <1>2
  <2>2. ASSUME NEW j \in binders, entries[j].value.text = entries[i].value.text
        PROVE  j <= i
    <3>1. of(j) \in bound /\ of(j).name = b.name
      BY <1>2, <1>3, <2>1, <2>2
    <3>2. ~Later(of(j), of(i))
      BY <1>5, <2>1, <3>1
    <3> QED
      BY <1>3, <3>2 DEF Later
  <2> QED
    BY <1>1, <1>3, <2>1, <2>2
<1> QED
  BY <1>4, <1>5, Zenon DEF LastOneWins, bound, f

(* Of the path: the last segment of a name.                                 *)
LEMMA PathWins ==
    ASSUME NEW path, DOMAIN path \subseteq Nat, NEW pieces,
           CheckPath(path, pieces).verdict = "match"
    PROVE  LastOneWins(CheckPath(path, pieces).vars, OfPath(path, pieces))
<1> DEFINE captured == Captured(path)
           last(x) == Max({i \in captured : path[i].text = x})
           f == [x \in {path[i].text : i \in captured} |-> pieces[last(x)]]
           of(i) == Binding(1, i, path[i].text, pieces[i])
           bound == OfPath(path, pieces)
<1>1. CheckPath(path, pieces).vars = f
  BY DEF CheckPath, Match, NoMatch, Panics
<1>2. captured \subseteq Nat
  BY DEF Captured, Scanned
<1>3. bound = {of(i) : i \in captured}
  BY Zenon DEF OfPath
<1>4. \A i : /\ of(i).name = path[i].text /\ of(i).value = pieces[i]
             /\ of(i).source = 1 /\ of(i).at = i
  BY DEF Binding
<1> HIDE DEF captured, bound, of, last
<1>5. DOMAIN f = {b.name : b \in bound}
  BY <1>3, <1>4
<1>6. ASSUME NEW b \in bound, \A c \in bound : c.name = b.name => ~Later(c, b)
      PROVE  f[b.name] = b.value
  <2>1. PICK i \in captured : b = of(i)
    BY <1>3
  <2>2. ASSUME NEW j \in captured, path[j].text = path[i].text
        PROVE  j <= i
    <3>1. of(j) \in bound /\ of(j).name = b.name
      BY <1>3, <1>4, <2>1, <2>2
    <3>2. ~Later(of(j), of(i))
      BY <1>6, <2>1, <3>1
    <3> QED
      BY <1>2, <1>4, <3>2 DEF Later
  <2>3. last(path[i].text) = i
    <3> DEFINE S == {j \in captured : path[j].text = path[i].text}
    <3>1. /\ i \in S /\ \A j \in S : i >= j
          /\ \A k \in S : (\A j \in S : k >= j) => k = i
      BY <1>2, <2>2
    <3> HIDE DEF S
    <3>2. Max(S) = i
      BY <3>1, Zenon DEF Max
    <3> QED
      BY <3>2 DEF last, S
  <2> QED
    BY <1>4, <2>1, <2>3
<1> QED
  BY <1>1, <1>5, <1>6, Zenon DEF LastOneWins, bound

-----------------------------------------------------------------------------
(* What the deserializers make of a rule's match.                           *)
Compiled(protocol, m) ==
    /\ Len(m.headers) \in Nat /\ DOMAIN m.headers = 1..Len(m.headers)
    /\ protocol = "http" =>
           /\ Len(m.query) \in Nat /\ DOMAIN m.query = 1..Len(m.query)
           /\ m.path # None => DOMAIN m.path \subseteq Nat

LEMMA EntitiesType ==
    ASSUME NEW entries, IsList(entries)
    PROVE  Len(Entities(entries)) \in Nat /\ DOMAIN Entities(entries) = 1..Len(Entities(entries))
<1> DEFINE E == {Entity(entries[i]) : i \in DOMAIN entries}
<1>1. Entities(entries) \in Seq(E)
  <2>1. CASE entries = None
    BY <2>1 DEF Entities
  <2>2. CASE entries # None
    <3>1. Len(entries) \in Nat /\ DOMAIN entries = 1..Len(entries)
      BY <2>2, LenProperties DEF IsList
    <3>2. Entities(entries) \in [1..Len(entries) -> E]
      BY <2>2, <3>1 DEF Entities
    <3> HIDE DEF E
    <3> QED
      BY <3>1, <3>2, SeqDef
  <2> QED
    BY <2>1, <2>2
<1> HIDE DEF E
<1> QED
  BY <1>1, LenProperties

LEMMA RulesAreCompiled ==
    ASSUME LoopInv, ListsInv, NEW i \in DOMAIN rules
    PROVE  Compiled(file.protocol, rules[i].matches)
<1>1. rules[i] \in SarRead
  BY ElementOfSeq DEF ListsInv
<1>2. PICK k \in DOMAIN Raw : rules[i] = SarRule(file.protocol, Raw[k])
  BY <1>1 DEF SarRead
<1> DEFINE m == Raw[k].matches
<1>3. IsList(m.headers) /\ (file.protocol = "http" => IsList(m.path) /\ IsList(m.query))
  BY FilesAssumption DEF LoopInv, Raw
<1>4. rules[i].matches = RequestMatch(file.protocol, m)
  BY <1>2 DEF SarRule
<1> HIDE DEF m
<1>5. RequestMatch(file.protocol, m).headers = Entities(m.headers)
  BY DEF RequestMatch, HttpRequestMatch, GrpcRequestMatch
<1>6. ASSUME file.protocol = "http"
      PROVE  /\ RequestMatch(file.protocol, m).query = Entities(m.query)
             /\ RequestMatch(file.protocol, m).path =
                    IF m.path = None THEN None ELSE PathSegments(m.path)
  BY <1>6 DEF RequestMatch, HttpRequestMatch
<1>7. ASSUME file.protocol = "http", m.path # None
      PROVE  DOMAIN PathSegments(m.path) \subseteq Nat
  <2>1. Len(m.path) \in Nat
    BY <1>3, <1>7, LenProperties DEF IsList
  <2>2. PathSegments(m.path) \in Seq({FromStr(m.path[n]) : n \in 1..Len(m.path)})
    BY <2>1, PathSegmentsType
  <2> QED
    BY <2>2, LenProperties
<1>8. Compiled(file.protocol, RequestMatch(file.protocol, m))
  BY <1>3, <1>5, <1>6, <1>7, EntitiesType DEF Compiled
<1> QED
  BY <1>4, <1>8

LEMMA MatchEntityBinds ==
    ASSUME NEW entries, NEW get, MatchEntity(entries, get).verdict # "none"
    PROVE  MatchEntity(entries, get).vars = BoundBy(entries, get)
BY DEF MatchEntity, Match, NoMatch

Source(bound, n) == \A b \in bound : b.source = n

LEMMA SourcesInOrder ==
    ASSUME NEW entries, NEW get, NEW n, NEW path, NEW pieces
    PROVE  Source(OfEntries(n, entries, get), n) /\ Source(OfPath(path, pieces), 1)
BY DEF Source, OfEntries, OfPath, Binding

(* What the two check_rule bind, merged in the order of the code.           *)
LEMMA HttpRuleWins ==
    ASSUME NEW m, NEW q, q.protocol = "http", Compiled("http", m),
           CheckHttpRule(m, q).verdict = "match"
    PROVE  LastOneWins(CheckHttpRule(m, q).vars, Bindings(m, q))
<1> DEFINE getHeader == [h \in NamesIn(m.headers) |-> GetHeader(q, h)]
           getQuery == [p \in NamesIn(m.query) |-> GetQuery(q, p)]
           path == IF m.path = None THEN Match(Empty) ELSE CheckPath(m.path, PathToVec(q.path))
           headers == MatchEntity(m.headers, getHeader)
           query == MatchEntity(m.query, getQuery)
           P == IF m.path = None THEN {} ELSE OfPath(m.path, PathToVec(q.path))
           H == OfEntries(2, m.headers, getHeader)
           Q == OfEntries(3, m.query, getQuery)
           asked == Binding(4, 1, "path", Text(q.path))
           method == Binding(4, 2, "method", q.method)
           merged == Extend(Extend(path.vars, headers.vars), query.vars)
<1>1. /\ path.verdict = "match" /\ headers.verdict # "none" /\ query.verdict # "none"
      /\ CheckHttpRule(m, q).vars = Insert(Insert(merged, "path", Text(q.path)),
                                           "method", q.method)
  <2> HIDE DEF path, headers, query
  <2>1. CheckHttpRule(m, q) =
            IF path.verdict # "match" THEN path
            ELSE IF \/ ~(m.methods = None \/ \E x \in m.methods : Lower(x) = Lower(q.method))
                    \/ headers.verdict = "none" \/ query.verdict = "none" THEN NoMatch
            ELSE Match(Insert(Insert(merged, "path", Text(q.path)), "method", q.method))
    BY Zenon DEF CheckHttpRule, path, headers, query
  <2> HIDE DEF merged
  <2> QED
    BY <2>1 DEF Match, NoMatch
<1>2. Source(P, 1) /\ Source(H, 2) /\ Source(Q, 3)
  <2>1. Source({}, 1)
    BY DEF Source
  <2> QED
    BY <2>1, SourcesInOrder, Zenon
<1>3. LastOneWins(path.vars, P)
  <2>1. CASE m.path = None
    <3>1. LastOneWins(Empty, {})
      BY DEF LastOneWins, Empty
    <3> QED
      BY <2>1, <3>1 DEF Match
  <2>2. CASE m.path # None
    <3>1. LastOneWins(CheckPath(m.path, PathToVec(q.path)).vars, OfPath(m.path, PathToVec(q.path)))
      BY <1>1, <2>2, PathWins DEF Compiled
    <3> QED
      BY <2>2, <3>1
  <2> QED
    BY <2>1, <2>2
<1>4. LastOneWins(headers.vars, H) /\ LastOneWins(query.vars, Q)
  <2> HIDE DEF getHeader, getQuery
  <2>1. headers.vars = BoundBy(m.headers, getHeader) /\ query.vars = BoundBy(m.query, getQuery)
    BY <1>1, MatchEntityBinds
  <2>2. /\ LastOneWins(BoundBy(m.headers, getHeader), H)
        /\ LastOneWins(BoundBy(m.query, getQuery), Q)
    BY EntriesWin DEF Compiled
  <2> QED
    BY <2>1, <2>2
<1>5. asked.source = 4 /\ asked.at = 1 /\ asked.name = "path" /\ asked.value = Text(q.path)
  BY DEF Binding
<1>6. method.source = 4 /\ method.at = 2 /\ method.name = "method" /\ method.value = q.method
  BY DEF Binding
<1>7. Bindings(m, q) = ((((P \union H) \union Q) \union {asked}) \union {method})
  <2>1. Bindings(m, q) = UNION {P, H, Q, {asked, method}}
    BY Zenon DEF Bindings
  <2> HIDE DEF P, H, Q, asked, method
  <2> QED
    BY <2>1
<1> HIDE DEF path, headers, query, P, H, Q, asked, method
<1>8. LastOneWins(Extend(path.vars, headers.vars), P \union H)
  <2>1. \A b \in P, c \in H : Later(c, b)
    BY <1>2 DEF Source, Later
  <2> QED
    BY <1>3, <1>4, <2>1, ExtendWins
<1>9. LastOneWins(merged, (P \union H) \union Q)
  <2>1. \A b \in P \union H, c \in Q : Later(c, b)
    BY <1>2 DEF Source, Later
  <2> QED
    BY <1>4, <1>8, <2>1, ExtendWins
<1> HIDE DEF merged
<1>10. LastOneWins(Insert(merged, asked.name, asked.value), ((P \union H) \union Q) \union {asked})
  <2>1. \A b \in (P \union H) \union Q : Later(asked, b)
    BY <1>2, <1>5 DEF Source, Later
  <2> QED
    BY <1>9, <2>1, InsertWins
<1>11. LastOneWins(Insert(Insert(merged, asked.name, asked.value), method.name, method.value),
                  (((P \union H) \union Q) \union {asked}) \union {method})
  <2>1. \A b \in ((P \union H) \union Q) \union {asked} : Later(method, b)
    BY <1>2, <1>5, <1>6 DEF Source, Later
  <2> QED
    BY <1>10, <2>1, InsertWins
<1> QED
  BY <1>1, <1>5, <1>6, <1>7, <1>11

LEMMA GrpcRuleWins ==
    ASSUME NEW m, NEW q, q.protocol # "http", Compiled(q.protocol, m),
           CheckGrpcRule(m, q).verdict = "match"
    PROVE  LastOneWins(CheckGrpcRule(m, q).vars, Bindings(m, q))
<1> DEFINE get == [h \in NamesIn(m.headers) |-> GetHeader(q, h)]
           parsed == ParseGrpcPath(q.path)
           headers == MatchEntity(m.headers, get)
           H == OfEntries(2, m.headers, get)
           service == Binding(4, 1, "service", parsed[1])
           method == Binding(4, 2, "grpc_method", parsed[2])
<1>1. /\ headers.verdict # "none"
      /\ CheckGrpcRule(m, q).vars = Insert(Insert(headers.vars, "service", parsed[1]),
                                           "grpc_method", parsed[2])
  <2> HIDE DEF headers, parsed
  <2>1. CheckGrpcRule(m, q) =
            IF \/ m.service # None /\ m.service # parsed[1]
               \/ m.methods # None /\ parsed[2] \notin m.methods
               \/ headers.verdict = "none"
              THEN NoMatch
              ELSE Match(Insert(Insert(headers.vars, "service", parsed[1]),
                                "grpc_method", parsed[2]))
    BY Zenon DEF CheckGrpcRule, headers, parsed
  <2> QED
    BY <2>1 DEF Match, NoMatch
<1>2. Source(H, 2)
  BY SourcesInOrder, Zenon
<1>3. LastOneWins(headers.vars, H)
  <2> HIDE DEF get
  <2>1. headers.vars = BoundBy(m.headers, get)
    BY <1>1, MatchEntityBinds
  <2>2. LastOneWins(BoundBy(m.headers, get), H)
    BY EntriesWin DEF Compiled
  <2> QED
    BY <2>1, <2>2
<1>4. service.source = 4 /\ service.at = 1 /\ service.name = "service" /\ service.value = parsed[1]
  BY DEF Binding
<1>5. /\ method.source = 4 /\ method.at = 2
      /\ method.name = "grpc_method" /\ method.value = parsed[2]
  BY DEF Binding
<1>6. Bindings(m, q) = (H \union {service}) \union {method}
  <2>1. Bindings(m, q) = UNION {H, {service, method}}
    BY Zenon DEF Bindings
  <2> HIDE DEF H, service, method
  <2> QED
    BY <2>1
<1> HIDE DEF headers, parsed, H, service, method
<1>7. LastOneWins(Insert(headers.vars, service.name, service.value), H \union {service})
  <2>1. \A b \in H : Later(service, b)
    BY <1>2, <1>4 DEF Source, Later
  <2> QED
    BY <1>3, <2>1, InsertWins
<1>8. LastOneWins(Insert(Insert(headers.vars, service.name, service.value),
                        method.name, method.value),
                 (H \union {service}) \union {method})
  <2>1. \A b \in H \union {service} : Later(method, b)
    BY <1>2, <1>4, <1>5 DEF Source, Later
  <2> QED
    BY <1>7, <2>1, InsertWins
<1> QED
  BY <1>1, <1>4, <1>5, <1>6, <1>8

LEMMA LastWins == LoopInv /\ ListsInv => LastBindingWins
<1> SUFFICES ASSUME LoopInv, ListsInv, NEW q \in Requests, NEW i \in DOMAIN rules,
                    q.protocol = file.protocol, CheckRule(rules[i].matches, q).verdict = "match"
             PROVE  LastOneWins(CheckRule(rules[i].matches, q).vars,
                                Bindings(rules[i].matches, q))
  BY Zenon DEF LastBindingWins
<1>1. Compiled(q.protocol, rules[i].matches)
  BY RulesAreCompiled
<1>2. CASE q.protocol = "http"
  BY <1>1, <1>2, HttpRuleWins DEF CheckRule
<1>3. CASE q.protocol # "http"
  BY <1>1, <1>3, GrpcRuleWins DEF CheckRule
<1> QED
  BY <1>2, <1>3

(* Whatever a rule captures, and under whatever names, a variable has the   *)
(* value of the last place that binds it.                                   *)
THEOREM LastPlaceWins == Spec => []LastBindingWins
<1>1. Init => ListsInv
  BY DEF Init, ListsInv
<1> QED
  BY <1>1, NextLists, LastWins, Invariance, PTL DEF Spec

=============================================================================
