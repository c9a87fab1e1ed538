------------------------------- MODULE Rules -------------------------------
(***************************************************************************)
(* Matching a request against one rule, and what the match binds: the       *)
(* check_rule functions of src/http and src/grpc, and the helpers in        *)
(* src/utils that evaluate_request gives them.                              *)
(*                                                                         *)
(* A path is the sequence of its pieces between slashes, empty ones         *)
(* included.  An Option is its value or None; a list of entries that the    *)
(* code may not have is the empty one, which it treats alike.               *)
(***************************************************************************)
EXTENDS Option, Integers, Sequences, FiniteSetsExt, SequencesExt

Variable(x) == [kind |-> "Variable", text |-> x]
Literal(x)  == [kind |-> "Literal", text |-> x]

\* HashMap::insert and HashMap::extend, of ConfigVariables.
Insert(f, x, v) == [y \in DOMAIN f \union {x} |-> IF y = x THEN v ELSE f[y]]

\* Mutant: a variable keeps its first value.
ExtendKeeping(f, g) == [y \in DOMAIN f \union DOMAIN g |-> IF y \in DOMAIN f THEN f[y] ELSE g[y]]

Extend(f, g) == [y \in DOMAIN f \union DOMAIN g |-> IF y \in DOMAIN g THEN g[y] ELSE f[y]]

Empty == [y \in {} |-> None]

\* What a check returns: Some of the variables, None, or not at all.
Match(vars) == [verdict |-> "match", vars |-> vars]
NoMatch == [verdict |-> "none", vars |-> Empty]
Panics  == [verdict |-> "panic", vars |-> Empty]

-----------------------------------------------------------------------------
(* check_path: segment by segment up to the pattern's end or its first **.  *)

PathToVec(path) == SelectSeq(path, LAMBDA piece : piece # "")

\* The positions of the pattern that its loop looks at.
Scanned(pattern) == {i \in DOMAIN pattern : \A j \in 1..i : pattern[j] # Literal("**")}

Captured(pattern) == {i \in Scanned(pattern) : pattern[i].kind = "Variable"}

Fits(segment, piece) == segment.kind = "Literal" => segment.text \in {"*", piece}

\* Mutant: a trailing ** stands for at least one piece.
LastIsVariable(pattern) == pattern[Len(pattern)] = Variable("*")

LastIsAny(pattern) == pattern[Len(pattern)] \in {Literal("**"), Variable("*")}

\* Mutant: one piece may be missing, whatever the last segment is.
TooShortByTwo(pattern, pieces) == Len(pattern) > Len(pieces) + 1

TooShort(pattern, pieces) ==
    \/ Len(pattern) > Len(pieces) + 1
    \/ Len(pattern) = Len(pieces) + 1 /\ ~LastIsAny(pattern)

\* An empty pattern has no last segment; a last segment {*} is let through by
\* TooShort but has no piece to bind.
CheckPath(pattern, pieces) ==
    LET fits == \A i \in Scanned(pattern) : i <= Len(pieces) => Fits(pattern[i], pieces[i])
        beyond == \E i \in Scanned(pattern) : i > Len(pieces)
        last(x) == Max({i \in Captured(pattern) : pattern[i].text = x})
    IN  IF pattern = <<>> THEN Panics
        ELSE IF TooShort(pattern, pieces) \/ ~fits THEN NoMatch
        ELSE IF beyond THEN Panics
        ELSE Match([x \in {pattern[i].text : i \in Captured(pattern)} |-> pieces[last(x)]])

-----------------------------------------------------------------------------
(* match_entity: every entry is present, and equal where it has a literal.  *)

Extract(name, binding) == [name |-> name, value |-> binding]
Exists(name) == [name |-> name, value |-> None]

NamesIn(entries) == {entries[i].name : i \in DOMAIN entries}

Binds(e) == e.value # None /\ e.value.kind = "Variable"

\* What the loop has collected after the last of the entries.
BoundBy(entries, get) ==
    LET bound[n \in 0..Len(entries)] ==
            IF n = 0 THEN Empty
            ELSE IF Binds(entries[n])
              THEN Insert(bound[n - 1], entries[n].value.text, get[entries[n].name])
            ELSE bound[n - 1]
    IN  bound[Len(entries)]

MatchEntity(entries, get) ==
    LET holds(e) == /\ get[e.name] # None
                    /\ e.value # None =>
                           (e.value.kind = "Literal" => e.value.text = get[e.name])
    IN  IF \A i \in DOMAIN entries : holds(entries[i])
          THEN Match(BoundBy(entries, get)) ELSE NoMatch

-----------------------------------------------------------------------------
(* What the proxies read of a request.                                      *)

\* The first value of a header, when it is text.
GetHeader(req, name) ==
    LET values == req.headers[name] IN
    IF values = <<>> \/ ~Head(values).text THEN None ELSE Head(values).value

\* Of the pairs that have an = sign, the last of a name.
GetQuery(req, name) ==
    LET pairs == SelectSeq(req.query, LAMBDA p : p.eq /\ p.name = name)
    IN  IF pairs = <<>> THEN None ELSE Last(pairs).value

Text(path) == FoldLeft(LAMBDA text, piece : text \o "/" \o piece, Head(path), Tail(path))

\* One leading slash is dropped, then the last slash parts service and method.
ParseGrpcPath(path) ==
    LET trimmed == IF Len(path) > 1 /\ Head(path) = "" THEN Tail(path) ELSE path IN
    IF Len(trimmed) = 1 THEN <<trimmed[1], "">> ELSE <<Text(Front(trimmed)), Last(trimmed)>>

\* to_lowercase and eq_ignore_ascii_case, on the methods in use.
Lower(method) == CASE method \in {"GET", "Get"}   -> "get"
                   [] method \in {"POST", "Post"} -> "post"
                   [] OTHER -> method

-----------------------------------------------------------------------------
(* The two check_rule.  Later sources of a variable win, the built-in ones  *)
(* last of all.                                                             *)

CheckHttpRule(m, req) ==
    LET path    == IF m.path = None THEN Match(Empty)
                                    ELSE CheckPath(m.path, PathToVec(req.path))
        method  == m.methods = None
                       \/ \E x \in m.methods : Lower(x) = Lower(req.method)
        headers == MatchEntity(m.headers, [h \in NamesIn(m.headers) |-> GetHeader(req, h)])
        query   == MatchEntity(m.query, [q \in NamesIn(m.query) |-> GetQuery(req, q)])
    IN  IF path.verdict # "match" THEN path
        ELSE IF ~method \/ headers.verdict = "none" \/ query.verdict = "none" THEN NoMatch
        ELSE Match(Insert(Insert(Extend(Extend(path.vars, headers.vars), query.vars),
                                 "path", Text(req.path)),
                          "method", req.method))

CheckGrpcRule(m, req) ==
    LET parsed  == ParseGrpcPath(req.path)
        headers == MatchEntity(m.headers, [h \in NamesIn(m.headers) |-> GetHeader(req, h)])
    IN  IF \/ m.service # None /\ m.service # parsed[1]
           \/ m.methods # None /\ parsed[2] \notin m.methods
           \/ headers.verdict = "none"
          THEN NoMatch
          ELSE Match(Insert(Insert(headers.vars, "service", parsed[1]),
                            "grpc_method", parsed[2]))

CheckRule(m, req) == IF req.protocol = "http" THEN CheckHttpRule(m, req)
                                                      ELSE CheckGrpcRule(m, req)

-----------------------------------------------------------------------------
\* Mutant: a rule further down the list overrides.
LastMatch(rules, req) ==
    LET i == SelectLastInSeq(rules, LAMBDA rule : CheckRule(rule.matches, req).verdict # "none")
    IN  IF i = 0 THEN [rule |-> None, check |-> NoMatch]
                 ELSE [rule |-> rules[i], check |-> CheckRule(rules[i].matches, req)]

(* evaluate_request's loops stop at the first rule that matches.            *)
FirstMatch(rules, req) ==
    LET i == SelectInSeq(rules, LAMBDA rule : CheckRule(rule.matches, req).verdict # "none")
    IN  IF i = 0 THEN [rule |-> None, check |-> NoMatch]
                 ELSE [rule |-> rules[i], check |-> CheckRule(rules[i].matches, req)]

Resolve(binding, vars) ==
    IF binding = None THEN None
    ELSE IF binding.kind = "Literal" THEN binding.text
    ELSE IF binding.text \in DOMAIN vars THEN vars[binding.text] ELSE None

CompileResourceAttributes(sar, vars) == [field \in DOMAIN sar |-> Resolve(sar[field], vars)]
=============================================================================
