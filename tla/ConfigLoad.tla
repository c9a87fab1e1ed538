----------------------------- MODULE ConfigLoad -----------------------------
(***************************************************************************)
(* Loading the rules of one protocol (src/config/defs.rs): one at a time,   *)
(* in the order of the file, each to the list that its access selects.      *)
(***************************************************************************)
EXTENDS ConfigFile

CONSTANTS
    Files,      \* lists of rules of a file, with the protocol they are under
    Requests    \* requests that the rules are then checked against

\* What YAML has as a list, if it has it.
IsList(l) == l = None \/ l \in Seq(Range(l))

ASSUME FilesAssumption ==
    \A f \in Files :
        /\ f.rules \in Seq(Range(f.rules))
        /\ \A i \in DOMAIN f.rules :
               LET m == f.rules[i].matches
               IN  /\ IsList(m.headers)
                   /\ f.protocol = "http" => IsList(m.path) /\ IsList(m.query)

VARIABLES
    file,         \* the protocol and its rules, as in the file
    next,         \* the rule that the loop is at
    rules,        \* SarRules read so far
    noAuthRules   \* NoAuthRules read so far

vars == <<file, next, rules, noAuthRules>>

Raw == file.rules

Names == {Raw[i].name : i \in DOMAIN Raw}

TypeOK ==
    /\ file \in Files
    /\ next \in 1..Len(Raw) + 1
    /\ \A i \in DOMAIN rules : /\ rules[i].name \in Names
                               /\ DOMAIN rules[i].sar = SarFields
    /\ \A i \in DOMAIN noAuthRules : noAuthRules[i].name \in Names

Init == file \in Files /\ next = 1 /\ rules = <<>> /\ noAuthRules = <<>>

PushSar ==
    /\ next <= Len(Raw) /\ Raw[next].access # NoAuth
    /\ rules' = Append(rules, SarRule(file.protocol, Raw[next]))
    /\ next' = next + 1
    /\ UNCHANGED <<file, noAuthRules>>

\* Mutant: the list is built from its end.
PushNoAuthFirst ==
    /\ next <= Len(Raw) /\ Raw[next].access = NoAuth
    /\ noAuthRules' = <<NoAuthRule(file.protocol, Raw[next])>> \o noAuthRules
    /\ next' = next + 1
    /\ UNCHANGED <<file, rules>>

PushNoAuth ==
    /\ next <= Len(Raw) /\ Raw[next].access = NoAuth
    /\ noAuthRules' = Append(noAuthRules, NoAuthRule(file.protocol, Raw[next]))
    /\ next' = next + 1
    /\ UNCHANGED <<file, rules>>

Next == PushSar \/ PushNoAuth

Spec == Init /\ [][Next]_vars

Loaded == next > Len(Raw)

-----------------------------------------------------------------------------
(* Checking one of the two lists, evaluate_request decides by the rule that *)
(* comes first in the file of those with that access that match             *)
(* (utils/proxy.rs:23-50): a rule of the other kind shadows none.           *)
FirstInFileDecides ==
    Loaded => \A q \in Requests : q.protocol = file.protocol =>
        LET matching(open) ==
                {i \in DOMAIN Raw :
                    /\ (Raw[i].access = NoAuth) = open
                    /\ CheckRule(RequestMatch(q.protocol, Raw[i].matches), q).verdict # "none"}
            decides(list, I) ==
                FirstMatch(list, q).rule = IF I = {} THEN None
                                           ELSE ReadRule(q.protocol, Raw[Min(I)])
        IN  decides(rules, matching(FALSE)) /\ decides(noAuthRules, matching(TRUE))

(* The invariant that is inductive: the two lists are what the gateway is   *)
(* modelled with, as far as the loop has got (defs.rs:154-178).             *)
LoopInv ==
    /\ file \in Files
    /\ next \in 1..Len(Raw) + 1
    /\ rules = ReadUpTo(file.protocol, Raw, FALSE)[next - 1]
    /\ noAuthRules = ReadUpTo(file.protocol, Raw, TRUE)[next - 1]

\* The bindings that a match makes, by source and place.
Binding(source, at, name, value) ==
    [source |-> source, at |-> at, name |-> name, value |-> value]

OfEntries(source, entries, get) ==
    {Binding(source, i, entries[i].value.text, get[entries[i].name]) :
        i \in {j \in DOMAIN entries : Binds(entries[j])}}

OfPath(path, pieces) == {Binding(1, i, path[i].text, pieces[i]) : i \in Captured(path)}

Bindings(m, q) ==
    LET headers == OfEntries(2, m.headers, [h \in NamesIn(m.headers) |-> GetHeader(q, h)])
        query   == OfEntries(3, m.query, [p \in NamesIn(m.query) |-> GetQuery(q, p)])
    IN  IF q.protocol = "http"
          THEN UNION {IF m.path = None THEN {} ELSE OfPath(m.path, PathToVec(q.path)),
                      headers, query,
                      {Binding(4, 1, "path", Text(q.path)), Binding(4, 2, "method", q.method)}}
          ELSE UNION {headers,
                      {Binding(4, 1, "service", ParseGrpcPath(q.path)[1]),
                       Binding(4, 2, "grpc_method", ParseGrpcPath(q.path)[2])}}

Later(b, c) == b.source > c.source \/ (b.source = c.source /\ b.at > c.at)

LastOneWins(bindings, bound) ==
    /\ DOMAIN bindings = {b.name : b \in bound}
    /\ \A b \in bound :
           (\A c \in bound : c.name = b.name => ~Later(c, b)) => bindings[b.name] = b.value

(* A variable has the value of the last place of its rule that binds it: a  *)
(* header overrides the path, the query both, and the built-in variables    *)
(* all of them (http/rule.rs:51-82, grpc/rule.rs:12-33).                    *)
LastBindingWins ==
    Loaded => \A q \in Requests, i \in DOMAIN rules : q.protocol = file.protocol =>
        LET check == CheckRule(rules[i].matches, q)
        IN  check.verdict = "match" => LastOneWins(check.vars, Bindings(rules[i].matches, q))

(* README.md:113: an entry with a value "requires the field to be present   *)
(* and either captures or matches its value".                               *)
ValueIsMatched ==
    Loaded => \A q \in Requests, i \in DOMAIN Raw :
        LET m == Raw[i].matches
            entries == IF m.headers = None THEN <<>> ELSE m.headers
        IN  q.protocol = file.protocol
                /\ CheckRule(RequestMatch(q.protocol, m), q).verdict = "match" =>
                \A j \in DOMAIN entries :
                    entries[j].value # None /\ ~(entries[j].value.open /\ entries[j].value.close) =>
                        GetHeader(q, entries[j].name) = Rendered(entries[j].value)
=============================================================================
